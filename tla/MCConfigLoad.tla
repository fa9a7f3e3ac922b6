---------------------------- MODULE MCConfigLoad ----------------------------
(***************************************************************************)
(* A small system for ConfigLoad: a root file system "/r" with two         *)
(* programs that share a library reached through a symlink, a script, a    *)
(* directory, and some plain files.                                        *)
(***************************************************************************)
EXTENDS ConfigLoad, TLC

MCSources == {"app", "tool", "script", "gone", "dir", "file", "so", "libc", "libc6",
              "ld", "dir/a", "dir/b", "host", "loop"}
MCPaths == {"/r/app", "/r/tool", "/r/script", "/r/gone", "/r/dir", "/r/file", "/r/so",
            "/r/libc", "/r/libc6", "/r/ld", "/r/dir/a", "/r/dir/b", "/r/host", "/r/loop"}

MCTexts == MCSources \cup MCPaths

PathSources ==
    "/r/app" :> "app" @@ "/r/tool" :> "tool" @@ "/r/script" :> "script" @@
    "/r/gone" :> "gone" @@ "/r/dir" :> "dir" @@ "/r/file" :> "file" @@
    "/r/so" :> "so" @@ "/r/libc" :> "libc" @@ "/r/libc6" :> "libc6" @@
    "/r/ld" :> "ld" @@ "/r/host" :> "host" @@ "/r/loop" :> "loop" @@ "/r/dir/a" :> "dir/a" @@ "/r/dir/b" :> "dir/b"

(* A source does not begin with the prefix, and below it no path exists that
   does: what is cut off from one is nothing, and the other is as good as gone. *)
MCTrimSrc == [n \in MCTexts |-> IF n \in MCPaths THEN PathSources[n] ELSE n]
MCInPrefix == [n \in MCTexts |-> IF n \in MCPaths THEN "/r/gone"
                                 ELSE CHOOSE p \in MCPaths : PathSources[p] = n]

(* Outside the prefix a path is its own source and destination. *)
MCCleanDst ==
    [n \in MCTexts |->
        CASE n = "dir/a" -> <<"dir", "a">>
          [] n = "dir/b" -> <<"dir", "b">>
          [] n \in MCPaths -> <<"r", MCTrimSrc[n]>>
          [] OTHER -> <<n>>]

(* The library is a symlink, and so is the loader.  "gone" does not exist,
   "host" exists outside the root only, "loop" is a cycle of symlinks. *)
Found(path, links) == [ok |-> TRUE, none |-> FALSE, path |-> path, links |-> links]
Missing(path) == [ok |-> FALSE, none |-> TRUE, path |-> path, links |-> <<>>]
LibLink(name) == <<[dst |-> <<name>>, to |-> "libc6"]>>

MCExpansion ==
    [n \in MCTexts |->
        CASE n = "/r/libc" -> Found("/r/libc6", LibLink("libc"))
          [] n = "/r/ld" -> Found("/r/libc6", LibLink("ld"))
          [] n \in {"/r/gone", "/r/host"} -> Missing(n)
          [] n = "/r/loop" -> [Missing(n) EXCEPT !.none = FALSE]
          [] OTHER -> Found(n, <<>>)]

MCFollow ==
    [n \in MCTexts |->
        CASE n \in {"/r/libc", "/r/ld"} -> Found("/r/libc6", <<>>)
          [] n \in {"gone", "/r/gone", "/r/host"} -> Missing(n)
          [] n = "loop" -> [Missing(n) EXCEPT !.none = FALSE]
          [] OTHER -> Found(n, <<>>)]

MCStat ==
    [n \in MCTexts |->
        CASE n \in {"/r/gone", "gone", "so", "/r/so", "/r/host"} -> [kind |-> "none", own |-> "u", link |-> ""]
          [] n \in {"/r/dir", "dir"} -> [kind |-> "d", own |-> "u", link |-> ""]
          [] n = "/r/libc" -> [kind |-> "l", own |-> "u", link |-> "libc6"]
          [] OTHER -> [kind |-> "f", own |-> "u", link |-> ""]]

MCWalk ==
    [n \in MCTexts |->
        IF n = "dir" THEN <<[file |-> "dir/a", rel |-> <<"a">>],
                            [file |-> "dir/b", rel |-> <<"b">>]>>
        ELSE IF n = "/r/dir" THEN <<[file |-> "/r/dir/a", rel |-> <<"a">>],
                                    [file |-> "/r/dir/b", rel |-> <<"b">>]>>
        ELSE <<>>]

MCMatches ==
    [n \in MCTexts |->
        CASE n = "/r/so" -> [ok |-> TRUE, files |->
                               <<[file |-> "/r/app", rel |-> <<"app">>],
                                 [file |-> "/r/libc", rel |-> <<"libc">>]>>]
          [] n = "/r/gone" -> [ok |-> FALSE, files |-> <<>>]
          [] OTHER -> [ok |-> TRUE, files |-> <<>>]]

MCFindLib == [s \in MCTexts |-> IF s = "so" THEN "libc" ELSE NoFile]
MCPathFiles == [s \in MCTexts |-> IF s = "app" THEN <<"gone", "app">>
                                    ELSE IF s = "tool" THEN <<>> ELSE <<"gone">>]

(* What the resolver finds: both programs need libc, the tool also needs the
   loader, the script is no ELF file, the directory cannot be read. *)
MCResult ==
    [x \in MCTexts \X LibPaths |->
        CASE x[1] = "/r/app" -> [err |-> "ok", libs |-> {"/r/libc"}]
          [] x[1] = "/r/tool" -> [err |-> "ok", libs |-> {"/r/libc", "/r/ld"}]
          [] x[1] = "/r/script" -> [err |-> "format", libs |-> {}]
          [] x[1] = "/r/libc6" -> [err |-> "ok", libs |-> {"/r/libc6"}]
          [] OTHER -> [err |-> "other", libs |-> {}]]

-----------------------------------------------------------------------------
(* Masks: owners for everything and for the library only, a rename, and the
   two kinds of ignore. *)
MCMaskDef ==
    LET all == {<<"app">>, <<"tool">>, <<"libc">>, <<"libc6">>, <<"ld">>, <<"script">>,
                <<"dir">>, <<"dir", "a">>, <<"dir", "b">>, <<"a">>, <<"b">>, <<"file">>,
                <<"x">>, <<"x", "a">>, <<"x", "b">>, <<"x", "app">>, <<"x", "libc">>,
                <<"r", "app">>, <<"y", "x">>}
    IN "owner" :> [kind |-> "mm", re |-> all, own |-> "root"] @@
       "libowner" :> [kind |-> "mm", re |-> {<<"libc6">>}, own |-> "lib"] @@
       "rename" :> [kind |-> "mr", re |-> {<<"libc6">>, <<"file">>, <<"x">>, <<"x", "a">>},
                    to |-> <<"libc6">> :> <<"x">> @@ <<"file">> :> <<"x">> @@
                           <<"x">> :> <<"y", "x">> @@ <<"x", "a">> :> <<"a">>] @@
       "move" :> [kind |-> "mr", re |-> {<<"libc6">>, <<"file">>, <<"x", "a">>},
                  to |-> <<"libc6">> :> <<"x">> @@ <<"file">> :> <<"x">> @@ <<"x", "a">> :> <<"a">>] @@
       "ignore" :> [kind |-> "mi", re |-> {<<"libc">>, <<"dir", "a">>}] @@
       "only" :> [kind |-> "mI", re |-> {<<"app">>, <<"tool">>, <<"libc6">>, <<"x">>}] @@
       "time" :> [kind |-> "mt", re |-> all, time |-> 1] @@
       "libpath" :> [kind |-> "ml", re |-> all, lib |-> "lib"]

MCMasks == DOMAIN MCMaskDef

Line(type, src, dst, own, dstSet) ==
    [type |-> type, src |-> src, dst |-> dst, own |-> own, dstSet |-> dstSet,
     fail |-> FALSE, alts |-> <<>>]
Optional(l) == [l EXCEPT !.fail = TRUE]
Alternatives(l, srcs) == [l EXCEPT !.alts = srcs]
Append1(k) == [mask |-> k, last |-> TRUE, idx |-> 0]
At(k, i) == [mask |-> k, last |-> FALSE, idx |-> i]

(* The lines of the concurrent runs: two programs that share a library, the
   masks that tell their entries apart, and an entry in the library's way. *)
ElfMaskLines == {Append1("libowner"), At("rename", 0), Append1("ignore")}
ElfClearLines == {[all |-> TRUE, idx |-> 0], [all |-> FALSE, idx |-> 0]}
ElfEntryLines == {Line("f", "file", <<"libc6">>, NoOwn, TRUE)}
ElfElfLines == {Line("L", "app", <<"app">>, "u", FALSE),
                Line("L", "tool", <<"x">>, NoOwn, TRUE)}

(* The lines of the run over all types: relative and absolute sources,
   directories, globs with and without matches, alternatives, sources that do
   not exist, and ? for files in the root, outside only, or nowhere.  The
   rename does not apply to its own result. *)
AllMaskLines == {Append1("move"), Append1("ignore"), At("only", 0), At("time", 1)}
AllMasks == {l.mask : l \in AllMaskLines}
ASSUME RenamesAssumption == Masks = AllMasks => RenamesEnd
AllClearLines == {[all |-> FALSE, idx |-> -1], [all |-> FALSE, idx |-> 0]}
OptionalLines ==
    {Optional(Line(t, n, <<n>>, NoOwn, FALSE)) :
        t \in {"f", "fr", "ar"}, n \in {"file", "host", "libc", "gone"}}
AllEntryLines ==
    {Line("f", "file", <<"file">>, NoOwn, FALSE),
     Line("fr", "file", <<"file">>, "u", FALSE),
     Line("fr", "ld", <<"x", "a">>, NoOwn, TRUE),
     Line("a", "/r/libc", <<"x">>, NoOwn, TRUE),
     Line("ar", "file", <<"file">>, NoOwn, FALSE),
     Line("a", "gone", <<"gone">>, NoOwn, FALSE),
     Line("R", "dir", OmitDst, NoOwn, TRUE),
     Line("Rr", "dir", <<"x">>, "u", TRUE),
     Line("rr", "so", <<"x">>, NoOwn, TRUE),
     Line("rr", "so", OmitDst, NoOwn, FALSE),
     Line("rr", "gone", OmitDst, NoOwn, FALSE),
     Alternatives(Line("fr", "gone", <<"gone">>, NoOwn, FALSE), <<"gone", "libc">>),
     Alternatives(Line("f", "host", <<"x">>, NoOwn, TRUE), <<"gone", "host">>),
     Optional(Alternatives(Line("ar", "host", <<"x">>, NoOwn, FALSE), <<"gone", "host">>))}
    \cup OptionalLines
AllElfLines ==
    {Line("L", "app", <<"app">>, "u", FALSE),
     Line("LA", "/r/tool", <<"r", "tool">>, NoOwn, FALSE),
     Line("L", "script", <<"x">>, NoOwn, TRUE),
     Line("L", "dir", <<"dir">>, NoOwn, FALSE),
     Line("rL", "so", <<"so">>, NoOwn, FALSE),
     Line("rL", "gone", <<"gone">>, NoOwn, FALSE),
     Line("i", "so", <<"so">>, NoOwn, FALSE),
     Line("i", "gone", <<"gone">>, NoOwn, FALSE),
     Line("p", "app", <<"app">>, NoOwn, FALSE),
     Line("p", "gone", <<"x">>, NoOwn, TRUE),
     Line("p", "tool", <<"x">>, NoOwn, TRUE)}

(* The lines of the run with -elf.once: sources that several kinds of line
   reach, one whose result is an error that Fallback forgives, and files whose
   sources are links. *)
OnceElfLines == OfType(AllElfLines, {"rL", "i"}) \cup ElfElfLines \cup
                {Line("p", "app", <<"app">>, NoOwn, FALSE),
                 Line("L", "script", <<"x">>, NoOwn, TRUE)}
OnceEntryLines == ElfEntryLines \cup
                  {Line("fr", "libc", <<"libc">>, NoOwn, FALSE),
                   Line("ar", "libc", <<"x">>, NoOwn, TRUE)}

NoLines == {}
=============================================================================
