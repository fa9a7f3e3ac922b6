-------------------------- MODULE CpioWriterProofs --------------------------
(***************************************************************************)
(* The archive stays in step with its reader, and one that was closed is   *)
(* whole, for all names, sizes, times and files that change while they are *)
(* read.                                                                   *)
(***************************************************************************)
EXTENDS CpioWriter, TLAPS

Members == [at : Nat, name : Nat, size : Nat]
Chunks == [kind : {"header", "data", "zeros", "trailer"}, at : Nat, len : Nat]

(* Where the writer is: past the data of the last member that was written so
   far, which began at a multiple of 4. *)
Position ==
    state = "open" =>
        /\ members = <<>> => length = 0
        /\ members # <<>> =>
              LET m == members[Len(members)] IN
              /\ length > 0
              /\ length + remaining = DataAt(m) + m.size

Inv ==
    /\ out \in Seq(Chunks)
    /\ length \in Nat /\ remaining \in Int
    /\ members \in Seq(Members)
    /\ \A i \in DOMAIN members : members[i].at % 4 = 0
    /\ state \in {"open", "closed", "failed", "panicked"}
    /\ Position
    /\ InStep

LEMMA UpAligned ==
    ASSUME NEW n \in Nat
    PROVE  Up4(n) \in Nat /\ Up4(n) >= n /\ Up4(n) % 4 = 0 /\ Up4(n) - n < 4
BY DEF Up4

(* Padding a length is padding what follows a multiple of 4. *)
LEMMA UpShift ==
    ASSUME NEW a \in Nat, a % 4 = 0, NEW n \in Nat
    PROVE  Up4(a + n) = a + Up4(n)
BY DEF Up4

LEMMA ChunkAppended ==
    ASSUME NEW o \in Seq(Chunks), NEW c \in Chunks
    PROVE  Append(o, c) \in Seq(Chunks)
OBVIOUS

(* The data in a list of chunks. *)
DataOf(o) == {o[i] : i \in {j \in DOMAIN o : o[j].kind = "data"}}

LEMMA AppendData ==
    ASSUME NEW o \in Seq(Chunks), NEW c \in Chunks
    PROVE  DataOf(Append(o, c)) = DataOf(o) \cup (IF c.kind = "data" THEN {c} ELSE {})
<1> DEFINE t == Append(o, c)
           n == Len(o)
<1>1. /\ DOMAIN t = 1..(n + 1) /\ DOMAIN o = 1..n /\ n \in Nat
      /\ t[n + 1] = c /\ \A i \in 1..n : t[i] = o[i]
  OBVIOUS
<1> HIDE DEF t, n
<1>2. \A i : i \in 1..(n + 1) <=> i \in 1..n \/ i = n + 1
  BY <1>1
<1> QED
  BY <1>1, <1>2 DEF DataOf, t

(* What the steps of the writer make of an open writer w. *)
LEMMA EmitEffect ==
    ASSUME NEW w, w.state = "open", NEW kind, NEW n
    PROVE  LET r == Emit(w, kind, n) IN
           /\ r.state = "open" /\ r.remaining = w.remaining
           /\ r.length = w.length + n
           /\ r.out = Append(w.out, [kind |-> kind, at |-> w.length, len |-> n])
BY DEF Emit

LEMMA ZerosEffect ==
    ASSUME NEW w, w.state = "open", w.length \in Nat, w.out \in Seq(Chunks), NEW n \in Int
    PROVE  LET r == Zeros(w, n) IN
           /\ r.state \in {"open", "failed", "panicked"}
           /\ r.length \in Nat /\ r.out \in Seq(Chunks) /\ r.remaining = w.remaining
           /\ DataOf(r.out) = DataOf(w.out)
           /\ r.state = "open" => r.length = w.length + n /\ n >= 0
           /\ 0 <= n /\ n < 4 => r.state = "open"
<1>1. CASE n > ZSIZE
  <2>1. Zeros(w, n) = Stop(w, "failed")
    BY <1>1 DEF Zeros
  <2> QED
    BY <1>1, <2>1 DEF Stop, ZSIZE
<1>2. CASE n < 0
  <2>1. Zeros(w, n) = Stop(w, "panicked")
    BY <1>2 DEF Zeros, ZSIZE
  <2> QED
    BY <1>2, <2>1 DEF Stop
<1>3. CASE 0 <= n /\ n <= ZSIZE
  <2>1. Zeros(w, n) = Emit(w, "zeros", n)
    BY <1>3 DEF Zeros, ZSIZE
  <2>2. [kind |-> "zeros", at |-> w.length, len |-> n] \in Chunks
    BY <1>3 DEF Chunks
  <2> DEFINE r == Emit(w, "zeros", n)
  <2>3. /\ r.state = "open" /\ r.remaining = w.remaining
        /\ r.length = w.length + n
        /\ r.out = Append(w.out, [kind |-> "zeros", at |-> w.length, len |-> n])
    BY EmitEffect
  <2>4. r.out \in Seq(Chunks) /\ DataOf(r.out) = DataOf(w.out)
    BY <2>2, <2>3, ChunkAppended, AppendData
  <2> HIDE DEF r
  <2> QED
    BY <1>3, <2>1, <2>3, <2>4 DEF r
<1> QED
  BY <1>1, <1>2, <1>3 DEF ZSIZE

LEMMA PadEffect ==
    ASSUME NEW w, w.state = "open", w.length \in Nat, w.out \in Seq(Chunks)
    PROVE  LET r == Pad4(w) IN
           /\ r.state = "open" /\ r.remaining = w.remaining
           /\ r.length = Up4(w.length)
           /\ r.length \in Nat /\ r.out \in Seq(Chunks)
           /\ DataOf(r.out) = DataOf(w.out)
<1> DEFINE n == (4 - (w.length % 4)) % 4
<1>1. n \in 0..3
  OBVIOUS
<1>2. Up4(w.length) = w.length + n
  BY DEF Up4
<1> HIDE DEF n
<1>3. Pad4(w) = Zeros(w, n)
  BY DEF Pad4, n
<1> DEFINE z == Zeros(w, n)
<1>4. n \in Int /\ 0 <= n /\ n < 4
  BY <1>1
<1>5. /\ z.state = "open" /\ z.length = w.length + n
      /\ z.length \in Nat /\ z.out \in Seq(Chunks) /\ z.remaining = w.remaining
      /\ DataOf(z.out) = DataOf(w.out)
  BY <1>4, ZerosEffect
<1> QED
  BY <1>2, <1>3, <1>5

(* flush brings an open writer to the end of the last member. *)
LEMMA FlushEffect ==
    ASSUME Inv, state = "open"
    PROVE  LET r == Flush(writer) IN
           /\ r.state \in {"open", "failed", "panicked"}
           /\ r.length \in Nat /\ r.out \in Seq(Chunks) /\ r.remaining = remaining
           /\ r.state = "open" => /\ r.length = End /\ r.length % 4 = 0
                                  /\ length = 0 \/ remaining >= 0
                                  /\ DataOf(r.out) = DataOf(out)
<1>1. /\ writer.state = "open" /\ writer.length = length
      /\ writer.remaining = remaining /\ writer.out = out
  BY DEF writer
<1>2. /\ length \in Nat /\ remaining \in Int /\ out \in Seq(Chunks)
      /\ members \in Seq(Members)
  BY DEF Inv
<1>3. CASE length = 0
  <2>1. members = <<>>
    BY <1>3 DEF Inv, Position
  <2>2. Flush(writer) = writer
    BY <1>1, <1>3 DEF Flush
  <2> QED
    BY <1>1, <1>2, <1>3, <2>1, <2>2 DEF End
<1>4. CASE length # 0
  <2> DEFINE z == Zeros(writer, remaining)
             m == members[Len(members)]
  <2>1. members # <<>> /\ Len(members) \in DOMAIN members
    BY <1>2, <1>4 DEF Inv, Position
  <2>2. m.at \in Nat /\ m.name \in Nat /\ m.size \in Nat /\ m.at % 4 = 0
    <3>1. m \in Members
      BY <1>2, <2>1
    <3>2. m.at % 4 = 0
      BY <2>1 DEF Inv
    <3> HIDE DEF m
    <3> QED
      BY <3>1, <3>2 DEF Members
  <2>3. length + remaining = DataAt(m) + m.size
    BY <2>1 DEF Inv, Position
  <2>4. /\ z.state \in {"open", "failed", "panicked"}
        /\ z.length \in Nat /\ z.out \in Seq(Chunks) /\ z.remaining = remaining
        /\ z.state = "open" => z.length = length + remaining /\ remaining >= 0
        /\ DataOf(z.out) = DataOf(out)
    BY <1>1, <1>2, ZerosEffect
  <2>5. Flush(writer) = Pad4(z)
    BY <1>1, <1>4 DEF Flush
  <2> HIDE DEF z, m
  <2>6. CASE z.state # "open"
    BY <2>4, <2>5, <2>6 DEF Pad4, Zeros
  <2>7. CASE z.state = "open"
    <3>1. /\ Pad4(z).state = "open" /\ Pad4(z).remaining = remaining
          /\ Pad4(z).length = Up4(z.length)
          /\ Pad4(z).length \in Nat /\ Pad4(z).out \in Seq(Chunks)
          /\ DataOf(Pad4(z).out) = DataOf(out)
      BY <2>4, <2>7, PadEffect
    <3>2. DataAt(m) \in Nat /\ DataAt(m) % 4 = 0
      <4>1. FIXED + m.name + 1 \in Nat
        BY <2>2 DEF FIXED
      <4>2. Up4(FIXED + m.name + 1) \in Nat /\ Up4(FIXED + m.name + 1) % 4 = 0
        BY <4>1, UpAligned
      <4> QED
        BY <2>2, <4>2 DEF DataAt
    <3>3. Up4(z.length) = DataAt(m) + Up4(m.size)
      BY <2>2, <2>3, <2>4, <2>7, <3>2, UpShift
    <3>4. Up4(z.length) = End
      BY <2>1, <3>3 DEF End, After, m
    <3>5. Up4(z.length) % 4 = 0
      BY <2>4, UpAligned
    <3> QED
      BY <2>4, <2>5, <2>7, <3>1, <3>4, <3>5
  <2> QED
    BY <2>6, <2>7
<1> QED
  BY <1>3, <1>4

(* WriteHeader leaves the writer where the data of the new member begins. *)
LEMMA HeaderEffect ==
    ASSUME Inv, state = "open", NEW name \in Nat, NEW size \in Nat, NEW time \in Int
    PROVE  LET h == Header(writer, name, size, time)
               m == [at |-> Flush(writer).length, name |-> name, size |-> size]
           IN /\ h.state \in {"open", "failed", "panicked"}
              /\ h.length \in Nat /\ h.out \in Seq(Chunks) /\ h.remaining \in Int
              /\ h.state = "open" =>
                    /\ h.length = DataAt(m) /\ h.remaining = size /\ h.length > 0
                    /\ m \in Members /\ m.at = End /\ m.at % 4 = 0
                    /\ Flush(writer).state = "open" /\ DataOf(h.out) = DataOf(out)
<1> DEFINE f == Flush(writer)
           e == Emit(f, "header", FIXED + name + 1)
           m == [at |-> f.length, name |-> name, size |-> size]
<1>1. /\ f.state \in {"open", "failed", "panicked"}
      /\ f.length \in Nat /\ f.out \in Seq(Chunks) /\ f.remaining = remaining
      /\ f.state = "open" => /\ f.length = End /\ f.length % 4 = 0
                             /\ DataOf(f.out) = DataOf(out)
  BY FlushEffect
<1>2. remaining \in Int
  BY DEF Inv
<1>3. m.at = f.length /\ m.name = name /\ m.size = size /\ m \in Members
  BY <1>1 DEF Members
<1> HIDE DEF f, m
<1>4. CASE f.state # "open"
  <2>1. Header(writer, name, size, time) = f
    BY <1>4 DEF Header, f
  <2> QED
    BY <1>1, <1>2, <1>4, <2>1
<1>5. CASE f.state = "open" /\ time < 0
  <2>1. Header(writer, name, size, time) = Stop(f, "panicked")
    BY <1>5 DEF Header, f
  <2> QED
    BY <1>1, <1>2, <2>1 DEF Stop
<1>6. CASE f.state = "open" /\ ~(time < 0)
  <2> DEFINE x == Expect(e, size)
  <2>1. Header(writer, name, size, time) = Pad4(x)
    BY <1>6 DEF Header, f
  <2>2. /\ e.state = "open" /\ e.length = f.length + (FIXED + name + 1)
        /\ e.length \in Nat /\ e.out \in Seq(Chunks) /\ DataOf(e.out) = DataOf(out)
    <3> DEFINE c == [kind |-> "header", at |-> f.length, len |-> FIXED + name + 1]
    <3>1. c \in Chunks /\ c.kind = "header"
      BY <1>1 DEF Chunks, FIXED
    <3>2. /\ e.state = "open" /\ e.length = f.length + (FIXED + name + 1)
          /\ e.out = Append(f.out, c)
      BY <1>6, EmitEffect
    <3> HIDE DEF c
    <3>3. e.out \in Seq(Chunks) /\ DataOf(e.out) = DataOf(f.out)
      BY <1>1, <3>1, <3>2, ChunkAppended, AppendData
    <3> HIDE DEF e
    <3>4. DataOf(e.out) = DataOf(out)
      BY <1>1, <1>6, <3>3
    <3>5. e.length \in Nat
      BY <1>1, <3>2 DEF FIXED
    <3> QED
      BY <3>2, <3>3, <3>4, <3>5
  <2>3. /\ x.state = "open" /\ x.remaining = size /\ x.length = e.length
        /\ x.out = e.out
    BY <2>2 DEF Expect
  <2> HIDE DEF e, x
  <2>4. /\ Pad4(x).state = "open" /\ Pad4(x).remaining = size
        /\ Pad4(x).length = Up4(e.length)
        /\ Pad4(x).length \in Nat /\ Pad4(x).out \in Seq(Chunks)
        /\ DataOf(Pad4(x).out) = DataOf(out)
    BY <2>2, <2>3, PadEffect
  <2>5. FIXED + name + 1 \in Nat /\ FIXED + name + 1 > 0
    BY DEF FIXED
  <2>6. Up4(e.length) = f.length + Up4(FIXED + name + 1)
    BY <1>1, <1>6, <2>2, <2>5, UpShift
  <2>7. Up4(e.length) = DataAt(m)
    BY <1>3, <2>6 DEF DataAt
  <2>8. Up4(e.length) > 0
    <3>1. Up4(e.length) >= e.length
      BY <2>2, UpAligned
    <3>2. e.length > 0
      BY <1>1, <2>2, <2>5
    <3>3. Up4(e.length) \in Nat
      BY <2>2, UpAligned
    <3> QED
      BY <2>2, <3>1, <3>2, <3>3
  <2> QED
    BY <1>1, <1>3, <1>6, <2>1, <2>4, <2>7, <2>8 DEF f, m
<1> QED
  BY <1>1, <1>4, <1>5, <1>6

-----------------------------------------------------------------------------
(* Writing data keeps the place where the next header is due. *)
Writes(h, r) ==
    /\ r.state \in {"open", "failed", "panicked"}
    /\ r.length \in Nat /\ r.remaining \in Int /\ r.out \in Seq(Chunks)
    /\ r.state = "open" => /\ h.state = "open" /\ r.length >= h.length
                           /\ r.length + r.remaining = h.length + h.remaining

LEMMA DataWrites ==
    ASSUME NEW h, h.state \in {"open", "failed", "panicked"},
           h.length \in Nat, h.remaining \in Int, h.out \in Seq(Chunks), NEW n \in Nat
    PROVE  Writes(h, h) /\ Writes(h, Data(h, n)) /\ Writes(h, Copy(h, n))
<1> DEFINE e == Emit(h, "data", n)
           x == Expect(e, h.remaining - n)
<1>1. Writes(h, h)
  BY DEF Writes
<1>2. CASE h.state # "open"
  BY <1>1, <1>2 DEF Data, Copy
<1>3. CASE h.state = "open"
  <2>1. [kind |-> "data", at |-> h.length, len |-> n] \in Chunks
    BY DEF Chunks
  <2>2. /\ e.state = "open" /\ e.length = h.length + n
        /\ e.out = Append(h.out, [kind |-> "data", at |-> h.length, len |-> n])
    BY <1>3, EmitEffect
  <2>3. e.out \in Seq(Chunks)
    BY <2>1, <2>2, ChunkAppended
  <2> HIDE DEF e
  <2>4. /\ x.state = "open" /\ x.length = h.length + n
        /\ x.remaining = h.remaining - n /\ x.out \in Seq(Chunks)
    BY <2>2, <2>3 DEF Expect
  <2> HIDE DEF x
  <2>5. Writes(h, x)
    BY <1>3, <2>4 DEF Writes
  <2>6. Writes(h, Stop(h, "failed"))
    BY DEF Writes, Stop
  <2>7. Copy(h, n) = x
    BY <1>3 DEF Copy, x, e
  <2>8. Data(h, n) \in {x, Stop(h, "failed")}
    BY <1>3 DEF Data, x, e
  <2> QED
    BY <1>1, <2>5, <2>6, <2>7, <2>8
<1> QED
  BY <1>2, <1>3

LEMMA InitInv == Init => Inv
<1> SUFFICES ASSUME Init PROVE Inv
  OBVIOUS
<1>1. out = <<>> /\ length = 0 /\ remaining = 0 /\ members = <<>> /\ state = "open"
  BY DEF Init
<1>2. out \in Seq(Chunks) /\ members \in Seq(Members)
  BY <1>1
<1>3. Position /\ InStep
  BY <1>1 DEF Position, InStep, HeadersInStep, TrailerInStep
<1> QED
  BY <1>1, <1>2, <1>3 DEF Inv

(* After a header, with or without data, the next one is due after the new
   member; after an error nothing is. *)
LEMMA MemberAdded ==
    ASSUME Inv, state = "open",
           NEW name \in Nat, NEW size \in Nat, NEW time \in Int,
           NEW r, Writes(Header(writer, name, size, time), r),
           Becomes(r),
           members' = IF Header(writer, name, size, time).state = "open"
                      THEN Append(members, [at |-> Flush(writer).length,
                                            name |-> name, size |-> size])
                      ELSE members
    PROVE  Inv'
<1> DEFINE h == Header(writer, name, size, time)
           m == [at |-> Flush(writer).length, name |-> name, size |-> size]
<1>1. /\ h.state = "open" =>
            /\ h.length = DataAt(m) /\ h.remaining = size /\ h.length > 0
            /\ m \in Members /\ m.at = End /\ m.at % 4 = 0
      /\ h.length \in Nat
  BY HeaderEffect
<1>2. m.size = size
  OBVIOUS
<1>3. /\ Writes(h, r) /\ members' = IF h.state = "open" THEN Append(members, m) ELSE members
  OBVIOUS
<1> HIDE DEF h, m
<1>4. /\ state' = r.state /\ length' = r.length /\ remaining' = r.remaining /\ out' = r.out
  BY DEF Becomes
<1>5. /\ state' \in {"open", "failed", "panicked"}
      /\ length' \in Nat /\ remaining' \in Int /\ out' \in Seq(Chunks)
  BY <1>3, <1>4 DEF Writes
<1>6. /\ members \in Seq(Members) /\ HeadersInStep
      /\ \A i \in DOMAIN members : members[i].at % 4 = 0
  BY DEF Inv, InStep
<1>7. CASE h.state # "open"
  <2>1. state' # "open" /\ members' = members
    BY <1>3, <1>4, <1>7 DEF Writes
  <2>2. HeadersInStep'
    BY <1>6, <2>1 DEF HeadersInStep, After, DataAt
  <2> QED
    BY <1>5, <1>6, <2>1, <2>2 DEF Inv, Position, InStep, TrailerInStep
<1>8. CASE h.state = "open"
  <2>1. members' = Append(members, m) /\ m \in Members /\ m.at = End /\ m.at % 4 = 0
    BY <1>1, <1>3, <1>8
  <2>2. members' \in Seq(Members)
    BY <1>6, <2>1
  <2>3. /\ Len(members') = Len(members) + 1 /\ members' # <<>>
        /\ members'[Len(members')] = m
        /\ \A i \in 1..Len(members) : members'[i] = members[i]
        /\ Len(members) \in Nat /\ DOMAIN members = 1..Len(members)
        /\ DOMAIN members' = 1..Len(members')
    BY <1>6, <2>1, <2>2
  <2>4. \A i \in DOMAIN members' : members'[i].at % 4 = 0
    BY <1>6, <2>1, <2>3
  <2>5. Position'
    <3>1. state' = "open" => /\ length' > 0
                             /\ length' + remaining' = DataAt(m) + m.size
      BY <1>1, <1>2, <1>3, <1>4, <1>5, <1>8 DEF Writes
    <3> QED
      BY <2>3, <3>1 DEF Position, DataAt
  <2>6. HeadersInStep'
    <3>1. members'[1].at = 0
      BY <1>6, <2>1, <2>3 DEF HeadersInStep, End
    <3>2. ASSUME NEW i \in 1..Len(members)
          PROVE  members'[i+1].at = After(members'[i])
      <4>1. CASE i = Len(members)
        BY <1>6, <2>1, <2>3, <4>1 DEF End
      <4>2. CASE i # Len(members)
        <5>1. i \in 1..Len(members)-1
          <6> DEFINE l == Len(members)
          <6>1. l \in Nat /\ i \in 1..l /\ i # l
            BY <2>3, <4>2
          <6> HIDE DEF l
          <6>2. i \in 1..l-1
            BY <6>1
          <6> QED
            BY <6>2 DEF l
        <5>2. members[i+1].at = After(members[i])
          BY <1>6, <5>1 DEF HeadersInStep
        <5>3. i + 1 \in 1..Len(members)
          BY <2>3, <5>1
        <5> QED
          BY <2>3, <5>2, <5>3
      <4> QED
        BY <4>1, <4>2
    <3> QED
      BY <2>3, <3>1, <3>2 DEF HeadersInStep, After, DataAt
  <2>7. TrailerInStep'
    BY <1>5 DEF TrailerInStep
  <2> QED
    BY <1>5, <2>2, <2>4, <2>5, <2>6, <2>7 DEF Inv, InStep
<1> QED
  BY <1>7, <1>8

(* A step after which nothing is written any more. *)
LEMMA Stopped ==
    ASSUME Inv, state' \in {"failed", "panicked"},
           UNCHANGED <<out, length, remaining, members>>
    PROVE  Inv'
<1>1. HeadersInStep'
  BY DEF Inv, InStep, HeadersInStep, After, DataAt
<1> QED
  BY <1>1 DEF Inv, Position, InStep, TrailerInStep

LEMMA PadToBlock ==
    ASSUME NEW n \in Nat
    PROVE  (n + ((ZSIZE - (n % ZSIZE)) % ZSIZE)) % ZSIZE = 0
<1>1. n % 10240 \in 0..10239
  OBVIOUS
<1>2. CASE n % 10240 = 0
  BY <1>2 DEF ZSIZE
<1>3. CASE n % 10240 # 0
  <2>1. (10240 - (n % 10240)) % 10240 = 10240 - (n % 10240)
    BY <1>1, <1>3
  <2>2. n = 10240 * (n \div 10240) + (n % 10240) /\ n \div 10240 \in Nat
    OBVIOUS
  <2> QED
    BY <1>1, <2>1, <2>2 DEF ZSIZE
<1> QED
  BY <1>2, <1>3

(* What Close leaves. *)
LEMMA CloseEffect ==
    ASSUME Inv, Close
    PROVE  /\ state = "open" /\ UNCHANGED <<members, remaining>>
           /\ state' \in {"closed", "failed", "panicked"}
           /\ length' \in Nat /\ out' \in Seq(Chunks)
           /\ state' = "closed" =>
                /\ Flush(writer).state = "open"
                /\ \E i \in DOMAIN out' : /\ out'[i].kind = "trailer"
                                          /\ out'[i].at = Flush(writer).length
                /\ DataOf(out') = DataOf(Flush(writer).out)
                /\ length' % ZSIZE = 0
<1> DEFINE f == Flush(writer)
           e == Emit(f, "trailer", TRAILER)
           k == (ZSIZE - (e.length % ZSIZE)) % ZSIZE
           w == PadBlock(e)
<1>1. state = "open" /\ members' = members
      /\ Becomes(IF w.state = "open" THEN Stop(w, "closed") ELSE w)
  BY DEF Close
<1>2. /\ f.state \in {"open", "failed", "panicked"}
      /\ f.length \in Nat /\ f.out \in Seq(Chunks) /\ f.remaining = remaining
  BY <1>1, FlushEffect
<1> HIDE DEF f
<1>3. CASE f.state # "open"
  <2>1. e = f
    BY <1>3 DEF Emit
  <2>2. w = f
    BY <1>3, <2>1 DEF PadBlock, Zeros
  <2> HIDE DEF w
  <2>3. state' = f.state /\ length' = f.length /\ remaining' = remaining /\ out' = f.out
    BY <1>1, <1>2, <1>3, <2>2 DEF Becomes
  <2> QED
    BY <1>1, <1>2, <1>3, <2>3
<1>4. CASE f.state = "open"
  <2> DEFINE t == [kind |-> "trailer", at |-> f.length, len |-> TRAILER]
             z == [kind |-> "zeros", at |-> e.length, len |-> k]
  <2>1. /\ e.state = "open" /\ e.remaining = f.remaining
        /\ e.length = f.length + TRAILER /\ e.out = Append(f.out, t)
    BY <1>4, EmitEffect
  <2>2. t \in Chunks /\ t.kind = "trailer" /\ t.at = f.length
    BY <1>2 DEF Chunks, TRAILER, FIXED
  <2>3. e.length \in Nat
    BY <1>2, <2>1 DEF TRAILER, FIXED
  <2> HIDE DEF e, t
  <2>4. k \in Int /\ 0 <= k /\ k <= ZSIZE /\ (e.length + k) % ZSIZE = 0
    BY <2>3, PadToBlock DEF ZSIZE
  <2>5. z \in Chunks /\ z.kind = "zeros"
    BY <2>3, <2>4 DEF Chunks
  <2>6. w = Zeros(e, k)
    BY DEF PadBlock
  <2> HIDE DEF k
  <2>7. Zeros(e, k) = Emit(e, "zeros", k)
    BY <2>1, <2>4 DEF Zeros, ZSIZE
  <2> HIDE DEF z, w
  <2>8. /\ w.state = "open" /\ w.remaining = e.remaining
        /\ w.length = e.length + k /\ w.out = Append(e.out, z)
    BY <2>1, <2>6, <2>7, EmitEffect DEF z
  <2>9. /\ state' = "closed" /\ length' = w.length /\ remaining' = remaining
        /\ out' = w.out
    BY <1>1, <1>2, <2>1, <2>8 DEF Becomes, Stop
  <2>10. e.out \in Seq(Chunks) /\ w.out \in Seq(Chunks)
    BY <1>2, <2>1, <2>2, <2>5, <2>8, ChunkAppended
  <2>11. Len(f.out) + 1 \in DOMAIN out' /\ out'[Len(f.out) + 1] = t
    BY <1>2, <2>1, <2>2, <2>5, <2>8, <2>9, <2>10
  <2>12. DataOf(out') = DataOf(f.out)
    BY <1>2, <2>1, <2>2, <2>5, <2>8, <2>9, <2>10, AppendData
  <2> QED
    BY <1>1, <1>4, <2>2, <2>3, <2>4, <2>8, <2>9, <2>10, <2>11, <2>12 DEF f
<1> QED
  BY <1>3, <1>4

(* The trailer comes where the next header would. *)
LEMMA CloseKeeps == ASSUME Inv, Close PROVE Inv'
<1>1. /\ members \in Seq(Members) /\ remaining \in Int
      /\ \A i \in DOMAIN members : members[i].at % 4 = 0
  BY DEF Inv
<1>2. HeadersInStep'
  BY CloseEffect DEF Inv, InStep, HeadersInStep, After, DataAt
<1>3. End' = End
  BY CloseEffect DEF End, After, DataAt
<1>4. TrailerInStep'
  BY <1>3, CloseEffect, FlushEffect DEF TrailerInStep
<1> QED
  BY <1>1, <1>2, <1>4, CloseEffect DEF Inv, Position, InStep

(* A call that writes a member, by what Write makes of its header. *)
Called(name, size, time, r) ==
    \/ /\ UNCHANGED <<out, length, remaining, members>>
       /\ state' \in {"failed", "panicked"}
    \/ /\ Becomes(r)
       /\ members' = IF Header(writer, name, size, time).state = "open"
                     THEN Append(members, [at |-> Flush(writer).length,
                                           name |-> name, size |-> size])
                     ELSE members

LEMMA CalledKeeps ==
    ASSUME Inv, state = "open",
           NEW name \in Nat, NEW size \in Nat, NEW time \in Int, NEW n \in Nat, NEW r,
           LET h == Header(writer, name, size, time)
           IN  r \in {h, Data(h, n), Copy(h, n)},
           Called(name, size, time, r)
    PROVE  Inv'
<1> DEFINE h == Header(writer, name, size, time)
<1>1. /\ h.state \in {"open", "failed", "panicked"}
      /\ h.length \in Nat /\ h.out \in Seq(Chunks) /\ h.remaining \in Int
  BY HeaderEffect
<1>2. r \in {h, Data(h, n), Copy(h, n)}
  OBVIOUS
<1> HIDE DEF h
<1>3. Writes(h, r)
  BY <1>1, <1>2, DataWrites
<1>4. CASE UNCHANGED <<out, length, remaining, members>> /\ state' \in {"failed", "panicked"}
  BY <1>4, Stopped
<1>5. CASE ~(UNCHANGED <<out, length, remaining, members>> /\ state' \in {"failed", "panicked"})
  <2>1. /\ Becomes(r)
        /\ members' = IF Header(writer, name, size, time).state = "open"
                      THEN Append(members, [at |-> Flush(writer).length,
                                            name |-> name, size |-> size])
                      ELSE members
    BY <1>5 DEF Called
  <2> QED
    BY <1>3, <2>1, MemberAdded DEF h
<1> QED
  BY <1>4, <1>5

LEMMA NextKeeps == ASSUME Inv, [Next]_vars PROVE Inv'
<1> USE CpioAssumption
<1>1. CASE WriteDir
  <2>1. PICK name \in NameLens :
            Member(name + 1, 0, 0, Header(writer, name + 1, 0, 0))
    BY <1>1 DEF WriteDir
  <2>2. state = "open" /\ Called(name + 1, 0, 0, Header(writer, name + 1, 0, 0))
    BY <2>1 DEF Member, Called
  <2>3. name + 1 \in Nat
    OBVIOUS
  <2> QED
    BY <2>2, <2>3, CalledKeeps
<1>2. CASE CreateFile
  <2>1. PICK name \in NameLens, n \in Sizes, t \in Times :
            Member(name, n, t, Data(Header(writer, name, n, t), n))
    BY <1>2 DEF CreateFile
  <2>2. state = "open" /\ Called(name, n, t, Data(Header(writer, name, n, t), n))
    BY <2>1 DEF Member, Called
  <2> QED
    BY <2>2, CalledKeeps
<1>3. CASE Symlink
  <2>1. PICK name \in NameLens, n \in Sizes :
            Member(name, n, 0, Data(Header(writer, name, n, 0), n))
    BY <1>3 DEF Symlink
  <2>2. state = "open" /\ Called(name, n, 0, Data(Header(writer, name, n, 0), n))
    BY <2>1 DEF Member, Called
  <2> QED
    BY <2>2, CalledKeeps
<1>4. CASE WriteFile
  <2>1. PICK name \in NameLens, size \in Sizes, t \in Times, d \in Drifts :
            size + d >= 0 /\
            Member(name, size, t, Copy(Header(writer, name, size, t), size + d))
    BY <1>4 DEF WriteFile
  <2>2. state = "open" /\ Called(name, size, t, Copy(Header(writer, name, size, t), size + d))
    BY <2>1 DEF Member, Called
  <2>3. size + d \in Nat
    BY <2>1
  <2> QED
    BY <2>2, <2>3, CalledKeeps
<1>5. CASE WriteFails
  BY <1>5, Stopped DEF WriteFails
<1>6. CASE Close
  BY <1>6, CloseKeeps
<1>7. CASE UNCHANGED vars
  BY <1>7 DEF vars, Inv, Position, InStep, HeadersInStep, TrailerInStep, End, After, DataAt
<1> QED
  BY <1>1, <1>2, <1>3, <1>4, <1>5, <1>6, <1>7 DEF Next, Terminated

-----------------------------------------------------------------------------
(* What was written of each member *)

(* While the writer is open and the last file was no longer than its header
   says, all data lie within their members; after one that was longer nothing
   is written but its error. *)
DataWithin == \A c \in DataOf(out) : Within(c)
WholeInv ==
    /\ inode \in Nat
    /\ state = "open" /\ length = 0 => remaining = 0
    /\ state = "open" /\ remaining >= 0 => DataWithin
    /\ state = "closed" => DataWithin /\ length % ZSIZE = 0

(* What is within a member stays so when another is added. *)
LEMMA WithinKept ==
    ASSUME members \in Seq(Members),
           members' = members \/ \E m \in Members : members' = Append(members, m)
    PROVE  \A c : Within(c) => Within(c)'
<1>1. \A i \in DOMAIN members : i \in DOMAIN members' /\ members'[i] = members[i]
  <2>1. CASE members' = members
    BY <2>1
  <2>2. CASE \E m \in Members : members' = Append(members, m)
    BY <2>2
  <2> QED
    BY <2>1, <2>2
<1>2. ASSUME NEW c, Within(c) PROVE Within(c)'
  <2>1. PICK i \in DOMAIN members :
          /\ DataAt(members[i]) <= c.at
          /\ c.at + c.len <= DataAt(members[i]) + members[i].size
    BY <1>2 DEF Within
  <2>2. i \in DOMAIN members' /\ members'[i] = members[i]
    BY <1>1, <2>1
  <2> QED
    BY <2>1, <2>2 DEF Within, DataAt
<1> QED
  BY <1>2

(* What the ways to write data leave, of an open writer h. *)
LEMMA DataEffect ==
    ASSUME NEW h, h.length \in Nat, h.remaining \in Int, h.out \in Seq(Chunks), NEW n \in Nat,
           NEW r \in {h, Data(h, n), Copy(h, n)}, r.state = "open"
    PROVE  \/ r = h
           \/ /\ r.remaining = h.remaining - n /\ h.state = "open"
              /\ DataOf(r.out) = DataOf(h.out)
                                   \cup {[kind |-> "data", at |-> h.length, len |-> n]}
<1> DEFINE e == Emit(h, "data", n)
           x == Expect(e, h.remaining - n)
           c == [kind |-> "data", at |-> h.length, len |-> n]
<1>1. CASE h.state # "open"
  BY <1>1 DEF Data, Copy
<1>2. CASE h.state = "open"
  <2>1. c \in Chunks /\ c.kind = "data"
    BY DEF Chunks
  <2>2. e.out = Append(h.out, c)
    BY <1>2, EmitEffect
  <2>3. DataOf(e.out) = DataOf(h.out) \cup {c}
    <3> HIDE DEF c, e
    <3> QED
      BY <2>1, <2>2, AppendData
  <2>4. r = h \/ r = x \/ r = Stop(h, "failed")
    BY <1>2 DEF Data, Copy
  <2>5. Stop(h, "failed").state = "failed"
    BY DEF Stop
  <2>6. x.remaining = h.remaining - n /\ x.out = e.out
    BY DEF Expect
  <2> HIDE DEF x, e, c
  <2>7. r = h \/ r = x
    BY <2>4, <2>5
  <2> QED
    BY <1>2, <2>3, <2>6, <2>7 DEF c
<1> QED
  BY <1>1, <1>2

LEMMA CalledWhole ==
    ASSUME Inv, WholeInv, state = "open",
           NEW name \in Nat, NEW size \in Nat, NEW time \in Int, NEW n \in Nat, NEW r,
           LET h == Header(writer, name, size, time)
           IN  r \in {h, Data(h, n), Copy(h, n)},
           Called(name, size, time, r), inode' \in {inode, inode + 1}
    PROVE  WholeInv'
<1> PICK h, m, c :
        /\ h = Header(writer, name, size, time)
        /\ m = [at |-> Flush(writer).length, name |-> name, size |-> size]
        /\ c = [kind |-> "data", at |-> h.length, len |-> n]
  OBVIOUS
<1>1. inode' \in Nat
  BY DEF WholeInv
<1>2. CASE state' # "open"
  <2>1. state' # "closed"
    <3>1. Inv' => state' \in {"closed", "failed", "panicked"}
      BY <1>2 DEF Inv
    <3>2. /\ h.state \in {"open", "failed", "panicked"} /\ h.length \in Nat
          /\ h.out \in Seq(Chunks) /\ h.remaining \in Int
      BY HeaderEffect
    <3>3. r \in {h, Data(h, n), Copy(h, n)}
      OBVIOUS
    <3>4. Writes(h, r)
      BY <3>2, <3>3, DataWrites
    <3> QED
      BY <3>4 DEF Called, Becomes, Writes
  <2> QED
    BY <1>1, <1>2, <2>1 DEF WholeInv
<1>3. CASE state' = "open"
  <2>1. /\ length' = r.length /\ remaining' = r.remaining /\ r.state = "open" /\ out' = r.out
        /\ members' = IF h.state = "open" THEN Append(members, m) ELSE members
    BY <1>3 DEF Called, Becomes
  <2>2. /\ h.state \in {"open", "failed", "panicked"} /\ h.length \in Nat
        /\ h.out \in Seq(Chunks) /\ h.remaining \in Int
        /\ h.state = "open" =>
              /\ h.length = DataAt(m) /\ h.remaining = size /\ h.length > 0 /\ m \in Members
              /\ Flush(writer).state = "open" /\ DataOf(h.out) = DataOf(out)
    BY HeaderEffect
  <2>3. r \in {h, Data(h, n), Copy(h, n)}
    OBVIOUS
  <2>4. m.size = size
    OBVIOUS
  <2>5. Writes(h, r)
    BY <2>2, <2>3, DataWrites
  <2>6. h.state = "open" /\ r.length >= h.length /\ r.length \in Nat
    BY <2>1, <2>5 DEF Writes
  <2>7. \/ r = h
        \/ r.remaining = size - n /\ DataOf(r.out) = DataOf(h.out) \cup {c}
    <3>1. \/ r = h
          \/ /\ r.remaining = h.remaining - n
             /\ DataOf(r.out) = DataOf(h.out)
                                  \cup {[kind |-> "data", at |-> h.length, len |-> n]}
      BY <2>1, <2>2, <2>3, DataEffect
    <3>2. h.remaining = size
      BY <2>2, <2>6
    <3> QED
      BY <3>1, <3>2
  <2>8. length' # 0
    BY <2>1, <2>2, <2>6
  <2>9. members \in Seq(Members) /\ m \in Members /\ members' = Append(members, m)
    BY <2>1, <2>2, <2>6 DEF Inv
  <2>10. \A x : Within(x) => Within(x)'
    BY <2>9, WithinKept
  <2>11. DataWithin
    <3>1. length = 0 \/ remaining >= 0
      BY <2>2, <2>6, FlushEffect
    <3> QED
      BY <3>1 DEF WholeInv
  <2>12. \A x \in DataOf(h.out) : Within(x)'
    BY <2>2, <2>6, <2>10, <2>11 DEF DataWithin
  <2>13. n <= size => Within(c)'
    <3>1. c.at = DataAt(m) /\ c.len = n
      BY <2>2, <2>6
    <3>2. /\ Len(members) + 1 \in DOMAIN members'
          /\ members'[Len(members) + 1] = m
      BY <2>9
    <3>3. DataAt(m) \in Nat
      BY <2>2, <2>6
    <3>4. n <= size => DataAt(m) <= c.at /\ c.at + c.len <= DataAt(m) + m.size
      BY <2>4, <3>1, <3>3
    <3> QED
      BY <3>2, <3>4 DEF Within, DataAt
  <2>14. remaining' >= 0 => DataWithin'
    <3>1. CASE r = h
      BY <2>1, <2>12, <3>1 DEF DataWithin
    <3>2. CASE r.remaining = size - n /\ DataOf(r.out) = DataOf(h.out) \cup {c}
      <4>1. remaining' >= 0 => n <= size
        BY <2>1, <3>2
      <4> QED
        BY <2>1, <2>12, <2>13, <3>2, <4>1 DEF DataWithin
    <3> QED
      BY <2>7, <3>1, <3>2
  <2> QED
    BY <1>1, <1>3, <2>8, <2>14 DEF WholeInv
<1> QED
  BY <1>2, <1>3

LEMMA CloseWhole == ASSUME Inv, WholeInv, Close PROVE WholeInv'
<1>1. inode' = inode
  BY DEF Close
<1>2. CASE state' # "closed"
  BY <1>1, <1>2, CloseEffect DEF WholeInv
<1>3. CASE state' = "closed"
  <2>1. DataWithin /\ DataOf(out') = DataOf(out)
    BY <1>3, CloseEffect, FlushEffect DEF WholeInv
  <2>2. members' = members /\ members \in Seq(Members)
    BY CloseEffect DEF Inv
  <2>3. DataWithin'
    BY <2>1, <2>2, WithinKept DEF DataWithin
  <2> QED
    BY <1>1, <1>3, <2>3, CloseEffect DEF WholeInv
<1> QED
  BY <1>2, <1>3

LEMMA InitWhole == Init => WholeInv
<1> SUFFICES ASSUME Init PROVE WholeInv
  OBVIOUS
<1>1. DataOf(<<>>) = {}
  BY DEF DataOf
<1> QED
  BY <1>1 DEF Init, WholeInv, DataWithin

LEMMA NextWhole == ASSUME Inv, WholeInv, [Next]_vars PROVE WholeInv'
<1> USE CpioAssumption
<1>1. ASSUME NEW name, NEW size, NEW time, NEW w, Member(name, size, time, w)
      PROVE  state = "open" /\ Called(name, size, time, w) /\ inode' \in {inode, inode + 1}
  BY <1>1 DEF Member, Called
<1>2. CASE WriteDir
  <2>1. PICK name \in NameLens :
            Member(name + 1, 0, 0, Header(writer, name + 1, 0, 0))
    BY <1>2 DEF WriteDir
  <2>2. name + 1 \in Nat
    OBVIOUS
  <2>3. /\ state = "open" /\ Called(name + 1, 0, 0, Header(writer, name + 1, 0, 0))
        /\ inode' \in {inode, inode + 1}
    BY <1>1, <2>1
  <2> QED
    BY <2>2, <2>3, CalledWhole
<1>3. CASE CreateFile
  <2>1. PICK name \in NameLens, n \in Sizes, t \in Times :
            Member(name, n, t, Data(Header(writer, name, n, t), n))
    BY <1>3 DEF CreateFile
  <2>2. /\ state = "open" /\ Called(name, n, t, Data(Header(writer, name, n, t), n))
        /\ inode' \in {inode, inode + 1}
    BY <1>1, <2>1
  <2> QED
    BY <2>2, CalledWhole
<1>4. CASE Symlink
  <2>1. PICK name \in NameLens, n \in Sizes :
            Member(name, n, 0, Data(Header(writer, name, n, 0), n))
    BY <1>4 DEF Symlink
  <2>2. /\ state = "open" /\ Called(name, n, 0, Data(Header(writer, name, n, 0), n))
        /\ inode' \in {inode, inode + 1}
    BY <1>1, <2>1
  <2> QED
    BY <2>2, CalledWhole
<1>5. CASE WriteFile
  <2>1. PICK name \in NameLens, size \in Sizes, t \in Times, d \in Drifts :
            size + d >= 0 /\
            Member(name, size, t, Copy(Header(writer, name, size, t), size + d))
    BY <1>5 DEF WriteFile
  <2>2. /\ state = "open"
        /\ Called(name, size, t, Copy(Header(writer, name, size, t), size + d))
        /\ inode' \in {inode, inode + 1}
    BY <1>1, <2>1
  <2>3. size + d \in Nat
    BY <2>1
  <2> QED
    BY <2>2, <2>3, CalledWhole
<1>6. CASE WriteFails
  BY <1>6 DEF WriteFails, WholeInv
<1>7. CASE Close
  BY <1>7, CloseWhole
<1>8. CASE UNCHANGED vars
  BY <1>8 DEF vars, WholeInv, DataWithin, Within, DataAt
<1> QED
  BY <1>2, <1>3, <1>4, <1>5, <1>6, <1>7, <1>8 DEF Next, Terminated

-----------------------------------------------------------------------------
(* The theorems *)

(* The writer keeps its types: no chunk has a negative length, and what is left
   of a member may be negative, after a file that had grown
   (cpio/copy_generic.go:10-18). *)
THEOREM WriterTyped == Spec => []TypeOK
<1>1. Inv /\ WholeInv => TypeOK
  <2> SUFFICES ASSUME Inv, WholeInv PROVE TypeOK
    OBVIOUS
  <2>1. \A i \in DOMAIN out : out[i] \in Chunks
    BY DEF Inv
  <2>2. \A i \in DOMAIN members : members[i] \in Members
    BY DEF Inv
  <2> QED
    BY <2>1, <2>2 DEF TypeOK, Inv, WholeInv, Chunks, Members
<1> QED
  BY <1>1, InitInv, NextKeeps, InitWhole, NextWhole, PTL DEF Spec

(* An archive that was closed holds the data of every member within the bytes
   its header announces, and fills its last block: a file that grew while it
   was read stops the archive at the next member or at the trailer
   (cpio/cpio.go:114-128, 157-172). *)
THEOREM ClosedIsWhole == Spec => []ClosedWhole
<1>1. Inv /\ WholeInv => ClosedWhole
  <2> SUFFICES ASSUME Inv, WholeInv, state = "closed",
                      NEW i \in DOMAIN out, out[i].kind = "data"
               PROVE  Within(out[i])
    BY DEF ClosedWhole, SizeIsLength, WholeInv
  <2>1. out[i] \in DataOf(out)
    BY DEF DataOf
  <2> QED
    BY <2>1 DEF WholeInv, DataWithin
<1> QED
  BY <1>1, InitInv, NextKeeps, InitWhole, NextWhole, PTL DEF Spec

(* A reader stays in step with every archive: writing pads the whole length,
   a reader pads name and data of each member, and whatever a file did while
   it was read, a header is written only where the reader looks for it. *)
THEOREM AlwaysInStep == Spec => []InStep
<1>1. Inv => InStep
  BY DEF Inv
<1> QED
  BY <1>1, InitInv, NextKeeps, PTL DEF Spec
=============================================================================
