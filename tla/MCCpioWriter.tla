---------------------------- MODULE MCCpioWriter ----------------------------
(***************************************************************************)
(* Sizes for CpioWriter: names of every remainder by 4, data of none, few  *)
(* and many bytes, one that fills a block together with its header and the *)
(* trailer, and one that no header can announce.                           *)
(***************************************************************************)
EXTENDS CpioWriter

MCNameLens == 1..4
MCSizes == {0, 1, 5, 10008, 10300, 20000}

(* Files that keep their size, grow, and shrink by less and by more than a
   block of zeros. *)
MCDrifts == {-10300, -1, 0, 3}

(* Before the epoch, the epoch, and past what a field holds. *)
MCTimes == {-1, 0, 20000}
=============================================================================
