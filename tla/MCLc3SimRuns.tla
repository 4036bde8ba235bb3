---------------------------- MODULE MCLc3SimRuns ----------------------------
(* Instances of Lc3SimRuns for TLC: memory holds a single value, since the *)
(* questions are about control only.                                       *)
EXTENDS Lc3SimRuns, TLC

MCBlankOs    == [start |-> 0, words |-> (0 :> 0)]
MCBlankFiles == {[start |-> MemSize - 1, words |-> ((MemSize - 1) :> 0)]}
=============================================================================
