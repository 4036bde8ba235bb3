------------------------------ MODULE MCLc3Sim ------------------------------
(* Instances of Lc3Sim for TLC. *)
EXTENDS Lc3Sim, TLC

\* The OS fills the first word, the user's file the last one.
MCOs    == [start |-> 0, words |-> (0 :> 1)]
MCFiles == {[start |-> MemSize - 1, words |-> ((MemSize - 1) :> 1)]}
=============================================================================
