------------------------------ MODULE Pipeline ------------------------------
(***************************************************************************)
(* What the compiler driver lcc promises: its stages follow one another,   *)
(* none of them starts after a failure, a failure is never forgotten, and  *)
(* the exit code tells whether there was one.                              *)
(***************************************************************************)
EXTENDS Naturals

VARIABLES stage, ok, code

vars == <<stage, ok, code>>

Compiling == 1
Linking   == 2
Pasting   == 3
Assembling == 4
Ending    == 5
None      == 256

Init == stage = Compiling /\ ok = TRUE /\ code = None

Fail ==
  /\ code = None /\ stage \in Compiling .. Assembling
  /\ ok' = FALSE
  /\ stage' \in {stage, Ending} /\ UNCHANGED code

\* A later stage; only the last is reached after a failure.
Advance ==
  /\ code = None
  /\ stage' \in stage + 1 .. Ending
  /\ ~ok => stage' = Ending
  /\ UNCHANGED <<ok, code>>

\* The end of the driver, at its last stage or before it.
Exit ==
  /\ code = None
  /\ code' \in 0 .. 255
  /\ code' = 0 => ok
  /\ stage' = Ending /\ UNCHANGED ok

Next == Fail \/ Advance \/ Exit

Spec == Init /\ [][Next]_vars
=============================================================================
