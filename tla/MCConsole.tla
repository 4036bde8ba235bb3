----------------------------- MODULE MCConsole -----------------------------
(* Memory of 36 words: a string of two characters at 1, one of a single    *)
(* word that holds two packed characters (8 = 2 + 1 * 6) at 4, whose zero  *)
(* word at 5 ends it both ways, and the messages of the OS.                *)
EXTENDS Console
MCMem == [a \in Word |->
            CASE a = 1 -> 3 [] a = 2 -> 4 [] a = 4 -> 8 [] a = 7 -> 5
              [] OTHER -> 0]
MCUserRegs == {[R0 |-> s, R1 |-> 9, R2 |-> 10, R3 |-> 11] : s \in {1, 4}}
=============================================================================
