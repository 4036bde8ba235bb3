--------------------------- MODULE ScriptsProofs ---------------------------
(* Proofs about Scripts, for every limit on the depth.                     *)
EXTENDS Scripts, TLAPS

(* ConsoleOpen and OptionObeyed say nothing of depth 0, from which the     *)
(* first script starts: there the LC-3 reads from no script.               *)
IInv ==
  /\ TypeOK
  /\ OptionObeyed
  /\ script_depth = 0 => lc3in \in Console

USE DepthAssumption DEF Depth, Console, stdin, socket, lc3out, infile

(* The invariant holds when the simulator starts.                          *)
LEMMA InitOK == Init => IInv
<1> SUFFICES ASSUME Init
             PROVE  IInv
  OBVIOUS
<1>1. lc3in \in Console
  BY DEF Init, Mode, FirstConsole
<1>2. script_depth = 0 /\ script_depth \in Depth /\ mode \in Mode
  BY DEF Init
<1>3. /\ script_uses_stdin \in BOOLEAN /\ stop_scripts \in BOOLEAN
      /\ running \in BOOLEAN
  BY Zenon DEF Init
<1>4. TypeOK
  BY <1>1, <1>2, <1>3 DEF TypeOK
<1> QED
  BY <1>1, <1>2, <1>4 DEF IInv, OptionObeyed

(* Outside of scripts the LC-3 reads from a stream of the console.         *)
LEMMA OutsideIsConsole == OutsideConsole \in Console
  BY DEF OutsideConsole

(* Each command of a script keeps the invariant.                           *)
LEMMA StepOK == IInv /\ [Next]_vars => IInv'
<1> SUFFICES ASSUME IInv, [Next]_vars
             PROVE  IInv'
  OBVIOUS
<1>1. CASE cmd_execute
  <2>1. TypeOK'
    BY <1>1 DEF cmd_execute, IInv, TypeOK
  <2>2. OptionObeyed'
    BY <1>1 DEF cmd_execute, IInv, TypeOK, OptionObeyed
  <2>3. script_depth' # 0
    BY <1>1 DEF cmd_execute, IInv, TypeOK
  <2> QED
    BY <2>1, <2>2, <2>3 DEF IInv
<1>2. CASE cmd_execute_fails
  BY <1>2 DEF cmd_execute_fails, IInv, TypeOK, OptionObeyed
<1>3. CASE cmd_execute_returns
  <2>1. script_depth' \in Depth /\ script_depth' = script_depth - 1
    BY <1>3 DEF cmd_execute_returns, IInv, TypeOK
  <2>2. CASE script_depth' = 0
    <3>1. lc3in' \in Console
      BY <1>3, <2>2, OutsideIsConsole DEF cmd_execute_returns
    <3> QED
      BY <1>3, <2>1, <2>2, <3>1
      DEF cmd_execute_returns, IInv, TypeOK, OptionObeyed
  <2>3. CASE script_depth' # 0 /\ ~script_uses_stdin
    <3>1. lc3in' = script_depth'
      BY <1>3, <2>3 DEF cmd_execute_returns
    <3> QED
      BY <1>3, <2>1, <2>3, <3>1
      DEF cmd_execute_returns, IInv, TypeOK, OptionObeyed
  <2>4. CASE script_depth' # 0 /\ script_uses_stdin
    <3>1. lc3in' = lc3in
      BY <1>3, <2>4 DEF cmd_execute_returns
    <3>2. lc3in \in Console
      BY <1>3, <2>1, <2>4 DEF cmd_execute_returns, IInv, OptionObeyed
    <3> QED
      BY <1>3, <2>1, <2>4, <3>1, <3>2
      DEF cmd_execute_returns, IInv, TypeOK, OptionObeyed
  <2> QED
    BY <2>2, <2>3, <2>4
<1>4. ASSUME NEW oval \in BOOLEAN, cmd_option_stdin(oval)
      PROVE  IInv'
  <2>1. CASE script_depth = 0
    BY <1>4, <2>1 DEF cmd_option_stdin, IInv, TypeOK, OptionObeyed
  <2>2. CASE script_depth # 0 /\ ~oval
    BY <1>4, <2>2 DEF cmd_option_stdin, IInv, TypeOK, OptionObeyed
  <2>3. CASE script_depth # 0 /\ oval
    <3>1. lc3in' = OutsideConsole /\ script_uses_stdin' = TRUE
      BY <1>4, <2>3 DEF cmd_option_stdin
    <3> QED
      BY <1>4, <2>3, <3>1, OutsideIsConsole
      DEF cmd_option_stdin, IInv, TypeOK, OptionObeyed
  <2> QED
    BY <2>1, <2>2, <2>3
<1>5. CASE PastEnd \/ SessionEnds
  <2>1. /\ UNCHANGED <<mode, script_depth, lc3in, script_uses_stdin, stop_scripts>>
        /\ running' = FALSE
    BY <1>5 DEF PastEnd, SessionEnds
  <2>2. running' \in BOOLEAN
    BY <2>1, Zenon
  <2> QED
    BY <2>1, <2>2 DEF IInv, TypeOK, OptionObeyed
<1>6. CASE UNCHANGED vars
  BY <1>6 DEF vars, IInv, TypeOK, OptionObeyed
<1> QED
  BY <1>1, <1>2, <1>3, <1>4, <1>5, <1>6 DEF Next

(* The invariant holds throughout a session.                               *)
LEMMA ScriptsInductive == Spec => []IInv
  BY InitOK, StepOK, PTL DEF Spec

(* The depth stays within its limit, for every limit.                      *)
THEOREM ScriptsTypeCorrect == Spec => []TypeOK
  BY ScriptsInductive, PTL DEF IInv

(* The LC-3's keyboard never reads from a closed script.                   *)
THEOREM ConsoleAlwaysOpen == Spec => []ConsoleOpen
<1>1. IInv => ConsoleOpen
  BY DEF IInv, TypeOK, OptionObeyed, ConsoleOpen
<1> QED
  BY <1>1, ScriptsInductive, PTL

(* The option "stdin" is obeyed at every depth.                            *)
THEOREM OptionAlwaysObeyed == Spec => []OptionObeyed
  BY ScriptsInductive, PTL DEF IInv
=============================================================================
