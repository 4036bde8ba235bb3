------------------------------ MODULE Scripts ------------------------------
(***************************************************************************)
(* Command scripts of lc3tools/lc3sim.c: cmd_execute runs a command loop   *)
(* on a script file, which may execute further scripts, and moves the      *)
(* stream that the LC-3's keyboard reads from.                             *)
(*                                                                         *)
(* The script open at depth d is the stream d, so a stream number above    *)
(* script_depth is a FILE that has been closed.  sim_in is the stream      *)
(* script_depth, or the user's commands at depth 0.  Which command comes   *)
(* next, and where a script ends, is open.                                 *)
(***************************************************************************)
EXTENDS Integers

CONSTANT MAX_SCRIPT_DEPTH
ASSUME DepthAssumption == MAX_SCRIPT_DEPTH \in Nat \ {0}

VARIABLES
  mode,               \* how the simulator was started
  script_depth,
  lc3in,              \* the stream of the LC-3's keyboard
  script_uses_stdin,  \* option "stdin"
  stop_scripts,
  running             \* FALSE when the process has ended
vars == <<mode, script_depth, lc3in, script_uses_stdin, stop_scripts, running>>

Mode == {"terminal", "gui", "fileio"}
Depth == 0 .. MAX_SCRIPT_DEPTH
\* The streams that are no scripts; lc3out is the writing side of the front
\* end's socket, infile the file named after -fileio.
stdin == 0
socket == -1
lc3out == -2
infile == -3
Console == {stdin, socket, lc3out, infile}

\* main: where the LC-3 reads before any script.
FirstConsole(m) == CASE m = "terminal" -> stdin
                     [] m = "gui"      -> socket
                     [] m = "fileio"   -> infile

\* What cmd_execute and the option "stdin" take for the console.
OutsideConsole == IF mode = "gui" THEN lc3out ELSE stdin

Init ==
  /\ mode \in Mode
  /\ script_depth = 0
  /\ lc3in = FirstConsole(mode)
  /\ script_uses_stdin = TRUE
  /\ stop_scripts = FALSE
  /\ running = TRUE

\* The condition of the loop in command_loop.
ReadsCommand == running /\ ~stop_scripts

\* The depth is used up, or the file cannot be opened.
cmd_execute_fails ==
  /\ ReadsCommand
  /\ stop_scripts' = TRUE
  /\ UNCHANGED <<mode, script_depth, lc3in, script_uses_stdin, running>>

cmd_execute ==
  /\ ReadsCommand
  /\ script_depth # MAX_SCRIPT_DEPTH
  /\ script_depth' = script_depth + 1
  /\ lc3in' = IF script_uses_stdin THEN lc3in ELSE script_depth'
  /\ UNCHANGED <<mode, script_uses_stdin, stop_scripts, running>>

\* Mutant: the outer script does not get the console back.
Mut_return ==
  /\ running /\ script_depth > 0
  /\ script_depth' = script_depth - 1
  /\ lc3in' = IF script_depth' = 0 THEN OutsideConsole ELSE lc3in
  /\ stop_scripts' = (stop_scripts /\ script_depth' # 0)
  /\ UNCHANGED <<mode, script_uses_stdin, running>>

\* Mutant: stop_scripts is never cleared.
Mut_return_stop ==
  /\ running /\ script_depth > 0
  /\ script_depth' = script_depth - 1
  /\ lc3in' = CASE script_depth' = 0 -> OutsideConsole
                [] script_depth' # 0 /\ ~script_uses_stdin -> script_depth'
                [] OTHER -> lc3in
  /\ UNCHANGED <<mode, script_uses_stdin, stop_scripts, running>>

(* The command loop on the script ends, at the end of the file or because  *)
(* of stop_scripts, and cmd_execute goes on after it.                      *)
cmd_execute_returns ==
  /\ running /\ script_depth > 0
  /\ script_depth' = script_depth - 1
  /\ lc3in' = CASE script_depth' = 0 -> OutsideConsole
                [] script_depth' # 0 /\ ~script_uses_stdin -> script_depth'
                [] OTHER -> lc3in
  /\ stop_scripts' = (stop_scripts /\ script_depth' # 0)
  /\ UNCHANGED <<mode, script_uses_stdin, running>>

\* Mutant: the option is only stored.
Mut_option(oval) ==
  /\ ReadsCommand
  /\ script_uses_stdin' = oval
  /\ UNCHANGED <<mode, script_depth, lc3in, stop_scripts, running>>

cmd_option_stdin(oval) ==
  /\ ReadsCommand
  /\ script_uses_stdin' = oval
  /\ lc3in' = CASE script_depth = 0 -> lc3in
                [] script_depth # 0 /\ ~oval -> script_depth
                [] script_depth # 0 /\ oval  -> OutsideConsole
  /\ UNCHANGED <<mode, script_depth, stop_scripts, running>>

\* The program reads past the end of a file, or from a stream that is only
\* open for writing: exit (3).
PastEnd ==
  /\ ReadsCommand
  /\ lc3in \notin {stdin, socket}
  /\ running' = FALSE
  /\ UNCHANGED <<mode, script_depth, lc3in, script_uses_stdin, stop_scripts>>

\* quit in any script, or the end of the outermost command loop.
SessionEnds ==
  /\ ReadsCommand \/ (running /\ script_depth = 0)
  /\ running' = FALSE
  /\ UNCHANGED <<mode, script_depth, lc3in, script_uses_stdin, stop_scripts>>

Next ==
  \/ cmd_execute \/ cmd_execute_fails \/ cmd_execute_returns
  \/ \E oval \in BOOLEAN : cmd_option_stdin(oval)
  \/ PastEnd \/ SessionEnds

Spec == Init /\ [][Next]_vars

\* A command loop that must end, ends.
FairSpec == Spec /\ WF_vars(stop_scripts /\ cmd_execute_returns)

----------------------------------------------------------------------------
(* Types; scripts never nest deeper than MAX_SCRIPT_DEPTH.                 *)
TypeOK ==
  /\ mode \in Mode /\ script_depth \in Depth
  /\ lc3in \in Console \cup (Depth \ {0})
  /\ script_uses_stdin \in BOOLEAN /\ stop_scripts \in BOOLEAN
  /\ running \in BOOLEAN

(* The LC-3 never reads from a script that has been closed (fclose at the  *)
(* end of cmd_execute), whatever the nesting and wherever in it the option *)
(* "stdin" was switched.                                                   *)
ConsoleOpen == lc3in \in Console \cup 1 .. script_depth

(* While a script runs, the option decides where the LC-3 reads: from the  *)
(* innermost script, or from no script at all, also after an inner script  *)
(* that switched the option has returned.                                  *)
OptionObeyed ==
  script_depth > 0 =>
    IF script_uses_stdin THEN lc3in \in Console ELSE lc3in = script_depth

(* A failure in a script ends all scripts and nothing else: the user is    *)
(* back at the prompt.                                                     *)
FailureUnwinds ==
  (stop_scripts /\ script_depth > 0)
    ~> (script_depth = 0 /\ ~stop_scripts /\ running)
=============================================================================
