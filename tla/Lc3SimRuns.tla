----------------------------- MODULE Lc3SimRuns -----------------------------
(***************************************************************************)
(* Lc3Sim with history variables that record what the user was promised:   *)
(* which run command was given last, where a "next" should end, how many   *)
(* subroutines a "finish" has yet to leave, and whether the last run ended *)
(* at a user breakpoint.  They never influence the simulator.              *)
(***************************************************************************)
EXTENDS Lc3Sim

VARIABLES
  last_cmd,   \* the run command given last, "auto" excepted
  next_goal,  \* address where the "next" in progress should end, or -1
  hit,        \* the last run ended at a user breakpoint
  nested,     \* "next", "finish" or "step" is running an interrupted run
  depth       \* subroutines "finish" has yet to return from

histVars == <<last_cmd, next_goal, hit, nested, depth>>
allVars  == <<vars, histVars>>

Forgets == interrupted /\ ~interrupted' /\ at' # "start"

\* A run command taken from the input.
Given(c) ==
  /\ last_cmd' = c
  /\ hit' = FALSE
  /\ nested' = (c # "continue" /\ interrupted)
  /\ next_goal' = -1
  /\ depth' = CASE c = "finish"                -> 1
                [] c = "continue" /\ ~nested -> depth
                [] OTHER                     -> finish_depth

\* An instruction: where a "next" starts and ends.
Executed(i) ==
  /\ hit' = (i.kind # "illegal" /\ NewPC(i) \in breakpoints)
  /\ next_goal' = IF StopsBeforeCounting(i) THEN -1
                  ELSE IF at = "next" /\ i.kind = "call" /\ ReturnsOne(i)
                  THEN PCplus1
                  ELSE next_goal
  /\ depth' = CASE depth > 0 /\ i.kind = "call"   -> depth + 1
                [] depth > 0 /\ i.kind = "return" -> depth - 1
                [] OTHER                          -> depth
  /\ UNCHANGED <<last_cmd, nested>>

HistInit ==
  /\ Init
  /\ last_cmd = "none" /\ next_goal = -1
  /\ hit = FALSE /\ nested = FALSE /\ depth = 0

HistNext ==
  \/ cmd_continue /\ Given("continue")
  \/ cmd_finish /\ Given("finish")
  \/ \E c \in {"step", "next"} : cmd_step_or_next(c) /\ Given(c)
  \/ \E i \in Instruction :
       /\ RunInstruction(i) \/ StepInstruction(i) \/ NextInstruction(i)
       /\ Executed(i)
  \/ StopRun /\ next_goal' = (IF interrupted THEN next_goal ELSE -1)
             /\ depth' = (IF interrupted THEN depth ELSE 0)
             /\ UNCHANGED <<last_cmd, hit, nested>>
  \/ AutoContinue /\ nested' = FALSE
                  /\ depth' = (IF nested THEN finish_depth ELSE depth)
                  /\ UNCHANGED <<last_cmd, next_goal, hit>>
  \/ /\ \/ StartRun \/ RunHalted \/ halt_lc3 \/ LineArrives \/ EndOfInput
        \/ \E reloaded \in BOOLEAN : InitDone(reloaded)
     /\ UNCHANGED histVars
  \/ /\ OtherCommands
     /\ next_goal' = IF Forgets \/ in_init' THEN -1 ELSE next_goal
     /\ last_cmd' = IF Forgets \/ in_init' THEN "none" ELSE last_cmd
     /\ nested' = (nested /\ ~Forgets)
     /\ depth' = IF Forgets \/ in_init' THEN 0 ELSE depth
     /\ UNCHANGED hit

HistSpec == HistInit /\ [][HistNext]_allVars

FairHistSpec == HistSpec /\ Fairness

----------------------------------------------------------------------------
(* A user breakpoint ends the run for good: the simulator does not go on   *)
(* by itself from a breakpoint, provided no run command was given to an    *)
(* interrupted run (the breakpoint test of execute_instruction comes       *)
(* before its poll; the auto-continue of simple_readline).                 *)
BreakpointHolds == hit /\ ~nested /\ at = "prompt" => ~interrupted

(* "finish" counts every call and return exactly once, however often the  *)
(* front end interrupts the run and whatever it does meanwhile: the count  *)
(* is the true number of subroutines still to be left (the order of the    *)
(* tests in execute_instruction; what run_until_stopped keeps).            *)
FinishCountExact == at = "loop" /\ ~nested => finish_depth = depth

(* "This approach allows the GUI to interrupt the simulator without the    *)
(* simulator forgetting about the completion of this command" (cmd_next):  *)
(* while a "next" over a call runs, its breakpoint is set, however often   *)
(* the run is interrupted and continued.  The poll right after the call    *)
(* itself is the exception: cmd_next has not set the breakpoint yet.       *)
NextRemembered == next_goal # -1 /\ at = "loop" => sys_bpt_addr = next_goal

(* "step -- execute one step" (cmd_help): after a step the LC-3 runs only  *)
(* when a further command says so.                                         *)
StepIsOneStep == last_cmd = "step" /\ ~in_init => at \notin {"start", "loop"}
=============================================================================
