------------------------------- MODULE Lc3Sim -------------------------------
(***************************************************************************)
(* The execution control of the LC-3 simulator lc3tools/lc3sim.c: the      *)
(* command loop, the run loop, user breakpoints, the "next", "finish" and  *)
(* "step" commands, CTRL-C, interruption by the Tcl/Tk front end, and the  *)
(* delayed memory updates sent to the front end's code window.             *)
(*                                                                         *)
(* The LC-3 program is arbitrary: an instruction is any member of          *)
(* Instruction, described by what the debugger can tell apart.  Addr holds *)
(* the ordinary memory; the device registers are in the module Console.    *)
(*                                                                         *)
(* A command line is only counted, never stored: what a line says is       *)
(* chosen when it is read, so the model covers every sequence of commands. *)
(***************************************************************************)
EXTENDS Integers, FiniteSets

CONSTANTS
  MemSize,         \* number of words of memory (65536 in the code)
  Word,            \* values of a memory word
  Zero,            \* the word 0
  MaxFinishDepth,  \* MAX_FINISH_DEPTH
  MaxPipe,         \* bound: command lines waiting in the kernel
  Files,           \* object files the user can load
  Os,              \* lc3os.obj
  OsPC,            \* where init_machine starts the OS (x0200)
  NoFile           \* start_file == NULL

Addr == 0 .. MemSize - 1

\* An object file: the words it stores, by address, and its start address.
IsFile(f) ==
  /\ f.start \in Addr
  /\ DOMAIN f.words \subseteq Addr
  /\ \A a \in DOMAIN f.words : f.words[a] \in Word

ASSUME SimConstants ==
  /\ MemSize \in Nat \ {0}
  /\ Zero \in Word
  /\ MaxFinishDepth \in Nat /\ MaxFinishDepth >= 2
  /\ MaxPipe \in Nat
  /\ \A f \in Files \cup {Os} : IsFile(f)
  /\ OsPC \in Addr
  /\ NoFile \notin Files

VARIABLES
  gui_mode,         \* started with -gui
  at,               \* where the simulator is: a member of Place
  in_init,          \* init_machine is running the OS
  pc,               \* REG (R_PC)
  disp,             \* memory and the code window: a member of Display
  delay_mem_update, \* option "delay"
  breakpoints,      \* addresses with lc3_breakpoints[addr] == BPT_USER
  sys_bpt_addr,     \* breakpoint of the "next" command, or -1
  finish_depth,     \* nesting depth of the "finish" command, or 0
  should_halt,
  interrupted,      \* interrupted_at_gui_request
  need_a_stop_notice,
  start_file,       \* file reloaded by "reset", or NoFile
  pipe,             \* command lines that poll (sim_in) sees
  buf               \* command lines fgets has already read from the pipe

runVars  == <<sys_bpt_addr, finish_depth, should_halt, interrupted>>
lineVars == <<pipe, buf>>
vars == <<gui_mode, at, in_init, pc, disp, delay_mem_update, breakpoints,
          sys_bpt_addr, finish_depth, should_halt, interrupted,
          need_a_stop_notice, start_file, pipe, buf>>

(* "prompt" in lc3readline; "step" and "next" before the instruction that  *)
(* the command executes itself; "start", "loop" and "stop" the parts of    *)
(* run_until_stopped; "init" the end of init_machine; "exit" no process. *)
Place == {"prompt", "step", "next", "start", "loop", "stop", "init",
          "exit"}

----------------------------------------------------------------------------
(***************************************************************************)
(* Memory and the code window.  shown is what the simulator has told the   *)
(* front end; later is lc3_show_later, hint is have_mem_to_dump.           *)
(***************************************************************************)
Display == [mem : [Addr -> Word], shown : [Addr -> Word],
            later : SUBSET Addr, hint : BOOLEAN]

\* disassemble_one for every address of S: the front end sees their values.
Disassemble(d, S) ==
  [d EXCEPT !.shown =
     [a \in Addr |-> IF gui_mode /\ a \in S THEN d.mem[a] ELSE d.shown[a]]]

\* Mutant: write_memory forgets to set have_mem_to_dump.
MutWriteWithoutHint(d, w) ==
  LET changed == {a \in DOMAIN w : w[a] # d.mem[a]}
      stored  == [d EXCEPT !.mem =
                    [a \in Addr |-> IF a \in DOMAIN w THEN w[a] ELSE d.mem[a]]]
  IN  IF gui_mode /\ delay_mem_update
      THEN [stored EXCEPT !.later = d.later \cup changed]
      ELSE Disassemble(stored, changed)

\* write_memory of the words w, a function on some of the addresses.
WriteMemory(d, w) ==
  LET changed == {a \in DOMAIN w : w[a] # d.mem[a]}
      stored  == [d EXCEPT !.mem =
                    [a \in Addr |-> IF a \in DOMAIN w THEN w[a] ELSE d.mem[a]]]
  IN  IF gui_mode /\ delay_mem_update
      THEN [stored EXCEPT !.later = d.later \cup changed,
                          !.hint  = d.hint \/ changed # {}]
      ELSE Disassemble(stored, changed)

DumpDelayedMemUpdates(d) ==
  IF d.hint
  THEN [Disassemble(d, d.later) EXCEPT !.later = {}, !.hint = FALSE]
  ELSE d

\* Mutant: the test of interrupted_at_gui_request is inverted.
MutShowIfInterrupted(d, intr) ==
  IF intr /\ gui_mode /\ delay_mem_update THEN DumpDelayedMemUpdates(d) ELSE d

\* show_state_if_stop_visible, without the registers it prints.
ShowStateIfStopVisible(d, intr) ==
  IF ~intr /\ gui_mode /\ delay_mem_update THEN DumpDelayedMemUpdates(d) ELSE d

(* read_obj_file, then the disassembly of the loaded range.  The do-while  *)
(* of disassemble covers all of memory when the range is empty.            *)
Load(d, f) ==
  Disassemble(WriteMemory(d, f.words),
              IF DOMAIN f.words = {} THEN Addr ELSE DOMAIN f.words)

AllZero == [a \in Addr |-> Zero]

\* The memory part of init_machine; without the OS nothing is stored.
BootMemory(d, osFound) ==
  LET zeroed == [d EXCEPT !.mem = AllZero, !.later = {}]
  IN  IF osFound THEN Load(zeroed, Os) ELSE zeroed

----------------------------------------------------------------------------
(***************************************************************************)
(* One instruction.  "plain" stands for every instruction that neither     *)
(* stores nor calls nor returns, branches taken or not included; "halt" is *)
(* a store to the MCR that clears bit 15.                                  *)
(***************************************************************************)
Instruction ==
  [kind : {"plain", "call", "return"}, target : Addr]
    \cup [kind : {"store"}, addr : Addr, val : Word]
    \cup [kind : {"halt", "illegal"}]

PCplus1 == (pc + 1) % MemSize

NewPC(i) ==
  CASE i.kind \in {"plain", "call", "return"} -> i.target
    [] i.kind \in {"store", "halt"}           -> PCplus1
    [] OTHER                                  -> pc

\* The value of finish_depth after the instruction's FLG_SUBROUTINE or
\* FLG_RETURN was counted; 0 also when the recursion looks infinite.
DepthAfter(i) ==
  IF finish_depth = 0 THEN 0
  ELSE CASE i.kind = "call" ->
              IF finish_depth + 1 = MaxFinishDepth THEN 0 ELSE finish_depth + 1
         [] i.kind = "return" -> finish_depth - 1
         [] OTHER             -> finish_depth

\* The early returns of execute_instruction, in the order of the code.
StopsBeforeCounting(i) ==
  \/ i.kind = "illegal"
  \/ NewPC(i) \in breakpoints
  \/ NewPC(i) = sys_bpt_addr
FinishStops(i) == finish_depth > 0 /\ DepthAfter(i) = 0
\* Mutant: the poll asks stdio instead of the kernel.
MutPollStdio   == ~in_init /\ gui_mode /\ buf > 0
GuiPoll        == ~in_init /\ gui_mode /\ pipe > 0

\* Mutant: the poll comes before the breakpoint tests.
MutPollFirst(i) == GuiPoll
Interrupts(i) == ~StopsBeforeCounting(i) /\ ~FinishStops(i) /\ GuiPoll
ReturnsOne(i) == ~StopsBeforeCounting(i) /\ ~FinishStops(i) /\ ~GuiPoll

MemoryAfter(i) ==
  IF i.kind = "store" THEN WriteMemory(disp, [a \in {i.addr} |-> i.val])
                      ELSE disp

\* Mutant: the poll comes before calls and returns are counted.
MutPollBeforeCounting(i) ==
  /\ pc' = NewPC(i)
  /\ should_halt' = (should_halt \/ i.kind = "halt")
  /\ finish_depth' = IF StopsBeforeCounting(i) \/ GuiPoll THEN finish_depth
                                                         ELSE DepthAfter(i)
  /\ interrupted' = (interrupted \/ Interrupts(i))

\* All of execute_instruction but the display, which the caller may go on to
\* update.
execute_instruction(i) ==
  /\ pc' = NewPC(i)
  /\ should_halt' = (should_halt \/ i.kind = "halt")
  /\ finish_depth' = IF StopsBeforeCounting(i) THEN finish_depth
                                               ELSE DepthAfter(i)
  /\ interrupted' = (interrupted \/ Interrupts(i))

----------------------------------------------------------------------------
(***************************************************************************)
(* run_until_stopped, and the instruction that "step" and "next" execute   *)
(* before it.  CTRL-C and new command lines can arrive between any two of  *)
(* these steps.                                                            *)
(***************************************************************************)
StartRun ==
  /\ at = "start"
  /\ should_halt' = FALSE
  /\ at' = "loop"
  /\ UNCHANGED <<gui_mode, in_init, pc, disp, delay_mem_update, breakpoints,
                 sys_bpt_addr, finish_depth, interrupted, need_a_stop_notice,
                 start_file, pipe, buf>>

\* Mutant: the run loop does not test should_halt.
MutRunUnhalted(i) ==
  /\ at = "loop"
  /\ execute_instruction(i)
  /\ disp' = MemoryAfter(i)
  /\ at' = IF ReturnsOne(i) THEN "loop" ELSE "stop"
  /\ UNCHANGED <<gui_mode, in_init, delay_mem_update, breakpoints,
                 sys_bpt_addr, need_a_stop_notice, start_file, pipe, buf>>

RunInstruction(i) ==
  /\ at = "loop" /\ ~should_halt
  /\ execute_instruction(i)
  /\ disp' = MemoryAfter(i)
  /\ at' = IF ReturnsOne(i) THEN "loop" ELSE "stop"
  /\ UNCHANGED <<gui_mode, in_init, delay_mem_update, breakpoints,
                 sys_bpt_addr, need_a_stop_notice, start_file, pipe, buf>>

RunHalted ==
  /\ at = "loop" /\ should_halt
  /\ at' = "stop"
  /\ UNCHANGED <<gui_mode, in_init, pc, disp, delay_mem_update, breakpoints,
                 sys_bpt_addr, finish_depth, should_halt, interrupted,
                 need_a_stop_notice, start_file, pipe, buf>>

(* The values of <<pipe, buf>> after instructions ran.  Without the front  *)
(* end the console is stdin: the program itself may have read lines, and   *)
(* with the option "keep" off the kernel's lines are dropped.              *)
LinesAfterRun ==
  IF gui_mode THEN {<<pipe, buf>>}
  ELSE ({pipe, 0} \X (0 .. buf))
         \cup {l \in (0 .. pipe) \X (0 .. pipe) : l[1] + l[2] <= pipe}

ConsoleReads == \E l \in LinesAfterRun : pipe' = l[1] /\ buf' = l[2]

\* Mutant: the breakpoint of "next" is dropped whenever a run ends.
MutStopForgetsNext ==
  /\ at = "stop"
  /\ ConsoleReads
  /\ need_a_stop_notice' = FALSE
  /\ sys_bpt_addr' = -1
  /\ finish_depth' = IF interrupted THEN finish_depth ELSE 0
  /\ disp' = ShowStateIfStopVisible(disp, interrupted)
  /\ at' = IF in_init THEN "init" ELSE "prompt"
  /\ UNCHANGED <<gui_mode, in_init, pc, delay_mem_update, breakpoints,
                 should_halt, interrupted, start_file>>

StopRun ==
  /\ at = "stop"
  /\ ConsoleReads
  /\ need_a_stop_notice' = FALSE
  /\ sys_bpt_addr' = IF interrupted THEN sys_bpt_addr ELSE -1
  /\ finish_depth' = IF interrupted THEN finish_depth ELSE 0
  /\ disp' = ShowStateIfStopVisible(disp, interrupted)
  /\ at' = IF in_init THEN "init" ELSE "prompt"
  /\ UNCHANGED <<gui_mode, in_init, pc, delay_mem_update, breakpoints,
                 should_halt, interrupted, start_file>>

StepInstruction(i) ==
  /\ at = "step"
  /\ ConsoleReads
  /\ execute_instruction(i)
  /\ disp' = ShowStateIfStopVisible(MemoryAfter(i), interrupted')
  /\ at' = "prompt"
  /\ UNCHANGED <<gui_mode, in_init, delay_mem_update, breakpoints,
                 sys_bpt_addr, need_a_stop_notice, start_file>>

NextInstruction(i) ==
  /\ at = "next"
  /\ execute_instruction(i)
  /\ IF ReturnsOne(i) /\ i.kind = "call"
     THEN /\ sys_bpt_addr' = PCplus1
          /\ disp' = MemoryAfter(i)
          /\ at' = "start"
          /\ UNCHANGED <<pipe, buf>>
     ELSE /\ sys_bpt_addr' = sys_bpt_addr
          /\ disp' = ShowStateIfStopVisible(MemoryAfter(i), interrupted')
          /\ at' = "prompt"
          /\ ConsoleReads
  /\ UNCHANGED <<gui_mode, in_init, delay_mem_update, breakpoints,
                 need_a_stop_notice, start_file>>

----------------------------------------------------------------------------
(***************************************************************************)
(* The command loop.  poll sees what is in the kernel's pipe, fgets takes  *)
(* lines from the stdio buffer and refills it with everything read (2)     *)
(* returns: k of the waiting lines.                                        *)
(***************************************************************************)
AutoContinues == gui_mode /\ pipe = 0 /\ interrupted

\* The values that <<pipe, buf>> can have after fgets returned a line.
AfterFgets ==
  IF buf > 0 THEN {<<pipe, buf - 1>>}
             ELSE {<<pipe - k, k - 1>> : k \in 1 .. pipe}

(* flush_console_input.  Without the front end the console is stdin, so    *)
(* lines already typed are lost, up to what the last read (2) left in the  *)
(* stdio buffer; the option "flush" may be off.                            *)
AfterFlush(l) ==
  IF gui_mode \/ l[1] = 0 THEN {l} ELSE {l} \cup {<<0, b>> : b \in 0 .. l[1]}

ReadsLine == at = "prompt" /\ ~AutoContinues

TakeLine ==
  /\ ReadsLine
  /\ \E l \in AfterFgets : pipe' = l[1] /\ buf' = l[2]

TakeLineAndFlush ==
  /\ ReadsLine
  /\ \E l \in AfterFgets : \E m \in AfterFlush(l) : pipe' = m[1] /\ buf' = m[2]

\* simple_readline makes up a "c" command.
AutoContinue ==
  /\ at = "prompt" /\ AutoContinues
  /\ interrupted' = FALSE
  /\ at' = "start"
  /\ UNCHANGED <<gui_mode, in_init, pc, disp, delay_mem_update, breakpoints,
                 sys_bpt_addr, finish_depth, should_halt, need_a_stop_notice,
                 start_file, pipe, buf>>

cmd_continue ==
  /\ IF interrupted THEN TakeLine ELSE TakeLineAndFlush
  /\ interrupted' = FALSE
  /\ at' = "start"
  /\ UNCHANGED <<gui_mode, in_init, pc, disp, delay_mem_update, breakpoints,
                 sys_bpt_addr, finish_depth, should_halt, need_a_stop_notice,
                 start_file>>

cmd_finish ==
  /\ TakeLineAndFlush
  /\ finish_depth' = 1
  /\ at' = "start"
  /\ UNCHANGED <<gui_mode, in_init, pc, disp, delay_mem_update, breakpoints,
                 sys_bpt_addr, should_halt, interrupted, need_a_stop_notice,
                 start_file>>

\* cmd_step and cmd_next up to their first instruction.
cmd_step_or_next(c) ==
  /\ TakeLineAndFlush
  /\ at' = c
  /\ UNCHANGED <<gui_mode, in_init, pc, disp, delay_mem_update, breakpoints,
                 sys_bpt_addr, finish_depth, should_halt, interrupted,
                 need_a_stop_notice, start_file>>

(***************************************************************************)
(* Commands that do not run the LC-3.                                      *)
(***************************************************************************)
\* Mutant: the breakpoint of a pending "next" survives.
MutStopKeepsNext(d) ==
  /\ interrupted' = FALSE
  /\ sys_bpt_addr' = sys_bpt_addr
  /\ finish_depth' = 0
  /\ disp' = DumpDelayedMemUpdates(d)

\* gui_stop_and_dump on the display d: the pending run is forgotten.
gui_stop_and_dump(d) ==
  /\ interrupted' = FALSE
  /\ sys_bpt_addr' = -1
  /\ finish_depth' = 0
  /\ disp' = DumpDelayedMemUpdates(d)

cmd_lc3_stop ==
  /\ gui_mode
  /\ TakeLine
  /\ gui_stop_and_dump(disp)
  /\ UNCHANGED <<gui_mode, at, in_init, pc, delay_mem_update, breakpoints,
                 should_halt, need_a_stop_notice, start_file>>

\* cmd_file with a file that can be read.
cmd_file(f) ==
  /\ TakeLine
  /\ pc' = f.start
  /\ start_file' = f
  /\ IF interrupted
     THEN gui_stop_and_dump(Load(disp, f))
     ELSE /\ disp' = Load(disp, f)
          /\ UNCHANGED <<sys_bpt_addr, finish_depth, interrupted>>
  /\ UNCHANGED <<gui_mode, at, in_init, delay_mem_update, breakpoints,
                 should_halt, need_a_stop_notice>>

cmd_memory(a, v) ==
  /\ TakeLine
  /\ disp' = Disassemble(WriteMemory(disp, [x \in {a} |-> v]), {a})
  /\ UNCHANGED <<gui_mode, at, in_init, pc, delay_mem_update, breakpoints,
                 sys_bpt_addr, finish_depth, should_halt, interrupted,
                 need_a_stop_notice, start_file>>

\* cmd_memory of a value without bit 15 to the MCR.
cmd_memory_MCR ==
  /\ TakeLine
  /\ should_halt' = TRUE
  /\ UNCHANGED <<gui_mode, at, in_init, pc, disp, delay_mem_update, breakpoints,
                 sys_bpt_addr, finish_depth, interrupted, need_a_stop_notice,
                 start_file>>

cmd_register_PC(a) ==
  /\ TakeLine
  /\ pc' = a
  /\ UNCHANGED <<gui_mode, at, in_init, disp, delay_mem_update, breakpoints,
                 sys_bpt_addr, finish_depth, should_halt, interrupted,
                 need_a_stop_notice, start_file>>

\* cmd_break: set an address, clear an address or clear all.
cmd_break(bpts) ==
  /\ TakeLine
  /\ breakpoints' = bpts
  /\ UNCHANGED <<gui_mode, at, in_init, pc, disp, delay_mem_update,
                 sys_bpt_addr, finish_depth, should_halt, interrupted,
                 need_a_stop_notice, start_file>>

cmd_option_delay(on) ==
  /\ gui_mode
  /\ TakeLine
  /\ disp' = IF delay_mem_update /\ ~on THEN DumpDelayedMemUpdates(disp)
                                        ELSE disp
  /\ delay_mem_update' = on
  /\ UNCHANGED <<gui_mode, at, in_init, pc, breakpoints, sys_bpt_addr,
                 finish_depth, should_halt, interrupted, need_a_stop_notice,
                 start_file>>

(* Commands that leave this state alone: printregs, translate, dump, help, *)
(* tracefile, the other registers and options, and the commands refused    *)
(* with a message, such as file with an unreadable name.                   *)
OtherCommand ==
  /\ TakeLine
  /\ UNCHANGED <<gui_mode, at, in_init, pc, disp, delay_mem_update,
                 breakpoints, sys_bpt_addr, finish_depth, should_halt,
                 interrupted, need_a_stop_notice, start_file>>

cmd_quit ==
  /\ TakeLine
  /\ at' = "exit"
  /\ UNCHANGED <<gui_mode, in_init, pc, disp, delay_mem_update, breakpoints,
                 sys_bpt_addr, finish_depth, should_halt, interrupted,
                 need_a_stop_notice, start_file>>

\* The other end closes the input: lc3readline returns NULL and main returns.
EndOfInput ==
  /\ ReadsLine /\ pipe = 0 /\ buf = 0
  /\ at' = "exit"
  /\ UNCHANGED <<gui_mode, in_init, pc, disp, delay_mem_update, breakpoints,
                 sys_bpt_addr, finish_depth, should_halt, interrupted,
                 need_a_stop_notice, start_file, pipe, buf>>

----------------------------------------------------------------------------
(***************************************************************************)
(* init_machine.  Its run of the OS is a run like any other, with in_init  *)
(* set; "init" is what follows that run.                                   *)
(***************************************************************************)
BootDisplay(d, osFound) ==
  IF osFound THEN BootMemory(d, TRUE)
             ELSE ShowStateIfStopVisible(BootMemory(d, FALSE), FALSE)
BootPC(osFound)    == IF osFound THEN OsPC ELSE 0
BootPlace(osFound) == IF osFound THEN "start" ELSE "init"

(* In GUI mode memory is overwritten with zeroes word by word, so that the *)
(* code window follows, before init_machine clears it.                     *)
cmd_reset(osFound) ==
  /\ TakeLine
  /\ disp' = LET wiped == IF gui_mode
                          THEN DumpDelayedMemUpdates(WriteMemory(disp, AllZero))
                          ELSE disp
             IN  BootDisplay([wiped EXCEPT !.hint = FALSE], osFound)
  /\ interrupted' = (interrupted /\ ~gui_mode)
  /\ need_a_stop_notice' = FALSE
  /\ sys_bpt_addr' = -1
  /\ finish_depth' = 0
  /\ breakpoints' = {}
  /\ in_init' = TRUE
  /\ pc' = BootPC(osFound)
  /\ at' = BootPlace(osFound)
  /\ should_halt' = (should_halt \/ gui_mode)  \* the zero written to the MCR
  /\ UNCHANGED <<gui_mode, delay_mem_update, start_file>>

\* The end of init_machine: start_file is loaded, if it can still be read.
InitDone(reloaded) ==
  /\ at = "init"
  /\ in_init' = FALSE
  /\ at' = "prompt"
  /\ IF start_file # NoFile /\ reloaded
     THEN /\ pc' = start_file.start
          /\ disp' = Load(disp, start_file)
     ELSE UNCHANGED <<pc, disp>>
  /\ UNCHANGED <<gui_mode, delay_mem_update, breakpoints, sys_bpt_addr,
                 finish_depth, should_halt, interrupted, need_a_stop_notice,
                 start_file, pipe, buf>>

Init ==
  /\ gui_mode \in BOOLEAN
  /\ delay_mem_update = TRUE
  /\ start_file \in Files \cup {NoFile}
  /\ in_init = TRUE
  /\ \E osFound \in BOOLEAN :
       /\ at = BootPlace(osFound)
       /\ pc = BootPC(osFound)
       /\ disp = BootDisplay([mem |-> AllZero, shown |-> AllZero,
                              later |-> {}, hint |-> FALSE], osFound)
  /\ breakpoints = {}
  /\ sys_bpt_addr = -1 /\ finish_depth = 0
  /\ should_halt = TRUE /\ interrupted = FALSE /\ need_a_stop_notice = FALSE
  /\ pipe = 0 /\ buf = 0

----------------------------------------------------------------------------
\* halt_lc3, the SIGINT handler: between any two steps.
halt_lc3 ==
  /\ at # "exit"
  /\ should_halt' = TRUE
  /\ need_a_stop_notice' = TRUE
  /\ UNCHANGED <<gui_mode, at, in_init, pc, disp, delay_mem_update,
                 breakpoints, sys_bpt_addr, finish_depth, interrupted,
                 start_file, pipe, buf>>

\* The user or the front end sends a command line.
LineArrives ==
  /\ at # "exit" /\ pipe < MaxPipe
  /\ pipe' = pipe + 1
  /\ UNCHANGED <<gui_mode, at, in_init, pc, disp, delay_mem_update,
                 breakpoints, sys_bpt_addr, finish_depth, should_halt,
                 interrupted, need_a_stop_notice, start_file, buf>>

Run ==
  \/ StartRun \/ RunHalted \/ StopRun
  \/ \E i \in Instruction :
       RunInstruction(i) \/ StepInstruction(i) \/ NextInstruction(i)
  \/ \E reloaded \in BOOLEAN : InitDone(reloaded)

RunCommand ==
  \/ AutoContinue \/ cmd_continue \/ cmd_finish
  \/ \E c \in {"step", "next"} : cmd_step_or_next(c)

OtherCommands ==
  \/ cmd_lc3_stop \/ cmd_memory_MCR \/ OtherCommand \/ cmd_quit
  \/ \E f \in Files : cmd_file(f)
  \/ \E a \in Addr, v \in Word : cmd_memory(a, v)
  \/ \E a \in Addr : cmd_register_PC(a)
  \/ \E a \in Addr : cmd_break(breakpoints \cup {a})
  \/ \E a \in Addr : cmd_break(breakpoints \ {a})
  \/ cmd_break({})
  \/ \E on \in BOOLEAN : cmd_option_delay(on)
  \/ \E osFound \in BOOLEAN : cmd_reset(osFound)

Next == Run \/ RunCommand \/ OtherCommands \/ halt_lc3 \/ LineArrives
          \/ EndOfInput

Spec == Init /\ [][Next]_vars

(* The simulator's process keeps running, and reads a line that is there;  *)
(* nothing obliges the user or the front end to send one.                  *)
Fairness ==
  /\ WF_vars(Run)
  /\ WF_vars(RunCommand \/ OtherCommands)

FairSpec == Spec /\ Fairness

----------------------------------------------------------------------------
(***************************************************************************)
(* Properties.                                                             *)
(***************************************************************************)
\* Every variable of the simulator keeps its type.
TypeOK ==
  /\ gui_mode \in BOOLEAN
  /\ at \in Place
  /\ in_init \in BOOLEAN
  /\ pc \in Addr
  /\ disp \in Display
  /\ delay_mem_update \in BOOLEAN
  /\ breakpoints \in SUBSET Addr
  /\ sys_bpt_addr \in Addr \cup {-1}
  /\ finish_depth \in 0 .. MaxFinishDepth - 1
  /\ should_halt \in BOOLEAN
  /\ interrupted \in BOOLEAN
  /\ need_a_stop_notice \in BOOLEAN
  /\ start_file \in Files \cup {NoFile}
  /\ pipe \in 0 .. MaxPipe
  /\ buf \in Nat

(* When the simulator waits for a command and will not go on by itself, no *)
(* "next" breakpoint and no "finish" count is left over for a later run to *)
(* trip on (run_until_stopped, gui_stop_and_dump; CHANGE_LOG 12 Feb 2004). *)
NoStaleGoal ==
  at = "prompt" /\ ~interrupted => sys_bpt_addr = -1 /\ finish_depth = 0

(* When the simulator waits for a command and will not go on by itself,    *)
(* the front end's code window shows what memory holds: every delayed      *)
(* update was dumped, whichever way the run ended and whatever commands    *)
(* interrupted it (show_state_if_stop_visible, dump_delayed_mem_updates).  *)
CodeWindowCurrent ==
  gui_mode /\ at = "prompt" /\ ~interrupted => disp.shown = disp.mem

\* The words d shows wrongly are remembered, and the hint says so.
Tracked(d) ==
  /\ d.later # {} => d.hint
  /\ \A a \in Addr : d.shown[a] # d.mem[a] => a \in d.later

(* No update of the code window is lost: have_mem_to_dump is a sound hint, *)
(* and a word the code window has wrong is always one that lc3_show_later  *)
(* remembers (write_memory, dump_delayed_mem_updates, init_machine).       *)
NoUpdateLost == gui_mode => Tracked(disp)

(* Input from the front end always gets the simulator back to its command  *)
(* loop, even when the LC-3 program runs for ever (the poll at the end of  *)
(* execute_instruction), unless the OS is being booted.                    *)
GuiInputGetsAttention ==
  (gui_mode /\ pipe > 0 /\ at = "loop" /\ ~in_init) ~> (at \in {"prompt", "exit"})

(* CTRL-C during the run loop gets the user back to the prompt             *)
(* (halt_lc3, the condition of the loop in run_until_stopped).             *)
CtrlCStops == (at = "loop" /\ should_halt) ~> (at \in {"prompt", "exit"})

=============================================================================
