---------------------------- MODULE Lc3SimProofs ----------------------------
(***************************************************************************)
(* Proofs about Lc3Sim and its histories (Lc3SimRuns), for every memory,   *)
(* every set of files and every MAX_FINISH_DEPTH.                          *)
(*                                                                         *)
(* The argument.  Between runs (Idle) and not interrupted, nothing of the  *)
(* last run may be left over.  That is kept by the steps that enter Idle   *)
(* only because an interruption can happen neither outside GUI mode nor    *)
(* while init_machine runs the OS (Places), and because with the delay     *)
(* option off the code window is current at all times (Window).            *)
(***************************************************************************)
EXTENDS Lc3SimRuns, TLAPS

Idle == {"prompt", "step", "next", "init"}

Current(d) == d.shown = d.mem

Places ==
  /\ in_init => at \in {"start", "loop", "stop", "init"}
  /\ at = "init" => in_init
  /\ interrupted => gui_mode /\ ~in_init

Goals == at \in Idle /\ ~interrupted => sys_bpt_addr = -1 /\ finish_depth = 0

Window ==
  gui_mode => /\ Tracked(disp)
              /\ ~delay_mem_update => Current(disp)
              /\ at \in Idle /\ ~interrupted => Current(disp)

IInv == TypeOK /\ Places /\ Goals /\ Window

----------------------------------------------------------------------------
(***************************************************************************)
(* What the operations on the display do.                                  *)
(***************************************************************************)
\* Words to store: a function from some addresses to words.
Words(w) == DOMAIN w \subseteq Addr /\ \A a \in DOMAIN w : w[a] \in Word

(* disassemble_one changes nothing but what the front end sees, and makes  *)
(* it see the words of S as they are.                                      *)
LEMMA DisassembleEffect ==
  ASSUME NEW d \in Display, NEW S \in SUBSET Addr
  PROVE  LET r == Disassemble(d, S)
         IN  /\ r \in Display
             /\ r.mem = d.mem /\ r.later = d.later /\ r.hint = d.hint
             /\ gui_mode => \A a \in Addr :
                  r.shown[a] = IF a \in S THEN d.mem[a] ELSE d.shown[a]
  BY DEF Disassemble, Display

(* write_memory stores the words, remembers or shows the changed ones, and *)
(* keeps a current code window current when updates are not delayed.       *)
LEMMA WriteEffect ==
  ASSUME NEW d \in Display, NEW w, Words(w)
  PROVE  LET r == WriteMemory(d, w)
         IN  /\ r \in Display
             /\ \A a \in Addr :
                  r.mem[a] = IF a \in DOMAIN w THEN w[a] ELSE d.mem[a]
             /\ gui_mode /\ Tracked(d) => Tracked(r)
             /\ gui_mode => \A a \in Addr \ DOMAIN w :
                              r.shown[a] = d.shown[a]
             /\ gui_mode /\ ~delay_mem_update /\ Current(d) => Current(r)
<1> DEFINE changed == {a \in DOMAIN w : w[a] # d.mem[a]}
           stored  == [d EXCEPT !.mem =
                         [a \in Addr |-> IF a \in DOMAIN w THEN w[a]
                                                           ELSE d.mem[a]]]
<1>1. changed \in SUBSET Addr
  BY DEF Words
<1>2. /\ stored \in Display
      /\ stored.mem = [a \in Addr |-> IF a \in DOMAIN w THEN w[a]
                                                        ELSE d.mem[a]]
      /\ stored.shown = d.shown /\ stored.later = d.later
      /\ stored.hint = d.hint
  BY DEF Words, Display
<1>3. CASE gui_mode /\ delay_mem_update
  <2> DEFINE r == [stored EXCEPT !.later = d.later \cup changed,
                                 !.hint  = d.hint \/ changed # {}]
  <2>1. WriteMemory(d, w) = r
    BY <1>3 DEF WriteMemory
  <2>2. /\ r \in Display
        /\ r.mem = stored.mem /\ r.shown = d.shown
        /\ r.later = d.later \cup changed
        /\ r.hint = (d.hint \/ changed # {})
    BY <1>1, <1>2 DEF Display
  <2> HIDE DEF stored, r
  <2>3. QED
    BY <2>1, <2>2, <1>1, <1>2, <1>3 DEF Tracked, Current, Display
<1>4. CASE ~(gui_mode /\ delay_mem_update)
  <2>1. WriteMemory(d, w) = Disassemble(stored, changed)
    BY <1>4 DEF WriteMemory
  <2> HIDE DEF stored
  <2>2. QED
    BY <2>1, <1>1, <1>2, <1>4, DisassembleEffect
    DEF Tracked, Current, Display
<1>5. QED
  BY <1>3, <1>4

(* dump_delayed_mem_updates makes a tracked code window current.           *)
LEMMA DumpEffect ==
  ASSUME NEW d \in Display
  PROVE  LET r == DumpDelayedMemUpdates(d)
         IN  /\ r \in Display
             /\ r.mem = d.mem
             /\ gui_mode /\ Tracked(d) => Tracked(r) /\ Current(r)
<1>1. CASE ~d.hint
  <2>1. DumpDelayedMemUpdates(d) = d
    BY <1>1 DEF DumpDelayedMemUpdates
  <2>2. QED
    BY <2>1, <1>1 DEF Tracked, Current, Display
<1>2. CASE d.hint
  <2> DEFINE e == Disassemble(d, d.later)
             r == [e EXCEPT !.later = {}, !.hint = FALSE]
  <2>1. DumpDelayedMemUpdates(d) = r
    BY <1>2 DEF DumpDelayedMemUpdates
  <2>2. /\ e \in Display
        /\ e.mem = d.mem
        /\ gui_mode => \A a \in Addr :
             e.shown[a] = IF a \in d.later THEN d.mem[a] ELSE d.shown[a]
    <3>1. d.later \in SUBSET Addr
      BY DEF Display
    <3>2. QED
      BY <3>1, DisassembleEffect
  <2> HIDE DEF e
  <2>3. /\ r \in Display
        /\ r.mem = e.mem /\ r.shown = e.shown /\ r.later = {}
    BY <2>2 DEF Display
  <2> HIDE DEF r
  <2>4. gui_mode /\ Tracked(d) => Current(r)
    BY <2>2, <2>3 DEF Tracked, Current, Display
  <2>5. QED
    BY <2>1, <2>2, <2>3, <2>4 DEF Tracked, Current
<1>3. QED
  BY <1>1, <1>2

(* show_state_if_stop_visible leaves a tracked code window current, unless *)
(* the run was interrupted by the front end.                               *)
LEMMA ShowEffect ==
  ASSUME NEW d \in Display, NEW intr \in BOOLEAN
  PROVE  LET r == ShowStateIfStopVisible(d, intr)
         IN  /\ r \in Display
             /\ r.mem = d.mem
             /\ gui_mode /\ Tracked(d) => Tracked(r)
             /\ gui_mode /\ Current(d) /\ ~delay_mem_update => Current(r)
             /\ gui_mode /\ Tracked(d) /\ delay_mem_update /\ ~intr => Current(r)
  BY DumpEffect DEF ShowStateIfStopVisible

(* Loading a file keeps the code window tracked, and current if it was.    *)
LEMMA LoadEffect ==
  ASSUME NEW d \in Display, NEW f, IsFile(f)
  PROVE  LET r == Load(d, f)
         IN  /\ r \in Display
             /\ gui_mode /\ Tracked(d) => Tracked(r)
             /\ gui_mode /\ Current(d) => Current(r)
<1> DEFINE e == WriteMemory(d, f.words)
           S == IF DOMAIN f.words = {} THEN Addr ELSE DOMAIN f.words
<1>1. Words(f.words) /\ S \in SUBSET Addr
  BY DEF IsFile, Words
<1>2. /\ e \in Display
      /\ \A a \in Addr : e.mem[a] = IF a \in DOMAIN f.words THEN f.words[a]
                                                            ELSE d.mem[a]
      /\ gui_mode /\ Tracked(d) => Tracked(e)
      /\ gui_mode => \A a \in Addr \ DOMAIN f.words : e.shown[a] = d.shown[a]
  BY <1>1, WriteEffect
<1>3. DOMAIN f.words \subseteq S
  BY <1>1 DEF Words
<1>4. Load(d, f) = Disassemble(e, S)
  BY DEF Load
<1> HIDE DEF e, S
<1> DEFINE r == Disassemble(e, S)
<1>5. /\ r \in Display
      /\ r.mem = e.mem /\ r.later = e.later /\ r.hint = e.hint
      /\ gui_mode => \A a \in Addr :
           r.shown[a] = IF a \in S THEN e.mem[a] ELSE e.shown[a]
  BY <1>1, <1>2, DisassembleEffect
<1> HIDE DEF r
<1>6. gui_mode /\ Tracked(d) => Tracked(r)
  BY <1>2, <1>5 DEF Tracked
<1>7. ASSUME gui_mode, Current(d) PROVE Current(r)
  <2>1. \A a \in Addr : r.shown[a] = r.mem[a]
    BY <1>2, <1>3, <1>5, <1>7 DEF Current
  <2>2. QED
    BY <2>1, <1>5 DEF Current, Display
<1>8. QED
  BY <1>4, <1>5, <1>6, <1>7 DEF r

(* init_machine's memory: from a display without delayed updates that      *)
(* shows zeroes, both are current afterwards.                              *)
LEMMA BootEffect ==
  ASSUME NEW d \in Display, NEW osFound \in BOOLEAN,
         d.hint = FALSE, gui_mode => d.shown = AllZero
  PROVE  LET r == BootDisplay(d, osFound)
         IN  /\ r \in Display
             /\ gui_mode => Tracked(r) /\ Current(r)
<1> DEFINE z == [d EXCEPT !.mem = AllZero, !.later = {}]
<1>1. /\ z \in Display
      /\ gui_mode => Tracked(z) /\ Current(z)
  BY SimConstants DEF Display, AllZero, Tracked, Current
<1> HIDE DEF z
<1>2. IsFile(Os)
  BY SimConstants
<1>3. CASE osFound
  <2>1. BootDisplay(d, osFound) = Load(z, Os)
    BY <1>3 DEF BootDisplay, BootMemory, z
  <2>2. QED
    BY <2>1, <1>1, <1>2, LoadEffect
<1>4. CASE ~osFound
  <2>1. BootDisplay(d, osFound) = ShowStateIfStopVisible(z, FALSE)
    BY <1>4 DEF BootDisplay, BootMemory, z
  <2>2. QED
    BY <2>1, <1>1, ShowEffect, DumpEffect DEF ShowStateIfStopVisible
<1>5. QED
  BY <1>3, <1>4

----------------------------------------------------------------------------
(***************************************************************************)
(* The steps of the simulator.                                             *)
(***************************************************************************)
(* The smallest counts are within their bounds.                            *)
LEMMA Bounds ==
  /\ 0 \in 0 .. MaxFinishDepth - 1
  /\ 1 \in 0 .. MaxFinishDepth - 1
  /\ 0 \in 0 .. MaxPipe
  BY SimConstants

(* Reading a line, with or without the flush, keeps the two counts of      *)
(* lines within their bounds.                                              *)
LEMMA LinesType ==
  ASSUME TypeOK, TakeLine \/ TakeLineAndFlush
  PROVE  at = "prompt" /\ pipe' \in 0 .. MaxPipe /\ buf' \in Nat
<1>0. MaxPipe \in Nat
  BY SimConstants
<1>1. at = "prompt"
  BY DEF TakeLine, TakeLineAndFlush, ReadsLine
<1>2. \A l \in AfterFgets : l[1] \in 0 .. MaxPipe /\ l[2] \in Nat
  BY <1>0 DEF AfterFgets, TypeOK
<1>3. \A l \in AfterFgets : \A m \in AfterFlush(l) :
        m[1] \in 0 .. MaxPipe /\ m[2] \in Nat
  BY <1>0, <1>2 DEF AfterFlush
<1>4. QED
  BY <1>1, <1>2, <1>3 DEF TakeLine, TakeLineAndFlush

(* One instruction keeps the types, interrupts only a GUI run outside      *)
(* init_machine, starts no "finish" count of its own, and stores through   *)
(* write_memory.                                                           *)
LEMMA ExecuteEffect ==
  ASSUME IInv, NEW i \in Instruction, execute_instruction(i)
  PROVE  /\ pc' \in Addr
         /\ should_halt' \in BOOLEAN
         /\ finish_depth' \in 0 .. MaxFinishDepth - 1
         /\ finish_depth = 0 => finish_depth' = 0
         /\ interrupted' \in BOOLEAN
         /\ interrupted' => gui_mode /\ ~in_init
         /\ interrupted => interrupted'
         /\ PCplus1 \in Addr
         /\ MemoryAfter(i) \in Display
         /\ gui_mode => Tracked(MemoryAfter(i))
         /\ gui_mode /\ ~delay_mem_update => Current(MemoryAfter(i))
<1>1. PCplus1 \in Addr
  BY SimConstants DEF PCplus1, Addr, IInv, TypeOK
<1>2. NewPC(i) \in Addr
  BY <1>1 DEF NewPC, Instruction, IInv, TypeOK
<1>3. /\ DepthAfter(i) \in 0 .. MaxFinishDepth - 1
      /\ finish_depth = 0 => DepthAfter(i) = 0
  BY SimConstants DEF DepthAfter, Instruction, IInv, TypeOK
<1>4. /\ interrupted' \in BOOLEAN
      /\ interrupted' => gui_mode /\ ~in_init
      /\ interrupted => interrupted'
  BY DEF execute_instruction, Interrupts, GuiPoll, IInv, Places, TypeOK
<1>5. /\ MemoryAfter(i) \in Display
      /\ gui_mode => Tracked(MemoryAfter(i))
      /\ gui_mode /\ ~delay_mem_update => Current(MemoryAfter(i))
  <2>1. CASE i.kind = "store"
    <3>1. Words([a \in {i.addr} |-> i.val])
      BY <2>1 DEF Words, Instruction
    <3>2. MemoryAfter(i) = WriteMemory(disp, [a \in {i.addr} |-> i.val])
      BY <2>1 DEF MemoryAfter
    <3>3. QED
      BY <3>1, <3>2, WriteEffect DEF IInv, TypeOK, Window
  <2>2. CASE i.kind # "store"
    BY <2>2 DEF MemoryAfter, IInv, TypeOK, Window
  <2>3. QED
    BY <2>1, <2>2
<1>6. should_halt' \in BOOLEAN
  BY DEF execute_instruction, IInv, TypeOK
<1>7. /\ finish_depth' \in 0 .. MaxFinishDepth - 1
      /\ finish_depth = 0 => finish_depth' = 0
  BY <1>3 DEF execute_instruction, IInv, TypeOK
<1>8. QED
  BY <1>1, <1>2, <1>4, <1>5, <1>6, <1>7 DEF execute_instruction

(* Console input during a run keeps the types of pipe and buf.             *)
LEMMA ConsoleType ==
  ASSUME TypeOK, ConsoleReads
  PROVE  pipe' \in 0 .. MaxPipe /\ buf' \in Nat
<1>0. MaxPipe \in Nat
  BY SimConstants
<1>1. PICK l \in LinesAfterRun : pipe' = l[1] /\ buf' = l[2]
  BY DEF ConsoleReads
<1>2. l[1] \in 0 .. pipe /\ l[2] \in Nat
  BY DEF LinesAfterRun, TypeOK
<1>3. QED
  BY <1>0, <1>1, <1>2 DEF TypeOK

(* The initial states, in the middle of init_machine, satisfy the          *)
(* inductive invariant.                                                    *)
LEMMA InitIInv == Init => IInv
<1> SUFFICES ASSUME Init PROVE IInv
  OBVIOUS
<1> DEFINE blank == [mem |-> AllZero, shown |-> AllZero,
                     later |-> {}, hint |-> FALSE]
<1>1. PICK osFound \in BOOLEAN :
        /\ at = BootPlace(osFound)
        /\ pc = BootPC(osFound)
        /\ disp = BootDisplay(blank, osFound)
  BY DEF Init
<1>2. blank \in Display /\ blank.hint = FALSE /\ blank.shown = AllZero
  BY SimConstants DEF Display, AllZero
<1> HIDE DEF blank
<1>3. disp \in Display /\ (gui_mode => Tracked(disp) /\ Current(disp))
  BY <1>1, <1>2, BootEffect
<1>4. pc \in Addr /\ at \in {"start", "init"}
  BY <1>1, SimConstants DEF BootPC, BootPlace, Addr
<1>5. TypeOK
  BY <1>3, <1>4, Bounds DEF Init, TypeOK, Place
<1>6. Places /\ Goals /\ Window
  BY <1>3, <1>4 DEF Init, Places, Goals, Window
<1>7. QED
  BY <1>5, <1>6 DEF IInv

(* The steps of run_until_stopped, "step", "next" and init_machine         *)
(* preserve the inductive invariant.                                       *)
LEMMA RunIInv == IInv /\ Run => IInv'
<1> SUFFICES ASSUME IInv, Run PROVE IInv'
  OBVIOUS
<1>1. CASE StartRun
  BY <1>1 DEF StartRun, IInv, TypeOK, Place, Places, Goals, Window, Idle,
              Tracked, Current
<1>2. CASE RunHalted
  BY <1>2 DEF RunHalted, IInv, TypeOK, Place, Places, Goals, Window, Idle,
              Tracked, Current
<1>3. CASE StopRun
  <2>1. /\ disp' \in Display
        /\ gui_mode => Tracked(disp')
        /\ gui_mode /\ ~interrupted => Current(disp')
        /\ gui_mode /\ ~delay_mem_update => Current(disp')
    BY <1>3, ShowEffect DEF StopRun, IInv, TypeOK, Window
  <2>2. TypeOK'
    <3>1. pipe' \in 0 .. MaxPipe /\ buf' \in Nat
      BY <1>3, ConsoleType DEF StopRun, IInv
    <3>2. QED
      BY <1>3, <2>1, <3>1, Bounds DEF StopRun, IInv, TypeOK, Place
  <2>3. Places' /\ Goals'
    BY <1>3 DEF StopRun, IInv, TypeOK, Places, Goals, Idle
  <2>4. Window'
    BY <1>3, <2>1 DEF StopRun, IInv, Window, Tracked, Current
  <2>5. QED
    BY <2>2, <2>3, <2>4 DEF IInv
<1>4. ASSUME NEW i \in Instruction, RunInstruction(i) PROVE IInv'
  <2>1. execute_instruction(i) /\ disp' = MemoryAfter(i)
    BY <1>4 DEF RunInstruction
  <2>2. TypeOK'
    BY <1>4, <2>1, ExecuteEffect DEF RunInstruction, IInv, TypeOK, Place
  <2>3. Places' /\ Goals'
    BY <1>4, <2>1, ExecuteEffect
    DEF RunInstruction, IInv, TypeOK, Places, Goals, Idle
  <2>4. Window'
    BY <1>4, <2>1, ExecuteEffect
    DEF RunInstruction, IInv, Window, Tracked, Current, Idle
  <2>5. QED
    BY <2>2, <2>3, <2>4 DEF IInv
<1>5. ASSUME NEW i \in Instruction,
             StepInstruction(i) \/ NextInstruction(i)
      PROVE  IInv'
  <2> DEFINE shown == ShowStateIfStopVisible(MemoryAfter(i), interrupted')
  <2>1. execute_instruction(i)
    BY <1>5 DEF StepInstruction, NextInstruction
  <2>2. /\ shown \in Display
        /\ gui_mode => Tracked(shown)
        /\ gui_mode /\ ~delay_mem_update => Current(shown)
        /\ gui_mode /\ ~interrupted' => Current(shown)
    BY <2>1, ExecuteEffect, ShowEffect DEF IInv, TypeOK
  <2> HIDE DEF shown
  <2>3. /\ at \in {"step", "next"}
        /\ UNCHANGED <<gui_mode, in_init, delay_mem_update, breakpoints,
                       need_a_stop_notice, start_file>>
        /\ \/ at' = "start" /\ disp' = MemoryAfter(i)
                            /\ sys_bpt_addr' = PCplus1
                            /\ UNCHANGED <<pipe, buf>>
           \/ at' = "prompt" /\ disp' = shown
                             /\ sys_bpt_addr' = sys_bpt_addr
                             /\ ConsoleReads
    BY <1>5 DEF StepInstruction, NextInstruction, shown
  <2>4. TypeOK'
    <3>1. pipe' \in 0 .. MaxPipe /\ buf' \in Nat
      BY <2>3, ConsoleType DEF IInv, TypeOK
    <3>2. QED
      BY <2>1, <2>2, <2>3, <3>1, ExecuteEffect DEF IInv, TypeOK, Place
  <2>5. Places' /\ Goals'
    BY <2>1, <2>3, ExecuteEffect DEF IInv, TypeOK, Places, Goals, Idle
  <2>6. Window'
    BY <2>1, <2>2, <2>3, ExecuteEffect
    DEF IInv, Window, Tracked, Current, Idle
  <2>7. QED
    BY <2>4, <2>5, <2>6 DEF IInv
<1>6. ASSUME NEW reloaded \in BOOLEAN, InitDone(reloaded) PROVE IInv'
  <2>1. start_file # NoFile => IsFile(start_file)
    BY SimConstants DEF IInv, TypeOK
  <2>2. /\ disp' \in Display
        /\ pc' \in Addr
        /\ gui_mode => Tracked(disp') /\ Current(disp')
    BY <1>6, <2>1, LoadEffect
    DEF InitDone, IInv, TypeOK, Places, Window, Idle, IsFile
  <2>3. TypeOK'
    BY <1>6, <2>2 DEF InitDone, IInv, TypeOK, Place
  <2>4. Places' /\ Goals'
    BY <1>6 DEF InitDone, IInv, Places, Goals, Idle
  <2>5. Window'
    BY <1>6, <2>2 DEF InitDone, IInv, Window, Tracked, Current
  <2>6. QED
    BY <2>3, <2>4, <2>5 DEF IInv
<1>7. QED
  BY <1>1, <1>2, <1>3, <1>4, <1>5, <1>6 DEF Run

(* The commands that run the LC-3 preserve the inductive invariant.        *)
LEMMA RunCommandIInv == IInv /\ RunCommand => IInv'
<1> SUFFICES ASSUME IInv, RunCommand PROVE IInv'
  OBVIOUS
<1>1. CASE AutoContinue
  BY <1>1 DEF AutoContinue, IInv, TypeOK, Place, Places, Goals, Window, Idle,
              Tracked, Current
<1>2. CASE cmd_continue
  <2>1. pipe' \in 0 .. MaxPipe /\ buf' \in Nat /\ at = "prompt"
    BY <1>2, LinesType DEF cmd_continue, IInv
  <2>2. QED
    BY <1>2, <2>1 DEF cmd_continue, IInv, TypeOK, Place, Places, Goals,
                      Window, Idle, Tracked, Current
<1>3. CASE cmd_finish
  <2>1. pipe' \in 0 .. MaxPipe /\ buf' \in Nat /\ at = "prompt"
    BY <1>3, LinesType DEF cmd_finish, IInv
  <2>2. QED
    BY <1>3, <2>1, Bounds DEF cmd_finish, IInv, TypeOK, Place, Places, Goals,
                              Window, Idle, Tracked, Current
<1>4. ASSUME NEW c \in {"step", "next"}, cmd_step_or_next(c) PROVE IInv'
  <2>1. pipe' \in 0 .. MaxPipe /\ buf' \in Nat /\ at = "prompt"
    BY <1>4, LinesType DEF cmd_step_or_next, IInv
  <2>2. QED
    BY <1>4, <2>1 DEF cmd_step_or_next, IInv, TypeOK, Place, Places, Goals,
                      Window, Idle, Tracked, Current
<1>5. QED
  BY <1>1, <1>2, <1>3, <1>4 DEF RunCommand

(* What gui_stop_and_dump makes of a tracked display is current, and       *)
(* nothing of the interrupted run is left.                                 *)
LEMMA StopAndDumpEffect ==
  ASSUME TypeOK, NEW d \in Display, gui_stop_and_dump(d)
  PROVE  /\ disp' \in Display
         /\ gui_mode /\ Tracked(d) => Tracked(disp') /\ Current(disp')
         /\ interrupted' = FALSE /\ sys_bpt_addr' = -1 /\ finish_depth' = 0
  BY DumpEffect DEF gui_stop_and_dump

(* The other commands preserve the inductive invariant.                    *)
LEMMA OtherCommandsIInv == IInv /\ OtherCommands => IInv'
<1> SUFFICES ASSUME IInv, OtherCommands PROVE IInv'
  OBVIOUS
<1>1. CASE cmd_lc3_stop
  <2>1. pipe' \in 0 .. MaxPipe /\ buf' \in Nat /\ at = "prompt"
    BY <1>1, LinesType DEF cmd_lc3_stop, IInv
  <2>2. /\ disp' \in Display
        /\ gui_mode => Tracked(disp') /\ Current(disp')
        /\ interrupted' = FALSE /\ sys_bpt_addr' = -1 /\ finish_depth' = 0
    BY <1>1, StopAndDumpEffect DEF cmd_lc3_stop, IInv, TypeOK, Window
  <2>3. QED
    BY <1>1, <2>1, <2>2, Bounds
    DEF cmd_lc3_stop, IInv, TypeOK, Places, Goals, Window, Idle,
        Tracked, Current
<1>2. CASE OtherCommand
  <2>1. pipe' \in 0 .. MaxPipe /\ buf' \in Nat
    BY <1>2, LinesType DEF OtherCommand, IInv
  <2>2. QED
    BY <1>2, <2>1 DEF OtherCommand, IInv, TypeOK, Places, Goals, Window,
                      Tracked, Current
<1>3. CASE cmd_quit
  <2>1. pipe' \in 0 .. MaxPipe /\ buf' \in Nat /\ at = "prompt"
    BY <1>3, LinesType DEF cmd_quit, IInv
  <2>2. QED
    BY <1>3, <2>1 DEF cmd_quit, IInv, TypeOK, Place, Places, Goals, Window,
                      Idle, Tracked, Current
<1>4. ASSUME NEW f \in Files, cmd_file(f) PROVE IInv'
  <2>1. pipe' \in 0 .. MaxPipe /\ buf' \in Nat /\ at = "prompt"
    BY <1>4, LinesType DEF cmd_file, IInv
  <2>2. IsFile(f)
    BY SimConstants
  <2>3. f.start \in Addr
    BY <2>2 DEF IsFile
  <2>4. /\ Load(disp, f) \in Display
        /\ gui_mode => Tracked(Load(disp, f))
        /\ gui_mode /\ Current(disp) => Current(Load(disp, f))
    BY <2>2, LoadEffect DEF IInv, TypeOK, Window
  <2>5. CASE interrupted
    <3>1. /\ disp' \in Display
          /\ gui_mode => Tracked(disp') /\ Current(disp')
          /\ interrupted' = FALSE /\ sys_bpt_addr' = -1 /\ finish_depth' = 0
      BY <1>4, <2>4, <2>5, StopAndDumpEffect DEF cmd_file, IInv
    <3>2. QED
      BY <1>4, <2>1, <2>3, <3>1, Bounds
      DEF cmd_file, IInv, TypeOK, Places, Goals, Window, Idle,
          Tracked, Current
  <2>6. CASE ~interrupted
    BY <1>4, <2>1, <2>3, <2>4, <2>6
    DEF cmd_file, IInv, TypeOK, Places, Goals, Window, Idle, Tracked, Current
  <2>7. QED
    BY <2>5, <2>6
<1>5. ASSUME NEW a \in Addr, NEW v \in Word, cmd_memory(a, v) PROVE IInv'
  <2> DEFINE e == WriteMemory(disp, [x \in {a} |-> v])
  <2>1. pipe' \in 0 .. MaxPipe /\ buf' \in Nat /\ at = "prompt"
    BY <1>5, LinesType DEF cmd_memory, IInv
  <2>2. Words([x \in {a} |-> v])
    BY DEF Words
  <2>3. /\ e \in Display
        /\ \A b \in Addr \ {a} : e.mem[b] = disp.mem[b]
        /\ gui_mode => Tracked(e)
        /\ gui_mode => \A b \in Addr \ {a} : e.shown[b] = disp.shown[b]
    BY <2>2, WriteEffect DEF IInv, TypeOK, Window
  <2>4. disp' = Disassemble(e, {a})
    BY <1>5 DEF cmd_memory
  <2> HIDE DEF e
  <2>5. /\ disp' \in Display
        /\ disp'.mem = e.mem /\ disp'.later = e.later /\ disp'.hint = e.hint
        /\ gui_mode => \A b \in Addr :
             disp'.shown[b] = IF b \in {a} THEN e.mem[b] ELSE e.shown[b]
    BY <2>3, <2>4, DisassembleEffect
  <2>6. gui_mode => Tracked(disp')
    BY <2>3, <2>5 DEF Tracked
  <2>7. gui_mode /\ Current(disp) => Current(disp')
    <3>1. gui_mode /\ Current(disp) =>
            \A b \in Addr : disp'.shown[b] = disp'.mem[b]
      BY <2>3, <2>5 DEF Current
    <3>2. QED
      BY <3>1, <2>5 DEF Current, Display
  <2>8. QED
    BY <1>5, <2>1, <2>5, <2>6, <2>7
    DEF cmd_memory, IInv, TypeOK, Places, Goals, Window, Tracked, Current
<1>6. ASSUME NEW a \in Addr, cmd_register_PC(a) PROVE IInv'
  <2>1. pipe' \in 0 .. MaxPipe /\ buf' \in Nat
    BY <1>6, LinesType DEF cmd_register_PC, IInv
  <2>2. QED
    BY <1>6, <2>1 DEF cmd_register_PC, IInv, TypeOK, Places, Goals, Window,
                      Tracked, Current
<1>7. ASSUME NEW bpts \in SUBSET Addr, cmd_break(bpts) PROVE IInv'
  <2>1. pipe' \in 0 .. MaxPipe /\ buf' \in Nat
    BY <1>7, LinesType DEF cmd_break, IInv
  <2>2. QED
    BY <1>7, <2>1 DEF cmd_break, IInv, TypeOK, Places, Goals, Window,
                      Tracked, Current
<1>8. ASSUME NEW on \in BOOLEAN, cmd_option_delay(on) PROVE IInv'
  <2>1. pipe' \in 0 .. MaxPipe /\ buf' \in Nat
    BY <1>8, LinesType DEF cmd_option_delay, IInv
  <2>2. /\ disp' \in Display
        /\ gui_mode => Tracked(disp')
        /\ gui_mode /\ ~on => Current(disp')
        /\ gui_mode /\ Current(disp) => Current(disp')
    BY <1>8, DumpEffect DEF cmd_option_delay, IInv, TypeOK, Window
  <2>3. QED
    BY <1>8, <2>1, <2>2
    DEF cmd_option_delay, IInv, TypeOK, Places, Goals, Window, Tracked,
        Current
<1>9. ASSUME NEW osFound \in BOOLEAN, cmd_reset(osFound) PROVE IInv'
  <2> DEFINE written == WriteMemory(disp, AllZero)
             wiped   == IF gui_mode THEN DumpDelayedMemUpdates(written)
                                    ELSE disp
             ready   == [wiped EXCEPT !.hint = FALSE]
  <2>1. pipe' \in 0 .. MaxPipe /\ buf' \in Nat
    BY <1>9, LinesType DEF cmd_reset, IInv
  <2>2. Words(AllZero) /\ DOMAIN AllZero = Addr
    BY SimConstants DEF Words, AllZero
  <2>3. /\ written \in Display
        /\ gui_mode => Tracked(written)
        /\ written.mem = AllZero
    <3>1. /\ written \in Display
          /\ gui_mode => Tracked(written)
          /\ \A a \in Addr : written.mem[a] = AllZero[a]
      BY <2>2, WriteEffect DEF IInv, TypeOK, Window
    <3>2. QED
      BY <3>1 DEF AllZero, Display
  <2> HIDE DEF written
  <2>4. wiped \in Display /\ (gui_mode => wiped.shown = AllZero)
    BY <2>3, DumpEffect DEF IInv, TypeOK, Current
  <2> HIDE DEF wiped
  <2>5. /\ ready \in Display
        /\ ready.hint = FALSE
        /\ gui_mode => ready.shown = AllZero
    BY <2>4 DEF Display
  <2>6. disp' = BootDisplay(ready, osFound)
    BY <1>9 DEF cmd_reset, written, wiped
  <2> HIDE DEF ready
  <2>7. /\ disp' \in Display
        /\ gui_mode => Tracked(disp') /\ Current(disp')
    BY <2>5, <2>6, BootEffect
  <2>8. pc' \in Addr /\ at' \in {"start", "init"}
    BY <1>9, SimConstants DEF cmd_reset, BootPC, BootPlace, Addr
  <2>9. interrupted' = FALSE
    BY <1>9 DEF cmd_reset, IInv, Places, TypeOK
  <2>10. TypeOK'
    BY <1>9, <2>1, <2>7, <2>8, <2>9, Bounds DEF cmd_reset, IInv, TypeOK, Place
  <2>11. Places' /\ Goals'
    BY <1>9, <2>8, <2>9 DEF cmd_reset, Places, Goals
  <2>12. Window'
    BY <1>9, <2>7 DEF cmd_reset, Window, Tracked, Current
  <2>13. QED
    BY <2>10, <2>11, <2>12 DEF IInv
<1>10. breakpoints \in SUBSET Addr
  BY DEF IInv, TypeOK
<1>11. CASE cmd_memory_MCR
  <2>1. pipe' \in 0 .. MaxPipe /\ buf' \in Nat
    BY <1>11, LinesType DEF cmd_memory_MCR, IInv
  <2>2. QED
    BY <1>11, <2>1 DEF cmd_memory_MCR, IInv, TypeOK, Places, Goals, Window,
                       Tracked, Current
<1>12. QED
  BY <1>1, <1>2, <1>3, <1>4, <1>5, <1>6, <1>7, <1>8, <1>9, <1>10, <1>11
  DEF OtherCommands

(* The inductive invariant is inductive.                                   *)
LEMMA NextIInv == IInv /\ [Next]_vars => IInv'
<1> SUFFICES ASSUME IInv, [Next]_vars PROVE IInv'
  OBVIOUS
<1>1. CASE halt_lc3
  BY <1>1 DEF halt_lc3, IInv, TypeOK, Places, Goals, Window, Tracked, Current
<1>2. CASE LineArrives
  BY <1>2, SimConstants DEF LineArrives, IInv, TypeOK, Places, Goals, Window,
                            Tracked, Current
<1>3. CASE EndOfInput
  BY <1>3 DEF EndOfInput, ReadsLine, IInv, TypeOK, Place, Places, Goals,
              Window, Idle, Tracked, Current
<1>4. CASE UNCHANGED vars
  BY <1>4 DEF vars, IInv, TypeOK, Places, Goals, Window, Tracked, Current
<1>5. QED
  BY <1>1, <1>2, <1>3, <1>4, RunIInv, RunCommandIInv, OtherCommandsIInv
  DEF Next

----------------------------------------------------------------------------
(* Every reachable state satisfies the inductive invariant.                *)
THEOREM Inductive == Spec => []IInv
  BY InitIInv, NextIInv, PTL DEF Spec

(* The variables of the simulator keep their types.                        *)
THEOREM TypeCorrect == Spec => []TypeOK
<1>1. IInv => TypeOK
  BY DEF IInv
<1>2. QED
  BY <1>1, Inductive, PTL

(* No breakpoint of "next" and no count of "finish" survives into the next *)
(* run (run_until_stopped, gui_stop_and_dump, cmd_reset).                  *)
THEOREM GoalsForgotten == Spec => []NoStaleGoal
<1>1. IInv => NoStaleGoal
  BY DEF IInv, Goals, Idle, NoStaleGoal
<1>2. QED
  BY <1>1, Inductive, PTL

(* The front end's code window is never wrong when the simulator waits     *)
(* (show_state_if_stop_visible, dump_delayed_mem_updates).                 *)
THEOREM CodeWindowCorrect == Spec => []CodeWindowCurrent
<1>1. IInv => CodeWindowCurrent
  BY DEF IInv, Window, Idle, Current, CodeWindowCurrent
<1>2. QED
  BY <1>1, Inductive, PTL

(* The code window is never wrong without the simulator knowing where      *)
(* (write_memory, have_mem_to_dump, lc3_show_later).                       *)
THEOREM UpdatesRemembered == Spec => []NoUpdateLost
<1>1. IInv => NoUpdateLost
  BY DEF IInv, Window, NoUpdateLost
<1>2. QED
  BY <1>1, Inductive, PTL

----------------------------------------------------------------------------
(***************************************************************************)
(* The promises that commands make about runs the front end interrupts.    *)
(*                                                                         *)
(* BreakpointHolds speaks of the prompt, FinishCountExact and              *)
(* NextRemembered of the loop; an interruption carries all three through   *)
(* the stop, the prompt and the next start.  An interruption that is not   *)
(* yet answered and a breakpoint exclude each other (Unanswered), the      *)
(* count is exact wherever it will be used again (Counts), and the goal of *)
(* a "next" is its breakpoint at all times (Goal).                         *)
(***************************************************************************)
Unanswered ==
  interrupted /\ ~nested =>
    /\ at \notin {"start", "loop", "step", "next"}
    /\ at \in {"stop", "prompt"} => ~hit

Counts ==
  /\ depth \in Nat
  /\ ~nested /\ (at = "stop" => interrupted) => finish_depth = depth

Goal == next_goal # -1 => sys_bpt_addr = next_goal

HistTypes == hit \in BOOLEAN /\ nested \in BOOLEAN

HistInv == HistTypes /\ Unanswered /\ Counts /\ Goal

(* The histories never influence the simulator: every step with them is a  *)
(* step without them.                                                      *)
LEMMA HistStep == HistNext => Next
  BY DEF HistNext, Next, Run, RunCommand

(* The initial states satisfy the invariant of the histories.              *)
LEMMA InitHist == HistInit => HistInv
<1> SUFFICES ASSUME HistInit PROVE HistInv
  OBVIOUS
<1>1. Init => interrupted = FALSE
  BY Zenon DEF Init
<1>2. Init => finish_depth = 0
  BY Zenon DEF Init
<1>3. /\ interrupted = FALSE /\ finish_depth = 0
      /\ next_goal = -1 /\ hit = FALSE /\ nested = FALSE /\ depth = 0
  BY <1>1, <1>2 DEF HistInit
<1>4. HistTypes /\ Unanswered /\ Goal
  BY <1>3, Zenon DEF HistTypes, Unanswered, Goal
<1>5. Counts
  BY <1>3 DEF Counts
<1>6. QED
  BY <1>4, <1>5 DEF HistInv

(* A run command that is taken from the input answers the interruption or  *)
(* is nested in it.                                                        *)
LEMMA GivenHist ==
  ASSUME IInv, HistInv, NEW c \in {"continue", "finish", "step", "next"},
         Given(c), at = "prompt", at' \in {"start", "step", "next"},
         interrupted' = (interrupted /\ c # "continue"),
         finish_depth' = IF c = "finish" THEN 1 ELSE finish_depth
  PROVE  HistInv'
<1>1. finish_depth \in Nat
  BY DEF IInv, TypeOK
<1>2. HistTypes' /\ Unanswered' /\ Goal'
  BY DEF Given, IInv, TypeOK, HistInv, HistTypes, Unanswered, Goal
<1>3. Counts'
  <2>1. CASE c = "finish"
    BY <2>1 DEF Given, Counts
  <2>2. CASE c = "continue" /\ ~nested
    BY <2>2 DEF Given, HistInv, Counts
  <2>3. CASE c # "finish" /\ ~(c = "continue" /\ ~nested)
    BY <1>1, <2>3 DEF Given, Counts
  <2>4. QED
    BY <2>1, <2>2, <2>3
<1>4. QED
  BY <1>2, <1>3 DEF HistInv

(* An instruction that the front end interrupts hit no breakpoint and was  *)
(* counted; one after which the run goes on neither.                       *)
LEMMA ExecutedHist ==
  ASSUME IInv, HistInv, NEW i \in Instruction, execute_instruction(i),
         Executed(i), at \in {"loop", "step", "next"},
         \/ /\ at = "loop" /\ at' = IF ReturnsOne(i) THEN "loop" ELSE "stop"
            /\ sys_bpt_addr' = sys_bpt_addr
         \/ /\ at # "loop" /\ at' = "prompt"
            /\ sys_bpt_addr' = sys_bpt_addr
            /\ ~(at = "next" /\ i.kind = "call" /\ ReturnsOne(i))
         \/ /\ at = "next" /\ at' = "start" /\ ReturnsOne(i) /\ i.kind = "call"
            /\ sys_bpt_addr' = PCplus1
  PROVE  HistInv'
<1>1. /\ interrupted' = (interrupted \/ Interrupts(i))
      /\ Interrupts(i) => ~hit' /\ ~StopsBeforeCounting(i) /\ ~FinishStops(i)
      /\ ReturnsOne(i) => /\ ~StopsBeforeCounting(i) /\ ~FinishStops(i)
                          /\ ~Interrupts(i)
      /\ nested' = nested /\ hit' \in BOOLEAN
  BY DEF execute_instruction, Executed, Interrupts, ReturnsOne,
         StopsBeforeCounting
<1>2. interrupted \in BOOLEAN
  BY DEF IInv, TypeOK
<1>3. HistTypes' /\ Unanswered'
  BY <1>1, <1>2 DEF HistInv, HistTypes, Unanswered
<1>4. Goal'
  BY DEF Executed, HistInv, Goal
<1>5. depth' \in Nat
  BY DEF Executed, HistInv, Counts
<1>6. ASSUME ~nested, finish_depth = depth,
             ~StopsBeforeCounting(i), ~FinishStops(i)
      PROVE  finish_depth' = depth'
  <2>1. finish_depth' = DepthAfter(i)
    BY <1>6 DEF execute_instruction
  <2>2. finish_depth \in Nat
    BY DEF IInv, TypeOK
  <2>3. QED
    BY <1>6, <2>1, <2>2 DEF DepthAfter, FinishStops, Executed
<1>7. ASSUME ~nested PROVE finish_depth = depth
  BY <1>7 DEF HistInv, Counts
<1>8. ASSUME ~nested, at # "loop" PROVE finish_depth' = depth'
  <2>1. ~interrupted
    BY <1>8 DEF HistInv, Unanswered
  <2>2. finish_depth = 0 /\ depth = 0
    BY <1>7, <1>8, <2>1 DEF IInv, Goals, Idle
  <2>3. QED
    BY <2>2 DEF execute_instruction, DepthAfter, Executed
<1>9. Counts'
  <2>1. CASE at # "loop"
    BY <1>1, <1>5, <1>8, <2>1 DEF Counts
  <2>2. CASE at = "loop"
    <3> SUFFICES ASSUME ~nested, at' = "stop" => interrupted'
                 PROVE  finish_depth' = depth'
      BY <1>1, <1>5 DEF Counts
    <3>1. ReturnsOne(i) \/ Interrupts(i)
      BY <1>1, <2>2 DEF HistInv, Unanswered
    <3>2. QED
      BY <1>1, <1>6, <1>7, <3>1
  <2>3. QED
    BY <2>1, <2>2
<1>10. QED
  BY <1>3, <1>4, <1>9 DEF HistInv

(* What the commands that do not run the LC-3 do to a pending run: nothing, *)
(* or they forget it, its breakpoint and its count together.               *)
LEMMA OtherCommandsEffect ==
  ASSUME IInv, OtherCommands
  PROVE  /\ at = "prompt"
         /\ \/ /\ UNCHANGED <<interrupted, sys_bpt_addr, finish_depth, in_init>>
               /\ at' \in {"prompt", "exit"}
            \/ /\ interrupted' = FALSE /\ sys_bpt_addr' = -1
               /\ finish_depth' = 0 /\ at' = "prompt" /\ in_init' = in_init
            \/ /\ interrupted' = FALSE /\ sys_bpt_addr' = -1
               /\ finish_depth' = 0 /\ in_init' = TRUE
<1>1. TypeOK /\ Places
  BY DEF IInv
<1>2. TakeLine
  BY DEF OtherCommands, cmd_lc3_stop, cmd_memory_MCR, OtherCommand, cmd_quit,
         cmd_file, cmd_memory, cmd_register_PC, cmd_break, cmd_option_delay,
         cmd_reset
<1>3. at = "prompt"
  BY <1>1, <1>2, LinesType
<1>4. CASE cmd_lc3_stop
  BY <1>3, <1>4 DEF cmd_lc3_stop, gui_stop_and_dump
<1>5. ASSUME NEW f \in Files, cmd_file(f)
      PROVE  \/ /\ UNCHANGED <<interrupted, sys_bpt_addr, finish_depth, in_init>>
                /\ at' \in {"prompt", "exit"}
             \/ /\ interrupted' = FALSE /\ sys_bpt_addr' = -1
                /\ finish_depth' = 0 /\ at' = "prompt" /\ in_init' = in_init
  BY <1>3, <1>5 DEF cmd_file, gui_stop_and_dump
<1>6. ASSUME NEW osFound \in BOOLEAN, cmd_reset(osFound)
      PROVE  /\ interrupted' = FALSE /\ sys_bpt_addr' = -1
             /\ finish_depth' = 0 /\ in_init' = TRUE
  BY <1>1, <1>6 DEF cmd_reset, TypeOK, Places
<1>7. CASE \/ cmd_memory_MCR \/ OtherCommand \/ cmd_quit
           \/ \E a \in Addr, v \in Word : cmd_memory(a, v)
           \/ \E a \in Addr : cmd_register_PC(a)
           \/ \E a \in Addr : cmd_break(breakpoints \cup {a})
           \/ \E a \in Addr : cmd_break(breakpoints \ {a})
           \/ cmd_break({})
           \/ \E on \in BOOLEAN : cmd_option_delay(on)
  BY <1>3, <1>7 DEF cmd_memory_MCR, OtherCommand, cmd_quit, cmd_memory,
                    cmd_register_PC, cmd_break, cmd_option_delay
<1>8. QED
  BY <1>3, <1>4, <1>5, <1>6, <1>7 DEF OtherCommands

(* The commands that do not run the LC-3 keep the invariant.               *)
LEMMA OtherCommandsHist ==
  ASSUME IInv, HistInv, OtherCommands,
         next_goal' = IF Forgets \/ in_init' THEN -1 ELSE next_goal,
         nested' = (nested /\ ~Forgets),
         depth' = IF Forgets \/ in_init' THEN 0 ELSE depth,
         hit' = hit
  PROVE  HistInv'
<1>1. at = "prompt" /\ ~in_init /\ interrupted \in BOOLEAN
  BY OtherCommandsEffect DEF IInv, Places, TypeOK
<1>2. ~interrupted => sys_bpt_addr = -1 /\ finish_depth = 0
  BY <1>1 DEF IInv, Goals, Idle
<1>3. CASE /\ UNCHANGED <<interrupted, sys_bpt_addr, finish_depth, in_init>>
           /\ at' \in {"prompt", "exit"}
  <2>1. ~Forgets /\ ~in_init'
    BY <1>1, <1>3 DEF Forgets
  <2>2. UNCHANGED <<next_goal, nested, depth, hit>>
    BY <2>1, Zenon DEF HistInv, HistTypes
  <2>3. HistTypes' /\ Unanswered' /\ Goal'
    BY <1>1, <1>3, <2>2 DEF HistInv, HistTypes, Unanswered, Goal
  <2>4. Counts'
    BY <1>1, <1>3, <2>2 DEF HistInv, Counts
  <2>5. QED
    BY <2>3, <2>4 DEF HistInv
<1>4. CASE /\ interrupted' = FALSE /\ sys_bpt_addr' = -1
           /\ finish_depth' = 0 /\ at' = "prompt" /\ in_init' = in_init
  <2>1. Forgets = interrupted
    BY <1>1, <1>4 DEF Forgets
  <2>2. HistTypes' /\ Unanswered'
    BY <1>4 DEF HistInv, HistTypes, Unanswered
  <2>3. Goal' /\ Counts'
    BY <1>1, <1>2, <1>4, <2>1 DEF HistInv, Goal, Counts
  <2>4. QED
    BY <2>2, <2>3 DEF HistInv
<1>5. CASE /\ interrupted' = FALSE /\ sys_bpt_addr' = -1
           /\ finish_depth' = 0 /\ in_init' = TRUE
  BY <1>5 DEF HistInv, HistTypes, Unanswered, Counts, Goal
<1>6. QED
  BY <1>3, <1>4, <1>5, OtherCommandsEffect

(* The invariant of the histories is inductive relative to IInv.           *)
LEMMA NextHist == IInv /\ HistInv /\ [HistNext]_allVars => HistInv'
<1> SUFFICES ASSUME IInv, HistInv, [HistNext]_allVars PROVE HistInv'
  OBVIOUS
<1>0. /\ interrupted \in BOOLEAN /\ in_init \in BOOLEAN
      /\ hit \in BOOLEAN /\ nested \in BOOLEAN
  BY DEF IInv, TypeOK, HistInv, HistTypes
<1>1. CASE cmd_continue /\ Given("continue")
  <2>1. at = "prompt"
    BY <1>1, LinesType DEF cmd_continue, IInv
  <2>2. /\ at' = "start" /\ interrupted' = FALSE
        /\ finish_depth' = finish_depth
    BY <1>1 DEF cmd_continue
  <2>3. QED
    BY <1>1, <2>1, <2>2, GivenHist
<1>2. CASE cmd_finish /\ Given("finish")
  <2>1. at = "prompt"
    BY <1>2, LinesType DEF cmd_finish, IInv
  <2>2. at' = "start" /\ interrupted' = interrupted /\ finish_depth' = 1
    BY <1>2 DEF cmd_finish
  <2>3. QED
    BY <1>0, <1>2, <2>1, <2>2, GivenHist
<1>3. ASSUME NEW c \in {"step", "next"}, cmd_step_or_next(c), Given(c)
      PROVE  HistInv'
  <2>1. at = "prompt"
    BY <1>3, LinesType DEF cmd_step_or_next, IInv
  <2>2. at' = c /\ UNCHANGED <<interrupted, finish_depth>>
    BY <1>3 DEF cmd_step_or_next
  <2>3. QED
    BY <1>0, <1>3, <2>1, <2>2, GivenHist
<1>4. ASSUME NEW i \in Instruction,
             RunInstruction(i) \/ StepInstruction(i) \/ NextInstruction(i),
             Executed(i)
      PROVE  HistInv'
  <2>1. execute_instruction(i) /\ at \in {"loop", "step", "next"}
    BY <1>4 DEF RunInstruction, StepInstruction, NextInstruction
  <2>2. \/ /\ at = "loop" /\ at' = IF ReturnsOne(i) THEN "loop" ELSE "stop"
           /\ sys_bpt_addr' = sys_bpt_addr
        \/ /\ at # "loop" /\ at' = "prompt"
           /\ sys_bpt_addr' = sys_bpt_addr
           /\ ~(at = "next" /\ i.kind = "call" /\ ReturnsOne(i))
        \/ /\ at = "next" /\ at' = "start" /\ ReturnsOne(i) /\ i.kind = "call"
           /\ sys_bpt_addr' = PCplus1
    BY <1>4 DEF RunInstruction, StepInstruction, NextInstruction
  <2>3. QED
    BY <1>4, <2>1, <2>2, ExecutedHist
<1>5. CASE /\ StopRun /\ next_goal' = (IF interrupted THEN next_goal ELSE -1)
           /\ depth' = (IF interrupted THEN depth ELSE 0)
           /\ UNCHANGED <<last_cmd, hit, nested>>
  <2>1. /\ at = "stop" /\ at' \in {"init", "prompt"}
        /\ interrupted' = interrupted
        /\ finish_depth' = IF interrupted THEN finish_depth ELSE 0
        /\ sys_bpt_addr' = IF interrupted THEN sys_bpt_addr ELSE -1
    BY <1>5 DEF StopRun
  <2>2. HistTypes' /\ Unanswered' /\ Goal'
    BY <1>5, <2>1 DEF HistInv, HistTypes, Unanswered, Goal
  <2>3. Counts'
    BY <1>5, <2>1 DEF HistInv, Counts
  <2>4. QED
    BY <2>2, <2>3 DEF HistInv
<1>6. CASE /\ AutoContinue /\ nested' = FALSE
           /\ depth' = (IF nested THEN finish_depth ELSE depth)
           /\ UNCHANGED <<last_cmd, next_goal, hit>>
  <2>1. /\ at = "prompt" /\ at' = "start" /\ interrupted' = FALSE
        /\ UNCHANGED <<finish_depth, sys_bpt_addr>>
    BY <1>6 DEF AutoContinue
  <2>2. finish_depth \in Nat
    BY DEF IInv, TypeOK
  <2>3. HistTypes' /\ Unanswered' /\ Goal'
    BY <1>6, <2>1 DEF HistInv, HistTypes, Unanswered, Goal
  <2>4. Counts'
    BY <1>6, <2>1, <2>2 DEF HistInv, Counts
  <2>5. QED
    BY <2>3, <2>4 DEF HistInv
<1>7. CASE /\ \/ StartRun \/ RunHalted \/ halt_lc3 \/ LineArrives \/ EndOfInput
              \/ \E reloaded \in BOOLEAN : InitDone(reloaded)
           /\ UNCHANGED histVars
  <2>1. UNCHANGED <<interrupted, finish_depth, sys_bpt_addr>>
    BY <1>7 DEF StartRun, RunHalted, halt_lc3, LineArrives, EndOfInput, InitDone
  <2>2. UNCHANGED <<next_goal, hit, nested, depth>>
    BY <1>7 DEF histVars
  <2>3. \/ at' = at \/ at' = "exit"
        \/ at = "start" /\ at' = "loop"
        \/ at = "loop" /\ at' = "stop"
        \/ at = "init" /\ at' = "prompt"
    BY <1>7 DEF StartRun, RunHalted, halt_lc3, LineArrives, EndOfInput, InitDone
  <2>4. at = "init" => ~interrupted
    BY DEF IInv, Places
  <2>5. at = "exit" \/ at' # "exit" \/ at = "prompt"
    BY <1>7 DEF StartRun, RunHalted, halt_lc3, LineArrives, EndOfInput,
                InitDone, ReadsLine
  <2>6. HistTypes' /\ Unanswered' /\ Goal'
    BY <2>1, <2>2, <2>3, <2>4 DEF HistInv, HistTypes, Unanswered, Goal
  <2>7. Counts'
    BY <2>1, <2>2, <2>3, <2>5 DEF HistInv, Counts
  <2>8. QED
    BY <2>6, <2>7 DEF HistInv
<1>8. CASE /\ OtherCommands
           /\ next_goal' = IF Forgets \/ in_init' THEN -1 ELSE next_goal
           /\ nested' = (nested /\ ~Forgets)
           /\ depth' = IF Forgets \/ in_init' THEN 0 ELSE depth
           /\ UNCHANGED hit
  BY <1>8, OtherCommandsHist
<1>9. CASE UNCHANGED allVars
  BY <1>9 DEF allVars, vars, histVars, HistInv, HistTypes, Unanswered, Counts,
              Goal
<1>10. QED
  BY <1>1, <1>2, <1>3, <1>4, <1>5, <1>6, <1>7, <1>8, <1>9 DEF HistNext

(* Every behaviour with the histories is one of the simulator, so what is  *)
(* proved of the simulator holds of it too.                                *)
THEOREM HistoriesChangeNothing == HistSpec => Spec
<1>1. HistInit => Init
  BY DEF HistInit
<1>2. [HistNext]_allVars => [Next]_vars
  BY HistStep DEF allVars
<1>3. QED
  BY <1>1, <1>2, PTL DEF HistSpec, Spec

(* Both invariants hold of every state with the histories.                 *)
THEOREM HistInductive == HistSpec => [](IInv /\ HistInv)
  BY HistoriesChangeNothing, Inductive, InitHist, NextHist, PTL DEF HistSpec

(* The simulator does not go on by itself from a user breakpoint           *)
(* (execute_instruction tests breakpoints before it polls; simple_readline *)
(* continues only a run that was interrupted).                             *)
THEOREM BreakpointsHold == HistSpec => []BreakpointHolds
<1>1. HistInv => BreakpointHolds
  BY DEF HistInv, Unanswered, BreakpointHolds
<1>2. QED
  BY <1>1, HistInductive, PTL

(* "finish" counts every call and return once, however often the front end *)
(* interrupts the run (execute_instruction counts before it polls;         *)
(* run_until_stopped keeps the count of an interrupted run).               *)
THEOREM FinishCountsExactly == HistSpec => []FinishCountExact
<1>1. HistInv => FinishCountExact
  BY DEF HistInv, Counts, FinishCountExact
<1>2. QED
  BY <1>1, HistInductive, PTL

(* While a "next" over a call runs, its breakpoint is set, however often   *)
(* the run was interrupted and continued (cmd_next, run_until_stopped).    *)
THEOREM NextKeepsItsGoal == HistSpec => []NextRemembered
<1>1. HistInv => NextRemembered
  BY DEF HistInv, Goal, NextRemembered
<1>2. QED
  BY <1>1, HistInductive, PTL

=============================================================================
