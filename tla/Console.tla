------------------------------ MODULE Console ------------------------------
(***************************************************************************)
(* The LC-3 console: the keyboard and display registers as read_memory and *)
(* write_memory of lc3tools/lc3sim.c implement them on top of poll (2) and *)
(* stdio, and the trap routines of lc3tools/lc3os.asm that use them.       *)
(*                                                                         *)
(* A trap routine is cut at its device accesses and at the traps it calls; *)
(* the instructions between two cuts touch only registers and the words    *)
(* the routine saves registers in.  R7 holds the label to return to.       *)
(*                                                                         *)
(* Characters typed are numbered: 1 .. taken have been read, those up to   *)
(* fetched wait in the stdio buffer of lc3in, those up to typed in the     *)
(* kernel.  The code of the i-th character is i.  The choices that the     *)
(* options "device", "flush" and "keep" make are left open.                *)
(***************************************************************************)
EXTENDS Integers, Sequences

CONSTANTS
  Byte,       \* number of values of a character (256)
  Mem,        \* the words of memory that hold strings
  Linefeed,   \* code of a linefeed (10)
  StartMsg, InMsg, HaltMsg, BadMsg,  \* addresses of the messages of the OS
  UserRegs,   \* what R0 .. R3 can hold when the program calls a trap
  MaxKeys     \* bound: characters typed

Word == 0 .. Byte * Byte - 1
Next1(a) == (a + 1) % (Byte * Byte)
General == {"R0", "R1", "R2", "R3"}

ASSUME ConsoleConstants ==
  /\ Byte \in Nat /\ Byte > 1
  /\ Mem \in [Word -> Word]
  /\ Linefeed \in 1 .. Byte - 1
  /\ {StartMsg, InMsg, HaltMsg, BadMsg} \subseteq Word
  /\ UserRegs \subseteq [General -> Word]
  /\ MaxKeys \in 0 .. Byte - 1

Traps == {"getc", "out", "puts", "in", "putsp", "halt", "bad"}
Label == Traps \cup
  {"user", "start", "start_halt", "getc_read", "out_wait", "out_write",
   "puts_loop", "puts_next", "puts_done", "in_getc", "in_echo", "in_lf",
   "in_done", "putsp_loop", "putsp_high", "putsp_next", "putsp_done",
   "halt_mcr"}
Nowhere == "nowhere"   \* the word 0, taken as a return address

VARIABLES
  regular,        \* lc3in is a regular file: poll always finds it readable
  shared,         \* lc3in is stdin, which the commands are read from, too
  typed, fetched, taken,
  last_KBSR_read, last_DSR_read,
  kbdr,           \* lc3_memory[0xFE02]
  at,             \* "prompt", "list", "flush", "running" or "exit"
  pc,             \* the label that runs next
  reg,            \* R0 .. R3
  R7,
  slot,           \* TOUT_R1, OS_R0 .. OS_R3
  ret,            \* TIN_R7, OS_R7
  call,           \* history: the trap the program called last, with what
  out             \* history: characters displayed since that call

input  == <<regular, shared, typed, fetched, taken>>
device == <<last_KBSR_read, last_DSR_read, kbdr>>
cpu    == <<pc, reg, R7, slot, ret>>
vars   == <<input, device, at, cpu, call, out>>

Place == {"prompt", "list", "flush", "running", "exit"}
NoCall == [trap |-> "none", reg |-> [r \in General |-> 0], taken |-> 0]

----------------------------------------------------------------------------
(* The host's side of lc3in.                                               *)

\* Mutant: the stdio buffer is asked instead of the descriptor.
MutPollStdio == regular \/ taken < fetched

\* poll (&p, 1, 0) == 1 && (p.revents & POLLIN) != 0
PollIn == regular \/ fetched < typed

AtEof == regular /\ taken = typed

\* A stdio read whose last character is number t: read (2) fetches more than
\* is needed when the buffer runs out.
StdioReads(t) ==
  /\ t <= typed
  /\ taken' = t
  /\ \/ t <= fetched /\ UNCHANGED fetched
     \/ t > fetched /\ fetched' \in t .. typed
  /\ UNCHANGED <<regular, shared, typed>>

\* fgetc, which waits while there is nothing to read.
fgetc == StdioReads(taken + 1)

\* fgets on sim_in, of one command line.
fgets == IF shared THEN \E t \in taken + 1 .. typed : StdioReads(t)
                   ELSE UNCHANGED input

----------------------------------------------------------------------------
(* read_memory and write_memory at the device registers.                   *)

\* With the option "device" a readable stream may be announced late.
ReadKBSR(ready) ==
  /\ ready => last_KBSR_read \/ PollIn
  /\ last_KBSR_read => ready
  /\ last_KBSR_read' = ready
  /\ UNCHANGED <<input, last_DSR_read, kbdr>>

\* Mutant: the register is loaded before it is refreshed from the stream.
MutReadKBDR(v) ==
  /\ v = kbdr
  /\ IF last_KBSR_read THEN ~AtEof /\ fgetc /\ kbdr' = taken'
                       ELSE UNCHANGED <<input, kbdr>>
  /\ last_KBSR_read' = FALSE
  /\ UNCHANGED last_DSR_read

\* v is the value read; without KBSR announced it is the last character again.
ReadKBDR(v) ==
  /\ IF last_KBSR_read THEN ~AtEof /\ fgetc /\ kbdr' = taken'
                       ELSE UNCHANGED <<input, kbdr>>
  /\ v = kbdr'
  /\ last_KBSR_read' = FALSE
  /\ UNCHANGED last_DSR_read

\* "LC-3 read past end of input stream.", exit (3)
ReadsPastEnd == last_KBSR_read /\ AtEof

\* Mutant: DSR is not remembered between reads.
MutReadDSR(ready) ==
  /\ last_DSR_read' = ready
  /\ UNCHANGED <<input, last_KBSR_read, kbdr>>

ReadDSR(ready) ==
  /\ last_DSR_read => ready
  /\ last_DSR_read' = ready
  /\ UNCHANGED <<input, last_KBSR_read, kbdr>>

\* The display showed shown; a character written before DSR was seen ready
\* is dropped.
WriteDDR(shown, v) ==
  /\ out' = IF last_DSR_read THEN Append(shown, v % Byte) ELSE shown
  /\ last_DSR_read' = FALSE
  /\ UNCHANGED <<input, last_KBSR_read, kbdr>>

----------------------------------------------------------------------------
(* The trap routines.  Run(l) is a step of the running LC-3 at label l.    *)

Run(l) == at = "running" /\ pc = l
Calls(trap, return) == pc' = trap /\ R7' = return
Goto(l) == pc' = l /\ UNCHANGED R7
NoDevice == UNCHANGED <<input, device, at, out>>
History == UNCHANGED call

getc_wait(ready) ==
  /\ Run("getc")
  /\ ReadKBSR(ready)
  /\ reg' = [reg EXCEPT !["R0"] = IF ready THEN (Byte * Byte) \div 2 ELSE 0]
  /\ Goto(IF ready THEN "getc_read" ELSE "getc")
  /\ UNCHANGED <<at, slot, ret, out>> /\ History

getc_read ==
  /\ Run("getc_read")
  /\ \E v \in Word : ReadKBDR(v) /\ reg' = [reg EXCEPT !["R0"] = v]
  /\ Goto(R7)
  /\ UNCHANGED <<at, slot, ret, out>> /\ History

getc_eof ==
  /\ Run("getc_read") /\ ReadsPastEnd
  /\ at' = "exit"
  /\ UNCHANGED <<input, device, cpu, out>> /\ History

\* Mutant: OUT saves R1 in OS_R1, too, which PUTS uses already.
Mut_out ==
  /\ Run("out")
  /\ slot' = [slot EXCEPT !.TOUT_R1 = reg["R1"], !.OS_R1 = reg["R1"]]
  /\ Goto("out_wait")
  /\ UNCHANGED <<reg, ret>> /\ NoDevice /\ History

out_entry ==
  /\ Run("out")
  /\ slot' = [slot EXCEPT !.TOUT_R1 = reg["R1"]]
  /\ Goto("out_wait")
  /\ UNCHANGED <<reg, ret>> /\ NoDevice /\ History

out_wait(ready) ==
  /\ Run("out_wait")
  /\ ReadDSR(ready)
  /\ reg' = [reg EXCEPT !["R1"] = IF ready THEN (Byte * Byte) \div 2 ELSE 0]
  /\ Goto(IF ready THEN "out_write" ELSE "out_wait")
  /\ UNCHANGED <<at, slot, ret, out>> /\ History

out_write ==
  /\ Run("out_write")
  /\ WriteDDR(out, reg["R0"])
  /\ reg' = [reg EXCEPT !["R1"] = slot.TOUT_R1]
  /\ Goto(R7)
  /\ UNCHANGED <<at, slot, ret>> /\ History

\* Mutant: PUTS does not save R7.
Mut_puts ==
  /\ Run("puts")
  /\ slot' = [slot EXCEPT !.OS_R0 = reg["R0"], !.OS_R1 = reg["R1"]]
  /\ reg' = [reg EXCEPT !["R1"] = reg["R0"]]
  /\ Goto("puts_loop")
  /\ UNCHANGED ret /\ NoDevice /\ History

puts_entry ==
  /\ Run("puts")
  /\ slot' = [slot EXCEPT !.OS_R0 = reg["R0"], !.OS_R1 = reg["R1"]]
  /\ ret' = [ret EXCEPT !.OS_R7 = R7]
  /\ reg' = [reg EXCEPT !["R1"] = reg["R0"]]
  /\ Goto("puts_loop")
  /\ NoDevice /\ History

puts_loop ==
  /\ Run("puts_loop")
  /\ reg' = [reg EXCEPT !["R0"] = Mem[reg["R1"]]]
  /\ IF Mem[reg["R1"]] = 0 THEN Goto("puts_done") ELSE Calls("out", "puts_next")
  /\ UNCHANGED <<slot, ret>> /\ NoDevice /\ History

puts_next ==
  /\ Run("puts_next")
  /\ reg' = [reg EXCEPT !["R1"] = Next1(reg["R1"])]
  /\ Goto("puts_loop")
  /\ UNCHANGED <<slot, ret>> /\ NoDevice /\ History

puts_done ==
  /\ Run("puts_done")
  /\ reg' = [reg EXCEPT !["R0"] = slot.OS_R0, !["R1"] = slot.OS_R1]
  /\ Calls(ret.OS_R7, ret.OS_R7)
  /\ UNCHANGED <<slot, ret>> /\ NoDevice /\ History

in_entry ==
  /\ Run("in")
  /\ ret' = [ret EXCEPT !.TIN_R7 = R7]
  /\ reg' = [reg EXCEPT !["R0"] = InMsg]
  /\ Calls("puts", "in_getc")
  /\ UNCHANGED slot /\ NoDevice /\ History

in_getc ==
  /\ Run("in_getc")
  /\ Calls("getc", "in_echo")
  /\ UNCHANGED <<reg, slot, ret>> /\ NoDevice /\ History

in_echo ==
  /\ Run("in_echo")
  /\ Calls("out", "in_lf")
  /\ UNCHANGED <<reg, slot, ret>> /\ NoDevice /\ History

in_lf ==
  /\ Run("in_lf")
  /\ slot' = [slot EXCEPT !.OS_R0 = reg["R0"]]
  /\ reg' = [reg EXCEPT !["R0"] = Linefeed]
  /\ Calls("out", "in_done")
  /\ UNCHANGED ret /\ NoDevice /\ History

in_done ==
  /\ Run("in_done")
  /\ reg' = [reg EXCEPT !["R0"] = slot.OS_R0]
  /\ Calls(ret.TIN_R7, ret.TIN_R7)
  /\ UNCHANGED <<slot, ret>> /\ NoDevice /\ History

putsp_entry ==
  /\ Run("putsp")
  /\ slot' = [slot EXCEPT !.OS_R0 = reg["R0"], !.OS_R1 = reg["R1"],
                          !.OS_R2 = reg["R2"], !.OS_R3 = reg["R3"]]
  /\ ret' = [ret EXCEPT !.OS_R7 = R7]
  /\ reg' = [reg EXCEPT !["R1"] = reg["R0"]]
  /\ Goto("putsp_loop")
  /\ NoDevice /\ History

putsp_loop ==
  /\ Run("putsp_loop")
  /\ LET w == Mem[reg["R1"]]
     IN  /\ reg' = [reg EXCEPT !["R2"] = w, !["R0"] = w % Byte]
         /\ IF w % Byte = 0 THEN Goto("putsp_done")
                            ELSE Calls("out", "putsp_high")
  /\ UNCHANGED <<slot, ret>> /\ NoDevice /\ History

\* The shift loop moves the high byte of R2 into R0 and counts R3 to 0.
putsp_high ==
  /\ Run("putsp_high")
  /\ LET w == reg["R2"]
     IN  /\ reg' = [reg EXCEPT !["R0"] = w \div Byte,
                               !["R2"] = (w * Byte) % (Byte * Byte),
                               !["R3"] = 0]
         /\ IF w \div Byte = 0 THEN Goto("putsp_done")
                               ELSE Calls("out", "putsp_next")
  /\ UNCHANGED <<slot, ret>> /\ NoDevice /\ History

putsp_next ==
  /\ Run("putsp_next")
  /\ reg' = [reg EXCEPT !["R1"] = Next1(reg["R1"])]
  /\ Goto("putsp_loop")
  /\ UNCHANGED <<slot, ret>> /\ NoDevice /\ History

putsp_done ==
  /\ Run("putsp_done")
  /\ reg' = [r \in General |->
               CASE r = "R0" -> slot.OS_R0 [] r = "R1" -> slot.OS_R1
                 [] r = "R2" -> slot.OS_R2 [] r = "R3" -> slot.OS_R3]
  /\ Calls(ret.OS_R7, ret.OS_R7)
  /\ UNCHANGED <<slot, ret>> /\ NoDevice /\ History

\* LEA R0,message; PUTS: the first half of HALT, BAD_TRAP and OS_START.
prints_message(l, msg, return) ==
  /\ Run(l)
  /\ reg' = [reg EXCEPT !["R0"] = msg]
  /\ Calls("puts", return)
  /\ UNCHANGED <<slot, ret>> /\ NoDevice /\ History

start_halt ==
  /\ Run("start_halt")
  /\ Calls("halt", "user")
  /\ UNCHANGED <<reg, slot, ret>> /\ NoDevice /\ History

\* The MCR reads 0x8000; storing 0 sets should_halt, and the run ends after
\* this instruction, before the branch back to TRAP_HALT.
halt_mcr ==
  /\ Run("halt_mcr")
  /\ reg' = [reg EXCEPT !["R0"] = 0, !["R1"] = (Byte * Byte) \div 2 - 1]
  /\ Goto("halt")
  /\ at' = "prompt"
  /\ call' = NoCall /\ out' = << >>
  /\ UNCHANGED <<input, device, slot, ret>>

OsStep ==
  \/ getc_wait(TRUE) \/ getc_wait(FALSE) \/ getc_read \/ getc_eof
  \/ out_entry \/ out_wait(TRUE) \/ out_wait(FALSE) \/ out_write
  \/ puts_entry \/ puts_loop \/ puts_next \/ puts_done
  \/ in_entry \/ in_getc \/ in_echo \/ in_lf \/ in_done
  \/ putsp_entry \/ putsp_loop \/ putsp_high \/ putsp_next \/ putsp_done
  \/ prints_message("start", StartMsg, "start_halt") \/ start_halt
  \/ prints_message("halt", HaltMsg, "halt_mcr") \/ halt_mcr
  \/ prints_message("bad", BadMsg, "halt")

----------------------------------------------------------------------------
(* The LC-3 program: it calls traps and may use the devices itself.        *)

user_trap(trap, r) ==
  /\ Run("user")
  /\ reg' = r /\ Calls(trap, "user")
  /\ call' = [trap |-> trap, reg |-> r, taken |-> taken] /\ out' = << >>
  /\ UNCHANGED <<input, device, at, slot, ret>>

ReadsDevice ==
  \/ \E ready \in BOOLEAN : ReadKBSR(ready) \/ ReadDSR(ready)
  \/ \E v \in Word : ReadKBDR(v)

user_reads ==
  /\ Run("user") /\ ReadsDevice
  /\ call' = NoCall /\ out' = << >>
  /\ UNCHANGED <<at, cpu>>

user_writes ==
  /\ Run("user")
  /\ WriteDDR(<< >>, Linefeed)
  /\ call' = NoCall
  /\ UNCHANGED <<at, cpu>>

user_eof ==
  /\ Run("user") /\ ReadsPastEnd
  /\ at' = "exit"
  /\ UNCHANGED <<input, device, cpu, call, out>>

----------------------------------------------------------------------------
(* The simulator around the LC-3.                                          *)

Blocked == /\ pc = "getc_read" /\ last_KBSR_read
           /\ taken = typed /\ ~regular

\* A breakpoint, CTRL-C or the front end ends the run.  On a terminal the
\* option "keep" off drops what the kernel holds.
Stop ==
  /\ at = "running" /\ ~Blocked
  /\ at' = "prompt"
  /\ \/ UNCHANGED input
     \/ shared /\ ~regular /\ typed' = fetched
        /\ UNCHANGED <<regular, shared, fetched, taken>>
  /\ UNCHANGED <<device, cpu, call, out>>

\* Straight on when the option "flush" is off, in a script, or when the front
\* end had interrupted the run.
cmd_continue ==
  /\ at = "prompt" /\ fgets
  /\ at' \in {"flush", "running"}
  /\ UNCHANGED <<device, cpu, call, out>>

flush_char ==
  /\ at = "flush" /\ PollIn
  /\ IF AtEof THEN UNCHANGED input ELSE fgetc
  /\ UNCHANGED <<device, at, cpu, call, out>>

flush_done ==
  /\ at = "flush" /\ ~PollIn
  /\ at' = "running"
  /\ UNCHANGED <<input, device, cpu, call, out>>

\* list, dump and translate show memory through read_memory.
cmd_list ==
  /\ at = "prompt" /\ fgets
  /\ at' = "list"
  /\ UNCHANGED <<device, cpu, call, out>>

list_device ==
  /\ at = "list" /\ ReadsDevice
  /\ UNCHANGED <<at, cpu, call, out>>

list_eof ==
  /\ at = "list" /\ ReadsPastEnd
  /\ at' = "exit"
  /\ UNCHANGED <<input, device, cpu, call, out>>

list_done ==
  /\ at = "list"
  /\ at' = "prompt"
  /\ UNCHANGED <<input, device, cpu, call, out>>

\* memory <addr> <val> on the DDR.  What the trap shows is no longer its own.
cmd_memory ==
  /\ at = "prompt" /\ fgets
  /\ out' = << >> /\ call' = NoCall
  /\ last_DSR_read' = FALSE
  /\ UNCHANGED <<last_KBSR_read, kbdr, at, cpu>>

\* file: the PC is set to the loaded program's start.
cmd_file ==
  /\ at = "prompt" /\ fgets
  /\ pc' = "user" /\ call' = NoCall
  /\ UNCHANGED <<device, at, reg, R7, slot, ret, out>>

Booted ==
  /\ pc' = "start" /\ at' = "running"
  /\ reg' = [r \in General |-> 0] /\ R7' = Nowhere
  /\ slot' = [s \in {"TOUT_R1", "OS_R0", "OS_R1", "OS_R2", "OS_R3"} |-> 0]
  /\ ret' = [TIN_R7 |-> Nowhere, OS_R7 |-> Nowhere]
  /\ last_KBSR_read' = FALSE /\ last_DSR_read' = FALSE /\ kbdr' = 0
  /\ call' = NoCall /\ out' = << >>

cmd_reset == at = "prompt" /\ fgets /\ Booted

\* End of the commands, or quit.
EndOfCommands ==
  /\ at = "prompt"
  /\ at' = "exit"
  /\ UNCHANGED <<input, device, cpu, call, out>>

Type ==
  /\ ~regular /\ typed < MaxKeys /\ at # "exit"
  /\ typed' = typed + 1
  /\ UNCHANGED <<regular, shared, fetched, taken, device, at, cpu, call, out>>

Init ==
  /\ regular \in BOOLEAN /\ shared \in BOOLEAN
  /\ typed \in IF regular THEN 0 .. MaxKeys ELSE {0}
  /\ fetched = 0 /\ taken = 0
  /\ pc = "start" /\ at = "running"
  /\ reg = [r \in General |-> 0] /\ R7 = Nowhere
  /\ slot = [s \in {"TOUT_R1", "OS_R0", "OS_R1", "OS_R2", "OS_R3"} |-> 0]
  /\ ret = [TIN_R7 |-> Nowhere, OS_R7 |-> Nowhere]
  /\ last_KBSR_read = FALSE /\ last_DSR_read = FALSE /\ kbdr = 0
  /\ call = NoCall /\ out = << >>

UserStep == \/ \E trap \in Traps, r \in UserRegs : user_trap(trap, r)
            \/ user_reads \/ user_writes \/ user_eof

Debugger == \/ Stop \/ cmd_continue \/ flush_char \/ flush_done
            \/ cmd_list \/ list_device \/ list_eof \/ list_done
            \/ cmd_memory \/ cmd_file \/ cmd_reset \/ EndOfCommands

Next == OsStep \/ UserStep \/ Debugger \/ Type

Spec == Init /\ [][Next]_vars

(* The simulator keeps executing the LC-3 and the loop that flushes the    *)
(* console; a device whose timing is random becomes ready at last.         *)
FairSpec ==
  /\ Spec
  /\ WF_vars(OsStep) /\ WF_vars(flush_char) /\ WF_vars(flush_done)
  /\ WF_vars(getc_wait(TRUE)) /\ WF_vars(out_wait(TRUE))
----------------------------------------------------------------------------
(* What the trap routines promise, stated without reference to their code. *)

\* The bytes of memory from address a on, low byte of a word first.
PackedByte(a, i) ==
  LET w == Mem[(a + (i - 1) \div 2) % (Byte * Byte)]
  IN  IF i % 2 = 1 THEN w % Byte ELSE w \div Byte

\* The string of one character per word at address a, up to a zero word.
String(a) ==
  LET Nul(n) == Mem[(a + n) % (Byte * Byte)] = 0
      len == CHOOSE n \in Word : Nul(n) /\ \A k \in 0 .. n - 1 : ~Nul(k)
  IN  [i \in 1 .. len |-> Mem[(a + i - 1) % (Byte * Byte)] % Byte]

\* The packed string at address a, up to any zero byte.
PackedString(a) ==
  LET len == CHOOSE n \in 0 .. 2 * Byte * Byte :
                PackedByte(a, n + 1) = 0 /\ \A k \in 1 .. n : PackedByte(a, k) # 0
  IN  [i \in 1 .. len |-> PackedByte(a, i)]

Promised ==
  CASE call.trap = "getc"  -> << >>
    [] call.trap = "out"   -> <<call.reg["R0"] % Byte>>
    [] call.trap = "puts"  -> String(call.reg["R0"])
    [] call.trap = "putsp" -> PackedString(call.reg["R0"])
    [] call.trap = "in"    -> String(InMsg) \o <<reg["R0"] % Byte, Linefeed>>

\* The program is back from the trap it called.
Returned == pc = "user" /\ call.trap # "none"

----------------------------------------------------------------------------
(* Every variable has a value of its kind, and the three counters of the   *)
(* input stream are in order, whatever order stdio, poll and the debugger  *)
(* use the stream in (read_memory, flush_console_input, simple_readline).  *)
TypeOK ==
  /\ regular \in BOOLEAN /\ shared \in BOOLEAN
  /\ typed \in 0 .. MaxKeys /\ fetched \in 0 .. typed /\ taken \in 0 .. fetched
  /\ last_KBSR_read \in BOOLEAN /\ last_DSR_read \in BOOLEAN
  /\ kbdr \in 0 .. taken
  /\ at \in Place
  /\ pc \in Label /\ reg \in [General -> Word] /\ R7 \in Label \cup {Nowhere}
  /\ slot \in [{"TOUT_R1", "OS_R0", "OS_R1", "OS_R2", "OS_R3"} -> Word]
  /\ ret \in [{"TIN_R7", "OS_R7"} -> Label \cup {Nowhere}]
  /\ call \in [trap : Traps \cup {"none"}, reg : [General -> Word],
               taken : 0 .. taken]
  /\ out \in Seq(0 .. Byte - 1)

(* A trap gives the program its registers back, though the routines call   *)
(* one another, save in fixed words of memory and return through R7: IN    *)
(* calls PUTS, which calls OUT.  GETC and IN return a result in R0.        *)
RegistersKept ==
  Returned =>
    \A r \in General : \/ reg[r] = call.reg[r]
                       \/ r = "R0" /\ call.trap \in {"getc", "in"}

(* A trap displays what it is called for, exactly once: no character is    *)
(* dropped at the DDR, though the debugger may stop the routine between    *)
(* its look at the DSR and its store and read the DSR itself.              *)
DisplayedExactly == Returned => out = Promised

(* GETC and IN return a character that was read from the stream since they *)
(* were called, never the one an earlier call returned, also when the      *)
(* debugger's list or translate reads the keyboard registers in between.   *)
FreshKey ==
  Returned /\ call.trap \in {"getc", "in"} =>
    reg["R0"] \in call.taken + 1 .. taken

(* A character that waits in the kernel ends the wait of GETC.             *)
KeySeen ==
  (Run("getc") /\ fetched < typed) ~> ~Run("getc")

(* OUT, PUTS and PUTSP come back to the program unless the run is stopped: *)
(* they wait for no one but the display.                                   *)
OutputReturns ==
  (at = "running" /\ call.trap \in {"out", "puts", "putsp"})
    ~> (pc = "user" \/ at # "running")

(* GETC waits for a keystroke (lc3os.asm, TRAP_GETC): any character typed  *)
(* and not yet read ends the wait.  Violated: what is in the stdio buffer  *)
(* already is not seen by the poll in read_memory.                         *)
BufferedKeySeen ==
  (Run("getc") /\ taken < typed) ~> ~Run("getc")

(* The console is flushed when the LC-3 starts (the help of "option"), and *)
(* then it starts.  Violated: at the end of a regular file poll reports    *)
(* POLLIN for ever and flush_console_input does not end.                   *)
FlushEnds == at = "flush" ~> at # "flush"
=============================================================================
