--------------------------------- MODULE Vm ---------------------------------
(***************************************************************************)
(* The two virtual machines in their 16-bit builds: lc3sim-c, which keeps  *)
(* the condition codes in a status register, and lc3sim_cpp, which keeps   *)
(* the number of the register they come from.  Both are given the same     *)
(* file and the same input, and execute it side by side.                   *)
(*                                                                         *)
(* Memory is a function on the words that were loaded or stored.  Reading  *)
(* any other word gives 0 in the C machine (calloc) and an arbitrary word  *)
(* in the C++ machine (malloc).                                            *)
(***************************************************************************)
EXTENDS Encoding, Sequences

CONSTANTS
  Files,      \* object files: [start, words], words a sequence
  NoFile,     \* a file that cannot be opened
  Os,         \* the object file of the operating system
  Chars,      \* what getchar can return; -1 is the end of the file
  Garbage,    \* values that memory from malloc can have
  Wide,       \* the format of the build that converts
  MaxExecute, \* instructions per call of Processor::Run
  MaxRuns     \* calls of Processor::Run in main

Width == 2^16
Word  == 0 .. Width - 1
VM_ADDR_MAX == Width - 1
KBSR == 65024
KBDR == 65026
DSR  == 65028
DDR  == 65030
MCR  == 65534
STATUS_BIT == 2^15
GETC == 32

ASSUME VmConstants ==
  /\ Garbage \subseteq Word /\ NoFile \notin Files /\ Chars \subseteq -1 .. 255
  /\ \A f \in Files \cup {Os} : f.start \in Word /\ f.words \in Seq(Word)
  /\ MaxExecute \in Nat /\ MaxRuns \in Nat
  \* instr_config.h; the macros compute in 64 bits.
  /\ Wide \in {[instr |-> n, op |-> 4, rn |-> 3, par |-> 3] : n \in 16 .. 64}

VARIABLES
  file,  \* the file named on the command line
  c,     \* the C machine
  x,     \* the C++ machine
  tty,   \* the terminal of the C machine: line mode "cooked" or "raw"
  armed, \* the C machine has installed its handler of SIGINT
  apart  \* the reasons met so far why the two machines may differ

vars == <<file, c, x, tty, armed, apart>>

W(n) == n % Width

And(a, b) ==
  LET bit(k) == 2^k * (Bits(a, k, 1) * Bits(b, k, 1))
  IN  bit(0) + bit(1) + bit(2) + bit(3) + bit(4) + bit(5) + bit(6) + bit(7)
      + bit(8) + bit(9) + bit(10) + bit(11) + bit(12) + bit(13) + bit(14) + bit(15)

SignFlag(v) == IF v = 0 THEN "z" ELSE IF v >= STATUS_BIT THEN "n" ELSE "p"

\* The flags an nzp field of three bits asks for.
Wants(nzp, flag) ==
  Bits(nzp, CASE flag = "n" -> 2 [] flag = "z" -> 1 [] flag = "p" -> 0, 1) = 1

Set(m, r, v)   == [m EXCEPT !.reg[r] = v]
Stopped(m, why) == [m EXCEPT !.status = why]

\* Memory with the word v at address a.
Stored(mem, a, v) ==
  [b \in DOMAIN mem \cup {a} |-> IF b = a THEN v ELSE mem[b]]

\* Memory with the words of file f whose indices are in is.
Filled(mem, f, is) ==
  LET there == {f.start + i - 1 : i \in is}
  IN  [a \in DOMAIN mem \cup there |->
         IF a \in there THEN f.words[a - f.start + 1] ELSE mem[a]]

\* What the outside world does during one instruction: whether select
\* reports input and what getchar returns.
World == [ready : BOOLEAN, char : Chars]

----------------------------------------------------------------------------
(* The C machine, vm.c, has reg, pc, cc, mem, out and status.  A read      *)
(* returns the word, or -1 when the address is out of range.               *)
vm_read(m, a, e) ==
  CASE a = KBSR -> IF e.ready THEN STATUS_BIT ELSE 0
    [] a = KBDR -> IF e.ready THEN W(e.char) ELSE 0
    [] a = DSR  -> STATUS_BIT
    [] a = DDR  -> 0
    [] OTHER    -> IF a >= VM_ADDR_MAX THEN -1
                   ELSE IF a \in DOMAIN m.mem THEN m.mem[a] ELSE 0

vm_write(m, a, v) ==
  CASE a \in {KBSR, KBDR, DSR} -> m
    [] a = DDR -> [m EXCEPT !.out = Append(@, Cut(v, 8))]
    [] OTHER   -> IF a >= VM_ADDR_MAX THEN Stopped(m, "range")
                  ELSE [m EXCEPT !.mem = Stored(@, a, v)]

\* vm_setcc after register r was given the value v; -1 is a failed read.
SetsCC(m, r, v) ==
  IF v = -1 THEN Stopped(m, "range")
  ELSE [Set(m, r, v) EXCEPT !.cc = SignFlag(v)]

\* LDI and STI: through the pointer at address a.
Through(m, a, e) ==
  LET p == vm_read(m, a, e) IN IF p = -1 THEN -1 ELSE vm_read(m, p, e)

\* Mutant: JSRR reads its register after R7 has been overwritten.
Mut_jsr(m, w) ==
  LET linked == Set(m, 7, m.pc)
  IN  [linked EXCEPT
         !.pc = IF Bits(w, 11, 1) = 1 THEN W(m.pc + INT_VALUE(w, 11))
                                      ELSE linked.reg[Bits(w, 6, 3)]]

vm_jsr(m, w) ==
  [Set(m, 7, m.pc) EXCEPT
     !.pc = IF Bits(w, 11, 1) = 1 THEN W(m.pc + INT_VALUE(w, 11))
                                  ELSE m.reg[Bits(w, 6, 3)]]

\* GETC is done here and changes R0 only; the other traps go to the OS.
vm_trap(m, w, e) ==
  LET vector == Cut(w, 8)
      target == vm_read(m, vector, e)
  IN  IF vector = GETC THEN Set(m, 0, W(e.char))
      ELSE [Set(m, 7, m.pc) EXCEPT !.pc = target]

vm_perform(m, w, e) ==
  LET r1   == Bits(w, 9, 3)
      r2   == Bits(w, 6, 3)
      b    == IF Bits(w, 5, 1) = 1 THEN W(INT_VALUE(w, 5))
                                   ELSE m.reg[Cut(w, 3)]
      near == W(m.pc + INT_VALUE(w, 9))
      far  == W(m.reg[r2] + INT_VALUE(w, 6))
      oper == w \div 2^12
  IN  CASE oper = OPCODE.ADD -> SetsCC(m, r1, W(m.reg[r2] + b))
        [] oper = OPCODE.AND -> SetsCC(m, r1, And(m.reg[r2], b))
        [] oper = OPCODE.NOT -> SetsCC(m, r1, Width - 1 - m.reg[r2])
        [] oper = OPCODE.BR  ->
             LET to == IF Wants(r1, m.cc) THEN near ELSE m.pc
             IN  [m EXCEPT !.pc = to, !.status = IF w = 0 THEN "nop" ELSE @]
        [] oper = OPCODE.JMP -> [m EXCEPT !.pc = m.reg[r2]]
        [] oper = OPCODE.JSR -> vm_jsr(m, w)
        [] oper = OPCODE.LD  -> SetsCC(m, r1, vm_read(m, near, e))
        [] oper = OPCODE.LDI -> SetsCC(m, r1, Through(m, near, e))
        [] oper = OPCODE.LDR -> SetsCC(m, r1, vm_read(m, far, e))
        [] oper = OPCODE.LEA -> SetsCC(m, r1, near)
        [] oper = OPCODE.ST  -> vm_write(m, near, m.reg[r1])
        [] oper = OPCODE.STI -> LET p == vm_read(m, near, e)
                                IN  IF p = -1 THEN Stopped(m, "range")
                                    ELSE vm_write(m, p, m.reg[r1])
        [] oper = OPCODE.STR -> vm_write(m, far, m.reg[r1])
        [] oper = OPCODE.TRAP -> vm_trap(m, w, e)
        [] oper = OPCODE.RTI -> Stopped(m, "unimplemented")
        [] oper = OPCODE.RES -> Stopped(m, "unimplemented")

\* One turn of the loop in vm_run.
vm_run(m, e) ==
  LET w == vm_read(m, m.pc, e)
  IN  IF vm_read(m, MCR, e) < STATUS_BIT THEN Stopped(m, "mcr")
      ELSE IF w = -1 THEN Stopped(m, "range")
      ELSE vm_perform([m EXCEPT !.pc = W(@ + 1)], w, e)

(* The assertion ends the program before the test that returns             *)
(* VM_INPUT_TOO_LARGE is reached.                                          *)
vm_load_data(m, f) ==
  IF f.start + Len(f.words) >= VM_ADDR_MAX THEN Stopped(m, "aborted")
  ELSE [m EXCEPT !.pc = f.start, !.mem = Filled(@, f, 1 .. Len(f.words))]

vm_load_file(m, f) ==
  IF f = NoFile THEN Stopped(m, "unread") ELSE vm_load_data(m, f)

vm_create == [reg |-> [r \in 0 .. 7 |-> 0], pc |-> 12288, cc |-> "z",
              mem |-> [a \in {MCR} |-> STATUS_BIT], out |-> <<>>, status |-> "boot"]

----------------------------------------------------------------------------
(* The C++ machine, lc3sim.cpp, has num (the register NumCC), junk (what   *)
(* malloc left in its memory) and ran (instructions executed) besides.     *)
LC3_MAX_MEMORY_ADDRESS == Width - 1

\* A character has 8 bits and a sign.
GetChar(e) == W(INT_VALUE(e.char, 8))

MemoryRead(m, a, e) ==
  CASE a = KBSR -> IF e.ready THEN STATUS_BIT ELSE 0
    [] a = KBDR -> IF e.ready THEN GetChar(e) ELSE 0
    [] a = DSR  -> STATUS_BIT
    [] a = DDR  -> 0
    [] OTHER    -> IF a >= LC3_MAX_MEMORY_ADDRESS THEN -1
                   ELSE IF a \in DOMAIN m.mem THEN m.mem[a] ELSE m.junk

(* An exception is counted and, under the mask of main, ignored: the       *)
(* instruction has no effect.                                              *)
MemoryWrite(m, a, v) ==
  CASE a \in {KBSR, KBDR, DSR} -> m
    [] a = DDR -> [m EXCEPT !.out = Append(@, Cut(v, 8))]
    [] OTHER   -> IF a >= LC3_MAX_MEMORY_ADDRESS THEN m
                  ELSE [m EXCEPT !.mem = Stored(@, a, v)]

SetNum(m, r, v) == IF v = -1 THEN m ELSE [Set(m, r, v) EXCEPT !.num = r]

Quotient(a, b) == LET q == (IF a < 0 THEN -a ELSE a) \div (IF b < 0 THEN -b ELSE b)
                  IN  IF (a < 0) = (b < 0) THEN q ELSE -q

(* The reserved operation.  The processor takes the count of a shift       *)
(* modulo 32; division by zero ends the program.                           *)
ExecuteRes(m, w) ==
  LET r1  == REG_NUM1(w, Format16)
      a   == m.reg[REG_NUM2(w, Format16)]
      b   == m.reg[REG_NUM3(w, Format16)]
      sa  == INT_VALUE(a, 16)
      sb  == INT_VALUE(b, 16)
      par == PARAM_AFTER_NUM2(w, Format16)
      by  == (IF par >= 5 THEN UINT_AFTER_PARAM(w, Format16) ELSE b) % 32
      left  == IF by >= 16 THEN 0 ELSE W(a * 2^by)
      right == IF by >= 16 THEN 0 ELSE a \div 2^by
  IN  CASE par \in {0, 5} -> SetNum(m, r1, left)
        [] par \in {1, 6} -> SetNum(m, r1, right)
        [] par \in {2, 3} /\ b = 0 -> Stopped(m, "crashed")
        [] par = 2 /\ b # 0 -> SetNum(m, r1, W(Quotient(sa, sb)))
        [] par = 3 /\ b # 0 -> SetNum(m, r1, W(sa - sb * Quotient(sa, sb)))
        [] par = 4 -> SetNum(m, r1, W((sa * (b % 256)) + (W(sa * (b \div 256)) * 256)))
        [] par = 7 -> [m EXCEPT !.num = r1]

ExecuteTrap(m, w, e) ==
  LET a == W(INT_AFTER_OPER(w, Format16))
      target == MemoryRead(m, a, e)
  IN  IF a = GETC THEN Set(m, 0, GetChar(e))
      ELSE [Set(m, 7, m.pc) EXCEPT !.pc = IF target = -1 THEN @ ELSE target]

ExecuteOneInstruction(m, w, e) ==
  LET r1   == REG_NUM1(w, Format16)
      r2   == REG_NUM2(w, Format16)
      b    == IF INT_AFTER_NUM2_FLAG(w, Format16)
              THEN W(INT_AFTER_NUM2_WITH_FLAG(w, Format16))
              ELSE m.reg[REG_NUM3(w, Format16)]
      near == W(m.pc + INT_AFTER_NUM1(w, Format16))
      far  == W(m.reg[r2] + INT_AFTER_NUM2(w, Format16))
      ptr  == MemoryRead(m, near, e)
      oper == OPER_CODE(w, Format16)
  IN  CASE oper = OPCODE.BR ->
             IF w = 0 THEN Stopped(m, "nop")
             ELSE [m EXCEPT !.pc = IF Wants(r1, SignFlag(m.reg[m.num]))
                                   THEN near ELSE @]
        [] oper = OPCODE.ADD -> SetNum(m, r1, W(m.reg[r2] + b))
        [] oper = OPCODE.LD  -> SetNum(m, r1, ptr)
        [] oper = OPCODE.ST  -> MemoryWrite(m, near, m.reg[r1])
        [] oper = OPCODE.JSR ->
             [Set(m, 7, m.pc) EXCEPT
                !.pc = IF INT_AFTER_OPER_FLAG(w, Format16)
                       THEN W(@ + INT_AFTER_OPER_WITH_FLAG(w, Format16))
                       ELSE m.reg[r2]]
        [] oper = OPCODE.AND -> SetNum(m, r1, And(m.reg[r2], b))
        [] oper = OPCODE.LDR -> SetNum(m, r1, MemoryRead(m, far, e))
        [] oper = OPCODE.STR -> MemoryWrite(m, far, m.reg[r1])
        [] oper = OPCODE.RTI -> m
        [] oper = OPCODE.NOT -> SetNum(m, r1, Width - 1 - m.reg[r2])
        [] oper = OPCODE.LDI -> IF ptr = -1 THEN m
                                ELSE SetNum(m, r1, MemoryRead(m, ptr, e))
        [] oper = OPCODE.STI ->
             IF ptr \in {-1, LC3_MAX_MEMORY_ADDRESS} THEN m
             ELSE [MemoryWrite(m, ptr, m.reg[r1]) EXCEPT !.num = r1]
        [] oper = OPCODE.JMP -> [m EXCEPT !.pc = m.reg[r2]]
        [] oper = OPCODE.RES -> ExecuteRes(m, w)
        [] oper = OPCODE.LEA -> SetNum(m, r1, near)
        [] oper = OPCODE.TRAP -> ExecuteTrap(m, w, e)

(* One turn of the loop in Processor::Run.  A word that cannot be fetched  *)
(* is an exception too, and the pc stays.  main calls Run MaxRuns times.   *)
Run(m, e) ==
  LET w    == MemoryRead(m, m.pc, e)
      done == IF w = -1 THEN m
              ELSE ExecuteOneInstruction([m EXCEPT !.pc = W(@ + 1)], w, e)
      last == m.ran + 1 = MaxExecute * MaxRuns
  IN  [done EXCEPT !.ran = @ + 1,
                   !.status = IF @ = "running" /\ last THEN "limit" ELSE @]

(* The words are stored one by one until one is out of range; the length   *)
(* is a 16-bit number.                                                     *)
LoadData(m, f) ==
  LET n    == W(Len(f.words))
      fits == {i \in 1 .. n : f.start + i - 1 < LC3_MAX_MEMORY_ADDRESS}
      mem  == Filled(m.mem, f, fits)
  IN  IF Len(f.words) > 0 /\ fits # 1 .. n
      THEN [m EXCEPT !.mem = mem, !.status = "toolarge"]
      ELSE [m EXCEPT !.mem = mem, !.pc = f.start]

LoadObjFile(m, f) ==
  IF f = NoFile THEN Stopped(m, "unread") ELSE LoadData(m, f)

Registers(junk) ==
  [reg |-> [r \in 0 .. 7 |-> 0], pc |-> 0, num |-> 0, mem |-> [a \in {} |-> 0],
   out |-> <<>>, status |-> "boot", junk |-> junk, ran |-> 0]

----------------------------------------------------------------------------
(* Where the machines differ on purpose or by the letter of the code.      *)
Reasons(w, e) ==
  LET oper   == w \div 2^12
      r1     == Bits(w, 9, 3)
      vector == Cut(w, 12)
      near   == W(c.pc + 1 + INT_VALUE(w, 9))
      far    == W(c.reg[Bits(w, 6, 3)] + INT_VALUE(w, 6))
      reads  == CASE oper \in Codes({"LD", "STI"}) -> {near}
                  [] oper = OPCODE.LDI -> {near, vm_read(c, near, e)}
                  [] oper = OPCODE.LDR -> {far}
                  [] oper = OPCODE.TRAP -> {vector}
                  [] OTHER -> {}
      link   == oper = OPCODE.JSR \/ (oper = OPCODE.TRAP /\ vector # GETC)
      getc   == oper = OPCODE.TRAP /\ vector = GETC
      named  == [ extension |-> oper \in Codes({"RES", "RTI"}),
                  vector    |-> oper = OPCODE.TRAP /\ vector > 255,
                  flags     |-> \/ link /\ x.num = 7
                                \/ getc /\ x.num = 0
                                \/ oper = OPCODE.STI /\ x.num # r1,
                  char      |-> e.char > 127 /\ (getc \/ KBDR \in reads \cup {c.pc}),
                  memory    |-> ~(reads \cup {c.pc} \subseteq
                                    DOMAIN x.mem \cup {KBSR, KBDR, DSR, DDR}) ]
  IN  {n \in DOMAIN named : named[n]}

Init ==
  /\ file \in Files \cup {NoFile}
  /\ c = vm_create
  /\ x \in {Registers(j) : j \in Garbage}
  /\ tty = "cooked" /\ armed = FALSE /\ apart = {}

\* The beginning of the two programs main, up to the loaded file.
Load ==
  /\ c.status = "boot"
  /\ LET c1 == vm_load_data(c, Os)
         c2 == IF c1.status = "boot" THEN vm_load_file(c1, file) ELSE c1
         x1 == LoadData(x, Os)
         x2 == IF x1.status = "boot" THEN LoadObjFile(x1, file) ELSE x1
         go(m, s) == IF m.status = "boot" THEN Stopped(m, s) ELSE m
     IN  /\ c' = go(c2, "loaded")
         /\ x' = go(x2, "running")
         /\ apart' = IF c2.status = "aborted" THEN {"length"} ELSE {}
  /\ UNCHANGED <<file, tty, armed>>

disable_input_buffering ==
  /\ c.status = "loaded" /\ tty = "cooked"
  /\ tty' = "raw"
  /\ UNCHANGED <<file, c, x, armed, apart>>

install_handler ==
  /\ c.status = "loaded" /\ tty = "raw"
  /\ armed' = TRUE /\ c' = Stopped(c, "running")
  /\ UNCHANGED <<file, x, tty, apart>>

(* One instruction of each machine.  Once they have a reason to differ     *)
(* only the end of the C machine is followed.                              *)
Step ==
  /\ c.status = "running" /\ x.status = "running" /\ apart = {}
  /\ \E e \in World :
       LET w  == vm_read(c, c.pc, e)
           c1 == vm_run(c, e)
           x1 == Run(x, e)
       IN  /\ c' = c1 /\ x' = x1
           /\ apart' = (IF c1.status \in {"range", "mcr"} THEN {c1.status}
                        ELSE Reasons(w, e))
                       \cup (IF x1.status = "limit" THEN {"limit"} ELSE {})
  /\ UNCHANGED <<file, tty, armed>>

Ended == {"nop", "mcr", "range", "unimplemented"}

restore_input_buffering ==
  /\ c.status \in Ended /\ tty = "raw"
  /\ tty' = "cooked" /\ c' = Stopped(c, "exited")
  /\ UNCHANGED <<file, x, armed, apart>>

\* SIGINT ends both programs; only the C machine can have a handler, and is
\* killed with its terminal raw if it has not installed it yet.
handle_signal ==
  /\ c.status \in {"loaded", "running"} \cup Ended
  /\ c' = Stopped(c, IF armed THEN "exited" ELSE "killed")
  /\ tty' = IF armed THEN "cooked" ELSE tty
  /\ x' = Stopped(x, "killed")
  /\ UNCHANGED <<file, armed, apart>>

Next ==
  \/ Load \/ disable_input_buffering \/ install_handler
  \/ Step \/ restore_input_buffering \/ handle_signal

Spec == Init /\ [][Next]_vars

----------------------------------------------------------------------------
TypeOK ==
  /\ \A m \in {c, x} : /\ m.reg \in [0 .. 7 -> Word] /\ m.pc \in Word
                       /\ \A a \in DOMAIN m.mem : a \in Word /\ m.mem[a] \in Word
  /\ c.cc \in {"n", "z", "p"} /\ x.num \in 0 .. 7 /\ x.ran \in Nat
  /\ tty \in {"cooked", "raw"} /\ armed \in BOOLEAN

(* Until one of the named reasons occurs, the two machines have the same   *)
(* registers, pc, memory and output and stop at the same instruction; and  *)
(* the flags the C machine stores in PSR (vm.c vm_setcc) are those of the  *)
(* register the C++ machine remembers in NumCC.                            *)
Lockstep ==
  c.status \in {"running", "nop"} /\ apart = {} =>
    /\ c.reg = x.reg /\ c.pc = x.pc /\ c.out = x.out
    /\ x.status = c.status
    /\ c.cc = SignFlag(x.reg[x.num])
    /\ \A a \in DOMAIN x.mem : c.mem[a] = x.mem[a]
    /\ DOMAIN c.mem = DOMAIN x.mem \cup {MCR}

(* Converting any 16-bit word to the wide format (instr_converter.h)       *)
(* keeps the operation and every operand its executer looks at.            *)
ConvertKeepsMeaning ==
  c.status = "boot" /\ file = NoFile =>
    \A w \in Word :
      Decoded(INSTR_CONVERT(w, Format16, Wide), Wide) = Decoded(w, Format16)

=============================================================================
