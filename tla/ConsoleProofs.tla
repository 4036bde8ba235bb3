--------------------------- MODULE ConsoleProofs ---------------------------
(***************************************************************************)
(* Proofs about Console, for every memory, every message and every number  *)
(* of characters.  The routines of the OS have no stack: where a routine   *)
(* returns to, and where the caller's registers are, follows from pc, R7   *)
(* and the words the routines save in.                                     *)
(***************************************************************************)
EXTENDS Console, TLAPS

GetcBody  == {"getc", "getc_read"}
OutBody   == {"out", "out_wait", "out_write"}
PutsBody  == {"puts_loop", "puts_next", "puts_done"}
PutspBody == {"putsp_loop", "putsp_high", "putsp_next", "putsp_done"}
InBody    == {"in_getc", "in_echo", "in_lf", "in_done"}
PutsCallers == {"user", "in_getc", "halt_mcr", "halt", "start_halt"}

\* The label at which the routine that called GETC or OUT goes on.
Leaf == IF pc \in GetcBody \cup OutBody THEN R7 ELSE pc

\* R1 as that routine left it.
Live1 == IF pc \in {"out_wait", "out_write"} THEN slot["TOUT_R1"]
                                             ELSE reg["R1"]

\* IN has been entered and has not returned.
InsideIn == \/ Leaf \in InBody
            \/ pc = "puts" /\ R7 = "in_getc"
            \/ Leaf \in PutsBody /\ ret["OS_R7"] = "in_getc"

(* Where each routine returns to.                                          *)
Returns ==
  /\ pc \in GetcBody => R7 \in {"user", "in_echo"}
  /\ pc \in OutBody => R7 \in {"user", "puts_next", "in_lf", "in_done",
                               "putsp_high", "putsp_next"}
  /\ pc = "puts" => R7 \in PutsCallers
  /\ pc \in {"in", "putsp"} => R7 = "user"
  /\ Leaf \in PutsBody => ret["OS_R7"] \in PutsCallers
  /\ Leaf \in PutspBody => ret["OS_R7"] = "user"
  /\ InsideIn => ret["TIN_R7"] = "user"

Kept(S) == \A r \in S : reg[r] = call.reg[r]
Fresh(v) == v \in call.taken + 1 .. taken
Reads == call.trap \in {"getc", "in"}

(* Where the registers of the program are while a trap it called runs.     *)
Frames ==
  call.trap # "none" =>
    /\ Leaf \notin PutspBody => Kept({"R2", "R3"})
    /\ (Leaf = "user" \/ Leaf \in InBody) => Live1 = call.reg["R1"]
    /\ pc \in {"puts", "in", "putsp"} /\ R7 \in {"user", "in_getc"} =>
         Kept({"R1"})
    /\ pc \in {"puts", "putsp"} /\ R7 = "user" => Kept({"R0"})
    /\ Leaf = "user" => Reads \/ Kept({"R0"})
    /\ Leaf \in PutsBody /\ ret["OS_R7"] \in {"user", "in_getc"} =>
         slot["OS_R1"] = call.reg["R1"]
    /\ Leaf \in PutsBody /\ ret["OS_R7"] = "user" =>
         slot["OS_R0"] = call.reg["R0"]
    /\ Leaf \in PutspBody =>
         /\ slot["OS_R0"] = call.reg["R0"] /\ slot["OS_R1"] = call.reg["R1"]
         /\ slot["OS_R2"] = call.reg["R2"] /\ slot["OS_R3"] = call.reg["R3"]

(* Where the character is that GETC or IN will return.                     *)
Keys ==
  call.trap # "none" =>
    /\ InsideIn \/ pc = "in" => call.trap = "in"
    /\ pc \in GetcBody => Reads
    /\ pc \in {"puts", "putsp"} /\ R7 = "user" => ~Reads
    /\ pc \in OutBody /\ R7 = "user" => ~Reads
    /\ Leaf \in PutsBody \cup PutspBody /\ ret["OS_R7"] = "user" => ~Reads
    /\ pc = "getc_read" => last_KBSR_read \/ Fresh(kbdr)
    /\ pc = "user" /\ Reads => Fresh(reg["R0"])
    /\ (pc \in {"in_echo", "in_lf"} \/ (pc \in OutBody /\ R7 = "in_lf")) =>
         Fresh(reg["R0"])
    /\ (pc = "in_done" \/ (pc \in OutBody /\ R7 = "in_done")) =>
         Fresh(slot["OS_R0"])

IInv == TypeOK /\ Returns /\ Frames /\ Keys

----------------------------------------------------------------------------
(* Arithmetic on words.                                                    *)
LEMMA WordFacts ==
  /\ Byte * Byte \in Nat /\ Byte * Byte > Byte
  /\ 0 \in Word /\ Linefeed \in Word /\ 0 .. MaxKeys \subseteq Word
  /\ (Byte * Byte) \div 2 \in Word /\ (Byte * Byte) \div 2 - 1 \in Word
<1>1. Byte \in Nat /\ Byte > 1
  BY ConsoleConstants
<1>2. Byte * Byte \in Nat /\ Byte * Byte > Byte
  BY <1>1
<1>3. \A n \in Nat : n > 2 => n \div 2 \in 1 .. n - 1
  OBVIOUS
<1>4. Linefeed \in 1 .. Byte - 1 /\ MaxKeys \in 0 .. Byte - 1
  BY ConsoleConstants
<1> QED
  BY <1>1, <1>2, <1>3, <1>4 DEF Word

(* What the trap routines compute from a word is a word.                   *)
LEMMA WordOps ==
  ASSUME NEW w \in Word
  PROVE  /\ Mem[w] \in Word /\ Next1(w) \in Word
         /\ w % Byte \in Word /\ w % Byte \in 0 .. Byte - 1
         /\ w \div Byte \in Word /\ (w * Byte) % (Byte * Byte) \in Word
<1>1. Byte \in Nat /\ Byte > 1 /\ Mem \in [Word -> Word]
  BY ConsoleConstants
<1> DEFINE size == Byte * Byte
<1>2. size \in Nat /\ size > Byte
  BY WordFacts
<1>3. w \in 0 .. size - 1
  BY DEF Word
<1>4. w * Byte \in Nat
  BY <1>1, <1>3
<1>5. w % Byte \in 0 .. Byte - 1
  BY <1>1, <1>3, <1>2
<1>6. Word = 0 .. size - 1
  BY DEF Word
<1>7. Next1(w) = (w + 1) % size
  BY DEF Next1
<1>8. Mem[w] \in Word
  BY <1>1
<1>9. w \div Byte \in Nat /\ w \div Byte <= w
  BY <1>1, <1>3, <1>2
<1> HIDE DEF size
<1>10. (w + 1) % size \in 0 .. size - 1
  BY <1>2, <1>3, <1>1
<1>11. (w * Byte) % size \in 0 .. size - 1
  BY <1>2, <1>4, <1>1
<1>12. w % Byte \in 0 .. size - 1 /\ w \div Byte \in 0 .. size - 1
  BY <1>1, <1>2, <1>3, <1>5, <1>9
<1> QED
  BY <1>5, <1>6, <1>7, <1>8, <1>10, <1>11, <1>12 DEF size

----------------------------------------------------------------------------
(* One lemma per routine: each of its steps keeps every part of IInv.      *)
USE DEF Run, Goto, Calls, NoDevice, History, input, device, cpu,
        GetcBody, OutBody, PutsBody, PutspBody, InBody, PutsCallers

(* A step that changes only registers and the words they are saved in.     *)
LEMMA TypeCpu ==
  ASSUME TypeOK, UNCHANGED <<input, device, at, call, out>>,
         pc' \in Label, reg' \in [General -> Word],
         R7' \in Label \cup {Nowhere},
         slot' \in [{"TOUT_R1", "OS_R0", "OS_R1", "OS_R2", "OS_R3"} -> Word],
         ret' \in [{"TIN_R7", "OS_R7"} -> Label \cup {Nowhere}]
  PROVE  TypeOK'
  BY DEF TypeOK

(* PUTS.                                                                   *)
LEMMA PutsSteps ==
  ASSUME IInv, puts_entry \/ puts_loop \/ puts_next \/ puts_done
  PROVE  IInv'
<1>1. CASE puts_entry
  <2>1. TypeOK'
    <3>1. /\ pc \in Label /\ R7 \in Label \cup {Nowhere}
          /\ reg \in [General -> Word]
          /\ slot \in [{"TOUT_R1", "OS_R0", "OS_R1", "OS_R2", "OS_R3"} -> Word]
          /\ ret \in [{"TIN_R7", "OS_R7"} -> Label \cup {Nowhere}]
      BY Zenon DEF IInv, TypeOK
    <3>2. pc' \in Label /\ R7' \in Label \cup {Nowhere}
      BY <1>1, <3>1 DEF puts_entry, IInv, Returns, Leaf, InsideIn, Label, Traps
    <3>3. reg' \in [General -> Word]
      BY <1>1, <3>1, WordFacts, WordOps DEF puts_entry, General
    <3>4. slot' \in [{"TOUT_R1", "OS_R0", "OS_R1", "OS_R2", "OS_R3"} -> Word]
      BY <1>1, <3>1, WordFacts, WordOps DEF puts_entry, General
    <3>5. ret' \in [{"TIN_R7", "OS_R7"} -> Label \cup {Nowhere}]
      BY <1>1, <3>1 DEF puts_entry
    <3>6. UNCHANGED <<input, device, at, call, out>>
      BY <1>1 DEF puts_entry
    <3> QED
      BY <3>2, <3>3, <3>4, <3>5, <3>6, TypeCpu DEF IInv
  <2>2. Returns'
    BY <1>1 DEF IInv, puts_entry, TypeOK, Returns, Leaf, InsideIn
  <2>3. Frames'
    BY <1>1 DEF IInv, puts_entry, TypeOK, Frames, Kept, Reads, Live1, Leaf,
                General
  <2>4. Keys'
    BY <1>1 DEF IInv, puts_entry, TypeOK, Keys, Fresh, Reads, Leaf, InsideIn,
                General
  <2> QED
    BY <2>1, <2>2, <2>3, <2>4 DEF IInv
<1>2. CASE puts_loop
  <2>1. TypeOK'
    BY <1>2, WordFacts, WordOps
    DEF IInv, TypeOK, puts_loop, Label, Traps, General
  <2>2. Returns'
    BY <1>2 DEF IInv, puts_loop, TypeOK, Returns, Leaf, InsideIn
  <2>3. Frames'
    BY <1>2 DEF IInv, puts_loop, TypeOK, Frames, Kept, Reads, Live1, Leaf,
                General
  <2>4. Keys'
    BY <1>2 DEF IInv, puts_loop, TypeOK, Keys, Fresh, Reads, Leaf, InsideIn,
                General
  <2> QED
    BY <2>1, <2>2, <2>3, <2>4 DEF IInv
<1>3. CASE puts_next
  <2>1. TypeOK'
    BY <1>3, WordFacts, WordOps
    DEF IInv, TypeOK, puts_next, Label, Traps, General
  <2>2. Returns'
    BY <1>3 DEF IInv, puts_next, TypeOK, Returns, Leaf, InsideIn
  <2>3. Frames'
    BY <1>3 DEF IInv, puts_next, TypeOK, Frames, Kept, Reads, Live1, Leaf,
                General
  <2>4. Keys'
    BY <1>3 DEF IInv, puts_next, TypeOK, Keys, Fresh, Reads, Leaf, InsideIn,
                General
  <2> QED
    BY <2>1, <2>2, <2>3, <2>4 DEF IInv
<1>4. CASE puts_done
  <2>1. TypeOK'
    <3>1. /\ pc \in Label /\ R7 \in Label \cup {Nowhere}
          /\ reg \in [General -> Word]
          /\ slot \in [{"TOUT_R1", "OS_R0", "OS_R1", "OS_R2", "OS_R3"} -> Word]
          /\ ret \in [{"TIN_R7", "OS_R7"} -> Label \cup {Nowhere}]
      BY Zenon DEF IInv, TypeOK
    <3>2. pc' \in Label /\ R7' \in Label \cup {Nowhere}
      BY <1>4, <3>1 DEF puts_done, IInv, Returns, Leaf, InsideIn, Label, Traps
    <3>3. reg' \in [General -> Word]
      BY <1>4, <3>1, WordFacts, WordOps DEF puts_done, General
    <3>4. slot' \in [{"TOUT_R1", "OS_R0", "OS_R1", "OS_R2", "OS_R3"} -> Word]
      BY <1>4, <3>1, WordFacts, WordOps DEF puts_done, General
    <3>5. ret' \in [{"TIN_R7", "OS_R7"} -> Label \cup {Nowhere}]
      BY <1>4, <3>1 DEF puts_done
    <3>6. UNCHANGED <<input, device, at, call, out>>
      BY <1>4 DEF puts_done
    <3> QED
      BY <3>2, <3>3, <3>4, <3>5, <3>6, TypeCpu DEF IInv
  <2>2. Returns'
    BY <1>4 DEF IInv, puts_done, TypeOK, Returns, Leaf, InsideIn
  <2>3. Frames'
    BY <1>4 DEF IInv, puts_done, TypeOK, Frames, Kept, Reads, Live1, Leaf,
                General, Returns
  <2>4. Keys'
    BY <1>4 DEF IInv, puts_done, TypeOK, Keys, Fresh, Reads, Leaf, InsideIn,
                General, Returns
  <2> QED
    BY <2>1, <2>2, <2>3, <2>4 DEF IInv
<1> QED
  BY <1>1, <1>2, <1>3, <1>4

(* IN.                                                                     *)
LEMMA InSteps ==
  ASSUME IInv, in_entry \/ in_getc \/ in_echo \/ in_lf \/ in_done
  PROVE  IInv'
<1>1. CASE in_entry
  <2>1. TypeOK'
    BY <1>1, WordFacts, WordOps, ConsoleConstants
    DEF IInv, TypeOK, in_entry, Label, Traps, General, Returns
  <2>2. Returns'
    BY <1>1 DEF IInv, in_entry, TypeOK, Returns, Leaf, InsideIn
  <2>3. Frames'
    BY <1>1 DEF IInv, in_entry, TypeOK, Frames, Kept, Reads, Live1, Leaf,
                General, Returns
  <2>4. Keys'
    BY <1>1 DEF IInv, in_entry, TypeOK, Keys, Fresh, Reads, Leaf, InsideIn,
                General, Returns
  <2> QED
    BY <2>1, <2>2, <2>3, <2>4 DEF IInv
<1>2. CASE in_getc
  <2>1. TypeOK'
    BY <1>2, WordFacts, WordOps
    DEF IInv, TypeOK, in_getc, Label, Traps, General
  <2>2. Returns'
    BY <1>2 DEF IInv, in_getc, TypeOK, Returns, Leaf, InsideIn
  <2>3. Frames'
    BY <1>2 DEF IInv, in_getc, TypeOK, Frames, Kept, Reads, Live1, Leaf,
                General
  <2>4. Keys'
    BY <1>2 DEF IInv, in_getc, TypeOK, Keys, Fresh, Reads, Leaf, InsideIn,
                General
  <2> QED
    BY <2>1, <2>2, <2>3, <2>4 DEF IInv
<1>3. CASE in_echo
  <2>1. TypeOK'
    BY <1>3, WordFacts, WordOps
    DEF IInv, TypeOK, in_echo, Label, Traps, General
  <2>2. Returns'
    BY <1>3 DEF IInv, in_echo, TypeOK, Returns, Leaf, InsideIn
  <2>3. Frames'
    BY <1>3 DEF IInv, in_echo, TypeOK, Frames, Kept, Reads, Live1, Leaf,
                General
  <2>4. Keys'
    BY <1>3 DEF IInv, in_echo, TypeOK, Keys, Fresh, Reads, Leaf, InsideIn,
                General
  <2> QED
    BY <2>1, <2>2, <2>3, <2>4 DEF IInv
<1>4. CASE in_lf
  <2>1. TypeOK'
    BY <1>4, WordFacts, WordOps DEF IInv, TypeOK, in_lf, Label, Traps, General
  <2>2. Returns'
    BY <1>4 DEF IInv, in_lf, TypeOK, Returns, Leaf, InsideIn
  <2>3. Frames'
    BY <1>4 DEF IInv, in_lf, TypeOK, Frames, Kept, Reads, Live1, Leaf,
                General
  <2>4. Keys'
    BY <1>4 DEF IInv, in_lf, TypeOK, Keys, Fresh, Reads, Leaf, InsideIn,
                General
  <2> QED
    BY <2>1, <2>2, <2>3, <2>4 DEF IInv
<1>5. CASE in_done
  <2>1. TypeOK'
    <3>1. /\ pc \in Label /\ R7 \in Label \cup {Nowhere}
          /\ reg \in [General -> Word]
          /\ slot \in [{"TOUT_R1", "OS_R0", "OS_R1", "OS_R2", "OS_R3"} -> Word]
          /\ ret \in [{"TIN_R7", "OS_R7"} -> Label \cup {Nowhere}]
      BY Zenon DEF IInv, TypeOK
    <3>2. pc' \in Label /\ R7' \in Label \cup {Nowhere}
      BY <1>5, <3>1 DEF in_done, IInv, Returns, Leaf, InsideIn, Label, Traps
    <3>3. reg' \in [General -> Word]
      BY <1>5, <3>1, WordFacts, WordOps DEF in_done, General
    <3>4. slot' \in [{"TOUT_R1", "OS_R0", "OS_R1", "OS_R2", "OS_R3"} -> Word]
      BY <1>5, <3>1, WordFacts, WordOps DEF in_done, General
    <3>5. ret' \in [{"TIN_R7", "OS_R7"} -> Label \cup {Nowhere}]
      BY <1>5, <3>1 DEF in_done
    <3>6. UNCHANGED <<input, device, at, call, out>>
      BY <1>5 DEF in_done
    <3> QED
      BY <3>2, <3>3, <3>4, <3>5, <3>6, TypeCpu DEF IInv
  <2>2. Returns'
    BY <1>5 DEF IInv, in_done, TypeOK, Returns, Leaf, InsideIn
  <2>3. Frames'
    BY <1>5 DEF IInv, in_done, TypeOK, Frames, Kept, Reads, Live1, Leaf,
                General, Returns, Keys, InsideIn
  <2>4. Keys'
    BY <1>5 DEF IInv, in_done, TypeOK, Keys, Fresh, Reads, Leaf, InsideIn,
                General, Returns
  <2> QED
    BY <2>1, <2>2, <2>3, <2>4 DEF IInv
<1> QED
  BY <1>1, <1>2, <1>3, <1>4, <1>5

(* PUTSP.                                                                  *)
LEMMA PutspSteps ==
  ASSUME IInv,
            putsp_entry \/ putsp_loop \/ putsp_high \/ putsp_next
         \/ putsp_done
  PROVE  IInv'
<1>1. CASE putsp_entry
  <2>1. TypeOK'
    BY <1>1, WordFacts, WordOps
    DEF IInv, TypeOK, putsp_entry, Label, Traps, General, Returns
  <2>2. Returns'
    BY <1>1 DEF IInv, putsp_entry, TypeOK, Returns, Leaf, InsideIn
  <2>3. Frames'
    BY <1>1 DEF IInv, putsp_entry, TypeOK, Frames, Kept, Reads, Live1, Leaf,
                General, Returns
  <2>4. Keys'
    BY <1>1 DEF IInv, putsp_entry, TypeOK, Keys, Fresh, Reads, Leaf, InsideIn,
                General, Returns
  <2> QED
    BY <2>1, <2>2, <2>3, <2>4 DEF IInv
<1>2. CASE putsp_loop
  <2>1. TypeOK'
    BY <1>2, WordFacts, WordOps
    DEF IInv, TypeOK, putsp_loop, Label, Traps, General
  <2>2. Returns'
    BY <1>2 DEF IInv, putsp_loop, TypeOK, Returns, Leaf, InsideIn
  <2>3. Frames'
    BY <1>2 DEF IInv, putsp_loop, TypeOK, Frames, Kept, Reads, Live1, Leaf,
                General
  <2>4. Keys'
    BY <1>2 DEF IInv, putsp_loop, TypeOK, Keys, Fresh, Reads, Leaf, InsideIn,
                General
  <2> QED
    BY <2>1, <2>2, <2>3, <2>4 DEF IInv
<1>3. CASE putsp_high
  <2>1. TypeOK'
    BY <1>3, WordFacts, WordOps
    DEF IInv, TypeOK, putsp_high, Label, Traps, General
  <2>2. Returns'
    BY <1>3 DEF IInv, putsp_high, TypeOK, Returns, Leaf, InsideIn
  <2>3. Frames'
    BY <1>3 DEF IInv, putsp_high, TypeOK, Frames, Kept, Reads, Live1, Leaf,
                General
  <2>4. Keys'
    BY <1>3 DEF IInv, putsp_high, TypeOK, Keys, Fresh, Reads, Leaf, InsideIn,
                General
  <2> QED
    BY <2>1, <2>2, <2>3, <2>4 DEF IInv
<1>4. CASE putsp_next
  <2>1. TypeOK'
    BY <1>4, WordFacts, WordOps
    DEF IInv, TypeOK, putsp_next, Label, Traps, General
  <2>2. Returns'
    BY <1>4 DEF IInv, putsp_next, TypeOK, Returns, Leaf, InsideIn
  <2>3. Frames'
    BY <1>4 DEF IInv, putsp_next, TypeOK, Frames, Kept, Reads, Live1, Leaf,
                General
  <2>4. Keys'
    BY <1>4 DEF IInv, putsp_next, TypeOK, Keys, Fresh, Reads, Leaf, InsideIn,
                General
  <2> QED
    BY <2>1, <2>2, <2>3, <2>4 DEF IInv
<1>5. CASE putsp_done
  <2>1. TypeOK'
    <3>1. /\ pc \in Label /\ R7 \in Label \cup {Nowhere}
          /\ reg \in [General -> Word]
          /\ slot \in [{"TOUT_R1", "OS_R0", "OS_R1", "OS_R2", "OS_R3"} -> Word]
          /\ ret \in [{"TIN_R7", "OS_R7"} -> Label \cup {Nowhere}]
      BY Zenon DEF IInv, TypeOK
    <3>2. pc' \in Label /\ R7' \in Label \cup {Nowhere}
      BY <1>5, <3>1 DEF putsp_done, IInv, Returns, Leaf, InsideIn, Label, Traps
    <3>3. reg' \in [General -> Word]
      BY <1>5, <3>1, WordFacts, WordOps DEF putsp_done, General
    <3>4. slot' \in [{"TOUT_R1", "OS_R0", "OS_R1", "OS_R2", "OS_R3"} -> Word]
      BY <1>5, <3>1, WordFacts, WordOps DEF putsp_done, General
    <3>5. ret' \in [{"TIN_R7", "OS_R7"} -> Label \cup {Nowhere}]
      BY <1>5, <3>1 DEF putsp_done
    <3>6. UNCHANGED <<input, device, at, call, out>>
      BY <1>5 DEF putsp_done
    <3> QED
      BY <3>2, <3>3, <3>4, <3>5, <3>6, TypeCpu DEF IInv
  <2>2. Returns'
    BY <1>5 DEF IInv, putsp_done, TypeOK, Returns, Leaf, InsideIn
  <2>3. Frames'
    BY <1>5 DEF IInv, putsp_done, TypeOK, Frames, Kept, Reads, Live1, Leaf,
                General, Returns
  <2>4. Keys'
    BY <1>5 DEF IInv, putsp_done, TypeOK, Keys, Fresh, Reads, Leaf, InsideIn,
                General, Returns
  <2> QED
    BY <2>1, <2>2, <2>3, <2>4 DEF IInv
<1> QED
  BY <1>1, <1>2, <1>3, <1>4, <1>5

(* OUT.                                                                    *)
LEMMA OutSteps ==
  ASSUME IInv, out_entry \/ out_wait(TRUE) \/ out_wait(FALSE) \/ out_write
  PROVE  IInv'
<1>1. CASE out_entry
  <2>1. TypeOK'
    BY <1>1, WordFacts, WordOps
    DEF IInv, TypeOK, out_entry, Label, Traps, General
  <2>2. Returns'
    BY <1>1 DEF IInv, out_entry, TypeOK, Returns, Leaf, InsideIn
  <2>3. Frames'
    BY <1>1 DEF IInv, out_entry, TypeOK, Frames, Kept, Reads, Live1, Leaf,
                General
  <2>4. Keys'
    BY <1>1 DEF IInv, out_entry, TypeOK, Keys, Fresh, Reads, Leaf, InsideIn,
                General
  <2> QED
    BY <2>1, <2>2, <2>3, <2>4 DEF IInv
<1>2. CASE out_wait(TRUE)
  <2>1. TypeOK'
    BY <1>2, WordFacts, WordOps
    DEF IInv, TypeOK, out_wait, ReadDSR, Label, Traps, General
  <2>2. Returns'
    BY <1>2 DEF IInv, out_wait, ReadDSR, TypeOK, Returns, Leaf, InsideIn
  <2>3. Frames'
    BY <1>2
    DEF IInv, out_wait, ReadDSR, TypeOK, Frames, Kept, Reads, Live1, Leaf,
                General
  <2>4. Keys'
    BY <1>2
    DEF IInv, out_wait, ReadDSR, TypeOK, Keys, Fresh, Reads, Leaf,
        InsideIn,
                General
  <2> QED
    BY <2>1, <2>2, <2>3, <2>4 DEF IInv
<1>3. CASE out_wait(FALSE)
  <2>1. TypeOK'
    <3>1. /\ reg \in [General -> Word] /\ pc' = "out_wait"
          /\ last_DSR_read' = FALSE
          /\ reg' = [reg EXCEPT !["R1"] = 0]
      BY <1>3 DEF IInv, TypeOK, out_wait, ReadDSR
    <3>2. reg' \in [General -> Word]
      BY <3>1, WordFacts
    <3> QED
      BY <1>3, <3>1, <3>2 DEF IInv, TypeOK, out_wait, ReadDSR, Label
  <2>2. Returns'
    BY <1>3 DEF IInv, out_wait, ReadDSR, TypeOK, Returns, Leaf, InsideIn
  <2>3. Frames'
    BY <1>3
    DEF IInv, out_wait, ReadDSR, TypeOK, Frames, Kept, Reads, Live1, Leaf,
                General
  <2>4. Keys'
    BY <1>3
    DEF IInv, out_wait, ReadDSR, TypeOK, Keys, Fresh, Reads, Leaf,
        InsideIn,
                General
  <2> QED
    BY <2>1, <2>2, <2>3, <2>4 DEF IInv
<1>4. CASE out_write
  <2>1. TypeOK'
    <3>1. /\ pc \in Label /\ reg \in [General -> Word]
          /\ slot \in [{"TOUT_R1", "OS_R0", "OS_R1", "OS_R2", "OS_R3"} -> Word]
          /\ out \in Seq(0 .. Byte - 1)
      BY Zenon DEF IInv, TypeOK
    <3>2. pc' \in Label
      BY <1>4 DEF out_write, IInv, Returns, Label
    <3>3. reg' \in [General -> Word]
      BY <1>4, <3>1 DEF out_write
    <3>4. reg["R0"] % Byte \in 0 .. Byte - 1
      BY <3>1, WordOps DEF General
    <3>6. Append(out, reg["R0"] % Byte) \in Seq(0 .. Byte - 1)
      BY <3>1, <3>4
    <3>5. out' \in Seq(0 .. Byte - 1)
      BY <1>4, <3>1, <3>6 DEF out_write, WriteDDR
    <3> QED
      BY <1>4, <3>2, <3>3, <3>5 DEF IInv, TypeOK, out_write, WriteDDR
  <2>2. Returns'
    BY <1>4 DEF IInv, out_write, WriteDDR, TypeOK, Returns, Leaf, InsideIn
  <2>3. Frames'
    BY <1>4
    DEF IInv, out_write, WriteDDR, TypeOK, Frames, Kept, Reads, Live1,
        Leaf,
                General, Returns
  <2>4. Keys'
    BY <1>4
    DEF IInv, out_write, WriteDDR, TypeOK, Keys, Fresh, Reads, Leaf,
        InsideIn,
                General, Returns
  <2> QED
    BY <2>1, <2>2, <2>3, <2>4 DEF IInv
<1> QED
  BY <1>1, <1>2, <1>3, <1>4

(* GETC.                                                                   *)
LEMMA GetcSteps ==
  ASSUME IInv, getc_wait(TRUE) \/ getc_wait(FALSE) \/ getc_read \/ getc_eof
  PROVE  IInv'
<1>1. CASE getc_wait(TRUE)
  <2>1. TypeOK'
    BY <1>1, WordFacts, WordOps
    DEF IInv, TypeOK, getc_wait, ReadKBSR, Label, Traps, General, Returns
  <2>2. Returns'
    BY <1>1 DEF IInv, getc_wait, ReadKBSR, TypeOK, Returns, Leaf, InsideIn
  <2>3. Frames'
    BY <1>1
    DEF IInv, getc_wait, ReadKBSR, TypeOK, Frames, Kept, Reads, Live1,
        Leaf,
                General, Returns, Keys
  <2>4. Keys'
    BY <1>1
    DEF IInv, getc_wait, ReadKBSR, TypeOK, Keys, Fresh, Reads, Leaf,
        InsideIn,
                General, Returns
  <2> QED
    BY <2>1, <2>2, <2>3, <2>4 DEF IInv
<1>2. CASE getc_wait(FALSE)
  <2>1. TypeOK'
    BY <1>2, WordFacts, WordOps
    DEF IInv, TypeOK, getc_wait, ReadKBSR, Label, Traps, General, Returns
  <2>2. Returns'
    BY <1>2 DEF IInv, getc_wait, ReadKBSR, TypeOK, Returns, Leaf, InsideIn
  <2>3. Frames'
    BY <1>2
    DEF IInv, getc_wait, ReadKBSR, TypeOK, Frames, Kept, Reads, Live1,
        Leaf,
                General, Returns, Keys
  <2>4. Keys'
    BY <1>2
    DEF IInv, getc_wait, ReadKBSR, TypeOK, Keys, Fresh, Reads, Leaf,
        InsideIn,
                General, Returns
  <2> QED
    BY <2>1, <2>2, <2>3, <2>4 DEF IInv
<1>3. CASE getc_read
  <2>1. TypeOK'
    <3>1. /\ pc \in Label /\ reg \in [General -> Word]
          /\ typed \in 0 .. MaxKeys /\ fetched \in 0 .. typed
          /\ taken \in 0 .. fetched /\ kbdr \in 0 .. taken
          /\ MaxKeys \in Nat
          /\ call \in [trap : Traps \cup {"none"}, reg : [General -> Word],
                       taken : 0 .. taken]
      BY ConsoleConstants DEF IInv, TypeOK
    <3>2. pc' \in Label
      BY <1>3 DEF getc_read, IInv, Returns, Label
    <3>3. reg' \in [General -> Word]
      BY <1>3, <3>1 DEF getc_read
    <3>4. /\ typed' = typed /\ fetched' \in 0 .. typed
          /\ taken' \in 0 .. fetched' /\ kbdr' \in 0 .. taken'
          /\ taken <= taken'
      BY <1>3, <3>1 DEF getc_read, ReadKBDR, fgetc, StdioReads
    <3>5. call' \in [trap : Traps \cup {"none"}, reg : [General -> Word],
                     taken : 0 .. taken']
      BY <1>3, <3>1, <3>4 DEF getc_read
    <3> QED
      BY <1>3, <3>1, <3>2, <3>3, <3>4, <3>5
      DEF IInv, TypeOK, getc_read, ReadKBDR, fgetc, StdioReads
  <2>2. Returns'
    BY <1>3
    DEF IInv, getc_read, ReadKBDR, fgetc, StdioReads, TypeOK, Returns,
        Leaf, InsideIn
  <2>3. Frames'
    BY <1>3
    DEF IInv, getc_read, ReadKBDR, fgetc, StdioReads, TypeOK, Frames, Kept,
        Reads, Live1, Leaf,
                General, Returns, Keys
  <2>4. Keys'
    BY <1>3
    DEF IInv, getc_read, ReadKBDR, fgetc, StdioReads, TypeOK, Keys, Fresh,
        Reads, Leaf, InsideIn,
                General, Returns
  <2> QED
    BY <2>1, <2>2, <2>3, <2>4 DEF IInv
<1>4. CASE getc_eof
  <2>1. TypeOK'
    BY <1>4, WordFacts, WordOps
    DEF IInv, TypeOK, getc_eof, Label, Traps, General, Place
  <2>2. Returns'
    BY <1>4 DEF IInv, getc_eof, TypeOK, Returns, Leaf, InsideIn
  <2>3. Frames'
    BY <1>4 DEF IInv, getc_eof, TypeOK, Frames, Kept, Reads, Live1, Leaf,
                General, Keys
  <2>4. Keys'
    BY <1>4 DEF IInv, getc_eof, TypeOK, Keys, Fresh, Reads, Leaf, InsideIn,
                General
  <2> QED
    BY <2>1, <2>2, <2>3, <2>4 DEF IInv
<1> QED
  BY <1>1, <1>2, <1>3, <1>4

(* OS_START, HALT and BAD_TRAP.                                            *)
LEMMA MessageSteps ==
  ASSUME IInv,
            prints_message("start", StartMsg, "start_halt")
         \/ start_halt \/ prints_message("halt", HaltMsg, "halt_mcr")
         \/ halt_mcr \/ prints_message("bad", BadMsg, "halt")
  PROVE  IInv'
<1>1. CASE prints_message("start", StartMsg, "start_halt")
  <2>1. TypeOK'
    BY <1>1, WordFacts, WordOps, ConsoleConstants
    DEF IInv, TypeOK, prints_message, Label, Traps, General
  <2>2. Returns'
    BY <1>1 DEF IInv, prints_message, TypeOK, Returns, Leaf, InsideIn
  <2>3. Frames'
    BY <1>1 DEF IInv, prints_message, TypeOK, Frames, Kept, Reads, Live1, Leaf,
                General
  <2>4. Keys'
    BY <1>1
    DEF IInv, prints_message, TypeOK, Keys, Fresh, Reads, Leaf, InsideIn,
                General
  <2> QED
    BY <2>1, <2>2, <2>3, <2>4 DEF IInv
<1>2. CASE start_halt
  <2>1. TypeOK'
    BY <1>2, WordFacts, WordOps
    DEF IInv, TypeOK, start_halt, Label, Traps, General
  <2>2. Returns'
    BY <1>2 DEF IInv, start_halt, TypeOK, Returns, Leaf, InsideIn
  <2>3. Frames'
    BY <1>2 DEF IInv, start_halt, TypeOK, Frames, Kept, Reads, Live1, Leaf,
                General
  <2>4. Keys'
    BY <1>2 DEF IInv, start_halt, TypeOK, Keys, Fresh, Reads, Leaf, InsideIn,
                General
  <2> QED
    BY <2>1, <2>2, <2>3, <2>4 DEF IInv
<1>3. CASE prints_message("halt", HaltMsg, "halt_mcr")
  <2>1. TypeOK'
    BY <1>3, WordFacts, WordOps, ConsoleConstants
    DEF IInv, TypeOK, prints_message, Label, Traps, General
  <2>2. Returns'
    BY <1>3 DEF IInv, prints_message, TypeOK, Returns, Leaf, InsideIn
  <2>3. Frames'
    BY <1>3 DEF IInv, prints_message, TypeOK, Frames, Kept, Reads, Live1, Leaf,
                General
  <2>4. Keys'
    BY <1>3
    DEF IInv, prints_message, TypeOK, Keys, Fresh, Reads, Leaf, InsideIn,
                General
  <2> QED
    BY <2>1, <2>2, <2>3, <2>4 DEF IInv
<1>4. CASE halt_mcr
  <2>1. TypeOK'
    BY <1>4, WordFacts, WordOps
    DEF IInv, TypeOK, halt_mcr, NoCall, Label, Traps, General, Place
  <2>2. Returns'
    BY <1>4 DEF IInv, halt_mcr, NoCall, TypeOK, Returns, Leaf, InsideIn
  <2>3. Frames'
    BY <1>4
    DEF IInv, halt_mcr, NoCall, TypeOK, Frames, Kept, Reads, Live1, Leaf,
                General
  <2>4. Keys'
    BY <1>4
    DEF IInv, halt_mcr, NoCall, TypeOK, Keys, Fresh, Reads, Leaf, InsideIn,
                General
  <2> QED
    BY <2>1, <2>2, <2>3, <2>4 DEF IInv
<1>5. CASE prints_message("bad", BadMsg, "halt")
  <2>1. TypeOK'
    BY <1>5, WordFacts, WordOps, ConsoleConstants
    DEF IInv, TypeOK, prints_message, Label, Traps, General
  <2>2. Returns'
    BY <1>5 DEF IInv, prints_message, TypeOK, Returns, Leaf, InsideIn
  <2>3. Frames'
    BY <1>5 DEF IInv, prints_message, TypeOK, Frames, Kept, Reads, Live1, Leaf,
                General
  <2>4. Keys'
    BY <1>5
    DEF IInv, prints_message, TypeOK, Keys, Fresh, Reads, Leaf, InsideIn,
                General
  <2> QED
    BY <2>1, <2>2, <2>3, <2>4 DEF IInv
<1> QED
  BY <1>1, <1>2, <1>3, <1>4, <1>5

----------------------------------------------------------------------------
(* The program and the debugger.  StreamKept: the stream was used in some  *)
(* way that reads forward only.                                            *)
StreamKept ==
  /\ regular' \in BOOLEAN /\ shared' \in BOOLEAN
  /\ typed' \in 0 .. MaxKeys /\ fetched' \in 0 .. typed'
  /\ taken' \in 0 .. fetched' /\ taken <= taken'

\* The keyboard was not read, or it was and the register has a new character.
KeyboardKept ==
  /\ last_KBSR_read' \in BOOLEAN /\ last_DSR_read' \in BOOLEAN
  /\ kbdr' \in 0 .. taken' /\ kbdr <= kbdr'
  /\ last_KBSR_read => last_KBSR_read' \/ kbdr' > taken

\* stdio reads forward.
LEMMA StdioForward ==
  ASSUME TypeOK, UNCHANGED input \/ fgets \/ fgetc
  PROVE  StreamKept
<1>1. /\ typed \in 0 .. MaxKeys /\ fetched \in 0 .. typed
      /\ taken \in 0 .. fetched /\ MaxKeys \in Nat
      /\ regular \in BOOLEAN /\ shared \in BOOLEAN
  BY ConsoleConstants DEF TypeOK
<1>2. ASSUME NEW t \in taken + 1 .. typed, StdioReads(t)
      PROVE  StreamKept
  BY <1>1, <1>2 DEF StdioReads, StreamKept
<1>3. CASE UNCHANGED input
  BY <1>1, <1>3 DEF StreamKept
<1>4. CASE fgetc
  <2>1. taken + 1 \in taken + 1 .. typed /\ StdioReads(taken + 1)
    BY <1>1, <1>4 DEF fgetc, StdioReads
  <2> QED
    BY <2>1, <1>2
<1>5. CASE fgets
  BY <1>2, <1>3, <1>5 DEF fgets
<1> QED
  BY <1>3, <1>4, <1>5

\* The stream keeps, and the registers are not read.
LEMMA KeyboardUnread ==
  ASSUME TypeOK, StreamKept, UNCHANGED <<last_KBSR_read, kbdr>>,
         last_DSR_read' \in BOOLEAN
  PROVE  KeyboardKept
  BY ConsoleConstants DEF TypeOK, StreamKept, KeyboardKept

\* Any read of a device register.
LEMMA DeviceRead ==
  ASSUME TypeOK, ReadsDevice
  PROVE  StreamKept /\ KeyboardKept
<1>1. CASE \E ready \in BOOLEAN : ReadKBSR(ready) \/ ReadDSR(ready)
  <2>1. UNCHANGED input /\ UNCHANGED kbdr
    BY <1>1 DEF ReadKBSR, ReadDSR
  <2>2. StreamKept
    BY <2>1, StdioForward
  <2>3. /\ last_KBSR_read' \in BOOLEAN /\ last_DSR_read' \in BOOLEAN
        /\ last_KBSR_read => last_KBSR_read'
    BY <1>1 DEF ReadKBSR, ReadDSR, TypeOK
  <2> QED
    BY <2>1, <2>2, <2>3, ConsoleConstants DEF KeyboardKept, StreamKept, TypeOK
<1>2. CASE \E v \in Word : ReadKBDR(v)
  <2>0. taken \in Nat /\ kbdr \in 0 .. taken
    BY ConsoleConstants DEF TypeOK
  <2>1. last_KBSR_read' = FALSE /\ last_DSR_read' \in BOOLEAN
    BY <1>2 DEF ReadKBDR, TypeOK
  <2>2. CASE last_KBSR_read
    <3>1. fgetc /\ kbdr' = taken'
      BY <1>2, <2>2 DEF ReadKBDR
    <3>2. StreamKept
      BY <3>1, StdioForward
    <3>3. taken' = taken + 1
      BY <3>1 DEF fgetc, StdioReads
    <3>4. taken \in Nat /\ kbdr \in 0 .. taken
      BY <2>0
    <3>5. kbdr' \in 0 .. taken' /\ kbdr <= kbdr' /\ kbdr' > taken
      BY <3>1, <3>3, <3>4
    <3>6. last_KBSR_read' \in BOOLEAN
      BY <2>1
    <3> QED
      BY <2>1, <3>2, <3>5, <3>6 DEF KeyboardKept
  <2>3. CASE ~last_KBSR_read
    <3>1. UNCHANGED input /\ UNCHANGED kbdr
      BY <1>2, <2>3 DEF ReadKBDR
    <3>2. StreamKept
      BY <3>1, StdioForward
    <3>3. kbdr' \in 0 .. taken' /\ kbdr <= kbdr'
      BY <2>0, <3>1
    <3>4. last_KBSR_read' \in BOOLEAN
      BY <2>1
    <3> QED
      BY <2>1, <2>3, <3>2, <3>3, <3>4 DEF KeyboardKept
  <2> QED
    BY <2>2, <2>3
<1> QED
  BY <1>1, <1>2 DEF ReadsDevice

\* A step of the debugger beside a trap that goes on afterwards.
LEMMA Beside ==
  ASSUME IInv, StreamKept, KeyboardKept, UNCHANGED <<cpu, call, out>>,
         at' \in Place
  PROVE  IInv'
<1>1. TypeOK'
  <2>1. call.taken \in 0 .. taken /\ taken \in Nat
        /\ call \in [trap : Traps \cup {"none"}, reg : [General -> Word],
                     taken : 0 .. taken]
    BY ConsoleConstants DEF IInv, TypeOK
  <2>2. call' \in [trap : Traps \cup {"none"}, reg : [General -> Word],
                   taken : 0 .. taken']
    BY <2>1, ConsoleConstants DEF StreamKept
  <2> QED
    BY <2>2 DEF IInv, TypeOK, StreamKept, KeyboardKept
<1>2. Returns'
  BY DEF IInv, Returns, Leaf, InsideIn
<1>3. Frames'
  BY DEF IInv, Frames, Kept, Reads, Live1, Leaf
<1>4. Keys'
  <2>1. /\ call.taken \in 0 .. taken /\ taken \in Nat
        /\ taken' \in Nat /\ taken <= taken'
        /\ kbdr \in Nat /\ kbdr' \in Nat /\ kbdr <= kbdr' /\ kbdr' <= taken'
    BY ConsoleConstants DEF IInv, TypeOK, StreamKept, KeyboardKept
  <2>2. ASSUME NEW v, Fresh(v)
        PROVE  v \in call.taken + 1 .. taken'
    BY <2>1, <2>2 DEF Fresh
  <2>3. ASSUME last_KBSR_read \/ Fresh(kbdr)
        PROVE  last_KBSR_read' \/ kbdr' \in call.taken + 1 .. taken'
    BY <2>1, <2>3 DEF Fresh, KeyboardKept
  <2>4. /\ Fresh(kbdr)' <=> kbdr' \in call.taken + 1 .. taken'
        /\ Fresh(reg["R0"])' <=> reg["R0"] \in call.taken + 1 .. taken'
        /\ Fresh(slot["OS_R0"])' <=> slot["OS_R0"] \in call.taken + 1 .. taken'
    BY DEF Fresh
  <2>5. Fresh(reg["R0"]) => Fresh(reg["R0"])'
    BY <2>2, <2>4
  <2>6. Fresh(slot["OS_R0"]) => Fresh(slot["OS_R0"])'
    BY <2>2, <2>4
  <2>7. last_KBSR_read \/ Fresh(kbdr) => last_KBSR_read' \/ Fresh(kbdr)'
    BY <2>3, <2>4
  <2> HIDE DEF Fresh
  <2> QED
    BY <2>5, <2>6, <2>7 DEF IInv, Keys, Reads, Leaf, InsideIn
<1> QED
  BY <1>1, <1>2, <1>3, <1>4 DEF IInv

\* A step after which the program has no trap under way, or none that counts.
LEMMA Forgets ==
  ASSUME IInv, StreamKept, kbdr' \in 0 .. taken',
         last_KBSR_read' \in BOOLEAN, last_DSR_read' \in BOOLEAN,
         call' = NoCall, out' \in Seq(0 .. Byte - 1), at' \in Place,
         \/ UNCHANGED cpu
         \/ pc' = "user" /\ UNCHANGED <<reg, R7, slot, ret>>
         \/ Booted
  PROVE  IInv'
<1>1. call' \in [trap : Traps \cup {"none"}, reg : [General -> Word],
                 taken : 0 .. taken']
  <2>1. 0 \in 0 .. taken'
    BY ConsoleConstants DEF StreamKept
  <2> QED
    BY <2>1, WordFacts DEF NoCall
<1>2. TypeOK'
  <2>1. /\ pc' \in Label /\ reg' \in [General -> Word]
        /\ R7' \in Label \cup {Nowhere}
        /\ slot' \in [{"TOUT_R1", "OS_R0", "OS_R1", "OS_R2", "OS_R3"} -> Word]
        /\ ret' \in [{"TIN_R7", "OS_R7"} -> Label \cup {Nowhere}]
    <3>1. CASE UNCHANGED cpu
      BY <3>1 DEF IInv, TypeOK
    <3>2. CASE pc' = "user" /\ UNCHANGED <<reg, R7, slot, ret>>
      BY <3>2 DEF IInv, TypeOK, Label
    <3>3. CASE Booted
      BY <3>3, WordFacts DEF Booted, Label
    <3> QED
      BY <3>1, <3>2, <3>3
  <2> QED
    BY <1>1, <2>1 DEF TypeOK, StreamKept
<1>3. Returns'
  BY DEF IInv, Returns, Leaf, InsideIn, Booted
<1>4. call'.trap = "none"
  BY DEF NoCall
<1> QED
  BY <1>2, <1>3, <1>4 DEF IInv, Frames, Keys

(* The steps of the program.                                               *)
LEMMA UserSteps ==
  ASSUME IInv, UserStep
  PROVE  IInv'
<1>0. TypeOK /\ StreamKept /\ at \in Place
  <2>1. TypeOK /\ at \in Place
    BY DEF IInv, TypeOK
  <2>2. CASE UNCHANGED input
    BY <2>1, <2>2, StdioForward
  <2>3. CASE user_reads
    BY <2>1, <2>3, DeviceRead DEF user_reads
  <2> QED
    BY <2>1, <2>2, <2>3
    DEF UserStep, user_trap, user_writes, user_eof, WriteDDR
<1>1. ASSUME NEW trap \in Traps, NEW r \in UserRegs, user_trap(trap, r)
      PROVE  IInv'
  <2>1. TypeOK'
    <3>1. r \in [General -> Word] /\ trap \in Label
      BY ConsoleConstants DEF Label
    <3>2. taken' = taken /\ taken \in 0 .. taken
      BY <1>1, ConsoleConstants DEF IInv, TypeOK, user_trap
    <3>3. call' \in [trap : Traps \cup {"none"}, reg : [General -> Word],
                     taken : 0 .. taken']
      BY <1>1, <3>1, <3>2 DEF user_trap
    <3>4. out' \in Seq(0 .. Byte - 1)
      BY <1>1 DEF user_trap
    <3> QED
      BY <1>1, <3>1, <3>3, <3>4 DEF IInv, TypeOK, user_trap, Label
  <2>2. Returns'
    BY <1>1 DEF user_trap, Returns, Leaf, InsideIn, Traps
  <2>3. Frames'
    BY <1>1 DEF user_trap, Frames, Kept, Reads, Live1, Leaf, Traps
  <2>4. Keys'
    BY <1>1 DEF user_trap, Keys, Fresh, Reads, Leaf, InsideIn, Traps
  <2> QED
    BY <2>1, <2>2, <2>3, <2>4 DEF IInv
<1>2. CASE user_reads
  <2>1. KeyboardKept
    BY <1>0, <1>2, DeviceRead DEF user_reads
  <2>2. out' \in Seq(0 .. Byte - 1) /\ at' \in Place
    BY <1>0, <1>2 DEF user_reads
  <2> QED
    BY <1>0, <1>2, <2>1, <2>2, Forgets DEF user_reads, KeyboardKept
<1>3. CASE user_writes
  <2>1. Linefeed % Byte \in 0 .. Byte - 1
    BY WordFacts, WordOps
  <2>4. << >> \in Seq(0 .. Byte - 1)
    OBVIOUS
  <2>5. Append(<< >>, Linefeed % Byte) \in Seq(0 .. Byte - 1)
    BY <2>1, <2>4
  <2>2. out' \in Seq(0 .. Byte - 1)
    BY <1>3, <2>4, <2>5 DEF user_writes, WriteDDR
  <2>3. /\ kbdr' \in 0 .. taken' /\ last_KBSR_read' \in BOOLEAN
        /\ last_DSR_read' \in BOOLEAN /\ at' \in Place
    BY <1>0, <1>3 DEF user_writes, WriteDDR, TypeOK
  <2> QED
    BY <1>0, <1>3, <2>2, <2>3, Forgets DEF user_writes
<1>4. CASE user_eof
  <2>1. KeyboardKept
    BY <1>0, <1>4, KeyboardUnread DEF user_eof, TypeOK
  <2> QED
    BY <1>0, <1>4, <2>1, Beside DEF user_eof, Place
<1> QED
  BY <1>1, <1>2, <1>3, <1>4 DEF UserStep

(* The steps of the debugger that leave the LC-3 as it is.                 *)
LEMMA DebuggerBeside ==
  ASSUME IInv,
         \/ Stop \/ cmd_continue \/ flush_char \/ flush_done \/ cmd_list
         \/ list_device \/ list_eof \/ list_done \/ EndOfCommands \/ Type
  PROVE  IInv'
<1>1. TypeOK /\ at \in Place
  BY DEF IInv, TypeOK
<1>2. UNCHANGED <<cpu, call, out>> /\ at' \in Place
  BY <1>1
  DEF Stop, cmd_continue, flush_char, flush_done, cmd_list, list_device,
       list_eof, list_done, EndOfCommands, Type, Place
<1>3. StreamKept
  <2>1. /\ typed \in 0 .. MaxKeys /\ fetched \in 0 .. typed
        /\ taken \in 0 .. fetched /\ MaxKeys \in Nat
        /\ regular \in BOOLEAN /\ shared \in BOOLEAN
    BY <1>1, ConsoleConstants DEF TypeOK
  <2>2. CASE Type
    BY <2>1, <2>2 DEF Type, StreamKept
  <2>3. CASE typed' = fetched /\ UNCHANGED <<regular, shared, fetched, taken>>
    BY <2>1, <2>3 DEF StreamKept
  <2>4. CASE list_device
    BY <1>1, <2>4, DeviceRead DEF list_device
  <2>5. CASE UNCHANGED input \/ fgets \/ fgetc
    BY <1>1, <2>5, StdioForward
  <2> QED
    BY <2>2, <2>3, <2>4, <2>5 DEF Stop, cmd_continue, flush_char, flush_done,
       cmd_list, list_eof, list_done, EndOfCommands
<1>4. KeyboardKept
  <2>1. CASE list_device
    BY <1>1, <2>1, DeviceRead DEF list_device
  <2>2. CASE UNCHANGED device
    BY <1>1, <1>3, <2>2, KeyboardUnread DEF TypeOK
  <2> QED
    BY <2>1, <2>2 DEF Stop, cmd_continue, flush_char, flush_done, cmd_list,
       list_eof, list_done, EndOfCommands, Type
<1> QED
  BY <1>2, <1>3, <1>4, Beside

(* The commands that set the LC-3's state.                                 *)
LEMMA DebuggerSets ==
  ASSUME IInv, cmd_memory \/ cmd_file \/ cmd_reset
  PROVE  IInv'
<1>1. TypeOK /\ StreamKept
  <2>1. TypeOK /\ fgets
    BY DEF IInv, cmd_memory, cmd_file, cmd_reset
  <2> QED
    BY <2>1, StdioForward
<1>2. kbdr \in 0 .. taken' /\ 0 \in 0 .. taken'
  BY <1>1, ConsoleConstants DEF TypeOK, StreamKept
<1>3. << >> \in Seq(0 .. Byte - 1) /\ "prompt" \in Place /\ "running" \in Place
  BY DEF Place
<1>4. CASE cmd_memory
  BY <1>1, <1>2, <1>3, <1>4, Forgets DEF cmd_memory, TypeOK
<1>5. CASE cmd_file
  BY <1>1, <1>2, <1>5, Forgets DEF cmd_file, TypeOK
<1>6. CASE cmd_reset
  <2>1. Booted
    BY <1>6 DEF cmd_reset
  <2>2. /\ kbdr' \in 0 .. taken' /\ last_KBSR_read' \in BOOLEAN
        /\ last_DSR_read' \in BOOLEAN /\ call' = NoCall
        /\ out' \in Seq(0 .. Byte - 1) /\ at' \in Place
    BY <2>1, <1>2, <1>3 DEF Booted
  <2> QED
    BY <1>1, <2>1, <2>2, Forgets
<1> QED
  BY <1>4, <1>5, <1>6

----------------------------------------------------------------------------
(* IInv is inductive.                                                      *)
LEMMA ConsoleInductive == Spec => []IInv
<1>1. Init => IInv
  <2> SUFFICES ASSUME Init
               PROVE  IInv
    OBVIOUS
  <2>1. /\ typed \in 0 .. MaxKeys /\ fetched \in 0 .. typed
        /\ taken \in 0 .. fetched /\ kbdr \in 0 .. taken
    BY ConsoleConstants DEF Init
  <2>2. call \in [trap : Traps \cup {"none"}, reg : [General -> Word],
                 taken : 0 .. taken]
    BY <2>1, WordFacts DEF Init, NoCall
  <2>6. /\ reg \in [General -> Word] /\ pc \in Label /\ at \in Place
        /\ slot \in [{"TOUT_R1", "OS_R0", "OS_R1", "OS_R2", "OS_R3"} -> Word]
    BY WordFacts DEF Init, Label, Place
  <2>7. ret \in [{"TIN_R7", "OS_R7"} -> Label \cup {Nowhere}]
    BY DEF Init
  <2>8. out \in Seq(0 .. Byte - 1) /\ R7 \in Label \cup {Nowhere}
    BY DEF Init
  <2>3. TypeOK
    BY <2>1, <2>2, <2>6, <2>7, <2>8 DEF Init, TypeOK
  <2>4. Returns
    BY DEF Init, Returns, Leaf, InsideIn
  <2>5. Frames /\ Keys
    BY DEF Init, Frames, Keys, NoCall
  <2> QED
    BY <2>3, <2>4, <2>5 DEF IInv
<1>2. IInv /\ [Next]_vars => IInv'
  <2> SUFFICES ASSUME IInv, [Next]_vars
               PROVE  IInv'
    OBVIOUS
  <2>1. CASE OsStep
    BY <2>1, PutsSteps, InSteps, PutspSteps, OutSteps, GetcSteps, MessageSteps
    DEF OsStep
  <2>2. CASE UserStep
    BY <2>2, UserSteps
  <2>3. CASE Debugger \/ Type
    BY <2>3, DebuggerBeside, DebuggerSets DEF Debugger
  <2>4. CASE UNCHANGED vars
    <3>1. UNCHANGED <<cpu, call, out>> /\ at' \in Place
      BY <2>4 DEF vars, IInv, TypeOK
    <3>2. TypeOK /\ StreamKept
      BY <2>4, StdioForward DEF vars, IInv
    <3>3. KeyboardKept
      BY <2>4, <3>2, KeyboardUnread DEF vars, TypeOK
    <3> QED
      BY <3>1, <3>2, <3>3, Beside
  <2> QED
    BY <2>1, <2>2, <2>3, <2>4 DEF Next
<1> QED
  BY <1>1, <1>2, PTL DEF Spec

(* Types, with the order of the three counters of the input stream: what   *)
(* stdio has read lies between what was taken and what was typed.          *)
THEOREM ConsoleTypeCorrect == Spec => []TypeOK
  BY ConsoleInductive, PTL DEF IInv

(* Every trap gives the program its registers back, whatever the program,  *)
(* the debugger and the input do: no routine overwrites a word in which an *)
(* outer one saved something it still needs.                               *)
THEOREM RegistersAlwaysKept == Spec => []RegistersKept
<1>1. IInv => RegistersKept
  BY DEF IInv, Frames, Kept, Reads, Leaf, Live1, RegistersKept, Returned,
         General
<1> QED
  BY <1>1, ConsoleInductive, PTL

(* GETC and IN never return an old character.                              *)
THEOREM KeysAlwaysFresh == Spec => []FreshKey
<1>1. IInv => FreshKey
  BY DEF IInv, Keys, Fresh, Reads, FreshKey, Returned
<1> QED
  BY <1>1, ConsoleInductive, PTL

----------------------------------------------------------------------------
(***************************************************************************)
(* What is displayed.  While a trap the program called is under way, the   *)
(* characters displayed are a prefix of the text it promised, and the      *)
(* registers hold the place where it goes on, or the character that OUT    *)
(* was called to add.                                                      *)
(***************************************************************************)
WordAt(a, n) == Mem[(a + n) % (Byte * Byte)]
PlaceOf(a, n) == (a + n) % (Byte * Byte)

\* The first n characters at address a, of one per word and of two.
Text(a, n) == [i \in 1 .. n |-> Mem[(a + i - 1) % (Byte * Byte)] % Byte]
PackedText(a, n) == [i \in 1 .. n |-> PackedByte(a, i)]

\* None of them ends the string.
GoesOn(a, n) == \A k \in 0 .. n - 1 : Mem[(a + k) % (Byte * Byte)] # 0
PackedGoesOn(a, n) == \A k \in 1 .. n : PackedByte(a, k) # 0

\* The string that PUTS was called with by the program or by IN.
Source == IF ret["OS_R7"] = "user" THEN call.reg["R0"] ELSE InMsg

(* The routine that runs is the one that was called, or one it calls.      *)
Within ==
  call.trap # "none" =>
    /\ pc = "user" => call.trap \in {"getc", "out", "puts", "in", "putsp"}
    /\ pc \in GetcBody /\ R7 = "user" => call.trap = "getc"
    /\ pc \in OutBody /\ R7 = "user" => call.trap = "out"
    /\ pc = "puts" /\ R7 = "user" => call.trap = "puts"
    /\ Leaf \in PutsBody /\ ret["OS_R7"] = "user" => call.trap = "puts"
    /\ pc = "putsp" \/ Leaf \in PutspBody => call.trap = "putsp"

(* Nothing is displayed before a routine starts to, and OUT writes only    *)
(* after it has seen the display ready.                                    *)
ShownFirst ==
  call.trap # "none" =>
    /\ pc = "out_write" => last_DSR_read
    /\ pc \in GetcBody \cup OutBody \cup {"puts", "in", "putsp"} /\ R7 = "user"
         => out = << >>
    /\ pc = "puts" /\ R7 = "in_getc" => out = << >> /\ reg["R0"] = InMsg

\* n characters are displayed and the next one is at address p.
PutsShown(n, p) ==
  out = Text(Source, n) /\ GoesOn(Source, n) /\ p = PlaceOf(Source, n)

ShownPuts ==
  call.trap # "none" /\ ret["OS_R7"] \in {"user", "in_getc"} =>
    /\ pc = "puts_loop" => \E n \in Nat : PutsShown(n, reg["R1"])
    /\ pc \in OutBody /\ R7 = "puts_next" =>
         \E n \in Nat : /\ PutsShown(n, Live1)
                        /\ reg["R0"] = WordAt(Source, n) /\ reg["R0"] # 0
    /\ pc = "puts_next" =>
         \E n \in Nat : /\ reg["R1"] = PlaceOf(Source, n)
                        /\ out = Text(Source, n + 1) /\ GoesOn(Source, n + 1)
    /\ pc = "puts_done" => out = String(Source)

\* n characters are displayed and the m-th word, at address p, comes next.
PutspShown(n, m, p) ==
  /\ out = PackedText(call.reg["R0"], n) /\ PackedGoesOn(call.reg["R0"], n)
  /\ p = PlaceOf(call.reg["R0"], m)

ShownPutsp ==
  call.trap # "none" =>
    /\ pc = "putsp_loop" => \E n \in Nat : PutspShown(2 * n, n, reg["R1"])
    /\ pc \in OutBody /\ R7 = "putsp_high" =>
         \E n \in Nat : /\ PutspShown(2 * n, n, Live1)
                        /\ reg["R2"] = WordAt(call.reg["R0"], n)
                        /\ reg["R0"] = reg["R2"] % Byte /\ reg["R0"] # 0
    /\ pc = "putsp_high" =>
         \E n \in Nat : /\ PutspShown(2 * n + 1, n, reg["R1"])
                        /\ reg["R2"] = WordAt(call.reg["R0"], n)
    /\ pc \in OutBody /\ R7 = "putsp_next" =>
         \E n \in Nat : /\ PutspShown(2 * n + 1, n, Live1)
                        /\ reg["R0"] = WordAt(call.reg["R0"], n) \div Byte
                        /\ reg["R0"] # 0
    /\ pc = "putsp_next" => \E n \in Nat : PutspShown(2 * n + 2, n, reg["R1"])
    /\ pc = "putsp_done" => out = PackedString(call.reg["R0"])

ShownIn ==
  call.trap # "none" =>
    /\ Leaf \in InBody => String(InMsg) \in Seq(0 .. Byte - 1)
    /\ Leaf \in {"in_getc", "in_echo"} => out = String(InMsg)
    /\ pc \in OutBody /\ R7 = "in_lf" => out = String(InMsg)
    /\ pc = "in_lf" => out = Append(String(InMsg), reg["R0"] % Byte)
    /\ pc \in OutBody /\ R7 = "in_done" =>
         out = Append(String(InMsg), slot["OS_R0"] % Byte) /\ reg["R0"] = Linefeed
    /\ pc = "in_done" =>
         out = Append(Append(String(InMsg), slot["OS_R0"] % Byte), Linefeed)

Shown == Within /\ ShownFirst /\ ShownPuts /\ ShownPutsp /\ ShownIn
           /\ DisplayedExactly

(* Division with remainder has one result, for any divisor.                *)
LEMMA ModUnique ==
  ASSUME NEW s \in Nat, s > 0, NEW x \in Nat, NEW q \in Nat,
         NEW r \in 0 .. s - 1, x = s * q + r
  PROVE  x % s = r
<1> DEFINE p == x \div s
           t == x % s
<1>1. p \in Int /\ t \in 0 .. s - 1 /\ x = s * p + t
  OBVIOUS
<1> HIDE DEF p, t
<1>2. CASE p > q
  <2>1. PICK d \in Nat : p = q + 1 + d
    <3>1. p - q - 1 \in Nat /\ p = q + 1 + (p - q - 1)
      BY <1>1, <1>2
    <3> QED BY <3>1
  <2>2. s * p = s * q + s + s * d
    BY <2>1
  <2>3. s * d \in Nat /\ s * q \in Nat
    OBVIOUS
  <2>4. x >= s * q + s
    BY <1>1, <2>2, <2>3
  <2> QED BY <2>4, <2>3
<1>3. CASE p < q
  <2>1. PICK d \in Nat : q = p + 1 + d
    <3>1. q - p - 1 \in Nat /\ q = p + 1 + (q - p - 1)
      BY <1>1, <1>3
    <3> QED BY <3>1
  <2>2. s * q = s * p + s + s * d
    BY <2>1, <1>1
  <2>3. s * d \in Nat /\ s * p \in Int
    BY <1>1
  <2> QED BY <1>1, <2>2, <2>3
<1>4. CASE p = q
  <2>1. s * p = s * q
    BY <1>4
  <2>2. s * p \in Int /\ s * q \in Int
    BY <1>1
  <2> QED BY <2>1, <2>2, <1>1 DEF t
<1> QED BY <1>1, <1>2, <1>3, <1>4

(* Counting on, and going round, in words of any size.                     *)
LEMMA ModStep ==
  ASSUME NEW s \in Nat, s > 0, NEW x \in Nat
  PROVE  /\ ((x % s) + 1) % s = (x + 1) % s
         /\ (x + s) % s = x % s
<1> DEFINE p == x \div s
           t == x % s
<1>1. p \in Nat /\ t \in 0 .. s - 1 /\ x = s * p + t
  OBVIOUS
<1> HIDE DEF p, t
<1>0. s * (p + 1) = s * p + s /\ s * p \in Nat
  BY <1>1
<1>2. ASSUME t + 1 < s PROVE (t + 1) % s = (x + 1) % s
  <2>1. x + 1 = s * p + (t + 1)
    BY <1>1
  <2>2. (x + 1) % s = t + 1
    BY <2>1, <1>1, <1>2, ModUnique
  <2>3. t + 1 = s * 0 + (t + 1)
    BY <1>1
  <2>4. (t + 1) % s = t + 1
    BY <2>3, <1>1, <1>2, ModUnique
  <2> QED BY <2>2, <2>4
<1>3. ASSUME t + 1 = s PROVE (t + 1) % s = (x + 1) % s
  <2>1. x + 1 = s * (p + 1) + 0
    BY <1>0, <1>1, <1>3
  <2>2. (x + 1) % s = 0
    BY <2>1, <1>1, <1>3, ModUnique
  <2>3. t + 1 = s * 1 + 0
    BY <1>1, <1>3
  <2>4. (t + 1) % s = 0
    BY <2>3, <1>1, <1>3, ModUnique
  <2> QED BY <2>2, <2>4
<1>4. x + s = s * (p + 1) + t
  BY <1>0, <1>1
<1>5. (x + s) % s = t
  BY <1>1, <1>4, ModUnique
<1>6. (t + 1) % s = (x + 1) % s
  BY <1>1, <1>2, <1>3
<1> QED BY <1>5, <1>6 DEF t

(* Places in the string at address a: the next one, and the way round.     *)
LEMMA Places ==
  ASSUME NEW a \in Word, NEW n \in Nat
  PROVE  /\ PlaceOf(a, n) \in Word /\ PlaceOf(a, 0) = a
         /\ Mem[PlaceOf(a, n)] = WordAt(a, n) /\ WordAt(a, n) \in Word
         /\ Next1(PlaceOf(a, n)) = PlaceOf(a, n + 1)
         /\ WordAt(a, n + Byte * Byte) = WordAt(a, n)
<1> DEFINE size == Byte * Byte
<1>0. Byte * Byte \in Nat /\ Byte * Byte > Byte /\ Byte \in Nat
      /\ Mem \in [Word -> Word]
  BY WordFacts, ConsoleConstants
<1>1. size \in Nat /\ size > 0 /\ Word = 0 .. size - 1 /\ Mem \in [Word -> Word]
  BY <1>0 DEF Word
<1>2. /\ PlaceOf(a, n) = (a + n) % size /\ WordAt(a, n) = Mem[(a + n) % size]
      /\ PlaceOf(a, n + 1) = (a + (n + 1)) % size
      /\ Next1(PlaceOf(a, n)) = (((a + n) % size) + 1) % size
      /\ WordAt(a, n + Byte * Byte) = Mem[(a + (n + size)) % size]
      /\ PlaceOf(a, 0) = (a + 0) % size
  BY DEF PlaceOf, WordAt, Next1
<1> HIDE DEF size
<1>3. a \in Nat /\ a + n \in Nat /\ a < size
  BY <1>1
<1>4. (a + n) % size \in Word
  BY <1>1, <1>3
<1>5. /\ (((a + n) % size) + 1) % size = (a + n + 1) % size
      /\ (a + n + size) % size = (a + n) % size
  BY <1>1, <1>3, ModStep
<1>6. a + (n + 1) = a + n + 1 /\ a + (n + size) = a + n + size
  BY <1>1, <1>3
<1>7. (a + 0) % size = a
  <2>1. a + 0 = size * 0 + a /\ a \in 0 .. size - 1 /\ a + 0 \in Nat
    BY <1>1, <1>3
  <2> QED
    BY <2>1, <1>1, ModUnique
<1> QED
  BY <1>1, <1>2, <1>4, <1>5, <1>6, <1>7 DEF size

(* A text grows by the character at its end.                               *)
LEMMA TextGrows ==
  ASSUME NEW a \in Word, NEW n \in Nat
  PROVE  /\ Text(a, 0) = << >> /\ GoesOn(a, 0)
         /\ Append(Text(a, n), WordAt(a, n) % Byte) = Text(a, n + 1)
         /\ GoesOn(a, n) /\ WordAt(a, n) # 0 => GoesOn(a, n + 1)
<1> DEFINE f(i) == Mem[(a + i - 1) % (Byte * Byte)] % Byte
<1>1. Text(a, 0) = << >> /\ GoesOn(a, 0)
  BY DEF Text, GoesOn
<1>2. WordAt(a, n) % Byte = f(n + 1)
  <2>1. a + (n + 1) - 1 = a + n
    BY DEF Word
  <2> QED
    BY <2>1 DEF WordAt
<1>3. Text(a, n) = [i \in 1 .. n |-> f(i)]
      /\ Text(a, n + 1) = [i \in 1 .. n + 1 |-> f(i)]
  BY DEF Text
<1> HIDE DEF f
<1>4. Append([i \in 1 .. n |-> f(i)], f(n + 1)) = [i \in 1 .. n + 1 |-> f(i)]
  OBVIOUS
<1>5. GoesOn(a, n) /\ WordAt(a, n) # 0 => GoesOn(a, n + 1)
  BY DEF GoesOn, WordAt
<1> QED
  BY <1>1, <1>2, <1>3, <1>4, <1>5

(* A text that ends at a zero word is the whole string.                    *)
LEMMA TextEnds ==
  ASSUME NEW a \in Word, NEW n \in Nat, GoesOn(a, n), WordAt(a, n) = 0
  PROVE  String(a) = Text(a, n)
<1> DEFINE Nul(k) == Mem[(a + k) % (Byte * Byte)] = 0
           Ends(k) == Nul(k) /\ \A j \in 0 .. k - 1 : ~Nul(j)
           len == CHOOSE k \in Word : Ends(k)
<1>1. String(a) = Text(a, len)
  BY DEF String, Text
<1>2. Byte * Byte \in Nat
  BY WordFacts
<1>3. n \in Word
  <2>1. SUFFICES ASSUME n >= Byte * Byte PROVE FALSE
    BY <1>2 DEF Word
  <2>2. PICK m \in Nat : n = m + Byte * Byte
    <3>1. n - Byte * Byte \in Nat /\ n = (n - Byte * Byte) + Byte * Byte
      BY <1>2, <2>1
    <3> QED  BY <3>1
  <2>3. WordAt(a, m) = 0
    BY <2>2, Places
  <2>4. m \in 0 .. n - 1
    BY <1>2, <2>2, WordFacts, ConsoleConstants
  <2> QED
    BY <2>3, <2>4 DEF GoesOn, WordAt
<1>4. Ends(n)
  BY DEF GoesOn, WordAt
<1>5. ASSUME NEW k \in Word, Ends(k) PROVE k = n
  <2>1. k \in Nat
    BY <1>2 DEF Word
  <2>2. ~(k < n)
    BY <1>4, <1>5, <2>1
  <2>3. ~(n < k)
    BY <1>4, <1>5, <2>1
  <2> QED
    BY <2>1, <2>2, <2>3
<1>6. len \in Word /\ Ends(len)
  BY <1>3, <1>4
<1>7. len = n
  BY <1>5, <1>6
<1> QED
  BY <1>1, <1>7

(* The two bytes of word n are characters 2n + 1 and 2n + 2.               *)
LEMMA Bytes ==
  ASSUME NEW a \in Word, NEW n \in Nat
  PROVE  /\ PackedByte(a, 2 * n + 1) = WordAt(a, n) % Byte
         /\ PackedByte(a, 2 * n + 2) = WordAt(a, n) \div Byte
<1>1. /\ ((2 * n + 1) - 1) \div 2 = n /\ (2 * n + 1) % 2 = 1
      /\ ((2 * n + 2) - 1) \div 2 = n /\ (2 * n + 2) % 2 = 0
  OBVIOUS
<1> QED
  BY <1>1 DEF PackedByte, WordAt

(* A packed text grows by the byte at its end.                             *)
LEMMA PackedGrows ==
  ASSUME NEW a \in Word, NEW n \in Nat
  PROVE  /\ PackedText(a, 0) = << >> /\ PackedGoesOn(a, 0)
         /\ Append(PackedText(a, n), PackedByte(a, n + 1)) = PackedText(a, n + 1)
         /\ PackedGoesOn(a, n) /\ PackedByte(a, n + 1) # 0 =>
              PackedGoesOn(a, n + 1)
<1> DEFINE f(i) == PackedByte(a, i)
<1>1. PackedText(a, 0) = << >> /\ PackedGoesOn(a, 0)
  BY DEF PackedText, PackedGoesOn
<1>2. PackedText(a, n) = [i \in 1 .. n |-> f(i)]
      /\ PackedText(a, n + 1) = [i \in 1 .. n + 1 |-> f(i)]
  BY DEF PackedText
<1>3. PackedGoesOn(a, n) /\ f(n + 1) # 0 => PackedGoesOn(a, n + 1)
  BY DEF PackedGoesOn
<1> HIDE DEF f
<1>4. Append([i \in 1 .. n |-> f(i)], f(n + 1)) = [i \in 1 .. n + 1 |-> f(i)]
  OBVIOUS
<1> QED
  BY <1>1, <1>2, <1>3, <1>4 DEF f

(* A packed text that ends at a zero byte is the whole packed string.      *)
LEMMA PackedEnds ==
  ASSUME NEW a \in Word, NEW n \in Nat, PackedGoesOn(a, n),
         PackedByte(a, n + 1) = 0
  PROVE  PackedString(a) = PackedText(a, n)
<1> DEFINE Ends(k) == PackedByte(a, k + 1) = 0
                        /\ \A j \in 1 .. k : PackedByte(a, j) # 0
           len == CHOOSE k \in 0 .. 2 * Byte * Byte : Ends(k)
<1>1. PackedString(a) = PackedText(a, len)
  BY DEF PackedString, PackedText
<1>2. /\ Byte * Byte \in Nat /\ Byte * Byte > 0
      /\ 2 * Byte * Byte = 2 * (Byte * Byte)
  BY WordFacts, ConsoleConstants
<1>3. n \in 0 .. 2 * Byte * Byte
  <2>1. SUFFICES ASSUME n > 2 * (Byte * Byte) PROVE FALSE
    BY <1>2
  <2> DEFINE size == Byte * Byte
  <2>2. size \in Nat /\ size > 0 /\ n > 2 * size
    BY <1>2, <2>1
  <2>3. \A m \in Nat : WordAt(a, m + size) = WordAt(a, m)
    BY Places
  <2> HIDE DEF size
  <2>4. PICK m \in Nat : n + 1 = 2 * m + 1 \/ n + 1 = 2 * m + 2
    <3>1. n \div 2 \in Nat
          /\ (n + 1 = 2 * (n \div 2) + 1 \/ n + 1 = 2 * (n \div 2) + 2)
      OBVIOUS
    <3> QED  BY <3>1
  <2>5. m - size \in Nat /\ m = (m - size) + size
    BY <2>2, <2>4
  <2>6. WordAt(a, m) = WordAt(a, m - size)
    BY <2>3, <2>5
  <2>7. CASE n + 1 = 2 * m + 1
    <3>1. PackedByte(a, 2 * (m - size) + 1) = 0
      BY <2>5, <2>6, <2>7, Bytes
    <3>2. 2 * (m - size) + 1 \in 1 .. n
      BY <2>2, <2>5, <2>7
    <3> QED
      BY <3>1, <3>2 DEF PackedGoesOn
  <2>8. CASE n + 1 = 2 * m + 2
    <3>1. PackedByte(a, 2 * (m - size) + 2) = 0
      BY <2>5, <2>6, <2>8, Bytes
    <3>2. 2 * (m - size) + 2 \in 1 .. n
      BY <2>2, <2>5, <2>8
    <3> QED
      BY <3>1, <3>2 DEF PackedGoesOn
  <2> QED
    BY <2>4, <2>7, <2>8
<1>4. Ends(n)
  BY DEF PackedGoesOn
<1>5. ASSUME NEW k \in 0 .. 2 * Byte * Byte, Ends(k) PROVE k = n
  <2>1. k \in Nat
    BY <1>2
  <2>2. ~(k < n)
    BY <1>4, <1>5, <2>1
  <2>3. ~(n < k)
    BY <1>4, <1>5, <2>1
  <2> QED
    BY <2>1, <2>2, <2>3
<1>6. len \in 0 .. 2 * Byte * Byte /\ Ends(len)
  BY <1>3, <1>4
<1>7. len = n
  BY <1>5, <1>6
<1> QED
  BY <1>1, <1>7

----------------------------------------------------------------------------
(* Every step keeps what is displayed a prefix of what was promised.       *)

\* What the steps need to know of the types.
ShowTypes ==
  /\ reg \in [General -> Word] /\ call.reg \in [General -> Word]
  /\ slot \in [{"TOUT_R1", "OS_R0", "OS_R1", "OS_R2", "OS_R3"} -> Word]
  /\ ret \in [{"TIN_R7", "OS_R7"} -> Label \cup {Nowhere}]
  /\ Source \in Word /\ InMsg \in Word /\ call.reg["R0"] \in Word

(* The types follow from the invariant.                                    *)
LEMMA ShowTyped == IInv => ShowTypes
  BY ConsoleConstants DEF IInv, TypeOK, ShowTypes, Source, General

(* PUTS starts with nothing displayed.                                     *)
LEMMA ShowPutsEntry ==
  ASSUME IInv, Shown, puts_entry
  PROVE  Shown'
<1> SUFFICES ASSUME call.trap # "none" PROVE Shown'
  BY DEF puts_entry, Shown, Within, ShownFirst, ShownPuts, ShownPutsp, ShownIn,
         DisplayedExactly, Returned
<1>1. ShowTypes /\ Returns
  BY ShowTyped DEF IInv
<1>2. /\ pc = "puts" /\ pc' = "puts_loop" /\ UNCHANGED <<call, out>>
      /\ ret'["OS_R7"] = R7 /\ reg'["R1"] = reg["R0"]
      /\ R7 \in PutsCallers
  BY <1>1 DEF puts_entry, ShowTypes, General, Returns
<1>3. Leaf' = "puts_loop"
  BY <1>2 DEF Leaf
<1>4. Within'
  BY <1>2, <1>3 DEF Shown, Within
<1>5. ShownFirst' /\ ShownPutsp' /\ ShownIn' /\ DisplayedExactly'
  BY <1>2, <1>3 DEF ShownFirst, ShownPutsp, ShownIn, DisplayedExactly, Returned
<1>6. ShownPuts'
  <2>1. SUFFICES ASSUME R7 \in {"user", "in_getc"}
                 PROVE  PutsShown(0, reg["R1"])'
    BY <1>2 DEF ShownPuts
  <2>2. out = << >> /\ reg["R0"] = Source'
    BY <1>2, <2>1 DEF Shown, ShownFirst, Source, IInv, Frames, Kept
  <2>3. Source' \in Word
    BY <1>1, <2>2 DEF ShowTypes, General
  <2>4. out = Text(Source', 0) /\ GoesOn(Source', 0) /\ PlaceOf(Source', 0) = Source'
    BY <2>2, <2>3, TextGrows, Places
  <2> QED
    BY <1>2, <2>2, <2>4 DEF PutsShown, Text, GoesOn, PlaceOf
<1> QED
  BY <1>4, <1>5, <1>6 DEF Shown

(* PUTS looks at the next word, and calls OUT or ends.                     *)
LEMMA ShowPutsLoop ==
  ASSUME IInv, Shown, puts_loop
  PROVE  Shown'
<1> SUFFICES ASSUME call.trap # "none" PROVE Shown'
  BY DEF puts_loop, Shown, Within, ShownFirst, ShownPuts, ShownPutsp, ShownIn,
         DisplayedExactly, Returned
<1>1. ShowTypes
  BY ShowTyped
<1>2. /\ pc = "puts_loop" /\ Leaf = "puts_loop"
      /\ UNCHANGED <<call, out, ret, slot, last_DSR_read>>
      /\ reg'["R1"] = reg["R1"] /\ reg'["R0"] = Mem[reg["R1"]]
      /\ \/ Mem[reg["R1"]] = 0 /\ pc' = "puts_done"
         \/ Mem[reg["R1"]] # 0 /\ pc' = "out" /\ R7' = "puts_next"
  BY <1>1 DEF puts_loop, ShowTypes, General, Leaf
<1>3. Leaf' \in {"puts_done", "puts_next"} /\ Source' = Source
  BY <1>2 DEF Leaf, Source
<1>4. Within'
  BY <1>2, <1>3 DEF Shown, Within
<1>5. ShownFirst' /\ ShownPutsp' /\ ShownIn' /\ DisplayedExactly'
  BY <1>2, <1>3 DEF ShownFirst, ShownPutsp, ShownIn, DisplayedExactly, Returned
<1>6. ShownPuts'
  <2>1. SUFFICES ASSUME ret["OS_R7"] \in {"user", "in_getc"}
                 PROVE  ShownPuts'
    BY <1>2 DEF ShownPuts
  <2>2. PICK n \in Nat : PutsShown(n, reg["R1"])
    BY <1>2, <2>1 DEF Shown, ShownPuts
  <2>3. Mem[reg["R1"]] = WordAt(Source, n)
    BY <2>2, <1>1, Places DEF PutsShown, ShowTypes
  <2>4. CASE pc' = "puts_done"
    <3>1. String(Source) = Text(Source, n)
      BY <1>1, <1>2, <2>2, <2>3, <2>4, TextEnds DEF PutsShown, ShowTypes
    <3> QED
      BY <1>2, <1>3, <2>2, <2>4, <3>1 DEF ShownPuts, PutsShown
  <2>5. CASE pc' = "out"
    <3>1. PutsShown(n, Live1)' /\ (reg["R0"] = WordAt(Source, n))' /\ reg'["R0"] # 0
      BY <1>2, <1>3, <2>2, <2>3, <2>5
      DEF PutsShown, Live1, Text, GoesOn, PlaceOf, WordAt
    <3> QED
      BY <1>2, <2>5, <3>1 DEF ShownPuts
  <2> QED
    BY <1>2, <2>4, <2>5
<1> QED
  BY <1>4, <1>5, <1>6 DEF Shown

(* PUTS goes on to the next word.                                          *)
LEMMA ShowPutsNext ==
  ASSUME IInv, Shown, puts_next
  PROVE  Shown'
<1> SUFFICES ASSUME call.trap # "none" PROVE Shown'
  BY DEF puts_next, Shown, Within, ShownFirst, ShownPuts, ShownPutsp, ShownIn,
         DisplayedExactly, Returned
<1>1. ShowTypes
  BY ShowTyped
<1>2. /\ pc = "puts_next" /\ Leaf = "puts_next" /\ pc' = "puts_loop"
      /\ UNCHANGED <<call, out, ret>>
      /\ reg'["R1"] = Next1(reg["R1"])
  BY <1>1 DEF puts_next, ShowTypes, General, Leaf
<1>3. Leaf' = "puts_loop" /\ Source' = Source
  BY <1>2 DEF Leaf, Source
<1>4. Within'
  BY <1>2, <1>3 DEF Shown, Within
<1>5. ShownFirst' /\ ShownPutsp' /\ ShownIn' /\ DisplayedExactly'
  BY <1>2, <1>3 DEF ShownFirst, ShownPutsp, ShownIn, DisplayedExactly, Returned
<1>6. ShownPuts'
  <2>1. SUFFICES ASSUME ret["OS_R7"] \in {"user", "in_getc"}
                 PROVE  \E n \in Nat : PutsShown(n, reg["R1"])'
    BY <1>2 DEF ShownPuts
  <2>2. PICK n \in Nat : /\ reg["R1"] = PlaceOf(Source, n)
                         /\ out = Text(Source, n + 1) /\ GoesOn(Source, n + 1)
    BY <1>2, <2>1 DEF Shown, ShownPuts
  <2>3. reg'["R1"] = PlaceOf(Source, n + 1)
    BY <1>1, <1>2, <2>2, Places DEF ShowTypes
  <2>4. PutsShown(n + 1, reg["R1"])'
    BY <1>2, <1>3, <2>2, <2>3 DEF PutsShown, Text, GoesOn, PlaceOf
  <2> QED
    BY <2>4
<1> QED
  BY <1>4, <1>5, <1>6 DEF Shown

(* PUTS has displayed its string when it returns.                          *)
LEMMA ShowPutsDone ==
  ASSUME IInv, Shown, puts_done
  PROVE  Shown'
<1> SUFFICES ASSUME call.trap # "none" PROVE Shown'
  BY DEF puts_done, Shown, Within, ShownFirst, ShownPuts, ShownPutsp, ShownIn,
         DisplayedExactly, Returned
<1>1. ShowTypes /\ Returns
  BY ShowTyped DEF IInv
<1>2. /\ pc = "puts_done" /\ Leaf = "puts_done" /\ pc' = ret["OS_R7"]
      /\ UNCHANGED <<call, out, ret>> /\ ret["OS_R7"] \in PutsCallers
  BY <1>1 DEF puts_done, Leaf, Returns
<1>3. Leaf' = ret["OS_R7"] /\ Source' = Source
  BY <1>2 DEF Leaf, Source
<1>4. Within'
  BY <1>2, <1>3 DEF Shown, Within
<1>5. ShownFirst' /\ ShownPutsp' /\ ShownPuts'
  BY <1>2, <1>3 DEF ShownFirst, ShownPutsp, ShownPuts
<1>6. ret["OS_R7"] \in {"user", "in_getc"} => out = String(Source)
  BY <1>2 DEF Shown, ShownPuts
<1>7. ShownIn'
  <2>1. out \in Seq(0 .. Byte - 1)
    BY DEF IInv, TypeOK
  <2> QED
    BY <1>2, <1>3, <1>6, <2>1 DEF ShownIn, Source
<1>8. DisplayedExactly'
  BY <1>2, <1>6 DEF DisplayedExactly, Returned, Promised, Source, Shown, Within
<1> QED
  BY <1>4, <1>5, <1>7, <1>8 DEF Shown

(* Quotient and remainder.                                                 *)
LEMMA Division ==
  ASSUME NEW s \in Nat, s > 0, NEW x \in Nat
  PROVE  x = s * (x \div s) + (x % s) /\ x % s \in 0 .. s - 1
  OBVIOUS

(* Each byte of a word is a byte.                                          *)
LEMMA ByteCut ==
  ASSUME NEW w \in Word
  PROVE  (w % Byte) % Byte = w % Byte /\ (w \div Byte) % Byte = w \div Byte
<1>1. Byte \in Nat /\ Byte > 1
  BY ConsoleConstants
<1>2. \A r \in 0 .. Byte - 1 : r % Byte = r
  <2>1. \A r \in 0 .. Byte - 1 : r \in Nat /\ r = Byte * 0 + r
    BY <1>1
  <2> QED
    BY <1>1, <2>1, ModUnique
<1>3. w \div Byte \in 0 .. Byte - 1
  <2>1. w \in Nat /\ w < Byte * Byte /\ w \div Byte \in Nat
    BY <1>1, WordFacts DEF Word
  <2>2. w = Byte * (w \div Byte) + (w % Byte) /\ w % Byte \in 0 .. Byte - 1
    BY <1>1, <2>1, Division
  <2> DEFINE q == w \div Byte
  <2>3. q \in Nat /\ Byte * q <= w
    BY <1>1, <2>1, <2>2
  <2> HIDE DEF q
  <2>4. ASSUME q >= Byte PROVE FALSE
    <3>1. PICK d \in Nat : q = Byte + d
      <4>1. q - Byte \in Nat /\ q = Byte + (q - Byte)
        BY <1>1, <2>3, <2>4
      <4> QED  BY <4>1
    <3>2. Byte * q = Byte * Byte + Byte * d /\ Byte * d \in Nat
          /\ Byte * Byte \in Nat
      BY <1>1, <3>1
    <3> QED
      BY <2>1, <2>3, <3>2
  <2> QED
    BY <1>1, <2>3, <2>4 DEF q
<1>4. w % Byte \in 0 .. Byte - 1
  BY WordOps
<1> QED
  BY <1>2, <1>3, <1>4

(* PUTSP starts with nothing displayed.                                    *)
LEMMA ShowPutspEntry ==
  ASSUME IInv, Shown, putsp_entry
  PROVE  Shown'
<1> SUFFICES ASSUME call.trap # "none" PROVE Shown'
  BY DEF putsp_entry, Shown, Within, ShownFirst, ShownPuts, ShownPutsp, ShownIn,
         DisplayedExactly, Returned
<1>1. ShowTypes /\ Returns
  BY ShowTyped DEF IInv
<1>2. /\ pc = "putsp" /\ pc' = "putsp_loop" /\ UNCHANGED <<call, out>>
      /\ reg'["R1"] = reg["R0"] /\ R7 = "user"
  BY <1>1 DEF putsp_entry, ShowTypes, General, Returns
<1>3. Leaf' = "putsp_loop"
  BY <1>2 DEF Leaf
<1>4. Within'
  BY <1>2, <1>3 DEF Shown, Within
<1>5. ShownFirst' /\ ShownPuts' /\ ShownIn' /\ DisplayedExactly'
  BY <1>2, <1>3 DEF ShownFirst, ShownPuts, ShownIn, DisplayedExactly, Returned
<1>6. ShownPutsp'
  <2>1. out = << >> /\ reg["R0"] = call.reg["R0"] /\ call.reg["R0"] \in Word
    BY <1>1, <1>2 DEF Shown, ShownFirst, IInv, Frames, Kept, ShowTypes
  <2>2. /\ out = PackedText(call.reg["R0"], 0) /\ PackedGoesOn(call.reg["R0"], 0)
        /\ PlaceOf(call.reg["R0"], 0) = call.reg["R0"]
    BY <2>1, PackedGrows, Places
  <2>3. PutspShown(0, 0, reg["R1"])' /\ 2 * 0 = 0
    BY <1>2, <2>1, <2>2
    DEF PutspShown, PackedText, PackedGoesOn, PlaceOf, PackedByte
  <2> QED
    BY <1>2, <2>3 DEF ShownPutsp
<1> QED
  BY <1>4, <1>5, <1>6 DEF Shown

(* PUTSP looks at the low byte of the next word, and calls OUT or ends.    *)
LEMMA ShowPutspLoop ==
  ASSUME IInv, Shown, putsp_loop
  PROVE  Shown'
<1> SUFFICES ASSUME call.trap # "none" PROVE Shown'
  BY DEF putsp_loop, Shown, Within, ShownFirst, ShownPuts, ShownPutsp, ShownIn,
         DisplayedExactly, Returned
<1> DEFINE a == call.reg["R0"]
<1>1. ShowTypes /\ a \in Word
  BY ShowTyped DEF ShowTypes
<1>2. /\ pc = "putsp_loop" /\ Leaf = "putsp_loop"
      /\ UNCHANGED <<call, out, ret, slot, last_DSR_read>>
      /\ reg'["R1"] = reg["R1"] /\ reg'["R0"] = Mem[reg["R1"]] % Byte
      /\ reg'["R2"] = Mem[reg["R1"]]
      /\ \/ Mem[reg["R1"]] % Byte = 0 /\ pc' = "putsp_done"
         \/ Mem[reg["R1"]] % Byte # 0 /\ pc' = "out" /\ R7' = "putsp_high"
  BY <1>1 DEF putsp_loop, ShowTypes, General, Leaf
<1>3. Leaf' \in {"putsp_done", "putsp_high"}
  BY <1>2 DEF Leaf
<1>4. Within'
  BY <1>2, <1>3 DEF Shown, Within
<1>5. ShownFirst' /\ ShownPuts' /\ ShownIn' /\ DisplayedExactly'
  BY <1>2, <1>3 DEF ShownFirst, ShownPuts, ShownIn, DisplayedExactly, Returned
<1>6. ShownPutsp'
  <2>1. PICK n \in Nat : PutspShown(2 * n, n, reg["R1"])
    BY <1>2 DEF Shown, ShownPutsp
  <2>2. Mem[reg["R1"]] = WordAt(a, n)
    <3>1. reg["R1"] = PlaceOf(a, n)
      BY <2>1 DEF PutspShown
    <3> HIDE DEF a
    <3> QED
      BY <1>1, <3>1, Places
  <2>3. CASE pc' = "putsp_done"
    <3>1. PackedByte(a, 2 * n + 1) = 0
      BY <1>1, <1>2, <2>2, <2>3, Bytes
    <3>2. PackedString(a) = PackedText(a, 2 * n)
      BY <1>1, <2>1, <3>1, PackedEnds DEF PutspShown
    <3> QED
      BY <1>2, <2>1, <2>3, <3>2 DEF ShownPutsp, PutspShown
  <2>4. CASE pc' = "out"
    <3>1. /\ PutspShown(2 * n, n, Live1)' /\ (reg["R2"] = WordAt(a, n))'
          /\ (reg["R0"] = reg["R2"] % Byte)' /\ reg'["R0"] # 0
      BY <1>2, <2>1, <2>2, <2>4
      DEF PutspShown, Live1, PackedText, PackedGoesOn, PackedByte, PlaceOf, WordAt
    <3> QED
      BY <1>2, <2>4, <3>1 DEF ShownPutsp
  <2> QED
    BY <1>2, <2>3, <2>4
<1> QED
  BY <1>4, <1>5, <1>6 DEF Shown

(* PUTSP moves on to the high byte of the word.                            *)
LEMMA ShowPutspHigh ==
  ASSUME IInv, Shown, putsp_high
  PROVE  Shown'
<1> SUFFICES ASSUME call.trap # "none" PROVE Shown'
  BY DEF putsp_high, Shown, Within, ShownFirst, ShownPuts, ShownPutsp, ShownIn,
         DisplayedExactly, Returned
<1> DEFINE a == call.reg["R0"]
<1>1. ShowTypes /\ a \in Word
  BY ShowTyped DEF ShowTypes
<1>2. /\ pc = "putsp_high" /\ Leaf = "putsp_high"
      /\ UNCHANGED <<call, out, ret, slot, last_DSR_read>>
      /\ reg'["R1"] = reg["R1"] /\ reg'["R0"] = reg["R2"] \div Byte
      /\ \/ reg["R2"] \div Byte = 0 /\ pc' = "putsp_done"
         \/ reg["R2"] \div Byte # 0 /\ pc' = "out" /\ R7' = "putsp_next"
  BY <1>1 DEF putsp_high, ShowTypes, General, Leaf
<1>3. Leaf' \in {"putsp_done", "putsp_next"}
  BY <1>2 DEF Leaf
<1>4. Within'
  BY <1>2, <1>3 DEF Shown, Within
<1>5. ShownFirst' /\ ShownPuts' /\ ShownIn' /\ DisplayedExactly'
  BY <1>2, <1>3 DEF ShownFirst, ShownPuts, ShownIn, DisplayedExactly, Returned
<1>6. ShownPutsp'
  <2>1. PICK n \in Nat : /\ PutspShown(2 * n + 1, n, reg["R1"])
                         /\ reg["R2"] = WordAt(a, n)
    BY <1>2 DEF Shown, ShownPutsp
  <2>2. CASE pc' = "putsp_done"
    <3>1. PackedByte(a, 2 * n + 2) = 0 /\ 2 * n + 2 = (2 * n + 1) + 1
          /\ 2 * n + 1 \in Nat
      BY <1>1, <1>2, <2>1, <2>2, Bytes
    <3>2. PackedString(a) = PackedText(a, 2 * n + 1)
      BY <1>1, <2>1, <3>1, PackedEnds DEF PutspShown
    <3> QED
      BY <1>2, <2>1, <2>2, <3>2 DEF ShownPutsp, PutspShown
  <2>3. CASE pc' = "out"
    <3>1. /\ PutspShown(2 * n + 1, n, Live1)'
          /\ (reg["R0"] = WordAt(a, n) \div Byte)' /\ reg'["R0"] # 0
      BY <1>2, <2>1, <2>3
      DEF PutspShown, Live1, PackedText, PackedGoesOn, PackedByte, PlaceOf, WordAt
    <3> QED
      BY <1>2, <2>3, <3>1 DEF ShownPutsp
  <2> QED
    BY <1>2, <2>2, <2>3
<1> QED
  BY <1>4, <1>5, <1>6 DEF Shown

(* PUTSP goes on to the next word.                                         *)
LEMMA ShowPutspNext ==
  ASSUME IInv, Shown, putsp_next
  PROVE  Shown'
<1> SUFFICES ASSUME call.trap # "none" PROVE Shown'
  BY DEF putsp_next, Shown, Within, ShownFirst, ShownPuts, ShownPutsp, ShownIn,
         DisplayedExactly, Returned
<1> DEFINE a == call.reg["R0"]
<1>1. ShowTypes /\ a \in Word
  BY ShowTyped DEF ShowTypes
<1>2. /\ pc = "putsp_next" /\ Leaf = "putsp_next" /\ pc' = "putsp_loop"
      /\ UNCHANGED <<call, out, ret>>
      /\ reg'["R1"] = Next1(reg["R1"])
  BY <1>1 DEF putsp_next, ShowTypes, General, Leaf
<1>3. Leaf' = "putsp_loop"
  BY <1>2 DEF Leaf
<1>4. Within'
  BY <1>2, <1>3 DEF Shown, Within
<1>5. ShownFirst' /\ ShownPuts' /\ ShownIn' /\ DisplayedExactly'
  BY <1>2, <1>3 DEF ShownFirst, ShownPuts, ShownIn, DisplayedExactly, Returned
<1>6. ShownPutsp'
  <2>1. PICK n \in Nat : PutspShown(2 * n + 2, n, reg["R1"])
    BY <1>2 DEF Shown, ShownPutsp
  <2>2. reg'["R1"] = PlaceOf(a, n + 1) /\ 2 * (n + 1) = 2 * n + 2
    <3>1. reg["R1"] = PlaceOf(a, n)
      BY <2>1 DEF PutspShown
    <3> HIDE DEF a
    <3> QED
      BY <1>1, <1>2, <3>1, Places
  <2>3. PutspShown(2 * (n + 1), n + 1, reg["R1"])' /\ n + 1 \in Nat
    BY <1>2, <2>1, <2>2
    DEF PutspShown, PackedText, PackedGoesOn, PackedByte, PlaceOf
  <2> QED
    BY <1>2, <2>3 DEF ShownPutsp
<1> QED
  BY <1>4, <1>5, <1>6 DEF Shown

(* PUTSP has displayed its packed string when it returns.                  *)
LEMMA ShowPutspDone ==
  ASSUME IInv, Shown, putsp_done
  PROVE  Shown'
<1> SUFFICES ASSUME call.trap # "none" PROVE Shown'
  BY DEF putsp_done, Shown, Within, ShownFirst, ShownPuts, ShownPutsp, ShownIn,
         DisplayedExactly, Returned
<1>1. Returns
  BY DEF IInv
<1>2. /\ pc = "putsp_done" /\ Leaf = "putsp_done" /\ pc' = "user"
      /\ UNCHANGED <<call, out, ret>>
  BY <1>1 DEF putsp_done, Leaf, Returns
<1>3. Leaf' = "user"
  BY <1>2 DEF Leaf
<1>4. Within' /\ call.trap = "putsp"
  BY <1>2, <1>3 DEF Shown, Within
<1>5. ShownFirst' /\ ShownPuts' /\ ShownPutsp' /\ ShownIn'
  BY <1>2, <1>3 DEF ShownFirst, ShownPuts, ShownPutsp, ShownIn
<1>6. DisplayedExactly'
  BY <1>2, <1>4 DEF DisplayedExactly, Promised, Shown, ShownPutsp
<1> QED
  BY <1>4, <1>5, <1>6 DEF Shown

(* OUT's steps up to its store change nothing of what they are to display. *)
LEMMA ShowOutWaits ==
  ASSUME IInv, Shown, out_entry \/ out_wait(TRUE) \/ out_wait(FALSE)
  PROVE  Shown'
<1> SUFFICES ASSUME call.trap # "none" PROVE Shown'
  BY DEF out_entry, out_wait, Shown, Within, ShownFirst, ShownPuts, ShownPutsp,
         ShownIn, DisplayedExactly, Returned
<1>1. ShowTypes
  BY ShowTyped
<1>2. /\ pc \in OutBody /\ pc' \in {"out_wait", "out_write"}
      /\ UNCHANGED <<call, out, ret, R7>>
      /\ \A r \in {"R0", "R2", "R3"} : reg'[r] = reg[r]
      /\ slot'["OS_R0"] = slot["OS_R0"]
      /\ pc' = "out_write" => last_DSR_read'
  BY <1>1 DEF out_entry, out_wait, ReadDSR, ShowTypes, General
<1>3. Leaf' = Leaf /\ Leaf = R7 /\ Source' = Source
  BY <1>2 DEF Leaf, Source
<1>4. Live1' = Live1
  BY <1>1 DEF out_entry, out_wait, Live1, ShowTypes, General
<1>5. Within'
  BY <1>2, <1>3 DEF Shown, Within
<1>6. ShownFirst' /\ ShownIn' /\ DisplayedExactly'
  BY <1>2, <1>3 DEF Shown, ShownFirst, ShownIn, DisplayedExactly, Returned
<1>7. ASSUME NEW n \in Nat
      PROVE  /\ PutsShown(n, Live1)' <=> PutsShown(n, Live1)
             /\ \A m \in Nat : PutspShown(m, n, Live1)' <=> PutspShown(m, n, Live1)
             /\ WordAt(Source, n)' = WordAt(Source, n)
             /\ WordAt(call.reg["R0"], n)' = WordAt(call.reg["R0"], n)
  BY <1>2, <1>3, <1>4 DEF PutsShown, PutspShown, Text, GoesOn, PackedText,
     PackedGoesOn, PackedByte, PlaceOf, WordAt
<1>8. ShownPuts'
  BY <1>2, <1>3, <1>4, <1>7 DEF Shown, ShownPuts
<1>9. ShownPutsp'
  <2>1. \A n \in Nat : 2 * n \in Nat /\ 2 * n + 1 \in Nat
    OBVIOUS
  <2> QED
    BY <1>2, <1>3, <1>4, <1>7, <2>1 DEF Shown, ShownPutsp
<1> QED
  BY <1>5, <1>6, <1>8, <1>9 DEF Shown

(* OUT's store adds the character to what is displayed.                    *)
LEMMA ShowOutWrite ==
  ASSUME IInv, Shown, out_write
  PROVE  Shown'
<1> SUFFICES ASSUME call.trap # "none" PROVE Shown'
  BY DEF out_write, Shown, Within, ShownFirst, ShownPuts, ShownPutsp, ShownIn,
         DisplayedExactly, Returned
<1> DEFINE a == call.reg["R0"]
<1>1. ShowTypes /\ Returns /\ a \in Word /\ Source \in Word
  BY ShowTyped DEF IInv, ShowTypes
<1>2. /\ pc = "out_write" /\ pc' = R7 /\ UNCHANGED <<call, ret, slot, R7>>
      /\ \A r \in {"R0", "R2", "R3"} : reg'[r] = reg[r]
      /\ reg'["R1"] = slot["TOUT_R1"] /\ Live1 = slot["TOUT_R1"]
      /\ R7 \in {"user", "puts_next", "in_lf", "in_done", "putsp_high",
                 "putsp_next"}
  BY <1>1 DEF out_write, ShowTypes, General, Live1, Returns
<1>3. out' = Append(out, reg["R0"] % Byte)
  BY <1>2 DEF out_write, WriteDDR, Shown, ShownFirst
<1>4. Leaf = R7 /\ Leaf' = R7 /\ Source' = Source
  BY <1>2 DEF Leaf, Source
<1>5. Within'
  BY <1>2, <1>4 DEF Shown, Within
<1>6. ShownFirst'
  BY <1>2 DEF ShownFirst
<1>7. ShownPuts'
  <2>1. SUFFICES ASSUME ret["OS_R7"] \in {"user", "in_getc"}, R7 = "puts_next"
                 PROVE  (\E n \in Nat : /\ reg["R1"] = PlaceOf(Source, n)
                                        /\ out = Text(Source, n + 1)
                                        /\ GoesOn(Source, n + 1))'
    BY <1>2 DEF ShownPuts
  <2>2. PICK n \in Nat : /\ PutsShown(n, Live1)
                         /\ reg["R0"] = WordAt(Source, n) /\ reg["R0"] # 0
    BY <1>2, <2>1 DEF Shown, ShownPuts
  <2>3. out' = Text(Source, n + 1) /\ GoesOn(Source, n + 1)
    BY <1>1, <1>3, <2>2, TextGrows DEF PutsShown
  <2>4. reg'["R1"] = PlaceOf(Source, n)
    BY <1>2, <2>2 DEF PutsShown
  <2>5. (/\ reg["R1"] = PlaceOf(Source, n)
         /\ out = Text(Source, n + 1) /\ GoesOn(Source, n + 1))'
    BY <1>4, <2>3, <2>4 DEF Text, GoesOn, PlaceOf
  <2> QED
    BY <2>5
<1>8. ShownPutsp'
  <2>1. CASE R7 = "putsp_high"
    <3>1. PICK n \in Nat : /\ PutspShown(2 * n, n, Live1)
                           /\ reg["R2"] = WordAt(a, n)
                           /\ reg["R0"] = reg["R2"] % Byte /\ reg["R0"] # 0
      BY <1>2, <2>1 DEF Shown, ShownPutsp
    <3>2. PackedByte(a, 2 * n + 1) = reg["R0"]
      BY <1>1, <3>1, Bytes
    <3>3. reg["R0"] % Byte = reg["R0"]
      BY <1>1, <3>1, ByteCut, WordOps DEF ShowTypes, General
    <3>4. out' = PackedText(a, 2 * n + 1) /\ PackedGoesOn(a, 2 * n + 1)
      <4>1. /\ 2 * n \in Nat /\ out = PackedText(a, 2 * n)
            /\ PackedGoesOn(a, 2 * n)
        BY <3>1 DEF PutspShown
      <4> HIDE DEF a
      <4> QED
        BY <1>1, <1>3, <3>1, <3>2, <3>3, <4>1, PackedGrows
    <3>5. (PutspShown(2 * n + 1, n, reg["R1"]) /\ reg["R2"] = WordAt(a, n))'
      BY <1>2, <3>1, <3>4
      DEF PutspShown, PackedText, PackedGoesOn, PackedByte, PlaceOf, WordAt
    <3> QED
      BY <1>2, <2>1, <3>5 DEF ShownPutsp
  <2>2. CASE R7 = "putsp_next"
    <3>1. PICK n \in Nat : /\ PutspShown(2 * n + 1, n, Live1)
                           /\ reg["R0"] = WordAt(a, n) \div Byte
                           /\ reg["R0"] # 0
      BY <1>2, <2>2 DEF Shown, ShownPutsp
    <3>2. PackedByte(a, 2 * n + 2) = reg["R0"] /\ 2 * n + 1 \in Nat
          /\ (2 * n + 1) + 1 = 2 * n + 2
      BY <1>1, <3>1, Bytes
    <3>3. reg["R0"] % Byte = reg["R0"]
      BY <1>1, <3>1, ByteCut, Places
    <3>4. out' = PackedText(a, 2 * n + 2) /\ PackedGoesOn(a, 2 * n + 2)
      BY <1>1, <1>3, <3>1, <3>2, <3>3, PackedGrows DEF PutspShown
    <3>5. PutspShown(2 * n + 2, n, reg["R1"])'
      BY <1>2, <3>1, <3>4
      DEF PutspShown, PackedText, PackedGoesOn, PackedByte, PlaceOf
    <3> QED
      BY <1>2, <2>2, <3>5 DEF ShownPutsp
  <2> QED
    BY <1>2, <2>1, <2>2 DEF ShownPutsp
<1>9. ShownIn'
  <2>1. Linefeed % Byte = Linefeed
    BY ConsoleConstants
  <2> QED
    BY <1>2, <1>3, <1>4, <2>1 DEF Shown, ShownIn
<1>10. DisplayedExactly'
  <2>1. SUFFICES ASSUME R7 = "user" PROVE out' = Promised'
    BY <1>2 DEF DisplayedExactly, Returned
  <2>2. call.trap = "out" /\ out = << >>
    BY <1>2, <2>1 DEF Shown, Within, ShownFirst
  <2>3. reg["R0"] = call.reg["R0"]
    BY <1>2, <1>4, <2>1, <2>2 DEF IInv, Frames, Reads, Kept
  <2>4. Promised' = <<call.reg["R0"] % Byte>>
    BY <1>2, <2>2 DEF Promised
  <2> QED
    BY <1>3, <2>2, <2>3, <2>4
<1> QED
  BY <1>5, <1>6, <1>7, <1>8, <1>9, <1>10 DEF Shown

(* GETC displays nothing.                                                  *)
LEMMA ShowGetc ==
  ASSUME IInv, Shown,
         getc_wait(TRUE) \/ getc_wait(FALSE) \/ getc_read \/ getc_eof
  PROVE  Shown'
<1> SUFFICES ASSUME call.trap # "none" PROVE Shown'
  BY DEF getc_wait, getc_read, getc_eof, Shown, Within, ShownFirst, ShownPuts,
         ShownPutsp, ShownIn, DisplayedExactly, Returned
<1>1. Returns
  BY DEF IInv
<1>2. /\ pc \in GetcBody /\ pc' \in GetcBody \cup {R7}
      /\ UNCHANGED <<call, out, ret, R7>>
      /\ R7 \in {"user", "in_echo"}
  BY <1>1 DEF getc_wait, getc_read, getc_eof, Returns
<1>3. Leaf = R7 /\ Leaf' = R7
  BY <1>2 DEF Leaf
<1>4. Within'
  BY <1>2, <1>3 DEF Shown, Within
<1>5. ShownFirst' /\ ShownPuts' /\ ShownPutsp' /\ ShownIn'
  BY <1>2, <1>3 DEF Shown, ShownFirst, ShownPuts, ShownPutsp, ShownIn
<1>6. DisplayedExactly'
  <2>1. SUFFICES ASSUME R7 = "user" PROVE out' = Promised'
    BY <1>2 DEF DisplayedExactly, Returned
  <2>2. call.trap = "getc" /\ out = << >>
    BY <1>2, <2>1 DEF Shown, Within, ShownFirst
  <2> QED
    BY <1>2, <2>2 DEF Promised
<1> QED
  BY <1>4, <1>5, <1>6 DEF Shown

(* IN calls PUTS, GETC and OUT in turn.                                    *)
LEMMA ShowInCalls ==
  ASSUME IInv, Shown, in_entry \/ in_getc \/ in_echo \/ in_lf
  PROVE  Shown'
<1> SUFFICES ASSUME call.trap # "none" PROVE Shown'
  BY DEF in_entry, in_getc, in_echo, in_lf, Shown, Within, ShownFirst,
         ShownPuts, ShownPutsp, ShownIn, DisplayedExactly, Returned
<1>1. ShowTypes /\ Returns
  BY ShowTyped DEF IInv
<1>2. UNCHANGED <<call, out>>
  BY DEF in_entry, in_getc, in_echo, in_lf
<1>3. CASE in_entry
  <2>1. /\ pc = "in" /\ R7 = "user" /\ pc' = "puts" /\ R7' = "in_getc"
        /\ reg'["R0"] = InMsg
    BY <1>1, <1>3 DEF in_entry, ShowTypes, General, Returns
  <2>2. Leaf' = "puts"
    BY <2>1 DEF Leaf
  <2> QED
    BY <1>2, <2>1, <2>2 DEF Shown, Within, ShownFirst, ShownPuts, ShownPutsp,
       ShownIn, DisplayedExactly, Returned
<1>4. CASE in_getc
  <2>1. pc = "in_getc" /\ pc' = "getc" /\ R7' = "in_echo"
    BY <1>4 DEF in_getc
  <2>2. Leaf = "in_getc" /\ Leaf' = "in_echo"
    BY <2>1 DEF Leaf
  <2> QED
    BY <1>2, <2>1, <2>2 DEF Shown, Within, ShownFirst, ShownPuts, ShownPutsp,
       ShownIn, DisplayedExactly, Returned
<1>5. CASE in_echo
  <2>1. pc = "in_echo" /\ pc' = "out" /\ R7' = "in_lf"
    BY <1>5 DEF in_echo
  <2>2. Leaf = "in_echo" /\ Leaf' = "in_lf"
    BY <2>1 DEF Leaf
  <2> QED
    BY <1>2, <2>1, <2>2 DEF Shown, Within, ShownFirst, ShownPuts, ShownPutsp,
       ShownIn, DisplayedExactly, Returned
<1>6. CASE in_lf
  <2>1. /\ pc = "in_lf" /\ pc' = "out" /\ R7' = "in_done"
        /\ slot'["OS_R0"] = reg["R0"] /\ reg'["R0"] = Linefeed
    BY <1>1, <1>6 DEF in_lf, ShowTypes, General
  <2>2. Leaf = "in_lf" /\ Leaf' = "in_done"
    BY <2>1 DEF Leaf
  <2> QED
    BY <1>2, <2>1, <2>2 DEF Shown, Within, ShownFirst, ShownPuts, ShownPutsp,
       ShownIn, DisplayedExactly, Returned
<1> QED
  BY <1>3, <1>4, <1>5, <1>6

(* IN has displayed its prompt, the character and a linefeed.              *)
LEMMA ShowInDone ==
  ASSUME IInv, Shown, in_done
  PROVE  Shown'
<1> SUFFICES ASSUME call.trap # "none" PROVE Shown'
  BY DEF in_done, Shown, Within, ShownFirst, ShownPuts, ShownPutsp, ShownIn,
         DisplayedExactly, Returned
<1>1. ShowTypes /\ Returns
  BY ShowTyped DEF IInv
<1>2. pc = "in_done" /\ Leaf = "in_done" /\ UNCHANGED <<call, out, ret, slot>>
  BY DEF in_done, Leaf
<1>3. InsideIn /\ ret["TIN_R7"] = "user" /\ call.trap = "in"
  BY <1>1, <1>2 DEF InsideIn, Returns, IInv, Keys
<1>4. pc' = "user" /\ reg'["R0"] = slot["OS_R0"]
  BY <1>1, <1>3 DEF in_done, ShowTypes, General
<1>5. Leaf' = "user"
  BY <1>4 DEF Leaf
<1>6. Within' /\ ShownFirst' /\ ShownPuts' /\ ShownPutsp' /\ ShownIn'
  BY <1>2, <1>3, <1>4, <1>5
  DEF Within, ShownFirst, ShownPuts, ShownPutsp, ShownIn
<1>7. DisplayedExactly'
  <2> DEFINE s == String(InMsg)
             ch == slot["OS_R0"] % Byte
  <2>1. s \in Seq(0 .. Byte - 1) /\ out = Append(Append(s, ch), Linefeed)
    BY <1>2 DEF Shown, ShownIn
  <2>2. Promised' = s \o <<ch, Linefeed>>
    BY <1>2, <1>3, <1>4 DEF Promised
  <2> HIDE DEF s, ch
  <2>3. Append(Append(s, ch), Linefeed) = s \o <<ch, Linefeed>>
    BY <2>1
  <2> QED
    BY <1>2, <2>1, <2>2, <2>3 DEF DisplayedExactly
<1> QED
  BY <1>6, <1>7 DEF Shown

(* The messages of the OS belong to no trap that returns.                  *)
LEMMA ShowMessages ==
  ASSUME IInv, Shown,
         \/ prints_message("start", StartMsg, "start_halt") \/ start_halt
         \/ prints_message("halt", HaltMsg, "halt_mcr") \/ halt_mcr
         \/ prints_message("bad", BadMsg, "halt")
  PROVE  Shown'
<1>1. CASE halt_mcr
  <2>1. call'.trap = "none"
    BY <1>1 DEF halt_mcr, NoCall
  <2> QED
    BY <2>1 DEF Shown, Within, ShownFirst, ShownPuts, ShownPutsp, ShownIn,
       DisplayedExactly, Returned
<1>2. CASE start_halt
  <2>1. pc' = "halt" /\ Leaf' = "halt"
    BY <1>2 DEF start_halt, Leaf
  <2> QED
    BY <2>1 DEF Shown, Within, ShownFirst, ShownPuts, ShownPutsp, ShownIn,
       DisplayedExactly, Returned
<1>3. CASE \/ prints_message("start", StartMsg, "start_halt")
           \/ prints_message("halt", HaltMsg, "halt_mcr")
           \/ prints_message("bad", BadMsg, "halt")
  <2>1. pc' = "puts" /\ Leaf' = "puts" /\ R7' \in {"start_halt", "halt_mcr", "halt"}
    BY <1>3 DEF prints_message, Leaf
  <2> QED
    BY <2>1 DEF Shown, Within, ShownFirst, ShownPuts, ShownPutsp, ShownIn,
       DisplayedExactly, Returned
<1> QED
  BY <1>1, <1>2, <1>3

(* A step after which no trap counts.                                      *)
LEMMA ShowForgets ==
  ASSUME call' = NoCall PROVE Shown'
<1>1. call'.trap = "none"
  BY DEF NoCall
<1> QED
  BY <1>1 DEF Shown, Within, ShownFirst, ShownPuts, ShownPutsp, ShownIn,
     DisplayedExactly, Returned

(* A step beside the trap that does not make the display busy.             *)
LEMMA ShowBeside ==
  ASSUME Shown, UNCHANGED <<cpu, call, out>>, last_DSR_read => last_DSR_read'
  PROVE  Shown'
<1>1. UNCHANGED <<Leaf, Live1, Source, Promised>>
  BY DEF Leaf, Live1, Source, Promised, String, PackedString, PackedByte
<1>2. Within' /\ ShownFirst' /\ ShownIn' /\ DisplayedExactly'
  <2>1. Within' /\ ShownFirst' /\ DisplayedExactly'
    BY <1>1 DEF Shown, Within, ShownFirst, DisplayedExactly, Returned
  <2>2. ShownIn'
    BY <1>1 DEF Shown, ShownIn
  <2> QED
    BY <2>1, <2>2
<1>3. ShownPuts'
  BY <1>1 DEF Shown, ShownPuts, PutsShown, Text, GoesOn, PlaceOf, WordAt,
     String
<1>4. ShownPutsp'
  BY <1>1 DEF Shown, ShownPutsp, PutspShown, PackedText, PackedGoesOn, PlaceOf,
     PackedByte, WordAt, PackedString
<1> QED
  BY <1>2, <1>3, <1>4 DEF Shown

(* A trap is called: nothing of it is displayed yet.                       *)
LEMMA ShowUser ==
  ASSUME IInv, Shown, UserStep
  PROVE  Shown'
<1>1. ASSUME NEW trap \in Traps, NEW r \in UserRegs, user_trap(trap, r)
      PROVE  Shown'
  <2>1. /\ pc' = trap /\ R7' = "user" /\ call'.trap = trap /\ out' = << >>
        /\ Leaf' = IF trap \in {"getc", "out"} THEN "user" ELSE trap
    BY <1>1 DEF user_trap, Leaf, Traps
  <2> QED
    BY <2>1 DEF Traps, Shown, Within, ShownFirst, ShownPuts, ShownPutsp,
       ShownIn, DisplayedExactly, Returned
<1>2. CASE user_reads \/ user_writes
  BY <1>2, ShowForgets DEF user_reads, user_writes
<1>3. CASE user_eof
  BY <1>3, ShowBeside DEF user_eof
<1> QED
  BY <1>1, <1>2, <1>3 DEF UserStep

(* The debugger reads the registers of the devices, which never makes a    *)
(* display busy that was seen ready; its store to the DDR forgets the trap.*)
LEMMA ShowDebugger ==
  ASSUME IInv, Shown, Debugger \/ Type
  PROVE  Shown'
<1>1. CASE cmd_memory \/ cmd_file \/ cmd_reset
  BY <1>1, ShowForgets DEF cmd_memory, cmd_file, cmd_reset, Booted
<1>2. CASE list_device
  <2>1. last_DSR_read => last_DSR_read'
    BY <1>2 DEF list_device, ReadsDevice, ReadKBSR, ReadDSR, ReadKBDR
  <2> QED
    BY <1>2, <2>1, ShowBeside DEF list_device
<1>3. CASE \/ Stop \/ cmd_continue \/ flush_char \/ flush_done \/ cmd_list
           \/ list_eof \/ list_done \/ EndOfCommands \/ Type
  BY <1>3, ShowBeside DEF Stop, cmd_continue, flush_char, flush_done, cmd_list,
     list_eof, list_done, EndOfCommands, Type
<1> QED
  BY <1>1, <1>2, <1>3 DEF Debugger

(* Every step keeps Shown.                                                 *)
LEMMA NextShown == IInv /\ Shown /\ [Next]_vars => Shown'
<1> SUFFICES ASSUME IInv, Shown, [Next]_vars PROVE Shown'
  OBVIOUS
<1>1. CASE OsStep
  BY <1>1, ShowPutsEntry, ShowPutsLoop, ShowPutsNext, ShowPutsDone,
     ShowPutspEntry, ShowPutspLoop, ShowPutspHigh, ShowPutspNext, ShowPutspDone,
     ShowOutWaits, ShowOutWrite, ShowGetc, ShowInCalls, ShowInDone,
     ShowMessages
  DEF OsStep
<1>2. CASE UserStep
  BY <1>2, ShowUser
<1>3. CASE Debugger \/ Type
  BY <1>3, ShowDebugger
<1>4. CASE UNCHANGED vars
  BY <1>4, ShowBeside DEF vars
<1> QED
  BY <1>1, <1>2, <1>3, <1>4 DEF Next

(* Every trap displays exactly what it promises, whatever strings are in   *)
(* memory, also those that go round the end of it, and whatever the        *)
(* debugger does between OUT's look at the DSR and its store (TRAP_OUT,    *)
(* TRAP_PUTS, TRAP_PUTSP and TRAP_IN of lc3os.asm; read_memory and         *)
(* write_memory of lc3sim.c).                                              *)
THEOREM AlwaysDisplayedExactly == Spec => []DisplayedExactly
<1>1. Init => Shown
  BY DEF Init, NoCall, Shown, Within, ShownFirst, ShownPuts, ShownPutsp,
         ShownIn, DisplayedExactly, Returned
<1>2. Shown => DisplayedExactly
  BY DEF Shown
<1> QED
  BY <1>1, <1>2, NextShown, ConsoleInductive, PTL DEF Spec

=============================================================================
