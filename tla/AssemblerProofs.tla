-------------------------- MODULE AssemblerProofs --------------------------
(***************************************************************************)
(* The two passes of the assembler agree on every address, for every text  *)
(* and every size of memory.                                               *)
(*                                                                         *)
(* code_loc and saw_orig are all that decides how far a token moves        *)
(* code_loc.  The invariant says that there is one course of these two     *)
(* through the text, which pass 1 has followed and pass 2 follows again.   *)
(***************************************************************************)
EXTENDS Assembler, SequenceTheorems, FiniteSetTheorems, TLAPS

\* code_loc and saw_orig after token t was read at loc with saw_orig = so.
LocAfter(loc, so, t) ==
  IF t.t = "orig" /\ so = 0 THEN t.v
  ELSE IF t.t = "wrongorig" /\ so = 0 THEN Default
  ELSE IF t.t \in Instructions /\ so # 0 THEN loc + WordsOf(loc, t)
  ELSE loc
OrigAfter(so, t) ==
  IF t.t \in {"orig", "wrongorig"} THEN (IF so = 0 THEN 1 ELSE 2)
  ELSE IF t.t \in Instructions /\ so = 0 THEN 2
  ELSE so

\* Token t is no error of pass 1: not before .ORIG what needs it, and no .ORIG
\* that leaves code_loc where the image does not start.
CleanToken(so, t) ==
  so = 0 => t.t \notin Instructions \cup {"wrongorig", "label"}

\* locs and origs are the course of code_loc and saw_orig through txt.
Course(txt, locs, origs) ==
  /\ locs \in [1 .. Len(txt) + 1 -> Addr]
  /\ origs \in [1 .. Len(txt) + 1 -> {0, 1, 2}]
  /\ locs[1] = Default /\ origs[1] = 0
  /\ \A p \in 1 .. Len(txt) :
       /\ locs[p + 1] = LocAfter(locs[p], origs[p], txt[p])
       /\ origs[p + 1] = OrigAfter(origs[p], txt[p])

\* Without errors in pass 1 the labels are where the course has them.
Placed(txt, syms, locs, origs) ==
  \A p \in 1 .. Len(txt) :
    /\ CleanToken(origs[p], txt[p])
    /\ txt[p].t = "label" => syms[txt[p].n] = locs[p]

Follows ==
  at = "scan" =>
    /\ pos \in 1 .. Len(text) + 1
    /\ pass = 1 => pos = Len(text) + 1
    /\ \E locs, origs :
         /\ Course(text, locs, origs)
         /\ code_loc = locs[pos] /\ saw_orig = origs[pos]
         /\ pass = 2 \/ ~errors => Placed(text, symbols, locs, origs)

\* The image, while pass 2 runs and after it succeeded.
Image ==
  /\ pass = 1 => obj = <<>>
  /\ pass = 2 /\ at # "failed" =>
       /\ obj = <<>> <=> saw_orig = 0
       /\ obj # <<>> => code_loc = obj[1].val + Len(obj) - 1

\* The C lines: a pending one has started, a finished one has ended, before
\* code_loc, which .ORIG can no longer move back.
Lines ==
  /\ pass = 1 => dbg_line_state = "none" /\ ranges = <<>>
  /\ dbg_line_state = "started" /\ at = "scan" =>
       saw_orig # 0 /\ dbg_line_start_addr < code_loc
  /\ ranges # <<>> /\ at = "scan" =>
       saw_orig # 0 /\ ranges[Len(ranges)][2] < code_loc
  /\ DebugRangesOrdered

IInv == TypeOK /\ Follows /\ Image /\ Lines

(* The fields of a token are what its kind says.                           *)
LEMMA TokenFacts ==
  ASSUME NEW t \in Token
  PROVE  /\ t.t \in {"label", "ref", "fill"} => t.n \in Name
         /\ t.t \in {"blkw", "blkwto", "wrong", "orig"} => t.v \in Addr
BY AsmConstants DEF Token

(* An address is a number below the size of memory; 0 and x3000 are some.  *)
LEMMA AddrFacts == /\ Addr \subseteq Nat /\ Default \in Addr /\ 0 \in Addr
                   /\ \A a : a \in Addr <=> a \in Int /\ 0 <= a /\ a < MemSize
BY AsmConstants DEF Addr

\* A token that does not run out of memory adds a whole number of words.
LEMMA WordsFacts ==
  ASSUME NEW t \in Token, t.t \in Instructions, NEW loc \in Addr
  PROVE  WordsOf(loc, t) \in Nat
<1>1. CASE t.t \in {"word", "ref", "fill"}
  BY <1>1 DEF WordsOf
<1>2. CASE t.t \in {"blkw", "wrong"}
  BY <1>2, TokenFacts, AddrFacts DEF WordsOf
<1>3. CASE t.t = "blkwto"
  BY <1>3, TokenFacts, AddrFacts DEF WordsOf
<1>4. QED
  BY <1>1, <1>2, <1>3 DEF Instructions

(* The first state has the right types.                                    *)
LEMMA InitTypes == Init => TypeOK
<1> SUFFICES ASSUME Init PROVE TypeOK
  OBVIOUS
<1>1. text \in Seq(Token) /\ obj \in Seq([pos : Nat, val : Nat])
        /\ ranges \in Seq(Addr \X Addr)
  BY DEF Init
<1>2. symbols \in [Name -> Addr \cup {NoAddr}]
  BY DEF Init
<1>3. code_loc \in Addr /\ dbg_line_start_addr \in Addr
  BY AddrFacts DEF Init
<1>4. saw_end \in BOOLEAN /\ errors \in BOOLEAN
  BY DEF Init
<1>5. /\ at \in {"scan", "failed", "done"} /\ pass \in {1, 2}
      /\ pos \in Nat \ {0} /\ saw_orig \in {0, 1, 2}
      /\ dbg_line_state \in {"none", "parsed", "started"}
  BY DEF Init
<1>6. QED
  BY <1>1, <1>2, <1>3, <1>4, <1>5, Zenon DEF TypeOK

(* The first state satisfies the invariant: the course has one place.      *)
LEMMA InitIInv == Init => IInv
<1> SUFFICES ASSUME Init PROVE IInv
  OBVIOUS
<1>2. Follows
  <2> DEFINE locs == [p \in 1 .. 1 |-> Default]
             origs == [p \in 1 .. 1 |-> 0]
  <2>1. Len(text) = 0 /\ pos = 1
    BY DEF Init
  <2>2. Course(text, locs, origs)
    BY <2>1, AddrFacts DEF Course
  <2>3. Placed(text, symbols, locs, origs)
    BY <2>1 DEF Placed
  <2>4. code_loc = locs[1] /\ saw_orig = origs[1]
    BY DEF Init
  <2> HIDE DEF locs, origs
  <2>5. QED
    BY <2>1, <2>2, <2>3, <2>4 DEF Follows, Init
<1>3. Image /\ Lines
  BY DEF Init, Image, Lines, DebugRangesOrdered
<1>4. QED
  BY <1>2, <1>3, InitTypes DEF IInv

----------------------------------------------------------------------------
\* The shape of every step of the lexer.
LEMMA ReadsTypes ==
  ASSUME TypeOK, NEW t \in Token, Reads(t)
  PROVE  text' \in Seq(Token) /\ pos' \in Nat \ {0}
<1>1. pos' \in Nat \ {0}
  BY DEF TypeOK, Reads
<1>2. text' \in Seq(Token)
  <2>1. text \in Seq(Token)
    BY Zenon DEF TypeOK
  <2>2. text' = text \/ text' = Append(text, t)
    BY Zenon DEF Reads
  <2>3. QED
    BY <2>1, <2>2
<1>3. QED
  BY <1>1, <1>2

(* The word pass 2 writes for an instruction is a number.                  *)
LEMMA ValueTypes ==
  ASSUME TypeOK, NEW t \in Token, t.t \in Instructions
  PROVE  pass = 2 => ValueOf(t) \in Nat
<1> SUFFICES ASSUME pass = 2 PROVE ValueOf(t) \in Nat
  OBVIOUS
<1>1. CASE LabelError(t)
  BY <1>1 DEF ValueOf
<1>2. CASE ~LabelError(t) /\ t.t \in {"ref", "fill"}
  <2>1. symbols[t.n] \in Addr
    BY <1>2, TokenFacts DEF LabelError, TypeOK
  <2>2. CASE t.t = "fill"
    BY <2>1, <2>2, <1>2, AddrFacts DEF ValueOf
  <2>3. CASE t.t = "ref"
    <3>1. Distance(t.n) \in Int
      BY <2>1, AddrFacts DEF Distance, TypeOK
    <3>2. 2 * Reach \in Nat \ {0}
      BY AsmConstants
    <3>3. Distance(t.n) % (2 * Reach) \in Nat
      BY <3>1, <3>2
    <3>4. QED
      BY <3>3, <2>3, <1>2 DEF ValueOf
  <2>4. QED
    BY <2>2, <2>3, <1>2
<1>3. CASE t.t \notin {"ref", "fill"}
  BY <1>3 DEF ValueOf, LabelError
<1>4. QED
  BY <1>1, <1>2, <1>3

(* Finishing a pending C line adds a pair of addresses.                    *)
LEMMA RangesTypes ==
  ASSUME TypeOK, Lines, at = "scan"
  PROVE  FinishedRanges \in Seq(Addr \X Addr)
<1>1. CASE dbg_line_state = "started"
  <2>1. dbg_line_start_addr < code_loc
    BY <1>1 DEF Lines
  <2>2. code_loc - 1 \in Addr /\ dbg_line_start_addr \in Addr
    <3>1. code_loc \in Addr /\ dbg_line_start_addr \in Addr
      BY Zenon DEF TypeOK
    <3>2. QED
      BY <2>1, <3>1, AsmConstants DEF Addr
  <2>3. <<dbg_line_start_addr, code_loc - 1>> \in Addr \X Addr
    BY <2>2
  <2>4. ranges \in Seq(Addr \X Addr)
    BY DEF TypeOK
  <2>5. QED
    BY <1>1, <2>3, <2>4 DEF FinishedRanges
<1>2. CASE dbg_line_state # "started"
  BY <1>2 DEF FinishedRanges, TypeOK
<1>3. QED
  BY <1>1, <1>2

\* Each token keeps the types.
LEMMA TokenTypes ==
  ASSUME TypeOK, Lines, NEW t \in Token, LexToken(t)
  PROVE  TypeOK'
<1>1. CASE found_label(t)
  <2>1. symbols' \in [Name -> Addr \cup {NoAddr}]
    BY <1>1, TokenFacts DEF found_label, TypeOK
  <2>2. errors' \in BOOLEAN
    BY <1>1, Zenon DEF found_label, TypeOK
  <2>3. Reads(t) /\ UNCHANGED <<at, pass, saw_orig, saw_end, code_loc, obj, dbgVars>>
    BY <1>1 DEF found_label
  <2>4. QED
    BY <2>1, <2>2, <2>3, ReadsTypes, Zenon DEF TypeOK, dbgVars
<1>2. CASE Origin(t)
  <2>1. code_loc' \in Addr
    BY <1>2, TokenFacts, AddrFacts DEF Origin, TypeOK
  <2>2. errors' \in BOOLEAN
    BY <1>2, Zenon DEF Origin, TypeOK
  <2>3. at' \in {"scan", "failed", "done"} /\ saw_orig' \in {0, 1, 2}
    BY <1>2 DEF Origin, TypeOK
  <2>4. obj' \in Seq([pos : Nat, val : Nat])
    <3>1. CASE t.t = "wrongorig"
      BY <3>1, <1>2 DEF Origin, TypeOK
    <3>2. CASE t.t = "orig"
      <4> DEFINE start == [pos |-> pos, val |-> t.v]
      <4>1. start \in [pos : Nat, val : Nat]
        BY <3>2, TokenFacts, AddrFacts DEF TypeOK
      <4>2. obj' = obj \/ obj' = Append(obj, start)
        BY <3>2, <1>2 DEF Origin
      <4> HIDE DEF start
      <4>3. obj \in Seq([pos : Nat, val : Nat])
        BY Zenon DEF TypeOK
      <4>4. \A S : \A s \in Seq(S), e \in S : Append(s, e) \in Seq(S)
        OBVIOUS
      <4>5. QED
        BY <4>1, <4>2, <4>3, <4>4, Zenon
    <3>3. QED
      BY <3>1, <3>2, <1>2 DEF Origin
  <2>5. Reads(t) /\ UNCHANGED <<pass, saw_end, symbols, dbgVars>>
    BY <1>2 DEF Origin
  <2>6. QED
    BY <2>1, <2>2, <2>3, <2>4, <2>5, ReadsTypes, Zenon DEF TypeOK, dbgVars
<1>3. CASE SecondOrigin(t)
  BY <1>3, ReadsTypes, Zenon DEF SecondOrigin, TypeOK, dbgVars
<1>4. CASE BeforeOrigin(t)
  BY <1>4, ReadsTypes, Zenon DEF BeforeOrigin, TypeOK, dbgVars
<1>5. CASE generate_instruction(t)
  <2> DEFINE w == WordsOf(code_loc, t)
  <2>1. w \in Nat
    BY <1>5, WordsFacts DEF generate_instruction, TypeOK
  <2>2. code_loc' \in Addr
    <3>1. code_loc' = code_loc + w /\ ~(code_loc + w >= MemSize)
      BY <1>5 DEF generate_instruction, Overflows
    <3> HIDE DEF w
    <3>2. code_loc \in Addr
      BY Zenon DEF TypeOK
    <3>3. QED
      BY <3>1, <3>2, <2>1, AsmConstants DEF Addr
  <2>3. errors' \in BOOLEAN
    BY <1>5, Zenon DEF generate_instruction
  <2>4. obj' \in Seq([pos : Nat, val : Nat])
    <3>1. CASE pass = 1
      BY <3>1, <1>5 DEF generate_instruction, TypeOK
    <3>2. CASE pass = 2
      <4> DEFINE word == [pos |-> pos, val |-> ValueOf(t)]
                 new == [i \in 1 .. w |-> word]
      <4>1. word \in [pos : Nat, val : Nat]
        BY <3>2, <1>5, ValueTypes DEF generate_instruction, TypeOK
      <4>2. new \in Seq([pos : Nat, val : Nat])
        <5> HIDE DEF word, w
        <5>1. QED
          BY <4>1, <2>1
      <4>3. obj' = obj \o new
        BY <3>2, <1>5 DEF generate_instruction
      <4> HIDE DEF new
      <4>4. QED
        BY <4>2, <4>3 DEF TypeOK
    <3>3. QED
      BY <3>1, <3>2 DEF TypeOK
  <2>5. dbg_line_state' \in {"none", "parsed", "started"}
          /\ dbg_line_start_addr' \in Addr
    BY <1>5 DEF generate_instruction, TypeOK
  <2>6. Reads(t) /\ UNCHANGED <<at, pass, saw_orig, saw_end, symbols, ranges>>
    BY <1>5 DEF generate_instruction
  <2>7. QED
    BY <2>2, <2>3, <2>4, <2>5, <2>6, ReadsTypes, Zenon DEF TypeOK
<1>6. CASE OutOfMemory(t)
  BY <1>6, ReadsTypes, Zenon DEF OutOfMemory, TypeOK, dbgVars, scanVars
<1>7. CASE BadLine(t)
  BY <1>7, ReadsTypes, Zenon DEF BadLine, TypeOK, dbgVars
<1>8. CASE handle_debug(t)
  <2>1. ranges' \in Seq(Addr \X Addr)
    BY <1>8, RangesTypes DEF handle_debug, TypeOK, Reads
  <2>2. dbg_line_state' \in {"none", "parsed", "started"}
    BY <1>8 DEF handle_debug, TypeOK
  <2>3. Reads(t) /\ UNCHANGED <<at, pass, scanVars, symbols, obj, dbg_line_start_addr>>
    BY <1>8 DEF handle_debug
  <2>4. QED
    BY <2>1, <2>2, <2>3, ReadsTypes, Zenon DEF TypeOK, scanVars
<1>9. CASE EndDirective(t)
  BY <1>9, ReadsTypes, Zenon DEF EndDirective, TypeOK, dbgVars
<1>10. QED
  BY <1>1, <1>2, <1>3, <1>4, <1>5, <1>6, <1>7, <1>8, <1>9 DEF LexToken

\* Every step keeps the types.
LEMMA NextTypes == TypeOK /\ Lines /\ [Next]_vars => TypeOK'
<1> SUFFICES ASSUME TypeOK, Lines, [Next]_vars PROVE TypeOK'
  OBVIOUS
<1>1. CASE Lex
  BY <1>1, TokenTypes, Zenon DEF Lex
<1>2. CASE EndPass1
  <2>1. /\ at' \in {"scan", "failed", "done"} /\ pass' \in {1, 2}
        /\ pos' \in Nat \ {0} /\ saw_orig' \in {0, 1, 2}
        /\ dbg_line_state' \in {"none", "parsed", "started"}
    BY <1>2 DEF EndPass1, StartPass2, scanVars, TypeOK
  <2>2. code_loc' \in Addr
    BY <1>2, AddrFacts DEF EndPass1, StartPass2, scanVars, TypeOK
  <2>3. saw_end' \in BOOLEAN /\ errors' \in BOOLEAN
    BY <1>2, Zenon DEF EndPass1, StartPass2, scanVars, TypeOK
  <2>4. UNCHANGED <<text, symbols, obj, dbg_line_start_addr, ranges>>
    BY <1>2 DEF EndPass1
  <2>5. QED
    BY <2>1, <2>2, <2>3, <2>4, Zenon DEF TypeOK
<1>3. CASE EndPass2
  <2>1. ranges' \in Seq(Addr \X Addr)
    BY <1>3, RangesTypes DEF EndPass2, TypeOK
  <2>2. at' \in {"scan", "failed", "done"}
    BY <1>3 DEF EndPass2
  <2>3. UNCHANGED <<pass, text, pos, scanVars, symbols, obj, dbg_line_state,
                    dbg_line_start_addr>>
    BY <1>3 DEF EndPass2
  <2>4. QED
    BY <2>1, <2>2, <2>3, Zenon DEF TypeOK, scanVars
<1>4. CASE UNCHANGED vars
  BY <1>4, Zenon DEF vars, scanVars, dbgVars, TypeOK
<1>5. QED
  BY <1>1, <1>2, <1>3, <1>4 DEF Next

----------------------------------------------------------------------------
\* While the assembler goes on, a token moves code_loc and saw_orig along the
\* course, whichever pass reads it.
LEMMA TokenMoves ==
  ASSUME TypeOK, NEW t \in Token, LexToken(t), at' = "scan"
  PROVE  /\ Reads(t) /\ pass' = pass
         /\ code_loc' = LocAfter(code_loc, saw_orig, t)
         /\ saw_orig' = OrigAfter(saw_orig, t)
<1>1. Reads(t) /\ pass' = pass
  BY DEF LexToken, found_label, Origin, SecondOrigin, BeforeOrigin,
         generate_instruction, OutOfMemory, BadLine, handle_debug, EndDirective
<1> USE DEF LocAfter, OrigAfter, Instructions
<1>2. CASE found_label(t)
  BY <1>1, <1>2 DEF found_label
<1>3. CASE Origin(t)
  BY <1>1, <1>3 DEF Origin
<1>4. CASE SecondOrigin(t)
  BY <1>1, <1>4 DEF SecondOrigin
<1>5. CASE BeforeOrigin(t)
  BY <1>1, <1>5 DEF BeforeOrigin
<1>6. CASE generate_instruction(t)
  BY <1>1, <1>6 DEF generate_instruction
<1>7. CASE OutOfMemory(t)
  BY <1>7 DEF OutOfMemory
<1>8. CASE BadLine(t)
  BY <1>1, <1>8 DEF BadLine
<1>9. CASE handle_debug(t)
  BY <1>1, <1>9 DEF handle_debug, scanVars
<1>10. CASE EndDirective(t)
  BY <1>1, <1>10 DEF EndDirective
<1>11. QED
  BY <1>2, <1>3, <1>4, <1>5, <1>6, <1>7, <1>8, <1>9, <1>10 DEF LexToken

\* Labels are placed by pass 1 only, and never moved.
LEMMA TokenLabels ==
  ASSUME TypeOK, NEW t \in Token, LexToken(t), at' = "scan"
  PROVE  /\ pass = 2 => symbols' = symbols
         /\ \A n \in Name : symbols[n] # NoAddr => symbols'[n] = symbols[n]
         /\ errors => errors'
         /\ pass = 1 /\ ~errors' =>
              /\ CleanToken(saw_orig, t)
              /\ t.t = "label" => symbols'[t.n] = code_loc
<1> USE DEF CleanToken, Instructions
<1>1. CASE found_label(t)
  <2>1. t.n \in Name /\ t.t = "label"
    BY <1>1, TokenFacts DEF found_label
  <2>2. symbols \in [Name -> Addr \cup {NoAddr}]
    BY DEF TypeOK
  <2>3. CASE pass = 1 /\ saw_orig # 0 /\ symbols[t.n] = NoAddr
    <3>1. symbols' = [symbols EXCEPT ![t.n] = code_loc] /\ errors' = errors
      BY <1>1, <2>3 DEF found_label
    <3>2. QED
      BY <3>1, <2>1, <2>2, <2>3
  <2>4. CASE ~(pass = 1 /\ saw_orig # 0 /\ symbols[t.n] = NoAddr)
    <3>1. symbols' = symbols /\ errors' = (errors \/ pass = 1)
      BY <1>1, <2>4 DEF found_label
    <3>2. QED
      BY <3>1, <2>1, Zenon
  <2>5. QED
    BY <2>3, <2>4
<1>2. CASE Origin(t)
  BY <1>2 DEF Origin
<1>3. CASE SecondOrigin(t)
  BY <1>3 DEF SecondOrigin
<1>4. CASE BeforeOrigin(t)
  BY <1>4 DEF BeforeOrigin
<1>5. CASE generate_instruction(t)
  BY <1>5 DEF generate_instruction
<1>6. CASE OutOfMemory(t)
  BY <1>6 DEF OutOfMemory
<1>7. CASE BadLine(t)
  BY <1>7 DEF BadLine
<1>8. CASE handle_debug(t)
  BY <1>8 DEF handle_debug, scanVars
<1>9. CASE EndDirective(t)
  BY <1>9 DEF EndDirective
<1>10. QED
  BY <1>1, <1>2, <1>3, <1>4, <1>5, <1>6, <1>7, <1>8, <1>9 DEF LexToken

\* Pass 1: the course grows with the text.
LEMMA FollowsInPass1 ==
  ASSUME TypeOK, Follows, NEW t \in Token, LexToken(t), at' = "scan", pass = 1,
         code_loc' \in Addr
  PROVE  Follows'
<1>1. /\ at = "scan" /\ pos' = pos + 1 /\ text' = Append(text, t)
      /\ pass' = 1
  BY TokenMoves DEF Reads
<1> DEFINE L == Len(text)
<1>2. /\ L \in Nat /\ Len(text') = L + 1 /\ text'[L + 1] = t
      /\ \A p \in 1 .. L : text'[p] = text[p] /\ text[p] \in Token
  BY <1>1 DEF TypeOK
<1>3. pos = L + 1
  BY <1>1 DEF Follows
<1>4. PICK locs, origs :
        /\ Course(text, locs, origs)
        /\ code_loc = locs[pos] /\ saw_orig = origs[pos]
        /\ pass = 2 \/ ~errors => Placed(text, symbols, locs, origs)
  BY <1>1 DEF Follows
<1> DEFINE nl == [p \in 1 .. L + 2 |-> IF p = L + 2 THEN code_loc' ELSE locs[p]]
           no == [p \in 1 .. L + 2 |-> IF p = L + 2 THEN saw_orig' ELSE origs[p]]
<1>5. /\ \A p \in 1 .. L + 1 : nl[p] = locs[p] /\ no[p] = origs[p]
      /\ nl[L + 2] = code_loc' /\ no[L + 2] = saw_orig'
  BY <1>2
<1>6. saw_orig' \in {0, 1, 2}
  BY TokenMoves DEF OrigAfter, TypeOK
<1>7. /\ nl \in [1 .. L + 2 -> Addr] /\ no \in [1 .. L + 2 -> {0, 1, 2}]
  BY <1>2, <1>4, <1>6 DEF Course
<1> HIDE DEF nl, no
<1>8. Course(text', nl, no)
  <2>1. ASSUME NEW p \in 1 .. L + 1
        PROVE  /\ nl[p + 1] = LocAfter(nl[p], no[p], text'[p])
               /\ no[p + 1] = OrigAfter(no[p], text'[p])
    <3>1. CASE p = L + 1
      <4>1. /\ nl[p] = code_loc /\ no[p] = saw_orig /\ text'[p] = t
            /\ nl[p + 1] = code_loc' /\ no[p + 1] = saw_orig'
        BY <3>1, <1>2, <1>3, <1>4, <1>5
      <4>2. QED
        BY <4>1, TokenMoves
    <3>2. CASE p \in 1 .. L
      <4>1. /\ nl[p] = locs[p] /\ no[p] = origs[p] /\ text'[p] = text[p]
            /\ nl[p + 1] = locs[p + 1] /\ no[p + 1] = origs[p + 1]
        BY <3>2, <1>2, <1>5
      <4>2. QED
        BY <4>1, <3>2, <1>4 DEF Course
    <3>3. QED
      BY <3>1, <3>2, <1>2
  <2>2. nl[1] = Default /\ no[1] = 0
    BY <1>2, <1>4, <1>5 DEF Course
  <2>3. QED
    BY <1>2, <1>7, <2>1, <2>2 DEF Course
<1>9. ~errors' => Placed(text', symbols', nl, no)
  <2> SUFFICES ASSUME ~errors', NEW p \in 1 .. L + 1
               PROVE  /\ CleanToken(no[p], text'[p])
                      /\ text'[p].t = "label" => symbols'[text'[p].n] = nl[p]
    BY <1>2 DEF Placed
  <2>1. CASE p = L + 1
    <3>1. nl[p] = code_loc /\ no[p] = saw_orig /\ text'[p] = t
      BY <2>1, <1>2, <1>3, <1>4, <1>5
    <3>2. QED
      BY <3>1, TokenLabels
  <2>2. CASE p \in 1 .. L
    <3>1. nl[p] = locs[p] /\ no[p] = origs[p] /\ text'[p] = text[p]
      BY <2>2, <1>2, <1>5
    <3>2. Placed(text, symbols, locs, origs)
      BY <1>4, TokenLabels
    <3>3. /\ CleanToken(origs[p], text[p])
          /\ text[p].t = "label" => symbols[text[p].n] = locs[p]
      BY <2>2, <3>2 DEF Placed
    <3>4. text[p].t = "label" => text[p].n \in Name
      BY <2>2, <1>2, TokenFacts
    <3>5. locs[p] # NoAddr
      BY <2>2, <1>2, <1>4, AsmConstants DEF Course
    <3>6. text[p].t = "label" => symbols'[text[p].n] = locs[p]
      BY <3>3, <3>4, <3>5, TokenLabels
    <3>7. QED
      BY <3>1, <3>3, <3>6
  <2>3. QED
    BY <2>1, <2>2, <1>2
<1>10. code_loc' = nl[pos'] /\ saw_orig' = no[pos'] /\ pos' = Len(text') + 1
  BY <1>1, <1>2, <1>3, <1>5
<1>11. pos' \in 1 .. Len(text') + 1
  BY <1>10, <1>2
<1>12. QED
  BY <1>1, <1>8, <1>9, <1>10, <1>11 DEF Follows

\* Pass 2: the same course again, and no token of it is refused.
LEMMA FollowsInPass2 ==
  ASSUME TypeOK, Follows, NEW t \in Token, LexToken(t), at' = "scan", pass = 2
  PROVE  Follows' /\ CleanToken(saw_orig, t)
<1>1. /\ at = "scan" /\ pos' = pos + 1 /\ text' = text /\ t = text[pos]
      /\ pos <= Len(text) /\ pass' = 2 /\ symbols' = symbols
  BY TokenMoves, TokenLabels DEF Reads
<1>2. PICK locs, origs :
        /\ Course(text, locs, origs)
        /\ code_loc = locs[pos] /\ saw_orig = origs[pos]
        /\ pass = 2 \/ ~errors => Placed(text, symbols, locs, origs)
  BY <1>1 DEF Follows
<1>3. Len(text) \in Nat /\ pos \in 1 .. Len(text)
  BY <1>1 DEF TypeOK
<1>4. CleanToken(saw_orig, t)
  BY <1>1, <1>2, <1>3 DEF Placed
<1>5. code_loc' = locs[pos'] /\ saw_orig' = origs[pos']
  <2>1. locs[pos + 1] = LocAfter(code_loc, saw_orig, t)
          /\ origs[pos + 1] = OrigAfter(saw_orig, t)
    BY <1>1, <1>2, <1>3 DEF Course
  <2>2. QED
    BY <2>1, <1>1, TokenMoves
<1>6. pos' \in 1 .. Len(text') + 1
  BY <1>1, <1>3
<1>7. Follows'
  BY <1>1, <1>2, <1>5, <1>6 DEF Follows
<1>8. QED
  BY <1>4, <1>7

\* Pass 2 sets out on the course that pass 1 has followed.
LEMMA FollowsEndPass1 == TypeOK /\ Follows /\ EndPass1 => Follows'
<1> SUFFICES ASSUME TypeOK, Follows, EndPass1, at' = "scan" PROVE Follows'
  BY DEF Follows
<1>1. /\ at = "scan" /\ pass = 1 /\ ~errors /\ text' = text /\ symbols' = symbols
      /\ pass' = 2 /\ pos' = 1 /\ saw_orig' = 0 /\ code_loc' = Default
  BY DEF EndPass1, StartPass2
<1>2. PICK locs, origs :
        /\ Course(text, locs, origs)
        /\ pass = 2 \/ ~errors => Placed(text, symbols, locs, origs)
  BY <1>1 DEF Follows
<1>3. code_loc' = locs[pos'] /\ saw_orig' = origs[pos']
  BY <1>1, <1>2 DEF Course
<1>4. Len(text) \in Nat
  BY DEF TypeOK
<1>5. pos' \in 1 .. Len(text') + 1
  BY <1>1, <1>4
<1>6. QED
  BY <1>1, <1>2, <1>3, <1>5 DEF Follows

(* No step leaves the course: pass 1 extends it, pass 2 goes along it.     *)
LEMMA NextFollows ==
  TypeOK /\ Follows /\ [Next]_vars /\ code_loc' \in Addr => Follows'
<1> SUFFICES ASSUME TypeOK, Follows, [Next]_vars, code_loc' \in Addr
             PROVE  Follows'
  OBVIOUS
<1>1. CASE Lex
  <2>1. PICK t \in Token : LexToken(t)
    BY <1>1 DEF Lex
  <2>2. CASE at' = "scan"
    <3>1. pass = 1 \/ pass = 2
      BY DEF TypeOK
    <3>2. QED
      BY <2>1, <2>2, <3>1, FollowsInPass1, FollowsInPass2
  <2>3. CASE at' # "scan"
    BY <2>3 DEF Follows
  <2>4. QED
    BY <2>2, <2>3
<1>2. CASE EndPass1
  BY <1>2, FollowsEndPass1
<1>3. CASE EndPass2
  BY <1>3 DEF EndPass2, Follows
<1>4. CASE UNCHANGED vars
  BY <1>4 DEF vars, scanVars, Follows
<1>5. QED
  BY <1>1, <1>2, <1>3, <1>4 DEF Next

----------------------------------------------------------------------------
\* Sequences: the first element, and what stays first when words are added.
LEMMA FirstElement ==
  ASSUME NEW S, NEW s \in Seq(S), s # <<>>
  PROVE  s[1] \in S /\ Len(s) \in Nat \ {0}
<1>1. Len(s) \in Nat /\ s \in [1 .. Len(s) -> S]
  OBVIOUS
<1>2. Len(s) # 0
  BY EmptySeq
<1>3. QED
  BY <1>1, <1>2

(* The elements of a sequence over S are in S.                             *)
LEMMA Elements ==
  ASSUME NEW S, NEW s \in Seq(S) PROVE \A i \in 1 .. Len(s) : s[i] \in S
  OBVIOUS

(* What concatenation does to the length and to the first element.         *)
LEMMA LengthAdds ==
  ASSUME NEW S, NEW s \in Seq(S), NEW u \in Seq(S), s # <<>>
  PROVE  Len(s \o u) = Len(s) + Len(u) /\ (s \o u)[1] = s[1] /\ s \o u # <<>>
<1>1. Len(s) \in Nat \ {0}
  BY FirstElement
<1>2. Len(s \o u) = Len(s) + Len(u) /\ (s \o u)[1] = s[1]
  BY <1>1, ConcatProperties
<1>3. Len(u) \in Nat
  OBVIOUS
<1>4. QED
  BY <1>1, <1>2, <1>3

\* Words are written where they belong.
LEMMA TokenImage ==
  ASSUME TypeOK, Image, NEW t \in Token, LexToken(t),
         pass = 2 /\ at' = "scan" => CleanToken(saw_orig, t)
  PROVE  Image'
<1> DEFINE w == WordsOf(code_loc, t)
           Same == UNCHANGED <<obj, saw_orig, code_loc, pass>>
<1>1. at = "scan" /\ pass' = pass
  BY DEF LexToken, found_label, Origin, SecondOrigin, BeforeOrigin, Reads,
         generate_instruction, OutOfMemory, BadLine, handle_debug, EndDirective
<1>2. obj \in Seq([pos : Nat, val : Nat]) /\ code_loc \in Addr /\ pass \in {1, 2}
  BY DEF TypeOK
<1>3. CASE Same
  BY <1>3, <1>1 DEF Image
<1>4. CASE Origin(t)
  <2>1. CASE pass = 1
    BY <2>1, <1>1, <1>4 DEF Image, Origin
  <2>2. CASE pass = 2 /\ at' # "failed"
    <3>1. t.t = "orig" /\ at' = "scan"
      BY <1>1, <1>4, <2>2 DEF Origin, CleanToken
    <3> DEFINE start == [pos |-> pos, val |-> t.v]
    <3>2. obj' = Append(obj, start) /\ code_loc' = t.v /\ saw_orig' = 1
      BY <3>1, <2>2, <1>4 DEF Origin
    <3>3. obj = <<>>
      BY <1>1, <2>2, <1>4 DEF Origin, Image
    <3>4. obj' = <<start>>
      BY <3>2, <3>3
    <3>5. obj' # <<>> /\ obj'[1].val = t.v /\ Len(obj') = 1
      BY <3>4
    <3>6. t.v \in Int
      BY <3>1, TokenFacts, AddrFacts
    <3>7. QED
      BY <3>2, <3>5, <3>6, <1>1, <2>2 DEF Image
  <2>3. CASE at' = "failed" /\ pass = 2
    BY <2>3, <1>1 DEF Image
  <2>4. QED
    BY <2>1, <2>2, <2>3, <1>2
<1>5. CASE SecondOrigin(t)
  BY <1>5, <1>1, <1>2 DEF SecondOrigin, Image, TypeOK
<1>6. CASE BeforeOrigin(t)
  BY <1>6, <1>1, <1>2 DEF BeforeOrigin, Image, CleanToken
<1>7. CASE generate_instruction(t)
  <2>1. CASE pass = 1
    BY <2>1, <1>1, <1>7 DEF Image, generate_instruction
  <2>2. CASE pass = 2
    <3>1. w \in Nat
      BY <1>7, <1>2, WordsFacts DEF generate_instruction
    <3> DEFINE word == [pos |-> pos, val |-> ValueOf(t)]
               new == [i \in 1 .. w |-> word]
    <3>2. /\ obj' = obj \o new /\ code_loc' = code_loc + w
          /\ saw_orig' = saw_orig /\ saw_orig # 0
      BY <1>7, <2>2 DEF generate_instruction
    <3>3. obj # <<>> /\ code_loc = obj[1].val + Len(obj) - 1
      BY <1>1, <2>2, <3>2 DEF Image
    <3>4. obj[1].val \in Nat /\ Len(obj) \in Nat \ {0}
      <4>1. obj[1] \in [pos : Nat, val : Nat] /\ Len(obj) \in Nat \ {0}
        BY <1>2, <3>3, FirstElement, Zenon
      <4>2. QED
        BY <4>1
    <3>5. Len(new) = w /\ new \in Seq([pos : Nat, val : Nat])
      <4>1. word \in [pos : Nat, val : Nat]
        BY <2>2, <1>7, ValueTypes DEF generate_instruction, TypeOK
      <4> HIDE DEF w, word
      <4>2. QED
        BY <4>1, <3>1
    <3> HIDE DEF new, w
    <3>6. /\ Len(obj') = Len(obj) + w /\ obj'[1] = obj[1]
          /\ obj' # <<>>
      BY <3>2, <3>3, <3>5, <1>2, LengthAdds, Zenon
    <3>7. code_loc' = obj'[1].val + Len(obj') - 1
      BY <3>1, <3>2, <3>3, <3>4, <3>6
    <3>8. QED
      BY <3>2, <3>6, <3>7, <1>1, <2>2 DEF Image
  <2>3. QED
    BY <2>1, <2>2, <1>2
<1>8. CASE OutOfMemory(t)
  BY <1>8, <1>1, <1>2 DEF OutOfMemory, Image
<1>9. found_label(t) \/ BadLine(t) \/ handle_debug(t) \/ EndDirective(t) => Same
  BY DEF found_label, BadLine, handle_debug, EndDirective, scanVars
<1>10. QED
  BY <1>3, <1>4, <1>5, <1>6, <1>7, <1>8, <1>9 DEF LexToken

(* Every step keeps the object file tied to code_loc.                      *)
LEMMA NextImage == TypeOK /\ Follows /\ Image /\ [Next]_vars => Image'
<1> SUFFICES ASSUME TypeOK, Follows, Image, [Next]_vars PROVE Image'
  OBVIOUS
<1>1. CASE Lex
  <2>1. PICK t \in Token : LexToken(t)
    BY <1>1 DEF Lex
  <2>2. pass = 2 /\ at' = "scan" => CleanToken(saw_orig, t)
    BY <2>1, FollowsInPass2
  <2>3. QED
    BY <2>1, <2>2, TokenImage
<1>2. CASE EndPass1
  BY <1>2 DEF EndPass1, StartPass2, scanVars, Image
<1>3. CASE EndPass2
  BY <1>3 DEF EndPass2, scanVars, Image
<1>4. CASE UNCHANGED vars
  BY <1>4 DEF vars, scanVars, Image
<1>5. QED
  BY <1>1, <1>2, <1>3, <1>4 DEF Next

----------------------------------------------------------------------------
\* A line is finished at code_loc - 1, after everything finished before.
LEMMA LineFinished ==
  ASSUME TypeOK, Lines, at = "scan"
  PROVE  /\ \A i \in 1 .. Len(FinishedRanges) :
              FinishedRanges[i][1] <= FinishedRanges[i][2]
         /\ \A i \in 1 .. Len(FinishedRanges) - 1 :
              FinishedRanges[i][2] < FinishedRanges[i + 1][1]
         /\ FinishedRanges # <<>> =>
              /\ FinishedRanges[Len(FinishedRanges)][2] < code_loc
              /\ saw_orig # 0
<1>1. CASE dbg_line_state # "started"
  BY <1>1 DEF FinishedRanges, Lines, DebugRangesOrdered
<1>2. CASE dbg_line_state = "started"
  <2> DEFINE r == <<dbg_line_start_addr, code_loc - 1>>
             L == Len(ranges)
  <2>1. FinishedRanges = Append(ranges, r)
    BY <1>2 DEF FinishedRanges
  <2>2. ranges \in Seq(Addr \X Addr)
    BY DEF TypeOK
  <2>3. /\ L \in Nat /\ Len(FinishedRanges) = L + 1
        /\ FinishedRanges[L + 1] = r
        /\ \A i \in 1 .. L : FinishedRanges[i] = ranges[i]
    BY <2>1, <2>2
  <2>4. /\ saw_orig # 0 /\ dbg_line_start_addr < code_loc
        /\ \A i \in 1 .. L : ranges[i][1] <= ranges[i][2]
        /\ \A i \in 1 .. L - 1 : ranges[i][2] < ranges[i + 1][1]
        /\ ranges # <<>> => ranges[L][2] < dbg_line_start_addr
    BY <1>2 DEF Lines, DebugRangesOrdered
  <2>5. code_loc \in Int /\ dbg_line_start_addr \in Int
    BY AddrFacts DEF TypeOK
  <2>6. r[1] = dbg_line_start_addr /\ r[2] = code_loc - 1
    OBVIOUS
  <2> HIDE DEF r
  <2>7. L # 0 => ranges # <<>>
    OBVIOUS
  <2> HIDE DEF L
  <2>8. ASSUME NEW i \in 1 .. Len(FinishedRanges)
        PROVE  FinishedRanges[i][1] <= FinishedRanges[i][2]
    BY <2>3, <2>4, <2>5, <2>6
  <2>9. ASSUME NEW i \in 1 .. Len(FinishedRanges) - 1
        PROVE  FinishedRanges[i][2] < FinishedRanges[i + 1][1]
    <3>1. CASE i = L
      BY <3>1, <2>3, <2>4, <2>5, <2>6, <2>7
    <3>2. CASE i \in 1 .. L - 1
      <4>1. FinishedRanges[i] = ranges[i] /\ FinishedRanges[i + 1] = ranges[i + 1]
        BY <3>2, <2>3
      <4>2. QED
        BY <4>1, <3>2, <2>4
    <3>3. QED
      BY <3>1, <3>2, <2>3
  <2>10. FinishedRanges[Len(FinishedRanges)][2] < code_loc
    BY <2>3, <2>5, <2>6
  <2>11. QED
    BY <2>4, <2>8, <2>9, <2>10
<1>3. QED
  BY <1>1, <1>2

\* Tokens keep the C lines in order.
LEMMA TokenLines ==
  ASSUME TypeOK, Lines, NEW t \in Token, LexToken(t)
  PROVE  Lines'
<1>1. at = "scan" /\ pass' = pass /\ pass \in {1, 2} /\ code_loc \in Addr
  BY DEF LexToken, found_label, Origin, SecondOrigin, BeforeOrigin, Reads, TypeOK,
         generate_instruction, OutOfMemory, BadLine, handle_debug, EndDirective
<1>2. ASSUME UNCHANGED <<code_loc, dbgVars>>, saw_orig # 0 => saw_orig' # 0
      PROVE  Lines'
  BY <1>1, <1>2 DEF Lines, DebugRangesOrdered, dbgVars
<1>3. CASE found_label(t) \/ BadLine(t) \/ EndDirective(t) \/ SecondOrigin(t)
             \/ BeforeOrigin(t) \/ OutOfMemory(t)
  <2>1. UNCHANGED <<code_loc, dbgVars>>
    BY <1>3 DEF found_label, BadLine, EndDirective, SecondOrigin, BeforeOrigin,
                OutOfMemory, scanVars
  <2>2. saw_orig # 0 => saw_orig' # 0
    BY <1>3 DEF found_label, BadLine, EndDirective, SecondOrigin, BeforeOrigin,
                OutOfMemory, scanVars
  <2>3. QED
    BY <2>1, <2>2, <1>2
<1>4. CASE Origin(t)
  BY <1>1, <1>4 DEF Origin, Lines, DebugRangesOrdered, dbgVars
<1>5. CASE generate_instruction(t)
  <2>1. /\ at' = at /\ saw_orig' = saw_orig /\ saw_orig # 0 /\ ranges' = ranges
        /\ code_loc' = code_loc + WordsOf(code_loc, t)
        /\ t.t \in Instructions
    BY <1>5 DEF generate_instruction
  <2>2. WordsOf(code_loc, t) \in Nat
    BY <1>1, <2>1, WordsFacts
  <2>3. code_loc \in Nat /\ code_loc' \in Nat /\ code_loc <= code_loc'
    BY <1>1, <2>1, <2>2, AddrFacts
  <2>4. ranges # <<>> => ranges[Len(ranges)][2] \in Int
    <3> SUFFICES ASSUME ranges # <<>> PROVE ranges[Len(ranges)][2] \in Int
      OBVIOUS
    <3>1. ranges \in Seq(Addr \X Addr)
      BY DEF TypeOK
    <3>2. Len(ranges) \in Nat \ {0}
      BY <3>1, FirstElement
    <3>3. ranges[Len(ranges)] \in Addr \X Addr
      BY <3>1, <3>2
    <3>4. QED
      BY <3>3, AddrFacts
  <2>5. ranges # <<>> => ranges[Len(ranges)][2] < code_loc
    BY <1>1 DEF Lines
  <2>6. CASE StartsLine(t)
    <3>1. /\ dbg_line_state' = "started" /\ dbg_line_start_addr' = code_loc
          /\ pass = 2 /\ t.t \in {"word", "ref"}
      BY <1>5, <2>6 DEF generate_instruction, StartsLine
    <3>2. code_loc' = code_loc + 1
      BY <3>1, <2>1 DEF WordsOf
    <3>3. QED
      BY <3>1, <3>2, <2>1, <2>3, <2>4, <2>5, <1>1 DEF Lines, DebugRangesOrdered
  <2>7. CASE ~StartsLine(t)
    <3>1. UNCHANGED <<dbg_line_state, dbg_line_start_addr>>
      BY <1>5, <2>7 DEF generate_instruction
    <3>2. dbg_line_start_addr \in Int
      BY AddrFacts DEF TypeOK
    <3>3. QED
      BY <3>1, <3>2, <2>1, <2>3, <2>4, <2>5, <1>1 DEF Lines, DebugRangesOrdered
  <2>8. QED
    BY <2>6, <2>7
<1>6. CASE handle_debug(t)
  <2>1. UNCHANGED <<at, code_loc, saw_orig>>
    BY <1>6 DEF handle_debug, scanVars
  <2>2. CASE pass = 1
    BY <2>1, <2>2, <1>1, <1>2, <1>6 DEF handle_debug, dbgVars
  <2>3. CASE pass = 2
    <3>1. ranges' = FinishedRanges /\ dbg_line_state' # "started"
      BY <2>3, <1>6 DEF handle_debug
    <3>2. QED
      BY <3>1, <2>1, <2>3, <1>1, LineFinished DEF Lines, DebugRangesOrdered
  <2>4. QED
    BY <2>2, <2>3, <1>1
<1>7. QED
  BY <1>3, <1>4, <1>5, <1>6 DEF LexToken

(* Every step keeps the C lines in order.                                  *)
LEMMA NextLines == TypeOK /\ Lines /\ [Next]_vars => Lines'
<1> SUFFICES ASSUME TypeOK, Lines, [Next]_vars PROVE Lines'
  OBVIOUS
<1>1. CASE Lex
  BY <1>1, TokenLines DEF Lex
<1>2. CASE EndPass1
  BY <1>2 DEF EndPass1, StartPass2, scanVars, Lines, DebugRangesOrdered
<1>3. CASE EndPass2
  <2>1. /\ at = "scan" /\ at' # "scan" /\ pass = 2 /\ pass' = 2
        /\ dbg_line_state' = dbg_line_state
        /\ ranges' = ranges \/ ranges' = FinishedRanges
    BY <1>3 DEF EndPass2
  <2>2. CASE ranges' = ranges
    BY <2>1, <2>2 DEF Lines, DebugRangesOrdered
  <2>3. CASE ranges' = FinishedRanges
    BY <2>1, <2>3, LineFinished DEF Lines, DebugRangesOrdered
  <2>4. QED
    BY <2>1, <2>2, <2>3
<1>4. CASE UNCHANGED vars
  BY <1>4 DEF vars, scanVars, dbgVars, Lines, DebugRangesOrdered
<1>5. QED
  BY <1>1, <1>2, <1>3, <1>4 DEF Next

----------------------------------------------------------------------------
\* The invariant is inductive.
THEOREM AsmInductive == Spec => []IInv
<1>1. IInv /\ [Next]_vars => IInv'
  <2> SUFFICES ASSUME IInv, [Next]_vars PROVE IInv'
    OBVIOUS
  <2>1. TypeOK' /\ Lines'
    BY NextTypes, NextLines DEF IInv
  <2>2. code_loc' \in Addr
    BY <2>1 DEF TypeOK
  <2>3. QED
    BY <2>1, <2>2, NextFollows, NextImage DEF IInv
<1>2. QED
  BY <1>1, InitIInv, PTL DEF Spec

(* Every variable of the assembler keeps its type: code_loc stays inside   *)
(* memory and no range of a C line ends before address 0 (write_value,     *)
(* handle_debug), for every size of memory.                                *)
THEOREM AsmTypeCorrect == Spec => []TypeOK
BY AsmInductive, PTL DEF IInv

(* The passes of main agree: pass 2 meets every label at the address that  *)
(* found_label gave it in pass 1.                                          *)
THEOREM PassesAlwaysAgree == Spec => []PassesAgree
<1>1. IInv => PassesAgree
  <2> SUFFICES ASSUME IInv, at = "scan", pass = 2, pos <= Len(text),
                      text[pos].t = "label"
               PROVE  symbols[text[pos].n] = code_loc
    BY DEF PassesAgree
  <2>1. PICK locs, origs :
          code_loc = locs[pos] /\ Placed(text, symbols, locs, origs)
    BY DEF IInv, Follows
  <2>2. pos \in 1 .. Len(text)
    BY DEF IInv, TypeOK
  <2>3. QED
    BY <2>1, <2>2 DEF Placed
<1>2. QED
  BY <1>1, AsmInductive, PTL

(* The object file is the memory image: its words follow the start address *)
(* without a gap (write_value).                                            *)
THEOREM ImageAlwaysContiguous == Spec => []ImageContiguous
<1>1. IInv => ImageContiguous
  BY DEF IInv, Image, ImageContiguous
<1>2. QED
  BY <1>1, AsmInductive, PTL

(* The C lines of the debug file are never empty and never overlap         *)
(* (handle_debug, write_value, main).                                      *)
THEOREM LinesAlwaysOrdered == Spec => []DebugRangesOrdered
<1>1. IInv => DebugRangesOrdered
  BY DEF IInv, Lines
<1>2. QED
  BY <1>1, AsmInductive, PTL
----------------------------------------------------------------------------
(***************************************************************************)
(* What the references mean.                                               *)
(*                                                                         *)
(* A label that pass 2 has passed is at the end of the words it had        *)
(* written by then, and words written later do not change how many those   *)
(* were.  A reference can be to a label further on, so that its meaning is *)
(* settled only when the whole text was read, which needs EndLast: .END is *)
(* the last token that either pass reads.                                  *)
(***************************************************************************)
EndLast ==
  /\ \A p \in 1 .. Len(text) :
       text[p].t = "end" => p = Len(text) /\ (pass = 1 => saw_end)
  /\ pass = 2 /\ saw_end => pos = Len(text) + 1
  /\ at = "done" => pass = 2 /\ saw_end /\ ~errors

\* A label with an address is in the text.
Known ==
  \A n \in Name : symbols[n] # NoAddr =>
    \E q \in 1 .. Len(text) : text[q].t = "label" /\ text[q].n = n

\* The words written before token q was read.
WordsBefore(q) == {i \in 2 .. Len(obj) : obj[i].pos < q}

Labels ==
  pass = 2 /\ at # "failed" =>
    /\ \A i \in 1 .. Len(obj) : 1 <= obj[i].pos /\ obj[i].pos < pos
    /\ \A q \in 1 .. Len(text) : q < pos /\ text[q].t = "label" =>
         /\ obj # <<>>
         /\ symbols[text[q].n] = obj[1].val + Cardinality(WordsBefore(q))

\* What find_label made of the reference that wrote word i.
Means(tok, loc, val) ==
  /\ tok.t = "ref" => /\ symbols[tok.n] # NoAddr
                      /\ symbols[tok.n] - (loc + 1) \in -Reach .. Reach - 1
                      /\ val = (symbols[tok.n] - (loc + 1)) % (2 * Reach)
  /\ tok.t = "fill" => symbols[tok.n] # NoAddr /\ val = symbols[tok.n]

Meant ==
  pass = 2 /\ at # "failed" /\ ~errors =>
    \A i \in 2 .. Len(obj) : Means(text[obj[i].pos], LoadedAt(i), obj[i].val)

RefInv == EndLast /\ Known /\ Labels /\ Meant

(* Each token is read in its pass, and only .END ends the pass.            *)
LEMMA TokenRead ==
  ASSUME TypeOK, NEW t \in Token, LexToken(t)
  PROVE  /\ Reads(t) /\ pass' = pass /\ at = "scan" /\ ~saw_end
         /\ at' \in {"scan", "failed"} /\ (saw_end' <=> t.t = "end")
<1>1. Reads(t) /\ pass' = pass
  BY DEF LexToken, found_label, Origin, SecondOrigin, BeforeOrigin,
         generate_instruction, OutOfMemory, BadLine, handle_debug, EndDirective
<1>2. at = "scan" /\ ~saw_end
  BY <1>1 DEF Reads
<1>3. at' \in {"scan", "failed"}
  BY <1>2 DEF LexToken, found_label, Origin, SecondOrigin, BeforeOrigin,
         generate_instruction, OutOfMemory, BadLine, handle_debug, EndDirective
<1>4. saw_end' <=> t.t = "end"
  <2>1. CASE EndDirective(t)
    BY <2>1 DEF EndDirective
  <2>2. CASE found_label(t) \/ Origin(t) \/ SecondOrigin(t) \/ BadLine(t)
             \/ handle_debug(t)
    BY <1>2, <2>2 DEF found_label, Origin, SecondOrigin, BadLine, handle_debug,
                      scanVars
  <2>3. CASE BeforeOrigin(t) \/ generate_instruction(t) \/ OutOfMemory(t)
    <3>1. saw_end' = saw_end /\ t.t \in Instructions
      BY <2>3 DEF BeforeOrigin, generate_instruction, OutOfMemory, scanVars
    <3>2. QED
      BY <1>2, <3>1 DEF Instructions
  <2>4. QED
    BY <2>1, <2>2, <2>3 DEF LexToken
<1>5. QED
  BY <1>1, <1>2, <1>3, <1>4

(* The text before the token is what it was.                               *)
LEMMA TextGrows ==
  ASSUME TypeOK, NEW t \in Token, Reads(t)
  PROVE  /\ Len(text) \in Nat /\ Len(text') \in Nat
         /\ pass = 1 => Len(text') = Len(text) + 1 /\ text'[Len(text) + 1] = t
         /\ pass = 2 => /\ text' = text /\ text[pos] = t
                        /\ pos \in 1 .. Len(text)
         /\ Len(text) <= Len(text')
         /\ \A p \in 1 .. Len(text) : text'[p] = text[p]
<1>1. text \in Seq(Token) /\ pass \in {1, 2} /\ pos \in Nat \ {0}
  BY DEF TypeOK
<1>2. CASE pass = 1
  <2>1. text' = Append(text, t)
    BY <1>2 DEF Reads
  <2>2. QED
    BY <1>1, <1>2, <2>1
<1>3. CASE pass = 2
  <2>1. text' = text /\ t = text[pos] /\ pos <= Len(text)
    BY <1>3 DEF Reads
  <2>2. QED
    BY <1>1, <1>3, <2>1
<1>4. QED
  BY <1>1, <1>2, <1>3

(* .END stays the last token of the text.                                  *)
LEMMA NextEndLast == TypeOK /\ EndLast /\ [Next]_vars => EndLast'
<1> SUFFICES ASSUME TypeOK, EndLast, [Next]_vars PROVE EndLast'
  OBVIOUS
<1>1. CASE Lex
  <2>1. PICK t \in Token : LexToken(t)
    BY <1>1 DEF Lex
  <2>2. /\ Reads(t) /\ pass' = pass /\ at' # "done" /\ pos' = pos + 1
        /\ ~saw_end /\ (saw_end' <=> t.t = "end")
    BY <2>1, TokenRead DEF Reads
  <2>3. CASE pass = 1
    <3>1. \A p \in 1 .. Len(text) : text'[p].t # "end"
      BY <2>2, <2>3, TextGrows DEF EndLast
    <3>2. QED
      BY <2>2, <2>3, <3>1, TextGrows DEF EndLast
  <2>4. CASE pass = 2
    BY <2>2, <2>4, TextGrows DEF EndLast
  <2>5. QED
    BY <2>3, <2>4 DEF TypeOK
<1>2. CASE EndPass1
  BY <1>2 DEF EndPass1, StartPass2, scanVars, EndLast
<1>3. CASE EndPass2
  BY <1>3 DEF EndPass2, scanVars, EndLast
<1>4. CASE UNCHANGED vars
  BY <1>4 DEF vars, scanVars, EndLast
<1>5. QED
  BY <1>1, <1>2, <1>3, <1>4 DEF Next

(* A label gets its address when it is read.                               *)
LEMMA NextKnown == TypeOK /\ Known /\ [Next]_vars => Known'
<1> SUFFICES ASSUME TypeOK, Known, [Next]_vars PROVE Known'
  OBVIOUS
<1>1. CASE Lex
  <2>1. PICK t \in Token : LexToken(t)
    BY <1>1 DEF Lex
  <2>2. Reads(t)
    BY <2>1, TokenRead
  <2>3. CASE symbols' = symbols
    BY <2>2, <2>3, TextGrows DEF Known
  <2>4. CASE found_label(t) /\ pass = 1 /\ symbols' = [symbols EXCEPT ![t.n] = code_loc]
    <3>1. symbols \in [Name -> Addr \cup {NoAddr}] /\ t.t = "label"
      BY <2>4 DEF TypeOK, found_label
    <3>2. SUFFICES ASSUME NEW n \in Name, symbols'[n] # NoAddr
                   PROVE  \E q \in 1 .. Len(text') :
                            text'[q].t = "label" /\ text'[q].n = n
      BY DEF Known
    <3>3. CASE n = t.n
      <4>1. Len(text) + 1 \in 1 .. Len(text') /\ text'[Len(text) + 1] = t
        BY <2>2, <2>4, TextGrows
      <4>2. QED
        BY <3>1, <3>3, <4>1
    <3>4. CASE n # t.n
      <4>1. symbols[n] # NoAddr
        BY <2>4, <3>1, <3>2, <3>4
      <4>2. QED
        BY <2>2, <4>1, TextGrows DEF Known
    <3>5. QED
      BY <3>3, <3>4
  <2>5. ~found_label(t) => symbols' = symbols
    BY <2>1 DEF LexToken, Origin, SecondOrigin, BeforeOrigin,
         generate_instruction, OutOfMemory, BadLine, handle_debug, EndDirective
  <2>6. found_label(t) => \/ symbols' = symbols
                          \/ /\ pass = 1
                             /\ symbols' = [symbols EXCEPT ![t.n] = code_loc]
    BY Zenon DEF found_label
  <2>7. QED
    BY <2>3, <2>4, <2>5, <2>6
<1>2. CASE EndPass1 \/ EndPass2
  BY <1>2 DEF EndPass1, EndPass2, Known
<1>3. CASE UNCHANGED vars
  BY <1>3 DEF vars, Known
<1>4. QED
  BY <1>1, <1>2, <1>3 DEF Next

(* The words an instruction adds to the image in pass 2.                   *)
LEMMA WordsWritten ==
  ASSUME IInv, NEW t \in Token, generate_instruction(t), pass = 2
  PROVE  /\ WordsOf(code_loc, t) \in Nat
         /\ Len(obj) \in Nat \ {0} /\ obj # <<>> /\ obj' # <<>>
         /\ Len(obj') = Len(obj) + WordsOf(code_loc, t)
         /\ \A i \in 1 .. Len(obj) : obj'[i] = obj[i]
         /\ \A i \in Len(obj) + 1 .. Len(obj') :
              obj'[i] = [pos |-> pos, val |-> ValueOf(t)]
<1> DEFINE w == WordsOf(code_loc, t)
           word == [pos |-> pos, val |-> ValueOf(t)]
           new == [i \in 1 .. w |-> word]
<1>1. TypeOK /\ Image
  BY DEF IInv
<1>2. /\ t.t \in Instructions /\ saw_orig # 0 /\ at = "scan"
      /\ obj' = obj \o new
  BY DEF generate_instruction, Reads
<1>3. w \in Nat
  BY <1>1, <1>2, WordsFacts DEF TypeOK
<1>4. obj # <<>> /\ obj \in Seq([pos : Nat, val : Nat])
  BY <1>1, <1>2 DEF Image, TypeOK
<1>5. word \in [pos : Nat, val : Nat]
  BY <1>1, <1>2, ValueTypes DEF TypeOK
<1> HIDE DEF word, w
<1>6. new \in Seq([pos : Nat, val : Nat]) /\ Len(new) = w
      /\ \A i \in 1 .. w : new[i] = word
  BY <1>3, <1>5
<1> HIDE DEF new
<1>7. Len(obj) \in Nat \ {0}
  BY <1>4, FirstElement
<1>8. /\ Len(obj') = Len(obj) + w /\ obj' # <<>>
      /\ \A i \in 1 .. Len(obj) + w :
           obj'[i] = IF i <= Len(obj) THEN obj[i] ELSE new[i - Len(obj)]
  BY <1>2, <1>4, <1>6, ConcatProperties, LengthAdds
<1>9. \A i \in 1 .. Len(obj) : obj'[i] = obj[i]
  BY <1>3, <1>7, <1>8
<1>10. \A i \in Len(obj) + 1 .. Len(obj') : obj'[i] = word
  BY <1>3, <1>6, <1>7, <1>8
<1>11. QED
  BY <1>3, <1>4, <1>7, <1>8, <1>9, <1>10 DEF w, word

(* All words written before the next token are counted there.              *)
LEMMA CountAll ==
  ASSUME TypeOK, obj # <<>>, \A i \in 1 .. Len(obj) : obj[i].pos < pos
  PROVE  Cardinality(WordsBefore(pos)) = Len(obj) - 1
<1>1. Len(obj) \in Nat \ {0}
  BY FirstElement DEF TypeOK
<1>2. WordsBefore(pos) = 2 .. Len(obj)
  BY <1>1 DEF WordsBefore
<1>3. QED
  BY <1>1, <1>2, FS_Interval

(* Pass 2 meets a label where the image it has written ends.               *)
LEMMA LabelHere ==
  ASSUME IInv, Labels, NEW t \in Token, found_label(t), pass = 2
  PROVE  /\ obj # <<>>
         /\ symbols[t.n] = obj[1].val + Cardinality(WordsBefore(pos))
<1>1. /\ at = "scan" /\ at' = "scan" /\ ~saw_end /\ pos <= Len(text)
      /\ t = text[pos] /\ t.t = "label" /\ LexToken(t)
  BY DEF found_label, Reads, LexToken
<1>2. CleanToken(saw_orig, t)
  BY <1>1, FollowsInPass2 DEF IInv
<1>3. obj # <<>> /\ code_loc = obj[1].val + Len(obj) - 1
  BY <1>1, <1>2 DEF IInv, Image, CleanToken
<1>4. PICK locs, origs :
        code_loc = locs[pos] /\ Placed(text, symbols, locs, origs)
  BY <1>1 DEF IInv, Follows
<1>5. symbols[t.n] = code_loc
  <2>1. pos \in 1 .. Len(text)
    BY <1>1 DEF IInv, TypeOK
  <2>2. QED
    BY <1>1, <1>4, <2>1 DEF Placed
<1>6. Cardinality(WordsBefore(pos)) = Len(obj) - 1
  BY <1>1, <1>3, CountAll DEF IInv, Labels
<1>7. obj[1].val \in Nat /\ Len(obj) \in Nat
  <2>1. obj[1] \in [pos : Nat, val : Nat] /\ Len(obj) \in Nat \ {0}
    BY <1>3, FirstElement DEF IInv, TypeOK
  <2>2. QED
    BY <2>1
<1>8. QED
  BY <1>3, <1>5, <1>6, <1>7

(* Words written later leave the place of a label that was passed.         *)
LEMMA TokenPlaces ==
  ASSUME IInv, Labels, NEW t \in Token, LexToken(t), pass = 2, at' = "scan"
  PROVE  Labels'
<1>1. /\ Reads(t) /\ pass' = 2 /\ at = "scan" /\ pos' = pos + 1
      /\ text' = text /\ text[pos] = t /\ pos \in 1 .. Len(text)
      /\ symbols' = symbols /\ Len(text) \in Nat
  BY TokenRead, TextGrows, TokenLabels DEF IInv, Reads
<1>2. /\ \A i \in 1 .. Len(obj) : 1 <= obj[i].pos /\ obj[i].pos < pos
      /\ \A q \in 1 .. Len(text) : q < pos /\ text[q].t = "label" =>
           /\ obj # <<>>
           /\ symbols[text[q].n] = obj[1].val + Cardinality(WordsBefore(q))
  BY <1>1 DEF Labels
<1>3. Len(obj) \in Nat /\ \A i \in 1 .. Len(obj) : obj[i].pos \in Nat
  <2>1. obj \in Seq([pos : Nat, val : Nat])
    BY DEF IInv, TypeOK
  <2>2. \A i \in 1 .. Len(obj) : obj[i] \in [pos : Nat, val : Nat]
    BY <2>1, Elements, Zenon
  <2>3. QED
    BY <2>1, <2>2
<1>4. SUFFICES
        /\ \A i \in 1 .. Len(obj') : 1 <= obj'[i].pos /\ obj'[i].pos < pos + 1
        /\ \A q \in 1 .. Len(text) : q < pos + 1 /\ text[q].t = "label" =>
             /\ obj' # <<>>
             /\ symbols[text[q].n] = obj'[1].val + Cardinality(WordsBefore(q)')
  BY <1>1 DEF Labels, WordsBefore
<1>5. CASE obj' = obj /\ (t.t = "label" => found_label(t))
  <2>1. \A q : WordsBefore(q)' = WordsBefore(q)
    BY <1>5 DEF WordsBefore
  <2>2. \A i \in 1 .. Len(obj') : 1 <= obj'[i].pos /\ obj'[i].pos < pos + 1
    BY <1>1, <1>2, <1>3, <1>5
  <2>3. ASSUME NEW q \in 1 .. Len(text), q < pos + 1, text[q].t = "label"
        PROVE  /\ obj # <<>>
               /\ symbols[text[q].n] = obj[1].val + Cardinality(WordsBefore(q))
    <3>1. CASE q = pos
      BY <1>1, <1>5, <2>3, <3>1, LabelHere
    <3>2. CASE q # pos
      BY <1>1, <1>2, <2>3, <3>2
    <3>3. QED
      BY <3>1, <3>2
  <2>4. QED
    BY <1>5, <2>1, <2>2, <2>3
<1>6. CASE Origin(t) /\ obj' # obj
  <2>1. t.t = "orig" /\ obj' = Append(obj, [pos |-> pos, val |-> t.v]) /\ saw_orig = 0
    BY <1>1, <1>6 DEF Origin
  <2>2. obj = <<>>
    BY <1>1, <2>1 DEF IInv, Image
  <2>3. obj' = <<[pos |-> pos, val |-> t.v]>>
    BY <2>1, <2>2
  <2>4. \A i \in 1 .. Len(obj') : 1 <= obj'[i].pos /\ obj'[i].pos < pos + 1
    BY <1>1, <2>3
  <2>5. \A q \in 1 .. Len(text) : q < pos + 1 => text[q].t # "label"
    BY <1>1, <1>2, <2>1, <2>2
  <2>6. QED
    BY <2>4, <2>5
<1>7. CASE generate_instruction(t)
  <2>1. /\ Len(obj) \in Nat \ {0} /\ obj # <<>> /\ obj' # <<>>
        /\ WordsOf(code_loc, t) \in Nat
        /\ Len(obj') = Len(obj) + WordsOf(code_loc, t)
        /\ \A i \in 1 .. Len(obj) : obj'[i] = obj[i]
        /\ \A i \in Len(obj) + 1 .. Len(obj') : obj'[i].pos = pos
    <3>1. \A i \in Len(obj) + 1 .. Len(obj') :
            obj'[i] = [pos |-> pos, val |-> ValueOf(t)]
      BY <1>7, WordsWritten, Zenon
    <3>2. \A i \in Len(obj) + 1 .. Len(obj') : obj'[i].pos = pos
      BY <3>1
    <3>3. QED
      BY <1>7, <3>2, WordsWritten, Zenon
  <2>2. t.t # "label"
    BY <1>7 DEF generate_instruction, Instructions
  <2>3. \A i \in 1 .. Len(obj') : 1 <= obj'[i].pos /\ obj'[i].pos < pos + 1
    BY <1>1, <1>2, <1>3, <2>1
  <2>4. ASSUME NEW q \in 1 .. Len(text), q < pos + 1, text[q].t = "label"
        PROVE  /\ obj' # <<>>
               /\ symbols[text[q].n] = obj'[1].val + Cardinality(WordsBefore(q)')
    <3>1. q < pos
      BY <1>1, <2>2, <2>4
    <3>2. WordsBefore(q)' = WordsBefore(q)
      BY <1>1, <2>1, <3>1 DEF WordsBefore
    <3>3. obj'[1] = obj[1]
      BY <2>1
    <3>4. QED
      BY <1>2, <2>1, <2>4, <3>1, <3>2, <3>3
  <2>5. QED
    BY <2>3, <2>4
<1>8. \/ obj' = obj /\ (t.t = "label" => found_label(t))
      \/ Origin(t) \/ generate_instruction(t)
  BY DEF LexToken, found_label, Origin, SecondOrigin, BeforeOrigin,
         generate_instruction, OutOfMemory, BadLine, handle_debug, EndDirective,
         Instructions
<1>9. CASE Origin(t) /\ obj' = obj
  BY <1>5, <1>9 DEF Origin
<1>10. QED
  BY <1>5, <1>6, <1>7, <1>8, <1>9

(* The place of a label that pass 2 has passed is kept by every step.      *)
LEMMA NextPlaces == IInv /\ Labels /\ [Next]_vars => Labels'
<1> SUFFICES ASSUME IInv, Labels, [Next]_vars PROVE Labels'
  OBVIOUS
<1>1. CASE Lex
  <2>1. PICK t \in Token : LexToken(t)
    BY <1>1 DEF Lex
  <2>2. pass' = pass /\ at' \in {"scan", "failed"}
    BY <2>1, TokenRead DEF IInv
  <2>3. CASE pass = 2 /\ at' = "scan"
    BY <2>1, <2>3, TokenPlaces
  <2>4. CASE ~(pass = 2 /\ at' = "scan")
    BY <2>2, <2>4 DEF Labels
  <2>5. QED
    BY <2>3, <2>4
<1>2. CASE EndPass1
  <2>1. CASE pass' = 2
    <3>1. obj' = <<>> /\ pos' = 1
      BY <1>2, <2>1 DEF EndPass1, StartPass2, IInv, Image
    <3>2. QED
      BY <3>1 DEF Labels
  <2>2. CASE pass' # 2
    BY <2>2 DEF Labels
  <2>3. QED
    BY <2>1, <2>2
<1>3. CASE EndPass2
  BY <1>3 DEF EndPass2, Labels, WordsBefore
<1>4. CASE UNCHANGED vars
  BY <1>4 DEF vars, Labels, WordsBefore
<1>5. QED
  BY <1>1, <1>2, <1>3, <1>4 DEF Next

(* A word that refers to a label means it when it is written.              *)
LEMMA MeansHere ==
  ASSUME TypeOK, NEW t \in Token, pass = 2, ~LabelError(t)
  PROVE  Means(t, code_loc, ValueOf(t))
<1>1. CASE t.t = "ref"
  BY <1>1 DEF Means, LabelError, ValueOf, Distance
<1>2. CASE t.t = "fill"
  BY <1>2 DEF Means, LabelError, ValueOf
<1>3. CASE t.t \notin {"ref", "fill"}
  BY <1>3 DEF Means
<1>4. QED
  BY <1>1, <1>2, <1>3

(* The words that an instruction adds mean what they refer to.             *)
LEMMA TokenMeant ==
  ASSUME IInv, Meant, NEW t \in Token, generate_instruction(t),
         pass = 2, ~errors'
  PROVE  \A i \in 2 .. Len(obj') :
           Means(text[obj'[i].pos], LoadedAt(i)', obj'[i].val)
<1>1. /\ at = "scan" /\ ~errors /\ ~LabelError(t) /\ text[pos] = t
      /\ saw_orig # 0
  BY DEF generate_instruction, Reads
<1>2. /\ WordsOf(code_loc, t) \in Nat
      /\ Len(obj) \in Nat \ {0} /\ obj # <<>>
      /\ Len(obj') = Len(obj) + WordsOf(code_loc, t)
      /\ \A i \in 1 .. Len(obj) : obj'[i] = obj[i]
  BY WordsWritten, Zenon
<1>3. \A i \in Len(obj) + 1 .. Len(obj') :
        obj'[i] = [pos |-> pos, val |-> ValueOf(t)]
  BY WordsWritten, Zenon
<1>4. obj'[1] = obj[1] /\ \A i : LoadedAt(i)' = LoadedAt(i)
  BY <1>2 DEF LoadedAt
<1>5. code_loc = obj[1].val + Len(obj) - 1
  BY <1>1, <1>2 DEF IInv, Image
<1>6. obj[1].val \in Nat
  <2>1. obj[1] \in [pos : Nat, val : Nat]
    BY <1>2, FirstElement DEF IInv, TypeOK
  <2>2. QED
    BY <2>1
<1>7. SUFFICES ASSUME NEW i \in 2 .. Len(obj')
               PROVE  Means(text[obj'[i].pos], LoadedAt(i), obj'[i].val)
  BY <1>4
<1>8. CASE i <= Len(obj)
  <2>1. i \in 2 .. Len(obj) /\ obj'[i] = obj[i]
    BY <1>2, <1>8
  <2>2. QED
    BY <1>1, <2>1 DEF Meant
<1>9. CASE ~(i <= Len(obj))
  <2>1. i \in Len(obj) + 1 .. Len(obj')
    BY <1>2, <1>9
  <2>2. obj'[i].pos = pos /\ obj'[i].val = ValueOf(t)
    BY <1>3, <2>1
  <2>3. CASE t.t \in {"ref", "fill"}
    <3>1. WordsOf(code_loc, t) = 1
      BY <2>3 DEF WordsOf
    <3>2. i = Len(obj) + 1
      BY <1>2, <2>1, <3>1
    <3>3. LoadedAt(i) = code_loc
      BY <1>2, <1>5, <1>6, <3>2 DEF LoadedAt
    <3>4. QED
      BY <1>1, <2>2, <3>3, MeansHere DEF IInv
  <2>4. CASE t.t \notin {"ref", "fill"}
    BY <1>1, <2>2, <2>4 DEF Means
  <2>5. QED
    BY <2>3, <2>4
<1>10. QED
  BY <1>8, <1>9

(* Every word goes on meaning what it meant.                               *)
LEMMA NextMeant == IInv /\ Meant /\ [Next]_vars => Meant'
<1> SUFFICES ASSUME IInv, Meant, [Next]_vars, pass' = 2, at' # "failed", ~errors'
             PROVE  \A i \in 2 .. Len(obj') :
                      Means(text[obj[i].pos], LoadedAt(i), obj[i].val)'
  BY DEF Meant
<1>1. ASSUME UNCHANGED <<obj, text, symbols>>, pass = 2, at # "failed", ~errors
      PROVE  \A i \in 2 .. Len(obj') :
               Means(text[obj[i].pos], LoadedAt(i), obj[i].val)'
  BY <1>1 DEF Meant, Means, LoadedAt
<1>2. CASE Lex
  <2>1. PICK t \in Token : LexToken(t)
    BY <1>2 DEF Lex
  <2>2. /\ pass = 2 /\ at = "scan" /\ at' = "scan" /\ text' = text
        /\ symbols' = symbols /\ ~errors
    BY <2>1, TokenRead, TextGrows, TokenLabels DEF IInv
  <2>3. CASE generate_instruction(t)
    <3>1. \A i \in 2 .. Len(obj') :
            Means(text[obj'[i].pos], LoadedAt(i)', obj'[i].val)
      BY <2>2, <2>3, TokenMeant
    <3>2. QED
      BY <2>2, <3>1 DEF Means
  <2>4. CASE Origin(t) /\ obj' # obj
    <3>1. obj' = Append(obj, [pos |-> pos, val |-> t.v]) /\ saw_orig = 0
      BY <2>4 DEF Origin
    <3>2. obj = <<>>
      BY <2>2, <3>1 DEF IInv, Image
    <3>3. Len(obj') = 1
      BY <3>1, <3>2
    <3>4. QED
      BY <3>3
  <2>5. CASE obj' = obj
    BY <1>1, <2>2, <2>5
  <2>6. generate_instruction(t) \/ Origin(t) \/ obj' = obj
    BY <2>1 DEF LexToken, found_label, SecondOrigin, BeforeOrigin, OutOfMemory,
                BadLine, handle_debug, EndDirective
  <2>7. QED
    BY <2>3, <2>4, <2>5, <2>6
<1>3. CASE EndPass1
  <2>1. obj' = <<>>
    BY <1>3 DEF EndPass1, IInv, Image
  <2>2. QED
    BY <2>1
<1>4. CASE EndPass2
  BY <1>1, <1>4 DEF EndPass2, scanVars
<1>5. CASE UNCHANGED vars
  BY <1>1, <1>5 DEF vars, scanVars
<1>6. QED
  BY <1>2, <1>3, <1>4, <1>5 DEF Next

(* The field of a PC-relative instruction has the distance back, when it   *)
(* is in the field's reach.                                                *)
LEMMA FieldExact ==
  ASSUME NEW d \in -Reach .. Reach - 1
  PROVE  SignExtended(d % (2 * Reach)) = d
<1>1. Reach \in Nat \ {0} /\ d \in Int /\ -Reach <= d /\ d < Reach
  BY AsmConstants
<1>2. CASE d >= 0
  <2>1. d % (2 * Reach) = d
    BY <1>1, <1>2
  <2>2. QED
    BY <1>1, <1>2, <2>1 DEF SignExtended
<1>3. CASE d < 0
  <2>1. d % (2 * Reach) = d + 2 * Reach
    BY <1>1, <1>3
  <2>2. QED
    BY <1>1, <1>3, <2>1 DEF SignExtended
<1>4. QED
  BY <1>1, <1>2, <1>3

(* In a finished object file a label with an address is where the image    *)
(* has it.                                                                 *)
LEMMA PlaceKnown ==
  ASSUME IInv, RefInv, at = "done", NEW n \in Name, symbols[n] # NoAddr
  PROVE  symbols[n] = PlaceOf(n)
<1> DEFINE IsPlace(q) == text[q].t = "label" /\ text[q].n = n
           p == CHOOSE q \in 1 .. Len(text) : IsPlace(q)
<1>1. \E q \in 1 .. Len(text) : IsPlace(q)
  BY DEF RefInv, Known
<1>2. p \in 1 .. Len(text) /\ IsPlace(p)
  BY <1>1
<1>3. PlaceOf(n) = obj[1].val + Cardinality(WordsBefore(p))
  BY DEF PlaceOf, WordsBefore
<1> HIDE DEF p
<1>4. pass = 2 /\ pos = Len(text) + 1 /\ Len(text) \in Nat
  BY DEF RefInv, EndLast, IInv, TypeOK
<1>5. p < pos
  BY <1>2, <1>4
<1>6. QED
  BY <1>2, <1>3, <1>4, <1>5 DEF RefInv, Labels

(* The invariant of the references holds of every reachable state.         *)
THEOREM RefsInductive == Spec => [](IInv /\ RefInv)
<1>1. Init => RefInv
  BY DEF Init, RefInv, EndLast, Known, Labels, Meant
<1>2. IInv /\ RefInv /\ [Next]_vars => RefInv'
  BY NextEndLast, NextKnown, NextPlaces, NextMeant DEF IInv, RefInv
<1>3. QED
  BY <1>1, <1>2, AsmInductive, PTL DEF Spec

(* In every finished object file, every reference means its label: the PC  *)
(* plus the sign-extended field, or the word of a .FILL, is the place      *)
(* where the image has the code after the label (find_label, main).        *)
THEOREM RefsAlwaysResolve == Spec => []RefsResolve
<1>1. IInv /\ RefInv => RefsResolve
  <2> SUFFICES ASSUME IInv, RefInv, at = "done", NEW i \in 2 .. Len(obj)
               PROVE  LET tok == text[obj[i].pos] IN
                        /\ tok.t = "ref" =>
                             LoadedAt(i) + 1 + SignExtended(obj[i].val) = PlaceOf(tok.n)
                        /\ tok.t = "fill" => obj[i].val = PlaceOf(tok.n)
    BY DEF RefsResolve
  <2> DEFINE tok == text[obj[i].pos]
             d == symbols[tok.n] - (LoadedAt(i) + 1)
  <2>1. pass = 2 /\ ~errors
    BY DEF RefInv, EndLast
  <2>2. Means(tok, LoadedAt(i), obj[i].val)
    BY <2>1 DEF RefInv, Meant
  <2>3. obj \in Seq([pos : Nat, val : Nat]) /\ obj # <<>> /\ Len(obj) \in Nat
    BY DEF IInv, TypeOK
  <2>4. obj[1] \in [pos : Nat, val : Nat]
    BY <2>3, FirstElement, Zenon
  <2>5. LoadedAt(i) \in Int
    BY <2>3, <2>4 DEF LoadedAt
  <2>6. tok.t \in {"ref", "fill"} => tok.n \in Name
    <3>1. pos = Len(text) + 1 /\ Len(text) \in Nat /\ text \in Seq(Token)
      BY <2>1 DEF RefInv, EndLast, IInv, TypeOK
    <3>2. obj[i] \in [pos : Nat, val : Nat]
      <4>1. i \in 1 .. Len(obj)
        BY <2>3
      <4>2. QED
        BY <2>3, <4>1, Elements, Zenon
    <3>3. 1 <= obj[i].pos /\ obj[i].pos < pos
      BY <2>1, <2>3 DEF RefInv, Labels
    <3>4. obj[i].pos \in 1 .. Len(text)
      BY <3>1, <3>2, <3>3
    <3>5. tok \in Token
      BY <3>1, <3>4, Elements
    <3> HIDE DEF tok
    <3>6. QED
      BY <3>5, TokenFacts
  <2> HIDE DEF tok
  <2>7. CASE tok.t = "ref"
    <3>1. /\ symbols[tok.n] # NoAddr /\ d \in -Reach .. Reach - 1
          /\ obj[i].val = d % (2 * Reach)
      BY <2>2, <2>7 DEF Means
    <3>2. symbols[tok.n] = PlaceOf(tok.n) /\ symbols[tok.n] \in Int
      <4>1. symbols \in [Name -> Addr \cup {NoAddr}] /\ tok.n \in Name
        BY <2>6, <2>7 DEF IInv, TypeOK
      <4>2. QED
        BY <3>1, <4>1, PlaceKnown, AddrFacts
    <3>3. SignExtended(obj[i].val) = d
      BY <3>1, FieldExact
    <3>4. QED
      BY <2>5, <2>7, <3>2, <3>3 DEF tok
  <2>8. CASE tok.t = "fill"
    <3>1. symbols[tok.n] # NoAddr /\ obj[i].val = symbols[tok.n]
      BY <2>2, <2>8 DEF Means
    <3>2. symbols[tok.n] = PlaceOf(tok.n)
      BY <2>6, <2>8, <3>1, PlaceKnown
    <3>3. QED
      BY <2>8, <3>1, <3>2 DEF tok
  <2>9. QED
    BY <2>7, <2>8 DEF tok
<1>2. QED
  BY <1>1, RefsInductive, PTL
=============================================================================
