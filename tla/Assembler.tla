----------------------------- MODULE Assembler -----------------------------
(***************************************************************************)
(* The two passes of the LC-3 assembler lc3tools/lc3.f.  Pass 1 places the *)
(* labels, pass 2 reads the same text again and writes the object file     *)
(* (and, in the builds that have it, the debug file).                      *)
(*                                                                         *)
(* The text is any sequence of tokens, chosen while pass 1 reads it.  A    *)
(* token is a label, or what the lexer makes of the rest of a line:        *)
(*   word   an instruction of one word that refers to no label             *)
(*   ref    an instruction that refers to a label, relative to the PC      *)
(*   fill   .FILL with a label                                             *)
(*   blkw   .BLKW or .STRINGZ, v words                                     *)
(*   blkwto .BLKWTO, up to address v                                       *)
(*   wrong  an instruction or directive whose constant is refused, and v   *)
(*          words of code all the same: .BLKW uses an uninitialized count  *)
(*   bad    a line that is refused as a whole                              *)
(*   orig, wrongorig   .ORIG v, .ORIG whose constant is refused            *)
(*   line, lineend     .DEBUG LINE, .DEBUG LINEEND                         *)
(*   end    .END                                                           *)
(***************************************************************************)
EXTENDS Integers, Sequences, FiniteSets

CONSTANTS
  MemSize,      \* LC3_ADDR_MASK + 1
  Default,      \* code_loc before .ORIG (x3000)
  Reach,        \* 2^(bits-1) for the bits of a PC-relative field
  Name,         \* labels, up to case
  NoAddr,       \* the label is not in the symbol table
  Kinds,        \* bound: kinds of token in the text
  Values,       \* bound: constants in the text
  MaxTokens     \* bound: length of the text

Addr == 0 .. MemSize - 1

ASSUME AsmConstants ==
  /\ MemSize \in Nat \ {0}
  /\ Default \in Addr
  /\ Reach \in Nat \ {0}
  /\ NoAddr \notin Addr
  /\ Values \subseteq Addr
  /\ MaxTokens \in Nat

Token ==
  [t : Kinds \cap {"label", "ref", "fill"}, n : Name]
    \cup [t : Kinds \cap {"blkw", "blkwto", "wrong", "orig"}, v : Values]
    \cup [t : Kinds \cap {"word", "bad", "wrongorig", "line", "lineend", "end"}]

VARIABLES
  at,        \* "scan", or the exit of the process: "failed" or "done"
  pass,      \* 1 or 2
  text,      \* the tokens read by pass 1
  pos,       \* position of the next token
  saw_orig,  \* 0, 1, or 2 once a missing or second .ORIG was reported
  saw_end,
  errors,    \* num_errors > 0
  code_loc,
  symbols,   \* the symbol table: addresses of the labels
  obj,       \* the object file: words with the token that wrote them
  dbg_line_state,
  dbg_line_start_addr,
  ranges     \* the C line ranges of the debug file

scanVars == <<saw_orig, saw_end, errors, code_loc>>
dbgVars  == <<dbg_line_state, dbg_line_start_addr, ranges>>
vars == <<at, pass, text, pos, scanVars, symbols, obj, dbgVars>>

Init ==
  /\ at = "scan" /\ pass = 1
  /\ text = <<>> /\ pos = 1
  /\ saw_orig = 0 /\ saw_end = FALSE /\ errors = FALSE
  /\ code_loc = Default
  /\ symbols = [n \in Name |-> NoAddr]
  /\ obj = <<>>
  /\ dbg_line_state = "none" /\ dbg_line_start_addr = 0 /\ ranges = <<>>

----------------------------------------------------------------------------
\* The lexer delivers token t: a new one in pass 1, the same ones in pass 2.
Reads(t) ==
  /\ at = "scan" /\ ~saw_end
  /\ pos' = pos + 1
  /\ IF pass = 1 THEN Len(text) < MaxTokens /\ text' = Append(text, t)
                 ELSE pos <= Len(text) /\ t = text[pos] /\ UNCHANGED text

(***************************************************************************)
(* write_value and the words that a token makes of it.                     *)
(***************************************************************************)
\* The number of words an instruction or directive t writes at loc.
WordsOf(loc, t) ==
  CASE t.t \in {"word", "ref", "fill"} -> 1
    [] t.t \in {"blkw", "wrong"}       -> t.v
    [] t.t = "blkwto" -> IF loc > t.v THEN 0 ELSE t.v - loc

\* Mutant: the PC is taken for the address of the instruction.
MutDistance(n) == symbols[n] - code_loc

\* The distance of a label from the incremented PC (find_label).
Distance(n) == symbols[n] - (code_loc + 1)

\* find_label reports an error; in pass 1 it does not even look.
LabelError(t) ==
  /\ pass = 2 /\ t.t \in {"ref", "fill"}
  /\ \/ symbols[t.n] = NoAddr
     \/ t.t = "ref" /\ Distance(t.n) \notin -Reach .. Reach - 1

\* The value of the words token t writes, with the field's bits kept.
ValueOf(t) ==
  CASE t.t = "ref" /\ ~LabelError(t)  -> Distance(t.n) % (2 * Reach)
    [] t.t = "fill" /\ ~LabelError(t) -> symbols[t.n]
    [] OTHER                          -> 0

\* write_value starts a C line when the word counts for debugging.
StartsLine(t) ==
  pass = 2 /\ t.t \in {"word", "ref"} /\ dbg_line_state = "parsed"

Instructions == {"word", "ref", "fill", "blkw", "blkwto", "wrong"}

\* write_value gives up when the word at the end of memory is used.
Overflows(t) == code_loc + WordsOf(code_loc, t) >= MemSize

(***************************************************************************)
(* The rules of the lexer.                                                 *)
(***************************************************************************)
found_label(t) ==
  /\ t.t = "label" /\ Reads(t)
  /\ IF pass = 1 /\ saw_orig # 0 /\ symbols[t.n] = NoAddr
     THEN symbols' = [symbols EXCEPT ![t.n] = code_loc] /\ UNCHANGED errors
     ELSE errors' = (errors \/ pass = 1) /\ UNCHANGED symbols
  /\ UNCHANGED <<at, pass, saw_orig, saw_end, code_loc, obj, dbgVars>>

\* Mutant: the word with the start address counts as code.
MutOriginCounts(t) ==
  /\ t.t = "orig" /\ saw_orig = 0 /\ Reads(t)
  /\ saw_orig' = 1
  /\ code_loc' = (t.v + 1) % MemSize
  /\ obj' = IF pass = 2 THEN Append(obj, [pos |-> pos, val |-> t.v]) ELSE obj
  /\ UNCHANGED <<at, errors, pass, saw_end, symbols, dbgVars>>

\* generate_instruction for the first .ORIG.
Origin(t) ==
  /\ t.t \in {"orig", "wrongorig"} /\ saw_orig = 0 /\ Reads(t)
  /\ saw_orig' = 1
  /\ IF t.t = "wrongorig"
     THEN /\ code_loc' = Default /\ errors' = TRUE
          /\ UNCHANGED <<at, obj>>
     ELSE /\ code_loc' = t.v   \* write_value advances it, the caller goes back
          /\ at' = IF t.v = MemSize - 1 THEN "failed" ELSE at
          /\ obj' = IF pass = 2 /\ at' = "scan"
                    THEN Append(obj, [pos |-> pos, val |-> t.v]) ELSE obj
          /\ UNCHANGED errors
  /\ UNCHANGED <<pass, saw_end, symbols, dbgVars>>

\* A further .ORIG is reported at most once, and never counted as an error.
SecondOrigin(t) ==
  /\ t.t \in {"orig", "wrongorig"} /\ saw_orig # 0 /\ Reads(t)
  /\ saw_orig' = 2
  /\ UNCHANGED <<at, pass, saw_end, errors, code_loc, symbols, obj, dbgVars>>

BeforeOrigin(t) ==
  /\ t.t \in Instructions /\ saw_orig = 0 /\ Reads(t)
  /\ saw_orig' = 2 /\ errors' = TRUE
  /\ UNCHANGED <<at, pass, saw_end, code_loc, symbols, obj, dbgVars>>

\* generate_instruction, with the words it writes.
generate_instruction(t) ==
  /\ t.t \in Instructions /\ saw_orig # 0 /\ ~Overflows(t) /\ Reads(t)
  /\ code_loc' = code_loc + WordsOf(code_loc, t)
  /\ errors' = \/ errors \/ t.t = "wrong" \/ LabelError(t)
               \/ t.t = "blkwto" /\ code_loc > t.v
  /\ obj' = IF pass = 1 THEN obj
            ELSE obj \o [i \in 1 .. WordsOf(code_loc, t) |->
                           [pos |-> pos, val |-> ValueOf(t)]]
  /\ IF StartsLine(t)
     THEN dbg_line_state' = "started" /\ dbg_line_start_addr' = code_loc
     ELSE UNCHANGED <<dbg_line_state, dbg_line_start_addr>>
  /\ UNCHANGED <<at, pass, saw_orig, saw_end, symbols, ranges>>

\* The exit in write_value; the words before the end of memory do not matter.
OutOfMemory(t) ==
  /\ t.t \in Instructions /\ saw_orig # 0 /\ Overflows(t) /\ Reads(t)
  /\ at' = "failed"
  /\ UNCHANGED <<pass, scanVars, symbols, obj, dbgVars>>

\* bad_operands, bad_line, unterminated_string.
BadLine(t) ==
  /\ t.t = "bad" /\ Reads(t)
  /\ errors' = TRUE
  /\ UNCHANGED <<at, pass, saw_orig, saw_end, code_loc, symbols, obj, dbgVars>>

\* Mutant: a line's range ends at the next instruction, not before it.
MutFinishedRanges ==
  IF dbg_line_state = "started"
  THEN Append(ranges, <<dbg_line_start_addr, code_loc>>) ELSE ranges

\* The range of a pending C line ends before code_loc.
FinishedRanges ==
  IF dbg_line_state = "started"
  THEN Append(ranges, <<dbg_line_start_addr, code_loc - 1>>) ELSE ranges

handle_debug(t) ==
  /\ t.t \in {"line", "lineend"} /\ Reads(t)
  /\ IF pass = 1 THEN UNCHANGED <<ranges, dbg_line_state>>
     ELSE /\ ranges' = FinishedRanges
          /\ dbg_line_state' = IF t.t = "line" THEN "parsed" ELSE "none"
  /\ UNCHANGED <<at, pass, scanVars, symbols, obj, dbg_line_start_addr>>

EndDirective(t) ==
  /\ t.t = "end" /\ Reads(t)
  /\ saw_end' = TRUE
  /\ UNCHANGED <<at, pass, saw_orig, errors, code_loc, symbols, obj, dbgVars>>

(***************************************************************************)
(* main, after each call of yylex.                                         *)
(***************************************************************************)
\* Mutant: saw_orig is not reset for the second pass.
MutKeepsOrigin ==
  /\ pass' = 2 /\ pos' = 1
  /\ dbg_line_state' = "none"
  /\ saw_end' = FALSE /\ errors' = FALSE
  /\ code_loc' = Default
  /\ UNCHANGED <<at, saw_orig>>

StartPass2 ==
  /\ pass' = 2 /\ pos' = 1
  /\ dbg_line_state' = "none"
  /\ saw_orig' = 0 /\ saw_end' = FALSE /\ errors' = FALSE
  /\ code_loc' = Default
  /\ UNCHANGED at

\* Pass 1 reaches .END or, without one, the end of the file.
EndPass1 ==
  /\ at = "scan" /\ pass = 1
  /\ IF errors \/ saw_orig = 0 \/ ~saw_end
     THEN at' = "failed" /\ UNCHANGED <<pass, pos, scanVars, dbg_line_state>>
     ELSE StartPass2
  /\ UNCHANGED <<text, symbols, obj, dbg_line_start_addr, ranges>>

EndPass2 ==
  /\ at = "scan" /\ pass = 2 /\ saw_end
  /\ at' = IF errors THEN "failed" ELSE "done"
  /\ ranges' = IF errors THEN ranges ELSE FinishedRanges
  /\ UNCHANGED <<pass, text, pos, scanVars, symbols, obj, dbg_line_state,
                 dbg_line_start_addr>>

LexToken(t) ==
  \/ found_label(t) \/ Origin(t) \/ SecondOrigin(t) \/ BeforeOrigin(t)
  \/ generate_instruction(t) \/ OutOfMemory(t) \/ BadLine(t)
  \/ handle_debug(t) \/ EndDirective(t)

Lex == \E t \in Token : LexToken(t)

Next == Lex \/ EndPass1 \/ EndPass2

Spec == Init /\ [][Next]_vars

----------------------------------------------------------------------------
\* Every variable keeps its type; code_loc in particular stays an address.
TypeOK ==
  /\ at \in {"scan", "failed", "done"}
  /\ pass \in {1, 2}
  /\ text \in Seq(Token)
  /\ pos \in Nat \ {0}
  /\ saw_orig \in {0, 1, 2}
  /\ saw_end \in BOOLEAN /\ errors \in BOOLEAN
  /\ code_loc \in Addr
  /\ symbols \in [Name -> Addr \cup {NoAddr}]
  /\ obj \in Seq([pos : Nat, val : Nat])
  /\ dbg_line_state \in {"none", "parsed", "started"}
  /\ dbg_line_start_addr \in Addr
  /\ ranges \in Seq(Addr \X Addr)

(* The passes agree: when pass 2 comes to a label, it is at the address    *)
(* that pass 1 gave the label, whatever directives came before (main,      *)
(* found_label, generate_instruction).                                     *)
PassesAgree ==
  at = "scan" /\ pass = 2 /\ ~saw_end /\ pos <= Len(text)
    /\ text[pos].t = "label" => symbols[text[pos].n] = code_loc

(* The object file is the memory image from its first word on: once the    *)
(* start address is written, the next word goes to code_loc (write_value   *)
(* writes a word whenever it advances code_loc, but for .ORIG).            *)
ImageContiguous ==
  pass = 2 /\ at # "failed" /\ obj # <<>>
    => code_loc = obj[1].val + Len(obj) - 1

\* Where the word obj[i] is loaded, and where the image puts label n.
LoadedAt(i) == obj[1].val + i - 2
PlaceOf(n) ==
  LET p == CHOOSE q \in 1 .. Len(text) : text[q].t = "label" /\ text[q].n = n
  IN  obj[1].val + Cardinality({i \in 2 .. Len(obj) : obj[i].pos < p})

\* The field of a PC-relative instruction, sign-extended as the LC-3 does.
SignExtended(f) == IF f >= Reach THEN f - 2 * Reach ELSE f

(* In a finished object file every reference means its label: the LC-3's   *)
(* PC plus the sign-extended field, or the word of a .FILL, is the place   *)
(* where the image has the code that follows the label (find_label).       *)
RefsResolve ==
  at = "done" =>
    \A i \in 2 .. Len(obj) :
      LET tok == text[obj[i].pos] IN
        /\ tok.t = "ref" =>
             LoadedAt(i) + 1 + SignExtended(obj[i].val) = PlaceOf(tok.n)
        /\ tok.t = "fill" => obj[i].val = PlaceOf(tok.n)

(* The C lines of the debug file are not empty and follow one another      *)
(* without overlap, and a pending line starts after the last finished one  *)
(* (handle_debug, write_value, main).                                      *)
DebugRangesOrdered ==
  /\ \A i \in 1 .. Len(ranges) : ranges[i][1] <= ranges[i][2]
  /\ \A i \in 1 .. Len(ranges) - 1 : ranges[i][2] < ranges[i + 1][1]
  /\ dbg_line_state = "started" /\ at = "scan" /\ ranges # <<>>
       => ranges[Len(ranges)][2] < dbg_line_start_addr
=============================================================================
