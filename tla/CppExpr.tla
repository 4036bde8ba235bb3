------------------------------- MODULE CppExpr ------------------------------
(***************************************************************************)
(* The #if expressions of the preprocessor, eval.c: a row of tokens goes   *)
(* through a stack of operators and a stack of values.  A value is a long  *)
(* of LongBits bits and a type, SGN, UNS or UND (undefined).               *)
(***************************************************************************)
EXTENDS CppLex, Integers, SequencesExt, Bitwise

CONSTANTS LongBits, \* the width of long
          UnsFrom   \* the least octal or hexadecimal number that is unsigned

Unsigned(v) == v % 2^LongBits
Signed(v)   == LET u == Unsigned(v) IN IF u >= 2^(LongBits - 1) THEN u - 2^LongBits ELSE u
Bool(b)     == IF b THEN 1 ELSE 0
Quotient(a, b) == LET q == (IF a < 0 THEN -a ELSE a) \div (IF b < 0 THEN -b ELSE b)
                  IN IF (a < 0) = (b < 0) THEN q ELSE -q

(* priority[]: conversion classes and priorities of the operators.         *)
RELAT == {"EQ", "NEQ", "LEQ", "GEQ", "LT", "GT"}
ARITH == {"AND", "STAR", "PLUS", "MINUS", "SLASH", "PCT", "CIRC", "OR"}
SHIFT == {"LSH", "RSH"}
UNARY == {"TILDE", "NOT", "DEFINED", "UMINUS"}
Levels == <<{"LP", "RP"}, {"COMMA"}, {"QUEST", "COLON"}, {"LOR"}, {"LAND"}, {"OR"}, {"CIRC"},
            {"AND"}, {"EQ", "NEQ"}, {"LEQ", "GEQ", "LT", "GT"}, SHIFT, {"PLUS", "MINUS"},
            {"STAR", "SLASH", "PCT"}, UNARY>>
priority(op) == IF op = "END" THEN 0 ELSE 2 + CHOOSE k \in DOMAIN Levels : op \in Levels[k]

(* What an operator does with its operands; the host takes a shift count   *)
(* modulo the width.  UND is the type of a division by zero.               *)
ArithType(v1, v2) == IF "UND" \in {v1.ty, v2.ty} THEN "UND"
                     ELSE IF "UNS" \in {v1.ty, v2.ty} THEN "UNS" ELSE "SGN"
Compare(op, a, b) == CASE op = "EQ" -> a = b [] op = "NEQ" -> a # b [] op = "LEQ" -> a <= b
                       [] op = "GEQ" -> a >= b [] op = "LT" -> a < b [] op = "GT" -> a > b
Arith(op, a, b, uns) ==
  LET ua == Unsigned(a)  ub == Unsigned(b) IN
  CASE op = "STAR" -> a * b [] op = "PLUS" -> a + b [] op = "MINUS" -> a - b
    [] op = "AND" -> ua & ub [] op = "OR" -> ua | ub [] op = "CIRC" -> ua ^^ ub
    [] op = "SLASH" -> IF uns THEN ua \div ub ELSE Quotient(a, b)
    [] op = "PCT" -> IF uns THEN ua % ub ELSE a - b * Quotient(a, b)
ShiftBy(op, a, n, uns) ==
  LET k == n % LongBits IN
  IF op = "LSH" THEN a * 2^k ELSE (IF uns THEN Unsigned(a) ELSE a) \div 2^k
Logic(op, v1, v2) ==
  LET stop == (v1.v # 0) = (op = "LOR") IN
  IF v1.ty = "UND" \/ (~stop /\ v2.ty = "UND") THEN [v |-> v1.v, ty |-> "UND"]
  ELSE [v |-> Bool(IF stop THEN op = "LOR" ELSE v2.v # 0), ty |-> "SGN"]
Unary(op, v1) ==
  CASE op = "TILDE" -> [v1 EXCEPT !.v = Signed(-@ - 1)]
    [] op = "UMINUS" -> [v1 EXCEPT !.v = Signed(-@)]
    [] op = "NOT" -> [v |-> Bool(v1.v = 0), ty |-> IF v1.ty = "UND" THEN "UND" ELSE "SGN"]
    [] op = "DEFINED" -> v1
Binary(op, v1, v2) ==
  LET ty == ArithType(v1, v2) IN
  CASE op \in RELAT ->
         LET num(a) == IF ty = "UNS" THEN Unsigned(a) ELSE a
         IN [v |-> Bool(Compare(op, num(v1.v), num(v2.v))),
             ty |-> IF ty = "UNS" THEN "SGN" ELSE ty]
    [] op \in {"SLASH", "PCT"} /\ v2.v = 0 -> [v |-> v1.v, ty |-> "UND"]
    [] op \in ARITH -> [v |-> Signed(Arith(op, v1.v, v2.v, ty = "UNS")), ty |-> ty]
    [] op \in SHIFT ->
         [v |-> Signed(ShiftBy(op, v1.v, v2.v, ty # "UND" /\ v1.ty = "UNS")),
          ty |-> IF ty = "UND" THEN ty ELSE v1.ty]
    [] op \in {"LAND", "LOR"} -> Logic(op, v1, v2)

(* evalop: reduce the operators of a priority above pri.  m holds the      *)
(* stacks, the errors and bad, set when the evaluation is given up with 0. *)
(* It is given up with no more than a warning at a comma and, at the end,  *)
(* at a parenthesis that is still open.                                    *)
Reduces(op, pri) == pri < priority(op)
PopValues(m, n) == [m EXCEPT !.vals = SubSeq(@, 1, Len(@) - n)]
RECURSIVE evalop(_, _)
evalop(m, pri) ==
  LET op == Last(m.ops)
      n  == Len(m.vals)
      popped == [m EXCEPT !.ops = Front(@)]
      push(k, v) == [PopValues(popped, k) EXCEPT !.vals = Append(@, v)] IN
  IF m.bad \/ ~Reduces(op, pri) THEN m
  ELSE CASE op \in UNARY -> evalop(push(1, Unary(op, m.vals[n])), pri)
         [] op \in {"COMMA", "LP"} -> [m EXCEPT !.bad = TRUE]
         [] op = "QUEST" -> [m EXCEPT !.bad = TRUE, !.errs = TRUE]
         [] op = "COLON" /\ Last(popped.ops) # "QUEST" ->
              evalop([push(2, m.vals[n - 1]) EXCEPT !.errs = TRUE], pri)
         [] op = "COLON" /\ Last(popped.ops) = "QUEST" ->
              LET v == IF m.vals[n - 2].v = 0 THEN m.vals[n] ELSE m.vals[n - 1]
              IN evalop([push(3, v) EXCEPT !.ops = Front(@)], pri)
         [] OTHER -> evalop(push(2, Binary(op, m.vals[n - 1], m.vals[n])), pri)

(* tokval: digit() of a character, the numbers and the character constants. *)
DigitSeq == <<"0", "1", "2", "3", "4", "5", "6", "7", "8", "9", "a", "b", "c", "d", "e", "f">>
digit(c) == IF c \in ToSet(DigitSeq) THEN (CHOOSE k \in DOMAIN DigitSeq : DigitSeq[k] = c) - 1
            ELSE -1
DigitRun(x, i) == SelectInSubSeq(x, i, Len(x), LAMBDA c : digit(c) < 0)
NumberOf(x, i, j, base) == FoldLeft(LAMBDA n, c : Unsigned(n * base + digit(c)), 0, SubSeq(x, i, j))
Number(x) ==
  LET hex  == Len(x) > 1 /\ x[1] = "0" /\ x[2] \in {"x", "X"}
      base == IF hex THEN 16 ELSE IF x[1] = "0" THEN 8 ELSE 10
      from == IF hex THEN 3 ELSE IF x[1] = "0" THEN 2 ELSE 1
      stop == DigitRun(x, from)
      last == IF stop = 0 THEN Len(x) ELSE stop - 1
      n    == NumberOf(x, from, last, base)
      rest == ToSet(SubSeq(x, last + 1, Len(x))) IN
  [v |-> Signed(n), errs |-> ~(rest \subseteq {"u", "U", "l", "L"}),
   ty |-> IF (n >= UnsFrom /\ base # 10) \/ rest \cap {"u", "U"} # {} THEN "UNS" ELSE "SGN"]

Ascii == ("a" :> 97) @@ ("b" :> 98) @@ ("n" :> 110) @@ ("0" :> 48) @@ ("1" :> 49)
cvcon == ("b" :> 8) @@ ("f" :> 12) @@ ("n" :> 10) @@ ("r" :> 13) @@ ("t" :> 9) @@ ("v" :> 11)
         @@ ("'" :> 39) @@ ("\"" :> 34) @@ ("?" :> 63) @@ ("\\" :> 92)
CharConstant(x) ==
  LET p == IF x[1] = "L" THEN 3 ELSE 2
      stop == CHOOSE j \in p + 1 .. p + 5 :
                /\ \A k \in p + 1 .. j - 1 : digit(x[k]) \in 0 .. 7
                /\ j = p + 4 \/ digit(x[j]) \notin 0 .. 7
      n == CASE x[p] = "'" -> 0
             [] x[p] = "\\" /\ digit(x[p + 1]) \in 0 .. 7 -> NumberOf(x, p + 1, stop - 1, 8)
             [] x[p] = "\\" /\ x[p + 1] = "x" -> NumberOf(x, p + 2, DigitRun(x, p + 2) - 1, 16)
             [] x[p] = "\\" /\ x[p + 1] \in DOMAIN cvcon -> cvcon[x[p + 1]]
             [] x[p] = "\\" -> 0
             [] OTHER -> Ascii[x[p]]
  IN [v |-> Signed(n), ty |-> "SGN", errs |-> x[p] = "'"]

tokval(t, defined) ==
  CASE t.t = "NUMBER" -> Number(t.x)
    [] t.t = "CCON" -> CharConstant(t.x)
    [] t.t = "NAME1" -> [v |-> Bool(t.x \in defined), ty |-> "SGN", errs |-> FALSE]
    [] t.t = "NAME" -> [v |-> 0, ty |-> "SGN", errs |-> FALSE]
    [] t.t = "STRING" -> [v |-> 0, ty |-> "SGN", errs |-> TRUE]

(* eval: one token; m.rand says that an operand was last.                  *)
Both == {"PLUS", "MINUS", "STAR", "AND"}
EvalToken(m, t, defined) ==
  LET syntax == [m EXCEPT !.bad = TRUE, !.errs = TRUE]
      pushop(op) == [m EXCEPT !.ops = Append(@, op)]
      closed == evalop(m, priority("RP"))
      reduced == evalop(m, priority(t.t)) IN
  IF m.bad THEN m
  ELSE CASE t.t = "NL" -> m
         [] t.t \in {"NAME", "NAME1", "NUMBER", "CCON", "STRING"} ->
              LET v == tokval(t, defined) IN
              IF m.rand THEN syntax
              ELSE [m EXCEPT !.vals = Append(@, [v |-> v.v, ty |-> v.ty]), !.rand = TRUE,
                             !.errs = @ \/ v.errs]
         [] t.t \in {"DEFINED", "TILDE", "NOT", "LP"} -> IF m.rand THEN syntax ELSE pushop(t.t)
         [] t.t \in Both /\ ~m.rand ->
              IF t.t \in {"STAR", "AND"} THEN syntax
              ELSE IF t.t = "MINUS" THEN pushop("UMINUS") ELSE m
         [] t.t \in (RELAT \cup ARITH \cup SHIFT \cup {"LAND", "LOR", "QUEST", "COLON", "COMMA"})
            /\ (t.t \in Both => m.rand) ->
              IF ~m.rand THEN syntax
              ELSE IF reduced.bad THEN reduced
              ELSE [reduced EXCEPT !.ops = Append(@, t.t), !.rand = FALSE]
         [] t.t = "RP" ->
              IF ~m.rand THEN syntax
              ELSE IF closed.bad THEN closed
              ELSE IF Last(closed.ops) # "LP" THEN [closed EXCEPT !.bad = TRUE, !.errs = TRUE]
              ELSE [closed EXCEPT !.ops = Front(@)]
         [] OTHER -> syntax

(* The value of a row whose macros are expanded, and whether it is in error. *)
Outcome(m, e) ==
  IF e.bad THEN [v |-> 0, errs |-> e.errs \/ (~m.bad /\ ~m.rand)]
  ELSE IF Len(e.ops) # 1 \/ Len(e.vals) # 1 THEN [v |-> 0, errs |-> TRUE]
  ELSE [v |-> e.vals[1].v, errs |-> e.errs \/ e.vals[1].ty = "UND"]
AtEnd(m) == Outcome(m, IF m.bad \/ ~m.rand THEN [m EXCEPT !.bad = TRUE] ELSE evalop(m, 0))
EvalRow(row, defined) ==
  AtEnd(FoldLeft(LAMBDA acc, t : EvalToken(acc, t, defined),
                 [ops |-> <<"END">>, vals |-> <<>>, rand |-> FALSE, bad |-> FALSE, errs |-> FALSE],
                 row))
=============================================================================
