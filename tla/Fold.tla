-------------------------------- MODULE Fold --------------------------------
(***************************************************************************)
(* The expression trees of the compiler and what it does with them while   *)
(* it parses: conversions and simplify (lcc-1.3/src/simp.c), which folds   *)
(* constants and rewrites what has a cheaper form.  Every integer of lc3   *)
(* has size 1 and 16 bits (types.c); simp.c takes 8 bits for each unit.    *)
(***************************************************************************)
EXTENDS Integers, SequencesExt, Bitwise

Bits == 16              \* bits_count_in_one_byte of lc3's interface
MaxI == 2^(Bits - 1) - 1
MinI == -MaxI - 1
MaxU == 2^Bits - 1
ones == 2^8 - 1         \* ones(8*ty->size)

None == <<"", 0>>       \* no symbol; a symbol is a name and a number
Tree(op, ty, k) == [op |-> op, ty |-> ty, k |-> k, s |-> None, v |-> 0, id |-> 0]
Nil             == Tree("NIL", "V", <<>>)
Addr(op, s)     == [Tree(op, "P", <<>>) EXCEPT !.s = s]
Id(op, s, ty)   == Tree("INDIR", ty, <<Addr(op, s)>>)       \* idtree
cnsttree(ty, v) == [Tree("CNST", ty, <<>>) EXCEPT !.v = IF ty = "U" THEN v % (ones + 1) ELSE v]
isaddrop(t)     == t.op \in {"ADDRG", "ADDRL", "ADDRF"}
Const(t)        == t.op = "CNST"
Is(t, v)        == Const(t) /\ t.v = v

Relational == {"EQ", "NE", "GT", "GE", "LE", "LT"}
Binary     == {"ADD", "SUB", "MUL", "DIV", "MOD", "LSH", "RSH", "BAND", "BOR", "BXOR"}
Logical    == {"AND", "OR", "NOT"}

(* root: what of a tree whose value nobody wants must still be evaluated.  *)
RECURSIVE root(_, _)
root(t, nc) ==
  CASE t.op \in Binary \cup Relational \cup {"RIGHT"} ->
         LET l == root(t.k[1], nc)  r == root(t.k[2], nc)
         IN IF l.op = "NIL" /\ r.op = "NIL" THEN Nil ELSE Tree("RIGHT", t.ty, <<l, r>>)
    [] t.op \in {"INDIR", "NEG", "BCOM", "NOT", "CVIU", "CVUI"} -> root(t.k[1], nc)
    [] isaddrop(t) \/ Const(t) -> IF nc THEN t ELSE Nil
    [] OTHER -> t

(* Bitwise operations on a long, which no value here fills.                *)
Wide == 2^30
Long(u)     == IF u >= Wide \div 2 THEN u - Wide ELSE u
Bit(op, a, b) == LET x == a % Wide  y == b % Wide
                 IN Long(CASE op = "BAND" -> x & y [] op = "BOR" -> x | y [] op = "BXOR" -> x ^^ y)
Quot(a, b)  == LET q == (IF a < 0 THEN -a ELSE a) \div (IF b < 0 THEN -b ELSE b)
               IN IF (a < 0) = (b < 0) THEN q ELSE -q
Truth(b)    == IF b THEN 1 ELSE 0
Compare(op, a, b) == CASE op = "EQ" -> a = b [] op = "NE" -> a # b [] op = "GT" -> a > b
                       [] op = "GE" -> a >= b [] op = "LE" -> a <= b [] op = "LT" -> a < b
Apply(op, a, b) ==
  CASE op = "ADD" -> a + b [] op = "SUB" -> a - b [] op = "MUL" -> a * b
    [] op = "DIV" -> Quot(a, b) [] op = "MOD" -> a - b * Quot(a, b)
    [] op = "LSH" -> a * 2^b [] op = "RSH" -> a \div 2^b
    [] op \in {"BAND", "BOR", "BXOR"} -> Bit(op, a, b)
extend(v) == IF (v \div 128) % 2 = 1 THEN (v % 128) - 128 ELSE v % (ones + 1)

(* Whether an operation on two ints may be folded: it must not overflow,   *)
(* unless a constant is needed.                                            *)
addi(x, y) == \/ x = 0 \/ y = 0
              \/ x < 0 /\ y < 0 /\ x >= MinI - y
              \/ x < 0 /\ y > 0
              \/ x > 0 /\ y < 0
              \/ x > 0 /\ y > 0 /\ x <= MaxI - y
muli(x, y) == \/ x \in {0, 1} \/ y \in {0, 1}
              \/ x < 0 /\ y < 0 /\ -x <= MaxI \div (-y)
              \/ x < 0 /\ y > 0 /\ x >= Quot(MinI, y)
              \/ x > 0 /\ y < 0 /\ y >= Quot(MinI, x)
              \/ x > 0 /\ y > 0 /\ x <= MaxI \div y
divi(x, y) == y # 0 /\ ~(x = MinI /\ y = -1)
Foldable(op, x, y, nc) ==
  \/ nc
  \/ CASE op = "ADD" -> addi(x, y) [] op = "SUB" -> addi(x, -y) [] op = "MUL" -> muli(x, y)
       [] op \in {"DIV", "MOD"} -> divi(x, y) [] op = "LSH" -> muli(x, 2^y) [] OTHER -> TRUE
ispow2Inexact(u) == IF u > 1 THEN CHOOSE n \in 1..20 : 2^n <= u /\ u < 2^(n + 1) ELSE 0
ispow2(u) == IF \E n \in 1..20 : u = 2^n THEN CHOOSE n \in 1..20 : u = 2^n ELSE 0

addrtree(e, n) == [e EXCEPT !.v = @ + n]  \* a new symbol at an offset
ToRight(l, r)  == IF Const(l) /\ ~Const(r) THEN <<r, l>> ELSE <<l, r>>
ToLeft(l, r)   == IF Const(r) /\ ~Const(l) THEN <<r, l>> ELSE <<l, r>>
InRange(n)     == 0 <= n /\ n < 8           \* 0 <= n < 8*ty->size, of a shift count

(* geu and its like: an unsigned comparison with zero.                     *)
UnsignedZero(op, l, r, nc) ==
  LET always(x, b) == Tree("RIGHT", "I", <<root(x, nc), cnsttree("I", b)>>) IN
  CASE op = "GE" /\ Is(r, 0) -> <<always(l, 1)>>
    [] op = "LT" /\ Is(r, 0) -> <<always(l, 0)>>
    [] op = "GT" /\ Is(l, 0) -> <<always(r, 0)>>
    [] op = "LE" /\ Is(l, 0) -> <<always(r, 1)>>
    [] Const(l) /\ Const(r)  -> <<>>
    [] op = "GE" /\ Is(l, 0) -> <<Tree("EQ", "U", <<r, l>>)>>
    [] op = "LT" /\ Is(l, 0) -> <<Tree("NE", "U", <<r, l>>)>>
    [] op = "GT" /\ Is(r, 0) -> <<Tree("NE", "U", <<l, r>>)>>
    [] op = "LE" /\ Is(r, 0) -> <<Tree("EQ", "U", <<l, r>>)>>
    [] OTHER -> <<>>

RECURSIVE simplify(_, _, _, _, _), AddP(_, _, _), SubP(_, _, _)

(* ADD+P: offsets are gathered and added to an address.                    *)
AddP(l0, r0, nc) ==
  LET l == ToRight(l0, r0)[1]
      r == ToRight(l0, r0)[2]
      long(c)   == IF c.ty = "U" THEN simplify("CVUI", "I", c, Nil, nc).v ELSE c.v
      offset(c) == Const(c) /\ c.v <= MaxI /\ c.v >= MinI
      second(t, ops) == t.op \in ops /\ Const(t.k[2])
  IN CASE Is(r, 0) -> l
       [] isaddrop(l) /\ offset(r) -> addrtree(l, long(r))
       [] l.op = "ADD" /\ l.ty = "P" /\ isaddrop(l.k[2]) /\ offset(r) ->
            AddP(l.k[1], addrtree(l.k[2], long(r)), nc)
       [] l.ty = "I" /\ second(l, {"ADD", "SUB"}) /\ isaddrop(r) ->
            AddP(l.k[1], simplify(l.op, "P", r, l.k[2], nc), nc)
       [] l.ty = "P" /\ second(l, {"ADD"}) /\ Const(r) ->
            AddP(l.k[1], simplify("ADD", l.k[2].ty, l.k[2], r, nc), nc)
       [] l.ty = "I" /\ second(l, {"ADD"}) /\ r.ty = "P" /\ second(r, {"ADD"}) ->
            AddP(l.k[1], AddP(r.k[1], simplify("ADD", r.k[2].ty, l.k[2], r.k[2], nc), nc), nc)
       [] l.op = "RIGHT" -> Tree("RIGHT", "P", <<l.k[1], AddP(l.k[2], r, nc)>>)
       [] OTHER -> Tree("ADD", "P", <<l, r>>)

(* SUB+P: l - (x + c) is (l - c) - x.                                      *)
SubP(l, r, nc) ==
  IF Const(r) THEN AddP(l, cnsttree("I", -r.v), nc)
  ELSE IF isaddrop(l) /\ r.op = "ADD" /\ r.ty = "I" /\ Const(r.k[2])
  THEN SubP(SubP(l, r.k[2], nc), r.k[1], nc)
  ELSE Tree("SUB", "P", <<l, r>>)

(* foldcnst and xfoldcnst.                                                 *)
CanFold(op, ty, l, r, nc) == Const(l) /\ Const(r) /\ (ty = "U" \/ Foldable(op, l.v, r.v, nc))
Folded(op, ty, l, r)      == cnsttree(ty, Apply(op, l.v, r.v))
Discarded(ty, x, nc)      == Tree("RIGHT", ty, <<root(x, nc), cnsttree(ty, 0)>>)
FoldOr(op, ty, l, r, nc, otherwise) == IF CanFold(op, ty, l, r, nc) THEN Folded(op, ty, l, r) ELSE otherwise

AddOr(op, ty, l, r, nc) ==              \* ADD, BOR and BXOR
  LET p == ToRight(l, r)
  IN FoldOr(op, ty, l, r, nc, IF Is(p[2], 0) THEN p[1] ELSE Tree(op, ty, p))
BandTree(ty, l, r, nc) ==
  LET p == ToRight(l, r)
  IN FoldOr("BAND", ty, l, r, nc,
            IF Is(p[2], ones) THEN p[1] ELSE IF Is(p[2], 0) THEN Discarded(ty, p[1], nc) ELSE Tree("BAND", ty, p))
Complement(ty, l) ==
  LET v == (-l.v - 1) % (ones + 1)
  IN IF Const(l) THEN cnsttree(ty, IF ty = "I" THEN extend(v) ELSE v)
     ELSE IF l.op = "BCOM" /\ l.ty = "U" THEN l.k[1] ELSE Tree("BCOM", ty, <<l>>)
Negated(ty, l, nc) == IF Const(l) /\ (nc \/ l.v # MinI) THEN cnsttree("I", -l.v)
                      ELSE IF l.op = "NEG" THEN l.k[1] ELSE Tree("NEG", ty, <<l>>)
MulU(l, r, nc) ==
  LET p == ToLeft(l, r) IN
  IF Const(p[1]) /\ ispow2(p[1].v) # 0 THEN simplify("LSH", "U", p[2], cnsttree("I", ispow2(p[1].v)), nc)
  ELSE FoldOr("MUL", "U", l, r, nc, IF Is(p[2], 1) THEN p[1] ELSE Tree("MUL", "U", p))
MulI(l, r, nc) ==
  LET p == ToLeft(l, r)  c == p[1]  x == p[2]
  IN FoldOr("MUL", "I", l, r, nc,
       IF Const(c) /\ x.op \in {"ADD", "SUB"} /\ x.ty = "I" /\ Const(x.k[2])
       THEN simplify(x.op, "I", simplify("MUL", "I", c, x.k[1], nc), simplify("MUL", "I", c, x.k[2], nc), nc)
       ELSE IF Const(c) /\ c.v > 0 /\ ispow2(c.v) # 0 THEN simplify("LSH", "I", x, cnsttree("I", ispow2(c.v)), nc)
       ELSE IF Is(x, 1) THEN c ELSE Tree("MUL", "I", p))
Undividable(ty, l, r) == Is(r, 0) \/ (ty = "I" /\ Is(l, MinI) /\ Is(r, -1))
DivTree(ty, l, r, nc) ==
  IF Is(r, 1) THEN l
  ELSE IF Undividable(ty, l, r) THEN Tree("DIV", ty, <<l, r>>)
  ELSE IF ty = "U" /\ Const(r) /\ ispow2(r.v) # 0 THEN simplify("RSH", ty, l, cnsttree("I", ispow2(r.v)), nc)
  ELSE FoldOr("DIV", ty, l, r, nc, Tree("DIV", ty, <<l, r>>))
ModTree(ty, l, r, nc) ==
  IF ty = "U" /\ Const(r) /\ ispow2(r.v) # 0 THEN simplify("BAND", ty, l, cnsttree(ty, r.v - 1), nc)
  ELSE IF Undividable(ty, l, r) THEN Tree("MOD", ty, <<l, r>>)
  ELSE FoldOr("MOD", ty, l, r, nc, IF ty = "I" /\ Is(r, 1) THEN Discarded(ty, l, nc) ELSE Tree("MOD", ty, <<l, r>>))
LeftShift(ty, l, r, nc) ==
  IF Is(r, 0) THEN l
  ELSE IF Const(r) /\ InRange(r.v) THEN FoldOr("LSH", ty, l, r, nc, Tree("LSH", ty, <<l, r>>))
  ELSE Tree("LSH", ty, <<l, r>>)
RightShift(ty, l, r) ==
  LET n == Apply("RSH", l.v, r.v) IN
  IF Is(r, 0) THEN l
  ELSE IF Const(l) /\ Const(r) /\ InRange(r.v)
  THEN cnsttree(ty, IF ty = "I" /\ l.v < 0 THEN Bit("BOR", n, -(2^(8 - r.v))) ELSE n)
  ELSE Tree("RSH", ty, <<l, r>>)
Comparison(op, ty, l, r, nc) ==
  LET u == IF ty = "U" THEN UnsignedZero(op, l, r, nc) ELSE <<>> IN
  IF u # <<>> THEN u[1]
  ELSE IF Const(l) /\ Const(r) THEN cnsttree("I", Truth(Compare(op, l.v, r.v)))
  ELSE Tree(op, ty, IF op \in {"EQ", "NE"} THEN ToRight(l, r) ELSE <<l, r>>)
Convert(op, ty, l, nc) ==               \* CVI+U and CVU+I
  CASE op = "CVIU" /\ Const(l) /\ (nc \/ (l.v >= 0 /\ l.v <= MaxU)) -> cnsttree("U", l.v % (ones + 1))
    [] op = "CVUI" /\ Const(l) /\ (nc \/ l.v <= MaxI) -> cnsttree("I", extend(l.v))
    [] OTHER -> Tree(op, ty, <<l>>)

simplify(op, ty, l, r, nc) ==
  CASE op = "ADD" /\ ty = "P" -> AddP(l, r, nc)
    [] op = "SUB" /\ ty = "P" -> SubP(l, r, nc)
    [] op \in {"ADD", "BOR", "BXOR"} /\ ty # "P" -> AddOr(op, ty, l, r, nc)
    [] op = "SUB" /\ ty # "P" -> FoldOr(op, ty, l, r, nc, IF Is(r, 0) THEN l ELSE Tree(op, ty, <<l, r>>))
    [] op = "BAND" -> BandTree(ty, l, r, nc)
    [] op = "MUL" -> IF ty = "U" THEN MulU(l, r, nc) ELSE MulI(l, r, nc)
    [] op = "DIV" -> DivTree(ty, l, r, nc)
    [] op = "MOD" -> ModTree(ty, l, r, nc)
    [] op = "LSH" -> LeftShift(ty, l, r, nc)
    [] op = "RSH" -> RightShift(ty, l, r)
    [] op \in Relational -> Comparison(op, ty, l, r, nc)
    [] op = "AND" -> IF Const(l) THEN (IF l.v # 0 THEN r ELSE l) ELSE Tree(op, ty, <<l, r>>)
    [] op = "OR"  -> IF Const(l) THEN (IF l.v # 0 THEN cnsttree("I", 1) ELSE r) ELSE Tree(op, ty, <<l, r>>)
    [] op = "NOT" -> IF Const(l) THEN cnsttree("I", Truth(l.v = 0)) ELSE Tree(op, ty, <<l>>)
    [] op = "NEG" -> Negated(ty, l, nc)
    [] op = "BCOM" -> Complement(ty, l)
    [] op \in {"CVIU", "CVUI"} -> Convert(op, ty, l, nc)

(* The value's type of a tree, and cast between int and unsigned.          *)
TypeOf(t) == IF t.op \in Relational \cup Logical THEN "I" ELSE t.ty
cond(t, nc) == IF t.op \in Relational \cup Logical THEN t
               ELSE simplify("NE", TypeOf(t), t, cnsttree(TypeOf(t), 0), nc)
cast(t, ty, nc) == IF {TypeOf(t), ty} = {"I", "U"} THEN simplify(IF ty = "U" THEN "CVIU" ELSE "CVUI", ty, t, Nil, nc)
                   ELSE t
Literal(ty, v) == [Tree("CNST", ty, <<>>) EXCEPT !.v = v]
asgn(s, t)     == Tree("ASGN", TypeOf(t), <<Addr("ADDRL", s), t>>)

(* What the parser makes of a source tree.  In it "CV" is a cast and an    *)
(* operator's ty is the type its operands are converted to; a tree with an *)
(* id stands in several places.                                            *)
Wanted(t, i) ==                         \* the type of an operand; an address stays what it is
  CASE t.op \in {"LSH", "RSH"} -> IF i = 1 THEN t.ty ELSE "I"
    [] t.op \in {"ASGN", "COND"} -> IF i = 1 THEN "P" ELSE t.ty
    [] t.op \in {"CV", "NEG", "BCOM"} \cup (Binary \ {"LSH", "RSH"}) \cup Relational -> t.ty
    [] OTHER -> "P"
Operand(t, i, b, nc) == IF t.op \in Logical \/ (t.op = "COND" /\ i = 1) THEN cond(b, nc)
                        ELSE cast(b, Wanted(t, i), nc)
Built(t, k, nc) ==
  CASE t.op = "CV" -> k[1]
    [] t.op = "NEG" /\ t.ty = "U" -> simplify("ADD", "U", simplify("BCOM", "U", k[1], Nil, nc), cnsttree("U", 1), nc)
    [] t.op \in Binary \cup Relational \cup Logical \cup {"BCOM"} \/ (t.op = "NEG" /\ t.ty # "U") ->
         simplify(t.op, t.ty, k[1], IF Len(k) = 1 THEN Nil ELSE k[2], nc)
    [] t.op = "COND" -> IF Const(k[1]) THEN k[IF k[1].v # 0 THEN 2 ELSE 3]
                        ELSE [t EXCEPT !.k = <<k[1], Tree("RIGHT", t.ty, <<asgn(t.s, k[2]), asgn(t.s, k[3])>>)>>]
    [] OTHER -> [t EXCEPT !.k = k]
RECURSIVE Build(_, _)
Build(t, nc) == [Built(t, [i \in DOMAIN t.k |-> Operand(t, i, Build(t.k[i], nc), nc)], nc)
                   EXCEPT !.id = IF t.id = 0 THEN @ ELSE t.id]

(* Trees that the parser itself makes of several others.  An argument with *)
(* a call in it is evaluated before all others, and the outermost argument *)
(* is the last one.  v++ is v, the increment, and v as it was.             *)
RECURSIVE hascall(_)
hascall(t) == t.op = "CALL" \/ \E i \in DOMAIN t.k : hascall(t.k[i])
calltree(fn, args) == Tree("CALL", "I", <<IF args.op = "NIL" THEN fn ELSE Tree("RIGHT", "P", <<args, fn>>), Nil>>)
call(fn, args) ==
  LET first == SelectSeq(args, hascall)
      r     == FoldLeft(LAMBDA a, q : Tree("RIGHT", "V", <<a, q>>), Head(first), Tail(first))
      list  == FoldLeft(LAMBDA rest, q : Tree("ARG", "I", <<q, rest>>), Nil, args)
  IN calltree(fn, IF first = <<>> THEN list ELSE Tree("RIGHT", "V", <<r, list>>))
incr(v, e)  == Tree("ASGN", v.ty, <<v.k[1], Tree("ADD", v.ty, <<v, e>>)>>)
postfix(v, e) == Tree("RIGHT", v.ty, <<Tree("RIGHT", v.ty, <<v, incr(v, e)>>), v>>)
=============================================================================
