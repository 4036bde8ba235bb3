------------------------------- MODULE MCRcc --------------------------------
(***************************************************************************)
(* The compiler on families of functions, each with its meaning in C.      *)
(***************************************************************************)
EXTENDS Rcc

CONSTANT Families

-----------------------------------------------------------------------------
(* Writing a function: locals a to h and r, global G, function f.          *)
L(v)       == Id("ADDRL", <<v, 0>>, "I")
LU(v)      == Id("ADDRL", <<v, 0>>, "U")
G1         == Id("ADDRG", <<"G", 0>>, "I")
C(n)       == Literal("I", n)
CU(n)      == Literal("U", n)
signedptr(n) == [C(n) EXCEPT !.s = <<"CP", 0>>]
Bin(op, l, r)  == Tree(op, "I", <<l, r>>)
BinU(op, l, r) == Tree(op, "U", <<l, r>>)
Set(v, e)  == Tree("ASGN", "I", <<Addr("ADDRL", <<v, 0>>), e>>)
SetG(e)    == Tree("ASGN", "I", <<Addr("ADDRG", <<"G", 0>>), e>>)
Ptr        == Id("ADDRL", <<"p", 0>>, "P")
SetP(v)    == Tree("ASGN", "P", <<Addr("ADDRL", <<"p", 0>>), Addr("ADDRL", <<v, 0>>)>>)
Deref      == Tree("INDIR", "I", <<Ptr>>)
Store(e)   == Tree("ASGN", "I", <<Ptr, e>>)
Named(n, t) == [t EXCEPT !.id = n]
PostInc(n, t, ty) == postfix(Named(n, t), IF ty = "P" THEN signedptr(1) ELSE C(1))
Cond(n, c, x, y) == [Tree("COND", "I", <<c, x, y>>) EXCEPT !.s = <<"t", n>>]
Call(args) == call(Addr("ADDRG", <<"f", 0>>), args)
Ret(e)     == Tree("RET", "I", <<e>>)

-----------------------------------------------------------------------------
(* Meaning: e is memory, the values of the trees with an id, the value     *)
(* returned, whether C leaves the program undefined, and whether a         *)
(* comparison's difference does not fit a word.                            *)
Meant(v, e) == [v |-> v, e |-> e]
Bad(e, b)   == [e EXCEPT !.bad = @ \/ b]
Uns(n)      == n % (MaxU + 1)
Fits(n)     == MinI <= n /\ n <= MaxI
Overflows(op, a, b) ==
  CASE op \in {"DIV", "MOD"} -> b = 0 \/ (a = MinI /\ b = -1)
    [] op \in {"LSH", "RSH"} -> a < 0 \/ b \notin 0..15 \/ (op = "LSH" /\ ~Fits(a * 2^b))
    [] OTHER -> ~Fits(Apply(op, a, b))
Undefined(op, ty, a, b) == CASE ty = "I" -> Overflows(op, a, b)
                             [] ty = "U" -> (op \in {"DIV", "MOD"} /\ b = 0) \/ (op \in {"LSH", "RSH"} /\ b \notin 0..14)
                             [] OTHER -> FALSE
Arith(op, ty, a, b) ==
  CASE ty = "P" -> Apply(op, a, b)
    [] ty = "I" -> IF (op \in {"DIV", "MOD"} /\ Overflows(op, a, b)) \/ (op \in {"LSH", "RSH"} /\ b \notin 0..15) THEN 0
                   ELSE Wrap(Apply(op, a, b))
    [] ty = "U" -> IF Undefined(op, ty, a, b) THEN 0
                   ELSE IF op \in {"DIV", "MOD", "RSH"} THEN Wrap(Apply(op, Uns(a), IF op = "RSH" THEN b ELSE Uns(b)))
                   ELSE Wrap(Apply(op, a, b))
RECURSIVE Eval(_, _), Mean(_, _), Args(_, _)
Eval(t, e) ==
  IF t.id # 0 /\ e.known[t.id] # <<>> THEN Meant(e.known[t.id][1], e)
  ELSE LET r == Mean(t, e)
       IN IF t.id = 0 THEN r ELSE Meant(r.v, [r.e EXCEPT !.known[t.id] = <<r.v>>])
Mean(t, e) ==
  LET a == Eval(t.k[1], e)
      b == Eval(t.k[2], a.e)
      truth(x, y) == Meant(Truth(x), y)
      compare(x, y) == IF t.ty = "U" THEN Compare(t.op, Uns(x), Uns(y)) ELSE Compare(t.op, x, y)
  IN CASE t.op = "NIL" -> Meant(0, e)
       [] t.op = "CNST" -> Meant(Word(t.v), e)
       [] isaddrop(t) -> Meant(Address(t.s) + t.v, e)
       [] t.op = "INDIR" -> Meant(IF a.v \in DOMAIN a.e.m THEN a.e.m[a.v] ELSE 0, Bad(a.e, a.v \notin DOMAIN a.e.m))
       [] t.op \in {"CV", "CVIU", "CVUI"} -> a
       [] t.op = "NEG" -> Meant(Wrap(-a.v), Bad(a.e, t.ty = "I" /\ a.v = MinI))
       [] t.op = "BCOM" -> Meant(-a.v - 1, a.e)
       [] t.op \in Binary -> Meant(Arith(t.op, t.ty, a.v, b.v), Bad(b.e, Undefined(t.op, t.ty, a.v, b.v)))
       [] t.op \in Relational ->
            truth(compare(a.v, b.v), [b.e EXCEPT !.far = @ \/ compare(a.v, b.v) # Compare(t.op, Wrap(a.v - b.v), 0)])
       [] t.op = "NOT" -> truth(a.v = 0, a.e)
       [] t.op = "AND" -> IF a.v = 0 THEN truth(FALSE, a.e) ELSE truth(b.v # 0, b.e)
       [] t.op = "OR"  -> IF a.v # 0 THEN truth(TRUE, a.e) ELSE truth(b.v # 0, b.e)
       [] t.op = "COND" -> LET arms == IF Len(t.k) = 3 THEN <<t.k[2], t.k[3]>> ELSE t.k[2].k
                           IN Eval(IF a.v # 0 THEN arms[1] ELSE arms[2], a.e)
       [] t.op = "RIGHT" -> IF t.k[2].op = "NIL" THEN a ELSE b
       [] t.op = "ASGN" -> Meant(b.v, [b.e EXCEPT !.m = (a.v :> b.v) @@ @])
       [] t.op = "RET" -> Meant(a.v, [a.e EXCEPT !.ret = a.v])
       [] t.op = "CALL" ->
            LET fn == t.k[1]
                r  == IF fn.op = "RIGHT" THEN Args(fn.k[1], e) ELSE Meant(<<>>, e)
            IN Meant(Result(r.v), [r.e EXCEPT !.m[Address(<<"G", 0>>)] = Wrap(@ + 1)])
(* Arguments: the outermost is the last one.                               *)
Args(t, e) ==
  CASE t.op = "NIL" -> Meant(<<>>, e)
    [] t.op = "RIGHT" -> Args(t.k[2], Eval(t.k[1], e).e)
    [] t.op = "ARG" -> LET a == Eval(t.k[1], e)
                           r == Args(t.k[2], a.e)
                       IN Meant(Append(r.v, a.v), r.e)
Start(m)   == [m |-> m, known |-> <<<<>>, <<>>>>, ret |-> 0, bad |-> FALSE, far |-> FALSE]
Meaning(ts, m) == FoldLeft(LAMBDA e, t : Eval(t, e).e, Start(m), ts)

-----------------------------------------------------------------------------
Places == [v \in {"a", "b", "c", "d", "e", "g", "h", "r", "p"} |->
             CASE v = "a" -> 101 [] v = "b" -> 102 [] v = "c" -> 103 [] v = "d" -> 104 [] v = "e" -> 105
               [] v = "g" -> 106 [] v = "h" -> 107 [] v = "r" -> 108 [] v = "p" -> 109]
MCAddress(s) == CASE s[1] \in {"C", "CU", "CP"} -> 100000 + s[2] [] s[1] = "X" -> 2000 + s[2] [] s[1] = "t" -> 3000 + s[2]
                  [] s[1] = "G" -> 201 [] s[1] = "f" -> 301 [] s[1] = "" -> 0 [] s[1] \in DOMAIN Places -> Places[s[1]]
                  [] OTHER -> 0
Vars == {MCAddress(<<v, 0>>) : v \in DOMAIN Places \cup {"G"}}
MCInitially == [x \in Vars |-> CASE x = 109 -> 101 [] x = 201 -> 40 [] OTHER -> 3 * (x - 100) - 7]

-----------------------------------------------------------------------------
(* Sharing: orders of statements that compute, store, alias and call.      *)
ab    == Bin("MUL", L("a"), L("b"))
Stmts == {Set("r", ab), Set("c", Bin("SUB", ab, G1)), Set("a", C(7)), Store(Bin("ADD", ab, C(1))),
          Set("b", Deref), SetP("b"), SetG(Call(<<ab>>)),
          Set("r", Bin("ADD", PostInc(1, L("a"), "I"), L("b"))),
          Tree("ASGN", "I", <<PostInc(2, Ptr, "P"), Bin("BAND", ab, ab)>>)}
Share == {t \in {<<x, y, z, Ret(Bin("ADD", ab, Deref))>> : x, y, z \in Stmts} :
            t[1] # t[2] /\ t[2] # t[3] /\ t[1] # t[3]}
(* Combs: every operand waits in a register for the ones to its right.     *)
Seven == <<L("a"), L("b"), L("c"), L("d"), L("e"), L("g"), L("h")>>
Comb(n, ops, inner) == FoldLeft(LAMBDA t, i : Bin(ops[1 + (i % Len(ops))], Seven[n - i], t), inner, [i \in 1..(n - 1) |-> i])
Inners == {L("h"), Bin("MUL", Bin("ADD", L("a"), L("h")), Bin("ADD", L("a"), L("h"))),
           Call(<<C(2), L("h")>>),
           Cond(1, Bin("LT", L("h"), L("a")), L("g"), C(5)),
           Cond(1, Bin("GE", L("h"), L("a")), Bin("SUB", L("g"), L("h")), ab)}
Afters == {"set", "ret", "store", "next", "arg", "if"}
Use(w, e) == CASE w = "set" -> Set("r", e) [] w = "ret" -> Ret(e) [] w = "store" -> Store(e)
                  [] w = "next" -> Tree("ASGN", "I", <<PostInc(1, Ptr, "P"), e>>)
                  [] w = "arg" -> Set("r", Call(<<ab, Named(1, e)>>))
                  [] w = "if" -> Set("r", Cond(2, Bin("GT", e, L("b")), L("a"), ab))
Combs == {<<Use(w, Comb(n, ops, i))>> : w \in Afters, n \in 2..7, i \in Inners,
                                                     ops \in {<<"ADD">>, <<"SUB", "ADD">>, <<"BOR", "SUB">>}}
(* Conditions: && and || and !, with values shared before, in and after.   *)
Rel(op) == Bin(op, ab, L("c"))
Tests == {Rel(op) : op \in Relational}
         \cup {Bin("EQ", ab, ab), Bin("LT", Bin("ADD", L("a"), L("b")), ab)}
         \cup {Tree("NOT", "I", <<Bin(op, Rel("LT"), Bin("GT", ab, C(0)))>>) : op \in {"AND", "OR"}}
         \cup {Bin(o1, Bin(o2, L("a"), Rel("NE")), Bin("LE", ab, L("b"))) : o1, o2 \in {"AND", "OR"}}
Conds == UNION {{<<Set("r", Cond(1, t, ab, Bin("ADD", ab, C(1)))), Set("c", ab)>>,
                 <<Set("c", ab), Ret(Bin("ADD", ab, Cond(1, t, L("a"), C(2))))>>,
                 <<Tree("ASGN", "I", <<PostInc(1, Ptr, "P"), Cond(1, t, ab, C(4))>>), Ret(Deref)>>,
                 <<Set("r", Cond(1, t, Cond(2, Rel("LT"), ab, C(1)), Cond(2, Rel("GT"), C(2), ab)))>>,
                 <<Set("r", Cond(1, t, Call(<<ab>>), Bin("SUB", ab, L("c")))), SetG(ab)>>} : t \in Tests}
(* Calls in calls: such an argument is evaluated before the others.        *)
Nested(x, y) == Call(<<Named(1, x), y>>)
Twice(x, y)  == Call(<<Named(1, x), Named(2, y)>>)
Calls == {<<Set("r", e), Ret(ab)>> : e \in
            {Nested(Call(<<ab>>), ab), Twice(Call(<<>>), Call(<<L("a"), ab>>)),
             Bin("SUB", Call(<<ab>>), Call(<<L("a")>>)),
             Bin("ADD", Bin("MUL", L("c"), Call(<<>>)), Bin("SUB", ab, Call(<<ab>>)))}}
(* Squares: both operands in one register, and many of them at once.       *)
Squares == {<<Set("r", FoldLeft(LAMBDA t, i : Bin("ADD", t, Bin(op, Seven[i], Seven[i])),
                                Bin(op, Seven[1], Seven[1]), [i \in 1..(n - 1) |-> i + 1]))>> :
              n \in 2..7, op \in {"MUL", "BXOR", "SUB"}}
(* Unsigned operands.                                                      *)
UnsignedSets == {<<Tree("ASGN", "U", <<Addr("ADDRL", <<"r", 0>>), BinU(op, LU("a"), BinU("ADD", LU("b"), LU("b")))>>)>> :
           op \in {"ADD", "SUB", "BAND", "BOR", "MUL", "LSH"}}
UnsignedTests == UNION {{<<Set("r", Cond(1, BinU(op, LU("c"), LU("d")), L("e"), C(4)))>>,
                    <<Tree("ASGN", "I", <<PostInc(1, Ptr, "P"), Cond(1, BinU(op, LU("c"), LU("d")), C(3), C(4))>>)>>,
                    <<Set("r", Cond(1, BinU(op, LU("a"), LU("d")), L("e"), C(4)))>>} : op \in Relational}
(* Constant expressions and expressions with constants, that are built     *)
(* only: at the limits of a word, and of the byte that simp.c has in mind. *)
ConstI == {C(n) : n \in {0, 1, 2, 7, 8, 128, 255, 256, 300, 32767}}
          \cup {Tree("NEG", "I", <<C(n)>>) : n \in {1, 129}}
          \cup {Bin("SUB", Tree("NEG", "I", <<C(32767)>>), C(1))}
ConstU == {CU(n) : n \in {0, 1, 7, 8, 255, 256, 46000}}
Ops    == Binary \cup Relational
Folds  == {Bin(op, x, y) : op \in Ops, x, y \in ConstI}
          \cup {BinU(op, x, y) : op \in Ops, x, y \in ConstU}
          \cup {Bin(op, L("a"), y) : op \in Ops, y \in ConstI} \cup {Bin(op, x, L("a")) : op \in Ops, x \in ConstI}
          \cup {BinU(op, LU("a"), y) : op \in Ops, y \in ConstU} \cup {BinU(op, x, LU("a")) : op \in Ops, x \in ConstU}
          \cup {BinU(op, LU("a"), y) : op \in Ops, y \in ConstI}
          \cup {Bin("MUL", x, Bin(op, L("a"), y)) : op \in {"ADD", "SUB"}, x, y \in ConstI}
          \cup {Tree(op, x.ty, <<x>>) : op \in {"NEG", "BCOM"}, x \in ConstI \cup ConstU \cup {L("a"), LU("a")}}
          \cup {Tree("CV", ty, <<x>>) : ty \in {"I", "U"}, x \in ConstI \cup ConstU \cup {L("a"), LU("a")}}
          \cup {Tree(op, "I", <<Tree(op, "I", <<L("a")>>)>>) : op \in {"NEG", "BCOM", "NOT"}}
          \cup {Bin(op, x, L("a")) : op \in {"AND", "OR"}, x \in {C(0), C(2), LU("a"), Bin("LT", C(1), C(2))}}
          \cup {Tree("COND", "I", <<x, L("a"), C(3)>>) : x \in {C(0), C(2)}}
          \cup {Tree("ADD", "P", <<Tree(op, "P", <<Addr("ADDRL", <<"b", 0>>), x>>), y>>) : op \in {"ADD", "SUB"}, x, y \in {C(0), C(3), L("a")}}
          \cup {Tree("ADD", "P", <<Bin(op, L("a"), C(3)), x>>) : op \in {"ADD", "SUB"}, x \in {Addr("ADDRL", <<"b", 0>>), Tree("ADD", "P", <<Ptr, C(2)>>)}}
Constants == {t \in Folds : t.k[1].op = "CNST" /\ t.k[Len(t.k)].op = "CNST"}
Values == {MinI, -300, -1, 0, 1, 5, 300, MaxI}
AllSources ==
  LET of(family, fs) == IF family \in Families THEN {[stmts |-> s, nc |-> FALSE, run |-> TRUE] : s \in fs} ELSE {}
  IN of("share", Share) \cup of("comb", Combs) \cup of("cond", Conds) \cup of("call", Calls)
     \cup (IF "fold" \notin Families THEN {}
           ELSE {[stmts |-> <<t>>, nc |-> FALSE, run |-> FALSE] : t \in Folds}
                \cup {[stmts |-> <<t>>, nc |-> TRUE, run |-> FALSE] : t \in Constants})
     \cup of("square", Squares) \cup of("unsigned", UnsignedSets \cup UnsignedTests)

-----------------------------------------------------------------------------
RECURSIVE Subtrees(_)
Subtrees(t) == {t} \cup UNION {Subtrees(t.k[i]) : i \in DOMAIN t.k}
(* A word is folded as if it had eight bits: an unsigned constant, a       *)
(* complement, a mask of eight ones.                                       *)
Outside(s, n) == n \notin IF TypeOf(s) = "U" THEN 0..255 ELSE -128..127
Lost(s, b, v) == Const(b) /\ s.op # "CNST" /\ (TypeOf(s) = "U" \/ s.op \in {"CV", "BCOM"}) /\ Outside(s, v)
LostOperand(s, i, b, v) ==
  \/ s.op = "BAND" /\ Is(b, ones)
  \/ s.op = "MOD" /\ s.ty = "U" /\ i = 2 /\ Const(b) /\ v \notin 0..255
  \/ s.ty = "U" /\ Const(b) /\ TypeOf(s.k[i]) = "I" /\ v \notin 0..255
EightBits(t) ==
  LET lost(s, i, b, v) == IF i = 0 THEN Lost(s, b, v) ELSE LostOperand(s, i, b, v)
      part(s, i)       == IF i = 0 THEN s ELSE s.k[i]
  IN \E s \in Subtrees(t) : \E i \in {0} \cup DOMAIN s.k :
       lost(s, i, Build(part(s, i), f.nc), Eval(part(s, i), Start(MCInitially)).v)
(* simplify never changes what an expression means: the tree the parser    *)
(* builds has the value of the source tree for every value of a, where C   *)
(* defines one and simp.c's eight bits are not in the way.                 *)
FoldExact ==
  phase = "parse" /\ ~f.run /\ built # <<>> /\ ~EightBits(f.stmts[1]) =>
    \A x \in Values :
      LET m == [MCInitially EXCEPT ![Address(<<"a", 0>>)] = x]
          e == Eval(f.stmts[1], Start(m))
      IN ~e.e.bad => Eval(built[1], Start(m)).v = e.v
(* ralloc loses no value and no register: what the instructions still to   *)
(* come will read is held in a register that is not free and that no other *)
(* value shares, whatever was spilled and reloaded, and when the list ends *)
(* every register is free again.                                           *)
LiveHeld ==
  /\ phase = "alloc" =>
       LET todo == <<at>> \o After(g, at)
           held == UNION {{k \in ToSet(g.nodes[p].xk) : g.nodes[k].registered} : p \in ToSet(todo)}
       IN \A k \in held : /\ RegOf(g, k) \notin g.free
                          /\ \A j \in held : RegOf(g, j) = RegOf(g, k) => FirstUse(g, j) = FirstUse(g, k)
  /\ phase = "emit" => g.free = 0..7
(* Where the code is known to differ.  An unsigned comparison does not     *)
(* spill R7, which it subtracts in.                                        *)
UnsignedBranch == \E j, k \in DOMAIN code :
                    /\ j < k /\ code[j].op \in Relational /\ code[j].ty = "U" /\ Contains(code[k].y, 7)
                    /\ ~ \E i \in (j + 1)..(k - 1) : NeedsReg(code[i].op) /\ code[i].x = 7 /\ ~code[i].vreg
(* Both operands are in one register and prologue finds no other.          *)
SameRegister == \E n \in DOMAIN code : LET i == code[n] IN
                    \/ Written(i) /\ NoRegister(i)
                    \/ i.op \in Relational /\ i.y = <<7, 7>>
(* emit2 has no case for the operation on unsigned operands.               *)
NoCodeForUnsigned == \E n \in DOMAIN code : Unwritten(code[n])
Halted == phase = "run" /\ at > Len(code)
(* The compiled function does what its C source says: when the code ends,  *)
(* every variable and the returned value are what the statements mean, the *)
(* stack is empty and no assertion of gen.c failed, whatever values the    *)
(* clobbered registers held.  dag.c may share a value only while nothing   *)
(* that it depends on is assigned, and gen.c may not lose it in between.   *)
CodeExact ==
  Halted /\ ~UnsignedBranch /\ ~SameRegister /\ ~NoCodeForUnsigned =>
    LET e == Meaning(f.stmts, MCInitially) IN
    ~e.bad /\ ~e.far => /\ \A x \in Vars : mem[x] = e.m[x]
                       /\ ret = e.ret /\ stack = <<>> /\ ~g.failed
=============================================================================
