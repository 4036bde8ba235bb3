-------------------------------- MODULE Rcc ---------------------------------
(***************************************************************************)
(* The compiler rcc from a function's statements to the code that runs:    *)
(* the parser builds and folds the trees of each statement, listnodes adds *)
(* them to the forest, undag and gen turn the forest into a list of        *)
(* instructions, gen gives registers to one after the other, emit writes   *)
(* them, and the LC-3 executes what was written.  A forest is generated    *)
(* and emitted as soon as it is complete; rcc does so at the function's    *)
(* end, in the same order.  Statements with run FALSE are only built: they *)
(* are constant expressions and the like.                                  *)
(***************************************************************************)
EXTENDS Gen

CONSTANTS Sources,      \* records [stmts, nc, run]: source trees, needconst, whether it is compiled
          Address(_),   \* where a symbol lies in memory
          Initially,    \* memory when the function starts
          Junk          \* what a register may hold that other code has used

VARIABLES f,            \* the function
          phase, at,    \* what the compiler does, and the root, node or instruction it is at
          built,        \* the trees of the statements
          g,            \* dag.c's and gen.c's state
          code,         \* the instructions emitted
          regs, mem, stack, ret     \* the machine that executes them

vars    == <<f, phase, at, built, g, code, regs, mem, stack, ret>>
machine == <<regs, mem, stack, ret>>

Init == /\ f \in Sources
        /\ phase = "parse" /\ at = 1 /\ built = <<>> /\ g = NoDag /\ code = <<>>
        /\ \E j \in IF f.run THEN Junk ELSE {0} : regs = [n \in 0..7 |-> j]
        /\ mem = Initially /\ stack = <<>> /\ ret = 0

(* A statement is parsed and its nodes are listed.  The forest is walked   *)
(* when no node can be shared any more, at a return and at the end.        *)
Walks(t, d) == t.op = "RET" \/ d.buckets = {} \/ Len(built) + 1 = Len(f.stmts)
Parse ==
  /\ phase = "parse" /\ Len(built) < Len(f.stmts)
  /\ \E t \in {Build(f.stmts[Len(built) + 1], f.nc)} :
       \E d \in {IF f.run THEN listnodes(g, root(t, f.nc), 0, 0).d ELSE g} :
         /\ built' = Append(built, t) /\ g' = d
         /\ phase' = IF f.run /\ Walks(t, d) THEN "walk" ELSE phase
  /\ UNCHANGED <<f, at, code, machine>>
(* The next forest starts afresh, except for what is the function's.       *)
NextForest(d) == [NoDag EXCEPT !.lab = d.lab, !.equated = d.equated, !.slots = d.slots, !.failed = d.failed]
NextPhase     == IF Len(built) < Len(f.stmts) THEN "parse" ELSE "run"
walk ==
  /\ phase = "walk" /\ at' = 1
  /\ IF g.forest = <<>> THEN g' = reset(g) /\ phase' = NextPhase
     ELSE g' = UndagStart(g) /\ phase' = "undag"
  /\ UNCHANGED <<f, built, code, machine>>
(* undag, and the first half of gen, take one root after the other.        *)
Undag ==
  /\ phase = "undag"
  /\ IF at <= Len(g.forest) THEN g' = UndagRoot(g, g.forest[at]) /\ at' = at + 1 /\ phase' = phase
     ELSE g' = GenStart(fixup(g)) /\ at' = 1 /\ phase' = "rewrite"
  /\ UNCHANGED <<f, built, code, machine>>
Rewrite ==
  /\ phase = "rewrite"
  /\ IF at <= Len(g.out) THEN g' = GenRoot(g, g.out[at]) /\ at' = at + 1 /\ phase' = phase
     ELSE g' = Uses(Link(g)) /\ at' = Head(g'.order) /\ phase' = "alloc"
  /\ UNCHANGED <<f, built, code, machine>>
Ralloc ==
  /\ phase = "alloc"
  /\ g' = GenNode(g, at)
  /\ IF at = Last(g'.order) THEN phase' = "emit" /\ at' = Head(g'.order)
     ELSE phase' = phase /\ at' = Head(After(g', at))
  /\ UNCHANGED <<f, built, code, machine>>
Emit ==
  /\ phase = "emit"
  /\ LET e == EmitNode(g, at) IN
     /\ code' = code \o e.p
     /\ IF at = Last(g.order) THEN g' = NextForest(e.d) /\ phase' = NextPhase /\ at' = 1
        ELSE g' = e.d /\ phase' = phase /\ at' = Head(After(g, at))
  /\ UNCHANGED <<f, built, machine>>

(* The machine: a word is a number of Bits bits with a sign.               *)
Wrap(n)  == ((n - MinI) % (MaxU + 1)) + MinI
Word(n)  == IF n < MinI \/ n > MaxU THEN n ELSE Wrap(n)     \* addresses of constants stay apart
Load(a)  == IF a \in DOMAIN mem THEN mem[a] ELSE a - Address(<<"C", 0>>)
Value(op, y, z) == Wrap(CASE op = "NEG" -> -y [] op = "BCOM" -> -y - 1 [] op = "LOAD" -> y
                          [] OTHER -> Apply(op, y, z))

(* prologue: emit2's operations need a destination and a left operand that *)
(* are in registers of their own.  With both operands in one register it   *)
(* looks for another, and finds one only if R0 will do: the loop advances  *)
(* the pointer and not the number.                                         *)
NoRegister(i) == i.y[1] = i.y[2] /\ 0 \in {i.x, i.y[2]}
Written(i) == i.op \in {"SUB"} \/ (i.op \in {"MUL", "BOR", "BXOR", "LSH"} /\ i.ty = "I")
Unwritten(i) == i.op \in {"MUL", "BOR", "BXOR", "LSH"} /\ i.ty = "U"
Emit2(i, j) == IF NoRegister(i) THEN [n \in 0..7 |-> j]
               ELSE [regs EXCEPT ![i.x] = Value(i.op, regs[i.y[1]], regs[i.y[2]])]

(* A comparison subtracts in R7, from the right operand if the left one is *)
(* there, and looks at the sign.                                           *)
Branches(i) ==
  LET y == i.y[1]  z == i.y[2]
      d == IF y = 7 THEN Wrap((IF z = 7 THEN -regs[7] ELSE regs[z]) - regs[7])
           ELSE Wrap(regs[y] - regs[z])
  IN IF y = 7 THEN Compare(i.op, 0, d) ELSE Compare(i.op, d, 0)
PlaceOf(s) == CHOOSE n \in DOMAIN code : code[n].op = "LABEL" /\ code[n].s = s
Goto(s)   == at' = PlaceOf(s)

(* A function of another file: it uses R0 to R3, changes a global and      *)
(* answers with something that depends on its arguments and their order.   *)
Result(args) == Wrap(100 + FoldLeft(LAMBDA s, n : 2 * s + n, 0, args))
CALL(i, j) ==
  LET a == Address(<<"G", 0>>) IN
  /\ regs' = [n \in 0..7 |-> IF n = 7 THEN Result(SubSeq(stack, 1, i.v)) ELSE IF n \in INTTMP THEN j ELSE regs[n]]
  /\ stack' = SubSeq(stack, i.v + 1, Len(stack))
  /\ mem' = [mem EXCEPT ![a] = Wrap(@ + 1)]

Run(i, j) ==
  LET place == Address(i.a) + i.at
      op(n) == regs[i.y[n]]
      sets(v) == regs' = [regs EXCEPT ![i.x] = v] /\ UNCHANGED <<mem, stack, ret>>
      next  == at' = at + 1
  IN \/ i.op = "INDIR" /\ sets(IF i.vreg THEN regs[i.x] ELSE Load(IF i.y[1] = -1 THEN place ELSE op(1))) /\ next
     \/ /\ i.op = "ASGN" /\ next /\ UNCHANGED <<regs, stack, ret>>
        /\ mem' = IF i.vreg THEN mem ELSE (IF i.y[1] = -1 THEN place ELSE op(1)) :> op(2) @@ mem
     \/ i.op \in {"ADDRG", "ADDRL", "ADDRF"} /\ sets(Address(i.s) + i.v) /\ next
     \/ i.op \in {"ADD", "BAND"} /\ sets(Word(Apply(i.op, op(1), op(2)))) /\ next
     \/ i.op \in {"NEG", "BCOM", "LOAD"} /\ sets(IF i.op = "LOAD" THEN op(1) ELSE Value(i.op, op(1), 0)) /\ next
     \/ Written(i) /\ regs' = Emit2(i, j) /\ next /\ UNCHANGED <<mem, stack, ret>>
     \/ Unwritten(i) /\ next /\ UNCHANGED <<regs, mem, stack, ret>>
     \/ /\ i.op \in Relational
        /\ IF Branches(i) THEN Goto(i.s) ELSE next
        /\ regs' = [regs EXCEPT ![7] = j] /\ UNCHANGED <<mem, stack, ret>>
     \/ i.op = "JUMP" /\ Goto(i.a) /\ regs' = [regs EXCEPT ![0] = j] /\ UNCHANGED <<mem, stack, ret>>
     \/ i.op = "LABEL" /\ next /\ UNCHANGED <<regs, mem, stack, ret>>
     \/ i.op = "ARG" /\ stack' = <<op(1)>> \o stack /\ next /\ UNCHANGED <<regs, mem, ret>>
     \/ i.op = "CALL" /\ CALL(i, j) /\ next /\ UNCHANGED ret
     \/ i.op = "RET" /\ ret' = regs[7] /\ next /\ UNCHANGED <<regs, mem, stack>>
Execute ==
  /\ phase = "run" /\ at <= Len(code)
  /\ \E j \in Junk : Run(code[at], j)
  /\ UNCHANGED <<f, phase, built, g, code>>

Done == \/ phase = "parse" /\ Len(built) = Len(f.stmts) /\ ~f.run
        \/ phase = "run" /\ at > Len(code)
Next == Parse \/ walk \/ Undag \/ Rewrite \/ Ralloc \/ Emit \/ Execute \/ (Done /\ UNCHANGED vars)
Spec == Init /\ [][Next]_vars
=============================================================================
