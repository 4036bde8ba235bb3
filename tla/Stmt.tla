-------------------------------- MODULE Stmt --------------------------------
(***************************************************************************)
(* The statements of the compiler (lcc-1.3/src/stmt.c): a recursive        *)
(* descent over a function's body appends to a list of code, branch and    *)
(* definelab improve its end as they go, and a switch is dispatched by     *)
(* code that is spliced in before its body.  The code then runs.           *)
(*                                                                         *)
(* Expressions are abstracted: "act" is one with an effect, "ask" a test   *)
(* and "val" a value that the environment chooses; x is the one variable   *)
(* statements set and compare.  Labels are numbers.  A record c holds the  *)
(* list, the forest that is not yet in it, the next label, the references  *)
(* to each label, the label it was equated to, the labels of names, the    *)
(* switches and whether an assertion failed.                               *)
(***************************************************************************)
EXTENDS Integers, SequencesExt

CONSTANTS Programs,     \* records [body, x]: a function's block, and x when it is called
          Answers(_),   \* the values that expression n of a switch may have
          MaxTrace      \* how many effects, tests and values of a run are looked at

MaxLabels == 40
Labels    == 1..MaxLabels

(* The code list.  A forest is a sequence of nodes; Low are the kinds that *)
(* come before Label in the enumeration, and the list starts with Start.   *)
Low == {"Blockbeg", "Blockend", "Defpoint"}
Item(kind, f, n) == [kind |-> kind, f |-> f, n |-> n]
Node(op, n, lab) == [op |-> op, n |-> n, lab |-> lab]
codehead == [list |-> <<Item("Start", <<>>, 0)>>, forest |-> <<>>, lab |-> 2, ref |-> [l \in Labels |-> 0],
             eq |-> [l \in Labels |-> 0], names |-> [m \in {"A", "B"} |-> 0], sw |-> <<>>, failed |-> FALSE]
End == 1                \* cfunc->u.f.label

code(c, kind, f, n)  == [c EXCEPT !.list = Append(@, Item(kind, f, n))]
genlabel(c, n)       == [c EXCEPT !.lab = @ + n]
listnode(c, nodes)   == [c EXCEPT !.forest = @ \o nodes,
                                  !.ref = [l \in Labels |-> @[l] + Len(SelectSeq(nodes, LAMBDA p : p.lab = l))]]
walk(c, nodes)       == LET d == listnode(c, nodes)
                        IN IF d.forest = <<>> THEN d ELSE [code(d, "Gen", d.forest, 0) EXCEPT !.forest = <<>>]
flush(c)             == walk(c, <<>>)
definept(c)          == code(c, "Defpoint", <<>>, 0)
(* The last item up to i that is of none of these kinds.                   *)
Back(list, i, kinds) == SelectLastInSubSeq(list, 1, i, LAMBDA a : a.kind \notin kinds)
LastReal(c)          == c.list[Back(c.list, Len(c.list), Low)].kind
reachable(c)         == LastReal(c) \notin {"Jump", "Switch"}

(* definelab: a jump to the label that is now defined goes nowhere.        *)
RECURSIVE Useless(_, _, _)
Useless(c, i, lab) ==
  LET j == Back(c.list, i, Low \cup {"Label"})
  IN IF c.list[j].kind = "Jump" /\ c.list[j].n = lab
     THEN Useless([c EXCEPT !.list = RemoveAt(@, j), !.ref[lab] = @ - 1], j - 1, lab) ELSE c
definelab(c, lab) ==
  LET d == flush(c) IN Useless(code(d, "Label", <<>>, lab), Len(d.list), lab)

(* branch: a label right before it becomes another name of its target; it  *)
(* is dropped where control does not reach.                                *)
RECURSIVE equal(_, _, _), equated(_, _), Renamed(_, _, _)
equal(c, l, dst) == dst # 0 /\ (l = dst \/ equal(c, l, c.eq[dst]))
equated(c, l)    == IF c.eq[l] = 0 THEN l ELSE equated(c, c.eq[l])
equatelab(c, old, new) == [c EXCEPT !.eq[old] = new, !.ref[new] = @ + 1, !.failed = @ \/ c.eq[old] # 0]
Renamed(c, i, lab) ==
  LET j == Back(c.list, i, Low)
      n == c.list[j].n
  IN IF c.list[j].kind = "Label" /\ ~equal(c, n, lab)
     THEN Renamed([equatelab(c, n, lab) EXCEPT !.list = RemoveAt(@, j)], j - 1, lab) ELSE c
Jump(c, lab)    == IF reachable(c) THEN [code(c, "Jump", <<>>, lab) EXCEPT !.ref[lab] = @ + 1] ELSE c
branch(c, lab)  == LET d == flush(c) IN Jump(Renamed(d, Len(d.list), lab), lab)
IfUsed(c, lab)  == IF c.ref[lab] > 0 THEN definelab(c, lab) ELSE c

(* listnodes of a condition with a label to go to if it is true, or false. *)
Opposite == [EQ |-> "NE", NE |-> "EQ", GT |-> "LE", LT |-> "GE", GE |-> "LT", LE |-> "GT"]
Cmp(rel, v, n, lab) == [op |-> "cmp", rel |-> rel, v |-> v, n |-> n, lab |-> lab]
cond(t, tlab, flab) ==
  LET lab == tlab + flab IN                     \* one of them is 0
  CASE t.c = "ask" -> <<[op |-> "ask", on |-> tlab # 0, n |-> t.n, lab |-> lab]>>
    [] t.c = "const" -> IF (t.n # 0) = (tlab # 0) THEN <<Node("jump", 0, lab)>> ELSE <<>>
    [] t.c \in DOMAIN Opposite -> <<Cmp(IF tlab # 0 THEN t.c ELSE Opposite[t.c], 0, t.n, lab)>>
Holds(rel, a, b) == CASE rel = "EQ" -> a = b [] rel = "NE" -> a # b [] rel = "GT" -> a > b
                      [] rel = "GE" -> a >= b [] rel = "LE" -> a <= b [] rel = "LT" -> a < b
(* for (x = a; x rel b; ...): the first test is left out if it holds.      *)
foldcond(s) == s.init # <<>> /\ s.c.c \in DOMAIN Opposite /\ Holds(s.c.c, s.init[1], s.c.n)
Set(vals)   == [i \in DOMAIN vals |-> Node("set", vals[i], 0)]

-----------------------------------------------------------------------------
(* caselabel: the values are kept in order.                                *)
Extend(v) == IF (v \div 128) % 2 = 1 THEN (v % 128) - 128 ELSE v % 256
caselabel(w, val, lab) ==
  LET n == Cardinality({i \in DOMAIN w.cases : w.cases[i].v < val})
  IN [w EXCEPT !.cases = InsertAt(@, n + 1, [v |-> val, lab |-> lab])]
CaseLabels(w, vals, lab) ==
  FoldLeft(LAMBDA a, v : caselabel(a, IF w.ty = "U" THEN Extend(v) ELSE v, lab), w, vals)

(* swgen: buckets of at least half as many cases as values.                *)
Dense(v, i, j) == 2 * (j - i + 1) >= v[j].v - v[i].v + 1
RECURSIVE Merge(_, _, _)
Merge(v, b, k) == IF Len(b) > 1 /\ Dense(v, b[Len(b) - 1], k) THEN Merge(v, Front(b), k) ELSE b
Buckets(v) == Append(FoldLeft(LAMBDA b, k : Merge(v, Append(b, k), k), <<>>, [k \in DOMAIN v |-> k]), Len(v) + 1)

(* swcode: a binary search over the buckets; a small one is compared, a    *)
(* large one has a table of jumps.                                         *)
Compared(w, l, u) == [i \in 1..(u - l + 1) |-> Cmp("EQ", w.v, w.cases[l + i - 1].v, w.cases[l + i - 1].lab)]
Table(c, w, l, u, lolab, hilab) ==
  LET below == IF w.ty = "U" /\ w.cases[l].v = 0 THEN <<>> ELSE <<Cmp("LT", w.v, w.cases[l].v, lolab)>>
      jump  == [op |-> "tjump", v |-> w.v, n |-> w.cases[l].v, lab |-> 0]
  IN code(walk(c, below \o <<Cmp("GT", w.v, w.cases[u].v, hilab), jump>>),
          "Switch", SubSeq(w.cases, l, u), w.lab)
Outside(w, l, u, low, high, lolab, hilab) ==
  IF low THEN <<Cmp("GT", w.v, w.cases[u].v, hilab)>>
  ELSE IF high THEN <<Cmp("LT", w.v, w.cases[l].v, lolab)>> ELSE <<>>
RECURSIVE swcode(_, _, _, _, _)
swcode(c0, w, b, lb, ub) ==
  LET k     == (lb + ub) \div 2
      low   == k > lb
      high  == k < ub
      lolab == IF low THEN c0.lab ELSE w.lab
      hilab == IF high THEN c0.lab + (IF low THEN 1 ELSE 0) ELSE w.lab
      c     == genlabel(c0, (IF low THEN 1 ELSE 0) + (IF high THEN 1 ELSE 0))
      l     == b[k]
      u     == b[k + 1] - 1
      few   == walk(c, Compared(w, l, u) \o Outside(w, l, u, low, high, lolab, hilab))
      here  == IF u - l + 1 > 3 THEN Table(c, w, l, u, lolab, hilab)
               ELSE IF low \/ high THEN few ELSE branch(few, w.lab)
      below == IF low THEN swcode(definelab(here, lolab), w, b, lb, k - 1) ELSE here
  IN IF high THEN swcode(definelab(below, hilab), w, b, k + 1, ub) ELSE below
swgen(c, w) == LET b == Buckets(w.cases) IN IF w.cases = <<>> THEN c ELSE swcode(c, w, b, 1, Len(b) - 1)

-----------------------------------------------------------------------------
(* loop is the label of the loop around a statement, swp the place of its  *)
(* switch in c.sw; 0 if there is none.                                     *)
RECURSIVE statement(_, _, _, _)
Else(a, s, lab, loop, swp) ==
  IF Len(s.k) = 1 THEN definelab(a, lab)
  ELSE IfUsed(statement(definelab(branch(a, lab + 1), lab), s.k[2], loop, swp), lab + 1)
ifstmt(c, s, lab, loop, swp) ==
  Else(statement(walk(definept(genlabel(c, 2)), cond(s.c, 0, lab)), s.k[1], loop, swp), s, lab, loop, swp)
whilestmt(c, s, lab, swp) ==
  LET a == statement(definelab(branch(flush(genlabel(c, 3)), lab + 1), lab), s.k[1], lab, swp)
  IN IfUsed(walk(definept(definelab(a, lab + 1)), cond(s.c, lab, 0)), lab + 2)
dostmt(c, s, lab, swp) ==
  LET a == statement(definelab(genlabel(c, 3), lab), s.k[1], lab, swp)
  IN IfUsed(walk(definept(definelab(a, lab + 1)), cond(s.c, lab, 0)), lab + 2)
(* A for statement without a condition has the condition "none".           *)
ForEnd(d, s, lab, tests) ==
  LET e == definept(IF tests THEN definelab(d, lab + 3) ELSE d)
  IN IfUsed(IF s.c.c = "none" THEN branch(e, lab) ELSE walk(e, cond(s.c, lab, 0)), lab + 2)
forstmt(c, s, lab, swp) ==
  LET tests == s.c.c # "none" /\ ~foldcond(s)
      a == walk(definept(genlabel(c, 4)), Set(s.init))
      b == definelab(IF tests THEN branch(a, lab + 3) ELSE a, lab)
      d == walk(definept(definelab(statement(b, s.k[1], lab, swp), lab + 1)),
                IF s.inc THEN <<Node("inc", 0, 0)>> ELSE <<>>)
  IN ForEnd(d, s, lab, tests)
(* The value is x itself (n is 0) or is kept in a register of its own.  d  *)
(* is c with the body behind its list and a "Switch"; the dispatch takes   *)
(* that one's place.                                                       *)
Defaulted(b, lab) == IfUsed(IF Last(b.sw).default THEN b ELSE definelab(b, lab), lab + 1)
Spliced(list, d, lab) ==
  LET g == branch(swgen([d EXCEPT !.list = list], Last(d.sw)), lab)
      body == SubSeq(d.list, Len(list) + 2, Len(d.list))
  IN [g EXCEPT !.list = @ \o body, !.sw = Front(@), !.failed = @ \/ body = <<>>]
SwitchOn(a, s, lab, loop) ==
  LET w == [lab |-> lab, default |-> FALSE, cases |-> <<>>, ty |-> s.ty, v |-> IF s.n = 0 THEN 0 ELSE lab]
  IN Spliced(a.list, Defaulted(statement([code(a, "Switch", <<>>, 0) EXCEPT !.sw = Append(@, w)], s.k[1], loop,
                                         Len(a.sw) + 1), lab), lab)
swstmt(c, s, lab, loop) ==
  SwitchOn(walk(definept(genlabel(c, 2)), IF s.n = 0 THEN <<>> ELSE <<[op |-> "val", n |-> s.n, v |-> lab, lab |-> 0]>>),
           s, lab, loop)
InSwitchAny(c, swp, loop) == swp # 0
InSwitch(c, swp, loop) == swp # 0 /\ c.sw[swp].lab > loop
(* compound: the function's own block returns 0 if its end may be reached. *)
retcode(c, n) == walk(c, <<Node("ret", n, 0)>>)
Returned(c)   == IF LastReal(c) = "Jump" THEN c ELSE retcode(c, 0)
Blockend(c)   == LET b == code(c, "Blockend", <<>>, 0) IN IF reachable(b) THEN definept(b) ELSE b
block(c, s, loop, swp) ==
  flush(FoldLeft(LAMBDA d, k : statement(d, k, loop, swp), definept(code(flush(c), "Blockbeg", <<>>, 0)), s.k))
compound(c, s, loop, swp) == Blockend(block(c, s, loop, swp))
(* A name's label is made where the name is first met.                     *)
Known(c, name)  == IF c.names[name] # 0 THEN c ELSE [genlabel(c, 1) EXCEPT !.names[name] = c.lab]
statement(c, s, loop, swp) ==
  CASE s.s = "if" -> ifstmt(c, s, c.lab, loop, swp)
    [] s.s = "while" -> whilestmt(c, s, c.lab, swp)
    [] s.s = "do" -> dostmt(c, s, c.lab, swp)
    [] s.s = "for" -> forstmt(c, s, c.lab, swp)
    [] s.s = "switch" -> swstmt(c, s, c.lab, loop)
    [] s.s = "break" -> branch(definept(flush(c)), IF InSwitch(c, swp, loop) THEN c.sw[swp].lab + 1 ELSE loop + 2)
    [] s.s = "continue" -> branch(definept(flush(c)), loop + 1)
    [] s.s = "case" ->
         LET a == definelab(genlabel(c, 1), c.lab)
         IN statement([a EXCEPT !.sw[swp] = CaseLabels(@, s.vals, c.lab)], s.k[1], loop, swp)
    [] s.s = "default" ->
         statement([definelab(c, c.sw[swp].lab) EXCEPT !.sw[swp].default = TRUE], s.k[1], loop, swp)
    [] s.s = "return" -> branch(retcode(definept(c), s.n), End)
    [] s.s = "block" -> compound(c, s, loop, swp)
    [] s.s = "empty" -> definept(c)
    [] s.s = "goto" -> LET d == Known(definept(flush(c)), s.n) IN branch(d, d.names[s.n])
    [] s.s = "label" -> LET d == Known(c, s.n) IN statement(definelab(d, d.names[s.n]), s.k[1], loop, swp)
    [] s.s = "asm" -> listnode(definept(flush(c)), <<Node("act", s.n, 0)>>)
    [] s.s = "act" -> walk(definept(c), <<Node("act", s.n, 0)>>)     \* a call: no node is left to share
    [] s.s = "set" -> listnode(definept(c), Set(<<s.n>>))
funcdefn(s) == flush(definelab(Blockend(Returned(block(codehead, s, 0, 0))), End))

(* gencode and emitcode: the nodes in order, with the labels they go to;   *)
(* between two cases of a table is the default.                            *)
Cells(c, cases, def) ==
  [i \in 1..(Last(cases).v - cases[1].v + 1) |->
     equated(c, IF \E e \in ToSet(cases) : e.v = cases[1].v + i - 1
                THEN (CHOOSE e \in ToSet(cases) : e.v = cases[1].v + i - 1).lab ELSE def)]
Emitted(c, a) ==
  CASE a.kind = "Gen" -> [i \in DOMAIN a.f |-> IF a.f[i].lab = 0 THEN a.f[i] ELSE [a.f[i] EXCEPT !.lab = equated(c, @)]]
    [] a.kind = "Label" -> <<Node("label", 0, a.n)>>
    [] a.kind = "Jump" -> <<Node("jump", 0, equated(c, a.n))>>
    [] a.kind = "Switch" -> <<[op |-> "table", cells |-> Cells(c, a.f, a.n)]>>
    [] OTHER -> <<>>
emitcode(c) == FlattenSeq([i \in DOMAIN c.list |-> Emitted(c, c.list[i])])

-----------------------------------------------------------------------------
VARIABLES prog,         \* the function
          text, failed, \* the code, or <<>>, and whether an assertion failed on the way
          pc, store,    \* the instruction, x (at 0) and the values of the switches
          trace,        \* what the environment saw and answered
          silent        \* how many steps it has not seen since
vars == <<prog, text, failed, pc, store, trace, silent>>

Init == /\ prog \in Programs /\ text = <<>> /\ failed = FALSE /\ pc = 0
        /\ store = (0 :> prog.x) /\ trace = <<>> /\ silent = 0
(* fixup asserts that no label in the list is another one's name.          *)
Compile ==
  /\ text = <<>>
  /\ \E c \in {funcdefn(prog.body)} :
       /\ text' = emitcode(c)
       /\ failed' = (c.failed \/ \E i \in DOMAIN c.list : c.list[i].kind = "Label" /\ c.eq[c.list[i].n] # 0)
  /\ pc' = 1 /\ UNCHANGED <<prog, store, trace, silent>>

Place(lab)  == SelectInSeq(text, LAMBDA p : p.op = "label" /\ p.lab = lab)       \* 0: nowhere
Signed(n)   == IF n >= 2^15 THEN n - 2^16 ELSE n        \* cmp converts to a signed type
Seen(event) == trace' = Append(trace, event) /\ silent' = 0
Unseen      == silent' = silent + 1 /\ UNCHANGED trace
Go(lab)     == pc' = Place(lab)
next        == pc' = pc + 1
Running     == pc \in DOMAIN text /\ silent <= Len(text)
Visible     == /\ Running /\ Len(trace) < MaxTrace /\ UNCHANGED <<prog, text, failed>>
Quiet       == /\ Running /\ UNCHANGED <<prog, text, failed, store>> /\ Unseen
Act  == /\ Visible /\ text[pc].op \in {"act", "ret"} /\ next /\ UNCHANGED store
        /\ Seen(<<text[pc].op, text[pc].n, 0>>)
Store == LET x == IF text[pc].op = "inc" THEN store[0] + 1 ELSE text[pc].n IN
         /\ Visible /\ text[pc].op \in {"set", "inc"} /\ next
         /\ store' = [store EXCEPT ![0] = x] /\ Seen(<<"set", x, 0>>)
Ask  == /\ Visible /\ text[pc].op = "ask" /\ UNCHANGED store
        /\ \E yes \in BOOLEAN : /\ Seen(<<"ask", text[pc].n, IF yes THEN 1 ELSE 0>>)
                                /\ IF yes = text[pc].on THEN Go(text[pc].lab) ELSE next
Val  == /\ Visible /\ text[pc].op = "val" /\ next
        /\ \E n \in Answers(text[pc].n) : store' = (text[pc].v :> n) @@ store /\ Seen(<<"val", text[pc].n, n>>)
Compare == /\ Quiet /\ text[pc].op = "cmp"
           /\ IF Holds(text[pc].rel, Signed(store[text[pc].v]), text[pc].n) THEN Go(text[pc].lab) ELSE next
Branch == Quiet /\ text[pc].op = "jump" /\ Go(text[pc].lab)
(* A jump through the table; what lies outside of it is no code.           *)
TableJump ==
  LET cells == text[pc + 1].cells
      i     == Signed(store[text[pc].v]) - text[pc].n + 1 IN
  /\ Quiet /\ text[pc].op = "tjump"
  /\ pc' = IF i \in DOMAIN cells THEN Place(cells[i]) ELSE 0
Label == Quiet /\ text[pc].op = "label" /\ next
Halted == text # <<>> /\ pc = Len(text) + 1
Done   == /\ \/ Halted \/ Len(trace) = MaxTrace \/ silent > Len(text) \/ (text # <<>> /\ pc = 0)
          /\ UNCHANGED vars
Next == Compile \/ Act \/ Store \/ Ask \/ Val \/ Compare \/ Branch \/ TableJump \/ Label \/ Done
Spec == Init /\ [][Next]_vars
=============================================================================
