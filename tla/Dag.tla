-------------------------------- MODULE Dag ---------------------------------
(***************************************************************************)
(* From trees to a forest of nodes (lcc-1.3/src/dag.c): listnodes makes    *)
(* one node of the common subexpressions of the statements it is given,    *)
(* undag assigns every node with several uses to a temporary.              *)
(* A record d holds the nodes, buckets (the nodes that may be shared), the *)
(* forest (the roots in order), the nodes of the trees with an id, the     *)
(* next label, the equated labels, the depth of && and ||, and of gen.c    *)
(* the spill slots used and whether an assertion failed.                   *)
(***************************************************************************)
EXTENDS Fold

iscall(n) == n.op = "CALL"        \* mulops_calls is 0 for lc3

Node(op, ty, k, s, v) ==
  [op |-> op, ty |-> ty, k |-> k, s |-> s, v |-> v, count |-> 0, tmp |-> None,
   rx |-> None, inst |-> FALSE, xk |-> <<>>, registered |-> FALSE, copy |-> FALSE,
   equatable |-> FALSE, spills |-> FALSE, listed |-> FALSE, prevuse |-> 0]
At(d, p) == [d |-> d, p |-> p]
newnode(d, op, ty, k, s, v) ==
  At([d EXCEPT !.nodes = Append([i \in DOMAIN @ |-> IF i \in ToSet(k) THEN
                                   [@[i] EXCEPT !.count = @ + Cardinality({j \in DOMAIN k : k[j] = i})]
                                 ELSE @[i]], Node(op, ty, k, s, v))],
     Len(d.nodes) + 1)
(* op on one kid after the other: a node has two at most.                  *)
OnKid(op(_, _), d, i, ks) == IF i \in ks THEN op(d, i) ELSE d
OnKids(op(_, _), d, ks)   == OnKid(op, OnKid(op, d, 1, ks), 2, ks)
(* A computed address has a symbol of its own and is never the same node.  *)
node(d, op, ty, k, s, v) ==
  LET same == {i \in d.buckets : /\ d.nodes[i].op = op /\ d.nodes[i].ty = ty /\ d.nodes[i].s = s
                                 /\ d.nodes[i].k = k /\ v = 0 /\ d.nodes[i].v = 0}
      new  == newnode(d, op, ty, k, s, v)
  IN IF same # {} THEN At(d, CHOOSE i \in same : TRUE)
     ELSE At([new.d EXCEPT !.buckets = @ \cup {new.p}], new.p)
NoDag == [nodes |-> <<>>, buckets |-> {}, forest |-> <<>>, memo |-> [i \in 0..2 |-> 0], lab |-> 1,
          equated |-> <<>>, depth |-> 0, slots |-> 0, failed |-> FALSE]

reset(d) == [d EXCEPT !.buckets = {}]
killnodesDirect(d, s) ==
  [d EXCEPT !.buckets = {i \in @ : ~ /\ d.nodes[i].op = "INDIR"
                                     /\ LET kid == d.nodes[d.nodes[i].k[1]]
                                        IN isaddrop(kid) /\ kid.s = s /\ kid.v = 0}]
killnodes(d, s) ==
  [d EXCEPT !.buckets = {i \in @ : ~ /\ d.nodes[i].op = "INDIR"
                                     /\ LET kid == d.nodes[d.nodes[i].k[1]]
                                        IN ~isaddrop(kid) \/ (kid.s = s /\ kid.v = 0)}]
list(d, p) == IF p = 0 \/ Contains(d.forest, p) THEN d ELSE [d EXCEPT !.forest = Append(@, p)]
Listed(d, op, ty, k, s) == LET n == newnode(d, op, ty, k, s, 0) IN At(list(n.d, n.p), n.p)
Label(n)   == <<"L", n>>
genlabel(d, n) == [d EXCEPT !.lab = @ + n]
LastIsLabel(d) == d.forest # <<>> /\ d.nodes[Last(d.forest)].op = "LABEL"
LastLabel(d)   == d.nodes[Last(d.forest)].s
equatelab(d, old, new) == [d EXCEPT !.equated = Append(@, <<old, new>>)]
unlist(d) == [d EXCEPT !.forest = Front(@)]
labelnode(d, n) == reset(IF LastIsLabel(d) THEN equatelab(d, Label(n), LastLabel(d))
                         ELSE Listed(d, "LABEL", "V", <<>>, Label(n)).d)
jump(d, n) == LET a == newnode(d, "ADDRG", "P", <<>>, Label(n), 0)
              IN Listed(a.d, "JUMP", "V", <<a.p>>, None).d
(* The branch of ?: ends in a jump to the end; a label that it ends in is  *)
(* the end itself.                                                         *)
EndOf(d, n) == IF LastIsLabel(d) THEN unlist(equatelab(d, LastLabel(d), Label(n))) ELSE d
Opposite == [EQ |-> "NE", NE |-> "EQ", GT |-> "LE", LT |-> "GE", GE |-> "LT", LE |-> "GT"]

(* Constants of one C type and value are one variable.                     *)
ConstName(t) == IF t.s # None THEN t.s[1] ELSE IF t.ty = "U" THEN "CU" ELSE "C"

RECURSIVE listnodes(_, _, _, _)
value(d, t, i) == listnodes(d, t.k[i], 0, 0)
(* && and ||: the first of them forgets what was shared before.            *)
Deeper(d) == [(IF d.depth = 0 THEN reset(d) ELSE d) EXCEPT !.depth = @ + 1]
Up(d)     == At([d EXCEPT !.depth = @ - 1], 0)
ListAnd(d, t, tlab, flab) ==
  LET n == d.lab
      a == listnodes(genlabel(d, 1), t.k[1], 0, n).d
  IN IF flab # 0 THEN listnodes(listnodes(d, t.k[1], 0, flab).d, t.k[2], 0, flab).d
     ELSE labelnode(listnodes(a, t.k[2], tlab, 0).d, n)
ListOr(d, t, tlab, flab) ==
  LET n == d.lab
      a == listnodes(genlabel(d, 1), t.k[1], n, 0).d
  IN IF tlab # 0 THEN listnodes(listnodes(d, t.k[1], tlab, 0).d, t.k[2], tlab, 0).d
     ELSE labelnode(listnodes(a, t.k[2], 0, flab).d, n)
ListCond(d, t) ==
  LET n == d.lab
      c == reset(listnodes(genlabel(d, 2), t.k[1], 0, n).d)
      a == labelnode(jump(EndOf(listnodes(c, t.k[2].k[1], 0, 0).d, n + 1), n + 1), n)
      b == labelnode(EndOf(listnodes(a, t.k[2].k[2], 0, 0).d, n + 1), n + 1)
  IN listnodes(b, Id("ADDRL", t.s, t.ty), 0, 0)
(* lc3 has no constants of its own: cvtconst makes a variable of each.     *)
cvtconst(t) == Id("ADDRG", <<ConstName(t), t.v>>, t.ty)
ListConst(d, t, tlab, flab) ==
  CASE tlab # 0 /\ t.v # 0 -> At(jump(d, tlab), 0)
    [] flab # 0 /\ t.v = 0 -> At(jump(d, flab), 0)
    [] tlab = 0 /\ flab = 0 -> listnodes(d, cvtconst(t), 0, 0)
    [] OTHER -> At(d, 0)
(* v++: the old value is listed before the assignment.                     *)
Increments(t) == t.k[2].op = "ASGN" /\ t.k[1].op = "INDIR" /\ t.k[1].k[1] = t.k[2].k[1]
ListRight(d, t, tlab, flab) ==
  LET l == value(d, t, 1) IN
  CASE Increments(t) -> At(value(list(l.d, l.p), t, 2).d, l.p)
    [] t.k[2].op = "NIL" -> listnodes(d, t.k[1], tlab, flab)
    [] OTHER -> listnodes(l.d, t.k[2], tlab, flab)
ListCall(d, t) ==
  LET l == value(d, t, 1)
      c == Listed(value(l.d, t, 2).d, "CALL", t.ty, <<l.p>>, None)
  IN At(reset(c.d), c.p)
ListArg(d, t) == LET l == value(d, t, 1)
                 IN At(value(Listed(l.d, "ARG", t.ty, <<l.p>>, None).d, t, 2).d, 0)
ListBranch(d, t, tlab, flab) ==
  LET l == value(d, t, 1)
      r == value(l.d, t, 2)
  IN At(Listed(r.d, IF tlab # 0 THEN t.op ELSE Opposite[t.op], t.ty, <<l.p, r.p>>,
               Label(IF tlab # 0 THEN tlab ELSE flab)).d, 0)
ListAsgn(d, t) ==
  LET l == value(d, t, 1)
      r == value(l.d, t, 2)
      a == Listed(r.d, "ASGN", t.ty, <<l.p, r.p>>, None).d
      direct == isaddrop(t.k[1]) /\ t.k[1].v = 0
  IN At(IF direct THEN killnodes(a, t.k[1].s) ELSE reset(a), r.p)
Listing(d, t, tlab, flab) ==
  LET l == value(d, t, 1) IN
  CASE t.op = "AND" -> Up(ListAnd(Deeper(d), t, tlab, flab))
    [] t.op = "OR" -> Up(ListOr(Deeper(d), t, tlab, flab))
    [] t.op = "NOT" -> listnodes(d, t.k[1], flab, tlab)
    [] t.op = "COND" -> ListCond(d, t)
    [] t.op = "CNST" -> ListConst(d, t, tlab, flab)
    [] t.op = "RIGHT" -> ListRight(d, t, tlab, flab)
    [] t.op = "CALL" -> ListCall(d, t)
    [] t.op = "ARG" -> ListArg(d, t)
    [] t.op \in Relational -> ListBranch(d, t, tlab, flab)
    [] t.op = "ASGN" -> ListAsgn(d, t)
    [] t.op \in Binary -> LET r == value(l.d, t, 2) IN node(r.d, t.op, t.ty, <<l.p, r.p>>, None, 0)
    [] t.op = "RET" -> At(Listed(l.d, "RET", t.ty, <<l.p>>, None).d, 0)
    [] t.op \in {"NEG", "BCOM", "CVIU", "CVUI", "INDIR"} -> node(l.d, t.op, t.ty, <<l.p>>, None, 0)
    [] isaddrop(t) -> node(d, t.op, "P", <<>>, t.s, t.v)
listnodes(d, t, tlab, flab) ==
  IF t.op = "NIL" THEN At(d, 0)
  ELSE IF d.memo[t.id] # 0 THEN At(d, d.memo[t.id])
  ELSE LET r == Listing(d, t, tlab, flab)
       IN IF t.id = 0 THEN r ELSE At([r.d EXCEPT !.memo[t.id] = r.p], r.p)

(* undag: u is d with the new forest, out, and the number of temporaries.  *)
Temp(n) == <<"T", n>>
asgnnode(u, s, p) ==
  LET a == newnode(u, "ADDRL", "P", <<>>, s, 0)
      n == newnode(a.d, "ASGN", u.nodes[p].ty, <<a.p, p>>, None, 0)
  IN [n.d EXCEPT !.out = Append(@, n.p)]
tmpnode(u, p) ==
  LET s == u.nodes[p].tmp
      v == [u EXCEPT !.nodes[p].count = @ - 1, !.nodes[p].tmp = IF u.nodes[p].count = 1 THEN None ELSE @]
      a == newnode(v, "ADDRL", "P", <<>>, s, 0)
      n == newnode(a.d, "INDIR", u.nodes[p].ty, <<a.p>>, None, 0)
  IN At([n.d EXCEPT !.nodes[n.p].count = 1], n.p)
RECURSIVE visit(_, _, _)
VisitKid(u, p, i) == LET r == visit(u, u.nodes[p].k[i], FALSE) IN [r.d EXCEPT !.nodes[p].k[i] = r.p]
VisitKids(u, p)   == OnKids(LAMBDA a, i : VisitKid(a, p, i), u, DOMAIN u.nodes[p].k)
visit(u, p, listed) ==
  LET n == u.nodes[p] IN
  IF n.tmp # None THEN tmpnode(u, p)
  ELSE IF (n.count <= 1 /\ ~iscall(n)) \/ (n.count = 0 /\ iscall(n)) THEN At(VisitKids(u, p), p)
  ELSE IF n.op \in {"ADDRL", "ADDRF"}
  THEN LET c == newnode(u, n.op, n.ty, <<>>, n.s, n.v) IN At([c.d EXCEPT !.nodes[c.p].count = 1], c.p)
  ELSE LET v == VisitKids(u, p)
           s == Temp(v.temps + 1)
           w == asgnnode([v EXCEPT !.temps = @ + 1, !.nodes[p].tmp = s, !.cse = Append(@, p)], s, p)
       IN IF listed THEN At(w, p) ELSE tmpnode(w, p)
UndagRoot(u, p) ==
  LET n == u.nodes[p]  v == visit(u, p, TRUE).d
  IN IF n.op = "INDIR"
     THEN IF v.nodes[p].tmp = None THEN v ELSE [v EXCEPT !.cse[v.nodes[p].tmp[2]] = 0]
     ELSE IF iscall(n) /\ n.count >= 1 THEN v
     ELSE [v EXCEPT !.out = Append(@, p)]
UndagStart(d) == d @@ [out |-> <<>>, temps |-> 0, cse |-> <<>>]

(* fixup: branches and jumps go to the label theirs was equated to.        *)
RECURSIVE equated(_, _)
equated(d, s) == IF \E e \in ToSet(d.equated) : e[1] = s
                 THEN equated(d, (CHOOSE e \in ToSet(d.equated) : e[1] = s)[2]) ELSE s
fixup(d) == [d EXCEPT !.nodes = [i \in DOMAIN @ |->
               IF @[i].s[1] = "L" THEN [@[i] EXCEPT !.s = equated(d, @)] ELSE @[i]]]
=============================================================================
