-------------------------------- MODULE Gen ---------------------------------
(***************************************************************************)
(* The code generator (lcc-1.3/src/gen.c) with the back end lc3            *)
(* (lc3.md): a forest is covered by instructions, its instructions are put *)
(* in a list, and a pass over the list gives each of them a register,      *)
(* spilling a value to the frame when none is free.                        *)
(* A record g is undag's, with order (the list), free (freemask), last     *)
(* (x.lastuse of temporaries and registers), usecount and argoffset.       *)
(***************************************************************************)
EXTENDS Dag, FiniteSetsExt

tmask == {0, 1, 2, 3, 7}        \* INTTMP | INTRET
INTTMP == {0, 1, 2, 3}
Wild  == <<"wildcard", 0>>
R(n)  == <<"R", n>>
NeedsReg(op) == op \notin Relational \cup {"ARG", "ASGN", "RET", "JUMP", "LABEL", "VREG"}
IsTemp(s) == s[1] = "T"
RegOf(g, p) == g.nodes[p].rx[2]
readsreg(g, p) == g.nodes[p].op = "INDIR" /\ g.nodes[g.nodes[p].k[1]].op = "VREG"

(* prelabel: each node gets the register, or the set, that it must be in.  *)
setreg(g, p, r) == [g EXCEPT !.nodes[p].rx = r]
rtarget(g, p, n, r) ==
  LET q == g.nodes[p].k[n]  rx == g.nodes[q].rx
      l == newnode(g, "LOAD", g.nodes[q].ty, <<q>>, None, 0)
      f == [l.d EXCEPT !.nodes[p].k[n] = l.p,
                       !.cse = [i \in DOMAIN @ |-> IF Temp(i) = r /\ @[i] = q THEN l.p ELSE @[i]]]
  IN IF r # rx /\ rx # Wild THEN setreg(f, l.p, r) ELSE setreg(g, q, r)
target(g, p) == CASE g.nodes[p].op = "CALL" -> setreg(g, p, R(7))
                  [] g.nodes[p].op = "RET"  -> rtarget(g, p, 1, R(7))
                  [] OTHER -> g
Labelled(g, p) ==
  LET n == g.nodes[p]
      kid == g.nodes[n.k[1]]
  IN CASE n.op \in {"ADDRF", "ADDRL"} /\ n.s[1] \in {"T", "S"} ->
            [g EXCEPT !.nodes[p].op = "VREG", !.nodes[p].rx = None]
       [] n.op = "INDIR" /\ kid.op = "VREG" -> setreg(g, p, kid.s)
       [] n.op = "ASGN" /\ kid.op = "VREG"  -> rtarget(g, p, 2, kid.s)
       [] n.op \in {"CVIU", "CVUI"} -> [g EXCEPT !.nodes[p].op = "LOAD"]
       [] OTHER -> g
AnyReg(g, p) == IF NeedsReg(g.nodes[p].op) THEN setreg(g, p, Wild) ELSE g
RECURSIVE prelabel(_, _)
prelabel(g, p) ==
  target(Labelled(AnyReg(OnKids(LAMBDA a, i : prelabel(a, a.nodes[p].k[i]), g, DOMAIN g.nodes[p].k), p), p), p)

(* reduce: which nodes are instructions.  A local's address belongs to the *)
(* load or the store that uses it, a label's or a function's to its jump.  *)
Covered(g, p, i) ==
  LET op == g.nodes[p].op  kid == g.nodes[g.nodes[p].k[i]].op
  IN \/ kid = "VREG"
     \/ kid \in {"ADDRL", "ADDRF"} /\ i = 1 /\ op \in {"INDIR", "ASGN"}
     \/ kid = "ADDRG" /\ op \in {"CALL", "JUMP"}
RECURSIVE reduce(_, _)
reduce(g, p) ==
  LET f == OnKids(LAMBDA a, i : IF Covered(a, p, i) THEN a ELSE reduce(a, a.nodes[p].k[i]),
                  g, DOMAIN g.nodes[p].k)
      n == g.nodes[p]
  IN [f EXCEPT !.nodes[p].inst = TRUE, !.nodes[p].copy = (n.op = "LOAD"),
               !.usecount = IF IsTemp(n.rx) THEN [@ EXCEPT ![n.rx[2]] = @ + 1] ELSE @]
rewrite(g, p) == reduce(prelabel(g, p), p)

(* prune: x.kids of an instruction are the instructions it takes its       *)
(* operands from; a temporary nobody reads is no instruction.              *)
RECURSIVE prune(_, _)
prune(g, p) ==
  LET pr == OnKids(LAMBDA a, i : LET r == prune(a.d, g.nodes[p].k[i]) IN At(r.d, a.p \o r.p),
                   At(g, <<>>), DOMAIN g.nodes[p].k)
      n  == g.nodes[p]
      dead == IsTemp(n.rx) /\ g.usecount[n.rx[2]] < 2
  IN IF n.inst /\ ~dead THEN At([pr.d EXCEPT !.nodes[p].xk = pr.p], <<p>>)
     ELSE At([pr.d EXCEPT !.nodes[p].inst = FALSE, !.nodes[p].xk = <<>>], pr.p)
RECURSIVE linearize(_, _)
linearize(g, p) == Append(OnKids(LAMBDA s, i : s \o linearize(g, g.nodes[p].xk[i]), <<>>, DOMAIN g.nodes[p].xk), p)

LastUse(g, s) == IF s \in DOMAIN g.last THEN g.last[s] ELSE 0
SetLast(g, s, p) == [g EXCEPT !.last = (s :> p) @@ @]
docall(g, p) == [g EXCEPT !.nodes[p].v = g.argoffset, !.argoffset = 0]
GenRoot(g, p) ==
  LET n == g.nodes[p]
      c == CASE n.op = "CALL" -> docall(g, p)
             [] n.op = "ASGN" /\ g.nodes[n.k[2]].op = "CALL" -> docall(g, n.k[2])
             [] n.op = "ARG" -> [g EXCEPT !.argoffset = @ + 1]
             [] OTHER -> g
  IN [rewrite(c, p) EXCEPT !.nodes[p].listed = TRUE]
(* The lists are linked: the order of the instructions, and the uses of    *)
(* each temporary.                                                         *)
Link(g) ==
  LET p == FoldLeft(LAMBDA a, q : prune(a, q).d, g, g.out)
  IN [p EXCEPT !.order = FoldLeft(LAMBDA s, q : s \o linearize(p, q), @, g.out)]
Uses(g) ==
  LET kids == FoldLeft(LAMBDA s, p : s \o g.nodes[p].xk, <<>>, g.order)
  IN FoldLeft(LAMBDA a, k : SetLast([a EXCEPT !.nodes[k].prevuse = LastUse(a, a.nodes[k].rx)],
                                    a.nodes[k].rx, k),
              g, SelectSeq(kids, LAMBDA k : IsTemp(g.nodes[k].rx)))
GenStart(u) == u @@ [order |-> <<>>, free |-> 0..7, last |-> <<>>, argoffset |-> 0,
                     usecount |-> [i \in 1..u.temps |-> 0]]

(* Registers: askreg takes the highest free one, spillee chooses the one   *)
(* whose next use is farthest.                                             *)
putreg(g, n) == [g EXCEPT !.free = @ \cup {n}]
Candidates(set) == IF set = Wild THEN tmask ELSE {set[2]}
At1(g, p)    == CHOOSE i \in DOMAIN g.order : g.order[i] = p        \* p's place in the list
After(g, p)  == SubSeq(g.order, At1(g, p) + 1, Len(g.order))
uses(g, p, n) == \E k \in ToSet(g.nodes[p].xk) : g.nodes[k].registered /\ RegOf(g, k) = n
spillee(g, set, here) ==
  LET used(n) == {i \in At1(g, here)..Len(g.order) : uses(g, g.order[i], n)}
      regs    == {n \in Candidates(set) : LastUse(g, R(n)) # 0 /\ used(n) # {}}
      far     == Max({Min(used(n)) : n \in regs})
  IN IF set # Wild THEN set[2] ELSE IF regs = {} THEN -1
     ELSE Max({n \in regs : Min(used(n)) = far})

(* genspill stores the register in the frame behind the node that sets it; *)
(* genreload loads it before p, in the place of p's operand i.             *)
Insert(g, at, ps) == [g EXCEPT !.order = SubSeq(@, 1, at) \o ps \o SubSeq(@, at + 1, Len(@))]
Slot(n) == <<"X", n>>
genspill(g, n, last, slot) ==
  LET ty == g.nodes[last].ty
      p == Len(g.nodes)                 \* the last node: the new ones follow it
      a == newnode(g, "ADDRL", "P", <<>>, <<"S", n>>, 0).d
      q == newnode(a, "INDIR", ty, <<p + 1>>, None, 0).d
      b == newnode(q, "ADDRL", "P", <<>>, slot, 0).d
      s == newnode(b, "ASGN", ty, <<p + 3, p + 2>>, None, 0).d
      w == prune(rewrite([s EXCEPT !.nodes[p + 4].spills = TRUE], p + 4), p + 4).d
  IN Insert([w EXCEPT !.nodes[p + 2].registered = TRUE, !.nodes[p + 4].registered = TRUE],
            At1(g, last), <<p + 2, p + 4>>)
RECURSIVE reprune(_, _, _, _)
reprune(a0, p, n, new) ==
  OnKids(LAMBDA a, i : LET q == a.d.nodes[p].k[i] IN
                       IF a.p > n THEN a
                       ELSE IF ~a.d.nodes[q].inst THEN reprune(a, q, n, new)
                       ELSE At(IF a.p = n THEN [a.d EXCEPT !.nodes[p].k[i] = new] ELSE a.d, a.p + 1),
         a0, DOMAIN a0.d.nodes[p].k)
genreload(g, p, slot, i) ==
  LET n == Len(g.nodes)
      b == newnode(g, "ADDRL", "P", <<>>, slot, 0).d
      q == newnode(b, "INDIR", g.nodes[g.nodes[p].xk[i]].ty, <<n + 1>>, None, 0).d
      w == prune(rewrite(q, n + 2), n + 2).d
      retarget(k) == IF k.nodes[p].op = "RET" THEN target(k, p) ELSE k
  IN Insert(prune(retarget(reprune(At(w, 1), p, i, n + 2).d), p).d, At1(g, p) - 1, <<n + 2>>)

RECURSIVE FirstUse(_, _)
FirstUse(g, p) == IF g.nodes[p].prevuse = 0 THEN p ELSE FirstUse(g, g.nodes[p].prevuse)
Reloaded(g, n, here, slot) ==
  LET reload(a, p) ==
        OnKids(LAMBDA b, i : LET k == b.nodes[p].xk[i] IN
                             IF b.nodes[k].registered /\ b.nodes[k].rx = R(n)
                             THEN genreload(b, p, slot, i) ELSE b,
               a, DOMAIN a.nodes[p].xk)
  IN FoldLeft(reload, g, SelectSeq(After(g, here), LAMBDA p : uses(g, p, n)))
spillr(g, n, here) ==
  LET def  == FirstUse(g, LastUse(g, R(n)))
      slot == Slot(g.slots + 1)
      s    == genspill([g EXCEPT !.slots = @ + 1, !.failed = @ \/ ~g.nodes[def].registered \/ readsreg(g, def)],
                       n, def, slot)
  IN putreg(Reloaded(s, n, here, slot), n)
spill(g, mask, here) ==
  LET n     == g.nodes[here]
      own   == n.registered /\ n.rx # None /\ n.rx[2] \in mask
      scan(a, p) ==
        OnKids(LAMBDA b, i : LET k == b.nodes[p].xk[i] IN
                             IF b.nodes[k].registered /\ RegOf(b, k) \in mask
                             THEN spillr(b, RegOf(b, k), here) ELSE b,
               a, DOMAIN a.nodes[p].xk)
      s == [g EXCEPT !.nodes[here].spills = TRUE]
  IN IF mask \subseteq g.free THEN s
     ELSE FoldLeft(scan, [s EXCEPT !.failed = @ \/ own],
                   SelectSeq(<<here>> \o After(g, here), LAMBDA p : \E m \in mask : uses(g, p, m)))
askreg(g, set) ==
  LET free == Candidates(set) \cap g.free
      r    == IF free = {} THEN 0 ELSE Max(free)
  IN At([g EXCEPT !.free = @ \ {r}, !.failed = @ \/ free = {}], r)
getreg(g, set, p) ==
  LET best == spillee(g, set, p)
  IN askreg(IF Candidates(set) \cap g.free # {} THEN g
            ELSE IF best = -1 THEN [g EXCEPT !.failed = TRUE] ELSE spill(g, {best}, p), set)
Clobbers(n) == CASE n.op \in Relational /\ n.ty = "I" -> {7}
                 [] n.op = "JUMP" -> {0}
                 [] n.op = "CALL" -> INTTMP
                 [] OTHER -> {}
clobber(g, p) == LET mask == Clobbers(g.nodes[p]) IN IF mask = {} THEN g ELSE spill(g, mask, p)

(* A node's operands that are used for the last time give up their         *)
(* registers; then it gets its own, which a temporary keeps to its last    *)
(* use.                                                                    *)
FreedAny(g, p) == FoldLeft(LAMBDA a, k : IF a.nodes[k].rx[1] = "R" THEN putreg(a, RegOf(a, k)) ELSE a, g, g.nodes[p].xk)
Freed(g, p) == FoldLeft(LAMBDA a, k : IF a.nodes[k].rx[1] = "R" /\ LastUse(a, a.nodes[k].rx) = k
                                      THEN putreg(a, RegOf(a, k)) ELSE a,
                        [g EXCEPT !.failed = @ \/ \E k \in ToSet(g.nodes[p].xk) : ~g.nodes[k].registered],
                        g.nodes[p].xk)
RECURSIVE Chain(_, _)
Chain(g, p) == IF p = 0 THEN {} ELSE {p} \cup Chain(g, g.nodes[p].prevuse)
Assigned(g, p, r) ==
  LET sym == g.nodes[p].rx
      all == Chain(r.d, r.d.last[sym])
  IN IF IsTemp(sym)
     THEN SetLast([r.d EXCEPT !.nodes = [q \in DOMAIN @ |->
            IF q \notin all THEN @[q]
            ELSE [@[q] EXCEPT !.rx = R(r.p), !.registered = TRUE,
                              !.equatable = @ \/ (g.cse[sym[2]] # 0 /\ r.d.nodes[q].copy)]]],
                  R(r.p), r.d.last[sym])
     ELSE SetLast([r.d EXCEPT !.nodes[p].rx = R(r.p)], R(r.p), p)
Allocated(g, p) ==
  LET sym == g.nodes[p].rx IN Assigned(g, p, getreg(g, IF IsTemp(sym) THEN Wild ELSE sym, p))
ralloc(g, p) ==
  LET f == Freed(g, p)  n == g.nodes[p]
      a == IF ~n.registered /\ NeedsReg(n.op) /\ n.rx[1] # "S" THEN Allocated(f, p) ELSE f
  IN clobber([a EXCEPT !.nodes[p].registered = TRUE], p)
(* A call whose value nobody takes gives its register back at once.        *)
Untaken(g, p) == IF g.nodes[p].listed /\ NeedsReg(g.nodes[p].op) THEN putreg(g, RegOf(g, p)) ELSE g
GenNode(g, p) == Untaken(ralloc(g, p), p)

(* emit: a copy to a temporary that only renames its source is left out    *)
(* (requate), and so is a copy of a register to itself.                    *)
Kid(g, p)      == g.nodes[p].xk[1]
moveself(g, p) == g.nodes[p].copy /\ RegOf(g, p) = RegOf(g, Kid(g, p))
(* The first node behind q that ends the search, and whether it succeeds.  *)
requate(g, q) ==
  LET src == g.nodes[Kid(g, q)].rx
      tmp == g.nodes[q].rx
      step(a, p) ==
        LET n == a.d.nodes[p]  more == p # Last(a.d.order) IN
        IF a.p \in {"no", "break"} THEN a
        ELSE IF n.copy /\ n.rx = src /\ a.d.nodes[Kid(a.d, p)].rx = tmp THEN At(setreg(a.d, p, tmp), a.p)
        ELSE IF \/ n.rx # None /\ n.rx[2] = src[2] /\ ~moveself(a.d, p) /\ ~readsreg(a.d, p)
                \/ n.spills
                \/ n.op \in {"CALL", "LABEL"} /\ more
        THEN At(a.d, "no")
        ELSE IF n.rx = tmp /\ ~readsreg(a.d, p) THEN At(a.d, "break") ELSE a
      end   == FoldLeft(step, At(g, "yes"), SelectSeq(After(g, q), LAMBDA p :
                 \/ g.nodes[p].rx # None /\ g.nodes[p].rx[2] \in {src[2], tmp[2]}
                 \/ g.nodes[p].spills \/ g.nodes[p].op \in {"CALL", "LABEL"}))
      stop  == {i \in DOMAIN g.order : /\ i > At1(g, q) /\ g.nodes[g.order[i]].rx = tmp
                                       /\ ~readsreg(g, g.order[i])}
      reads == {i \in DOMAIN g.order : /\ i > At1(g, q) /\ \A j \in stop : i < j
                                       /\ g.nodes[g.order[i]].rx = tmp /\ readsreg(g, g.order[i])}
      done  == [end.d EXCEPT !.failed = @ \/ reads = {},
                             !.nodes = [p \in DOMAIN @ |-> IF \E i \in reads : g.order[i] = p
                                                           THEN [@[p] EXCEPT !.rx = src] ELSE @[p]]]
  IN IF end.p = "no" THEN At(end.d, FALSE) ELSE At(done, TRUE)

(* One instruction of the list: its operation, type, destination and       *)
(* operand registers, the operand it covers, and its symbol.               *)
Instr(g, p) ==
  LET n == g.nodes[p]
      cover == {i \in DOMAIN n.k : Covered(g, p, i)}
  IN [op |-> n.op, ty |-> n.ty, x |-> n.rx[2],
      y |-> [i \in DOMAIN n.k |-> IF i \in cover THEN -1 ELSE RegOf(g, n.k[i])],
      a |-> IF cover = {} THEN None ELSE g.nodes[n.k[1]].s,
      at |-> IF cover = {} THEN 0 ELSE g.nodes[n.k[1]].v,
      vreg |-> n.k # <<>> /\ g.nodes[n.k[1]].op = "VREG", s |-> n.s, v |-> n.v]
EmitNode(g, p) ==
  LET f == [g EXCEPT !.failed = @ \/ ~g.nodes[p].registered]
      r == IF f.nodes[p].equatable THEN requate(f, p) ELSE At(f, FALSE)
  IN IF r.p \/ moveself(r.d, p) THEN At(r.d, <<>>) ELSE At(r.d, <<Instr(r.d, p)>>)
=============================================================================
