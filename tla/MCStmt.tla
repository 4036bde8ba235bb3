------------------------------- MODULE MCStmt -------------------------------
(***************************************************************************)
(* Statements of every kind in one another, each with its meaning in C.    *)
(***************************************************************************)
EXTENDS Stmt

CONSTANT Families

S0(s)       == [s |-> s, n |-> 0, k |-> <<>>]
act(n)      == [S0("act") EXCEPT !.n = n]
asm(n)      == [S0("asm") EXCEPT !.n = n]
set(n)      == [S0("set") EXCEPT !.n = n]
ret(n)      == [S0("return") EXCEPT !.n = n]
goto(name)  == [s |-> "goto", n |-> name, k |-> <<>>]
label(name, a) == [s |-> "label", n |-> name, k |-> <<a>>]
Block(ks)   == [S0("block") EXCEPT !.k = ks]
On(s, c, ks) == [s |-> s, c |-> c, k |-> ks]
for(init, c, inc, a) == [s |-> "for", init |-> init, c |-> c, inc |-> inc, k |-> <<a>>]
switch(n, a) == [s |-> "switch", n |-> n, ty |-> "I", k |-> <<a>>]
switchU(n, a) == [s |-> "switch", n |-> n, ty |-> "U", k |-> <<a>>]
case(vals, a) == [s |-> "case", vals |-> vals, k |-> <<a>>]
default(a)  == [s |-> "default", k |-> <<a>>]
ask(n)      == [c |-> "ask", n |-> n]
const(n)    == [c |-> "const", n |-> n]
rel(op, n)  == [c |-> op, n |-> n]
none        == [c |-> "none", n |-> 0]

-----------------------------------------------------------------------------
(* Meaning: the statements follow the trace.  e is the place in it, x, the *)
(* mode and its argument, and how many more times control may go back      *)
(* before anything is seen.  In mode "seek" control looks for a label.     *)
Fuel == 6
At(i, x) == [i |-> i, x |-> x, mode |-> "run", arg |-> <<"", 0>>, fuel |-> Fuel]
In(e, mode) == [e EXCEPT !.mode = mode]
Expect(e, good) == IF e.i > Len(trace) THEN In(e, "wait") ELSE IF good THEN [e EXCEPT !.i = @ + 1, !.fuel = Fuel] ELSE In(e, "off")
Event(e, kind, n) == Expect(e, trace[e.i] = <<kind, n, 0>>)
Sets(e, n)  == [Event(e, "set", n) EXCEPT !.x = n]
Asked(e, kind, n) == Expect(e, SubSeq(trace[e.i], 1, 2) = <<kind, n>>)
Test(t, e)  == IF t.c = "ask" THEN Asked(e, "ask", t.n) ELSE e
True(t, e)  == CASE t.c = "ask" -> trace[e.i][3] = 1 [] t.c = "const" -> t.n # 0 [] t.c = "none" -> TRUE
                 [] OTHER -> Holds(t.c, e.x, t.n)
Again(e)    == IF e.fuel = 0 THEN In(e, "spin") ELSE [e EXCEPT !.fuel = @ - 1]
RECURSIVE Cases(_), HasDefault(_)
Cases(s)    == (IF s.s = "case" THEN ToSet(s.vals) ELSE {})
               \cup UNION {Cases(s.k[i]) : i \in {j \in DOMAIN s.k : s.k[j].s # "switch"}}
HasDefault(s) == s.s = "default" \/ \E i \in DOMAIN s.k : s.k[i].s # "switch" /\ HasDefault(s.k[i])
Found(e, arg) == IF e.mode = "seek" /\ e.arg = arg THEN In(e, "run") ELSE e
(* The loops: Body is the body and what follows it, Round the test.        *)
Ended(e)    == IF e.mode = "break" THEN In(e, "run") ELSE e
RECURSIVE Exec(_, _), Round(_, _), Body(_, _)
Inc(s, e)   == IF s.s = "for" /\ s.inc THEN Sets(e, e.x + 1) ELSE e
Body(s, e)  == LET r == Exec(s.k[1], e) IN
               IF r.mode \in {"run", "continue"} THEN LET n == Inc(s, In(r, "run")) IN IF n.mode = "run" THEN Round(s, Again(n)) ELSE n
               ELSE Ended(r)
Round(s, e) == LET t == Test(s.c, e) IN IF e.mode # "run" THEN e ELSE IF t.mode = "run" /\ True(s.c, e) THEN Body(s, t) ELSE t
Loop(s, e)  == IF e.mode = "seek" \/ s.s = "do" THEN Body(s, e)
               ELSE LET a == IF s.s = "for" /\ s.init # <<>> THEN Sets(e, s.init[1]) ELSE e
                    IN IF a.mode = "run" THEN Round(s, a) ELSE a
If(s, e) ==
  LET t == Test(s.c, e)
      a == Exec(s.k[1], e) IN
  CASE e.mode = "seek" -> IF a.mode = "seek" /\ Len(s.k) = 2 THEN Exec(s.k[2], a) ELSE a
    [] e.mode = "run" /\ t.mode # "run" -> t
    [] OTHER -> IF True(s.c, e) THEN Exec(s.k[1], t) ELSE IF Len(s.k) = 2 THEN Exec(s.k[2], t) ELSE t
Dispatched(s, e, n) ==
  LET arg == IF n \in Cases(s.k[1]) THEN <<"case", n>> ELSE <<"default", 0>>
  IN IF arg[1] = "case" \/ HasDefault(s.k[1]) THEN Ended(Exec(s.k[1], [e EXCEPT !.mode = "seek", !.arg = arg])) ELSE e
Switch(s, e) ==
  LET t == IF s.n = 0 THEN e ELSE Asked(e, "val", s.n) IN
  CASE e.mode = "seek" -> IF e.arg[1] = "label" THEN Ended(Exec(s.k[1], e)) ELSE e
    [] e.mode = "run" -> IF t.mode = "run" THEN Dispatched(s, t, IF s.n = 0 THEN e.x ELSE trace[e.i][3]) ELSE t
Exec(s, e) ==
  IF e.mode \notin {"run", "seek"} THEN e
  ELSE IF s.s \in {"block", "if", "while", "do", "for", "switch", "label", "case", "default"}
  THEN CASE s.s = "block" -> FoldLeft(LAMBDA a, k : Exec(k, a), e, s.k)
         [] s.s = "if" -> If(s, e)
         [] s.s \in {"while", "do", "for"} -> Loop(s, e)
         [] s.s = "switch" -> Switch(s, e)
         [] s.s = "label" -> Exec(s.k[1], Found(e, <<"label", s.n>>))
         [] s.s = "default" -> Exec(s.k[1], Found(e, <<"default", 0>>))
         [] s.s = "case" -> Exec(s.k[1], IF e.mode = "seek" /\ e.arg[1] = "case" /\ e.arg[2] \in ToSet(s.vals) THEN In(e, "run") ELSE e)
  ELSE IF e.mode = "seek" \/ s.s = "empty" THEN e
  ELSE CASE s.s \in {"act", "asm"} -> Event(e, "act", s.n)
         [] s.s = "set" -> Sets(e, s.n)
         [] s.s = "return" -> LET r == Event(e, "ret", s.n) IN IF r.mode = "run" THEN In(r, "return") ELSE r
         [] s.s = "goto" -> [e EXCEPT !.mode = "goto", !.arg = <<"label", s.n>>]
         [] s.s \in {"break", "continue"} -> In(e, s.s)
RECURSIVE Follow(_)
Follow(e) == LET r == Exec(prog.body, e) IN
             IF r.mode = "goto" THEN Follow(IF r.fuel = 0 THEN Again(r) ELSE In(Again(r), "seek")) ELSE r

-----------------------------------------------------------------------------
(* Simple statements, in a loop, with a label A; two of them; a statement  *)
(* around them; another around that.                                       *)
Simple == {act(1), set(2), S0("break"), S0("continue"), ret(1), S0("empty"), goto("A"), label("A", act(2)), asm(4)}
Two    == Simple \cup {Block(<<a, b>>) : a \in {act(1), S0("break"), S0("continue"), goto("A"), set(2)},
                                        b \in {act(3), S0("break"), label("A", S0("empty"))}}
Around(B) ==
  {On("if", t, <<a>>) : t \in {ask(1), const(0)}, a \in B}
  \cup {On("if", ask(1), <<a, b>>) : a \in B, b \in {act(5), S0("break"), ret(2), S0("empty")}}
  \cup {On("while", t, <<a>>) : t \in {ask(2), const(1), rel("LT", 2)}, a \in B}
  \cup {On("do", t, <<a>>) : t \in {ask(2), const(0)}, a \in B}
  \cup {for(<<0>>, rel("LT", n), TRUE, a) : n \in {0, 2}, a \in B}
  \cup {for(<<>>, none, FALSE, a) : a \in B}
  \cup {switch(0, Block(<<case(<<0>>, a), case(<<1, 2>>, act(6))>>)) : a \in B}
  \cup {switch(1, Block(<<a, case(<<1>>, S0("empty")), default(act(7)), case(<<2>>, S0("break"))>>)) : a \in B}
  \cup {switch(1, case(<<1>>, default(a))) : a \in B}
  \cup {switch(1, On("while", ask(3), <<Block(<<case(<<1>>, act(8)), default(a)>>)>>)) : a \in B}
RECURSIVE Named(_), Gotos(_), Loose(_, _)
Named(s) == (IF s.s = "label" THEN 1 ELSE 0) + FoldLeft(LAMBDA n, k : n + Named(k), 0, s.k)
Gotos(s) == s.s = "goto" \/ \E i \in DOMAIN s.k : Gotos(s.k[i])
(* A break or continue with nothing to leave.                              *)
Loose(s, kinds) == s.s \in kinds \/ \E i \in DOMAIN s.k :
                     Loose(s.k[i], kinds \ (IF s.s \in {"while", "do", "for"} THEN {"break", "continue"}
                                             ELSE IF s.s = "switch" THEN {"break"} ELSE {}))
Legal(s) == Named(s) <= 1 /\ (Gotos(s) => Named(s) = 1) /\ ~Loose(s, {"break", "continue"})
Nest == {s \in {Block(<<o>>) : o \in Around(Two)} \cup {Block(<<o, label("A", ret(3))>>) : o \in Around(Two)}
                \cup {Block(<<On("while", ask(9), <<Block(<<i, b>>)>>)>>) :
                         i \in Around(Two), b \in {act(3), S0("break"), label("A", S0("continue"))}}
                \cup {Block(<<o, label("A", act(9))>>) : o \in Around(Around(Simple))} : Legal(s)}
(* Dispatch: the cases of a switch in some order, with or without default. *)
Numbers == <<-2, 0, 1, 2, 8, 20, 21, 22, 24>>
Orders(vs) == LET up == SelectSeq(Numbers, LAMBDA n : n \in vs) IN {up, Reverse(up)}
Dispatch == {Block(<<switch(2, Block([i \in DOMAIN o |-> case(<<o[i]>>, Block(<<act(o[i]), S0("break")>>))] \o d)), ret(1)>>) :
               o \in UNION {Orders(vs) : vs \in SUBSET ToSet(Numbers)}, d \in {<<>>, <<default(act(99))>>}}
Unsigned == {Block(<<switchU(3, Block([i \in DOMAIN o |-> case(<<o[i]>>, Block(<<act(o[i]), S0("break")>>))])), ret(1)>>) :
               o \in {<<0, 1, 2, 3>>, <<1, 2, 3, 4>>, <<0, 127>>, <<1, 200>>}}
(* Bare: the body of a switch is an expression without a block around it.  *)
Bare ==
  {s \in {Block(<<switch(1, default(case(<<1>>, b))), On("if", ask(2), <<a>>), c>>) :
             b \in UNION {{e, label("A", e)} \cup {On("if", ask(1), <<t, e>>) : t \in {S0("break"), act(3), ret(1), goto("A")}} :
                            e \in {set(2), asm(4)}},
             a \in {act(9), Block(<<set(0), goto("A")>>)},
             c \in LET d == On("if", rel("LT", 2), <<act(8)>>) IN {d, label("A", d)}} : Legal(s)}
MCAnswers(n) == CASE n = 1 -> {0, 1, 2} [] n = 2 -> (-3)..3 \cup (7..9) \cup (19..25) [] n = 3 -> {0, 1, 2, 3, 4, 127, 200, 40000}
AllPrograms ==
  LET of(family, bs, xs) == IF family \in Families THEN {[body |-> b, x |-> x] : b \in bs, x \in xs} ELSE {}
  IN of("nest", Nest, {1}) \cup of("bare", Bare, {1}) \cup of("dispatch", Dispatch, {0}) \cup of("unsigned", Unsigned, {0})

-----------------------------------------------------------------------------
(* Where the code is known to differ: case labels of an unsigned switch    *)
(* are extended from eight bits, and a value above 32767 is compared as a  *)
(* negative number, or not at all if the table starts at 0.  An expression *)
(* at the end of a switch's body that no block flushes is still pending    *)
(* when the dispatch is generated and gets in front of it: it is executed  *)
(* first, although a goto to its label or the test before it decides.      *)
RECURSIVE UnsignedSwitch(_)
UnsignedSwitch(s) == \/ s.s = "switch" /\ s.ty = "U" /\ (\E n \in Cases(s.k[1]) : n > 127)
                     \/ \E i \in DOMAIN s.k : UnsignedSwitch(s.k[i])
RECURSIVE Early(_, _), EarlySwitch(_)
Early(s, skipped) ==
  CASE s.s \in {"set", "asm"} -> skipped
    [] s.s \in {"case", "default"} -> Early(s.k[1], skipped)
    [] s.s = "label" -> Early(s.k[1], TRUE)
    [] s.s = "if" -> Len(s.k) = 2 /\ s.k[1].s \in {"goto", "return", "continue"} /\ Early(s.k[2], TRUE)
    [] OTHER -> FALSE
EarlySwitch(s) == \/ s.s = "switch" /\ HasDefault(s.k[1]) /\ Early(s.k[1], FALSE)
                  \/ \E i \in DOMAIN s.k : EarlySwitch(s.k[i])
Large == \E i \in DOMAIN trace : trace[i][1] = "val" /\ trace[i][3] > 32767
(* What the statements do, e, is what was seen; a function whose end is    *)
(* reached may return 0.                                                   *)
Agrees(e) ==
  LET rest == SubSeq(trace, e.i, Len(trace)) IN
  /\ e.mode # "off"
  /\ rest = <<>> \/ (e.mode = "run" /\ rest = <<<<"ret", 0, 0>>>>)
  /\ Halted => e.mode \in {"run", "return"}
  /\ silent > Len(text) => e.mode = "spin"
(* The code of a function does what its statements mean: it shows the      *)
(* environment the same effects and asks it the same things in the same    *)
(* order, whatever the answers are, ends if and only if they end, and no   *)
(* assertion of stmt.c and dag.c fails.  branch and definelab may take a   *)
(* jump or a label away only where nothing depends on it, break may leave  *)
(* only the innermost loop or switch, and swgen must find every case.      *)
FlowExact == text # <<>> /\ ~UnsignedSwitch(prog.body) /\ ~Large /\ ~EarlySwitch(prog.body) =>
               ~failed /\ pc # 0 /\ Agrees(Follow(At(1, prog.x)))
=============================================================================
