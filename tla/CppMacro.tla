------------------------------ MODULE CppMacro ------------------------------
(***************************************************************************)
(* Macro expansion, macro.c, with the token rows of tokens.c and the       *)
(* hidesets of hideset.c.  The white space before a token, ws, is 0, 1 in  *)
(* the source, or 2 when makespace put it there (XPWS).  mac maps a name   *)
(* to [def, fn, args, val, kind]; kind is "macro", "builtin" or "defined",  *)
(* fn says that it takes arguments (np->ap).                               *)
(***************************************************************************)
EXTENDS CppExpr

CONSTANTS HSSIZ,     \* limit of a hideset, with its terminator
          NARG,      \* limit of the arguments of a call
          MaxExpand  \* expansions in a row before it counts as endless

ASSUME MacroAssumption == HSSIZ \in Nat /\ NARG \in Nat /\ MaxExpand \in Nat

wstab == {"NL", "SBRA", "SKET", "LP", "RP", "COMMA", "SEMIC", "CBRA", "CKET"}

makespaceNot(row, k) == row
makespace(row, k) ==
  LET tight == row[k].t \in wstab \/ (k > 1 /\ row[k - 1].t \in wstab) IN
  IF k > Len(row) \/ row[k].ws = 1 THEN row
  ELSE [row EXCEPT ![k].ws = IF tight THEN 0 ELSE 2]
insertrow(row, k, n, str) ==
  makespace(makespace(SubSeq(row, 1, k - 1) \o str \o SubSeq(row, k + n, Len(row)), k),
            k + Len(str))
normtokenrow(row) == IF row = <<>> THEN row ELSE [row EXCEPT ![1].ws = 0]
comparetokens(r1, r2) ==
  \/ Len(r1) # Len(r2)
  \/ \E k \in DOMAIN r1 : \/ r1[k].t # r2[k].t \/ r1[k].x # r2[k].x
                          \/ (r1[k].ws = 0) # (r2[k].ws = 0)

(* A hideset that would reach HSSIZ is left as it was.                     *)
newhideset(hs, name) == IF Cardinality(hs \cup {name}) + 1 >= HSSIZ THEN hs ELSE hs \cup {name}
unionhideset(hs1, hs2) == FoldSet(LAMBDA n, acc : newhideset(acc, n), hs1, hs2)

lookuparg(mac, t) ==
  IF t.t # "NAME" \/ ~mac.fn THEN 0
  ELSE SelectInSeq(mac.args, LAMBDA a : a.x = t.x)

(* outnum and builtin: __LINE__ and __FILE__ are those of the file.        *)
RECURSIVE outnum(_)
outnum(n) == (IF n >= 10 THEN outnum(n \div 10) ELSE <<>>) \o <<DigitSeq[(n % 10) + 1]>>
builtin(t, at) ==
  IF t.x = <<"__LINE__">> THEN [t EXCEPT !.t = "NUMBER", !.x = outnum(at.line)]
  ELSE [t EXCEPT !.t = "STRING",
                 !.x = <<"\"">> \o (IF t.x = <<"__FILE__">> THEN at.file ELSE t.x) \o <<"\"">>]

(* stringify: quotes and backslashes are escaped in strings and character   *)
(* constants; a space that makespace put is left out.                      *)
Escaped(t) == IF t.t \notin {"STRING", "CCON"} THEN t.x
              ELSE FoldLeft(LAMBDA s, c : s \o (IF c \in {"\"", "\\"} THEN <<"\\", c>> ELSE <<c>>),
                            <<>>, t.x)
stringify(row) ==
  LET text == FoldLeft(LAMBDA s, t : s \o (IF t.ws = 1 THEN <<"SP">> ELSE <<>>) \o Escaped(t),
                       <<>>, row)
  IN Token("STRING", <<"\"">> \o text \o <<"\"">>, 0)

(* doconcat: the texts around ## are scanned again and the first token kept. *)
RECURSIVE doconcat(_, _)
doconcat(z, k) ==
  LET pasted == makespace(<<gettokens(z.row[k - 1].x \o z.row[k + 1].x, 1).row[1]>>, 1) IN
  IF k > Len(z.row) THEN z
  ELSE CASE z.row[k].t = "DSHARP1" -> doconcat([z EXCEPT !.row[k].t = "DSHARP"], k + 1)
         [] z.row[k].t = "DSHARP" /\ k \in {1, Len(z.row)} ->
              doconcat([z EXCEPT !.errs = TRUE], k + 1)
         [] z.row[k].t = "DSHARP" /\ k \notin {1, Len(z.row)} ->
              doconcat([z EXCEPT !.row = insertrow(@, k - 1, 3, pasted)], k)
         [] OTHER -> doconcat(z, k + 1)

(* More(e): gettokens adds the next row of the file, or END, to e.row.     *)
(* e holds the row, tp (the token being looked at), the place in the file, *)
(* the lines passed, errors, why expansion stops, and the expansions left. *)
Joined(e, g) ==
  [e EXCEPT !.row = @ \o g.row, !.pos = g.pos, !.inc = @ + g.inc, !.errs = @ \/ g.errs > 0,
            !.stop = IF g.fatal THEN "fatal" ELSE @]
More(e) == Joined(e, gettokens(e.text, e.pos))
DropLast(e) == [e EXCEPT !.row = Front(@)]

(* gatherargs: look for the "(" from k on.  At the end of the input tp is  *)
(* back at the name; otherwise it is at the token that is not a "(".       *)
RECURSIVE FindParen(_, _)
ParenIn(m, k) ==
  IF m.stop = "fatal" THEN [e |-> m, at |-> 0]
  ELSE IF Last(m.row).t = "END" THEN [e |-> DropLast(m), at |-> 0]
  ELSE FindParen(m, k)
FindParen(e, k) ==
  IF k > Len(e.row) THEN ParenIn(More(e), k)
  ELSE CASE e.row[k].t = "LP" -> [e |-> e, at |-> k]
         [] e.row[k].t = "NL" -> FindParen(e, k + 1)
         [] OTHER -> [e |-> [e EXCEPT !.tp = k], at |-> 0]

(* Then the matching ")": newlines are taken out of the row.               *)
RECURSIVE FindClose(_, _, _, _)
FindClose(e, k, parens, need) ==
  LET r == IF need THEN makespace(e.row, k) ELSE e.row IN
  IF parens = 0 THEN [e |-> e, last |-> k - 1, eof |-> FALSE]
  ELSE IF e.stop = "fatal" THEN [e |-> e, last |-> k - 1, eof |-> TRUE]
  ELSE IF k > Len(e.row) THEN FindClose(More(e), k, parens, need)
  ELSE CASE e.row[k].t = "END" ->
              [e |-> [DropLast(e) EXCEPT !.errs = TRUE], last |-> k - 1, eof |-> TRUE]
         [] e.row[k].t = "NL" -> FindClose([e EXCEPT !.row = RemoveAt(r, k)], k, parens, TRUE)
         [] OTHER -> FindClose([e EXCEPT !.row = r], k + 1,
                               CASE e.row[k].t = "LP" -> parens + 1
                                 [] e.row[k].t = "RP" -> parens - 1
                                 [] OTHER -> parens, FALSE)

(* The arguments between "(" at lp and ")" at rp; ## loses its meaning.    *)
Depth(row, lp, k) == Cardinality({j \in lp + 1 .. k : row[j].t = "LP"})
                     - Cardinality({j \in lp + 1 .. k - 1 : row[j].t = "RP"})
SplitArgs(row, lp, rp) ==
  LET ends == {k \in lp + 1 .. rp - 1 : row[k].t = "COMMA" /\ Depth(row, lp, k) = 0}
              \cup (IF row[rp - 1].t # "LP" THEN {rp} ELSE {})
      start(k) == 1 + Max({lp} \cup {j \in ends : j < k})
      plain(t) == IF t.t = "DSHARP" THEN [t EXCEPT !.t = "DSHARP1"] ELSE t
      arg(k) == normtokenrow([j \in 1 .. k - start(k) |-> plain(row[start(k) + j - 1])])
  IN [i \in 1 .. Cardinality(ends) |-> arg(SetToSortSeq(ends, LAMBDA a, b : a < b)[i])]

(* expandrow: the first name that is a macro and not hidden is expanded,   *)
(* and the scan goes on at the beginning of what it became.                *)
Callable(e, t) == /\ t.t = "NAME" /\ t.x \in DOMAIN e.mac /\ e.mac[t.x].def
                  /\ t.x \notin t.hs
MarkDefined(e) ==
  LET k == e.tp
      is(j, ty) == j <= Len(e.row) /\ e.row[j].t = ty
      marked == [e EXCEPT !.row[k].t = "DEFINED", !.tp = k + 1] IN
  CASE is(k + 1, "NAME") -> [marked EXCEPT !.row[k + 1].t = "NAME1"]
    [] is(k + 1, "LP") /\ is(k + 2, "NAME") /\ is(k + 3, "RP") ->
         [marked EXCEPT !.row[k + 2].t = "NAME1"]
    [] OTHER -> [marked EXCEPT !.errs = TRUE]

(* A row that can gather no more input reads an empty source.              *)
Closed(e, row) == [e EXCEPT !.row = row, !.tp = 1, !.text = <<>>, !.pos = 1]

(* expand, once the arguments, args, are known: n tokens are replaced.     *)
Distribute(hs, t) == IF t.t # "NAME" THEN t
                     ELSE [t EXCEPT !.hs = IF @ = {} THEN hs ELSE unionhideset(@, hs)]
ReplaceOnce(e, n, body) ==
  LET z == doconcat([row |-> body.row, errs |-> FALSE], 1) IN
  [e EXCEPT !.row = insertrow(@, e.tp, n, z.row), !.tp = @ + Len(z.row),
            !.errs = @ \/ z.errs \/ body.errs]
Replace(e, n, body) ==
  LET z  == doconcat([row |-> body.row, errs |-> FALSE], 1)
      name == e.row[e.tp].x
      hs == newhideset(e.row[e.tp].hs, name)
      new == [j \in DOMAIN z.row |-> Distribute(hs, z.row[j])] IN
  [e EXCEPT !.row = insertrow(@, e.tp, n, new), !.errs = @ \/ z.errs \/ body.errs,
            !.stop = IF @ = "" THEN body.stop ELSE @, !.left = body.left]

RECURSIVE expandrow(_), substargs(_, _, _, _, _)
(* substargs from place k of the replacement, z.  What lies beyond the row *)
(* is read as ## when e.junk.                                              *)
substargs(e, np, z, args, k) ==
  LET t == z.row[k]
      sharp == t.t = "SHARP"
      a == IF sharp THEN (IF k = Len(z.row) THEN 0 ELSE lookuparg(np, z.row[k + 1]))
           ELSE lookuparg(np, t)
      glued == \/ (IF k = Len(z.row) THEN e.junk ELSE z.row[k + 1].t = "DSHARP")
               \/ k > 1 /\ z.row[k - 1].t = "DSHARP"
      x == expandrow([Closed(e, args[a]) EXCEPT !.left = z.left]) IN
  IF k > Len(z.row) \/ z.stop # "" THEN z
  ELSE CASE sharp /\ a = 0 -> substargs(e, np, [z EXCEPT !.errs = TRUE], args, k + 1)
         [] sharp /\ a > 0 ->
              substargs(e, np, [z EXCEPT !.row = insertrow(@, k, 2, <<stringify(args[a])>>)],
                        args, k + 1)
         [] ~sharp /\ a = 0 -> substargs(e, np, z, args, k + 1)
         [] ~sharp /\ a > 0 /\ glued ->
              substargs(e, np, [z EXCEPT !.row = insertrow(@, k, 1, args[a])], args,
                        k + Len(args[a]))
         [] ~sharp /\ a > 0 /\ ~glued ->
              substargs(e, np, [row |-> insertrow(z.row, k, 1, x.row), errs |-> z.errs \/ x.errs,
                                stop |-> x.stop, left |-> x.left], args, k + Len(x.row))

(* expand, once gatherargs has looked for the "(", f, and the ")", c.      *)
WithArgs(e, np, lp, c) ==
  LET n == c.last - e.tp + 1
      args == IF c.eof THEN <<>> ELSE SplitArgs(c.e.row, lp, c.last)
      body == [row |-> np.val, errs |-> FALSE, stop |-> "", left |-> e.left] IN
  IF c.e.stop # "" THEN c.e
  ELSE IF Len(args) >= NARG THEN [c.e EXCEPT !.stop = "fatal"]
  ELSE IF Len(args) # Len(np.args)
       THEN [c.e EXCEPT !.row[e.tp].hs = newhideset(@, e.row[e.tp].x), !.tp = @ + n, !.errs = TRUE]
       ELSE Replace(c.e, n, substargs(c.e, np, body, args, 1))
Gathered(e, np, f) ==
  IF f.at > 0 THEN WithArgs(e, np, f.at, FindClose(f.e, f.at + 1, 1, FALSE))
  ELSE LET same == f.e.row = e.row /\ f.e.tp = e.tp
       IN [f.e EXCEPT !.stop = IF @ = "" /\ same THEN "hang" ELSE @]
Call(e, np) == Gathered(e, np, FindParen(e, e.tp + 1))

expand(e, np) ==
  LET m == [e EXCEPT !.left = @ - 1] IN
  IF e.left = 0 THEN [e EXCEPT !.stop = "hang"]
  ELSE IF ~np.fn
       THEN Replace(m, 1, [row |-> np.val, errs |-> FALSE, stop |-> "", left |-> m.left])
       ELSE Call(m, np)

expandrow(e) ==
  LET t == e.row[e.tp]  np == e.mac[t.x] IN
  IF e.stop # "" \/ e.tp > Len(e.row) THEN e
  ELSE CASE ~Callable(e, t) -> expandrow([e EXCEPT !.tp = @ + 1])
         [] Callable(e, t) /\ np.kind = "defined" /\ e.inif -> expandrow(MarkDefined(e))
         [] Callable(e, t) /\ np.kind = "builtin" ->
              expandrow([e EXCEPT !.row[e.tp] = builtin(t, e.at), !.tp = @ + 1])
         [] Callable(e, t) /\ np.kind # "builtin" /\ ~(np.kind = "defined" /\ e.inif) ->
              expandrow(expand(e, np))
=============================================================================
