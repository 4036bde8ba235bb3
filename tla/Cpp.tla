--------------------------------- MODULE Cpp --------------------------------
(***************************************************************************)
(* The preprocessor of lcc, cpp.c and include.c: process() takes one row   *)
(* of tokens after another from a stack of sources, carries out the        *)
(* directives and puts the expanded text out, with #line directives that   *)
(* keep the compiler's position right.  prog is the input: the text of the *)
(* files, the -D and -U options and the directories of #include.           *)
(***************************************************************************)
EXTENDS CppMacro

CONSTANTS Programs,  \* the inputs
          NIF,       \* depth of nesting of #if
          MaxInc     \* depth of nesting of #include

ASSUME CppAssumption == NIF \in Nat \ {0} /\ MaxInc \in Nat

VARIABLES prog,       \* the input
          stack,      \* cursource and those below it; the last is cursource
          mac,        \* the macros
          ifdepth, ifsatisfied, skipping,
          out,        \* the tokens put out
          rows,       \* history: the rows of text put out
          got,        \* the row that process() looks at, as gettokens left it
          nerrs, pc
vars == <<prog, got, stack, mac, ifdepth, ifsatisfied, skipping, out, rows, nerrs, pc>>

-----------------------------------------------------------------------------
(* The table of names at the start (kwtab) and the options -D and -U.      *)
Keywords == {"if", "ifdef", "ifndef", "elif", "else", "endif", "include", "define", "undef",
             "line", "error", "pragma", "eval", "ident"}
Object(val)  == [def |-> TRUE, fn |-> FALSE, args |-> <<>>, val |-> val, kind |-> "macro"]
Builtin(k)   == [Object(<<>>) EXCEPT !.kind = k]
Unchangeable == [Object(<<>>) EXCEPT !.def = FALSE, !.kind = "fixed"]
kwtab == (<<"defined">> :> [Object(<<Token("NAME", <<"defined">>, 0)>>) EXCEPT !.kind = "defined"])
         @@ [n \in {<<"__LINE__">>, <<"__FILE__">>, <<"__DATE__">>, <<"__TIME__">>} |->
               Builtin("builtin")]
         @@ (<<"__STDC__">> :> Unchangeable)

\* An option must be a name alone or, with -D, a name and =.
Illegal(opt) ==
  LET g == gettokens(opt.text, 1) IN
  \/ g.fatal \/ g.row[1].t # "NAME"
  \/ opt.opt = "U" /\ Len(g.row) # 2
  \/ opt.opt = "D" /\ g.row[2].t \notin {"END", "ASGN"}

doadefine(macros, opt) ==
  LET row == gettokens(opt.text, 1).row
      name == row[1].x
      known == name \in DOMAIN macros
      val == IF row[2].t = "END" THEN <<Token("NUMBER", <<"1">>, 0)>>
             ELSE normtokenrow(SubSeq(row, 3, Len(row) - 1)) IN
  CASE Illegal(opt) \/ (opt.opt = "U" /\ ~known) -> macros
    [] ~Illegal(opt) /\ opt.opt = "U" /\ known ->
         [macros EXCEPT ![name].def = macros[name].kind = "builtin"]
    [] ~Illegal(opt) /\ opt.opt = "D" ->
         (name :> [(IF known THEN macros[name] ELSE Object(val)) EXCEPT !.def = TRUE, !.val = val])
           @@ macros

(* setsource.  pres is the position a reader gives the file: its name and  *)
(* the number by which #line moved its lines.                              *)
Source(file) == [file |-> file, name |-> file, line |-> 1, inc |-> 0, pos |-> 1, ifd |-> 0,
                 pres |-> [name |-> file, off |-> 0]]
LineToken(s) == [t |-> "LINE", x |-> <<s.name>>, ws |-> 0, hs |-> {}, n |-> s.line]

(* setup: an illegal option is fatal before anything is put out.           *)
Init == /\ prog \in Programs
        /\ nerrs = (\E i \in DOMAIN prog.opts : Illegal(prog.opts[i]))
        /\ pc = (IF nerrs THEN "fatal" ELSE "read")
        /\ stack = (IF nerrs THEN <<>> ELSE <<Source(prog.main)>>)
        /\ mac = FoldLeft(doadefine, kwtab, prog.opts)
        /\ ifdepth = 0 /\ ifsatisfied = [d \in 1 .. NIF |-> 0] /\ skipping = 0
        /\ out = (IF nerrs THEN <<>> ELSE <<LineToken(Source(prog.main))>>)
        /\ rows = <<>> /\ got = <<>>

-----------------------------------------------------------------------------
(* The row that process() looks at, and cursource once it is read.         *)
Top == Last(stack)
Text == prog.files[Top.file]
Row == got.row
Cur == [Top EXCEPT !.pos = got.pos, !.inc = got.inc]
Control == Row[1].t = "SHARP"
Word == IF Control /\ Row[2].t = "NAME" /\ Row[2].x[1] \in Keywords THEN Row[2].x[1] ELSE ""

(* puttokens, then the lines passed, then genline() for more than one.     *)
genline(s) == <<LineToken(s)>>
Passed(s) == [s EXCEPT !.line = @ + s.inc]
PutNoLine(toks, s) == stack' = Append(Front(stack), Passed(s)) /\ out' = out \o toks
Put(toks, s) ==
  /\ stack' = Append(Front(stack), Passed(s))
  /\ out' = out \o toks \o (IF s.inc > 1 THEN genline(Passed(s)) ELSE <<>>)
setempty == <<NLToken>>
(* The row as it stands is put out by a return from control, unless the    *)
(* row is skipped.                                                         *)
AsItStands(s) == Put(IF skipping > 0 THEN setempty ELSE Row, s)
Err(b) == nerrs' = (nerrs \/ got.errs > 0 \/ b)
Running == pc = "row" /\ ~got.fatal

(* expandrow of row from place k: from the file when open, else closed.    *)
Expansion(row, k, open, inif) ==
  expandrow([row |-> row, tp |-> k, text |-> IF open THEN Text ELSE <<>>,
             pos |-> IF open THEN got.pos ELSE 1, inc |-> got.inc, errs |-> FALSE, stop |-> "",
             left |-> MaxExpand, mac |-> mac, inif |-> inif, junk |-> prog.junk,
             at |-> [file |-> Top.name, line |-> Top.line]])

-----------------------------------------------------------------------------
(* process(): the next row; then what it asks for.                         *)
Read ==
  /\ pc = "read" /\ pc' = "row" /\ got' = gettokens(Text, Top.pos)
  /\ UNCHANGED <<prog, stack, mac, ifdepth, ifsatisfied, skipping, out, rows, nerrs>>

(* End of a source: an included file returns to the one that includes it.  *)
(* END at the start of a row ends the file, whatever follows it.           *)
EndOfInclude ==
  /\ Running /\ Row[1].t = "END" /\ Len(stack) > 1
  /\ LET below == Passed(stack[Len(stack) - 1]) IN
     /\ stack' = Append(SubSeq(stack, 1, Len(stack) - 2), below)
     /\ out' = out \o genline(below)
  /\ Err(Top.ifd # 0)
  /\ UNCHANGED <<prog, got, mac, ifdepth, ifsatisfied, skipping, rows>> /\ pc' = "read"

EndOfInput ==
  /\ Running /\ Row[1].t = "END" /\ Len(stack) = 1
  /\ Err(ifdepth > 0) /\ pc' = "done"
  /\ UNCHANGED <<prog, got, stack, mac, ifdepth, ifsatisfied, skipping, out, rows>>

LexFatal ==
  /\ pc = "row" /\ got.fatal /\ pc' = "fatal" /\ nerrs' = TRUE
  /\ UNCHANGED <<prog, got, stack, mac, ifdepth, ifsatisfied, skipping, out, rows>>

(* Rows that are no directive.  rows remembers where the text went, the    *)
(* presumed position of the row, and the names left that are still calls.  *)
PhysLine(pos) == 1 + Cardinality({i \in 1 .. pos - 1 : Text[i] = "NL"})
Presumed(s) == [name |-> s.pres.name, line |-> PhysLine(s.pos) + s.pres.off]
LeftOver(row) ==
  {k \in DOMAIN row :
     /\ Callable([mac |-> mac], row[k])
     /\ mac[row[k].x].fn =>
          \E j \in k + 1 .. Len(row) : /\ row[j].t = "LP"
                                       /\ \A i \in k + 1 .. j - 1 : row[i].t = "NL"}
TextRow ==
  /\ Running /\ skipping = 0 /\ Row[1].t \notin {"END", "SHARP"}
  /\ \E e \in {Expansion(Row, 1, TRUE, FALSE)} :
     IF e.stop # ""
     THEN /\ pc' = e.stop /\ nerrs' = TRUE /\ UNCHANGED <<stack, out, rows>>
     ELSE /\ Put(e.row, [Cur EXCEPT !.pos = e.pos, !.inc = e.inc])
          /\ rows' = Append(rows, [at |-> Len(out) + 1, to |-> Len(out) + Len(e.row),
                                   pos |-> Presumed(Top), left |-> LeftOver(e.row)])
          /\ Err(e.errs) /\ pc' = "read"
  /\ UNCHANGED <<prog, got, mac, ifdepth, ifsatisfied, skipping>>

SkipRow ==
  /\ Running /\ skipping > 0 /\ Row[1].t \notin {"END", "SHARP"}
  /\ Put(setempty, Cur) /\ Err(FALSE)
  /\ UNCHANGED <<prog, got, mac, ifdepth, ifsatisfied, skipping, rows>> /\ pc' = "read"

-----------------------------------------------------------------------------
(* control(): the directives.  Whatever is no known directive is put out;  *)
(* in a skipped group only the directives of conditionals are looked at.   *)
Conditionals == {"if", "ifdef", "ifndef", "elif", "else", "endif"}
OtherControl ==
  /\ Running /\ Control /\ Row[2].t # "NUMBER"
  /\ \/ Word \in {"", "pragma", "ident"}
     \/ skipping > 0 /\ Word \notin Conditionals
     \/ Word \in {"elif", "else"} /\ ifdepth > skipping /\ skipping > 0
  /\ AsItStands(Cur) /\ Err(Row[2].t \notin {"NAME", "NL"})
  /\ UNCHANGED <<prog, got, mac, ifdepth, ifsatisfied, skipping, rows>> /\ pc' = "read"

SetMac(name, m) == mac' = (name :> m) @@ mac
DoDefine ==
  /\ Running /\ Word = "define" /\ skipping = 0
  /\ LET named == Row[3].t = "NAME"
         name == Row[3].x
         old == mac[name]
         known == name \in DOMAIN mac
         fixed == known /\ old.kind # "macro"
         fn == Row[4].t = "LP" /\ Row[4].ws = 0
         rp == Min({k \in 5 .. Len(Row) : Row[k].t \notin {"NAME", "COMMA"}})
         params == [j \in 1 .. (rp - 4) \div 2 |-> Row[3 + 2 * j]]
         sound == /\ Row[rp].t = "RP" /\ (rp = 5 \/ (rp - 5) % 2 = 1)
                  /\ \A k \in 5 .. rp - 1 : Row[k].t = IF k % 2 = 1 THEN "NAME" ELSE "COMMA"
         double == \E i, j \in DOMAIN params : i # j /\ params[i].x = params[j].x
         from == IF fn THEN rp + 1 ELSE 4
         to == IF Last(Row).t = "NL" THEN Len(Row) - 1 ELSE Len(Row)
         new == [def |-> TRUE, fn |-> fn, args |-> IF fn THEN normtokenrow(params) ELSE <<>>,
                 val |-> normtokenrow(SubSeq(Row, from, to)), kind |-> "macro"]
         differs == /\ known /\ old.def
                    /\ \/ comparetokens(new.val, old.val) \/ new.fn # old.fn
                       \/ new.fn /\ comparetokens(params, old.args) IN
     IF ~named \/ fixed \/ (fn /\ ~sound)
     THEN UNCHANGED mac /\ Err(TRUE)
     ELSE SetMac(name, new) /\ Err(differs \/ (fn /\ double))
  /\ Put(setempty, Cur)
  /\ UNCHANGED <<prog, got, ifdepth, ifsatisfied, skipping, rows>> /\ pc' = "read"

DoUndef ==
  /\ Running /\ Word = "undef" /\ skipping = 0
  /\ LET sound == Row[3].t = "NAME" /\ Len(Row) = 4 IN
     /\ IF sound /\ Row[3].x \in DOMAIN mac /\ mac[Row[3].x].kind # "builtin"
        THEN SetMac(Row[3].x, [mac[Row[3].x] EXCEPT !.def = FALSE]) ELSE UNCHANGED mac
     /\ Err(~sound)
  /\ Put(setempty, Cur)
  /\ UNCHANGED <<prog, got, ifdepth, ifsatisfied, skipping, rows>> /\ pc' = "read"

(* #error is only a warning; #eval evaluates for its messages.             *)
Defined == {n \in DOMAIN mac : mac[n].def}
Evaluated(e) ==
  LET v == EvalRow(SubSeq(e.row, 3, Len(e.row)), Defined) IN
  IF e.stop # "" THEN [true |-> FALSE, errs |-> TRUE, stop |-> e.stop]
  ELSE [true |-> v.v # 0, errs |-> v.errs \/ e.errs, stop |-> ""]
eval ==
  IF Word \in {"ifdef", "ifndef"}
  THEN LET sound == Len(Row) = 4 /\ Row[3].t = "NAME"
       IN [true |-> sound /\ ((Word = "ifdef") = (Row[3].x \in Defined)), errs |-> ~sound,
           stop |-> ""]
  ELSE Evaluated(Expansion(Row, 3, FALSE, TRUE))
Stopped(e) == /\ pc' = e.stop /\ nerrs' = TRUE
              /\ UNCHANGED <<stack, out, ifdepth, ifsatisfied, skipping>>
DoError ==
  /\ Running /\ Word = "error" /\ skipping = 0
  /\ Put(setempty, Cur) /\ Err(FALSE)
  /\ UNCHANGED <<prog, got, mac, ifdepth, ifsatisfied, skipping, rows>> /\ pc' = "read"
DoEval ==
  /\ Running /\ Word = "eval" /\ skipping = 0
  /\ \E ev \in {eval} :
     IF ev.stop # "" THEN Stopped(ev)
     ELSE /\ Put(setempty, Cur) /\ Err(ev.errs)
          /\ UNCHANGED <<ifdepth, ifsatisfied, skipping>> /\ pc' = "read"
  /\ UNCHANGED <<prog, got, mac, rows>>

(* The conditionals: skipping is the depth of the #if whose group is       *)
(* skipped; ifsatisfied is 1 after a group was taken and 2 after #else.    *)
DoIf ==
  /\ Running /\ Word \in {"if", "ifdef", "ifndef"}
  /\ \E ev \in {eval} :
     IF ifdepth + 1 >= NIF THEN Stopped([stop |-> "fatal"])
     ELSE IF skipping = 0 /\ ev.stop # "" THEN Stopped(ev)
     ELSE /\ ifdepth' = ifdepth + 1
          /\ Put(setempty, [Cur EXCEPT !.ifd = @ + 1])
          /\ IF skipping > 0 THEN UNCHANGED <<ifsatisfied, skipping>> /\ Err(FALSE)
             ELSE /\ ifsatisfied' = [ifsatisfied EXCEPT ![ifdepth + 1] = Bool(ev.true)]
                  /\ skipping' = (IF ev.true THEN 0 ELSE ifdepth + 1)
                  /\ Err(ev.errs)
          /\ pc' = "read"
  /\ UNCHANGED <<prog, got, mac, rows>>

Acted == skipping = 0 \/ ifdepth <= skipping
DoElif ==
  /\ Running /\ Word = "elif" /\ Acted
  /\ \E ev \in {eval} :
     IF ifdepth = 0
     THEN AsItStands(Cur) /\ Err(TRUE) /\ UNCHANGED <<ifdepth, ifsatisfied, skipping>> /\ pc' = "read"
     ELSE IF ev.stop # "" THEN Stopped(ev)
     ELSE LET sat == ifsatisfied[ifdepth]
              take == ev.true /\ sat = 0 IN
          /\ skipping' = (IF take THEN 0 ELSE ifdepth)
          /\ ifsatisfied' = [ifsatisfied EXCEPT ![ifdepth] = IF take THEN 1 ELSE @]
          /\ Err(sat = 2 \/ ev.errs) /\ Put(setempty, Cur) /\ UNCHANGED ifdepth /\ pc' = "read"
  /\ UNCHANGED <<prog, got, mac, rows>>

DoElse ==
  /\ Running /\ Word = "else" /\ Acted
  /\ IF ifdepth = 0 \/ Top.ifd = 0
     THEN AsItStands(Cur) /\ Err(TRUE) /\ UNCHANGED <<ifsatisfied, skipping>>
     ELSE /\ skipping' = (IF ifsatisfied[ifdepth] > 0 THEN ifdepth ELSE 0)
          /\ Err(ifsatisfied[ifdepth] = 2 \/ Len(Row) # 3)
          /\ ifsatisfied' = [ifsatisfied EXCEPT ![ifdepth] = 2]
          /\ Put(setempty, Cur)
  /\ UNCHANGED <<prog, got, mac, ifdepth, rows>> /\ pc' = "read"

DoEndifAny ==
  /\ Running /\ Word = "endif"
  /\ IF skipping = 0 /\ (ifdepth = 0 \/ Top.ifd = 0)
     THEN AsItStands(Cur) /\ Err(TRUE) /\ UNCHANGED <<ifdepth, skipping>>
     ELSE /\ ifdepth' = ifdepth - 1 /\ skipping' = 0
          /\ Put(setempty, [Cur EXCEPT !.ifd = @ - 1]) /\ Err(FALSE)
  /\ UNCHANGED <<prog, got, mac, ifsatisfied, rows>> /\ pc' = "read"
DoEndif ==
  /\ Running /\ Word = "endif"
  /\ IF skipping = 0 /\ (ifdepth = 0 \/ Top.ifd = 0)
     THEN AsItStands(Cur) /\ Err(TRUE) /\ UNCHANGED <<ifdepth, skipping>>
     ELSE /\ ifdepth' = ifdepth - 1
          /\ skipping' = (IF ifdepth - 1 < skipping THEN 0 ELSE skipping)
          /\ Put(setempty, [Cur EXCEPT !.ifd = @ - 1]) /\ Err(FALSE)
  /\ UNCHANGED <<prog, got, mac, ifsatisfied, rows>> /\ pc' = "read"

(* #line n "file" and # n "file"; the second form acts in a skipped group  *)
(* too.                                                                    *)
Decimal(x) == LET s == SelectInSeq(x, LAMBDA c : c \notin Digits)
              IN FoldLeft(LAMBDA n, c : 10 * n + digit(c), 0,
                          SubSeq(x, 1, IF s = 0 THEN Len(x) ELSE s - 1))
(* The rest of a directive is expanded unless place k has one of types.    *)
Argument(types, k) == IF Row[k].t \in types THEN [row |-> Row, stop |-> "", errs |-> FALSE]
                      ELSE Expansion(Row, 3, FALSE, FALSE)
DoLine ==
  /\ Running /\ Control
  /\ \/ Word = "line" /\ skipping = 0
     \/ Row[2].t = "NUMBER"
  /\ \E e \in {Argument({"NUMBER"}, 2)} :
     LET k == IF Row[2].t = "NUMBER" THEN 2 ELSE 3
         r == e.row
         sound == /\ k < Len(r) /\ r[k].t = "NUMBER" /\ k + 2 >= Len(r)
                  /\ (k + 2 = Len(r)) => (r[k + 1].t = "STRING" /\ r[k + 1].x[1] # "L")
         n == Decimal(r[k].x)
         name == IF k + 2 = Len(r) THEN SubSeq(r[k + 1].x, 2, Len(r[k + 1].x) - 1) ELSE Top.name
         s == [Cur EXCEPT !.line = n - 1, !.name = name,
                          !.pres = IF skipping > 0 THEN @
                                   ELSE [name |-> name, off |-> n - PhysLine(got.pos)]] IN
     IF e.stop # "" THEN pc' = e.stop /\ nerrs' = TRUE /\ UNCHANGED <<stack, out>>
     ELSE /\ IF sound
             THEN Put(IF skipping > 0 THEN setempty ELSE <<LineToken([s EXCEPT !.line = n])>>, s)
             ELSE Put(IF skipping > 0 THEN setempty ELSE r, Cur)
          /\ Err(e.errs \/ ~sound) /\ pc' = "read"
  /\ UNCHANGED <<prog, got, mac, ifdepth, ifsatisfied, skipping, rows>>

(* doinclude: the directory of the main file, ".", only serves "file"; *)
(* then the directories of -I in order.  A file is named by both parts.    *)
Included(e) ==
  LET r == e.row
      gt == SelectInSubSeq(r, 4, Len(r), LAMBDA t : t.t = "GT")
      quoted == r[3].t = "STRING"
      angled == r[3].t = "LT" /\ gt > 0
      name == IF quoted THEN SubSeq(r[3].x, 2, Len(r[3].x) - 1)
              ELSE FlattenSeq([j \in 1 .. gt - 4 |-> r[j + 3].x])
      last == IF quoted THEN 3 ELSE gt
      sound == (quoted \/ angled) /\ last + 1 >= Len(r) /\ name # <<>>
      dirs == IF angled THEN prog.dirs ELSE <<".">> \o prog.dirs
      hit == SelectInSeq(dirs, LAMBDA d : <<d>> \o name \in DOMAIN prog.files) IN
  IF e.stop = "" /\ sound /\ hit > 0
  THEN [stop |-> "", errs |-> e.errs, found |-> TRUE, file |-> <<dirs[hit]>> \o name]
  ELSE [stop |-> e.stop, errs |-> TRUE, found |-> FALSE]
DoInclude ==
  /\ Running /\ Word = "include" /\ skipping = 0
  /\ \E i \in {Included(Argument({"STRING", "LT"}, 3))} :
     CASE i.stop # "" -> pc' = i.stop /\ nerrs' = TRUE /\ UNCHANGED <<stack, out>>
       [] i.stop = "" /\ ~i.found -> Put(<<>>, Cur) /\ Err(TRUE) /\ pc' = "read"
       [] i.found /\ Len(stack) > MaxInc -> pc' = "fatal" /\ nerrs' = TRUE /\ UNCHANGED <<stack, out>>
       [] i.found /\ Len(stack) <= MaxInc ->
            /\ stack' = Front(stack) \o <<Cur, Source(i.file)>>
            /\ out' = out \o genline(Source(i.file)) /\ Err(i.errs) /\ pc' = "read"
  /\ UNCHANGED <<prog, got, mac, ifdepth, ifsatisfied, skipping, rows>>

Next == \/ Read \/ EndOfInclude \/ EndOfInput \/ LexFatal \/ TextRow \/ SkipRow \/ OtherControl
        \/ DoDefine \/ DoUndef \/ DoError \/ DoEval \/ DoIf \/ DoElif \/ DoElse \/ DoEndif
        \/ DoLine \/ DoInclude
Spec == Init /\ [][Next]_vars

-----------------------------------------------------------------------------
(* What the compiler makes of the output: its position, and whether it is  *)
(* at the beginning of a line, where alone it takes a #line.               *)
CompilerPos(toks) ==
  FoldLeft(LAMBDA a, t :
             CASE t.t = "LINE" /\ a.bol -> [name |-> t.x[1], line |-> t.n, bol |-> TRUE]
               [] t.t = "NL" \/ (t.t = "LINE" /\ ~a.bol) ->
                    [name |-> a.name, line |-> a.line + 1, bol |-> TRUE]
               [] OTHER -> [a EXCEPT !.bol = FALSE],
           [name |-> <<>>, line |-> 1, bol |-> TRUE], toks)
Spelt(toks) == FlattenSeq([i \in DOMAIN toks |->
                 (IF toks[i].ws > 0 THEN <<"SP">> ELSE <<>>) \o toks[i].x])
Visible(toks) == LET v == SelectSeq(toks, LAMBDA t : t.t \notin {"NL", "END", "LINE"})
                 IN [i \in DOMAIN v |-> v[i].x]
RECURSIVE Reread(_, _)
Reread(text, pos) == LET g == gettokens(text, pos) IN
                     IF Last(g.row).t = "END" THEN g.row ELSE g.row \o Reread(text, g.pos)

(* Meaning: an input is put out as C has it, or reported as an error when  *)
(* C has no meaning for it; prog.odd names a known departure.  Only a call *)
(* that the end of the input or of an argument cuts off is never finished. *)
Meaning == /\ (pc \notin {"read", "row"} /\ prog.odd = "") =>
                IF prog.err THEN nerrs
                ELSE pc = "done" /\ ~nerrs /\ Visible(out) = prog.want
           /\ pc = "hang" => prog.odd = "CallAtEnd"

(* LinesInStep: a row of text reaches the compiler at the position it has  *)
(* in its file, as #line directives left it, through continued lines,      *)
(* comments, calls over several lines, skipped groups and #include.        *)
LinesInStep ==
  (~nerrs /\ prog.odd = "") =>
     \A i \in DOMAIN rows :
        CompilerPos(SubSeq(out, 1, rows[i].at - 1))
          = [name |-> rows[i].pos.name, line |-> rows[i].pos.line, bol |-> TRUE]

(* FullyExpanded: no name is left in a row of text that is still a macro   *)
(* to be expanded: it is hidden, or takes arguments and none follow.       *)
FullyExpanded == \A i \in DOMAIN rows : rows[i].left = {}

(* TokensStaySeparate: the compiler reads the text of a row as the very    *)
(* tokens of the row: makespace keeps the tokens that replacement put next *)
(* to each other from running together.                                    *)
TokensStaySeparate ==
  \A i \in DOMAIN rows :
     LET toks == SubSeq(out, rows[i].at, rows[i].to)
     IN prog.odd = "" => Visible(Reread(Spelt(toks), 1)) = Visible(toks)

(* CallsAreTold: a comment in expand() says that gatherargs has moved on   *)
(* to the next token when a name is not actually a call, so that expandrow *)
(* comes to an end.                                                        *)
CallsAreTold == pc # "hang"
=============================================================================
