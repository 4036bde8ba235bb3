------------------------------- MODULE MCCpp --------------------------------
(***************************************************************************)
(* The preprocessor on families of inputs, each with its meaning in C.     *)
(***************************************************************************)
EXTENDS Cpp

CONSTANT Families

(* Ways to write an input: tokens of a line joined by blanks, or as is.    *)
Glue(ws) == FoldLeft(LAMBDA s, w : s \o (IF s = <<>> THEN <<>> ELSE <<"SP">>) \o <<w>>, <<>>, ws)
Raw(s) == s \o <<"NL">>
T(ws)  == Raw(Glue(ws))
D(ws)  == Raw(<<"#">> \o Glue(ws))
Lines(ls) == FlattenSeq(ls)
Words(ws) == [i \in DOMAIN ws |-> <<ws[i]>>]
Input(kind, lines, want) ==
  [kind |-> kind, main |-> <<"m">>, files |-> (<<"m">> :> Lines(lines)), opts |-> <<>>,
   dirs |-> <<"inc">>, want |-> want, err |-> FALSE, odd |-> "", junk |-> FALSE]
Wrong(p) == [p EXCEPT !.err = TRUE, !.want = <<>>]
Odd(p, why) == [p EXCEPT !.odd = why]
With(p, file, lines) == [p EXCEPT !.files = (file :> Lines(lines)) @@ @]
Opt(p, o, text) == [p EXCEPT !.opts = Append(@, [opt |-> o, text |-> text])]

-----------------------------------------------------------------------------
(* Conditionals: c1 then [elif c2] [else] endif, one body nested.          *)
Conds == {"1", "0", "def", "ndef"}
Holds(c) == c \in {"1", "def"}
Shape(c, body, elif, ebody, els, lbody) ==
  [text |-> Lines(<<CASE c = "def" -> D(<<"ifdef", "X">>) [] c = "ndef" -> D(<<"ifndef", "X">>)
                      [] OTHER -> D(<<"if", c>>), body.text>>
                  \o (IF elif = "" THEN <<>> ELSE <<D(<<"elif", elif>>), ebody.text>>)
                  \o (IF els THEN <<D(<<"else">>), lbody.text>> ELSE <<>>)
                  \o <<D(<<"endif">>)>>),
   want |-> CASE Holds(c) -> body.want
              [] ~Holds(c) /\ elif # "" /\ Holds(elif) -> ebody.want
              [] ~Holds(c) /\ (elif = "" \/ ~Holds(elif)) ->
                   IF els THEN lbody.want ELSE <<>>]
Leaf(w) == [text |-> T(<<w>>), want |-> Words(<<w>>)]
Around(w, s) == [text |-> T(<<w>>) \o s.text \o T(<<w>>), want |-> Words(<<w>>) \o s.want \o Words(<<w>>)]
Flat == {Shape(c, Leaf("a"), elif, Leaf("b"), els, Leaf("c")) :
           c \in Conds, elif \in {"", "0", "1"}, els \in BOOLEAN}
Nested == UNION {{Shape(c, Around("d", s), elif, Leaf("e"), els, Leaf("f")),
                  Shape(c, Leaf("d"), elif, Around("e", s), els, Leaf("f")),
                  Shape(c, Leaf("d"), elif, Leaf("e"), els, Around("f", s))} :
                   c \in {"1", "0"}, elif \in {"", "0", "1"}, els \in BOOLEAN, s \in Flat}
CondPrograms == {Opt(Input("cond", <<s.text>>, s.want), "D", <<"X">>) : s \in Flat \cup Nested}

-----------------------------------------------------------------------------
(* Expressions: trees, written with the parentheses that C needs.          *)
Num(w)      == [op |-> "num", w |-> w]
Bin(op, l, r) == [op |-> op, l |-> l, r |-> r]
Cond(c, l, r) == [op |-> "QUEST", c |-> c, l |-> l, r |-> r]
Sign == ("EQ" :> <<"=", "=">>) @@ ("NEQ" :> <<"!", "=">>) @@ ("LEQ" :> <<"<", "=">>)
        @@ ("GEQ" :> <<">", "=">>) @@ ("LT" :> <<"<">>) @@ ("GT" :> <<">">>)
        @@ ("LSH" :> <<"<", "<">>) @@ ("RSH" :> <<">", ">">>) @@ ("LAND" :> <<"&", "&">>)
        @@ ("LOR" :> <<"|", "|">>) @@ ("AND" :> <<"&">>) @@ ("OR" :> <<"|">>)
        @@ ("CIRC" :> <<"^">>) @@ ("PLUS" :> <<"+">>) @@ ("MINUS" :> <<"-">>)
        @@ ("STAR" :> <<"*">>) @@ ("SLASH" :> <<"/">>) @@ ("PCT" :> <<"%">>)
CLevels == <<{"QUEST"}, {"LOR"}, {"LAND"}, {"OR"}, {"CIRC"}, {"AND"}, {"EQ", "NEQ"},
             {"LT", "GT", "LEQ", "GEQ"}, {"LSH", "RSH"}, {"PLUS", "MINUS"},
             {"STAR", "SLASH", "PCT"}, {"UMINUS", "NOT", "TILDE"}, {"num"}>>
Level(op) == CHOOSE k \in DOMAIN CLevels : op \in CLevels[k]
RECURSIVE Show(_, _)
Show(e, least) ==
  LET k == Level(e.op)
      s == CASE e.op = "num" -> e.w
             [] e.op \in {"UMINUS", "NOT", "TILDE"} ->
                  <<CASE e.op = "UMINUS" -> "-" [] e.op = "NOT" -> "!" [] OTHER -> "~", "SP">>
                  \o Show(e.l, k)
             [] e.op = "QUEST" ->
                  Show(e.c, 2) \o <<"?">> \o Show(e.l, 1) \o <<":">> \o Show(e.r, 1)
             [] OTHER -> Show(e.l, k) \o <<"SP">> \o Sign[e.op] \o <<"SP">> \o Show(e.r, k + 1)
  IN IF k < least THEN <<"(">> \o s \o <<")">> ELSE s

(* The value in C: operands are converted to a common type, an operand     *)
(* that is not evaluated cannot make the expression undefined.             *)
Undef == [v |-> 0, ty |-> "UND"]
Common(a, b) == IF "UNS" \in {a.ty, b.ty} THEN "UNS" ELSE "SGN"
RECURSIVE Value(_)
Value(e) ==
  LET a == Value(e.l)
      b == Value(e.r)
      as(x) == IF Common(a, b) = "UNS" THEN Unsigned(x.v) ELSE x.v
      truth(p) == [v |-> Bool(p), ty |-> "SGN"] IN
  CASE e.op = "num" -> [v |-> Number(e.w).v, ty |-> Number(e.w).ty]
    [] e.op \in {"UMINUS", "NOT", "TILDE"} ->
         IF a.ty = "UND" THEN Undef
         ELSE IF e.op = "NOT" THEN truth(a.v = 0)
         ELSE [a EXCEPT !.v = Signed(IF e.op = "UMINUS" THEN 0 - @ ELSE 0 - 1 - @)]
    [] e.op \in {"LAND", "LOR"} ->
         IF a.ty = "UND" THEN Undef
         ELSE IF (e.op = "LOR") = (a.v # 0) THEN truth(a.v # 0)
         ELSE IF b.ty = "UND" THEN Undef ELSE truth(b.v # 0)
    [] e.op = "QUEST" ->
         LET c == Value(e.c)
             x == IF c.v # 0 THEN a ELSE b
         IN IF "UND" \in {c.ty, x.ty} THEN Undef ELSE [v |-> x.v, ty |-> Common(a, b)]
    [] OTHER ->
         IF "UND" \in {a.ty, b.ty} \/ (e.op \in {"SLASH", "PCT"} /\ b.v = 0) THEN Undef
         ELSE IF e.op \in RELAT THEN truth(Compare(e.op, as(a), as(b)))
         ELSE IF e.op \in SHIFT THEN [v |-> Signed(ShiftBy(e.op, a.v, b.v, a.ty = "UNS")), ty |-> a.ty]
         ELSE [v |-> Signed(Arith(e.op, a.v, b.v, Common(a, b) = "UNS")), ty |-> Common(a, b)]

(* Where the evaluator departs from C: operators of one priority are       *)
(* grouped to the right, a conditional in the middle of a conditional, a   *)
(* conditional on an undefined value, one of a signed and an unsigned arm. *)
Regroups == {<<o, o>> : o \in {"STAR", "PLUS", "AND", "OR", "CIRC", "LAND", "LOR"}}
            \cup {<<"PLUS", "MINUS">>}
RECURSIVE LeftChain(_), MiddleConditional(_), LostUndefined(_), MixedArms(_)
LeftChain(e) ==
  /\ e.op # "num"
  /\ \/ /\ e.op \in DOMAIN Sign /\ Level(e.l.op) = Level(e.op) /\ <<e.l.op, e.op>> \notin Regroups
     \/ LeftChain(e.l) \/ (e.op \in DOMAIN Sign /\ LeftChain(e.r))
MiddleConditional(e) == e.op = "QUEST" /\ e.l.op = "QUEST"
LostUndefined(e) == /\ e.op # "num"
                    /\ \/ e.op = "QUEST" /\ Value(e.c).ty = "UND"
                       \/ e.op \in DOMAIN Sign /\ (LostUndefined(e.l) \/ LostUndefined(e.r))
MixedArms(e) == /\ e.op # "num"
                /\ \/ /\ e.op = "QUEST" /\ Value(e.l).ty # Value(e.r).ty
                      /\ "UNS" \in {Value(e.l).ty, Value(e.r).ty}
                   \/ e.op \in DOMAIN Sign /\ (MixedArms(e.l) \/ MixedArms(e.r))
OddTree(e) == CASE LeftChain(e) -> "LeftChain" [] MiddleConditional(e) -> "MiddleConditional"
                [] LostUndefined(e) -> "LostUndefined" [] MixedArms(e) -> "MixedArms" [] OTHER -> ""

N(w) == Num(<<w>>)
Neg(e) == [op |-> "UMINUS", l |-> e, r |-> e]
Triples == {<<N("5"), N("3"), N("2")>>, <<N("2"), Num(<<"3", "u">>), Neg(N("1"))>>,
            <<Neg(N("7")), N("2"), N("0")>>}
Trees == LET ops == DOMAIN Sign IN
         UNION {{Bin(o, Bin(p, t[1], t[2]), t[3]), Bin(o, t[1], Bin(p, t[2], t[3]))} :
                  o \in ops, p \in ops, t \in Triples}
         \cup UNION {{Cond(t[1], t[2], Bin("SLASH", t[1], t[3])), Cond(Bin("PCT", t[1], t[3]), t[2], t[1]),
                      Bin("LT", Cond(t[3], t[2], t[1]), t[3]), Cond(t[3], t[1], Cond(t[2], t[3], t[1])),
                      Cond(t[1], Cond(t[3], t[2], t[1]), t[3]),
                      Bin("MINUS", [op |-> "NOT", l |-> t[3], r |-> t[3]], [op |-> "TILDE", l |-> t[2], r |-> t[2]])} :
                       t \in Triples}
         \cup {Bin("LT", Cond(N("1"), Neg(N("1")), Num(<<"3", "u">>)), N("0"))}
ShowValue(v) == IF v < 0 THEN <<"-">> \o outnum(0 - v) ELSE outnum(v)
ExprProgram(e) ==
  LET v == Value(e)
      p == Odd(Input("expr", <<Raw(<<"#", "if", "SP", "(">> \o Show(e, 1) \o <<")", "=", "=">>
                                   \o ShowValue(v.v)), T(<<"y">>), D(<<"endif">>)>>,
                     Words(<<"y">>)), OddTree(e))
  IN IF v.ty = "UND" THEN Wrong(p) ELSE p
ExprPrograms == {ExprProgram(e) : e \in Trees}

-----------------------------------------------------------------------------
(* Macros.                                                                 *)
Fn(name, params, body) == Raw(<<"#", "define", "SP", name, "(">> \o params \o <<")", "SP">> \o body)
M(lines, want) == Input("macro", lines, want)
TwoArgs == <<"x", ",", "y">>
Str(s) == <<<<"\"">> \o s \o <<"\"">>>>
MacroPrograms == {
  M(<<D(<<"define", "X", "Y">>), D(<<"define", "Y", "1">>), T(<<"X", "Z">>)>>, Words(<<"1", "Z">>)),
  M(<<D(<<"define", "A", "B", "2">>), D(<<"define", "B", "A", "1">>), T(<<"A", "B">>)>>,
    Words(<<"A", "1", "2", "B", "2", "1">>)),
  M(<<Fn("F", <<"x">>, <<"x", "+", "x">>), Fn("G", TwoArgs, <<"F", "(", "x", ")", "-", "y">>),
      Raw(<<"G", "(", "F", "(", "1", ")", ",", "-", ")">>)>>,
    Words(<<"1", "+", "1", "+", "1", "+", "1", "-", "-">>)),
  M(<<Fn("F", <<"x">>, <<"x", "*">>), D(<<"define", "G", "F">>), D(<<"define", "E">>),
      Raw(<<"G", "SP", "(", "(", "2", ",", "3", ")", ")", "E", "*", "F", ";">>)>>,
    Words(<<"(", "2", ",", "3", ")", "*", "*", "F", ";">>)),
  M(<<Fn("F", TwoArgs, <<"y", "SP", "x">>), Raw(<<"F", "(", "1", ",", "NL", "2", ")", "3">>), T(<<"a">>)>>,
    Words(<<"2", "1", "3", "a">>)),
  M(<<Fn("F", <<"x">>, <<"x">>), T(<<"F">>), T(<<"a">>), T(<<"b">>)>>, Words(<<"F", "a", "b">>)),
  M(<<Fn("F", <<"x">>, <<"x">>), T(<<"F">>), T(<<"(", "1", ")">>), T(<<"b">>)>>, Words(<<"1", "b">>)),
  M(<<Fn("S", <<"x">>, <<"#", "x">>), D(<<"define", "a", "1">>),
      Raw(<<"S", "(", "SP", "a", "SP", "+", "\"", "b", "\\", "\"", "\"", ")">>)>>,
    Str(<<"a", "SP", "+", "\\", "\"", "b", "\\", "\\", "\\", "\"", "\\", "\"">>)),
  M(<<Fn("P", TwoArgs, <<"x", "SP", "#", "#", "SP", "y">>), D(<<"define", "a", "1">>),
      Raw(<<"#", "define", "SP", "a", "b", "SP", "3">>),
      Raw(<<"P", "(", "a", ",", "b", ")", "P", "(", "a", ",", "2", ")", "P", "(", "-", ",", ">", ")">>)>>,
    <<<<"3">>, <<"a", "2">>, <<"-", ">">>>>),
  M(<<Fn("P", TwoArgs, <<"x", "#", "#", "y">>), Fn("Q", TwoArgs, <<"P", "(", "x", ",", "y", ")">>),
      D(<<"define", "a", "1">>), Raw(<<"Q", "(", "a", ",", "a", ")", "P", "(", "#", "#", ",", "P", ")">>)>>,
    <<<<"1", "1">>, <<"#", "#">>>>),
  M(<<Fn("F", <<>>, <<"1">>), Raw(<<"F", "(", ")", "-", "F", "SP", "(", ")">>),
      D(<<"undef", "F">>), T(<<"F", "F">>)>>, Words(<<"1", "-", "1", "F", "F">>)),
  M(<<T(<<"__LINE__">>), Fn("L", <<"x">>, <<"x", "SP", "__LINE__">>),
      Raw(<<"L", "(", "__LINE__", ")", "SP", "__FILE__">>)>>,
    <<<<"1">>, <<"3">>, <<"3">>, <<"\"", "m", "\"">>>>),
  Opt(Opt(Opt(M(<<T(<<"X", "Y", "Z">>)>>, <<<<"1">>, <<"5">>, <<"Z">>>>), "D", <<"X">>), "D", <<"Y", "=", "5">>),
      "U", <<"X", "Z">>),
  Opt(Opt(M(<<T(<<"__STDC__">>), D(<<"undef", "__STDC__">>), D(<<"ifdef", "__STDC__">>), T(<<"a">>), D(<<"endif">>)>>,
            <<<<"2">>>>), "U", <<"__STDC__">>), "D", <<"__STDC__", "=", "2">>),
  Opt(Opt(M(<<D(<<"ifdef", "__STDC__">>), T(<<"a">>), D(<<"endif">>), T(<<"__STDC__", "__LINE__">>)>>,
            <<<<"__STDC__">>, <<"4">>>>), "U", <<"__LINE__">>), "D", <<"__LINE__", "=", "9">>),
  Wrong(M(<<D(<<"define", "__STDC__", "1">>)>>, <<>>)),
  Wrong(Opt(M(<<>>, <<>>), "D", <<"1">>)), Wrong(Opt(M(<<>>, <<>>), "D", <<"X", "SP", "Y">>)),
  Wrong(Opt(M(<<>>, <<>>), "U", <<"X", "=">>)), Wrong(Opt(M(<<>>, <<>>), "D", <<"X", "=", "\"">>)),
  M(<<D(<<"define", "X", "1">>), D(<<"define", "X", "1">>), T(<<"X">>), D(<<"if", "defined", "X">>),
      T(<<"d">>), D(<<"endif">>)>>, Words(<<"1", "d">>)),
  Wrong(M(<<D(<<"define", "X", "1">>), D(<<"define", "X", "2">>)>>, <<>>)),
  Wrong(M(<<Fn("F", <<"x", ",", "x">>, <<"x">>)>>, <<>>)),
  Wrong(M(<<Fn("F", <<"x", ",">>, <<"x">>)>>, <<>>)),
  Wrong(M(<<D(<<"define", "defined", "1">>)>>, <<>>)),
  Wrong(M(<<Fn("F", <<"x">>, <<"x">>), Raw(<<"F", "(", "1", ",", "2", ")">>)>>, <<>>)),
  Wrong(M(<<Fn("F", <<"x">>, <<"x">>), Raw(<<"F", "(", "1">>)>>, <<>>)),
  Wrong(M(<<Fn("F", <<"x">>, <<"#", "y">>), Raw(<<"F", "(", "1", ")">>)>>, <<>>)),
  Wrong(M(<<Fn("F", <<"x">>, <<"x", "#", "#">>), Raw(<<"F", "(", "1", ")">>)>>, <<>>)),
  Wrong(M(<<Fn("F", <<"a", ",", "b", ",", "c", ",", "d">>, <<"a">>),
            Raw(<<"F", "(", "1", ",", "2", ",", "3", ",", "4", ")">>)>>, <<>>)),
  Odd(M(<<Fn("F", <<"SP", "x">>, <<"x">>), Fn("F", <<"SP", "x">>, <<"x">>)>>, <<>>), "BlankBeforeParameter"),
  Odd(M(<<Fn("S", <<"x">>, <<"#", "x">>), Raw(<<"S", "(", "a", "NL", "b", ")">>)>>, Str(<<"a", "SP", "b">>)),
      "NewlineInString"),
  Odd(M(<<Fn("P", TwoArgs, <<"x", "#", "#", "y">>), Raw(<<"P", "(", "x", ",", ")">>)>>, <<<<"x">>>>), "EmptyPasted"),
  Odd(M(<<Fn("F", <<"x">>, <<"x">>), T(<<"F">>), D(<<"define", "X", "1">>), T(<<"X">>)>>, Words(<<"F", "1">>)),
      "DirectiveGathered"),
  Odd([M(<<Fn("F", <<"x">>, <<"x">>), Raw(<<"F", "(", "F", "(", "1", ")", ")">>)>>, <<<<"1">>>>) EXCEPT !.junk = TRUE],
      "ReadBeyondRow")}

-----------------------------------------------------------------------------
(* Files, positions and the other directives.                              *)
H == <<".", "h">>
F(lines, want) == Input("file", lines, want)
IncludeH == Raw(<<"#", "include", "SP", "\"", "h", "\"">>)
Guarded == <<D(<<"ifndef", "H">>), D(<<"define", "H">>), T(<<"h">>), D(<<"endif">>)>>
FilePrograms == {
  With(F(<<T(<<"a">>), IncludeH, T(<<"b">>), IncludeH, T(<<"c">>)>>, Words(<<"a", "h", "b", "c">>)), H, Guarded),
  With(With(F(<<IncludeH, Raw(<<"#", "include", "SP", "<", "h", ">">>), T(<<"a">>)>>, Words(<<"h", "i", "a">>)),
            H, <<T(<<"h">>)>>), <<"inc", "h">>, <<T(<<"i">>)>>),
  With(F(<<D(<<"define", "X", "<", "h", ">">>), D(<<"include", "X">>), T(<<"__FILE__">>)>>,
         <<<<"\"", "inc", "h", "\"">>, <<"\"", "m", "\"">>>>), <<"inc", "h">>, <<T(<<"__FILE__">>)>>),
  With(F(<<D(<<"if", "0">>), IncludeH, D(<<"else">>), T(<<"a">>), D(<<"endif">>), T(<<"b">>)>>,
         Words(<<"a", "b">>)), H, <<T(<<"h">>)>>),
  F(<<T(<<"a">>), Raw(<<"#", "line", "SP", "5", "0">>), T(<<"b">>), T(<<"c">>)>>, Words(<<"a", "b", "c">>)),
  F(<<Raw(<<"#", "6", "SP", "\"", "f", "\"">>), T(<<"b">>), Raw(<<"c", "\\", "NL", "c">>), T(<<"__LINE__">>)>>,
    <<<<"b">>, <<"c", "c">>, <<"9">>>>),
  F(<<D(<<"pragma", "p">>), D(<<"ident", "i">>), D(<<>>), D(<<"error", "e">>), D(<<"eval", "1">>), T(<<"a">>)>>,
    <<<<"#">>, <<"pragma">>, <<"p">>, <<"#">>, <<"ident">>, <<"i">>, <<"#">>, <<"a">>>>),
  Wrong(With(F(<<IncludeH>>, <<>>), H, <<IncludeH>>)),
  Wrong(F(<<IncludeH, T(<<"a">>)>>, <<>>)),
  Wrong(F(<<D(<<"include", "1">>)>>, <<>>)),
  Wrong(With(F(<<IncludeH, D(<<"endif">>)>>, <<>>), H, <<D(<<"if", "1">>)>>)),
  Wrong(With(F(<<D(<<"if", "1">>), IncludeH>>, <<>>), H, <<D(<<"endif">>)>>)),
  Wrong(With(F(<<D(<<"if", "1">>), IncludeH, D(<<"endif">>)>>, <<>>), H, <<D(<<"else">>)>>)),
  Wrong(F(<<D(<<"if", "1">>), T(<<"a">>)>>, <<>>)),
  Wrong(F(<<D(<<"endif">>)>>, <<>>)), Wrong(F(<<D(<<"elif", "1">>)>>, <<>>)),
  Wrong(F(<<D(<<"if", "1">>), D(<<"else">>), D(<<"elif", "1">>), D(<<"endif">>)>>, <<>>)),
  Wrong(F(<<D(<<"if", "1">>), D(<<"else">>), D(<<"else">>), D(<<"endif">>)>>, <<>>)),
  Wrong(F(<<D(<<"if", "1">>), D(<<"if", "0">>), D(<<"if", "1">>), D(<<"if", "1">>)>>, <<>>)),
  Wrong(F(<<D(<<"line", "x">>)>>, <<>>)), Wrong(F(<<D(<<"undef", "x", "y">>)>>, <<>>)),
  Wrong(F(<<D(<<"ifdef">>), D(<<"endif">>)>>, <<>>)), Wrong(F(<<D(<<"if", "1", "1">>), D(<<"endif">>)>>, <<>>)),
  Odd(Wrong(F(<<D(<<"if", "(", "1">>), T(<<"a">>), D(<<"endif">>)>>, <<>>)), "OnlyWarned"),
  Odd(Wrong(F(<<D(<<"if", "1", ",", "2">>), T(<<"a">>), D(<<"endif">>)>>, <<>>)), "OnlyWarned"),
  Wrong(F(<<Raw(<<"#", "if", "SP", "\"", "a", "\"">>), D(<<"endif">>)>>, <<>>)),
  Odd(Wrong(With(F(<<D(<<"if", "1">>), IncludeH, T(<<"a">>), D(<<"endif">>)>>, <<>>), H,
                 <<D(<<"elif", "1">>)>>)), "ElifOfIncluder"),
  Odd(F(<<D(<<"if", "0">>), D(<<"(">>), D(<<"endif">>), T(<<"a">>)>>, Words(<<"a">>)), "JunkInSkippedGroup"),
  Odd(F(<<D(<<"if", "0">>), D(<<"5">>), D(<<"endif">>), T(<<"__LINE__">>)>>, Words(<<"4">>)), "NumberInSkippedGroup"),
  Odd(F(<<Raw(<<"#", "line", "SP", "5", "\\", "NL">>), T(<<"a">>)>>, Words(<<"a">>)), "FoldedLine"),
  Odd([With(F(<<IncludeH, T(<<"a">>)>>, Words(<<"h", "a">>)), H, <<>>) EXCEPT !.files[H] = <<"h">>], "NoFinalNewline"),
  Odd([With(F(<<IncludeH, D(<<"if", "X">>), T(<<"a">>), D(<<"endif">>)>>, Words(<<"a">>)), H, <<>>)
         EXCEPT !.files[H] = <<"#", "define", "SP", "X", "SP", "1">>], "NoFinalNewline"),
  Odd(F(<<D(<<"if", "1">>), T(<<"a">>), D(<<"elif", "1", "/", "0">>), D(<<"endif">>)>>, Words(<<"a">>)),
      "ElifEvaluated")}

-----------------------------------------------------------------------------
(* Tokens: comments, continued lines, trigraphs, constants, operators.     *)
X(chars, want) == Input("lex", <<Raw(chars), T(<<"z">>)>>, want \o <<<<"z">>>>)
LexPrograms == {
  X(<<"a", "/", "*", "NL", "*", "*", "/", "b", "/", "/", "c">>, Words(<<"a", "b">>)),
  X(<<"\"", "/", "/", "\\", "\"", "\"", "'", "\\", "'", "'", ".", ".", ".", ".">>,
    <<<<"\"", "/", "/", "\\", "\"", "\"">>, <<"'", "\\", "'", "'">>, <<".", ".", ".">>, <<".">>>>),
  X(<<"a", "\\", "NL", "b", "CR", "NL", "?", "?", "=", "define", "SP", "d", "SP", "4", "NL", "d">>,
    <<<<"a", "b">>, <<"4">>>>),
  X(<<"1", "e", "+", "2", "+", "+", "+", "a", "-", ">", "b", "<", "<", "=", "c", "?", "?", "!", "|">>,
    <<<<"1", "e", "+", "2">>, <<"+", "+">>, <<"+">>, <<"a">>, <<"-", ">">>, <<"b">>, <<"<", "<", "=">>,
      <<"c">>, <<"|", "|">>>>),
  X(<<"L", "\"", "a", "\"", "L", "'", "0", "'", "L", "1", "@">>,
    <<<<"L", "\"", "a", "\"">>, <<"L", "'", "0", "'">>, <<"L", "1">>, <<"@">>>>),
  X(<<"#", "if", "SP", "'", "\\", "0", "1", "1", "'", "=", "=", "0", "x", "9", "&", "&", "'", "\\", "n", "'",
      "=", "=", "0", "1", "2", "NL", "y", "NL", "#", "endif">>, <<<<"y">>>>),
  Wrong(X(<<"\"", "a">>, <<>>)),
  Wrong([X(<<"a">>, <<>>) EXCEPT !.files[<<"m">>] = <<"'">>]),
  Odd(X(<<"/", "*", "CR", "NL", "*", "/", "a">>, Words(<<"a">>)), "CrInComment"),
  Odd(X(<<"VT", "a", "NL", "*", "/">>, Words(<<"a", "*", "/">>)), "VerticalTab")}

(* Calls that the end of the input, of an argument or of a row cuts off.   *)
FdefX(lines, want) == Odd(M(<<Fn("F", <<"x">>, <<"x">>)>> \o lines, want), "CallAtEnd")
EndPrograms == {
  FdefX(<<T(<<"a", "F">>)>>, Words(<<"a", "F">>)),
  FdefX(<<D(<<"if", "F">>), D(<<"endif">>), T(<<"a">>)>>, Words(<<"a">>)),
  FdefX(<<Raw(<<"F", "(", "F", ")", "(", "1", ")">>)>>, <<<<"1">>>>)}

AllPrograms == (IF "cond" \in Families THEN CondPrograms ELSE {})
               \cup (IF "expr" \in Families THEN ExprPrograms ELSE {})
               \cup (IF "macro" \in Families THEN MacroPrograms ELSE {})
               \cup (IF "file" \in Families THEN FilePrograms ELSE {})
               \cup (IF "lex" \in Families THEN LexPrograms ELSE {})
               \cup (IF "end" \in Families THEN EndPrograms ELSE {})
=============================================================================
