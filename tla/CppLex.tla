------------------------------- MODULE CppLex -------------------------------
(***************************************************************************)
(* The scanner of the preprocessor, lex.c.  The input is a sequence of     *)
(* characters; a symbol such as "define" stands for a run of letters.  A   *)
(* token has a type t, its text x, ws (white space before it) and hs, its  *)
(* hideset.                                                                *)
(***************************************************************************)
EXTENDS Naturals, Sequences, TLC

Digits  == {"0", "1", "2", "3", "4", "5", "6", "7", "8", "9"}
Special == {"SP", "NL", "CR", "VT", "EOF", ".", "\"", "'", "\\", "/", "*", "-", "+", "<",
            ">", "=", "!", "&", "|", "#", "%", "[", "]", "(", ")", ",", "?", ":", ";", "{",
            "}", "~", "^", "@"}
Class(c) == IF c \in Special \cup {"e", "_", "L"} THEN c
            ELSE IF c \in Digits THEN "num" ELSE "alph"
Letters  == {"alph", "e", "_", "L"}

Go(s)    == [do |-> "GO", t |-> s]
Self(t)  == [do |-> "SELF", t |-> t]
SelfB(t) == [do |-> "SELFB", t |-> t]
Act(a)   == [do |-> a, t |-> ""]
On(cs, a) == [c \in cs |-> a]

(* fsm[]: where a state goes on any character, then on given ones.         *)
Elsewhere ==
  [START |-> Self("UNCLASS"), NUM1 |-> SelfB("NUMBER"), NUM2 |-> SelfB("NUMBER"),
   NUM3 |-> SelfB("DOT"), DOTS1 |-> SelfB("UNCLASS"), ID1 |-> Act("NAME"),
   ST1 |-> Act("NAME"), ST2 |-> Go("ST2"), ST3 |-> Go("ST2"), CC1 |-> Go("CC1"),
   CC2 |-> Go("CC1"), COM1 |-> SelfB("SLASH"), COM2 |-> Go("COM2"), COM3 |-> Go("COM2"),
   COM4 |-> Go("COM4"), WS1 |-> Act("WS"), S_CR1 |-> Go("START"),
   MINUS1 |-> SelfB("MINUS"), PLUS1 |-> SelfB("PLUS"), LT1 |-> SelfB("LT"),
   LT2 |-> SelfB("LSH"), GT1 |-> SelfB("GT"), GT2 |-> SelfB("RSH"), ASG1 |-> SelfB("ASGN"),
   NOT1 |-> SelfB("NOT"), AND1 |-> SelfB("AND"), OR1 |-> SelfB("OR"),
   SHARP1 |-> SelfB("SHARP"), PCT1 |-> SelfB("PCT"), STAR1 |-> SelfB("STAR"),
   CIRC1 |-> SelfB("CIRC")]

Single == [c \in {"[", "]", "(", ")", ",", "?", ":", ";", "{", "}", "~"} |->
             CASE c = "[" -> "SBRA" [] c = "]" -> "SKET" [] c = "(" -> "LP" [] c = ")" -> "RP"
               [] c = "," -> "COMMA" [] c = "?" -> "QUEST" [] c = ":" -> "COLON"
               [] c = ";" -> "SEMIC" [] c = "{" -> "CBRA" [] c = "}" -> "CKET"
               [] c = "~" -> "TILDE"]
First  == ("-" :> "MINUS1") @@ ("+" :> "PLUS1") @@ ("<" :> "LT1") @@ (">" :> "GT1")
          @@ ("=" :> "ASG1") @@ ("!" :> "NOT1") @@ ("&" :> "AND1") @@ ("|" :> "OR1")
          @@ ("#" :> "SHARP1") @@ ("%" :> "PCT1") @@ ("*" :> "STAR1") @@ ("^" :> "CIRC1")

(* S_COMCR1, the state meant for CR in a comment, has the number of S_SELF: *)
(* the CR ends a token whose type is END.  Its own entry for NL is written  *)
(* beyond the row of NL, into that of the vertical tab at the start.        *)
Moves ==
  [START |-> [c \in DOMAIN Single |-> Self(Single[c])] @@ [c \in DOMAIN First |-> Go(First[c])]
             @@ On({"SP"}, Go("WS1")) @@ On({"num"}, Go("NUM1")) @@ On({"."}, Go("NUM3"))
             @@ On({"L"}, Go("ST1")) @@ On(Letters, Go("ID1")) @@ On({"\""}, Go("ST2"))
             @@ On({"'"}, Go("CC1")) @@ On({"/"}, Go("COM1")) @@ On({"EOF"}, Act("EOF"))
             @@ On({"CR"}, Go("S_CR1")) @@ On({"NL"}, Act("NL")) @@ On({"VT"}, Act("COMNL")),
   S_CR1 |-> On({"NL"}, Act("NL")),
   NUM1  |-> On({"e"}, Go("NUM2")) @@ On({"num", "alph", "L", "."}, Go("NUM1")),
   NUM2  |-> On({"+", "-", "num", "alph", "e", "L"}, Go("NUM1")),
   NUM3  |-> On({"."}, Go("DOTS1")) @@ On({"num"}, Go("NUM1")),
   DOTS1 |-> On({"num"}, Go("NUM1")) @@ On({"."}, Self("ELLIPS")),
   ID1   |-> On(Letters \cup {"num"}, Go("ID1")),
   ST1   |-> On(Letters \cup {"num"}, Go("ID1")) @@ On({"\""}, Go("ST2"))
             @@ On({"'"}, Go("CC1")),
   ST2   |-> On({"\""}, Self("STRING")) @@ On({"\\"}, Go("ST3"))
             @@ On({"CR", "NL"}, Act("STNL")) @@ On({"EOF"}, Act("EOFSTR")),
   ST3   |-> On({"CR", "NL"}, Act("STNL")) @@ On({"EOF"}, Act("EOFSTR")),
   CC1   |-> On({"'"}, Self("CCON")) @@ On({"\\"}, Go("CC2"))
             @@ On({"CR", "NL"}, Act("STNL")) @@ On({"EOF"}, Act("EOFSTR")),
   CC2   |-> On({"NL"}, Act("STNL")) @@ On({"EOF"}, Act("EOFSTR")),
   COM1  |-> On({"="}, Self("ASSLASH")) @@ On({"*"}, Go("COM2")) @@ On({"/"}, Go("COM4")),
   COM2  |-> On({"CR"}, Self("END")) @@ On({"NL"}, Act("COMNL")) @@ On({"*"}, Go("COM3"))
             @@ On({"EOF"}, Act("EOFCOM")),
   COM3  |-> On({"CR"}, Self("END")) @@ On({"NL"}, Act("COMNL")) @@ On({"*"}, Go("COM3"))
             @@ On({"/"}, Act("COMMENT")),
   COM4  |-> On({"CR"}, Go("S_CR1")) @@ On({"NL"}, Act("NL")) @@ On({"EOF"}, Act("EOFCOM")),
   WS1   |-> On({"SP", "VT"}, Go("WS1")),
   MINUS1 |-> On({"-"}, Self("MMINUS")) @@ On({"="}, Self("ASMINUS")) @@ On({">"}, Self("ARROW")),
   PLUS1 |-> On({"+"}, Self("PPLUS")) @@ On({"="}, Self("ASPLUS")),
   LT1   |-> On({"<"}, Go("LT2")) @@ On({"="}, Self("LEQ")), LT2 |-> On({"="}, Self("ASLSH")),
   GT1   |-> On({">"}, Go("GT2")) @@ On({"="}, Self("GEQ")), GT2 |-> On({"="}, Self("ASRSH")),
   ASG1  |-> On({"="}, Self("EQ")), NOT1 |-> On({"="}, Self("NEQ")),
   AND1  |-> On({"&"}, Self("LAND")) @@ On({"="}, Self("ASAND")),
   OR1   |-> On({"|"}, Self("LOR")) @@ On({"="}, Self("ASOR")),
   SHARP1 |-> On({"#"}, Self("DSHARP")), PCT1 |-> On({"="}, Self("ASPCT")),
   STAR1 |-> On({"="}, Self("ASSTAR")), CIRC1 |-> On({"="}, Self("ASCIRC"))]

(* expandlex: any state that EOF would not leave ends the file.            *)
bigfsm(c, s) ==
  IF Class(c) \in DOMAIN Moves[s] THEN Moves[s][Class(c)]
  ELSE IF c = "EOF" /\ Elsewhere[s].do = "GO" THEN Act("EOF")
  ELSE Elsewhere[s]

(* trigraph and foldline: the character at i and the place after it.       *)
Trigraph == ("=" :> "#") @@ ("(" :> "[") @@ ("/" :> "\\") @@ (")" :> "]") @@ ("'" :> "^")
            @@ ("<" :> "{") @@ ("!" :> "|") @@ (">" :> "}") @@ ("-" :> "~")
Char(src, i) ==
  IF i > Len(src) THEN [c |-> "EOF", n |-> i]
  ELSE IF i + 2 <= Len(src) /\ src[i] = "?" /\ src[i + 1] = "?" /\ src[i + 2] \in DOMAIN Trigraph
       THEN [c |-> Trigraph[src[i + 2]], n |-> i + 3]
       ELSE [c |-> src[i], n |-> i + 1]
Folds(src, p) == p.c = "\\" /\ p.n <= Len(src) /\ src[p.n] = "NL"

Token(t, x, ws) == [t |-> t, x |-> x, ws |-> ws, hs |-> {}]
NLToken  == Token("NL", <<"NL">>, 0)
ENDToken == Token("END", <<>>, 0)

(* gettokens: one row, up to a newline or the end of the input.  z holds   *)
(* the state, the text of the token so far, the row, the lines passed and  *)
(* the errors.                                                             *)
RECURSIVE Scan(_, _, _)
(* The action a on the character p at i.                                   *)
Moved(src, i, z, p, a) ==
  LET start == [z EXCEPT !.state = "START", !.text = <<>>, !.ws = 0]
      token(t, x) == [start EXCEPT !.row = Append(@, Token(t, x, z.ws))]
      space == [start EXCEPT !.ws = 1]
      stop(tok, n, lines, errs, fatal) ==
        [row |-> Append(z.row, tok), pos |-> n, inc |-> z.inc + lines,
         errs |-> z.errs + errs, fatal |-> fatal] IN
  CASE a.do = "GO" -> Scan(src, p.n, [z EXCEPT !.state = a.t, !.text = Append(@, p.c)])
    [] a.do = "SELF" -> Scan(src, p.n, token(a.t, Append(z.text, p.c)))
    [] a.do = "SELFB" -> Scan(src, i, token(a.t, z.text))
    [] a.do = "NAME" -> Scan(src, i, token("NAME", z.text))
    [] a.do = "WS" -> Scan(src, i, space)
    [] a.do = "COMNL" -> Scan(src, p.n, [z EXCEPT !.state = "COM2", !.inc = @ + 1])
    [] a.do = "COMMENT" -> Scan(src, p.n, space)
    [] a.do = "EOFCOM" -> Scan(src, i, space)
    [] a.do = "EOF" -> stop(ENDToken, i, 0, 0, FALSE)
    [] a.do = "NL" -> stop(NLToken, p.n, 1, 0, FALSE)
    [] a.do = "STNL" -> stop(NLToken, p.n, 1, 1, FALSE)
    [] a.do = "EOFSTR" -> stop(ENDToken, i, 0, 1, TRUE)
Scan(src, i, z) ==
  LET p == Char(src, i) IN
  IF Folds(src, p) THEN Scan(src, p.n + 1, [z EXCEPT !.inc = @ + 1])
  ELSE Moved(src, i, z, p, bigfsm(p.c, z.state))

gettokens(src, i) ==
  Scan(src, i, [state |-> "START", text |-> <<>>, ws |-> 0, row |-> <<>>, inc |-> 0,
                errs |-> 0])
=============================================================================
