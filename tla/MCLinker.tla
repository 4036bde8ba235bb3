------------------------------ MODULE MCLinker ------------------------------
(* Programs of one or two C files and the library.  Function f is called   *)
(* through variable lc3_f, as the compiler does.                           *)
EXTENDS Linker

Ptr(f) == CASE f = "main" -> "lc3_main" [] f = "f" -> "lc3_f" [] f = "g" -> "lc3_g"
            [] f = "h" -> "lc3_h" [] f = "put" -> "lc3_put" [] f = "abs" -> "lc3_abs"
Fun(f, body) == <<Global(f), Label(";"), Decl(Ptr(f), 1, f), Label(f)>> \o body \o <<Ret>>
Call(f) == <<Use(Ptr(f), 0, 0), Ldr(0, 0)>>
Lea(n)  == <<Use(n, 0, 1)>>
Back(n) == <<Use(n, -1, 1)>>
Prog(fs, debug) ==
  [files |-> Append(fs, Fun("put", <<>>) \o <<End>>), paste |-> debug,
   lib |-> [n \in {"abs"} |-> <<Decl("lc3_abs", 1, "abs"), Label("abs"), Ret>>],
   opened |-> TRUE, header |-> TRUE]

(* One file, with every offset about the limits of ADD and LDR.            *)
Offsets == {-100, -82, -81, -80, -49, -48, -47, -33, -32, -31, -17, -16, -15, -1, 0, 1, 14, 15,
            16, 29, 30, 31, 32, 33, 44, 45, 46, 47, 75, 76, 77, 78, 100}
One == {Prog(<<<<Decl("a", 1, ""), Fill, Blkw(s), Global("n"), Decl("n", 1, "")>>
          \o Fun("main", <<Use("n", o, 1)>> \o l) \o <<Decl("z", 2, ""), End>> >>, FALSE) :
          s \in {1, 29}, o \in Offsets,
          l \in {<<>>, <<Ldr(1, 0)>>, <<Ldr(2, 0)>>, <<Ldr(1, 3)>>, <<Ldr(1, -2)>>}}

(* Two files: what main calls, what f and g use, where f's variables are.   *)
Bodies == {<<>>, Lea("n"), Lea("nn"), Lea("n") \o Lea("nn"), Call("h"), Call("g"), Call("put"),
           Lea("x"), Back("nn"), Back("nn") \o Lea("nn"), Back("nn") \o Lea("n")}
Mains == {Call("f"), Call("f") \o Call("g"), Call("f") \o Lea("nn"), Call("put") \o Call("f"),
          Call("abs") \o Lea("x"), Lea("nn")}
ExternsOf(b, own) ==
  LET ns == {b[i].n : i \in {i \in DOMAIN b : b[i].k = "use"}}
      ext == {IF n = "lc3_f" THEN "f" ELSE IF n = "lc3_g" THEN "g"
              ELSE IF n = "lc3_put" THEN "put" ELSE IF n = "lc3_abs" THEN "abs" ELSE n
                : n \in ns} \ own IN
  [i \in DOMAIN SetToSeq(ext) |-> Extern(SetToSeq(ext)[i])]
Vars == {<<Global("n"), Decl("n", 1, ""), Fill, Global("nn"), Decl("nn", 1, "")>>,
         <<Global("nn"), Decl("nn", 1, ""), Global("n"), Decl("n", 1, ""), Fill>>,
         <<Global("n"), Decl("n", 1, ""), Decl("nn", 1, ""), Fill, Blkw(2)>>}
MainFile(b) == Fun("main", b) \o <<Global("x"), Decl("x", 1, "")>> \o ExternsOf(b, {"x"})
                 \o <<Decl("s", 3, ""), End>>
OtherFile(bf, bg, v, first) ==
  (IF first THEN v ELSE <<>>) \o Fun("f", bf) \o Fun("g", bg)
    \o Fun("h", <<>>) \o (IF first THEN <<>> ELSE v)
    \o ExternsOf(bf \o bg, {"n", "nn", "lc3_h", "g"}) \o <<End>>
Two == {Prog(IF swap THEN <<OtherFile(bf, bg, v, first), MainFile(m)>>
             ELSE <<MainFile(m), OtherFile(bf, bg, v, first)>>, FALSE) :
          m \in Mains, bf \in Bodies, bg \in {<<>>, Lea("nn")}, v \in Vars,
          first \in BOOLEAN, swap \in BOOLEAN}

(* Three files: f uses a variable of the third.                            *)
Permutations3(a, b, c) ==
  {<<a, b, c>>, <<a, c, b>>, <<b, a, c>>, <<b, c, a>>, <<c, a, b>>, <<c, b, a>>}
Third == <<Global("y"), Decl("y", 1, ""), Fill, End>>
Three == {Prog(fs, FALSE) :
            fs \in UNION {Permutations3(MainFile(m), OtherFile(b, <<>>, <<>>, FALSE), Third) :
                            m \in {Call("f"), Call("f") \o Lea("y")}, b \in {Lea("y"), Back("y")}}}

(* Calls that fail.                                                        *)
Bad == LET p == Prog(<<MainFile(<<>>)>>, FALSE) IN
  {[p EXCEPT !.opened = FALSE], [p EXCEPT !.header = FALSE],
   Prog(<<MainFile(<<Use("nowhere", 0, 1)>>)>>, FALSE), Prog(<<>>, FALSE)}

(* Debug directives in any order.                                          *)
Directives == {File(1, "a.c"), File(2, "a.c"), File(2, "b.c"), File(3, "b.c"), File(1, "none"),
               SrcLine(1, 1), SrcLine(1, 3), SrcLine(1, 9), SrcLine(2, 2), SrcLine(4, 1)}
Debug == {Prog(<<<<File(1, "a.c")>> \o d \o <<Label("x")>> \o Fun("main", <<>>) \o <<End>> >>, TRUE) :
            d \in [1..3 -> Directives]}

\* a.c has no newline at its end; line 2 of b.c is as long as two pieces.
MCSources == [s \in {"a.c", "b.c"} |->
                IF s = "a.c" THEN [len |-> 4, text |-> {1, 3, 4}, ends |-> {1, 2, 3}]
                ELSE [len |-> 4, text |-> {2, 3, 4}, ends |-> {1, 3, 4}]]
MCNamePrefixes == {<<"n", "nn">>}
MCPrograms == One \cup Two \cup Three \cup Bad \cup Debug
=============================================================================
