------------------------------ MODULE MCDriver ------------------------------
(* Command lines of at most three arguments.                               *)
EXTENDS Driver

Arg(k, n) == [kind |-> k, name |-> n]
FileArgs == {Arg("c", "a"), Arg("c", "b"), Arg("i", "a"), Arg("lcc", "a"),
             Arg("other", "s"), Arg("missing", "m")}
OptArgs == {Arg(k, "") : k \in OptKinds}

Short == {l \in BoundedSeq(FileArgs \cup OptArgs, 2) :
            Len(l) = 2 => l[1].kind # "-o last"}

MCCommandLines ==
  Short \cup {<<o, f, g>> : o \in {Arg("-c", ""), Arg("-g", ""), Arg("-v", "")},
                            f \in FileArgs \cup {Arg("-v", "")}, g \in FileArgs}

MCLeftovers == {<<"ldoutfile">>}
=============================================================================
