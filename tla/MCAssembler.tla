---------------------------- MODULE MCAssembler ----------------------------
(* Instances of Assembler for TLC. *)
EXTENDS Assembler, TLC

\* Labels and all that moves them.
LayoutKinds == {"label", "ref", "fill", "blkw", "blkwto", "orig", "end"}

\* Debug lines, refused lines and repeated .ORIG directives.
DebugKinds == {"word", "wrong", "bad", "orig", "wrongorig", "line", "lineend",
               "end"}

\* C lines of which a block or a label is all the code.
MixedKinds == {"blkw", "label", "word", "orig", "line", "lineend", "end"}

AllKinds == LayoutKinds \cup DebugKinds

\* Bound: apart from MixedKinds the two meet in short texts only.
ShortMix ==
  \/ Len(text) <= 4
  \/ \E ks \in {LayoutKinds, DebugKinds, MixedKinds} : \A i \in DOMAIN text : text[i].t \in ks
=============================================================================
