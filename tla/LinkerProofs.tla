---------------------------- MODULE LinkerProofs ----------------------------
(***************************************************************************)
(* The source paster inserts what it reads of every C file once, in order, *)
(* for all programs and sources, whatever files and lines the directives   *)
(* name and in whatever order.                                             *)
(* The code that computes an address in the data section is right for      *)
(* every offset, and the offset is that of the variable, whatever files    *)
(* are linked.                                                             *)
(***************************************************************************)
EXTENDS Linker, TLAPS, WellFoundedInduction, FiniteSetTheorems

IsSeq(s) == s \in Seq({s[i] : i \in DOMAIN s})

PasteTyped ==
  /\ paste = [src |-> paste.src, pos |-> paste.pos, last |-> paste.last,
              res |-> paste.res, id |-> paste.id, i |-> paste.i,
              until |-> paste.until]
  /\ paste.src \in Seq(DOMAIN Sources)
  /\ paste.pos \in Seq(Nat) /\ Len(paste.pos) = Len(paste.src)
  /\ paste.last \in Seq(Nat) /\ Len(paste.last) = Len(paste.src)
  /\ IsSeq(paste.res)

(* The number of the last piece printed is the number of those read from   *)
(* the stream; while OutputSource reads, the number is in i.               *)
Streams ==
  /\ \A f \in DOMAIN paste.src :
       /\ paste.pos[f] <= Sources[paste.src[f]].len
       /\ IF pc = "source" /\ f = paste.id THEN paste.i = paste.pos[f]
                                           ELSE paste.last[f] = paste.pos[f]
  /\ pc = "paste" => k \in Nat
  /\ pc = "source" =>
       /\ paste.id \in DOMAIN paste.src /\ paste.until \in Int /\ k \in Nat
       /\ out[k - 1].id = paste.id /\ out[k - 1].at = paste.until

IsSrc(j) == paste.res[j].k = "src"

(* What is printed of each file is what is not blank of the pieces read,   *)
(* each under its place among them, in order.                              *)
Printed ==
  /\ \A j \in DOMAIN paste.res : IsSrc(j) =>
       /\ paste.res[j].id \in DOMAIN paste.src
       /\ paste.res[j].at = paste.res[j].text /\ paste.res[j].at \in Nat \ {0}
       /\ paste.res[j].at <= paste.pos[paste.res[j].id]
  /\ \A i, j \in DOMAIN paste.res :
       IsSrc(i) /\ IsSrc(j) /\ i < j /\ paste.res[i].id = paste.res[j].id
         => paste.res[i].at < paste.res[j].at
  /\ \A f \in DOMAIN paste.src : \A t \in Sources[paste.src[f]].text :
       t <= paste.pos[f] =>
         \E j \in DOMAIN paste.res :
           IsSrc(j) /\ paste.res[j].id = f /\ paste.res[j].at = t

(* When the directive before line k is done, its line has been reached, or *)
(* the end of its file.                                                    *)
Reached ==
  pc = "paste" /\ k > 1 /\ out[k - 1].k = "line"
      /\ out[k - 1].id \in DOMAIN paste.src /\ out[k - 1].at \in Int =>
    LET f == out[k - 1].id IN
    paste.pos[f] >= out[k - 1].at \/ paste.pos[f] = Sources[paste.src[f]].len

PasteInv == PasteTyped /\ Streams /\ Printed /\ Reached

----------------------------------------------------------------------------
(* A sequence stays one when an element is added; the others stay.         *)
LEMMA Appended ==
  ASSUME NEW s, IsSeq(s), NEW e
  PROVE  /\ IsSeq(Append(s, e)) /\ Len(s) \in Nat /\ DOMAIN s = 1 .. Len(s)
         /\ DOMAIN Append(s, e) = 1 .. Len(s) + 1
         /\ \A i \in 1 .. Len(s) : Append(s, e)[i] = s[i]
         /\ Append(s, e)[Len(s) + 1] = e
<1> DEFINE T == {s[i] : i \in DOMAIN s} \cup {e}
<1>1. s \in Seq(T)
  BY DEF IsSeq
<1>2. Len(s) \in Nat /\ DOMAIN s = 1 .. Len(s)
  BY <1>1
<1> HIDE DEF T
<1>3. /\ DOMAIN Append(s, e) = 1 .. Len(s) + 1
      /\ \A i \in 1 .. Len(s) : Append(s, e)[i] = s[i]
      /\ Append(s, e)[Len(s) + 1] = e
  BY <1>1, <1>2 DEF T
<1>4. IsSeq(Append(s, e))
  <2> DEFINE r == Append(s, e)
  <2>1. r \in Seq(T)
    BY <1>1 DEF T
  <2> HIDE DEF r
  <2>2. /\ Len(r) \in Nat /\ DOMAIN r = 1 .. Len(r)
        /\ r = [i \in 1 .. Len(r) |-> r[i]]
    BY <2>1
  <2>3. r \in [1 .. Len(r) -> {r[i] : i \in DOMAIN r}]
    BY <2>2
  <2>4. r \in Seq({r[i] : i \in DOMAIN r})
    BY <2>2, <2>3
  <2> QED
    BY <2>4 DEF r, IsSeq
<1> QED
  BY <1>2, <1>3, <1>4

(* Steps of the linker proper do not touch the paster; its last one starts *)
(* the paster at the first line.                                           *)
LEMMA Elsewhere ==
  ASSUME PasteInv, UNCHANGED paste, pc # "source", pc' # "source",
         pc' = "paste" => k' = 1
  PROVE  PasteInv'
<1>1. PasteTyped' /\ Printed'
  BY DEF PasteInv, PasteTyped, Printed, IsSeq, IsSrc
<1>2. Streams' /\ Reached'
  BY DEF PasteInv, Streams, Reached
<1> QED
  BY <1>1, <1>2 DEF PasteInv

(* The steps of the linker proper.                                         *)
LEMMA LinkSteps ==
  ASSUME PasteInv,
         \/ Open \/ Scan \/ FindMain \/ Head0 \/ NextExtern \/ Find
         \/ ImportVariable \/ ImportBody \/ MarkExterns \/ ImportDecls \/ Tail0
         \/ Split \/ Emit \/ PasteDone
  PROVE  PasteInv'
<1> USE DEF Go
<1>1. CASE Open
  BY <1>1, Elsewhere DEF Open
<1>2. CASE Scan
  BY <1>2, Elsewhere DEF Scan
<1>3. CASE FindMain
  BY <1>3, Elsewhere DEF FindMain
<1>4. CASE Head0
  BY <1>4, Elsewhere DEF Head0
<1>5. CASE NextExtern
  BY <1>5, Elsewhere DEF NextExtern
<1>6. CASE Find
  BY <1>6, Elsewhere DEF Find
<1>7. CASE ImportVariable
  BY <1>7, Elsewhere DEF ImportVariable
<1>8. CASE ImportBody
  BY <1>8, Elsewhere DEF ImportBody
<1>9. CASE MarkExterns
  BY <1>9, Elsewhere, SMTT(30) DEF MarkExterns
<1>10. CASE ImportDecls
  BY <1>10, Elsewhere DEF ImportDecls
<1>11. CASE Tail0
  BY <1>11, Elsewhere DEF Tail0
<1>12. CASE Split
  BY <1>12, Elsewhere DEF Split
<1>13. CASE Emit
  BY <1>13, Elsewhere DEF Emit
<1>14. CASE PasteDone
  BY <1>14, Elsewhere DEF PasteDone
<1> QED
  BY <1>1, <1>2, <1>3, <1>4, <1>5, <1>6, <1>7, <1>8, <1>9, <1>10, <1>11, <1>12,
     <1>13, <1>14

(* The same of a sequence over a set.                                      *)
LEMMA Longer ==
  ASSUME NEW S, NEW q \in Seq(S), NEW e \in S
  PROVE  /\ \A i \in 1 .. Len(q) : Append(q, e)[i] = q[i]
         /\ Append(q, e)[Len(q) + 1] = e
  OBVIOUS

(* A source is opened: nothing of it has been read.                        *)
LEMMA Opened ==
  ASSUME PasteInv, NEW s \in DOMAIN Sources, OpenSource(s), pc = "paste",
         pc' \in {"paste", "crashed"}, out[k].k = "file", k' = k + 1,
         UNCHANGED out
  PROVE  PasteInv'
<1> DEFINE n == Len(paste.src)
<1>1. /\ paste.src \in Seq(DOMAIN Sources) /\ paste.pos \in Seq(Nat)
      /\ paste.last \in Seq(Nat) /\ Len(paste.pos) = n /\ Len(paste.last) = n
      /\ n \in Nat /\ DOMAIN paste.src = 1 .. n /\ IsSeq(paste.res) /\ k \in Nat
  BY DEF PasteInv, PasteTyped, Streams
<1>2. /\ paste'.src = Append(paste.src, s) /\ paste'.pos = Append(paste.pos, 0)
      /\ paste'.last = Append(paste.last, 0) /\ paste'.res = paste.res
      /\ paste' = [src |-> paste'.src, pos |-> paste'.pos, last |-> paste'.last,
                   res |-> paste'.res, id |-> paste'.id, i |-> paste'.i,
                   until |-> paste'.until]
  BY DEF OpenSource, PasteInv, PasteTyped
<1>3. /\ DOMAIN paste'.src = 1 .. n + 1
      /\ paste'.src \in Seq(DOMAIN Sources) /\ Len(paste'.src) = n + 1
      /\ paste'.pos \in Seq(Nat) /\ Len(paste'.pos) = n + 1
      /\ paste'.last \in Seq(Nat) /\ Len(paste'.last) = n + 1
  BY <1>1, <1>2
<1>4. /\ \A f \in 1 .. n : /\ paste'.src[f] = paste.src[f]
                           /\ paste'.pos[f] = paste.pos[f]
                           /\ paste'.last[f] = paste.last[f]
      /\ paste'.src[n + 1] = s /\ paste'.pos[n + 1] = 0 /\ paste'.last[n + 1] = 0
  <2>1. 0 \in Nat /\ paste.src \in Seq(DOMAIN Sources) /\ paste.pos \in Seq(Nat)
        /\ Len(paste.src) = n
    BY <1>1 DEF PasteInv, PasteTyped
  <2>2. (\A f \in 1 .. n : paste'.src[f] = paste.src[f]) /\ paste'.src[n + 1] = s
    BY <1>2, <2>1, Longer
  <2>3. (\A f \in 1 .. n : paste'.pos[f] = paste.pos[f]) /\ paste'.pos[n + 1] = 0
    BY <1>1, <1>2, <2>1, Longer
  <2>4. (\A f \in 1 .. n : paste'.last[f] = paste.last[f]) /\ paste'.last[n + 1] = 0
    BY <1>1, <1>2, <2>1, Longer
  <2> QED  BY <2>2, <2>3, <2>4
<1>5. \A f \in DOMAIN paste'.src : f \in 1 .. n \/ f = n + 1
  BY <1>1, <1>3
<1>6. Sources[s].len \in Nat /\ Sources[s].text \subseteq 1 .. Sources[s].len
  BY SourceConstants
<1>7. PasteTyped'
  BY <1>1, <1>2, <1>3 DEF PasteTyped
<1>8. Streams'
  <2>1. \A f \in 1 .. n : /\ paste.pos[f] <= Sources[paste.src[f]].len
                          /\ paste.last[f] = paste.pos[f]
    BY <1>1 DEF PasteInv, Streams
  <2>2. \A f \in DOMAIN paste'.src :
          /\ paste'.pos[f] <= Sources[paste'.src[f]].len
          /\ paste'.last[f] = paste'.pos[f]
    <3>1. \A f \in 1 .. n : /\ paste'.pos[f] <= Sources[paste'.src[f]].len
                            /\ paste'.last[f] = paste'.pos[f]
      BY <1>4, <2>1
    <3>2. /\ paste'.pos[n + 1] <= Sources[paste'.src[n + 1]].len
          /\ paste'.last[n + 1] = paste'.pos[n + 1]
      BY <1>4, <1>6
    <3> QED
      BY <1>5, <3>1, <3>2
  <2> QED
    BY <1>1, <2>2 DEF Streams
<1>9. Printed'
  <2>1. ASSUME NEW j \in DOMAIN paste.res, IsSrc(j)
        PROVE  /\ paste.res[j].id \in 1 .. n /\ paste.res[j].id \in 1 .. n + 1
               /\ paste.res[j].at = paste.res[j].text /\ paste.res[j].at \in Nat \ {0}
               /\ paste.res[j].at <= paste'.pos[paste.res[j].id]
    <3>1. /\ paste.res[j].id \in 1 .. n
          /\ paste.res[j].at = paste.res[j].text /\ paste.res[j].at \in Nat \ {0}
          /\ paste.res[j].at <= paste.pos[paste.res[j].id]
      BY <1>1, <2>1 DEF PasteInv, Printed
    <3>2. paste.res[j].id \in 1 .. n + 1
      BY <1>1, <3>1
    <3> QED
      BY <1>4, <3>1, <3>2
  <2>2. \A f \in 1 .. n : \A t \in Sources[paste'.src[f]].text :
          t <= paste'.pos[f] =>
            \E j \in DOMAIN paste.res :
              IsSrc(j) /\ paste.res[j].id = f /\ paste.res[j].at = t
    <3>1. \A f \in 1 .. n : \A t \in Sources[paste.src[f]].text :
            t <= paste.pos[f] =>
              \E j \in DOMAIN paste.res :
                IsSrc(j) /\ paste.res[j].id = f /\ paste.res[j].at = t
      BY <1>1 DEF PasteInv, Printed
    <3> QED
      BY <1>4, <3>1
  <2>3. \A t \in Sources[s].text : ~(t <= 0)
    BY <1>6
  <2>4. \A i, j \in DOMAIN paste.res :
          IsSrc(i) /\ IsSrc(j) /\ i < j /\ paste.res[i].id = paste.res[j].id
            => paste.res[i].at < paste.res[j].at
    BY DEF PasteInv, Printed
  <2>5. \A f \in DOMAIN paste'.src : \A t \in Sources[paste'.src[f]].text :
          t <= paste'.pos[f] =>
            \E j \in DOMAIN paste.res :
              IsSrc(j) /\ paste.res[j].id = f /\ paste.res[j].at = t
    <3> HIDE DEF IsSrc
    <3>1. \A t \in Sources[paste'.src[n + 1]].text : ~(t <= paste'.pos[n + 1])
      BY <1>4, <2>3
    <3> QED
      BY <1>5, <2>2, <3>1
  <2>6. \A j : IsSrc(j)' <=> IsSrc(j)
    BY <1>2 DEF IsSrc
  <2> HIDE DEF IsSrc
  <2>7. \A j \in DOMAIN paste'.res : IsSrc(j)' =>
          /\ paste'.res[j].id \in DOMAIN paste'.src
          /\ paste'.res[j].at = paste'.res[j].text /\ paste'.res[j].at \in Nat \ {0}
          /\ paste'.res[j].at <= paste'.pos[paste'.res[j].id]
    BY <1>2, <1>3, <2>1, <2>6
  <2>8. \A i, j \in DOMAIN paste'.res :
          IsSrc(i)' /\ IsSrc(j)' /\ i < j /\ paste'.res[i].id = paste'.res[j].id
            => paste'.res[i].at < paste'.res[j].at
    BY <1>2, <2>4, <2>6
  <2>9. \A f \in DOMAIN paste'.src : \A t \in Sources[paste'.src[f]].text :
          t <= paste'.pos[f] =>
            \E j \in DOMAIN paste'.res :
              IsSrc(j)' /\ paste'.res[j].id = f /\ paste'.res[j].at = t
    <3> SUFFICES ASSUME NEW f \in DOMAIN paste'.src,
                        NEW t \in Sources[paste'.src[f]].text, t <= paste'.pos[f]
                 PROVE  \E j \in DOMAIN paste'.res :
                          IsSrc(j)' /\ paste'.res[j].id = f /\ paste'.res[j].at = t
      OBVIOUS
    <3>1. PICK j \in DOMAIN paste.res :
            IsSrc(j) /\ paste.res[j].id = f /\ paste.res[j].at = t
      BY <2>5
    <3>2. j \in DOMAIN paste'.res /\ paste'.res[j] = paste.res[j] /\ IsSrc(j)'
      BY <1>2, <2>6, <3>1
    <3> QED
      BY <3>1, <3>2
  <2> QED
    BY <2>7, <2>8, <2>9 DEF Printed
<1>10. Reached'
  <2>1. (k + 1) - 1 = k
    BY <1>1
  <2> QED
    BY <2>1 DEF Reached
<1> QED
  BY <1>7, <1>8, <1>9, <1>10 DEF PasteInv

(* A line of assembly is copied, or a directive reported.                  *)
LEMMA Copied ==
  ASSUME PasteInv, pc = "paste", pc' = "paste", k' = k + 1, UNCHANGED out,
         \/ /\ UNCHANGED paste
            /\ \/ out[k].k = "file"
               \/ /\ out[k].k = "line"
                  /\ ~(out[k].id \in DOMAIN paste.src /\ out[k].at \in Int)
         \/ /\ out[k].k \notin {"file", "line"}
            /\ paste' = [paste EXCEPT !.res = Append(@, [k |-> "asm", line |-> out[k]])]
  PROVE  PasteInv'
<1> DEFINE e == [k |-> "asm", line |-> out[k]]
           n == Len(paste.res)
<1>1. k \in Nat /\ IsSeq(paste.res)
  BY DEF PasteInv, Streams, PasteTyped
<1>2. /\ paste'.src = paste.src /\ paste'.pos = paste.pos
      /\ paste'.last = paste.last
      /\ paste'.res = paste.res \/ paste'.res = Append(paste.res, e)
      /\ paste' = [src |-> paste'.src, pos |-> paste'.pos, last |-> paste'.last,
                   res |-> paste'.res, id |-> paste'.id, i |-> paste'.i,
                   until |-> paste'.until]
  BY DEF PasteInv, PasteTyped
<1>3. /\ n \in Nat /\ DOMAIN paste.res = 1 .. n /\ IsSeq(Append(paste.res, e))
      /\ DOMAIN Append(paste.res, e) = 1 .. n + 1
      /\ \A i \in 1 .. n : Append(paste.res, e)[i] = paste.res[i]
      /\ Append(paste.res, e)[n + 1] = e /\ e.k = "asm"
  BY <1>1, Appended
<1> HIDE DEF e, n
<1>4. PasteTyped'
  BY <1>1, <1>2, <1>3 DEF PasteInv, PasteTyped
<1>5. Streams'
  BY <1>1, <1>2 DEF PasteInv, Streams
<1>6. Reached'
  <2>1. (k + 1) - 1 = k
    BY <1>1
  <2> QED
    BY <1>2, <2>1 DEF Reached
<1>7. Printed'
  <2>1. CASE paste'.res = paste.res
    BY <1>2, <2>1 DEF PasteInv, Printed, IsSrc
  <2>2. CASE paste'.res = Append(paste.res, e)
    <3>1. \A j \in DOMAIN paste'.res :
            /\ IsSrc(j)' => j \in DOMAIN paste.res
            /\ j \in DOMAIN paste.res =>
                 paste'.res[j] = paste.res[j] /\ (IsSrc(j)' <=> IsSrc(j))
      BY <1>3, <2>2 DEF IsSrc
    <3>2. DOMAIN paste.res \subseteq DOMAIN paste'.res
      BY <1>3, <2>2
    <3> HIDE DEF IsSrc
    <3>3. \A j \in DOMAIN paste'.res : IsSrc(j)' =>
            /\ paste'.res[j].id \in DOMAIN paste'.src
            /\ paste'.res[j].at = paste'.res[j].text /\ paste'.res[j].at \in Nat \ {0}
            /\ paste'.res[j].at <= paste'.pos[paste'.res[j].id]
      BY <1>2, <3>1 DEF PasteInv, Printed
    <3>4. \A i, j \in DOMAIN paste'.res :
            IsSrc(i)' /\ IsSrc(j)' /\ i < j /\ paste'.res[i].id = paste'.res[j].id
              => paste'.res[i].at < paste'.res[j].at
      BY <3>1 DEF PasteInv, Printed
    <3>5. \A f \in DOMAIN paste'.src : \A t \in Sources[paste'.src[f]].text :
            t <= paste'.pos[f] =>
              \E j \in DOMAIN paste'.res :
                IsSrc(j)' /\ paste'.res[j].id = f /\ paste'.res[j].at = t
      BY <1>2, <3>1, <3>2 DEF PasteInv, Printed
    <3> QED
      BY <3>3, <3>4, <3>5 DEF Printed
  <2> QED
    BY <1>2, <2>1, <2>2
<1> QED
  BY <1>4, <1>5, <1>6, <1>7 DEF PasteInv

(* A directive names a line: OutputSource starts where it left off.        *)
LEMMA Asked ==
  ASSUME PasteInv, pc = "paste", pc' = "source", k' = k + 1, UNCHANGED out,
         out[k].id \in DOMAIN paste.src, out[k].at \in Int,
         OutputSource(out[k].id, out[k].at)
  PROVE  PasteInv'
<1>1. /\ UNCHANGED <<paste.src, paste.pos, paste.last, paste.res>>
      /\ paste'.id = out[k].id /\ paste'.until = out[k].at
      /\ paste'.i = paste.last[out[k].id]
      /\ paste' = [src |-> paste'.src, pos |-> paste'.pos, last |-> paste'.last,
                   res |-> paste'.res, id |-> paste'.id, i |-> paste'.i,
                   until |-> paste'.until]
  BY DEF OutputSource, PasteInv, PasteTyped
<1>2. k \in Nat /\ (k + 1) - 1 = k
  BY DEF PasteInv, Streams
<1>3. PasteTyped'
  BY <1>1 DEF PasteInv, PasteTyped
<1>4. Streams'
  <2>1. \A f \in DOMAIN paste.src :
          /\ paste.pos[f] <= Sources[paste.src[f]].len
          /\ paste.last[f] = paste.pos[f]
    BY DEF PasteInv, Streams
  <2> QED
    BY <1>1, <1>2, <2>1 DEF Streams
<1>5. Printed'
  BY <1>1 DEF PasteInv, Printed, IsSrc
<1>6. Reached'
  BY DEF Reached
<1> QED
  BY <1>3, <1>4, <1>5, <1>6 DEF PasteInv

(* OutputSource stops at the line asked for or at the end of the file, and *)
(* stores the number of the line it has come to.                           *)
LEMMA Stored == PasteInv /\ SourceDone => PasteInv'
<1> SUFFICES ASSUME PasteInv, SourceDone PROVE PasteInv'
  OBVIOUS
<1> DEFINE f == paste.id
<1>1. /\ pc = "source" /\ pc' = "paste" /\ k' = k /\ out' = out /\ ~SourceLeft
      /\ f \in DOMAIN paste.src /\ paste.until \in Int /\ k \in Nat
      /\ out[k - 1].id = f /\ out[k - 1].at = paste.until
      /\ paste.i = paste.pos[f] /\ paste.pos[f] <= Sources[paste.src[f]].len
  BY DEF SourceDone, PasteInv, Streams, Go
<1>2. /\ paste.src \in Seq(DOMAIN Sources) /\ paste.pos \in Seq(Nat)
      /\ paste.last \in Seq(Nat) /\ Len(paste.pos) = Len(paste.src)
      /\ Len(paste.last) = Len(paste.src)
  BY DEF PasteInv, PasteTyped
<1>3. /\ UNCHANGED <<paste.src, paste.pos, paste.res>>
      /\ paste'.last = [paste.last EXCEPT ![f] = paste.i]
      /\ paste' = [src |-> paste'.src, pos |-> paste'.pos, last |-> paste'.last,
                   res |-> paste'.res, id |-> paste'.id, i |-> paste'.i,
                   until |-> paste'.until]
  BY DEF SourceDone, PasteInv, PasteTyped
<1>4. paste.pos[f] \in Nat /\ Sources[paste.src[f]].len \in Nat
  BY <1>1, <1>2, SourceConstants, SMTT(30)
<1>5. PasteTyped'
  BY <1>1, <1>2, <1>3, <1>4 DEF PasteInv, PasteTyped
<1>6. Streams'
  <2>1. \A g \in DOMAIN paste.src :
          /\ paste.pos[g] <= Sources[paste.src[g]].len
          /\ g # f => paste.last[g] = paste.pos[g]
    BY DEF PasteInv, Streams
  <2>2. \A g \in DOMAIN paste.src : paste'.last[g] = paste.pos[g]
    BY <1>1, <1>2, <1>3, <2>1, SMTT(30)
  <2> QED
    BY <1>1, <1>3, <2>1, <2>2 DEF Streams
<1>7. Printed'
  BY <1>3 DEF PasteInv, Printed, IsSrc
<1>8. Reached'
  <2>1. paste.pos[f] >= paste.until \/ paste.pos[f] = Sources[paste.src[f]].len
    BY <1>1, <1>4 DEF SourceLeft
  <2> QED
    BY <1>1, <1>3, <2>1 DEF Reached
<1> QED
  BY <1>5, <1>6, <1>7, <1>8 DEF PasteInv

(* The next line of a file is printed, or skipped when it is blank.        *)
LEMMA LineRead == PasteInv /\ SourceLine => PasteInv'
<1> SUFFICES ASSUME PasteInv, SourceLine PROVE PasteInv'
  OBVIOUS
<1> DEFINE f == paste.id
           n == Len(paste.res)
           line == paste.pos[f] + 1
           e == [k |-> "src", id |-> f, at |-> paste.i + 1, text |-> line]
           text == Sources[paste.src[f]].text
<1>1. /\ pc = "source" /\ pc' = "source" /\ k' = k /\ out' = out
      /\ paste.pos[f] < Sources[paste.src[f]].len
      /\ f \in DOMAIN paste.src /\ paste.until \in Int /\ k \in Nat
      /\ out[k - 1].id = f /\ out[k - 1].at = paste.until
      /\ paste.i = paste.pos[f]
  BY DEF SourceLine, SourceLeft, PasteInv, Streams
<1>2. /\ paste.src \in Seq(DOMAIN Sources) /\ paste.pos \in Seq(Nat)
      /\ paste.last \in Seq(Nat) /\ Len(paste.pos) = Len(paste.src)
      /\ Len(paste.last) = Len(paste.src) /\ IsSeq(paste.res)
  BY DEF PasteInv, PasteTyped
<1>3. /\ paste'.src = paste.src /\ paste'.last = paste.last
      /\ paste'.id = paste.id /\ paste'.until = paste.until
      /\ paste'.i = paste.i + 1
      /\ paste'.pos = [paste.pos EXCEPT ![f] = line]
      /\ paste'.res = IF line \in text THEN Append(paste.res, e) ELSE paste.res
      /\ paste' = [src |-> paste'.src, pos |-> paste'.pos, last |-> paste'.last,
                   res |-> paste'.res, id |-> paste'.id, i |-> paste'.i,
                   until |-> paste'.until]
  BY DEF SourceLine, PasteInv, PasteTyped
<1>4. /\ paste.pos[f] \in Nat /\ Sources[paste.src[f]].len \in Nat
      /\ text \subseteq 1 .. Sources[paste.src[f]].len /\ line \in Nat
  <2>1. f \in DOMAIN paste.pos /\ paste.src[f] \in DOMAIN Sources
    BY <1>1, <1>2
  <2>2. paste.pos[f] \in Nat
    BY <1>2, <2>1
  <2>3. Sources[paste.src[f]].len \in Nat /\ text \subseteq 1 .. Sources[paste.src[f]].len
    BY <2>1, SourceConstants
  <2> QED
    BY <2>2, <2>3
<1>5. /\ n \in Nat /\ DOMAIN paste.res = 1 .. n /\ IsSeq(Append(paste.res, e))
      /\ DOMAIN Append(paste.res, e) = 1 .. n + 1
      /\ \A i \in 1 .. n : Append(paste.res, e)[i] = paste.res[i]
      /\ Append(paste.res, e)[n + 1] = e
      /\ e.k = "src" /\ e.id = f /\ e.at = line /\ e.text = line
  <2>1. e.k = "src" /\ e.id = f /\ e.at = line /\ e.text = line
    BY <1>1
  <2> HIDE DEF e
  <2> QED
    BY <1>2, <2>1, Appended
<1>6. /\ paste'.pos[f] = line
      /\ \A g \in DOMAIN paste.src : g # f => paste'.pos[g] = paste.pos[g]
      /\ \A g \in DOMAIN paste.src : paste.pos[g] \in Nat /\ paste'.pos[g] \in Nat
      /\ \A g \in DOMAIN paste.src : paste.pos[g] <= paste'.pos[g]
  <2>1. /\ f \in DOMAIN paste.pos /\ DOMAIN paste.pos = DOMAIN paste.src
        /\ \A g \in DOMAIN paste.src : paste.pos[g] \in Nat
    BY <1>1, <1>2, SMTT(30)
  <2> HIDE DEF line, f
  <2>2. /\ paste'.pos[f] = line
        /\ \A g \in DOMAIN paste.src : g # f => paste'.pos[g] = paste.pos[g]
    BY <1>3, <2>1
  <2>3. paste.pos[f] <= line
    BY <1>4 DEF line
  <2> QED
    BY <1>4, <2>1, <2>2, <2>3
<1>7. PasteTyped'
  <2> HIDE DEF line, e, f, n, text
  <2>1. paste'.pos \in Seq(Nat) /\ Len(paste'.pos) = Len(paste.pos)
    BY <1>1, <1>2, <1>3, <1>4
  <2>2. IsSeq(paste'.res)
    <3>1. paste'.res = paste.res \/ paste'.res = Append(paste.res, e)
      BY <1>3
    <3> QED
      BY <1>2, <1>5, <3>1
  <2> QED
    BY <1>2, <1>3, <2>1, <2>2 DEF PasteTyped
<1>8. Streams'
  <2>1. \A g \in DOMAIN paste.src :
          /\ paste.pos[g] <= Sources[paste.src[g]].len
          /\ g # f => paste.last[g] = paste.pos[g]
    BY DEF PasteInv, Streams
  <2>2. \A g \in DOMAIN paste.src :
          /\ paste'.pos[g] <= Sources[paste.src[g]].len
          /\ g # f => paste.last[g] = paste'.pos[g]
    BY <1>1, <1>4, <1>6, <2>1
  <2> QED
    BY <1>1, <1>3, <1>6, <2>2 DEF Streams
<1>9. Reached'
  BY <1>1 DEF Reached
<1>10. Printed'
  <2> HIDE DEF e, n, line, text, f
  <2>1. \A j \in DOMAIN paste'.res :
          \/ /\ j \in 1 .. n /\ paste'.res[j] = paste.res[j]
             /\ IsSrc(j)' <=> IsSrc(j)
          \/ j = n + 1 /\ paste'.res[j] = e /\ line \in text
    BY <1>3, <1>5 DEF IsSrc
  <2>2. /\ 1 .. n \subseteq DOMAIN paste'.res
        /\ line \in text => /\ n + 1 \in DOMAIN paste'.res
                            /\ paste'.res[n + 1] = e
    <3>1. n + 1 \in 1 .. n + 1 /\ 1 .. n \subseteq 1 .. n + 1
      BY <1>5
    <3> QED
      BY <1>3, <1>5, <3>1
  <2> HIDE DEF IsSrc
  <2>3. \A j \in 1 .. n : IsSrc(j) =>
          /\ paste.res[j].id \in DOMAIN paste.src
          /\ paste.res[j].at = paste.res[j].text /\ paste.res[j].at \in Nat \ {0}
          /\ paste.res[j].at <= paste.pos[paste.res[j].id]
    BY <1>5 DEF PasteInv, Printed
  <2>4. \A i, j \in 1 .. n :
          IsSrc(i) /\ IsSrc(j) /\ i < j /\ paste.res[i].id = paste.res[j].id
            => paste.res[i].at < paste.res[j].at
    BY <1>5 DEF PasteInv, Printed
  <2>5. \A g \in DOMAIN paste.src : \A t \in Sources[paste.src[g]].text :
          t <= paste.pos[g] =>
            \E j \in 1 .. n :
              IsSrc(j) /\ paste.res[j].id = g /\ paste.res[j].at = t
    BY <1>5 DEF PasteInv, Printed
  <2>6. ASSUME NEW j \in DOMAIN paste'.res, IsSrc(j)'
        PROVE  /\ paste'.res[j].id \in DOMAIN paste'.src
               /\ paste'.res[j].at = paste'.res[j].text
               /\ paste'.res[j].at \in Nat \ {0}
               /\ paste'.res[j].at <= paste'.pos[paste'.res[j].id]
    <3>1. CASE j \in 1 .. n /\ paste'.res[j] = paste.res[j] /\ (IsSrc(j)' <=> IsSrc(j))
      BY <1>3, <1>6, <2>3, <2>6, <3>1
    <3>2. CASE j = n + 1 /\ paste'.res[j] = e
      BY <1>1, <1>3, <1>4, <1>5, <1>6, <3>2 DEF f
    <3> QED
      BY <2>1, <3>1, <3>2
  <2>7. ASSUME NEW i \in DOMAIN paste'.res, NEW j \in DOMAIN paste'.res,
               IsSrc(i)', IsSrc(j)', i < j, paste'.res[i].id = paste'.res[j].id
        PROVE  paste'.res[i].at < paste'.res[j].at
    <3>1. i \in 1 .. n /\ paste'.res[i] = paste.res[i] /\ IsSrc(i)
      <4>1. j <= n + 1
        BY <1>5, <2>1
      <4>2. i # n + 1
        BY <1>5, <2>1, <2>7, <4>1
      <4> QED
        BY <2>1, <2>7, <4>2
    <3>2. CASE j \in 1 .. n /\ paste'.res[j] = paste.res[j] /\ (IsSrc(j)' <=> IsSrc(j))
      BY <2>4, <2>7, <3>1, <3>2
    <3>3. CASE j = n + 1 /\ paste'.res[j] = e
      <4>1. paste.res[i].id = f /\ paste'.res[j].at = line
        BY <1>5, <2>7, <3>1, <3>3
      <4>2. paste.res[i].at \in Nat /\ paste.res[i].at <= paste.pos[f]
        BY <2>3, <3>1, <4>1
      <4> QED
        BY <1>4, <3>1, <4>1, <4>2 DEF line
    <3> QED
      BY <2>1, <3>2, <3>3
  <2>8. ASSUME NEW g \in DOMAIN paste'.src, NEW t \in Sources[paste'.src[g]].text,
               t <= paste'.pos[g]
        PROVE  \E j \in DOMAIN paste'.res :
                 IsSrc(j)' /\ paste'.res[j].id = g /\ paste'.res[j].at = t
    <3>1. CASE t <= paste.pos[g]
      <4>1. PICK j \in 1 .. n :
              IsSrc(j) /\ paste.res[j].id = g /\ paste.res[j].at = t
        BY <1>3, <2>5, <2>8, <3>1
      <4>2. j \in DOMAIN paste'.res /\ paste'.res[j] = paste.res[j] /\ IsSrc(j)'
        BY <1>5, <2>1, <2>2, <4>1
      <4> QED
        BY <4>1, <4>2
    <3>2. CASE ~(t <= paste.pos[g])
      <4>1. g = f
        BY <1>3, <1>6, <2>8, <3>2
      <4>2. t \in text
        BY <1>3, <2>8, <4>1 DEF text, f
      <4>3. t = line
        BY <1>4, <1>6, <2>8, <3>2, <4>1, <4>2 DEF line
      <4>4. PICK j \in DOMAIN paste'.res : paste'.res[j] = e
        BY <2>2, <4>2, <4>3
      <4>5. IsSrc(j)'
        BY <1>5, <4>4 DEF IsSrc
      <4> QED
        BY <1>5, <4>1, <4>3, <4>4, <4>5
    <3> QED
      BY <3>1, <3>2
  <2> QED
    BY <2>6, <2>7, <2>8 DEF Printed
<1> QED
  BY <1>7, <1>8, <1>9, <1>10 DEF PasteInv

(* Every step of the paster.                                               *)
LEMMA PasteSteps == PasteInv /\ Paste => PasteInv'
<1> SUFFICES ASSUME PasteInv, Paste PROVE PasteInv'
  OBVIOUS
<1> DEFINE l == out[k]
<1>1. pc = "paste" /\ k' = k + 1 /\ UNCHANGED out
  BY DEF Paste
<1>2. CASE /\ l.k = "file" /\ l.src \in DOMAIN Sources /\ OpenSource(l.src)
           /\ pc' \in {"paste", "crashed"}
  BY <1>1, <1>2, Opened
<1>3. CASE /\ l.k = "line" /\ l.id \in DOMAIN paste.src /\ l.at \in Int
           /\ OutputSource(l.id, l.at) /\ pc' = "source"
  BY <1>1, <1>3, Asked
<1>4. CASE /\ pc' = "paste"
           /\ \/ /\ UNCHANGED paste
                 /\ \/ l.k = "file"
                    \/ /\ l.k = "line"
                       /\ ~(l.id \in DOMAIN paste.src /\ l.at \in Int)
              \/ /\ l.k \notin {"file", "line"}
                 /\ paste' = [paste EXCEPT !.res = Append(@, [k |-> "asm", line |-> l])]
  BY <1>1, <1>4, Copied
<1> QED
  BY <1>1, <1>2, <1>3, <1>4 DEF Paste, Go

(* The paster's invariant holds throughout.                                *)
THEOREM PasteInductive == Spec => []PasteInv
<1>1. Init => PasteInv
  <2> SUFFICES ASSUME Init PROVE PasteInv
    OBVIOUS
  <2>1. /\ pc = "open"
        /\ paste = [src |-> <<>>, pos |-> <<>>, last |-> <<>>, res |-> <<>>,
                    id |-> 0, i |-> 0, until |-> 0]
    BY DEF Init
  <2>2. PasteTyped /\ Streams
    BY <2>1 DEF PasteTyped, Streams, IsSeq
  <2>3. Printed /\ Reached
    BY <2>1 DEF Printed, Reached
  <2> QED
    BY <2>2, <2>3 DEF PasteInv
<1>2. PasteInv /\ [Next]_vars => PasteInv'
  <2> SUFFICES ASSUME PasteInv, [Next]_vars PROVE PasteInv'
    OBVIOUS
  <2>1. CASE UNCHANGED vars
    BY <2>1 DEF vars, PasteInv, PasteTyped, Streams, Printed, Reached, IsSeq,
       IsSrc
  <2> QED
    BY <2>1, LinkSteps, PasteSteps, LineRead, Stored DEF Next
<1> QED
  BY <1>1, <1>2, PTL DEF Spec

(* A piece has the number of its line exactly when each before it ends a   *)
(* line.                                                                   *)
LEMMA Numbered ==
  ASSUME NEW s \in DOMAIN Sources, NEW t \in Nat \ {0}
  PROVE  t = CLine(s, t) <=> ~LongBefore(s, t)
<1> DEFINE all == 1 .. (t - 1)
           ended == {q \in all : q \in Sources[s].ends}
<1>1. IsFiniteSet(all) /\ Cardinality(all) = t - 1
  BY FS_Interval
<1>2. /\ IsFiniteSet(ended) /\ Cardinality(ended) <= t - 1
      /\ Cardinality(ended) = t - 1 => ended = all
  <2>1. ended \subseteq all
    OBVIOUS
  <2> QED
    BY <1>1, <2>1, FS_Subset
<1>3. Cardinality(ended) \in Nat
  BY <1>2, FS_CardinalityType
<1>4. t = CLine(s, t) <=> Cardinality(ended) = t - 1
  BY <1>3 DEF CLine
<1>5. Cardinality(ended) = t - 1 <=> ended = all
  BY <1>1, <1>2
<1>6. ended = all <=> ~LongBefore(s, t)
  BY DEF LongBefore
<1> QED
  BY <1>4, <1>5, <1>6

(* Each piece of a C file is pasted at most once and in order, under the   *)
(* number of its line unless a line before it did not fit the buffer, and  *)
(* with that exception a line that a directive asked for is there before   *)
(* the code that follows, for every list of directives and every length of *)
(* the lines (OutputSource and main of SourcePaste.c).                     *)
THEOREM AlwaysPastedInOrder == Spec => []PastedInOrder
<1>1. PasteInv => PastedInOrder
  <2> SUFFICES ASSUME PasteInv PROVE PastedInOrder
    OBVIOUS
  <2>1. ASSUME pc = "paste", k > 1, out[k - 1].k = "line",
               out[k - 1].id \in DOMAIN paste.src, out[k - 1].at \in Int,
               NEW t \in Sources[paste.src[out[k - 1].id]].text,
               CLine(paste.src[out[k - 1].id], t) <= out[k - 1].at,
               ~LongBefore(paste.src[out[k - 1].id], t)
        PROVE  \E i \in DOMAIN paste.res : /\ paste.res[i].k = "src"
                                           /\ paste.res[i].id = out[k - 1].id
                                           /\ paste.res[i].text = t
    <3> DEFINE f == out[k - 1].id
    <3>1. /\ paste.pos[f] \in Nat /\ paste.src[f] \in DOMAIN Sources
      BY <2>1 DEF PasteInv, PasteTyped
    <3>2. /\ t \in Nat \ {0} /\ t <= Sources[paste.src[f]].len
          /\ Sources[paste.src[f]].len \in Nat
      BY <2>1, <3>1, SourceConstants
    <3>3. paste.pos[f] >= out[k - 1].at \/ paste.pos[f] = Sources[paste.src[f]].len
      BY <2>1 DEF PasteInv, Reached
    <3>4. t <= out[k - 1].at
      BY <2>1, <3>1, <3>2, Numbered
    <3>5. t <= paste.pos[f]
      BY <2>1, <3>1, <3>2, <3>3, <3>4
    <3> QED
      BY <2>1, <3>5 DEF PasteInv, Printed, IsSrc
  <2>2. \A i, j \in DOMAIN paste.res :
          /\ paste.res[i].k = "src" /\ paste.res[j].k = "src" /\ i < j
          /\ paste.res[i].id = paste.res[j].id
          => paste.res[i].at < paste.res[j].at
    BY DEF PasteInv, Printed, IsSrc
  <2>3. ASSUME NEW i \in DOMAIN paste.res, paste.res[i].k = "src"
        PROVE  paste.res[i].at = CLine(paste.src[paste.res[i].id], paste.res[i].text)
                 <=> ~LongBefore(paste.src[paste.res[i].id], paste.res[i].text)
    <3>1. /\ paste.res[i].id \in DOMAIN paste.src
          /\ paste.res[i].at = paste.res[i].text /\ paste.res[i].at \in Nat \ {0}
      BY <2>3 DEF PasteInv, Printed, IsSrc
    <3>2. paste.src[paste.res[i].id] \in DOMAIN Sources
      BY <3>1 DEF PasteInv, PasteTyped
    <3> QED
      BY <3>1, <3>2, Numbered
  <2> QED
    BY <2>1, <2>2, <2>3 DEF PastedInOrder
<1> QED
  BY <1>1, PasteInductive, PTL

----------------------------------------------------------------------------
(* The code in place of a .LC3GLOBAL.  Instructions take the register from *)
(* r to a, through values v; what Execute folds is here written out.       *)
Ops == [op : {"ADD", "LDR", "CONST", "ADDR"}, d : Int, b : Int, imm : Int]

Leads(s, r, a) ==
  \E v \in [0 .. Len(s) -> Int] :
    /\ v[0] = r /\ v[Len(s)] = a
    /\ \A i \in 1 .. Len(s) : v[i] = AfterOp(v[i - 1], s[i])

\* ADDs whose immediates fit take the register to x; none are needed for 0.
Adds(s, r, x) ==
  /\ s \in Seq(Ops)
  /\ IF x = 0 THEN s = << >> ELSE s # << >> /\ Leads(s, r, x)
  /\ \A i \in DOMAIN s : s[i].op = "ADD" /\ FitsFields(s[i])

\* What the code in place of a .LC3GLOBAL has to be.
Computes(s, r, off, ldr) ==
  /\ s \in Seq(Ops) /\ Leads(s, r, off)
  /\ \A i \in DOMAIN s : FitsFields(s[i])
  /\ ldr <=> s # << >> /\ s[Len(s)].op = "LDR"

(* An instruction added at the end.                                        *)
LEMMA AtEnd ==
  ASSUME NEW s \in Seq(Ops), NEW e \in Ops
  PROVE  /\ s \o <<e>> \in Seq(Ops) /\ Len(s \o <<e>>) = Len(s) + 1
         /\ (s \o <<e>>)[Len(s) + 1] = e /\ s \o <<e>> # << >>
         /\ \A i \in DOMAIN s : (s \o <<e>>)[i] = s[i]
  OBVIOUS

(* One more instruction.                                                   *)
LEMMA OneMore ==
  ASSUME NEW s \in Seq(Ops), NEW r \in Int, NEW a \in Int, Leads(s, r, a),
         NEW e \in Ops, NEW c \in Int, AfterOp(a, e) = c
  PROVE  Leads(s \o <<e>>, r, c)
<1> DEFINE n == Len(s)
           t == s \o <<e>>
<1>1. PICK v \in [0 .. n -> Int] :
        /\ v[0] = r /\ v[n] = a
        /\ \A i \in 1 .. n : v[i] = AfterOp(v[i - 1], s[i])
  BY DEF Leads
<1>2. /\ n \in Nat /\ Len(t) = n + 1
      /\ \A i \in 1 .. n : t[i] = s[i]
  OBVIOUS
<1>3. t[n + 1] = e
  OBVIOUS
<1> HIDE DEF n, t
<1> DEFINE w == [i \in 0 .. n + 1 |-> IF i = n + 1 THEN c ELSE v[i]]
<1>4. w \in [0 .. n + 1 -> Int] /\ w[0] = r /\ w[n + 1] = c
  BY <1>1, <1>2
<1>5. ASSUME NEW i \in 1 .. n + 1 PROVE w[i] = AfterOp(w[i - 1], t[i])
  <2>1. CASE i = n + 1
    <3>1. w[i - 1] = a /\ w[i] = c /\ t[i] = e
      BY <1>1, <1>2, <1>3, <2>1
    <3> QED
      BY <3>1
  <2>2. CASE i \in 1 .. n
    <3>1. w[i - 1] = v[i - 1] /\ w[i] = v[i] /\ t[i] = s[i]
      BY <1>1, <1>2, <2>2
    <3> HIDE DEF w
    <3> QED
      BY <1>1, <2>2, <3>1
  <2> QED
    BY <1>2, <1>5, <2>1, <2>2
<1> HIDE DEF w
<1>6. Leads(t, r, c)
  BY <1>2, <1>4, <1>5 DEF Leads
<1> QED
  BY <1>6 DEF t

(* At most three ADDs reach an offset up to 45.                            *)
LEMMA ChainUp ==
  ASSUME NEW d \in 0 .. 7, d # 4, NEW x \in 0 .. 45, NEW r \in Int
  PROVE  Adds(Chain(d, x, 15), r, x)
<1> DEFINE c == x \div 15
           n == IF c * 15 = x THEN c ELSE c + 1
           imm(i) == IF i <= c THEN 15 ELSE x - c * 15
           s == [i \in 1 .. n |-> Op("ADD", d, IF i = 1 THEN 4 ELSE d, imm(i))]
           v == [i \in 0 .. n |-> IF i = 0 THEN r ELSE IF i <= c THEN 15 * i ELSE x]
<1>1. c \in 0 .. 3 /\ c * 15 <= x /\ x < c * 15 + 15
  OBVIOUS
<1>2. Chain(d, x, 15) = s
  BY DEF Chain
<1> HIDE DEF c
<1>3. n \in Nat /\ (n = 0 <=> x = 0) /\ (x = c * 15 \/ n = c + 1) /\ n >= c
  BY <1>1
<1>4. \A i \in 1 .. n : imm(i) \in -16 .. 15
  BY <1>1
<1> HIDE DEF n, imm
<1>5. \A i \in 1 .. n : Op("ADD", d, IF i = 1 THEN 4 ELSE d, imm(i)) \in Ops
  BY <1>4 DEF Op, Ops
<1>6. s \in Seq(Ops) /\ Len(s) = n /\ DOMAIN s = 1 .. n
  BY <1>3, <1>5
<1>7. \A i \in 1 .. n : /\ s[i].op = "ADD" /\ s[i].imm = imm(i)
                        /\ s[i].b = IF i = 1 THEN 4 ELSE d
  BY DEF Op
<1>8. v \in [0 .. n -> Int]
  BY <1>1
<1>9. x # 0 => v[0] = r /\ v[n] = x
  BY <1>1, <1>3 DEF n
<1>10. ASSUME NEW i \in 1 .. n PROVE v[i] = (IF i = 1 THEN 0 ELSE v[i - 1]) + imm(i)
  BY <1>1, <1>3 DEF n, imm
<1> HIDE DEF s, v
<1>11. \A i \in 1 .. n : v[i] = AfterOp(v[i - 1], s[i])
  BY <1>7, <1>10 DEF AfterOp
<1>12. x # 0 => Leads(s, r, x)
  BY <1>6, <1>8, <1>9, <1>11 DEF Leads
<1>13. (x = 0 => s = << >>) /\ (x # 0 => s # << >>)
  BY <1>3, <1>6
<1>14. \A i \in DOMAIN s : s[i].op = "ADD" /\ FitsFields(s[i])
  <2> SUFFICES ASSUME NEW i \in 1 .. n PROVE s[i].op = "ADD" /\ FitsFields(s[i])
    BY <1>6
  <2>1. s[i].op = "ADD" /\ s[i].imm \in -16 .. 15
    BY <1>4, <1>7
  <2> QED
    BY <2>1 DEF FitsFields
<1> QED
  BY <1>2, <1>6, <1>12, <1>13, <1>14 DEF Adds

(* The same downwards, to -48.                                            *)
LEMMA ChainDown ==
  ASSUME NEW d \in 0 .. 7, d # 4, NEW x \in -48 .. 0, NEW r \in Int
  PROVE  Adds(Chain(d, x, -16), r, x)
<1> DEFINE c == (-x) \div 16
           n == IF c * (-16) = x THEN c ELSE c + 1
           imm(i) == IF i <= c THEN -16 ELSE x - c * (-16)
           s == [i \in 1 .. n |-> Op("ADD", d, IF i = 1 THEN 4 ELSE d, imm(i))]
           v == [i \in 0 .. n |-> IF i = 0 THEN r ELSE IF i <= c THEN (-16) * i ELSE x]
<1>1. c \in 0 .. 3 /\ c * (-16) >= x /\ x > c * (-16) - 16
  OBVIOUS
<1>2. Chain(d, x, -16) = s
  BY DEF Chain
<1> HIDE DEF c
<1>3. n \in Nat /\ (n = 0 <=> x = 0) /\ (x = c * (-16) \/ n = c + 1) /\ n >= c
  BY <1>1
<1>4. \A i \in 1 .. n : imm(i) \in -16 .. 15
  BY <1>1
<1> HIDE DEF n, imm
<1>5. \A i \in 1 .. n : Op("ADD", d, IF i = 1 THEN 4 ELSE d, imm(i)) \in Ops
  BY <1>4 DEF Op, Ops
<1>6. s \in Seq(Ops) /\ Len(s) = n /\ DOMAIN s = 1 .. n
  BY <1>3, <1>5
<1>7. \A i \in 1 .. n : /\ s[i].op = "ADD" /\ s[i].imm = imm(i)
                        /\ s[i].b = IF i = 1 THEN 4 ELSE d
  BY DEF Op
<1>8. v \in [0 .. n -> Int]
  BY <1>1
<1>9. x # 0 => v[0] = r /\ v[n] = x
  BY <1>1, <1>3 DEF n
<1>10. ASSUME NEW i \in 1 .. n PROVE v[i] = (IF i = 1 THEN 0 ELSE v[i - 1]) + imm(i)
  BY <1>1, <1>3 DEF n, imm
<1> HIDE DEF s, v
<1>11. \A i \in 1 .. n : v[i] = AfterOp(v[i - 1], s[i])
  BY <1>7, <1>10 DEF AfterOp
<1>12. x # 0 => Leads(s, r, x)
  BY <1>6, <1>8, <1>9, <1>11 DEF Leads
<1>13. (x = 0 => s = << >>) /\ (x # 0 => s # << >>)
  BY <1>3, <1>6
<1>14. \A i \in DOMAIN s : s[i].op = "ADD" /\ FitsFields(s[i])
  <2> SUFFICES ASSUME NEW i \in 1 .. n PROVE s[i].op = "ADD" /\ FitsFields(s[i])
    BY <1>6
  <2>1. s[i].op = "ADD" /\ s[i].imm \in -16 .. 15
    BY <1>4, <1>7
  <2> QED
    BY <2>1 DEF FitsFields
<1> QED
  BY <1>2, <1>6, <1>12, <1>13, <1>14 DEF Adds

(* The offset within LDR is added to what the ADDs give.                   *)
LEMMA WithLoad ==
  ASSUME NEW d \in 0 .. 7, d # 4, NEW x \in Int, NEW r \in Int, NEW s, Adds(s, r, x),
         NEW imm \in -32 .. 31
  PROVE  Computes(s \o <<Op("LDR", d, IF s = << >> THEN 4 ELSE d, imm)>>, r, x + imm, TRUE)
<1> DEFINE e == Op("LDR", d, IF s = << >> THEN 4 ELSE d, imm)
           t == s \o <<e>>
<1>1. /\ e \in Ops /\ e.op = "LDR" /\ e.imm = imm /\ FitsFields(e)
      /\ e.b = IF s = << >> THEN 4 ELSE d
  BY DEF Op, Ops, FitsFields
<1> HIDE DEF e
<1>2. s \in Seq(Ops) /\ \A i \in DOMAIN s : FitsFields(s[i])
  BY DEF Adds
<1>3. /\ t \in Seq(Ops) /\ Len(t) = Len(s) + 1 /\ t[Len(s) + 1] = e /\ t # << >>
      /\ \A i \in DOMAIN s : t[i] = s[i]
  BY <1>1, <1>2, AtEnd
<1>4. \A i \in DOMAIN t : FitsFields(t[i])
  <2>1. \A i \in DOMAIN t : i \in DOMAIN s \/ i = Len(s) + 1
    BY <1>2, <1>3
  <2> HIDE DEF t
  <2> QED
    BY <1>1, <1>2, <1>3, <2>1
<1>5. Leads(t, r, x + imm)
  <2>1. CASE x = 0
    <3>1. s = << >> /\ e.b = 4
      BY <1>1, <2>1 DEF Adds
    <3>2. Leads(s, r, r)
      <4> DEFINE v == [i \in 0 .. 0 |-> r]
      <4>1. v \in [0 .. 0 -> Int] /\ v[0] = r
        OBVIOUS
      <4> HIDE DEF v
      <4> QED
        BY <3>1, <4>1 DEF Leads
    <3>3. AfterOp(r, e) = x + imm
      BY <1>1, <2>1, <3>1 DEF AfterOp
    <3> HIDE DEF t
    <3> QED
      BY <1>1, <1>2, <3>2, <3>3, OneMore DEF t
  <2>2. CASE x # 0
    <3>1. Leads(s, r, x) /\ e.b # 4
      BY <1>1, <2>2 DEF Adds
    <3>2. AfterOp(x, e) = x + imm
      BY <1>1, <3>1 DEF AfterOp
    <3> HIDE DEF t
    <3> QED
      BY <1>1, <1>2, <3>1, <3>2, OneMore DEF t
  <2> QED
    BY <2>1, <2>2
<1> HIDE DEF t
<1>6. Computes(t, r, x + imm, TRUE)
  BY <1>1, <1>3, <1>4, <1>5 DEF Computes
<1> QED
  BY <1>6 DEF t, e

(* Without LDR the ADDs are all.                                           *)
LEMMA WithoutLoad ==
  ASSUME NEW x \in Int, x # 0, NEW r \in Int, NEW s, Adds(s, r, x)
  PROVE  Computes(s, r, x, FALSE)
<1>1. s \in Seq(Ops) /\ s # << >> /\ \A i \in DOMAIN s : s[i].op = "ADD"
  BY DEF Adds
<1>2. s[Len(s)].op # "LDR"
  BY <1>1
<1> QED
  BY <1>1, <1>2 DEF Adds, Computes

(* An offset out of the reach of ADDs comes from a constant in the code.   *)
LEMMA FarCode ==
  ASSUME NEW d \in 0 .. 7, d # 4, NEW off \in Int, NEW r \in Int
  PROVE  /\ Computes(<<Op("CONST", d, d, off), Op("ADDR", d, 4, 0)>>, r, off, FALSE)
         /\ Computes(<<Op("CONST", d, d, off), Op("ADDR", d, 4, 0)>>
                       \o <<Op("LDR", d, d, 0)>>, r, off, TRUE)
<1> DEFINE a == Op("CONST", d, d, off)
           b == Op("ADDR", d, 4, 0)
           c == Op("LDR", d, d, 0)
<1>1. /\ a \in Ops /\ b \in Ops /\ c \in Ops
      /\ FitsFields(a) /\ FitsFields(b) /\ FitsFields(c)
      /\ a.op = "CONST" /\ b.op = "ADDR" /\ c.op = "LDR"
  BY DEF Op, Ops, FitsFields
<1>2. /\ AfterOp(r, a) = off /\ AfterOp(off, b) = off /\ AfterOp(off, c) = off
  BY DEF Op, AfterOp
<1> HIDE DEF a, b, c
<1>3. Leads(<<a, b>>, r, off)
  <2> DEFINE v == [i \in 0 .. 2 |-> IF i = 0 THEN r ELSE off]
  <2>1. v \in [0 .. 2 -> Int] /\ v[0] = r /\ v[1] = off /\ v[2] = off
    OBVIOUS
  <2> HIDE DEF v
  <2>2. \A i \in 1 .. 2 : v[i] = AfterOp(v[i - 1], <<a, b>>[i])
    <3>1. \A i \in 1 .. 2 : i = 1 \/ i = 2
      OBVIOUS
    <3>2. v[1] = AfterOp(v[1 - 1], <<a, b>>[1]) /\ v[2] = AfterOp(v[2 - 1], <<a, b>>[2])
      BY <1>2, <2>1
    <3> QED
      BY <3>1, <3>2
  <2>3. Len(<<a, b>>) = 2
    OBVIOUS
  <2> QED
    BY <2>1, <2>2, <2>3 DEF Leads
<1> DEFINE s == <<a, b>>
           t == s \o <<c>>
<1>4. /\ s \in Seq(Ops) /\ Len(s) = 2 /\ s[1] = a /\ s[2] = b
  BY <1>1
<1>5. Leads(s, r, off)
  BY <1>3
<1> HIDE DEF s
<1>6. Leads(t, r, off)
  BY <1>1, <1>2, <1>4, <1>5, OneMore
<1>7. /\ t \in Seq(Ops) /\ Len(t) = 3 /\ t[1] = a /\ t[2] = b /\ t[3] = c
  <2>1. /\ t \in Seq(Ops) /\ Len(t) = Len(s) + 1 /\ t[Len(s) + 1] = c
        /\ \A i \in DOMAIN s : t[i] = s[i]
    BY <1>1, <1>4, AtEnd
  <2>2. 1 \in DOMAIN s /\ 2 \in DOMAIN s
    BY <1>4
  <2> HIDE DEF t
  <2> QED
    BY <1>4, <2>1, <2>2
<1>8. \A i \in 1 .. 3 : i = 1 \/ i = 2 \/ i = 3
  OBVIOUS
<1> HIDE DEF t
<1>9. Computes(s, r, off, FALSE)
  <2>1. \A i \in DOMAIN s : i = 1 \/ i = 2
    BY <1>4
  <2> QED
    BY <1>1, <1>4, <1>5, <2>1 DEF Computes
<1>10. Computes(t, r, off, TRUE)
  <2>1. (\A i \in DOMAIN t : i = 1 \/ i = 2 \/ i = 3) /\ t # << >>
    BY <1>7, <1>8
  <2> QED
    BY <1>1, <1>6, <1>7, <2>1 DEF Computes
<1> QED
  BY <1>9, <1>10 DEF a, b, c, s, t

(* The instructions in place of a .LC3GLOBAL (calculate_address of         *)
(* lc3pp.c) leave R4 + off in the register, or load from there, whatever   *)
(* the register held before and for every offset, and every immediate      *)
(* fits its field.                                                         *)
THEOREM AddressComputed ==
  ASSUME NEW d \in 0 .. 7, d # 4, NEW off \in Int, NEW ldr \in BOOLEAN, NEW r \in Int
  PROVE  Computes(calculate_address(d, off, ldr), r, off, ldr)
<1> DEFINE in == IF ~ldr THEN 0
                 ELSE IF off > 0 THEN Least(off, 31) ELSE Greatest(off, -32)
           rest == off - in
           far == rest > 45 \/ rest < -48
           adds == CASE off = 0 -> IF ldr THEN << >> ELSE <<Op("ADD", d, 4, 0)>>
                     [] off > 0 /\ rest <= 45 -> Chain(d, rest, 15)
                     [] off < 0 /\ rest >= -48 -> Chain(d, rest, -16)
                     [] OTHER -> <<Op("CONST", d, d, off), Op("ADDR", d, 4, 0)>>
           base == IF adds = << >> THEN 4 ELSE d
           load == Op("LDR", d, base, IF far THEN 0 ELSE in)
<1>1. calculate_address(d, off, ldr) = adds \o (IF ldr THEN <<load>> ELSE << >>)
  BY DEF calculate_address
<1>2. /\ in \in -32 .. 31 /\ rest \in Int /\ rest + in = off
      /\ off > 0 => rest >= 0
      /\ off < 0 => rest <= 0
      /\ ~ldr => rest = off
      /\ off = 0 => in = 0 /\ rest = 0
  BY DEF Least, Greatest
<1> HIDE DEF in, rest, adds
<1>3. ASSUME Adds(adds, r, rest), ldr \/ rest # 0, ~far
      PROVE  Computes(adds \o (IF ldr THEN <<load>> ELSE << >>), r, off, ldr)
  <2>1. CASE ldr
    <3>1. load = Op("LDR", d, IF adds = << >> THEN 4 ELSE d, in)
      BY <1>3
    <3> HIDE DEF load
    <3>2. Computes(adds \o <<load>>, r, rest + in, TRUE)
      BY <1>2, <1>3, <3>1, WithLoad
    <3> QED
      BY <1>2, <2>1, <3>2
  <2>2. CASE ~ldr
    <3>1. Computes(adds, r, off, FALSE)
      BY <1>2, <1>3, <2>2, WithoutLoad
    <3>2. adds \o << >> = adds
      BY <1>3 DEF Adds
    <3> QED
      BY <2>2, <3>1, <3>2
  <2> QED
    BY <2>1, <2>2
<1>4. CASE off = 0 /\ ldr
  <2>1. adds = << >> /\ rest = 0 /\ ~far
    BY <1>2, <1>4 DEF adds
  <2>2. Adds(adds, r, rest)
    BY <2>1 DEF Adds
  <2> QED
    BY <1>1, <1>3, <1>4, <2>1, <2>2
<1>5. CASE off = 0 /\ ~ldr
  <2> DEFINE e == Op("ADD", d, 4, 0)
             v == [i \in 0 .. 1 |-> IF i = 0 THEN r ELSE 0]
  <2>1. adds = <<e>>
    BY <1>5 DEF adds
  <2>2. e \in Ops /\ e.op = "ADD" /\ e.imm = 0 /\ e.b = 4
    BY DEF Op, Ops
  <2>3. AfterOp(r, e) = 0 /\ FitsFields(e)
    BY <2>2 DEF AfterOp, FitsFields
  <2> HIDE DEF e
  <2>4. /\ adds \in Seq(Ops) /\ Len(adds) = 1 /\ adds[1] = e /\ DOMAIN adds = 1 .. 1
        /\ adds \o << >> = adds
    BY <2>1, <2>2
  <2>5. v \in [0 .. 1 -> Int] /\ v[0] = r /\ v[1] = 0
    OBVIOUS
  <2> HIDE DEF v
  <2>6. Leads(adds, r, 0)
    <3>1. \A i \in 1 .. 1 : i = 1 /\ i - 1 = 0
      OBVIOUS
    <3>2. \A i \in 1 .. 1 : v[i] = AfterOp(v[i - 1], adds[i])
      BY <2>3, <2>4, <2>5, <3>1
    <3> QED
      BY <2>4, <2>5, <3>2 DEF Leads
  <2>7. \A i \in DOMAIN adds : i = 1
    BY <2>4
  <2>8. Computes(adds, r, 0, FALSE)
    BY <2>2, <2>3, <2>4, <2>6, <2>7 DEF Computes
  <2> QED
    BY <1>1, <1>5, <2>4, <2>8
<1>6. CASE off > 0 /\ rest <= 45
  <2>1. rest \in 0 .. 45 /\ ~far
    BY <1>2, <1>6
  <2>2. ldr \/ rest # 0
    BY <1>2, <1>6
  <2>3. adds = Chain(d, rest, 15)
    BY <1>6 DEF adds
  <2>4. Adds(adds, r, rest)
    BY <2>1, <2>3, ChainUp
  <2> QED
    BY <1>1, <1>3, <2>1, <2>2, <2>4
<1>7. CASE off < 0 /\ rest >= -48
  <2>1. rest \in -48 .. 0 /\ ~far
    BY <1>2, <1>7
  <2>2. ldr \/ rest # 0
    BY <1>2, <1>7
  <2>3. adds = Chain(d, rest, -16)
    BY <1>7 DEF adds
  <2>4. Adds(adds, r, rest)
    BY <2>1, <2>3, ChainDown
  <2> QED
    BY <1>1, <1>3, <2>1, <2>2, <2>4
<1>8. CASE (off > 0 /\ rest > 45) \/ (off < 0 /\ rest < -48)
  <2>1. adds = <<Op("CONST", d, d, off), Op("ADDR", d, 4, 0)>> /\ far
    BY <1>2, <1>8 DEF adds
  <2>2. Computes(adds, r, off, FALSE) /\ Computes(adds \o <<Op("LDR", d, d, 0)>>, r, off, TRUE)
    BY <2>1, FarCode
  <2>3. adds # << >>
    BY <2>1
  <2>4. load = Op("LDR", d, d, 0)
    BY <2>1, <2>3
  <2>5. adds \o << >> = adds
    BY <2>2 DEF Computes
  <2> HIDE DEF load
  <2> QED
    BY <1>1, <2>2, <2>4, <2>5
<1> QED
  BY <1>2, <1>4, <1>5, <1>6, <1>7, <1>8

----------------------------------------------------------------------------
(* Induction.  The library's theorems of induction take an operator; this  *)
(* follows from what it says of well-founded relations on sets.            *)
LEMMA Least1 ==
  ASSUME NEW T \in SUBSET Nat, T # {}
  PROVE  \E n \in T : \A m \in T : n <= m
<1>1. PICK R : R = OpToRel(<, Nat) /\ IsWellFoundedOn(R, Nat)
  BY NatLessThanWellFounded
<1>2. \A m, n \in Nat : m < n => <<m, n>> \in R
  BY <1>1 DEF OpToRel
<1>3. PICK n \in T : \A m \in T : ~ (<<m, n>> \in R)
  BY <1>1, WFMin
<1>4. ASSUME NEW m \in T PROVE n <= m
  <2>1. m \in Nat /\ n \in Nat
    OBVIOUS
  <2>2. ~ (m < n)
    BY <1>2, <1>3, <2>1
  <2> QED
    BY <2>1, <2>2
<1> QED
  BY <1>4

(* The least number of a set.                                              *)
LEMMA MinIsLeast ==
  ASSUME NEW T \in SUBSET Nat, T # {}
  PROVE  Min(T) \in T /\ \A m \in T : Min(T) <= m
<1>1. \E n \in T : \A m \in T : n <= m
  BY Least1
<1> QED
  BY <1>1 DEF Min

(* What holds of 0 and of n + 1 with n holds of all numbers.               *)
LEMMA Induction ==
  ASSUME NEW S, 0 \in S, \A n \in Nat : n \in S => n + 1 \in S
  PROVE  \A n \in Nat : n \in S
<1> SUFFICES ASSUME Nat \ S # {} PROVE FALSE
  OBVIOUS
<1>1. PICK n \in Nat \ S : \A m \in Nat \ S : n <= m
  BY Least1
<1>2. n # 0 /\ n - 1 \in Nat /\ n - 1 \notin Nat \ S
  BY <1>1
<1> QED
  BY <1>2

(* The sums of n numbers.                                                  *)
LEMMA SumsExist ==
  ASSUME NEW n \in Nat, NEW a \in [1 .. n -> Int]
  PROVE  \E f \in [0 .. n -> Int] : f[0] = 0 /\ \A i \in 1 .. n : f[i] = f[i - 1] + a[i]
<1> DEFINE Upto(m, f) == /\ f \in [0 .. m -> Int] /\ f[0] = 0
                         /\ \A i \in 1 .. m : f[i] = f[i - 1] + a[i]
           S == {m \in Nat : m <= n => \E f : Upto(m, f)}
<1> HIDE DEF Upto
<1>1. 0 \in S
  <2>1. PICK h : h = [i \in 0 .. 0 |-> 0]
    OBVIOUS
  <2>2. h \in [0 .. 0 -> Int] /\ h[0] = 0 /\ 1 .. 0 = {}
    BY <2>1
  <2>3. Upto(0, h)
    BY <2>2 DEF Upto
  <2>4. \E g : Upto(0, g)
    BY <2>3
  <2>5. 0 \in Nat
    OBVIOUS
  <2> QED
    BY <2>4, <2>5
<1>2. ASSUME NEW m \in Nat, m \in S PROVE m + 1 \in S
  <2> SUFFICES ASSUME m + 1 <= n PROVE \E f : Upto(m + 1, f)
    OBVIOUS
  <2>1. PICK f : Upto(m, f)
    BY <1>2
  <2> DEFINE v == f[m] + a[m + 1]
             g == [i \in 0 .. m + 1 |-> IF i = m + 1 THEN v ELSE f[i]]
  <2>2. f[m] \in Int /\ m + 1 \in 1 .. n
    BY <2>1 DEF Upto
  <2>3. v \in Int
    BY <2>2
  <2>4. g \in [0 .. m + 1 -> Int] /\ g[0] = 0
    BY <2>1, <2>3 DEF Upto
  <2>5. ASSUME NEW i \in 1 .. m + 1 PROVE g[i] = g[i - 1] + a[i]
    <3>1. CASE i = m + 1
      <4>1. i - 1 = m /\ g[m] = f[m] /\ g[i] = v
        BY <2>2, <3>1
      <4> QED
        BY <3>1, <4>1
    <3>2. CASE i \in 1 .. m
      BY <2>1, <3>2 DEF Upto
    <3> QED
      BY <3>1, <3>2
  <2> HIDE DEF g
  <2> QED
    BY <2>4, <2>5 DEF Upto
<1>3. n \in S
  <2> HIDE DEF S
  <2> QED
    BY <1>1, <1>2, Induction
<1> QED
  BY <1>3 DEF Upto

----------------------------------------------------------------------------
(* Sums of sizes.                                                          *)
Sized(s) == Len(s) \in Nat /\ \A i \in 1 .. Len(s) : s[i].size \in Int

(* The sums of sizes are what their recursive definition says.             *)
LEMMA SizesDefined ==
  ASSUME NEW s, Sized(s)
  PROVE  /\ SizesTo(s) \in [0 .. Len(s) -> Int] /\ SizesTo(s)[0] = 0
         /\ \A i \in 1 .. Len(s) : SizesTo(s)[i] = SizesTo(s)[i - 1] + s[i].size
<1> DEFINE n == Len(s)
           P(f) == f = [i \in 0 .. Len(s) |-> IF i = 0 THEN 0 ELSE f[i - 1] + s[i].size]
           a == [i \in 1 .. n |-> s[i].size]
<1>1. n \in Nat /\ \A i \in 1 .. n : s[i].size \in Int
  BY DEF Sized
<1> HIDE DEF n
<1>2. a \in [1 .. n -> Int] /\ \A i \in 1 .. n : a[i] = s[i].size
  BY <1>1
<1> HIDE DEF a
<1>4. PICK f \in [0 .. n -> Int] : f[0] = 0 /\ \A i \in 1 .. n : f[i] = f[i - 1] + a[i]
  BY <1>1, <1>2, SumsExist
<1>5. \A i \in 1 .. n : f[i] = f[i - 1] + s[i].size
  BY <1>2, <1>4
<1>6. P(f)
  BY <1>1, <1>4, <1>5 DEF n
<1>7. SizesTo(s) = CHOOSE g : P(g)
  BY DEF SizesTo
<1> DEFINE t == SizesTo(s)
<1> HIDE DEF P
<1>8. P(t)
  BY <1>6, <1>7
<1> HIDE DEF t
<1>9. /\ DOMAIN t = 0 .. n /\ t[0] = 0 /\ \A i \in 1 .. n : t[i] = t[i - 1] + s[i].size
      /\ t = [i \in 0 .. n |-> t[i]]
  BY <1>1, <1>8 DEF P, n
<1>10. \A i \in Nat : i \in {j \in Nat : j <= n => t[j] \in Int}
  <2> DEFINE S == {j \in Nat : j <= n => t[j] \in Int}
  <2>1. 0 \in S
    BY <1>9
  <2>2. ASSUME NEW j \in Nat, j \in S PROVE j + 1 \in S
    <3> SUFFICES ASSUME j + 1 <= n PROVE t[j + 1] \in Int
      OBVIOUS
    <3>1. t[j] \in Int /\ j + 1 \in 1 .. n /\ (j + 1) - 1 = j
      BY <1>1, <2>2
    <3>2. t[j + 1] = t[j] + s[j + 1].size /\ s[j + 1].size \in Int
      BY <1>1, <1>9, <3>1
    <3> QED
      BY <3>1, <3>2
  <2> HIDE DEF S
  <2>3. \A i \in Nat : i \in S
    BY <2>1, <2>2, Induction
  <2> QED
    BY <2>3 DEF S
<1>11. t \in [0 .. n -> Int]
  BY <1>1, <1>9, <1>10
<1> QED
  BY <1>9, <1>11 DEF t, n

(* The sum up to a place depends on the sizes before it only.              *)
LEMMA SizesAgree ==
  ASSUME NEW s, NEW t, Sized(s), Sized(t), NEW m \in Nat, m <= Len(s), m <= Len(t),
         \A i \in 1 .. m : s[i].size = t[i].size
  PROVE  \A i \in 0 .. m : SizesTo(s)[i] = SizesTo(t)[i]
<1> DEFINE f == SizesTo(s)
           g == SizesTo(t)
           S == {i \in Nat : i <= m => f[i] = g[i]}
<1>1. /\ f[0] = 0 /\ \A i \in 1 .. m : f[i] = f[i - 1] + s[i].size
      /\ g[0] = 0 /\ \A i \in 1 .. m : g[i] = g[i - 1] + s[i].size
  BY SizesDefined DEF Sized
<1> HIDE DEF f, g
<1>2. 0 \in S
  BY <1>1
<1>3. ASSUME NEW i \in Nat, i \in S PROVE i + 1 \in S
  <2> SUFFICES ASSUME i + 1 <= m PROVE f[i + 1] = g[i + 1]
    OBVIOUS
  <2>1. f[i] = g[i] /\ i + 1 \in 1 .. m /\ (i + 1) - 1 = i
    BY <1>3
  <2> QED
    BY <1>1, <2>1
<1> HIDE DEF S
<1>4. \A i \in Nat : i \in S
  BY <1>2, <1>3, Induction
<1>5. \A i \in 0 .. m : f[i] = g[i]
  BY <1>4 DEF S
<1> QED
  BY <1>5 DEF f, g

----------------------------------------------------------------------------
(* The invariant of the link.                                              *)
Text(f) == prog.files[f]

\* The lines the files and the library can give.
LinesOf(s) == {s[i] : i \in DOMAIN s}
FileLines == UNION {LinesOf(Text(f)) : f \in Files}
LibraryLines == UNION {LinesOf(prog.lib[n]) : n \in DOMAIN prog.lib}
Lines == {End} \cup FileLines \cup LibraryLines

HasDecl(s) == \E j \in DOMAIN s : s[j].k = "decl"

\* The first line of data is a declaration.
DeclFirst(s) ==
  \A i \in DOMAIN s : Continues(s[i]) => \E j \in 1 .. i - 1 : s[j].k = "decl"

Empty == code = << >> /\ data = << >> /\ gvars = << >> /\ out = << >>

Names ==
  /\ link = [g |-> link.g, e |-> link.e]
  /\ IsSeq(link.g) /\ \A i \in DOMAIN link.g : link.g[i].f \in Files

Scanning ==
  /\ Names /\ Empty /\ full = << >> /\ k \in Nat
  /\ fpos \in [Files -> Nat]
  /\ \A f \in Files : f >= k => fpos[f] \in DOMAIN Text(f)

\* Neither the main file nor the file imported from is read beyond its end.
Importing == {"find", "variable", "body", "mark", "decls"}
MainPlace ==
  /\ fpos \in [Files -> Nat]
  /\ mfile \in Files /\ fpos[mfile] \in DOMAIN Text(mfile)
ImportPlace ==
  /\ pc \in Importing => num \in Files /\ num # mfile
  /\ pc \in {"find", "variable", "mark"} => fpos[num] \in DOMAIN Text(num)
  /\ pc = "body" => /\ fpos[num] \in Nat \ {0}
                    /\ \E j \in DOMAIN Text(num) : j >= fpos[num] /\ Text(num)[j].k = "ret"
  /\ pc = "decls" => /\ buf \in Lines /\ fpos[num] \in 1 .. Len(Text(num)) + 1
                     /\ buf # End => fpos[num] \in DOMAIN Text(num)
  /\ pc = "variable" => HasDecl(full)
  /\ pc = "body" /\ Continues(LineOf(num)) => HasDecl(full)

\* What follows a declaration is copied after it.
Together ==
  /\ full \in Seq(Lines) /\ DeclFirst(full)
  /\ Continues(LineOf(mfile)) => HasDecl(full)

Copying == Names /\ Empty /\ MainPlace /\ ImportPlace /\ Together

\* The variables are the declarations in the data section, in order and as
\* far from its start.
Placed(q) ==
  /\ q \in [DOMAIN gvars -> DOMAIN data]
  /\ \A i, j \in DOMAIN gvars : i < j => q[i] < q[j]
  /\ \A p \in DOMAIN data : data[p].k = "decl" => \E j \in DOMAIN gvars : q[j] = p
  /\ \A j \in DOMAIN gvars :
       /\ data[q[j]].k = "decl" /\ data[q[j]].n = gvars[j].n
       /\ SizesTo(gvars)[j - 1] = SizesTo(data)[q[j] - 1]

Laid ==
  /\ IsSeq(gvars) /\ \A j \in DOMAIN gvars : gvars[j] = [n |-> gvars[j].n, size |-> gvars[j].size]
  /\ Sized(gvars)
  /\ data \in Seq(Lines) /\ Sized(data)
  /\ \E q : Placed(q)
  /\ SizesTo(gvars)[Len(gvars)] = SizesTo(data)[Len(data)]

Separating ==
  /\ full \in Seq(Lines) /\ DeclFirst(full) /\ k \in DOMAIN full /\ full[Len(full)] = End
  /\ \A j \in 1 .. k - 1 : full[j].k = "decl" => gvars # << >>
  /\ code \in Seq(Lines) /\ out = << >> /\ Laid

\* The code of each .LC3GLOBAL is that for the offset of its name.
Emitted ==
  /\ IsSeq(out)
  /\ \A i \in DOMAIN out : out[i].k = "addr" =>
       /\ out[i].off \in Int /\ out[i].ldr \in BOOLEAN /\ out[i].r \in (0 .. 7) \ {4}
       /\ out[i].seq = calculate_address(out[i].r, OffsetOf(out[i].n) + out[i].off, out[i].ldr)

Emitting ==
  /\ code \in Seq(Lines) /\ k \in DOMAIN code /\ code[Len(code)] = End
  /\ Laid /\ Emitted

LinkInv ==
  /\ prog \in Programs
  /\ pc \in {"open", "scan"} => Scanning
  /\ pc \in {"head", "extern", "tail"} \cup Importing => Copying
  /\ pc = "split" => Separating
  /\ pc = "emit" => Emitting
  /\ Linked => Laid /\ Emitted

----------------------------------------------------------------------------
(* What the files hold.                                                    *)
LEMMA Texts ==
  ASSUME prog \in Programs, NEW f \in Files
  PROVE  /\ Len(Text(f)) \in Nat \ {0} /\ DOMAIN Text(f) = 1 .. Len(Text(f))
         /\ Text(f)[Len(Text(f))] = End
         /\ \A i \in DOMAIN Text(f) : Text(f)[i] \in Lines
         /\ \A i \in DOMAIN Text(f) : Continues(Text(f)[i]) => i > 1 /\ IsData(Text(f)[i - 1])
         /\ \A i \in DOMAIN Text(f) : Text(f)[i].k = "global" =>
              \/ Text(f)[i + 1].k = "decl"
              \/ \E j \in DOMAIN Text(f) : j > i + 1 /\ Text(f)[j].k = "ret"
<1>1. IsFile(Text(f))
  BY LinkerConstants DEF Files, Text
<1>2. Text(f) \in Seq({Text(f)[i] : i \in DOMAIN Text(f)}) /\ Text(f) # << >>
  BY <1>1 DEF IsFile, IsText
<1>3. Len(Text(f)) \in Nat \ {0} /\ DOMAIN Text(f) = 1 .. Len(Text(f))
  BY <1>2
<1>4. \A i \in DOMAIN Text(f) : Text(f)[i] \in Lines
  <2>1. \A i \in DOMAIN Text(f) : Text(f)[i] \in LinesOf(Text(f))
    BY DEF LinesOf
  <2>2. LinesOf(Text(f)) \subseteq FileLines
    BY DEF FileLines
  <2> QED
    BY <2>1, <2>2 DEF Lines
<1>5. /\ \A i \in DOMAIN Text(f) : Continues(Text(f)[i]) => i > 1 /\ IsData(Text(f)[i - 1])
      /\ Text(f)[Len(Text(f))] = End
  BY <1>1 DEF IsFile, IsText
<1>6. \A i \in DOMAIN Text(f) : Text(f)[i].k = "global" =>
              \/ Text(f)[i + 1].k = "decl"
              \/ \E j \in DOMAIN Text(f) : j > i + 1 /\ Text(f)[j].k = "ret"
  BY <1>1 DEF IsFile
<1> QED
  BY <1>3, <1>4, <1>5, <1>6

(* What a module of the library holds.                                     *)
LEMMA LibraryTexts ==
  ASSUME prog \in Programs, NEW n \in DOMAIN prog.lib
  PROVE  /\ prog.lib[n] \in Seq(Lines)
         /\ \A i \in DOMAIN prog.lib[n] :
              Continues(prog.lib[n][i]) => i > 1 /\ IsData(prog.lib[n][i - 1])
<1>1. IsText(prog.lib[n])
  BY LinkerConstants
<1>2. \A i \in DOMAIN prog.lib[n] : prog.lib[n][i] \in Lines
  <2>1. \A i \in DOMAIN prog.lib[n] : prog.lib[n][i] \in LinesOf(prog.lib[n])
    BY DEF LinesOf
  <2>2. LinesOf(prog.lib[n]) \subseteq LibraryLines
    BY DEF LibraryLines
  <2> QED
    BY <2>1, <2>2 DEF Lines
<1>3. prog.lib[n] \in Seq({prog.lib[n][i] : i \in DOMAIN prog.lib[n]})
  BY <1>1 DEF IsText
<1>4. prog.lib[n] \in Seq(Lines)
  <2> DEFINE s == prog.lib[n]
  <2> HIDE DEF s
  <2>1. Len(s) \in Nat /\ DOMAIN s = 1 .. Len(s) /\ s = [i \in 1 .. Len(s) |-> s[i]]
    BY <1>3 DEF s
  <2>2. \A i \in 1 .. Len(s) : s[i] \in Lines
    BY <1>2, <2>1 DEF s
  <2>3. s \in [1 .. Len(s) -> Lines]
    BY <2>1, <2>2
  <2>4. s \in Seq(Lines)
    BY <2>1, <2>3
  <2> QED
    BY <2>4 DEF s
<1> QED
  BY <1>1, <1>4 DEF IsText

\* What a line is.
WellFormed(l) ==
  /\ l.k # "addr" /\ (l.k = "end" <=> l = End)
  /\ IsData(l) => l.size \in Int
  /\ l.k = "use" => l.off \in Int /\ l.r \in (0 .. 7) \ {4}
  /\ l.k = "ldr" => l.off \in Int

(* Every line of the files and the library is well formed.                 *)
LEMMA LinesWellFormed ==
  ASSUME prog \in Programs, NEW l \in Lines
  PROVE  WellFormed(l)
<1>1. End.k = "end"
  BY DEF End
<1>2. CASE l = End
  BY <1>1, <1>2 DEF WellFormed, IsData
<1>3. CASE \E f \in Files : l \in LinesOf(Text(f))
  <2>1. PICK f \in Files : \E i \in DOMAIN Text(f) : l = Text(f)[i]
    BY <1>3 DEF LinesOf
  <2>2. IsText(Text(f))
    BY LinkerConstants DEF Files, Text, IsFile
  <2> QED
    BY <1>1, <2>1, <2>2 DEF IsText, WellFormed
<1>4. CASE \E n \in DOMAIN prog.lib : l \in LinesOf(prog.lib[n])
  <2>1. PICK n \in DOMAIN prog.lib : \E i \in DOMAIN prog.lib[n] : l = prog.lib[n][i]
    BY <1>4 DEF LinesOf
  <2>2. IsText(prog.lib[n])
    BY LinkerConstants
  <2> QED
    BY <1>1, <2>1, <2>2 DEF IsText, WellFormed
<1>5. l \in FileLines => \E f \in Files : l \in LinesOf(Text(f))
  BY DEF FileLines
<1>6. l \in LibraryLines => \E n \in DOMAIN prog.lib : l \in LinesOf(prog.lib[n])
  BY DEF LibraryLines
<1> QED
  BY <1>2, <1>3, <1>4, <1>5, <1>6 DEF Lines

----------------------------------------------------------------------------
(* Copying lines.                                                          *)
LEMMA OneCopied ==
  ASSUME NEW S, NEW s \in Seq(S), NEW e \in S
  PROVE  /\ Append(s, e) \in Seq(S) /\ Len(Append(s, e)) = Len(s) + 1
         /\ Append(s, e)[Len(s) + 1] = e
         /\ \A i \in DOMAIN s : Append(s, e)[i] = s[i]
         /\ HasDecl(s) \/ e.k = "decl" => HasDecl(Append(s, e))
         /\ DeclFirst(s) /\ (Continues(e) => HasDecl(s)) => DeclFirst(Append(s, e))
<1> DEFINE t == Append(s, e)
<1>1. /\ t \in Seq(S) /\ Len(t) = Len(s) + 1 /\ t[Len(s) + 1] = e
      /\ \A i \in DOMAIN s : t[i] = s[i]
      /\ Len(s) \in Nat /\ DOMAIN s = 1 .. Len(s) /\ DOMAIN t = 1 .. Len(s) + 1
  OBVIOUS
<1> HIDE DEF t
<1>2. HasDecl(s) \/ e.k = "decl" => HasDecl(t)
  BY <1>1 DEF HasDecl
<1>3. ASSUME DeclFirst(s), Continues(e) => HasDecl(s) PROVE DeclFirst(t)
  <2> SUFFICES ASSUME NEW i \in DOMAIN t, Continues(t[i])
               PROVE  \E j \in 1 .. i - 1 : t[j].k = "decl"
    BY DEF DeclFirst
  <2>1. CASE i = Len(s) + 1
    <3>1. PICK j \in DOMAIN s : s[j].k = "decl"
      BY <1>1, <1>3, <2>1 DEF HasDecl
    <3>2. j \in 1 .. i - 1 /\ t[j].k = "decl"
      BY <1>1, <2>1, <3>1
    <3> QED
      BY <3>2
  <2>2. CASE i \in DOMAIN s
    <3>1. PICK j \in 1 .. i - 1 : s[j].k = "decl"
      BY <1>1, <1>3, <2>2 DEF DeclFirst
    <3>2. j \in DOMAIN s
      BY <1>1, <2>2
    <3> QED
      BY <1>1, <3>1, <3>2
  <2> QED
    BY <1>1, <2>1, <2>2
<1> QED
  BY <1>1, <1>2, <1>3 DEF t

(* Lines of the library, or .FILL lines, are copied behind others.         *)
LEMMA ManyCopied ==
  ASSUME NEW S, NEW s \in Seq(S), NEW t \in Seq(S)
  PROVE  /\ s \o t \in Seq(S)
         /\ HasDecl(s) => HasDecl(s \o t)
         /\ DeclFirst(s) /\ (DeclFirst(t) \/ HasDecl(s)) => DeclFirst(s \o t)
<1> DEFINE u == s \o t
<1>1. /\ u \in Seq(S) /\ Len(s) \in Nat /\ Len(t) \in Nat /\ Len(u) = Len(s) + Len(t)
      /\ DOMAIN s = 1 .. Len(s) /\ DOMAIN t = 1 .. Len(t) /\ DOMAIN u = 1 .. Len(s) + Len(t)
      /\ \A i \in 1 .. Len(s) : u[i] = s[i]
      /\ \A i \in 1 .. Len(t) : u[Len(s) + i] = t[i]
  OBVIOUS
<1> HIDE DEF u
<1>2. HasDecl(s) => HasDecl(u)
  BY <1>1 DEF HasDecl
<1>3. ASSUME DeclFirst(s), DeclFirst(t) \/ HasDecl(s) PROVE DeclFirst(u)
  <2> SUFFICES ASSUME NEW i \in DOMAIN u, Continues(u[i])
               PROVE  \E j \in 1 .. i - 1 : u[j].k = "decl"
    BY DEF DeclFirst
  <2>1. CASE i \in DOMAIN s
    <3>1. PICK j \in 1 .. i - 1 : s[j].k = "decl"
      BY <1>1, <1>3, <2>1 DEF DeclFirst
    <3>2. j \in 1 .. Len(s)
      BY <1>1, <2>1
    <3> QED
      BY <1>1, <3>1, <3>2
  <2>2. CASE i \notin DOMAIN s /\ HasDecl(s)
    <3>1. PICK j \in DOMAIN s : s[j].k = "decl"
      BY <2>2 DEF HasDecl
    <3>2. j \in 1 .. i - 1 /\ u[j] = s[j]
      BY <1>1, <2>2
    <3> QED
      BY <3>1, <3>2
  <2>3. CASE i \notin DOMAIN s /\ DeclFirst(t)
    <3>1. i - Len(s) \in DOMAIN t /\ u[i] = t[i - Len(s)]
      BY <1>1, <2>3
    <3>2. PICK j \in 1 .. i - Len(s) - 1 : t[j].k = "decl"
      BY <2>3, <3>1 DEF DeclFirst
    <3>3. j \in 1 .. Len(t) /\ Len(s) + j \in 1 .. i - 1
      BY <1>1, <3>1
    <3>4. u[Len(s) + j] = t[j]
      BY <1>1, <3>3
    <3> QED
      BY <3>2, <3>3, <3>4
  <2> QED
    BY <1>3, <2>1, <2>2, <2>3
<1> QED
  BY <1>1, <1>2, <1>3 DEF u

(* A module of the library begins its data with a declaration.             *)
LEMMA LibraryDeclFirst ==
  ASSUME prog \in Programs, NEW n \in DOMAIN prog.lib
  PROVE  prog.lib[n] \in Seq(Lines) /\ DeclFirst(prog.lib[n])
<1> DEFINE s == prog.lib[n]
           T == {i \in Nat : i \in DOMAIN s /\ Continues(s[i])
                               => \E j \in 1 .. i - 1 : s[j].k = "decl"}
<1>1. /\ s \in Seq(Lines) /\ DOMAIN s = 1 .. Len(s) /\ Len(s) \in Nat
      /\ \A i \in DOMAIN s : Continues(s[i]) => i > 1 /\ IsData(s[i - 1])
  BY LibraryTexts
<1> HIDE DEF s
<1>2. 0 \in T
  BY <1>1
<1>3. ASSUME NEW i \in Nat, i \in T PROVE i + 1 \in T
  <2> SUFFICES ASSUME i + 1 \in DOMAIN s, Continues(s[i + 1])
               PROVE  \E j \in 1 .. (i + 1) - 1 : s[j].k = "decl"
    OBVIOUS
  <2>1. i > 0 /\ i \in DOMAIN s /\ (i + 1) - 1 = i /\ IsData(s[i])
    BY <1>1
  <2>2. CASE s[i].k = "decl"
    BY <2>1, <2>2
  <2>3. CASE Continues(s[i])
    <3>1. PICK j \in 1 .. i - 1 : s[j].k = "decl"
      BY <1>3, <2>1, <2>3
    <3> QED
      BY <3>1
  <2> QED
    BY <2>1, <2>2, <2>3 DEF IsData, Continues
<1> HIDE DEF T
<1>4. \A i \in Nat : i \in T
  BY <1>2, <1>3, Induction
<1>5. DeclFirst(s)
  BY <1>1, <1>4 DEF T, DeclFirst
<1> QED
  BY <1>1, <1>5 DEF s

----------------------------------------------------------------------------
(* The steps keep the invariant: reading the names.                        *)
LEMMA SameProgram ==
  ASSUME UNCHANGED prog
  PROVE  Files' = Files /\ Lines' = Lines /\ \A f : Text(f)' = Text(f)
BY DEF Files, Lines, FileLines, LibraryLines, Text

(* Files are numbered from 1.                                              *)
LEMMA FilesAreNumbers ==
  ASSUME prog \in Programs
  PROVE  Files \subseteq Nat \ {0}
<1>1. prog.files \in Seq({prog.files[f] : f \in DOMAIN prog.files})
  BY LinkerConstants
<1>2. DOMAIN prog.files = 1 .. Len(prog.files) /\ Len(prog.files) \in Nat
  BY <1>1
<1> QED
  BY <1>2 DEF Files

(* The linker starts with nothing read.                                    *)
LEMMA InitLink == Init => LinkInv
<1> SUFFICES ASSUME Init PROVE LinkInv
  OBVIOUS
<1>1. prog \in Programs /\ pc = "open"
  BY DEF Init
<1>2. IsSeq(<< >>)
  BY DEF IsSeq
<1>3. Names /\ Empty /\ full = << >> /\ k \in Nat
  <2>1. link.g = << >> /\ link.e = << >>
    BY DEF Init
  <2>2. link = [g |-> link.g, e |-> link.e]
    BY DEF Init
  <2>3. IsSeq(link.g) /\ \A i \in DOMAIN link.g : link.g[i].f \in Files
    BY <1>2, <2>1
  <2>4. Names
    BY <2>2, <2>3 DEF Names
  <2> QED
    BY <2>4 DEF Init, Empty
<1>4. fpos \in [Files -> Nat] /\ \A f \in Files : fpos[f] = 1
  BY DEF Init, Files
<1>5. \A f \in Files : 1 \in DOMAIN Text(f)
  BY <1>1, Texts
<1>6. Scanning
  BY <1>3, <1>4, <1>5 DEF Scanning
<1> QED
  BY <1>1, <1>6 DEF LinkInv, Linked, Importing

(* The files are opened.                                                   *)
LEMMA OpenLinks == ASSUME LinkInv, Open PROVE LinkInv'
<1>1. /\ prog \in Programs /\ Scanning
      /\ UNCHANGED <<prog, fpos, link, k, full, gvars, code, data, out>>
  BY DEF LinkInv, Open
<1>2. pc' = "failed" \/ pc' = "scan"
  BY DEF Open, Go
<1>3. Scanning'
  BY <1>1 DEF Scanning, Names, Empty, Files, Text
<1> QED
  BY <1>1, <1>2, <1>3 DEF LinkInv, Linked, Importing

(* A line is read for .global and .extern.                                 *)
LEMMA ScanLinks == ASSUME LinkInv, Scan PROVE LinkInv'
<1> DEFINE l == LineOf(k)
           p == fpos[k]
<1>1. /\ prog \in Programs /\ Scanning /\ k \in Files /\ pc = "scan"
      /\ UNCHANGED <<prog, pc, full, gvars, code, data, out>>
  BY DEF LinkInv, Scan
<1>2. /\ Files' = Files /\ \A f : Text(f)' = Text(f)
  BY <1>1, SameProgram
<1>3. /\ fpos \in [Files -> Nat] /\ p \in DOMAIN Text(k) /\ l = Text(k)[p]
      /\ Len(Text(k)) \in Nat \ {0} /\ DOMAIN Text(k) = 1 .. Len(Text(k))
      /\ Text(k)[Len(Text(k))] = End /\ Files \subseteq Nat \ {0}
  <2>1. k >= k
    BY <1>1 DEF Scanning
  <2> QED
    BY <1>1, <2>1, Texts, FilesAreNumbers DEF Scanning, LineOf, Text
<1>4. /\ fpos' = [fpos EXCEPT ![k] = @ + 1] /\ k' = IF l = End THEN k + 1 ELSE k
      /\ \/ link' = link
         \/ link' = [link EXCEPT !.g = Append(@, [n |-> l.n, f |-> k])]
         \/ link' = [link EXCEPT !.e = Append(@, [n |-> l.n, f |-> k])]
  BY DEF Scan, Read
<1> HIDE DEF l, p
<1>5. Names'
  <2>1. /\ link = [g |-> link.g, e |-> link.e] /\ IsSeq(link.g)
        /\ \A i \in DOMAIN link.g : link.g[i].f \in Files
    BY <1>1 DEF Scanning, Names
  <2>2. link' = [g |-> link'.g, e |-> link'.e]
    BY <1>4, <2>1
  <2> DEFINE x == [n |-> l.n, f |-> k]
  <2>3. link'.g = link.g \/ link'.g = Append(link.g, x)
    BY <1>4, <2>1
  <2>4. x.f = k
    OBVIOUS
  <2> HIDE DEF x
  <2>5. CASE link'.g = link.g
    BY <1>2, <2>1, <2>2, <2>5 DEF Names, IsSeq
  <2>6. CASE link'.g = Append(link.g, x)
    <3>1. /\ IsSeq(Append(link.g, x))
          /\ \A i \in DOMAIN Append(link.g, x) : i \in DOMAIN link.g \/ i = Len(link.g) + 1
          /\ \A i \in DOMAIN link.g : Append(link.g, x)[i] = link.g[i]
          /\ Append(link.g, x)[Len(link.g) + 1] = x
      BY <2>1, Appended
    <3>2. \A i \in DOMAIN link'.g : link'.g[i].f \in Files'
      BY <1>1, <1>2, <2>1, <2>4, <2>6, <3>1
    <3>3. IsSeq(link'.g)
      BY <2>6, <3>1
    <3> QED
      BY <2>2, <3>2, <3>3 DEF Names, IsSeq
  <2> QED
    BY <2>3, <2>5, <2>6
<1>6. fpos' \in [Files -> Nat] /\ k' \in Nat
  BY <1>1, <1>3, <1>4 DEF p
<1>7. ASSUME NEW f \in Files, f >= k' PROVE fpos'[f] \in DOMAIN Text(f)
  <2>1. f \in Nat /\ k \in Nat
    BY <1>3, <1>1
  <2>2. CASE f # k
    BY <1>1, <1>3, <1>4, <1>7, <2>1, <2>2 DEF Scanning
  <2>3. CASE f = k
    <3>1. l # End
      BY <1>4, <1>7, <2>1, <2>3
    <3>2. p # Len(Text(k))
      BY <1>3, <3>1
    <3>3. fpos'[f] = p + 1
      BY <1>3, <1>4, <1>1, <2>3 DEF p
    <3> QED
      BY <1>3, <2>3, <3>2, <3>3
  <2> QED
    BY <2>2, <2>3
<1>8. Scanning'
  BY <1>1, <1>2, <1>5, <1>6, <1>7 DEF Scanning, Empty
<1> QED
  BY <1>1, <1>8 DEF LinkInv, Linked, Importing

(* The file of main is looked for.                                         *)
LEMMA FindMainLinks == ASSUME LinkInv, FindMain PROVE LinkInv'
<1> DEFINE mains == {i \in DOMAIN link.g : link.g[i].n = "main"}
<1>1. /\ prog \in Programs /\ Scanning
      /\ UNCHANGED <<prog, link, full, gvars, code, data, out>>
  BY DEF LinkInv, FindMain
<1>2. /\ Files' = Files /\ Lines' = Lines /\ \A f : Text(f)' = Text(f)
  BY <1>1, SameProgram
<1>3. mains # {} => link.g[Min(mains)].f \in Files
  <2>1. IsSeq(link.g) /\ \A i \in DOMAIN link.g : link.g[i].f \in Files
    BY <1>1 DEF Scanning, Names
  <2>2. DOMAIN link.g \subseteq Nat
    BY <2>1 DEF IsSeq
  <2>3. mains # {} => Min(mains) \in mains
    BY <2>2, MinIsLeast
  <2> QED
    BY <2>1, <2>3
<1>4. \/ pc' = "crashed"
      \/ pc' = "head" /\ mfile' \in Files /\ fpos' = [fpos EXCEPT ![mfile'] = 1]
  BY <1>3 DEF FindMain, Go
<1>5. CASE pc' = "crashed"
  BY <1>1, <1>5 DEF LinkInv, Linked, Importing
<1>6. CASE pc' = "head" /\ mfile' \in Files /\ fpos' = [fpos EXCEPT ![mfile'] = 1]
  <2>1. fpos' \in [Files -> Nat] /\ fpos'[mfile'] = 1
    BY <1>1, <1>6 DEF Scanning
  <2>2. 1 \in DOMAIN Text(mfile') /\ ~Continues(Text(mfile')[1])
    BY <1>1, <1>6, Texts
  <2>3. MainPlace' /\ ImportPlace'
    BY <1>2, <1>6, <2>1, <2>2 DEF MainPlace, ImportPlace, Importing
  <2>4. full' = << >>
    BY <1>1 DEF Scanning
  <2>5. LineOf(mfile)' = Text(mfile')[1]
    BY <1>1, <2>1 DEF LineOf, Text
  <2>6. Together'
    BY <1>6, <2>2, <2>4, <2>5 DEF Together, DeclFirst
  <2>7. Names' /\ Empty'
    BY <1>1, <1>2 DEF Scanning, Names, Empty, IsSeq
  <2> QED
    BY <1>1, <1>6, <2>3, <2>6, <2>7 DEF LinkInv, Copying, Linked, Importing
<1> QED
  BY <1>4, <1>5, <1>6

----------------------------------------------------------------------------
(* The lines of the main file.                                             *)
LEMMA NothingLaid == ASSUME gvars = << >>, data = << >> PROVE Laid
<1> DEFINE q == [j \in {} |-> 1]
<1>1. /\ DOMAIN gvars = {} /\ DOMAIN data = {} /\ Len(gvars) = 0 /\ Len(data) = 0
      /\ data \in Seq(Lines) /\ IsSeq(gvars)
  BY DEF IsSeq
<1>2. Placed(q)
  BY <1>1 DEF Placed
<1>3. Sized(gvars) /\ Sized(data)
  BY <1>1 DEF Sized
<1> HIDE DEF q
<1>4. SizesTo(gvars) = SizesTo(data)
  OBVIOUS
<1> QED
  BY <1>1, <1>2, <1>3, <1>4 DEF Laid

(* A line of the main file is copied or skipped.                           *)
LEMMA MainLine ==
  ASSUME LinkInv, pc \in {"head", "tail"}, NEW l, l = LineOf(mfile), Read(mfile),
         full' = IF l.k \in {"extern", "global"} THEN full ELSE Append(full, l),
         IF l = End THEN pc' = "split" ELSE pc' \in {"head", "tail", "extern"},
         k' = 1, UNCHANGED <<prog, link, mfile, gvars, code, data, out>>
  PROVE  LinkInv'
<1> DEFINE p == fpos[mfile]
           n == Len(Text(mfile))
<1>1. prog \in Programs /\ Copying
  BY DEF LinkInv
<1>2. /\ Files' = Files /\ Lines' = Lines /\ \A f : Text(f)' = Text(f)
  BY SameProgram
<1>3. /\ mfile \in Files /\ n \in Nat \ {0} /\ DOMAIN Text(mfile) = 1 .. n
      /\ p \in 1 .. n /\ l = Text(mfile)[p] /\ l \in Lines /\ Text(mfile)[n] = End
      /\ fpos \in [Files -> Nat]
  BY <1>1, Texts DEF Copying, MainPlace, LineOf, Text
<1>4. fpos' \in [Files -> Nat] /\ fpos'[mfile] = p + 1
  BY <1>3 DEF Read
<1>5. full \in Seq(Lines) /\ DeclFirst(full) /\ (Continues(l) => HasDecl(full))
  BY <1>1 DEF Copying, Together
<1>6. /\ full' \in Seq(Lines) /\ DeclFirst(full') /\ (HasDecl(full) => HasDecl(full'))
      /\ IsData(l) => HasDecl(full')
  <2>1. CASE l.k \in {"extern", "global"}
    BY <1>5, <2>1 DEF IsData
  <2>2. CASE l.k \notin {"extern", "global"}
    <3>1. full' = Append(full, l)
      BY <2>2
    <3>2. /\ full' \in Seq(Lines) /\ DeclFirst(full') /\ (HasDecl(full) => HasDecl(full'))
          /\ l.k = "decl" => HasDecl(full')
      BY <1>3, <1>5, <3>1, OneCopied
    <3> QED
      BY <1>5, <3>2 DEF IsData, Continues
  <2> QED
    BY <2>1, <2>2
<1> HIDE DEF n, p
<1>7. Names' /\ Empty'
  BY <1>1, <1>2 DEF Copying, Names, Empty, IsSeq
<1>8. CASE l = End
  <2>1. l.k = "end"
    BY <1>8 DEF End
  <2>2. full' = Append(full, l)
    BY <2>1
  <2>3. Len(full') = Len(full) + 1 /\ full'[Len(full')] = End /\ Len(full) \in Nat
    BY <1>3, <1>5, <1>8, <2>2, OneCopied
  <2>4. k' \in DOMAIN full'
    BY <1>6, <2>3
  <2>5. Laid'
    <3>1. (gvars = << >>)' /\ (data = << >>)'
      BY <1>7 DEF Empty
    <3>2. (gvars = << >> /\ data = << >> => Laid)'
      BY NothingLaid, PTL
    <3> QED
      BY <3>1, <3>2
  <2>6. code' \in Seq(Lines') /\ out' = << >>
    BY <1>7 DEF Empty
  <2>7. \A j \in 1 .. k' - 1 : full'[j].k = "decl" => gvars' # << >>
    OBVIOUS
  <2>8. Separating'
    BY <1>2, <1>6, <2>3, <2>4, <2>5, <2>6, <2>7 DEF Separating
  <2> QED
    BY <1>1, <1>8, <2>8 DEF LinkInv, Linked, Importing
<1>9. CASE l # End
  <2>1. p + 1 \in 1 .. n
    BY <1>3, <1>9
  <2>2. Continues(Text(mfile)[p + 1]) => IsData(l)
    BY <1>1, <1>3, <2>1, Texts DEF n
  <2>3. LineOf(mfile)' = Text(mfile)[p + 1]
    BY <1>4 DEF LineOf, Text
  <2>4. Together'
    BY <1>2, <1>6, <2>2, <2>3 DEF Together
  <2>5. MainPlace' /\ ImportPlace'
    BY <1>2, <1>3, <1>4, <1>9, <2>1 DEF MainPlace, ImportPlace, Importing
  <2>6. Copying'
    BY <1>7, <2>4, <2>5 DEF Copying
  <2> QED
    BY <1>1, <1>9, <2>6 DEF LinkInv, Linked, Importing
<1> QED
  BY <1>8, <1>9

(* Both loops over the main file do just that.                             *)
LEMMA MainLinks == ASSUME LinkInv, Head0 \/ Tail0 PROVE LinkInv'
<1> DEFINE l == LineOf(mfile)
<1>1. /\ pc \in {"head", "tail"} /\ Read(mfile) /\ k' = 1
      /\ full' = IF l.k \in {"extern", "global"} THEN full ELSE Append(full, l)
      /\ UNCHANGED <<prog, link, mfile, gvars, code, data, out>>
  BY DEF Head0, Tail0
<1>2. End.k = "end"
  BY DEF End
<1>3. IF l = End THEN pc' = "split" ELSE pc' \in {"head", "tail", "extern"}
  BY <1>1, <1>2 DEF Head0, Tail0, Go
<1> HIDE DEF l
<1> QED
  BY <1>1, <1>3, MainLine DEF l

\* While another file is read the main file stays where it is.
LEMMA MainWaits ==
  ASSUME LinkInv, pc \in {"extern"} \cup Importing, pc' \in {"extern", "tail"} \cup Importing,
         UNCHANGED <<prog, link.g, mfile, gvars, code, data, out>>,
         link' = [g |-> link.g, e |-> link'.e],
         fpos' \in [Files -> Nat], fpos'[mfile] = fpos[mfile],
         full' \in Seq(Lines), DeclFirst(full'), HasDecl(full) => HasDecl(full'),
         ImportPlace'
  PROVE  LinkInv'
<1>1. prog \in Programs /\ Copying
  BY DEF LinkInv
<1>2. /\ Files' = Files /\ Lines' = Lines /\ \A f : Text(f)' = Text(f)
  BY SameProgram
<1>3. Names'
  <2>1. link'.g = link.g /\ link' = [g |-> link'.g, e |-> link'.e]
    OBVIOUS
  <2> QED
    BY <1>1, <1>2, <2>1 DEF Copying, Names, IsSeq
<1>4. Empty'
  BY <1>1 DEF Copying, Empty
<1>5. MainPlace'
  BY <1>1, <1>2 DEF Copying, MainPlace
<1>6. LineOf(mfile)' = LineOf(mfile)
  BY DEF LineOf
<1>7. Together'
  BY <1>1, <1>2, <1>6 DEF Copying, Together
<1>8. Copying'
  BY <1>3, <1>4, <1>5, <1>7 DEF Copying
<1> QED
  BY <1>1, <1>8 DEF LinkInv, Linked, Importing

----------------------------------------------------------------------------
(* Importing from another file.                                            *)
LEMMA NextExternLinks == ASSUME LinkInv, NextExtern PROVE LinkInv'
<1> DEFINE n == link.e[k].n
           g == Definers(n)
           d == link.g[Min(g)].f
<1>1. /\ prog \in Programs /\ Copying /\ pc = "extern"
      /\ UNCHANGED <<prog, link, mfile, gvars, code, data, out>>
  BY DEF LinkInv, NextExtern
<1>2. /\ Files' = Files /\ \A f : Text(f)' = Text(f)
  BY <1>1, SameProgram
<1>3. /\ fpos \in [Files -> Nat] /\ full \in Seq(Lines) /\ DeclFirst(full)
      /\ link = [g |-> link.g, e |-> link.e]
  BY <1>1 DEF Copying, MainPlace, Together, Names
<1>4. g # {} => d \in Files
  <2>1. IsSeq(link.g) /\ \A i \in DOMAIN link.g : link.g[i].f \in Files
    BY <1>1 DEF Copying, Names
  <2>2. g \subseteq Nat /\ g \subseteq DOMAIN link.g
    BY <2>1 DEF Definers, IsSeq
  <2> HIDE DEF g
  <2>3. g # {} => Min(g) \in g
    BY <2>2, MinIsLeast
  <2> QED
    BY <2>1, <2>2, <2>3
<1>5. \/ pc' \in {"extern", "tail"} /\ UNCHANGED <<fpos, full>>
      \/ /\ g # {} /\ d # mfile /\ num' = d /\ pc' = "find"
         /\ fpos' = [fpos EXCEPT ![d] = 1] /\ full' = full
      \/ /\ n \in DOMAIN prog.lib /\ full' = full \o prog.lib[n]
         /\ UNCHANGED <<pc, fpos>>
      \/ pc' = "failed"
  BY <1>1 DEF NextExtern, Go, Rewind, FromLibrary
<1> HIDE DEF n, g, d
<1>6. CASE pc' \in {"extern", "tail"} /\ UNCHANGED <<fpos, full>>
  <2>1. ImportPlace'
    BY <1>6 DEF ImportPlace, Importing
  <2> QED
    BY <1>1, <1>3, <1>6, <2>1, MainWaits
<1>7. CASE /\ g # {} /\ d # mfile /\ num' = d /\ pc' = "find"
           /\ fpos' = [fpos EXCEPT ![d] = 1] /\ full' = full
  <2>1. /\ d \in Files /\ fpos' \in [Files -> Nat] /\ fpos'[d] = 1 /\ fpos'[mfile] = fpos[mfile]
        /\ mfile \in Files
    BY <1>1, <1>3, <1>4, <1>7 DEF Copying, MainPlace
  <2>2. 1 \in DOMAIN Text(d)
    BY <1>1, <2>1, Texts
  <2>3. Text(num)' = Text(d)
    BY <1>1, <1>7 DEF Text
  <2>4. ImportPlace'
    BY <1>1, <1>2, <1>7, <2>1, <2>2, <2>3 DEF ImportPlace, Importing
  <2>5. pc' \in {"extern", "tail"} \cup Importing
    BY <1>7 DEF Importing
  <2> QED
    BY <1>1, <1>3, <1>7, <2>1, <2>4, <2>5, MainWaits
<1>8. CASE /\ n \in DOMAIN prog.lib /\ full' = full \o prog.lib[n]
           /\ UNCHANGED <<pc, fpos>>
  <2>1. prog.lib[n] \in Seq(Lines) /\ DeclFirst(prog.lib[n])
    BY <1>1, <1>8, LibraryDeclFirst
  <2>2. full' \in Seq(Lines) /\ DeclFirst(full') /\ (HasDecl(full) => HasDecl(full'))
    BY <1>3, <1>8, <2>1, ManyCopied
  <2>3. ImportPlace'
    BY <1>1, <1>8 DEF ImportPlace, Importing
  <2> QED
    BY <1>1, <1>3, <1>8, <2>2, <2>3, MainWaits
<1>9. CASE pc' = "failed"
  BY <1>1, <1>9 DEF LinkInv, Linked, Importing
<1> QED
  BY <1>5, <1>6, <1>7, <1>8, <1>9

\* Where the file imported from is read.
LEMMA AtImport ==
  ASSUME LinkInv, pc \in {"find", "variable", "body", "mark"}
  PROVE  /\ prog \in Programs /\ Copying /\ num \in Files /\ num # mfile
         /\ fpos \in [Files -> Nat] /\ fpos[num] \in 1 .. Len(Text(num))
         /\ Len(Text(num)) \in Nat \ {0} /\ DOMAIN Text(num) = 1 .. Len(Text(num))
         /\ LineOf(num) = Text(num)[fpos[num]] /\ LineOf(num) \in Lines
         /\ LineOf(num) # End => fpos[num] + 1 \in DOMAIN Text(num)
         /\ full \in Seq(Lines) /\ DeclFirst(full)
         /\ link = [g |-> link.g, e |-> link.e] /\ mfile \in Files
<1>1. /\ prog \in Programs /\ Copying
  BY DEF LinkInv, Importing
<1>2. /\ num \in Files /\ num # mfile /\ fpos \in [Files -> Nat] /\ mfile \in Files
  BY <1>1 DEF Copying, MainPlace, ImportPlace, Importing
<1>3. /\ Len(Text(num)) \in Nat \ {0} /\ DOMAIN Text(num) = 1 .. Len(Text(num))
      /\ Text(num)[Len(Text(num))] = End
      /\ \A i \in DOMAIN Text(num) : Text(num)[i] \in Lines
  BY <1>1, <1>2, Texts
<1>4. fpos[num] \in 1 .. Len(Text(num))
  <2>1. CASE pc = "body"
    <3>1. PICK j \in DOMAIN Text(num) : j >= fpos[num]
      BY <1>1, <2>1 DEF Copying, ImportPlace
    <3> QED
      BY <1>1, <1>3, <2>1, <3>1 DEF Copying, ImportPlace
  <2>2. CASE pc \in {"find", "variable", "mark"}
    BY <1>1, <1>3, <2>2 DEF Copying, ImportPlace
  <2> QED
    BY <2>1, <2>2
<1>5. LineOf(num) = Text(num)[fpos[num]]
  BY DEF LineOf, Text
<1>6. full \in Seq(Lines) /\ DeclFirst(full) /\ link = [g |-> link.g, e |-> link.e]
  BY <1>1 DEF Copying, Together, Names
<1> QED
  BY <1>1, <1>2, <1>3, <1>4, <1>5, <1>6

(* The file imported from is searched for the .global.                     *)
LEMMA FindLinks == ASSUME LinkInv, Find PROVE LinkInv'
<1> DEFINE l == LineOf(num)
           p == fpos[num]
           t == Text(num)
           next == t[p + 1]
<1>1. pc = "find" /\ UNCHANGED <<prog, link, mfile, num, gvars, code, data, out>>
  BY DEF Find
<1>2. /\ prog \in Programs /\ Copying /\ num \in Files /\ num # mfile
      /\ fpos \in [Files -> Nat] /\ p \in 1 .. Len(t) /\ Len(t) \in Nat \ {0}
      /\ DOMAIN t = 1 .. Len(t) /\ l = t[p] /\ (l # End => p + 1 \in DOMAIN t)
      /\ full \in Seq(Lines) /\ DeclFirst(full) /\ mfile \in Files
  BY <1>1, AtImport
<1>3. link = [g |-> link.g, e |-> link.e]
  BY <1>1, AtImport
<1>4. Text(num)' = t /\ Files' = Files /\ num' = num /\ mfile' = mfile
  BY <1>1, SameProgram DEF Text
<1>5. /\ t[Len(t)] = End /\ (l # End => next \in Lines)
      /\ l.k = "global" => \/ next.k = "decl"
                           \/ \E j \in DOMAIN t : j > p + 1 /\ t[j].k = "ret"
      /\ \A i \in DOMAIN t : Continues(t[i]) => i > 1 /\ IsData(t[i - 1])
  BY <1>2, Texts
<1>6. End.k = "end"
  BY DEF End
<1>7. \/ /\ l = Global(word) /\ full' = Append(full, next)
         /\ fpos' = [fpos EXCEPT ![num] = p + 2]
         /\ IF next.k = "decl" THEN pc' = "variable" ELSE pc' = "body"
      \/ l = End /\ pc' = "extern" /\ UNCHANGED <<fpos, full>>
      \/ l # End /\ pc' = pc /\ full' = full /\ fpos' = [fpos EXCEPT ![num] = p + 1]
  BY DEF Find, Go, Read, Copy, Text
<1> HIDE DEF l, p, t, next
<1>8. CASE /\ l = Global(word) /\ full' = Append(full, next)
           /\ fpos' = [fpos EXCEPT ![num] = p + 2]
           /\ IF next.k = "decl" THEN pc' = "variable" ELSE pc' = "body"
  <2>1. l.k = "global" /\ l # End
    BY <1>6, <1>8 DEF Global
  <2>2. ~Continues(next)
    <3>1. Continues(next) => IsData(l)
      BY <1>2, <1>5, <2>1 DEF next
    <3> QED
      BY <2>1, <3>1 DEF IsData
  <2>3. /\ full' \in Seq(Lines) /\ DeclFirst(full') /\ (HasDecl(full) => HasDecl(full'))
        /\ next.k = "decl" => HasDecl(full')
    BY <1>2, <1>5, <1>8, <2>1, <2>2, OneCopied
  <2>4. fpos' \in [Files -> Nat] /\ fpos'[mfile] = fpos[mfile] /\ fpos'[num] = p + 2
    BY <1>2, <1>8
  <2>5. pc' \in {"variable", "body"} /\ (pc' = "variable" <=> next.k = "decl")
    BY <1>8
  <2>6. ImportPlace'
    <3>1. CASE pc' = "variable"
      <4>1. p + 1 # Len(t)
        <5>1. t[p + 1].k = "decl"
          BY <2>5, <3>1 DEF next
        <5>2. t[Len(t)].k = "end"
          BY <1>5, <1>6
        <5> QED
          BY <5>1, <5>2
      <4>2. fpos'[num] \in DOMAIN t
        <5>1. p \in Nat /\ Len(t) \in Nat /\ p + 1 <= Len(t)
          BY <1>2, <2>1
        <5>2. p + 2 \in 1 .. Len(t)
          BY <4>1, <5>1
        <5> QED
          BY <1>2, <2>4, <5>2
      <4> QED
        BY <1>2, <1>4, <2>3, <2>5, <3>1, <4>2 DEF ImportPlace, Importing
    <3>2. CASE pc' = "body"
      <4>1. PICK j \in DOMAIN t : j > p + 1 /\ t[j].k = "ret"
        BY <1>5, <2>1, <2>5, <3>2
      <4>2. j >= fpos'[num] /\ fpos'[num] \in Nat \ {0} /\ p + 2 \in DOMAIN t
        BY <1>2, <2>4, <4>1
      <4>3. LineOf(num)' = t[p + 2]
        BY <1>1, <2>4 DEF LineOf, t, Text
      <4>4. Continues(t[p + 2]) => HasDecl(full')
        <5>1. Continues(t[p + 2]) => IsData(next)
          BY <1>2, <1>5, <4>2, SMTT(30) DEF next
        <5> QED
          BY <2>2, <2>3, <5>1 DEF IsData, Continues
      <4> QED
        BY <1>2, <1>4, <3>2, <4>1, <4>2, <4>3, <4>4 DEF ImportPlace, Importing
    <3> QED
      BY <2>5, <3>1, <3>2
  <2>7. pc \in {"extern"} \cup Importing /\ pc' \in {"extern", "tail"} \cup Importing
    BY <1>1, <2>5 DEF Importing
  <2> QED
    BY <1>1, <1>3, <2>3, <2>4, <2>6, <2>7, MainWaits
<1>9. CASE l = End /\ pc' = "extern" /\ UNCHANGED <<fpos, full>>
  <2>1. ImportPlace'
    BY <1>9 DEF ImportPlace, Importing
  <2>2. pc \in {"extern"} \cup Importing /\ pc' \in {"extern", "tail"} \cup Importing
    BY <1>1, <1>9 DEF Importing
  <2> QED
    BY <1>1, <1>2, <1>3, <1>9, <2>1, <2>2, MainWaits
<1>10. CASE l # End /\ pc' = pc /\ full' = full /\ fpos' = [fpos EXCEPT ![num] = p + 1]
  <2>1. fpos' \in [Files -> Nat] /\ fpos'[mfile] = fpos[mfile] /\ fpos'[num] = p + 1
    BY <1>2, <1>10
  <2>2. ImportPlace'
    BY <1>1, <1>2, <1>4, <1>10, <2>1 DEF ImportPlace, Importing
  <2>3. pc \in {"extern"} \cup Importing /\ pc' \in {"extern", "tail"} \cup Importing
    BY <1>1, <1>10 DEF Importing
  <2> QED
    BY <1>1, <1>2, <1>3, <1>10, <2>1, <2>2, <2>3, MainWaits
<1> QED
  BY <1>7, <1>8, <1>9, <1>10

(* An imported variable is copied.                                         *)
LEMMA ImportVariableLinks == ASSUME LinkInv, ImportVariable PROVE LinkInv'
<1> DEFINE l == LineOf(num)
           p == fpos[num]
           t == Text(num)
<1>1. pc = "variable" /\ UNCHANGED <<prog, link, mfile, num, gvars, code, data, out>>
  BY DEF ImportVariable
<1>2. /\ prog \in Programs /\ Copying /\ num \in Files /\ num # mfile
      /\ fpos \in [Files -> Nat] /\ p \in 1 .. Len(t) /\ l \in Lines
      /\ l = t[p] /\ (l # End => p + 1 \in DOMAIN t)
      /\ full \in Seq(Lines) /\ DeclFirst(full) /\ mfile \in Files
  BY <1>1, AtImport
<1>3. link = [g |-> link.g, e |-> link.e] /\ HasDecl(full)
  BY <1>1, <1>2, AtImport DEF Copying, ImportPlace
<1>4. /\ Text(num)' = t /\ Files' = Files /\ num' = num /\ mfile' = mfile
  BY <1>1, SameProgram DEF Text
<1>5. /\ full' = full \/ full' = Append(full, l)
      /\ fpos' = [fpos EXCEPT ![num] = p + 1]
      /\ pc' \in {"variable", "extern", "find"} /\ (l = End => pc' = "extern")
  BY <1>1 DEF ImportVariable, Go, Read, Fill, End
<1> HIDE DEF l, p, t
<1>6. fpos' \in [Files -> Nat] /\ fpos'[mfile] = fpos[mfile] /\ fpos'[num] = p + 1
  BY <1>2, <1>5
<1>7. full' \in Seq(Lines) /\ DeclFirst(full') /\ HasDecl(full')
  <2>1. CASE full' = full
    BY <1>2, <1>3, <2>1
  <2>2. CASE full' = Append(full, l)
    BY <1>2, <1>3, <2>2, OneCopied
  <2> QED
    BY <1>5, <2>1, <2>2
<1>8. ImportPlace'
  <2>1. CASE l = End
    BY <1>5, <2>1 DEF ImportPlace, Importing
  <2>2. CASE l # End
    BY <1>2, <1>4, <1>5, <1>6, <1>7, <2>2 DEF ImportPlace, Importing
  <2> QED
    BY <2>1, <2>2
<1>9. pc \in {"extern"} \cup Importing /\ pc' \in {"extern", "tail"} \cup Importing
  BY <1>1, <1>5 DEF Importing
<1> QED
  BY <1>1, <1>3, <1>6, <1>7, <1>8, <1>9, MainWaits

(* The body of an imported function is copied up to RET.                   *)
LEMMA ImportBodyLinks == ASSUME LinkInv, ImportBody PROVE LinkInv'
<1> DEFINE l == LineOf(num)
           p == fpos[num]
           t == Text(num)
<1>1. pc = "body" /\ UNCHANGED <<prog, link, mfile, num, gvars, code, data, out>>
  BY DEF ImportBody
<1>2. /\ prog \in Programs /\ Copying /\ num \in Files /\ num # mfile
      /\ fpos \in [Files -> Nat] /\ p \in 1 .. Len(t) /\ l \in Lines
      /\ Len(t) \in Nat /\ DOMAIN t = 1 .. Len(t)
      /\ l = t[p] /\ (l # End => p + 1 \in DOMAIN t)
      /\ full \in Seq(Lines) /\ DeclFirst(full) /\ mfile \in Files
  BY <1>1, AtImport
<1>3. link = [g |-> link.g, e |-> link.e]
  BY <1>1, AtImport
<1>4. /\ Continues(l) => HasDecl(full)
      /\ \E j \in DOMAIN t : j >= p /\ t[j].k = "ret"
      /\ \A i \in DOMAIN t : Continues(t[i]) => i > 1 /\ IsData(t[i - 1])
  BY <1>1, <1>2, Texts DEF Copying, ImportPlace
<1>5. /\ Text(num)' = t /\ Files' = Files /\ num' = num /\ mfile' = mfile
  BY <1>1, SameProgram DEF Text
<1>6. /\ full' = Append(full, l) /\ fpos' = [fpos EXCEPT ![num] = p + 1]
      /\ IF l.k = "ret" THEN pc' = "mark" ELSE pc' = "body"
  BY <1>1 DEF ImportBody, Go, Read, Copy
<1>7. End.k = "end"
  BY DEF End
<1> HIDE DEF l, p, t
<1>8. fpos' \in [Files -> Nat] /\ fpos'[mfile] = fpos[mfile] /\ fpos'[num] = p + 1
  BY <1>2, <1>6
<1>9. /\ full' \in Seq(Lines) /\ DeclFirst(full') /\ (HasDecl(full) => HasDecl(full'))
      /\ IsData(l) => HasDecl(full')
  <2>1. /\ full' \in Seq(Lines) /\ DeclFirst(full') /\ (HasDecl(full) => HasDecl(full'))
        /\ l.k = "decl" => HasDecl(full')
    BY <1>2, <1>4, <1>6, OneCopied
  <2> QED
    BY <1>4, <2>1 DEF IsData, Continues
<1>10. ImportPlace'
  <2>1. CASE l.k = "ret"
    <3>1. p + 1 \in DOMAIN t
      BY <1>2, <1>7, <2>1
    <3> QED
      BY <1>2, <1>5, <1>6, <1>8, <2>1, <3>1 DEF ImportPlace, Importing
  <2>2. CASE l.k # "ret"
    <3>1. PICK j \in DOMAIN t : j >= p /\ t[j].k = "ret"
      BY <1>4
    <3>2. j # p /\ j \in 1 .. Len(t) /\ p \in Nat \ {0}
      BY <1>2, <2>2, <3>1
    <3>3. j >= p + 1 /\ p + 1 \in 1 .. Len(t) /\ p + 1 \in Nat \ {0} /\ (p + 1) - 1 = p
      BY <1>2, <3>1, <3>2
    <3>4. Continues(t[p + 1]) => HasDecl(full')
      BY <1>2, <1>4, <1>9, <3>3
    <3>5. LineOf(num)' = t[p + 1]
      BY <1>1, <1>8 DEF LineOf, t, Text
    <3> QED
      BY <1>2, <1>5, <1>6, <1>8, <2>2, <3>1, <3>3, <3>4, <3>5 DEF ImportPlace, Importing
  <2> QED
    BY <2>1, <2>2
<1>11. pc \in {"extern"} \cup Importing /\ pc' \in {"extern", "tail"} \cup Importing
  BY <1>1, <1>6 DEF Importing
<1> QED
  BY <1>1, <1>3, <1>8, <1>9, <1>10, <1>11, MainWaits

(* Names the function uses are marked.                                     *)
LEMMA MarkExternsLinks == ASSUME LinkInv, MarkExterns PROVE LinkInv'
<1> DEFINE l == LineOf(num)
           p == fpos[num]
           t == Text(num)
<1>1. pc = "mark" /\ UNCHANGED <<prog, mfile, num, full, gvars, code, data, out>>
  BY DEF MarkExterns
<1>2. /\ prog \in Programs /\ Copying /\ num \in Files /\ num # mfile
      /\ fpos \in [Files -> Nat] /\ p \in 1 .. Len(t) /\ l \in Lines
      /\ Len(t) \in Nat /\ DOMAIN t = 1 .. Len(t)
      /\ l = t[p] /\ (l # End => p + 1 \in DOMAIN t)
      /\ full \in Seq(Lines) /\ DeclFirst(full) /\ mfile \in Files
  BY <1>1, AtImport
<1>3. link = [g |-> link.g, e |-> link.e]
  BY <1>1, AtImport
<1>4. link'.g = link.g /\ link' = [g |-> link.g, e |-> link'.e]
  <2>1. \E e : link' = [link EXCEPT !.e = e]
    BY DEF MarkExterns
  <2> QED
    BY <1>3, <2>1
<1>5. /\ Text(num)' = t /\ Files' = Files /\ num' = num /\ mfile' = mfile /\ Lines' = Lines
  BY <1>1, SameProgram DEF Text
<1>6. pc' = "decls" /\ buf' = l /\ fpos' = [fpos EXCEPT ![num] = p + 1]
  BY DEF MarkExterns, Go, Read
<1> HIDE DEF l, p, t
<1>7. fpos' \in [Files -> Nat] /\ fpos'[mfile] = fpos[mfile] /\ fpos'[num] = p + 1
  BY <1>2, <1>6
<1>8. p + 1 \in 1 .. Len(t) + 1
  BY <1>2
<1>9. ImportPlace'
  BY <1>2, <1>5, <1>6, <1>7, <1>8 DEF ImportPlace, Importing
<1>10. pc \in {"extern"} \cup Importing /\ pc' \in {"extern", "tail"} \cup Importing
  BY <1>1, <1>6 DEF Importing
<1> QED
  BY <1>1, <1>2, <1>4, <1>7, <1>9, <1>10, MainWaits

\* The .FILL lines after a declaration end in the file.
LEMMA FillsEnd ==
  ASSUME NEW S, NEW rest \in Seq(S), Len(rest) > 0, rest[Len(rest)] = End
  PROVE  Min({i \in DOMAIN rest : rest[i] # Fill}) \in DOMAIN rest
<1> DEFINE others == {i \in DOMAIN rest : rest[i] # Fill}
<1>1. End # Fill
  <2>1. End.k = "end" /\ Fill.k = "fill"
    BY DEF End, Fill
  <2> QED
    BY <2>1
<1>2. Len(rest) \in others /\ others \subseteq Nat /\ others \subseteq DOMAIN rest
  BY <1>1
<1> HIDE DEF others
<1>3. Min(others) \in others
  BY <1>2, MinIsLeast
<1>4. Min(others) \in DOMAIN rest
  BY <1>2, <1>3
<1> QED
  BY <1>4 DEF others

(* A declaration and its .FILL lines are within the file.                  *)
LEMMA Taken ==
  ASSUME NEW S, NEW t \in Seq(S), NEW p \in DOMAIN t, t[Len(t)] = End, NEW stop \in Nat,
         NEW rest, rest = SubSeq(t, p, Len(t)), stop \in DOMAIN rest
  PROVE  /\ stop \in Nat \ {0} /\ rest[stop] \in S /\ p + stop \in 1 .. Len(t) + 1
         /\ rest[stop] # End => p + stop \in DOMAIN t
         /\ SubSeq(rest, 1, stop - 1) \in Seq(S)
<1>1. Len(t) \in Nat /\ DOMAIN t = 1 .. Len(t) /\ p \in 1 .. Len(t)
  OBVIOUS
<1>2. PICK n : n = Len(t)
  OBVIOUS
<1>3. /\ rest \in Seq(S) /\ Len(rest) = n - p + 1 /\ DOMAIN rest = 1 .. n - p + 1
      /\ \A i \in 1 .. n - p + 1 : rest[i] = t[p + i - 1]
  BY <1>1, <1>2
<1>4. stop \in 1 .. n - p + 1
  BY <1>3
<1>5. stop \in Nat \ {0} /\ p + stop \in 1 .. n + 1
  <2>1. n \in Nat /\ p \in 1 .. n
    BY <1>1, <1>2
  <2>2. stop >= 1 /\ p + stop >= 1 /\ p + stop <= n + 1
    BY <1>4, <2>1
  <2> QED
    BY <2>1, <2>2
<1>6. rest[stop] \in S
  BY <1>3
<1>7. ASSUME rest[stop] # End PROVE p + stop \in 1 .. n
  <2>1. rest[stop] = t[p + stop - 1]
    BY <1>3, <1>4
  <2>2. p + stop - 1 # n
    BY <1>2, <1>7, <2>1
  <2> QED
    BY <1>1, <1>2, <1>4, <2>2
<1>8. SubSeq(rest, 1, stop - 1) \in Seq(S)
  <2>1. stop - 1 <= Len(rest) /\ stop - 1 \in Nat
    BY <1>1, <1>2, <1>3, <1>4
  <2> QED
    BY <1>3, <2>1, SMTT(30)
<1> QED
  BY <1>1, <1>2, <1>5, <1>6, <1>7, <1>8

(* The declarations a function uses are copied.                            *)
LEMMA ImportDeclsLinks == ASSUME LinkInv, ImportDecls PROVE LinkInv'
<1> DEFINE p == fpos[num]
           t == Text(num)
           rest == SubSeq(t, p, Len(t))
           stop == Min({i \in DOMAIN rest : rest[i] # Fill})
<1>1. pc = "decls" /\ UNCHANGED <<prog, link, mfile, num, gvars, code, data, out>>
  BY DEF ImportDecls
<1>2. /\ prog \in Programs /\ Copying /\ num \in Files /\ num # mfile /\ mfile \in Files
      /\ fpos \in [Files -> Nat] /\ full \in Seq(Lines) /\ DeclFirst(full)
      /\ link = [g |-> link.g, e |-> link.e]
      /\ buf \in Lines /\ p \in 1 .. Len(t) + 1 /\ (buf # End => p \in DOMAIN t)
  BY <1>1 DEF LinkInv, Copying, ImportPlace, MainPlace, Together, Names, Importing
<1>3. /\ Len(t) \in Nat \ {0} /\ DOMAIN t = 1 .. Len(t) /\ t[Len(t)] = End
      /\ \A i \in DOMAIN t : t[i] \in Lines
  BY <1>1, <1>2, Texts
<1>4. /\ Text(num)' = t /\ Files' = Files /\ Lines' = Lines /\ num' = num /\ mfile' = mfile
  BY <1>1, SameProgram, SMTT(30) DEF Text
<1>5. \/ pc' = "extern" /\ UNCHANGED <<fpos, full>>
      \/ UNCHANGED <<pc, fpos, buf, full>>
      \/ /\ buf.k = "decl" /\ full' = Append(full, buf) \o SubSeq(rest, 1, stop - 1)
         /\ buf' = rest[stop] /\ fpos' = [fpos EXCEPT ![num] = p + stop] /\ pc' = pc
      \/ buf' = t[1] /\ fpos' = [fpos EXCEPT ![num] = 2] /\ UNCHANGED <<pc, full>>
      \/ /\ buf # End /\ buf' = t[p] /\ fpos' = [fpos EXCEPT ![num] = p + 1]
         /\ UNCHANGED <<pc, full>>
  BY DEF ImportDecls, Go, Read, LineOf, Text
<1> HIDE DEF p, t, rest, stop
<1>6. pc \in {"extern"} \cup Importing /\ pc' \in {"extern", "tail"} \cup Importing
  BY <1>1, <1>5 DEF Importing
<1>7. CASE pc' = "extern" /\ UNCHANGED <<fpos, full>>
  <2>1. ImportPlace'
    BY <1>7 DEF ImportPlace, Importing
  <2> QED
    BY <1>1, <1>2, <1>6, <1>7, <2>1, MainWaits
<1>8. CASE UNCHANGED <<pc, fpos, buf, full>>
  <2>1. ImportPlace'
    BY <1>1, <1>2, <1>4, <1>8 DEF ImportPlace, Importing, p
  <2> QED
    BY <1>1, <1>2, <1>6, <1>8, <2>1, MainWaits
<1>9. CASE /\ buf.k = "decl" /\ full' = Append(full, buf) \o SubSeq(rest, 1, stop - 1)
           /\ buf' = rest[stop] /\ fpos' = [fpos EXCEPT ![num] = p + stop] /\ pc' = pc
  <2>1. buf # End
    BY <1>9 DEF End
  <2>2. t \in Seq(Lines)
    <3>1. IsFile(t)
      BY <1>2, LinkerConstants DEF Files, Text, t
    <3>2. t \in Seq({t[i] : i \in DOMAIN t})
      BY <3>1 DEF IsFile, IsText
    <3>3. t = [i \in 1 .. Len(t) |-> t[i]]
      BY <1>3, <3>2
    <3>4. t \in [1 .. Len(t) -> Lines]
      BY <1>3, <3>3
    <3> QED
      BY <1>3, <3>4
  <2>3. /\ stop \in Nat \ {0} /\ buf' \in Lines /\ p + stop \in 1 .. Len(t) + 1
        /\ buf' # End => p + stop \in DOMAIN t
        /\ SubSeq(rest, 1, stop - 1) \in Seq(Lines)
    <3>1. rest = SubSeq(t, p, Len(t)) /\ stop = Min({i \in DOMAIN rest : rest[i] # Fill})
      BY DEF rest, stop
    <3>2. p \in DOMAIN t /\ t[Len(t)] = End
      BY <1>2, <1>3, <2>1
    <3>3. /\ rest \in Seq(Lines) /\ Len(rest) > 0 /\ rest[Len(rest)] = End
          /\ DOMAIN rest \subseteq Nat
      BY <1>3, <2>2, <3>1, <3>2
    <3>4. stop \in DOMAIN rest
      BY <3>1, <3>3, FillsEnd
    <3>5. /\ stop \in Nat \ {0} /\ rest[stop] \in Lines /\ p + stop \in 1 .. Len(t) + 1
          /\ rest[stop] # End => p + stop \in DOMAIN t
          /\ SubSeq(rest, 1, stop - 1) \in Seq(Lines)
      BY <2>2, <3>1, <3>2, <3>3, <3>4, Taken
    <3> QED
      BY <1>9, <3>5
  <2> DEFINE s == Append(full, buf)
             u == SubSeq(rest, 1, stop - 1)
  <2>4. s \in Seq(Lines) /\ HasDecl(s) /\ DeclFirst(s)
    <3>1. ~Continues(buf)
      BY <1>9 DEF Continues
    <3> QED
      BY <1>2, <1>9, <3>1, OneCopied
  <2>5. u \in Seq(Lines) /\ full' = s \o u
    BY <1>9, <2>3
  <2> HIDE DEF s, u
  <2>6. full' \in Seq(Lines) /\ DeclFirst(full') /\ HasDecl(full')
    BY <2>4, <2>5, ManyCopied
  <2>7. fpos' \in [Files -> Nat] /\ fpos'[mfile] = fpos[mfile] /\ fpos'[num] = p + stop
    BY <1>2, <1>9, <2>3
  <2>8. ImportPlace'
    BY <1>1, <1>2, <1>4, <1>9, <2>3, <2>7 DEF ImportPlace, Importing
  <2> QED
    BY <1>1, <1>2, <1>6, <2>6, <2>7, <2>8, MainWaits
<1>10. CASE buf' = t[1] /\ fpos' = [fpos EXCEPT ![num] = 2] /\ UNCHANGED <<pc, full>>
  <2>1. fpos' \in [Files -> Nat] /\ fpos'[mfile] = fpos[mfile] /\ fpos'[num] = 2
    BY <1>2, <1>10
  <2>2. buf' \in Lines /\ 2 \in 1 .. Len(t) + 1 /\ (buf' # End => 2 \in DOMAIN t)
    BY <1>3, <1>10
  <2>3. ImportPlace'
    BY <1>1, <1>2, <1>4, <1>10, <2>1, <2>2 DEF ImportPlace, Importing
  <2> QED
    BY <1>1, <1>2, <1>6, <1>10, <2>1, <2>3, MainWaits
<1>11. CASE /\ buf # End /\ buf' = t[p] /\ fpos' = [fpos EXCEPT ![num] = p + 1]
            /\ UNCHANGED <<pc, full>>
  <2>1. fpos' \in [Files -> Nat] /\ fpos'[mfile] = fpos[mfile] /\ fpos'[num] = p + 1
    BY <1>2, <1>11
  <2>2. buf' \in Lines /\ p + 1 \in 1 .. Len(t) + 1 /\ (buf' # End => p + 1 \in DOMAIN t)
    <3>1. p \in 1 .. Len(t) /\ (buf' # End => p # Len(t))
      BY <1>2, <1>3, <1>11, SMTT(30)
    <3>2. Len(t) \in Nat /\ buf' \in Lines
      BY <1>3, <1>11, <3>1
    <3>3. p + 1 \in 1 .. Len(t) + 1 /\ (buf' # End => p + 1 \in 1 .. Len(t))
      BY <3>1, <3>2
    <3> QED
      BY <1>3, <3>2, <3>3
  <2>3. ImportPlace'
    BY <1>1, <1>2, <1>4, <1>11, <2>1, <2>2 DEF ImportPlace, Importing
  <2> QED
    BY <1>1, <1>2, <1>6, <1>11, <2>1, <2>3, MainWaits
<1> QED
  BY <1>5, <1>7, <1>8, <1>9, <1>10, <1>11

----------------------------------------------------------------------------
(* Variables and code are separated.                                       *)
LEMMA SizesAppend ==
  ASSUME NEW s, Sized(s), NEW t, Len(t) = Len(s) + 1,
         \A i \in 1 .. Len(s) : t[i] = s[i], t[Len(s) + 1].size \in Int
  PROVE  /\ Sized(t) /\ \A i \in 0 .. Len(s) : SizesTo(t)[i] = SizesTo(s)[i]
         /\ SizesTo(t)[Len(s) + 1] = SizesTo(s)[Len(s)] + t[Len(s) + 1].size
<1>1. Len(s) \in Nat /\ \A i \in 1 .. Len(s) : s[i].size \in Int
  BY DEF Sized
<1>2. Sized(t)
  <2>1. \A i \in 1 .. Len(s) + 1 : i \in 1 .. Len(s) \/ i = Len(s) + 1
    BY <1>1
  <2> QED
    BY <1>1, <2>1 DEF Sized
<1>3. \A i \in 0 .. Len(s) : SizesTo(t)[i] = SizesTo(s)[i]
  BY <1>1, <1>2, SizesAgree
<1>4. SizesTo(t)[Len(s) + 1] = SizesTo(t)[Len(s)] + t[Len(s) + 1].size
  <2>1. \A i \in 1 .. Len(t) : SizesTo(t)[i] = SizesTo(t)[i - 1] + t[i].size
    BY <1>2, SizesDefined
  <2>2. Len(s) + 1 \in 1 .. Len(t) /\ (Len(s) + 1) - 1 = Len(s)
    BY <1>1
  <2> QED
    BY <2>1, <2>2
<1> QED
  BY <1>1, <1>2, <1>3, <1>4

(* The last variable grows: so does the last sum only.                     *)
LEMMA SizesGrow ==
  ASSUME NEW s, Sized(s), Len(s) > 0, NEW t, Len(t) = Len(s), NEW c \in Int,
         \A i \in 1 .. Len(s) - 1 : t[i].size = s[i].size,
         t[Len(s)].size = s[Len(s)].size + c
  PROVE  /\ Sized(t) /\ \A i \in 0 .. Len(s) - 1 : SizesTo(t)[i] = SizesTo(s)[i]
         /\ SizesTo(t)[Len(s)] = SizesTo(s)[Len(s)] + c
<1>1. Len(s) \in Nat \ {0} /\ \A i \in 1 .. Len(s) : s[i].size \in Int
  BY DEF Sized
<1>2. PICK n : n = Len(s)
  OBVIOUS
<1>3. Sized(t)
  <2>1. \A i \in 1 .. n : i \in 1 .. n - 1 \/ i = n
    BY <1>1, <1>2
  <2>2. \A i \in 1 .. n : t[i].size \in Int
    BY <1>1, <1>2, <2>1
  <2> QED
    BY <1>1, <1>2, <2>2 DEF Sized
<1>4. \A i \in 0 .. n - 1 : SizesTo(t)[i] = SizesTo(s)[i]
  <2>1. n - 1 \in Nat /\ n - 1 <= Len(s) /\ n - 1 <= Len(t)
    BY <1>1, <1>2
  <2>2. \A i \in 1 .. n - 1 : s[i].size = t[i].size
    BY <1>2
  <2> QED
    BY <1>3, <2>1, <2>2, SizesAgree
<1>5. /\ SizesTo(t)[n] = SizesTo(t)[n - 1] + t[n].size
      /\ SizesTo(s)[n] = SizesTo(s)[n - 1] + s[n].size /\ SizesTo(s)[n - 1] \in Int
  <2>1. /\ SizesTo(s) \in [0 .. Len(s) -> Int]
        /\ \A i \in 1 .. Len(s) : SizesTo(s)[i] = SizesTo(s)[i - 1] + s[i].size
        /\ \A i \in 1 .. Len(t) : SizesTo(t)[i] = SizesTo(t)[i - 1] + t[i].size
    BY <1>3, SizesDefined
  <2>2. n \in 1 .. Len(s) /\ n \in 1 .. Len(t) /\ n - 1 \in 0 .. Len(s)
    BY <1>1, <1>2
  <2> QED
    BY <2>1, <2>2
<1>6. SizesTo(t)[n] = SizesTo(s)[n] + c
  <2>1. SizesTo(t)[n - 1] = SizesTo(s)[n - 1] /\ s[n].size \in Int /\ t[n].size = s[n].size + c
    BY <1>1, <1>2, <1>4
  <2> QED
    BY <1>5, <2>1
<1> QED
  BY <1>2, <1>3, <1>4, <1>6

\* A declaration: the next variable, at the end of the data.
LEMMA Declared ==
  ASSUME Laid, NEW l \in Lines, l.k = "decl", l.size \in Int, Lines' = Lines,
         gvars' = Append(gvars, [n |-> l.n, size |-> l.size]), data' = Append(data, l)
  PROVE  Laid'
<1> DEFINE g == Len(gvars)
           d == Len(data)
           x == [n |-> l.n, size |-> l.size]
<1>1. /\ IsSeq(gvars) /\ Sized(gvars) /\ Sized(data) /\ data \in Seq(Lines)
      /\ \A j \in DOMAIN gvars : gvars[j] = [n |-> gvars[j].n, size |-> gvars[j].size]
      /\ SizesTo(gvars)[g] = SizesTo(data)[d]
  BY DEF Laid
<1>2. /\ IsSeq(gvars') /\ g \in Nat /\ DOMAIN gvars = 1 .. g /\ DOMAIN gvars' = 1 .. g + 1
      /\ \A i \in 1 .. g : gvars'[i] = gvars[i]
      /\ gvars'[g + 1] = x
  BY <1>1, Appended
<1>3. /\ data' \in Seq(Lines) /\ d \in Nat /\ DOMAIN data = 1 .. d /\ DOMAIN data' = 1 .. d + 1
      /\ Len(data') = d + 1 /\ data'[d + 1] = l
      /\ \A i \in 1 .. d : data'[i] = data[i]
  BY <1>1, OneCopied
<1>4. Len(gvars') = g + 1
  <2>1. DOMAIN gvars' = 1 .. Len(gvars') /\ Len(gvars') \in Nat
    BY <1>2 DEF IsSeq
  <2> QED
    BY <1>2, <2>1
<1>5. x.n = l.n /\ x.size = l.size
  OBVIOUS
<1> HIDE DEF g, d, x
<1>6. /\ Sized(gvars') /\ \A i \in 0 .. g : SizesTo(gvars')[i] = SizesTo(gvars)[i]
      /\ SizesTo(gvars')[g + 1] = SizesTo(gvars)[g] + l.size
  <2>1. /\ Len(gvars') = Len(gvars) + 1 /\ gvars'[Len(gvars) + 1].size \in Int
        /\ \A i \in 1 .. Len(gvars) : gvars'[i] = gvars[i]
    BY <1>2, <1>4, <1>5 DEF g
  <2>2. /\ Sized(gvars') /\ \A i \in 0 .. Len(gvars) : SizesTo(gvars')[i] = SizesTo(gvars)[i]
        /\ SizesTo(gvars')[Len(gvars) + 1]
             = SizesTo(gvars)[Len(gvars)] + gvars'[Len(gvars) + 1].size
    BY <1>1, <2>1, SizesAppend
  <2>3. gvars'[Len(gvars) + 1].size = l.size
    BY <1>2, <1>5 DEF g
  <2> QED
    BY <2>2, <2>3 DEF g
<1>7. /\ Sized(data') /\ \A i \in 0 .. d : SizesTo(data')[i] = SizesTo(data)[i]
      /\ SizesTo(data')[d + 1] = SizesTo(data)[d] + l.size
  <2>1. /\ Len(data') = Len(data) + 1 /\ data'[Len(data) + 1].size \in Int
        /\ \A i \in 1 .. Len(data) : data'[i] = data[i]
    BY <1>3 DEF d
  <2>2. /\ Sized(data') /\ \A i \in 0 .. Len(data) : SizesTo(data')[i] = SizesTo(data)[i]
        /\ SizesTo(data')[Len(data) + 1]
             = SizesTo(data)[Len(data)] + data'[Len(data) + 1].size
    BY <1>1, <2>1, SizesAppend
  <2>3. data'[Len(data) + 1].size = l.size
    BY <1>3 DEF d
  <2> QED
    BY <2>2, <2>3 DEF d
<1>8. PICK q : Placed(q)
  BY DEF Laid
<1>9. \E r : Placed(r)'
  <2>1. PICK r : r = [j \in 1 .. g + 1 |-> IF j = g + 1 THEN d + 1 ELSE q[j]]
    OBVIOUS
  <2>2. /\ q \in [1 .. g -> 1 .. d] /\ \A i, j \in 1 .. g : i < j => q[i] < q[j]
        /\ \A p \in 1 .. d : data[p].k = "decl" => \E j \in 1 .. g : q[j] = p
        /\ \A j \in 1 .. g :
             /\ data[q[j]].k = "decl" /\ data[q[j]].n = gvars[j].n
             /\ SizesTo(gvars)[j - 1] = SizesTo(data)[q[j] - 1]
    BY <1>2, <1>3, <1>8 DEF Placed
  <2>3. /\ r \in [1 .. g + 1 -> 1 .. d + 1] /\ r[g + 1] = d + 1
        /\ \A j \in 1 .. g : r[j] = q[j]
    BY <1>2, <1>3, <2>2, <2>1
  <2>4. \A i \in 1 .. g + 1 : i \in 1 .. g \/ i = g + 1
    BY <1>2
  <2>5. \A i, j \in 1 .. g + 1 : i < j => r[i] < r[j]
    <3> SUFFICES ASSUME NEW i \in 1 .. g + 1, NEW j \in 1 .. g + 1, i < j PROVE r[i] < r[j]
      OBVIOUS
    <3>0. g \in Nat /\ d \in Nat
      BY <1>2, <1>3
    <3>1. i \in 1 .. g
      BY <3>0
    <3>2. q[i] \in 1 .. d /\ r[i] = q[i]
      BY <2>2, <2>3, <3>1
    <3>3. CASE j = g + 1
      BY <2>3, <3>0, <3>2, <3>3
    <3>4. CASE j \in 1 .. g
      BY <2>2, <2>3, <3>1, <3>4
    <3> QED
      BY <2>4, <3>3, <3>4
  <2>6. \A p \in 1 .. d + 1 : data'[p].k = "decl" => \E j \in 1 .. g + 1 : r[j] = p
    <3> SUFFICES ASSUME NEW p \in 1 .. d + 1, data'[p].k = "decl"
                 PROVE  \E j \in 1 .. g + 1 : r[j] = p
      OBVIOUS
    <3>1. CASE p = d + 1
      BY <1>2, <2>3, <3>1
    <3>2. CASE p \in 1 .. d
      <4>1. PICK j \in 1 .. g : q[j] = p
        BY <1>3, <2>2, <3>2
      <4>2. j \in 1 .. g + 1 /\ r[j] = p
        BY <1>2, <2>3, <4>1
      <4> QED
        BY <4>2
    <3> QED
      BY <1>3, <3>1, <3>2
  <2>7. ASSUME NEW j \in 1 .. g + 1
        PROVE  /\ data'[r[j]].k = "decl" /\ data'[r[j]].n = gvars'[j].n
               /\ SizesTo(gvars')[j - 1] = SizesTo(data')[r[j] - 1]
    <3>1. CASE j = g + 1
      <4>1. j - 1 = g /\ r[j] = d + 1 /\ r[j] - 1 = d
        BY <1>2, <1>3, <2>3, <3>1
      <4>2. SizesTo(gvars')[g] = SizesTo(gvars)[g] /\ SizesTo(data')[d] = SizesTo(data)[d]
        BY <1>2, <1>3, <1>6, <1>7
      <4> QED
        BY <1>1, <1>2, <1>3, <1>5, <3>1, <4>1, <4>2
    <3>2. CASE j \in 1 .. g
      <4>1. r[j] = q[j] /\ q[j] \in 1 .. d /\ j - 1 \in 0 .. g /\ q[j] - 1 \in 0 .. d
        BY <1>2, <1>3, <2>2, <2>3, <3>2
      <4>2. gvars'[j] = gvars[j] /\ data'[r[j]] = data[q[j]]
        BY <1>2, <1>3, <3>2, <4>1
      <4>3. /\ SizesTo(gvars')[j - 1] = SizesTo(gvars)[j - 1]
            /\ SizesTo(data')[r[j] - 1] = SizesTo(data)[q[j] - 1]
        BY <1>6, <1>7, <4>1
      <4> QED
        BY <2>2, <3>2, <4>2, <4>3
    <3> QED
      BY <2>4, <3>1, <3>2
  <2>8. Placed(r)'
    BY <1>2, <1>3, <2>3, <2>5, <2>6, <2>7 DEF Placed
  <2> QED
    BY <2>8
<1>10. \A j \in DOMAIN gvars' : gvars'[j] = [n |-> gvars'[j].n, size |-> gvars'[j].size]
  <2>1. \A j \in 1 .. g + 1 : j \in 1 .. g \/ j = g + 1
    BY <1>2
  <2> QED
    BY <1>1, <1>2, <2>1 DEF x
<1>11. SizesTo(gvars')[Len(gvars')] = SizesTo(data')[Len(data')]
  BY <1>1, <1>3, <1>4, <1>6, <1>7
<1> QED
  BY <1>2, <1>3, <1>6, <1>7, <1>9, <1>10, <1>11 DEF Laid, IsSeq

\* More words for the last variable.
LEMMA Continued ==
  ASSUME Laid, NEW l \in Lines, Continues(l), l.size \in Int, Lines' = Lines, gvars # << >>,
         gvars' = Grow(l.size), data' = Append(data, l)
  PROVE  Laid'
<1>1. PICK g, d : g = Len(gvars) /\ d = Len(data)
  OBVIOUS
<1>2. /\ IsSeq(gvars) /\ Sized(gvars) /\ Sized(data) /\ data \in Seq(Lines)
      /\ \A j \in DOMAIN gvars : gvars[j] = [n |-> gvars[j].n, size |-> gvars[j].size]
      /\ SizesTo(gvars)[g] = SizesTo(data)[d]
  BY <1>1 DEF Laid
<1>3. g \in Nat \ {0} /\ DOMAIN gvars = 1 .. g /\ gvars[g].size \in Int
  <2>1. g \in Nat /\ DOMAIN gvars = 1 .. g /\ g # 0
    BY <1>1, <1>2 DEF IsSeq
  <2> QED
    BY <1>1, <1>2, <2>1 DEF Sized
<1>4. gvars' = [gvars EXCEPT ![g].size = @ + l.size]
  BY <1>1 DEF Grow
<1>5. /\ DOMAIN gvars' = 1 .. g /\ \A i \in 1 .. g - 1 : gvars'[i] = gvars[i]
      /\ gvars'[g] = [gvars[g] EXCEPT !.size = @ + l.size]
  BY <1>3, <1>4, SMTT(30)
<1>6. gvars'[g] = [n |-> gvars[g].n, size |-> gvars[g].size + l.size]
  <2>1. gvars[g] = [n |-> gvars[g].n, size |-> gvars[g].size]
    BY <1>2, <1>3
  <2> QED
    BY <1>5, <2>1
<1>7. \A i \in 1 .. g : i \in 1 .. g - 1 \/ i = g
  BY <1>3
<1>8. \A j \in 1 .. g : /\ gvars'[j] = [n |-> gvars'[j].n, size |-> gvars'[j].size]
                        /\ gvars'[j].n = gvars[j].n
  <2> SUFFICES ASSUME NEW j \in 1 .. g
               PROVE  /\ gvars'[j] = [n |-> gvars'[j].n, size |-> gvars'[j].size]
                      /\ gvars'[j].n = gvars[j].n
    OBVIOUS
  <2>1. CASE j = g
    BY <1>6, <2>1
  <2>2. CASE j \in 1 .. g - 1
    BY <1>2, <1>3, <1>5, <2>2
  <2> QED
    BY <1>7, <2>1, <2>2
<1>9. IsSeq(gvars') /\ Len(gvars') = g
  <2>1. gvars' = [i \in 1 .. g |-> gvars'[i]]
    <3>1. gvars = [i \in 1 .. g |-> gvars[i]]
      BY <1>2, <1>3 DEF IsSeq
    <3> QED
      BY <1>3, <1>4, <3>1
  <2>2. gvars' \in [1 .. g -> {gvars'[i] : i \in DOMAIN gvars'}]
    BY <1>5, <2>1
  <2>3. gvars' \in Seq({gvars'[i] : i \in DOMAIN gvars'})
    BY <1>3, <2>2
  <2>4. DOMAIN gvars' = 1 .. Len(gvars') /\ Len(gvars') \in Nat
    BY <2>3
  <2>5. Len(gvars') = g
    BY <1>3, <1>5, <2>4
  <2> QED
    BY <2>3, <2>5 DEF IsSeq
<1>10. /\ data' \in Seq(Lines) /\ d \in Nat /\ DOMAIN data = 1 .. d /\ DOMAIN data' = 1 .. d + 1
       /\ Len(data') = d + 1 /\ data'[d + 1] = l
       /\ \A i \in 1 .. d : data'[i] = data[i]
  BY <1>1, <1>2, OneCopied
<1>11. /\ Sized(gvars') /\ \A i \in 0 .. g - 1 : SizesTo(gvars')[i] = SizesTo(gvars)[i]
       /\ SizesTo(gvars')[g] = SizesTo(gvars)[g] + l.size
  <2>1. /\ Len(gvars) > 0 /\ Len(gvars') = Len(gvars)
        /\ \A i \in 1 .. Len(gvars) - 1 : gvars'[i].size = gvars[i].size
    BY <1>1, <1>3, <1>5, <1>9
  <2>2. gvars'[Len(gvars)].size = gvars[Len(gvars)].size + l.size
    BY <1>1, <1>6
  <2> QED
    BY <1>1, <1>2, <2>1, <2>2, SizesGrow
<1>12. /\ Sized(data') /\ \A i \in 0 .. d : SizesTo(data')[i] = SizesTo(data)[i]
       /\ SizesTo(data')[d + 1] = SizesTo(data)[d] + l.size
  <2>1. /\ Len(data') = Len(data) + 1 /\ data'[Len(data) + 1] = l
        /\ data'[Len(data) + 1].size \in Int
        /\ \A i \in 1 .. Len(data) : data'[i] = data[i]
    BY <1>1, <1>10
  <2>2. /\ Sized(data') /\ \A i \in 0 .. Len(data) : SizesTo(data')[i] = SizesTo(data)[i]
        /\ SizesTo(data')[Len(data) + 1]
             = SizesTo(data)[Len(data)] + data'[Len(data) + 1].size
    BY <1>2, <2>1, SizesAppend
  <2> QED
    BY <1>1, <2>1, <2>2
<1>13. PICK q : Placed(q)
  BY DEF Laid
<1>14. Placed(q)'
  <2>1. /\ q \in [1 .. g -> 1 .. d] /\ \A i, j \in 1 .. g : i < j => q[i] < q[j]
        /\ \A p \in 1 .. d : data[p].k = "decl" => \E j \in 1 .. g : q[j] = p
        /\ \A j \in 1 .. g :
             /\ data[q[j]].k = "decl" /\ data[q[j]].n = gvars[j].n
             /\ SizesTo(gvars)[j - 1] = SizesTo(data)[q[j] - 1]
    BY <1>3, <1>10, <1>13 DEF Placed
  <2>2. q \in [1 .. g -> 1 .. d + 1]
    BY <1>10, <2>1
  <2>3. \A p \in 1 .. d + 1 : data'[p].k = "decl" => \E j \in 1 .. g : q[j] = p
    <3> SUFFICES ASSUME NEW p \in 1 .. d + 1, data'[p].k = "decl"
                 PROVE  \E j \in 1 .. g : q[j] = p
      OBVIOUS
    <3>1. p # d + 1
      BY <1>10 DEF Continues
    <3>2. p \in 1 .. d
      BY <1>10, <3>1
    <3> QED
      BY <1>10, <2>1, <3>2
  <2>4. ASSUME NEW j \in 1 .. g
        PROVE  /\ data'[q[j]].k = "decl" /\ data'[q[j]].n = gvars'[j].n
               /\ SizesTo(gvars')[j - 1] = SizesTo(data')[q[j] - 1]
    <3>1. q[j] \in 1 .. d /\ j - 1 \in 0 .. g - 1 /\ q[j] - 1 \in 0 .. d
      BY <1>3, <1>10, <2>1, SMTT(30)
    <3>2. data'[q[j]] = data[q[j]] /\ gvars'[j].n = gvars[j].n
      BY <1>8, <1>10, <3>1
    <3>3. /\ SizesTo(gvars')[j - 1] = SizesTo(gvars)[j - 1]
          /\ SizesTo(data')[q[j] - 1] = SizesTo(data)[q[j] - 1]
      BY <1>11, <1>12, <3>1
    <3> QED
      BY <2>1, <3>2, <3>3
  <2> QED
    BY <1>5, <1>10, <2>1, <2>2, <2>3, <2>4 DEF Placed
<1>15. SizesTo(gvars')[Len(gvars')] = SizesTo(data')[Len(data')]
  BY <1>2, <1>9, <1>10, <1>11, <1>12
<1> QED
  BY <1>5, <1>8, <1>9, <1>10, <1>11, <1>12, <1>14, <1>15 DEF Laid, IsSeq

(* A line goes to the data or to the code.                                 *)
LEMMA SplitLinks == ASSUME LinkInv, Split PROVE LinkInv'
<1> DEFINE l == full[k]
<1>1. prog \in Programs /\ Separating /\ pc = "split" /\ UNCHANGED <<prog, full, out>>
  BY DEF LinkInv, Split
<1>2. Lines' = Lines
  BY <1>1, SameProgram
<1>3. /\ full \in Seq(Lines) /\ DeclFirst(full) /\ k \in DOMAIN full /\ full[Len(full)] = End
      /\ \A j \in 1 .. k - 1 : full[j].k = "decl" => gvars # << >>
      /\ code \in Seq(Lines) /\ out = << >> /\ Laid
  BY <1>1 DEF Separating
<1>4. l \in Lines /\ WellFormed(l)
  <2>1. l \in Lines
    BY <1>3
  <2> QED
    BY <1>1, <2>1, LinesWellFormed
<1>5. /\ gvars' = CASE l.k = "decl" -> Append(gvars, [n |-> l.n, size |-> l.size])
                    [] Continues(l) -> Grow(l.size)
                    [] OTHER -> gvars
      /\ data' = IF IsData(l) THEN Append(data, l) ELSE data
      /\ code' = code \/ code' = Append(code, l)
      /\ l = End => code' = Append(code, l)
      /\ pc' = IF l = End THEN "emit" ELSE "split"
      /\ k' = IF l = End THEN 1 ELSE k + 1
  BY <1>1 DEF Split, Go, End, IsData
<1> HIDE DEF l
<1>6. code' \in Seq(Lines)
  BY <1>3, <1>4, <1>5
<1>7. gvars # << >> => Len(gvars) \in Nat \ {0}
  BY <1>3 DEF Laid, IsSeq
<1>8. CASE l = End
  <2>1. ~IsData(l) /\ l.k # "decl" /\ ~Continues(l)
    BY <1>8 DEF End, IsData, Continues
  <2>2. gvars' = gvars /\ data' = data
    BY <1>5, <2>1
  <2>3. Laid'
    BY <1>2, <1>3, <2>2 DEF Laid, Placed
  <2>4. code' = Append(code, l)
    BY <1>5, <1>8
  <2>5. k' \in DOMAIN code' /\ code'[Len(code')] = End
    BY <1>3, <1>4, <1>5, <1>8, <2>4
  <2>6. Emitted'
    <3>1. out' = << >> /\ IsSeq(<< >>)
      BY <1>1, <1>3 DEF IsSeq
    <3> QED
      BY <3>1 DEF Emitted, IsSeq
  <2>7. Emitting'
    BY <1>2, <1>6, <2>3, <2>5, <2>6 DEF Emitting
  <2> QED
    BY <1>1, <1>5, <1>8, <2>7 DEF LinkInv, Linked, Importing
<1>9. CASE l # End
  <2>1. k' \in DOMAIN full' /\ k' - 1 = k /\ k \in Nat
    <3>1. k # Len(full)
      BY <1>3, <1>9 DEF l
    <3> QED
      BY <1>1, <1>3, <1>5, <1>9, <3>1
  <2>2. Laid' /\ (l.k = "decl" \/ gvars # << >> => gvars' # << >>)
    <3>1. CASE l.k = "decl"
      <4>1. IsData(l) /\ l.size \in Int
        BY <1>4, <3>1 DEF IsData, WellFormed
      <4>2. gvars' = Append(gvars, [n |-> l.n, size |-> l.size]) /\ data' = Append(data, l)
        BY <1>5, <3>1, <4>1 DEF Continues
      <4>3. gvars' # << >>
        <5>1. DOMAIN gvars' = 1 .. Len(gvars) + 1 /\ Len(gvars) \in Nat
          BY <1>3, <4>2, Appended DEF Laid
        <5> QED
          BY <5>1
      <4> QED
        BY <1>2, <1>3, <1>4, <3>1, <4>1, <4>2, <4>3, Declared
    <3>2. CASE Continues(l)
      <4>1. IsData(l) /\ l.size \in Int /\ l.k # "decl"
        BY <1>4, <3>2 DEF IsData, Continues, WellFormed
      <4>2. gvars' = Grow(l.size) /\ data' = Append(data, l)
        BY <1>5, <3>2, <4>1
      <4>3. gvars # << >>
        <5>1. PICK j \in 1 .. k - 1 : full[j].k = "decl"
          BY <1>3, <3>2 DEF DeclFirst, l
        <5> QED
          BY <1>3, <5>1
      <4>4. Laid'
        BY <1>2, <1>3, <1>4, <3>2, <4>1, <4>2, <4>3, Continued
      <4>5. DOMAIN gvars' = DOMAIN gvars
        BY <4>2, <4>3 DEF Grow
      <4>6. gvars' # << >>
        <5>1. DOMAIN gvars # {}
          BY <1>3, <1>7, <4>3 DEF Laid, IsSeq
        <5> QED
          BY <4>5, <5>1
      <4> QED
        BY <4>4, <4>6
    <3>3. CASE ~IsData(l)
      <4>1. gvars' = gvars /\ data' = data /\ l.k # "decl"
        BY <1>5, <3>3 DEF IsData, Continues
      <4> QED
        BY <1>2, <1>3, <4>1 DEF Laid, Placed
    <3> QED
      BY <3>1, <3>2, <3>3 DEF IsData, Continues
  <2>3. ASSUME NEW j \in 1 .. k' - 1, full'[j].k = "decl" PROVE gvars' # << >>
    <3>1. j \in 1 .. k - 1 \/ j = k
      BY <2>1
    <3> QED
      BY <1>1, <1>3, <2>2, <2>3, <3>1 DEF l
  <2>4. Separating'
    BY <1>1, <1>2, <1>3, <1>6, <2>1, <2>2, <2>3 DEF Separating
  <2> QED
    BY <1>1, <1>5, <1>9, <2>4 DEF LinkInv, Linked, Importing
<1> QED
  BY <1>8, <1>9

----------------------------------------------------------------------------
(* The code is emitted.                                                    *)
LEMMA OffsetIsInt ==
  ASSUME IsSeq(gvars), Sized(gvars), NEW n
  PROVE  OffsetOf(n) \in Int
<1> DEFINE at == {i \in DOMAIN gvars : gvars[i].n = n \/ i = Len(gvars)}
<1>1. CASE gvars = << >>
  BY <1>1 DEF OffsetOf
<1>2. CASE gvars # << >>
  <2>1. Len(gvars) \in Nat \ {0} /\ DOMAIN gvars = 1 .. Len(gvars)
    BY <1>2 DEF IsSeq
  <2>2. at # {} /\ at \subseteq Nat /\ at \subseteq 1 .. Len(gvars)
    BY <2>1
  <2>3. OffsetOf(n) = SizesTo(gvars)[Min(at) - 1]
    BY <1>2 DEF OffsetOf
  <2> HIDE DEF at
  <2>4. Min(at) \in 1 .. Len(gvars)
    BY <2>2, MinIsLeast
  <2>5. Min(at) - 1 \in 0 .. Len(gvars)
    BY <2>1, <2>4
  <2> QED
    BY <2>3, <2>5, SizesDefined
<1> QED
  BY <1>1, <1>2

(* Every element of two sequences joined is of one of them.                *)
LEMMA Joined ==
  ASSUME NEW s, IsSeq(s), NEW t, IsSeq(t)
  PROVE  /\ IsSeq(s \o t)
         /\ \A i \in DOMAIN (s \o t) :
              \/ i \in DOMAIN s /\ (s \o t)[i] = s[i]
              \/ \E j \in DOMAIN t : (s \o t)[i] = t[j]
<1> DEFINE T == {s[i] : i \in DOMAIN s} \cup {t[i] : i \in DOMAIN t}
           u == s \o t
<1>1. s \in Seq(T) /\ t \in Seq(T)
  BY DEF IsSeq
<1> HIDE DEF T
<1>2. /\ u \in Seq(T) /\ Len(s) \in Nat /\ Len(t) \in Nat /\ Len(u) = Len(s) + Len(t)
      /\ DOMAIN s = 1 .. Len(s) /\ DOMAIN t = 1 .. Len(t) /\ DOMAIN u = 1 .. Len(s) + Len(t)
      /\ \A i \in 1 .. Len(s) : u[i] = s[i]
      /\ \A i \in 1 .. Len(t) : u[Len(s) + i] = t[i]
  BY <1>1
<1> HIDE DEF u
<1>3. IsSeq(u)
  <2>1. u = [i \in 1 .. Len(u) |-> u[i]] /\ Len(u) \in Nat /\ DOMAIN u = 1 .. Len(u)
    BY <1>2
  <2>2. u \in [1 .. Len(u) -> {u[i] : i \in DOMAIN u}]
    BY <2>1
  <2>3. u \in Seq({u[i] : i \in DOMAIN u})
    BY <2>1, <2>2
  <2> QED
    BY <2>3 DEF IsSeq
<1>4. ASSUME NEW i \in DOMAIN u
      PROVE  (i \in DOMAIN s /\ u[i] = s[i]) \/ \E j \in DOMAIN t : u[i] = t[j]
  <2>1. CASE i \in 1 .. Len(s)
    BY <1>2, <2>1
  <2>2. CASE i \notin 1 .. Len(s)
    <3>1. i - Len(s) \in 1 .. Len(t) /\ Len(s) + (i - Len(s)) = i
      BY <1>2, <2>2
    <3> QED
      BY <1>2, <3>1
  <2> QED
    BY <2>1, <2>2
<1> QED
  BY <1>3, <1>4 DEF u

(* A sequence of lines is a sequence.                                      *)
LEMMA LinesAreSeq == ASSUME NEW s \in Seq(Lines) PROVE IsSeq(s)
<1>1. Len(s) \in Nat /\ DOMAIN s = 1 .. Len(s) /\ s = [i \in 1 .. Len(s) |-> s[i]]
  OBVIOUS
<1>2. s \in [1 .. Len(s) -> {s[i] : i \in DOMAIN s}]
  BY <1>1
<1>3. s \in Seq({s[i] : i \in DOMAIN s})
  BY <1>1, <1>2
<1> QED
  BY <1>3 DEF IsSeq

(* A line is emitted, or the code of a .LC3GLOBAL.                         *)
LEMMA EmitLinks == ASSUME LinkInv, Emit PROVE LinkInv'
<1> DEFINE l == code[k]
           m == code[k + 1]
           ldr == m.k = "ldr" /\ m.r = l.r
           more == IF ldr THEN m.off ELSE 0
           x == [k |-> "addr", n |-> l.n, r |-> l.r, ldr |-> ldr, off |-> l.off + more,
                 seq |-> calculate_address(l.r, OffsetOf(l.n) + l.off + more, ldr)]
<1>1. /\ prog \in Programs /\ Emitting /\ pc = "emit" /\ UNCHANGED <<prog, code, data, gvars>>
  BY DEF LinkInv, Emit
<1>2. Lines' = Lines
  BY <1>1, SameProgram
<1>3. /\ code \in Seq(Lines) /\ k \in DOMAIN code /\ code[Len(code)] = End
      /\ Laid /\ Emitted /\ IsSeq(out)
  BY <1>1 DEF Emitting, Emitted
<1>4. Laid'
  BY <1>1, <1>2, <1>3 DEF Laid, Placed
<1>5. \A n : OffsetOf(n)' = OffsetOf(n)
  BY <1>1 DEF OffsetOf
<1>6. End.k = "end"
  BY DEF End
<1>7. l \in Lines /\ WellFormed(l) /\ (l # End => k + 1 \in DOMAIN code)
  <2>1. l \in Lines /\ (l # End => k + 1 \in DOMAIN code)
    BY <1>3
  <2> QED
    BY <1>1, <2>1, LinesWellFormed
<1>8. l # End => m \in Lines /\ WellFormed(m) /\ (m # End => k + 2 \in DOMAIN code)
  <2>1. l # End => m \in Lines /\ (m # End => k + 2 \in DOMAIN code)
    BY <1>3, <1>7
  <2> QED
    BY <1>1, <2>1, LinesWellFormed
<1>9. \/ /\ l.k = "use" /\ out' = Append(out, x) /\ k' = (IF ldr THEN k + 2 ELSE k + 1)
         /\ pc' = "emit"
      \/ /\ l.k # "use" /\ l # End /\ out' = Append(out, l) /\ k' = k + 1 /\ pc' = "emit"
      \/ l = End /\ out' = out \o data \o <<End>> /\ pc' \in {"paste", "done"}
  BY <1>1 DEF Emit, Go
<1>10. ASSUME NEW e, out' = Append(out, e),
              e.k = "addr" =>
                /\ e.off \in Int /\ e.ldr \in BOOLEAN /\ e.r \in (0 .. 7) \ {4}
                /\ e.seq = calculate_address(e.r, OffsetOf(e.n) + e.off, e.ldr)
       PROVE  Emitted'
  <2>1. /\ IsSeq(Append(out, e)) /\ DOMAIN out = 1 .. Len(out) /\ Len(out) \in Nat
        /\ DOMAIN Append(out, e) = 1 .. Len(out) + 1
        /\ \A i \in 1 .. Len(out) : Append(out, e)[i] = out[i]
        /\ Append(out, e)[Len(out) + 1] = e
    BY <1>3, Appended
  <2>2. ASSUME NEW i \in DOMAIN out', out'[i].k = "addr"
        PROVE  /\ out'[i].off \in Int /\ out'[i].ldr \in BOOLEAN /\ out'[i].r \in (0 .. 7) \ {4}
               /\ out'[i].seq = calculate_address(out'[i].r, OffsetOf(out'[i].n) + out'[i].off,
                                                  out'[i].ldr)
    <3>1. (i \in DOMAIN out /\ out'[i] = out[i]) \/ out'[i] = e
      BY <1>10, <2>1
    <3> QED
      BY <1>3, <1>10, <2>2, <3>1 DEF Emitted
  <2>3. IsSeq(out')
    BY <1>10, <2>1
  <2> QED
    BY <1>5, <2>2, <2>3 DEF Emitted, IsSeq
<1> HIDE DEF l, m
<1>11. CASE /\ l.k = "use" /\ out' = Append(out, x) /\ k' = (IF ldr THEN k + 2 ELSE k + 1)
            /\ pc' = "emit"
  <2>1. l # End /\ l.off \in Int /\ l.r \in (0 .. 7) \ {4}
    BY <1>6, <1>7, <1>11 DEF WellFormed
  <2>2. ldr => m.off \in Int /\ m # End
    BY <1>6, <1>8, <2>1 DEF WellFormed
  <2>3. more \in Int /\ ldr \in BOOLEAN
    BY <2>2
  <2>4. k' \in DOMAIN code
    BY <1>7, <1>8, <1>11, <2>1, <2>2
  <2> HIDE DEF ldr, more
  <2>5. /\ x.off = l.off + more /\ x.ldr = ldr /\ x.r = l.r /\ x.n = l.n
        /\ x.seq = calculate_address(l.r, OffsetOf(l.n) + l.off + more, ldr)
    OBVIOUS
  <2>6. OffsetOf(l.n) + (l.off + more) = OffsetOf(l.n) + l.off + more /\ x.off \in Int
    <3>1. OffsetOf(l.n) \in Int
      BY <1>3, OffsetIsInt DEF Laid
    <3> QED
      BY <2>1, <2>3, <2>5, <3>1
  <2>7. x.seq = calculate_address(x.r, OffsetOf(x.n) + x.off, x.ldr)
    BY <2>5, <2>6
  <2> HIDE DEF x
  <2>8. Emitted'
    BY <1>10, <1>11, <2>1, <2>3, <2>5, <2>6, <2>7
  <2>9. Emitting'
    BY <1>1, <1>2, <1>3, <1>4, <2>4, <2>8 DEF Emitting
  <2> QED
    BY <1>1, <1>11, <2>9 DEF LinkInv, Linked, Importing
<1>12. CASE l.k # "use" /\ l # End /\ out' = Append(out, l) /\ k' = k + 1 /\ pc' = "emit"
  <2>1. l.k # "addr"
    BY <1>7 DEF WellFormed
  <2>2. Emitted'
    BY <1>10, <1>12, <2>1
  <2>3. Emitting'
    BY <1>1, <1>2, <1>3, <1>4, <1>7, <1>12, <2>2 DEF Emitting
  <2> QED
    BY <1>1, <1>12, <2>3 DEF LinkInv, Linked, Importing
<1>13. CASE l = End /\ out' = out \o data \o <<End>> /\ pc' \in {"paste", "done"}
  <2> DEFINE s == out \o data
  <2>1. IsSeq(data) /\ IsSeq(<<End>>) /\ \A i \in DOMAIN data : data[i].k # "addr"
    <3>1. data \in Seq(Lines) /\ <<End>> \in Seq(Lines)
      BY <1>3 DEF Laid, Lines
    <3>2. \A i \in DOMAIN data : data[i] \in Lines
      BY <3>1
    <3> QED
      BY <1>1, <3>1, <3>2, LinesAreSeq, LinesWellFormed DEF WellFormed
  <2>2. /\ IsSeq(s)
        /\ \A i \in DOMAIN s : \/ i \in DOMAIN out /\ s[i] = out[i]
                               \/ \E j \in DOMAIN data : s[i] = data[j]
    BY <1>3, <2>1, Joined
  <2> HIDE DEF s
  <2>3. /\ IsSeq(s \o <<End>>)
        /\ \A i \in DOMAIN (s \o <<End>>) :
             \/ i \in DOMAIN s /\ (s \o <<End>>)[i] = s[i]
             \/ \E j \in DOMAIN <<End>> : (s \o <<End>>)[i] = <<End>>[j]
    BY <2>1, <2>2, Joined
  <2>4. \A j \in DOMAIN <<End>> : <<End>>[j] = End
    OBVIOUS
  <2>5. out' = s \o <<End>>
    BY <1>13 DEF s
  <2>6. \A i \in DOMAIN out' : out'[i].k = "addr" => i \in DOMAIN out /\ out'[i] = out[i]
    <3> SUFFICES ASSUME NEW i \in DOMAIN out', out'[i].k = "addr"
                 PROVE  i \in DOMAIN out /\ out'[i] = out[i]
      OBVIOUS
    <3>1. i \in DOMAIN s /\ out'[i] = s[i]
      BY <1>6, <2>3, <2>4, <2>5
    <3> QED
      BY <2>1, <2>2, <3>1
  <2>7. IsSeq(out')
    BY <2>3, <2>5
  <2>8. Emitted'
    BY <1>3, <1>5, <2>6, <2>7 DEF Emitted, IsSeq
  <2> QED
    BY <1>1, <1>4, <1>13, <2>8 DEF LinkInv, Linked, Importing
<1> QED
  BY <1>9, <1>11, <1>12, <1>13

(* The paster leaves what was linked alone.                                *)
LEMMA PasterLinks ==
  ASSUME LinkInv, Paste \/ SourceLine \/ SourceDone \/ PasteDone
  PROVE  LinkInv'
<1>1. /\ Linked /\ pc' \in {"paste", "source", "done", "crashed"}
      /\ UNCHANGED <<prog, gvars, data, out>>
  BY DEF Paste, SourceLine, SourceDone, PasteDone, Go, Linked
<1>2. prog \in Programs /\ Laid /\ Emitted
  BY <1>1 DEF LinkInv
<1>3. Lines' = Lines
  BY <1>1, SameProgram
<1>4. Laid' /\ Emitted'
  <2>1. \A n : OffsetOf(n)' = OffsetOf(n)
    BY <1>1 DEF OffsetOf
  <2>2. IsSeq(out)' /\ IsSeq(gvars)'
    BY <1>1, <1>2 DEF Laid, Emitted, IsSeq
  <2>3. Laid'
    BY <1>1, <1>2, <1>3, <2>2 DEF Laid, Placed
  <2>4. Emitted'
    BY <1>1, <1>2, <2>1, <2>2 DEF Emitted
  <2> QED
    BY <2>3, <2>4
<1> QED
  BY <1>1, <1>2, <1>4 DEF LinkInv, Linked, Importing

(* Nothing changes.                                                        *)
LEMMA LinkStands == ASSUME LinkInv, UNCHANGED vars PROVE LinkInv'
<1>1. /\ Files' = Files /\ Lines' = Lines /\ \A f : Text(f)' = Text(f)
  BY SameProgram DEF vars
<1>2. /\ UNCHANGED <<prog, pc, fpos, link, mfile, k, num, buf>>
      /\ UNCHANGED <<full, gvars, code, data, out>>
  BY DEF vars
<1>3. Scanning => Scanning'
  BY <1>1, <1>2 DEF Scanning, Names, Empty, IsSeq
<1>4. Laid => Laid'
  BY <1>1, <1>2 DEF Laid, Placed, IsSeq
<1>5. Emitted => Emitted'
  BY <1>2 DEF Emitted, OffsetOf, IsSeq
<1>6. Separating => Separating'
  BY <1>1, <1>2, <1>4 DEF Separating
<1>7. Emitting => Emitting'
  BY <1>1, <1>2, <1>4, <1>5 DEF Emitting
<1>8. Copying => Copying'
  <2>1. LineOf(num)' = LineOf(num) /\ LineOf(mfile)' = LineOf(mfile)
    BY <1>2 DEF LineOf
  <2>2. Text(num)' = Text(num) /\ Text(mfile)' = Text(mfile)
    BY <1>2 DEF Text
  <2>3. Names => Names'
    BY <1>1, <1>2 DEF Names, IsSeq
  <2>4. MainPlace => MainPlace'
    BY <1>1, <1>2, <2>2 DEF MainPlace
  <2>5. ImportPlace => ImportPlace'
    BY <1>1, <1>2, <2>1, <2>2 DEF ImportPlace
  <2>6. Together => Together'
    BY <1>1, <1>2, <2>1 DEF Together
  <2> QED
    BY <1>2, <2>3, <2>4, <2>5, <2>6 DEF Copying, Empty
<1> QED
  BY <1>2, <1>3, <1>4, <1>5, <1>6, <1>7, <1>8 DEF LinkInv, Linked, Importing

(* The invariant holds of every link.                                      *)
THEOREM AlwaysLinkInv == Spec => []LinkInv
<1>1. Init => LinkInv
  BY InitLink
<1>2. LinkInv /\ [Next]_vars => LinkInv'
  <2> SUFFICES ASSUME LinkInv, [Next]_vars PROVE LinkInv'
    OBVIOUS
  <2>1. CASE UNCHANGED vars
    BY <2>1, LinkStands
  <2>2. CASE Open \/ Scan \/ FindMain
    BY <2>2, OpenLinks, ScanLinks, FindMainLinks
  <2>3. CASE Head0 \/ Tail0
    BY <2>3, MainLinks
  <2>4. CASE NextExtern \/ Find \/ ImportVariable \/ ImportBody \/ MarkExterns \/ ImportDecls
    BY <2>4, NextExternLinks, FindLinks, ImportVariableLinks, ImportBodyLinks, MarkExternsLinks,
       ImportDeclsLinks
  <2>5. CASE Split \/ Emit
    BY <2>5, SplitLinks, EmitLinks
  <2>6. CASE Paste \/ SourceLine \/ SourceDone \/ PasteDone
    BY <2>6, PasterLinks
  <2> QED
    BY <2>1, <2>2, <2>3, <2>4, <2>5, <2>6 DEF Next
<1> QED
  BY <1>1, <1>2, PTL DEF Spec

----------------------------------------------------------------------------
(* What the code computes.                                                 *)
LEMMA Executed ==
  ASSUME NEW s \in Seq(Ops), NEW a \in Int, Leads(s, 0, a)
  PROVE  Execute(s) = a
<1> DEFINE P(f) == f = [i \in 0 .. Len(s) |-> IF i = 0 THEN 0 ELSE AfterOp(f[i - 1], s[i])]
<1>1. PICK v \in [0 .. Len(s) -> Int] :
        /\ v[0] = 0 /\ v[Len(s)] = a
        /\ \A i \in 1 .. Len(s) : v[i] = AfterOp(v[i - 1], s[i])
  BY DEF Leads
<1>2. Len(s) \in Nat
  OBVIOUS
<1>3. P(v)
  <2>1. \A i \in 0 .. Len(s) : i = 0 \/ i \in 1 .. Len(s)
    BY <1>2
  <2> QED
    BY <1>1, <1>2, <2>1
<1>4. PICK r : r = CHOOSE f : P(f)
  OBVIOUS
<1>5. Execute(s) = r[Len(s)]
  BY <1>4 DEF Execute
<1> HIDE DEF P
<1>6. P(r)
  BY <1>3, <1>4
<1>7. r[0] = 0 /\ \A i \in 1 .. Len(s) : r[i] = AfterOp(r[i - 1], s[i])
  BY <1>2, <1>6 DEF P
<1> DEFINE S == {i \in Nat : i <= Len(s) => r[i] = v[i]}
<1>8. 0 \in S
  BY <1>1, <1>7
<1>9. ASSUME NEW i \in Nat, i \in S PROVE i + 1 \in S
  <2> SUFFICES ASSUME i + 1 <= Len(s) PROVE r[i + 1] = v[i + 1]
    OBVIOUS
  <2>1. r[i] = v[i] /\ i + 1 \in 1 .. Len(s) /\ (i + 1) - 1 = i
    BY <1>2, <1>9
  <2>2. r[i + 1] = AfterOp(r[i], s[i + 1]) /\ v[i + 1] = AfterOp(v[i], s[i + 1])
    BY <1>1, <1>7, <2>1
  <2> QED
    BY <2>1, <2>2
<1> HIDE DEF S
<1>10. \A i \in Nat : i \in S
  BY <1>8, <1>9, Induction
<1>11. r[Len(s)] = v[Len(s)]
  BY <1>2, <1>10 DEF S
<1> QED
  BY <1>1, <1>5, <1>11

(* The offset of a name that is declared is where the data section has its *)
(* first declaration.                                                      *)
LEMMA OffsetIsPlace ==
  ASSUME Laid, NEW n, Declares(data, n)
  PROVE  OffsetOf(n) = Place(n)
<1> DEFINE at == {i \in DOMAIN gvars : gvars[i].n = n \/ i = Len(gvars)}
           ds == {i \in DOMAIN data : data[i].k = "decl" /\ data[i].n = n}
<1>1. PICK q : Placed(q)
  BY DEF Laid
<1>2. /\ q \in [DOMAIN gvars -> DOMAIN data]
      /\ \A i, j \in DOMAIN gvars : i < j => q[i] < q[j]
      /\ \A p \in DOMAIN data : data[p].k = "decl" => \E j \in DOMAIN gvars : q[j] = p
      /\ \A j \in DOMAIN gvars :
           /\ data[q[j]].k = "decl" /\ data[q[j]].n = gvars[j].n
           /\ SizesTo(gvars)[j - 1] = SizesTo(data)[q[j] - 1]
  BY <1>1 DEF Placed
<1>3. /\ Len(gvars) \in Nat /\ DOMAIN gvars = 1 .. Len(gvars)
      /\ Len(data) \in Nat /\ DOMAIN data = 1 .. Len(data)
  BY DEF Laid, IsSeq
<1>4. ds # {} /\ ds \subseteq Nat /\ at \subseteq Nat /\ ds \subseteq DOMAIN data
  BY <1>3 DEF Declares
<1>5. Place(n) = SizesTo(data)[Min(ds) - 1]
  BY DEF Place
<1>6. gvars # << >> => OffsetOf(n) = SizesTo(gvars)[Min(at) - 1]
  BY DEF OffsetOf
<1>7. PICK p, i : p = Min(ds) /\ i = Min(at)
  OBVIOUS
<1>8. p \in ds /\ \A x \in ds : p <= x
  <2> HIDE DEF ds
  <2> QED
    BY <1>4, <1>7, MinIsLeast
<1>9. PICK j \in DOMAIN gvars : q[j] = p
  BY <1>2, <1>8
<1>10. j \in at /\ gvars[j].n = n
  BY <1>2, <1>8, <1>9
<1>11. i \in at /\ \A x \in at : i <= x
  <2> HIDE DEF at
  <2> QED
    BY <1>4, <1>7, <1>10, MinIsLeast
<1>12. i <= j /\ i \in DOMAIN gvars /\ j <= Len(gvars) /\ i \in Nat /\ j \in Nat
  BY <1>3, <1>10, <1>11
<1>13. gvars[i].n = n
  BY <1>10, <1>11, <1>12
<1>14. q[i] \in ds
  BY <1>2, <1>12, <1>13
<1>15. i = j
  <2>1. p <= q[i] /\ p \in Nat /\ q[i] \in Nat
    BY <1>4, <1>8, <1>14
  <2>2. ~(i < j)
    BY <1>2, <1>9, <1>12, <2>1
  <2> QED
    BY <1>12, <2>2
<1>16. gvars # << >>
  BY <1>3, <1>12
<1> HIDE DEF at, ds
<1> QED
  BY <1>2, <1>5, <1>6, <1>7, <1>9, <1>15, <1>16

(* Whatever is linked, the code in place of each .LC3GLOBAL computes the   *)
(* address at which the data section holds the variable, plus the offset   *)
(* asked for, and its immediates fit (calculate_address and the variables  *)
(* table of lc3pp.c).                                                      *)
THEOREM AlwaysAddressExact == Spec => []AddressExact
<1>1. LinkInv => AddressExact
  <2> SUFFICES ASSUME LinkInv, Linked, NEW i \in DOMAIN out, out[i].k = "addr",
                      Declares(data, out[i].n)
               PROVE  /\ Execute(out[i].seq) = Place(out[i].n) + out[i].off
                      /\ \A x \in Range(out[i].seq) : FitsFields(x)
                      /\ out[i].ldr <=> out[i].seq # << >> /\ Last(out[i].seq).op = "LDR"
    BY DEF AddressExact
  <2> DEFINE e == out[i]
             s == e.seq
             a == OffsetOf(e.n) + e.off
  <2>1. Laid /\ Emitted
    BY DEF LinkInv
  <2>2. /\ e.off \in Int /\ e.ldr \in BOOLEAN /\ e.r \in (0 .. 7) \ {4}
        /\ s = calculate_address(e.r, a, e.ldr)
    BY <2>1 DEF Emitted
  <2>3. OffsetOf(e.n) = Place(e.n) /\ OffsetOf(e.n) \in Int
    BY <2>1, OffsetIsPlace, OffsetIsInt DEF Laid
  <2> HIDE DEF e, s
  <2>4. Computes(s, 0, a, e.ldr)
    <3>1. e.r \in 0 .. 7 /\ e.r # 4 /\ a \in Int
      BY <2>2, <2>3
    <3> HIDE DEF a
    <3> QED
      BY <2>2, <3>1, AddressComputed
  <2>5. /\ s \in Seq(Ops) /\ Leads(s, 0, a) /\ \A j \in DOMAIN s : FitsFields(s[j])
        /\ e.ldr <=> s # << >> /\ s[Len(s)].op = "LDR"
    BY <2>4 DEF Computes
  <2>6. Execute(s) = a
    <3>1. a \in Int
      BY <2>2, <2>3
    <3> HIDE DEF a
    <3> QED
      BY <2>5, <3>1, Executed
  <2>7. \A x \in Range(s) : FitsFields(x)
    BY <2>5 DEF Range
  <2>8. Last(s) = s[Len(s)]
    BY DEF Last
  <2>9. /\ Execute(s) = Place(e.n) + e.off
        /\ \A x \in Range(s) : FitsFields(x)
        /\ e.ldr <=> s # << >> /\ Last(s).op = "LDR"
    BY <2>3, <2>5, <2>6, <2>7, <2>8
  <2> QED
    BY <2>9 DEF e, s
<1> QED
  BY <1>1, AlwaysLinkInv, PTL
=============================================================================
