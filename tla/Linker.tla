------------------------------- MODULE Linker -------------------------------
(***************************************************************************)
(* The linker lc3pp.c and the source paster SourcePaste.c.  The linker     *)
(* copies the file that defines main, imports what it declares .extern     *)
(* from the other files or from the library, separates variables from      *)
(* code and replaces every .LC3GLOBAL by instructions that compute an      *)
(* address in the data section.  The paster inserts the C lines that       *)
(* .debug directives name.                                                 *)
(*                                                                         *)
(* A line of assembly is a record: its kind k and the fields that matter.  *)
(***************************************************************************)
EXTENDS Integers, Sequences, FiniteSets, SequencesExt, FiniteSetsExt

CONSTANTS
  Programs, \* calls: files (the last is stdio.asm), lib, opened, header, paste
  NamePrefixes, \* pairs <<a, b>> of names: a is a proper prefix of b
  Sources,  \* C files: name -> what fgets reads of them, see below
  MaxFileCount \* MAX_FILE_COUNT of the paster

(* What the compiler emits: .global n, .extern n, LC3_GFLAG n ... with its *)
(* size and the label it points to, further LC3_GFLAG .FILL and .BLKW      *)
(* lines of the same variable, .LC3GLOBAL n+off r, LDR r, r, #off, RET,    *)
(* .END, .debug file and .debug line, and any other line, such as the      *)
(* label of a function.                                                    *)
Global(n)    == [k |-> "global", n |-> n]
Extern(n)    == [k |-> "extern", n |-> n]
Decl(n, s, r) == [k |-> "decl", n |-> n, size |-> s, ref |-> r]
Fill         == [k |-> "fill", size |-> 1]
Blkw(s)      == [k |-> "blkw", size |-> s]
Use(n, o, r) == [k |-> "use", n |-> n, off |-> o, r |-> r]
Ldr(r, o)    == [k |-> "ldr", r |-> r, off |-> o]
Ret          == [k |-> "ret"]
End          == [k |-> "end"]
File(i, s)   == [k |-> "file", id |-> i, src |-> s]
SrcLine(i, l) == [k |-> "line", id |-> i, at |-> l]
Label(n)     == [k |-> "label", n |-> n]

IsData(l)    == l.k \in {"decl", "fill", "blkw"}
Continues(l) == l.k \in {"fill", "blkw"}

\* A register of the linker's code is never R4, which holds the address of
\* the data; the .FILL and .BLKW lines of a variable follow its label.
IsText(s) ==
  /\ s \in Seq({s[i] : i \in DOMAIN s})
  /\ \A i \in DOMAIN s :
       /\ s[i].k # "addr" /\ (s[i].k = "end" => s[i] = End)
       /\ IsData(s[i]) => s[i].size \in Int
       /\ s[i].k = "use" => s[i].off \in Int /\ s[i].r \in (0..7) \ {4}
       /\ s[i].k = "ldr" => s[i].off \in Int
       /\ Continues(s[i]) => i > 1 /\ IsData(s[i - 1])

\* A file is ended by .END, and a function it defines by RET.
IsFile(s) ==
  /\ IsText(s) /\ s # <<>> /\ s[Len(s)] = End
  /\ \A i \in DOMAIN s : s[i].k = "global" =>
       \/ s[i + 1].k = "decl"
       \/ \E j \in DOMAIN s : j > i + 1 /\ s[j].k = "ret"

ASSUME LinkerConstants ==
  \A p \in Programs :
    /\ p.files \in Seq({p.files[f] : f \in DOMAIN p.files})
    /\ \A f \in DOMAIN p.files : IsFile(p.files[f])
    /\ \A n \in DOMAIN p.lib : IsText(p.lib[n])

(* A C file is read in pieces, each a line or, of a line that does not fit *)
(* srcLine (LINE_SIZE), as much as fits: their number, those that are not  *)
(* blank, and those that end in a newline.                                 *)
ASSUME SourceConstants ==
  \A s \in DOMAIN Sources :
    /\ Sources[s].len \in Nat
    /\ Sources[s].text \subseteq 1..Sources[s].len
    /\ Sources[s].ends \subseteq 1..Sources[s].len

VARIABLES
  prog, pc,
  fpos,   \* file -> the line read next
  link,   \* g and e: the .global and .extern names with their files
  mfile,  \* the file of main
  k,      \* the file scanned, or the index in link.e
  num,    \* the file imported from
  word,   \* the name looked for
  buf,    \* the line last read from it
  used,   \* used_var: names as they were read and whether they are labels
  look,   \* the index in used and end_flag
  full,   \* full_file
  gvars,  \* g_vars
  code, data, \* code_file and var_file
  out,    \* the output
  paste   \* the paster: src, pos and last per file, its output res, and
          \* OutputSource's id, i and until

vars == <<prog, pc, fpos, link, mfile, k, num, word, buf, used, look, full, gvars,
          code, data, out, paste>>

Files == DOMAIN prog.files
LineOf(f) == prog.files[f][fpos[f]]
Read(f)   == fpos' = [fpos EXCEPT ![f] = @ + 1]
Rewind(f) == fpos' = [fpos EXCEPT ![f] = 1]
Go(where) == pc' = where
Copy(l)   == full' = Append(full, l)

StartsWith(b, a) == a = b \/ <<a, b>> \in NamePrefixes

Init ==
  /\ prog \in Programs /\ pc = "open"
  /\ fpos = [f \in DOMAIN prog.files |-> 1]
  /\ link = [g |-> <<>>, e |-> <<>>] /\ mfile = 0 /\ k = 1 /\ num = 0
  /\ word = "" /\ buf = End /\ used = <<>> /\ look = [i |-> 1, end |-> FALSE]
  /\ full = <<>> /\ gvars = <<>> /\ code = <<>> /\ data = <<>> /\ out = <<>>
  /\ paste = [src |-> <<>>, pos |-> <<>>, last |-> <<>>, res |-> <<>>,
              id |-> 0, i |-> 0, until |-> 0]

----------------------------------------------------------------------------
(* main: the files, and the scan for .global and .extern.                  *)

Open ==
  /\ pc = "open"
  /\ Go(IF ~prog.opened \/ ~prog.header THEN "failed" ELSE "scan")
  /\ UNCHANGED <<prog, fpos, link, mfile, k, num, word, buf, used, look, full, gvars,
                 code, data, out, paste>>

Scan ==
  /\ pc = "scan" /\ k \in Files
  /\ LET l == LineOf(k) IN
     /\ link' = CASE l.k = "global" -> [link EXCEPT !.g = Append(@, [n |-> l.n, f |-> k])]
                  [] l.k = "extern" -> [link EXCEPT !.e = Append(@, [n |-> l.n, f |-> k])]
                  [] OTHER -> link
     /\ k' = IF l = End THEN k + 1 ELSE k
  /\ Read(k)
  /\ UNCHANGED <<prog, pc, mfile, num, word, buf, used, look, full, gvars, code, data,
                 out, paste>>

(* The file of main.  Without one the code reads the entry after the last, *)
(* whose file number is whatever the memory holds.                         *)
FindMain ==
  /\ pc = "scan" /\ k \notin Files
  /\ LET mains == {i \in DOMAIN link.g : link.g[i].n = "main"} IN
     IF mains # {}
     THEN /\ mfile' = link.g[Min(mains)].f
          /\ fpos' = [fpos EXCEPT ![mfile'] = 1]
          /\ Go("head")
     ELSE \/ /\ mfile' \in Files
             /\ fpos' = [fpos EXCEPT ![mfile'] = 1]
             /\ Go("head")
          \/ Go("crashed") /\ UNCHANGED <<mfile, fpos>>
  /\ UNCHANGED <<prog, link, k, num, word, buf, used, look, full, gvars, code, data, out, paste>>

----------------------------------------------------------------------------
(* resolve_externs.                                                        *)

Head0 ==
  /\ pc = "head"
  /\ LET l == LineOf(mfile) IN
     /\ full' = IF l.k \in {"extern", "global"} THEN full ELSE Append(full, l)
     /\ Go(CASE l.k = "extern" -> "extern" [] l = End -> "split" [] OTHER -> pc)
     /\ k' = 1
  /\ Read(mfile)
  /\ UNCHANGED <<prog, link, mfile, num, word, buf, used, look, gvars, code, data, out, paste>>

Definers(n) == {i \in DOMAIN link.g : link.g[i].n = n}

FromLibrary(n) == full' = full \o prog.lib[n] /\ k' = k + 1

NextExtern ==
  /\ pc = "extern"
  /\ \/ /\ k > Len(link.e)
        /\ Go("tail")
        /\ UNCHANGED <<k, num, word, fpos, full>>
     \/ /\ k <= Len(link.e)
        /\ LET n == link.e[k].n
               g == Definers(n)
               d == link.g[Min(g)].f IN
           \/ /\ \/ link.e[k].f # mfile
                 \/ g # {} /\ d = mfile
              /\ k' = k + 1
              /\ UNCHANGED <<pc, num, word, fpos, full>>
           \/ /\ link.e[k].f = mfile /\ g # {} /\ d # mfile
              /\ num' = d /\ word' = n /\ Rewind(d) /\ Go("find")
              /\ UNCHANGED <<k, full>>
           \/ /\ link.e[k].f = mfile /\ g = {} /\ n \in DOMAIN prog.lib
              /\ FromLibrary(n)
              /\ UNCHANGED <<pc, num, word, fpos>>
           \/ /\ link.e[k].f = mfile /\ g = {} /\ n \notin DOMAIN prog.lib
              /\ Go("failed")
              /\ UNCHANGED <<k, num, word, fpos, full>>
  /\ UNCHANGED <<prog, link, mfile, buf, used, look, gvars, code, data, out, paste>>

(* Look for ".global word"; the line after it is copied and tells whether  *)
(* a variable or a function is imported.                                   *)
Find ==
  /\ pc = "find"
  /\ LET l == LineOf(num)
         next == prog.files[num][fpos[num] + 1] IN
     \/ /\ l = Global(word)
        /\ fpos' = [fpos EXCEPT ![num] = @ + 2]
        /\ Copy(next)
        /\ \/ next.k = "decl" /\ Go("variable") /\ UNCHANGED used
           \/ next.k # "decl" /\ Go("body")
              /\ used' = <<[n |-> word, less |-> 0, label |-> TRUE]>>
        /\ UNCHANGED k
     \/ /\ l = End
        /\ Go("extern") /\ k' = k + 1
        /\ UNCHANGED <<fpos, full, used>>
     \/ /\ l # Global(word) /\ l # End
        /\ Read(num)
        /\ UNCHANGED <<pc, k, full, used>>
  /\ UNCHANGED <<prog, link, mfile, num, word, buf, look, gvars, code, data, out, paste>>

ImportVariable ==
  /\ pc = "variable"
  /\ LET l == LineOf(num) IN
     /\ full' = IF l = Fill THEN Append(full, l) ELSE full
     /\ Go(CASE l = Fill -> pc [] l = End -> "extern" [] OTHER -> "find")
     /\ k' = IF l = End THEN k + 1 ELSE k
  /\ Read(num)
  /\ UNCHANGED <<prog, link, mfile, num, word, buf, used, look, gvars, code, data, out, paste>>

(* The body of a function, up to RET.  A .LC3GLOBAL adds its name to used; *)
(* a declaration marks the first used name that it begins with.            *)
(* The name ends at " " or "+": "n-3" is recorded whole, as n with the 3   *)
(* in less, and is then the name of nothing.                               *)
AddUse(l) ==
  LET less == IF l.off < 0 THEN -l.off ELSE 0 IN
  used' = IF \E i \in DOMAIN used : used[i].n = l.n /\ used[i].less = less THEN used
          ELSE Append(used, [n |-> l.n, less |-> less, label |-> FALSE])

BeginsWith(n, u) == u.less = 0 /\ StartsWith(n, u.n)

AddLabel(n) ==
  LET same == {i \in DOMAIN used : BeginsWith(n, used[i])} IN
  used' = IF same = {} THEN Append(used, [n |-> n, less |-> 0, label |-> TRUE])
          ELSE [used EXCEPT ![Min(same)].label = TRUE]

ImportBody ==
  /\ pc = "body"
  /\ LET l == LineOf(num) IN
     /\ Copy(l)
     /\ \/ l.k = "use" /\ AddUse(l) /\ UNCHANGED pc
        \/ l.k = "decl" /\ AddLabel(l.n) /\ UNCHANGED pc
        \/ l.k = "ret" /\ Go("mark") /\ UNCHANGED used
        \/ l.k \notin {"use", "decl", "ret"} /\ UNCHANGED <<pc, used>>
  /\ Read(num)
  /\ UNCHANGED <<prog, link, mfile, k, num, word, buf, look, gvars, code, data, out, paste>>

(* Used names that file num declares .extern become labels, and .extern    *)
(* of the main file unless the first file (sic) has them.                  *)
IsExtern(n, f, e) == \E j \in DOMAIN e : e[j] = [n |-> n, f |-> f]
OfFile(u, f) == u.less = 0 /\ IsExtern(u.n, f, link.e)

MarkExternsOnly ==
  /\ pc = "mark"
  /\ used' = [i \in DOMAIN used |-> [used[i] EXCEPT !.label = @ \/ OfFile(used[i], num)]]
  /\ buf' = LineOf(num) /\ Read(num)
  /\ look' = [i |-> 1, end |-> FALSE]
  /\ Go("decls")
  /\ UNCHANGED <<prog, link, mfile, k, num, word, full, gvars, code, data, out, paste>>

MarkExterns ==
  /\ pc = "mark"
  /\ LET named == SelectSeq(used, LAMBDA u : OfFile(u, num) /\ ~OfFile(u, 1))
         new == [i \in DOMAIN named |-> [n |-> named[i].n, f |-> mfile]] IN
     /\ used' = [i \in DOMAIN used |-> [used[i] EXCEPT !.label = @ \/ OfFile(used[i], num)]]
     /\ link' = [link EXCEPT !.e = @ \o new]
  /\ buf' = LineOf(num) /\ Read(num)
  /\ look' = [i |-> 1, end |-> FALSE]
  /\ Go("decls")
  /\ UNCHANGED <<prog, mfile, k, num, word, full, gvars, code, data, out, paste>>

(* The declarations of the other used names, from the same file, which is  *)
(* searched from where the last one was found and once from its start.     *)
NextUsed == look' = [i |-> look.i + 1, end |-> FALSE]

ImportDecls ==
  /\ pc = "decls"
  /\ \/ /\ look.i > Len(used)
        /\ used' = <<>> /\ Go("extern") /\ k' = k + 1
        /\ UNCHANGED <<fpos, buf, look, full>>
     \/ /\ look.i <= Len(used) /\ used[look.i].label
        /\ NextUsed
        /\ UNCHANGED <<pc, k, fpos, buf, used, full>>
     \/ /\ look.i <= Len(used) /\ ~used[look.i].label
        /\ buf.k = "decl" /\ BeginsWith(buf.n, used[look.i])
        /\ LET f == prog.files[num]
               rest == SubSeq(f, fpos[num], Len(f))
               stop == Min({i \in DOMAIN rest : rest[i] # Fill}) IN
           /\ full' = Append(full, buf) \o SubSeq(rest, 1, stop - 1)
           /\ buf' = rest[stop]
           /\ fpos' = [fpos EXCEPT ![num] = @ + stop]
        /\ NextUsed
        /\ UNCHANGED <<pc, k, used>>
     \/ /\ look.i <= Len(used) /\ ~used[look.i].label
        /\ buf = End
        /\ fpos' = [fpos EXCEPT ![num] = 2] /\ buf' = prog.files[num][1]
        /\ IF look.end THEN NextUsed ELSE look' = [look EXCEPT !.end = TRUE]
        /\ UNCHANGED <<pc, k, used, full>>
     \/ /\ look.i <= Len(used) /\ ~used[look.i].label
        /\ buf # End /\ ~(buf.k = "decl" /\ BeginsWith(buf.n, used[look.i]))
        /\ buf' = LineOf(num) /\ Read(num)
        /\ UNCHANGED <<pc, k, used, look, full>>
  /\ UNCHANGED <<prog, link, mfile, num, word, gvars, code, data, out, paste>>

(* The rest of the main file.                                              *)
Tail0 ==
  /\ pc = "tail"
  /\ LET l == LineOf(mfile) IN
     /\ full' = IF l.k \in {"extern", "global"} THEN full ELSE Append(full, l)
     /\ Go(IF l = End THEN "split" ELSE pc)
  /\ Read(mfile) /\ k' = 1
  /\ UNCHANGED <<prog, link, mfile, num, word, buf, used, look, gvars, code, data, out, paste>>

----------------------------------------------------------------------------
(* main: variables and code are separated and the sizes added up.          *)
GrowNot(s) == gvars
Grow(s) == IF gvars = <<>> THEN gvars ELSE [gvars EXCEPT ![Len(gvars)].size = @ + s]

Split ==
  /\ pc = "split"
  /\ LET l == full[k] IN
     /\ gvars' = CASE l.k = "decl" -> Append(gvars, [n |-> l.n, size |-> l.size])
                   [] Continues(l) -> Grow(l.size)
                   [] OTHER -> gvars
     /\ data' = IF IsData(l) THEN Append(data, l) ELSE data
     /\ code' = IF IsData(l) \/ l.k = "extern" THEN code
                ELSE Append(code, l)
     /\ Go(IF l = End THEN "emit" ELSE pc)
     /\ k' = IF l = End THEN 1 ELSE k + 1
  /\ UNCHANGED <<prog, fpos, link, mfile, num, word, buf, used, look, full, out, paste>>

(* calculate_address(dst, R4, offset, with_LDR).                           *)
Least(a, b) == IF a < b THEN a ELSE b
Greatest(a, b) == IF a < b THEN b ELSE a
Op(o, d, b, i) == [op |-> o, d |-> d, b |-> b, imm |-> i]

Chain(d, off, step) ==
  LET count == (IF off < 0 THEN -off ELSE off) \div (IF step < 0 THEN -step ELSE step)
      exact == count * step = off IN
  [i \in 1..(IF exact THEN count ELSE count + 1) |->
     Op("ADD", d, IF i = 1 THEN 4 ELSE d, IF i <= count THEN step ELSE off - count * step)]

calculate_address(d, off, ldr) ==
  LET inLdr == IF ~ldr THEN 0 ELSE IF off > 0 THEN Least(off, 31) ELSE Greatest(off, -32)
      rest  == off - inLdr
      adds  == CASE off = 0 -> IF ldr THEN <<>> ELSE <<Op("ADD", d, 4, 0)>>
                 [] off > 0 /\ rest <= 45 -> Chain(d, rest, 15)
                 [] off < 0 /\ rest >= -48 -> Chain(d, rest, -16)
                 [] OTHER -> <<Op("CONST", d, d, off), Op("ADDR", d, 4, 0)>>
      far   == rest > 45 \/ rest < -48
      base  == IF adds = <<>> THEN 4 ELSE d IN
  adds \o (IF ldr THEN <<Op("LDR", d, base, IF far THEN 0 ELSE inLdr)>> ELSE <<>>)

(* The offset of a name: the sizes before it; the last variable stands for *)
(* every name that is not there.                                           *)
SizesTo(s) ==
  LET sum[i \in 0..Len(s)] == IF i = 0 THEN 0 ELSE sum[i - 1] + s[i].size IN sum

OffsetOf(n) ==
  LET at == {i \in DOMAIN gvars : gvars[i].n = n \/ i = Len(gvars)} IN
  IF gvars = <<>> THEN 0 ELSE SizesTo(gvars)[Min(at) - 1]

(* A .LC3GLOBAL, with the LDR that follows it if it is of the same register.*)
Emit ==
  /\ pc = "emit"
  /\ LET l == code[k]
         m == code[k + 1]
         ldr == m.k = "ldr" /\ m.r = l.r
         off == OffsetOf(l.n) + l.off + (IF ldr THEN m.off ELSE 0) IN
     \/ /\ l.k = "use"
        /\ out' = Append(out, [k |-> "addr", n |-> l.n, r |-> l.r, ldr |-> ldr,
                               off |-> l.off + (IF ldr THEN m.off ELSE 0),
                               seq |-> calculate_address(l.r, off, ldr)])
        /\ k' = IF ldr THEN k + 2 ELSE k + 1
        /\ UNCHANGED pc
     \/ /\ l.k # "use" /\ l # End
        /\ out' = Append(out, l) /\ k' = k + 1 /\ UNCHANGED pc
     \/ /\ l = End
        /\ out' = out \o data \o <<End>> /\ k' = 1
        /\ Go(IF prog.paste THEN "paste" ELSE "done")
  /\ UNCHANGED <<prog, fpos, link, mfile, num, word, buf, used, look, full, gvars, code,
                 data, paste>>

----------------------------------------------------------------------------
(* SourcePaste.  OutputSource prints the lines from the last one printed;  *)
(* a source is read on from where its stream stands.  The directives       *)
(* themselves, which -g2 keeps in the output, are left out.                *)
OutputSource(id, until) ==
  paste' = [paste EXCEPT !.id = id, !.until = until, !.i = paste.last[id]]

SourceLeft ==
  /\ paste.i < paste.until
  /\ paste.pos[paste.id] < Sources[paste.src[paste.id]].len

\* A piece is read and counted as a line; a blank one is not printed.
SourceLine ==
  /\ pc = "source" /\ SourceLeft
  /\ LET line == paste.pos[paste.id] + 1 IN
     paste' = [paste EXCEPT !.i = @ + 1, !.pos[paste.id] = line,
       !.res = IF line \in Sources[paste.src[paste.id]].text
               THEN Append(@, [k |-> "src", id |-> paste.id, at |-> paste.i + 1,
                               text |-> line])
               ELSE @]
  /\ UNCHANGED <<prog, pc, fpos, link, mfile, k, num, word, buf, used, look, full, gvars,
                 code, data, out>>

\* Mutant: the number of the last line is not stored.
SourceDoneForgets ==
  /\ pc = "source" /\ ~SourceLeft
  /\ Go("paste")
  /\ UNCHANGED <<prog, fpos, link, mfile, k, num, word, buf, used, look, full, gvars, code,
                 data, out, paste>>

SourceDone ==
  /\ pc = "source" /\ ~SourceLeft
  /\ paste' = [paste EXCEPT !.last[paste.id] = paste.i]
  /\ Go("paste")
  /\ UNCHANGED <<prog, fpos, link, mfile, k, num, word, buf, used, look, full, gvars, code,
                 data, out>>

OpenSource(s) ==
  paste' = [paste EXCEPT !.src = Append(@, s), !.pos = Append(@, 0),
                         !.last = Append(@, 0)]

Paste ==
  /\ pc = "paste" /\ k <= Len(out)
  /\ LET l == out[k] IN
     \/ /\ l.k = "file" /\ l.id = Len(paste.src) + 1 /\ l.src \in DOMAIN Sources
        /\ OpenSource(l.src)
        /\ Go(IF Len(paste.src) = MaxFileCount THEN "crashed" ELSE pc)
     \/ /\ l.k = "file" /\ ~(l.id = Len(paste.src) + 1 /\ l.src \in DOMAIN Sources)
        /\ UNCHANGED <<pc, paste>>
     \/ /\ l.k = "line" /\ l.id \in DOMAIN paste.src /\ l.at \in Int
        /\ OutputSource(l.id, l.at) /\ Go("source")
     \/ /\ l.k = "line" /\ ~(l.id \in DOMAIN paste.src /\ l.at \in Int)
        /\ UNCHANGED <<pc, paste>>
     \/ /\ l.k \notin {"file", "line"}
        /\ paste' = [paste EXCEPT !.res = Append(@, [k |-> "asm", line |-> l])]
        /\ UNCHANGED pc
  /\ k' = k + 1
  /\ UNCHANGED <<prog, fpos, link, mfile, num, word, buf, used, look, full, gvars, code,
                 data, out>>

PasteDone ==
  /\ pc = "paste" /\ k > Len(out) /\ Go("done")
  /\ UNCHANGED <<prog, fpos, link, mfile, k, num, word, buf, used, look, full, gvars,
                 code, data, out, paste>>

Next ==
  \/ Open \/ Scan \/ FindMain \/ Head0 \/ NextExtern \/ Find \/ ImportVariable
  \/ ImportBody \/ MarkExterns \/ ImportDecls \/ Tail0 \/ Split \/ Emit
  \/ Paste \/ SourceLine \/ SourceDone \/ PasteDone

Spec == Init /\ [][Next]_vars

----------------------------------------------------------------------------
(* Properties.                                                             *)

Linked == pc \in {"paste", "source", "done"}

Occurs(seq, P(_)) == Cardinality({i \in DOMAIN seq : P(seq[i])})

(* The words of variable n in a sequence of lines.                         *)
Words(seq, n) ==
  LET at == SelectInSeq(seq, LAMBDA l : l.k = "decl" /\ l.n = n)
      more == {i \in DOMAIN seq : i > at /\ \A j \in (at + 1)..i : seq[j].k \in {"fill", "blkw"}} IN
  seq[at].size + MapThenSumSet(LAMBDA i : seq[i].size, more)

Declares(seq, n) == \E i \in DOMAIN seq : seq[i].k = "decl" /\ seq[i].n = n

(* Every name the linked code uses has one declaration, with as many words *)
(* as in its file, and every label a declaration points to is defined once.*)
Resolved ==
  /\ \A i \in DOMAIN out : out[i].k = "addr" =>
       Occurs(out, LAMBDA l : l.k = "decl" /\ l.n = out[i].n) = 1
  /\ \A i \in DOMAIN out : out[i].k = "decl" =>
       /\ out[i].ref # "" => Occurs(out, LAMBDA l : l = Label(out[i].ref)) = 1
       /\ Occurs(out, LAMBDA l : l.k = "decl" /\ l.n = out[i].n) = 1
       /\ \A f \in Files : Declares(prog.files[f], out[i].n) =>
            Words(out, out[i].n) = Words(prog.files[f], out[i].n)

(* The six things the linker does not do.                                  *)
BodyOf(f, n) ==
  LET s == prog.files[f]
      from == SelectInSeq(s, LAMBDA l : l = Global(n))
      rets == {i \in DOMAIN s : i > from /\ s[i] = Ret} IN
  IF s[from + 1].k = "decl" \/ rets = {} THEN <<>> ELSE SubSeq(s, from, Min(rets))

Imported == {i \in DOMAIN link.e : link.e[i].f = mfile /\ Definers(link.e[i].n) # {}
                                   /\ link.g[Min(Definers(link.e[i].n))].f # mfile}
ImportedBody(i) == BodyOf(link.g[Min(Definers(link.e[i].n))].f, link.e[i].n)
OuterUses(i) ==
  LET b == ImportedBody(i) IN
  {b[j].n : j \in {j \in DOMAIN b : b[j].k = "use"
                    /\ ~\E d \in DOMAIN b : b[d].k = "decl" /\ b[d].n = b[j].n}}

SharedVariable ==
  \E i \in Imported : \E n \in OuterUses(i) :
    \/ \E j \in Imported \ {i} : n \in OuterUses(j) \/ n = link.e[j].n
    \/ \E j \in DOMAIN link.e : link.e[j] = [n |-> n, f |-> mfile]
CallsHelper ==
  \E i \in Imported : \E n \in OuterUses(i) : \E f \in Files : \E j \in DOMAIN prog.files[f] :
    prog.files[f][j].k = "decl" /\ prog.files[f][j].n = n /\ prog.files[f][j].ref # ""
NamePrefix  == \E p \in NamePrefixes : \E i \in Imported : p[1] \in OuterUses(i)
MainNotFirst == mfile # 1
NegativeOffset ==
  \E i \in Imported : \E n \in OuterUses(i) :
    LET b == ImportedBody(i) IN
    \A j \in DOMAIN b : b[j].k = "use" /\ b[j].n = n => b[j].off < 0
PaddedVariable ==
  \E f \in Files \ {mfile} : \E i \in DOMAIN prog.files[f] : prog.files[f][i].k = "blkw"

(* resolve_externs: when the linker succeeds the linked program is whole,  *)
(* except in six cases: two imported functions (or the main file) use one  *)
(* variable of another file, an imported function calls a function that    *)
(* is not imported itself, an imported function uses a variable with       *)
(* negative offsets only, a variable's name begins another's, an imported  *)
(* variable ends in .BLKW, or main is not in the first file.               *)
LinkedOnce ==
  Linked => \/ Resolved
            \/ SharedVariable \/ CallsHelper \/ NegativeOffset \/ NamePrefix
            \/ PaddedVariable \/ MainNotFirst

(* The linker "functions as a proper linker at the .asm level": whatever   *)
(* files it is given, a successful link is whole.                          *)
ProperLinker == Linked => Resolved

(* calculate_address and the symbol table: the instructions put in place   *)
(* of .LC3GLOBAL use no immediate the LC-3 cannot hold, and leave in the   *)
(* register the address (or, with LDR, load from it) at which the data     *)
(* section holds the first variable of that name, plus the offset asked.   *)
Place(n) ==
  SizesTo(data)[Min({i \in DOMAIN data : data[i].k = "decl" /\ data[i].n = n}) - 1]

\* The register after one instruction, relative to R4.
AfterOp(r, x) ==
  LET b == IF x.b = 4 THEN 0 ELSE r IN
  CASE x.op = "ADDR" -> b + r
    [] x.op = "CONST" -> x.imm
    [] OTHER -> b + x.imm

Execute(seq) ==
  LET r[i \in 0..Len(seq)] == IF i = 0 THEN 0 ELSE AfterOp(r[i - 1], seq[i]) IN
  r[Len(seq)]

FitsFields(x) ==
  /\ x.op = "ADD" => x.imm \in -16..15
  /\ x.op = "LDR" => x.imm \in -32..31

AddressExact ==
  Linked => \A i \in DOMAIN out :
    out[i].k = "addr" /\ Declares(data, out[i].n)
      => /\ Execute(out[i].seq) = Place(out[i].n) + out[i].off
         /\ \A x \in Range(out[i].seq) : FitsFields(x)
         /\ out[i].ldr <=> (out[i].seq # <<>> /\ Last(out[i].seq).op = "LDR")

(* The line of its file to which piece t belongs, and whether an earlier   *)
(* one did not fit the buffer.                                             *)
CLine(s, t) == 1 + Cardinality({q \in 1..(t - 1) : q \in Sources[s].ends})
LongBefore(s, t) == \E q \in 1..(t - 1) : q \notin Sources[s].ends

(* OutputSource: each piece of a C file is pasted at most once and in      *)
(* order, however the directives jump about; under the number of its line  *)
(* unless a line before was longer than the buffer, and then never under   *)
(* that number; and, with the same exception, a line a directive asked for *)
(* has been pasted when the code after it is written.                      *)
PastedInOrder ==
  LET src(i) == paste.res[i].k = "src"
      name(i) == paste.src[paste.res[i].id] IN
  /\ \A i, j \in DOMAIN paste.res :
       src(i) /\ src(j) /\ i < j /\ paste.res[i].id = paste.res[j].id
         => paste.res[i].at < paste.res[j].at
  /\ \A i \in DOMAIN paste.res : src(i) =>
       (paste.res[i].at = CLine(name(i), paste.res[i].text)
          <=> ~LongBefore(name(i), paste.res[i].text))
  /\ LET d == out[k - 1] IN
     pc = "paste" /\ k > 1 /\ d.k = "line" /\ d.id \in DOMAIN paste.src /\ d.at \in Int =>
       \A t \in Sources[paste.src[d.id]].text :
         CLine(paste.src[d.id], t) <= d.at /\ ~LongBefore(paste.src[d.id], t) =>
           \E i \in DOMAIN paste.res :
             src(i) /\ paste.res[i].id = d.id /\ paste.res[i].text = t

(* "Not a special line, just output": a line of assembly is a line of the  *)
(* output, not the rest of a comment that a C line without its newline has *)
(* left open.                                                              *)
AsmLinesKept ==
  \A i \in DOMAIN paste.res :
    paste.res[i].k = "asm" /\ i > 1 /\ paste.res[i - 1].k = "src" =>
      paste.res[i - 1].text \in Sources[paste.src[paste.res[i - 1].id]].ends
=============================================================================
