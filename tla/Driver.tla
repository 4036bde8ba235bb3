------------------------------- MODULE Driver -------------------------------
(***************************************************************************)
(* The compiler driver lcc.c: it reads its options, runs the preprocessor  *)
(* and the compiler on each file, then the linker, the source paster and   *)
(* the assembler, each as a child process, and removes its temporary       *)
(* files.  A child is a process of its own: it creates its output at some  *)
(* time and ends at a later one, also when the driver was interrupted.     *)
(*                                                                         *)
(* What a file holds is the sequence of the sources it was made from and   *)
(* whether the paster has been over it.                                    *)
(***************************************************************************)
EXTENDS Naturals, Sequences, FiniteSets, SequencesExt

CONSTANTS
  CommandLines, \* sequences of arguments [kind, name]
  Leftovers     \* products of an earlier call that may lie around

FileKinds == {"c", "i", "lcc", "other", "missing"}
OptKinds  == {"-o", "-o source", "-o last", "-c", "-E", "-L", "-g", "-v", "-B",
              "-flag", "-x", "-l", "-lib"}

(* A temporary name holds the process id, so that an earlier call has left *)
(* none of this call's; a file the command line names is no leftover.      *)
ASSUME DriverConstants ==
  /\ \A l \in CommandLines :
       /\ l \in Seq([kind : FileKinds \cup OptKinds, name : STRING])
       /\ \A i \in DOMAIN l : l[i].kind = "-o last" => i = Len(l)
  /\ \A n \in Leftovers : Head(n) \notin {"temp", "arg"}

VARIABLES
  line,   \* the command line
  at,     \* where main is
  args,   \* the arguments the option loop kept and filename() has yet to see
  flag,   \* c, E, L, g, v (counted) and out: the options
  cur,    \* the name filename() works on, and the source it came from
  llist,  \* llist[1], files and options for the linker
  errcnt,
  rmlist, \* temporary files to remove
  itemp,  \* the name of the preprocessor's output, or 0
  spfile, \* SourcePasteFile, or 0
  child,  \* prog, out, what (its content), state
  fs,     \* the files there are: name -> content
  code    \* exit code; 256 while the driver runs

vars == <<line, at, args, flag, cur, llist, errcnt, rmlist, itemp, spfile, child, fs,
          code>>

Temp(n)   == <<"temp", n>>
Object(s) == <<"base", s>>
Input(a)  == <<"arg", a>>
OutFile   == <<"outfile">>
LdOut     == <<"ldoutfile">>
Obj       == <<"obj">>
NoName    == <<>>
Temps     == {n \in DOMAIN fs : Head(n) = "temp"}

Content(src, pasted) == [src |-> src, pasted |-> pasted, whole |-> TRUE]

Init ==
  /\ line \in CommandLines /\ at = "options" /\ args = <<>>
  /\ flag = [c |-> 0, E |-> 0, L |-> 0, g |-> 0, v |-> 0, out |-> FALSE]
  /\ cur = [name |-> NoName, src |-> <<>>]
  /\ llist = <<>> /\ errcnt = 0 /\ rmlist = {} /\ itemp = NoName /\ spfile = NoName
  /\ child = [prog |-> "none", out |-> NoName, what |-> <<>>, state |-> "none"]
  /\ fs \in {[n \in left |-> Content(<<"old">>, FALSE)] : left \in SUBSET Leftovers}
  /\ code = 256

----------------------------------------------------------------------------
(* The option loop of main and opt().  It stops at an option it refuses.   *)
Refused(a) == a.kind \in {"-o source", "-o last"}

Positions(kinds) == {i \in DOMAIN line : line[i].kind \in kinds}
Count(kinds) == Cardinality(Positions(kinds))

Concat(s) ==
  LET upTo[i \in 0 .. Len(s)] == IF i = 0 THEN <<>> ELSE upTo[i - 1] \o s[i]
  IN  upTo[Len(s)]

\* The arguments at some positions of the line, in its order.
Only(S) == Concat([i \in DOMAIN line |-> IF i \in S THEN <<line[i]>> ELSE <<>>])

(* An unknown option goes to the linker, unless -c or -E came before it.   *)
(* Of the options there, only whether there is one matters here.           *)
LinkerOptions ==
  IF \E i \in DOMAIN line : /\ line[i].kind = "-x"
                            /\ \A j \in 1 .. i : line[j].kind \notin {"-c", "-E"}
  THEN << <<"-x">> >> ELSE <<>>

Options ==
  /\ at = "options"
  /\ IF line = <<>> \/ \E i \in DOMAIN line : Refused(line[i])
     THEN /\ at' = "exit" /\ code' = (IF line = <<>> THEN 0 ELSE 8)
          /\ UNCHANGED <<args, flag, llist, errcnt>>
     ELSE /\ flag' = [c |-> Count({"-c"}), E |-> Count({"-E"}), L |-> Count({"-L"}),
                      g |-> Count({"-g"}), v |-> Count({"-v"}),
                      out |-> /\ Count({"-o"}) > 0
                              /\ Count({"-c"}) > 0 =>
                                   Count({"c", "i", "lcc", "missing"}) = 1]
          /\ errcnt' = IF Count({"-B"}) > 1 THEN Count({"-B"}) - 1 ELSE 0
          /\ llist' = LinkerOptions
          /\ args' = Only(Positions(FileKinds \cup {"-l", "-lib"}))
          /\ at' = "file" /\ code' = code
  /\ UNCHANGED <<line, cur, rmlist, itemp, spfile, child, fs>>

----------------------------------------------------------------------------
(* callsys: with -v -v nothing is executed and the status is 0.            *)
Spawn(prog, out, what) ==
  child' = [prog |-> prog, out |-> out, what |-> what,
            state |-> IF flag.v >= 2 THEN "ok" ELSE "running"]

\* A new name for a temporary file; it goes on rmlist.
FreshTemp == Temp(Cardinality(rmlist))

SourcesOf(n) == IF n \in DOMAIN fs THEN fs[n].src ELSE <<>>

(* One argument of the second loop: filename() up to its first child.      *)
SkipArg ==
  /\ args' = Tail(args) /\ UNCHANGED <<line, at, flag, cur, rmlist, itemp, spfile, child, fs, code>>

LibraryArg ==
  /\ at = "file" /\ args # <<>> /\ Head(args).kind \in {"-l", "-lib"}
  /\ llist' = IF Head(args).kind = "-lib" \/ flag.c + flag.E = 0
              THEN Append(llist, <<"-l">>) ELSE llist
  /\ errcnt' = errcnt /\ SkipArg

MissingArg ==
  /\ at = "file" /\ args # <<>> /\ Head(args).kind = "missing" /\ flag.v < 2
  /\ errcnt' = errcnt + 1 /\ llist' = llist /\ SkipArg

ObjectArg ==
  /\ at = "file" /\ args # <<>> /\ Head(args).kind = "lcc"
  /\ LET n == Input(Head(args))
     IN  llist' = IF Contains(llist, n) THEN llist ELSE Append(llist, n)
  /\ errcnt' = errcnt /\ SkipArg

\* Other files are preprocessed under -E and linked in any case.
OtherArg ==
  /\ at = "file" /\ args # <<>> /\ Head(args).kind = "other"
  /\ llist' = Append(llist, Input(Head(args)))
  /\ IF flag.E > 0
     THEN /\ Spawn("cpp", NoName, <<>>) /\ at' = "stdout" /\ args' = Tail(args)
          /\ UNCHANGED <<line, flag, cur, errcnt, rmlist, itemp, spfile, fs, code>>
     ELSE errcnt' = errcnt /\ SkipArg

\* The preprocessor's temporary file has one name for all sources.
SourceArg ==
  /\ at = "file" /\ args # <<>>
  /\ Head(args).kind = "c" \/ (Head(args).kind = "missing" /\ flag.v >= 2)
  /\ LET t == IF itemp = NoName THEN FreshTemp ELSE itemp
     IN  IF flag.E > 0
         THEN /\ Spawn("cpp", NoName, <<>>) /\ at' = "stdout"
              /\ UNCHANGED <<cur, rmlist, itemp>>
         ELSE /\ Spawn("cpp", t, <<Head(args)>>) /\ at' = "cpp"
              /\ itemp' = t /\ rmlist' = rmlist \cup {t}
              /\ cur' = [name |-> t, src |-> <<Head(args)>>]
  /\ args' = Tail(args)
  /\ UNCHANGED <<line, flag, llist, errcnt, spfile, fs, code>>

PreprocessedArg ==
  /\ at = "file" /\ args # <<>> /\ Head(args).kind = "i"
  /\ IF flag.E > 0 THEN llist' = llist /\ errcnt' = errcnt /\ SkipArg
     ELSE /\ cur' = [name |-> Input(Head(args)), src |-> <<Head(args)>>]
          /\ at' = "compile" /\ args' = Tail(args)
          /\ UNCHANGED <<line, flag, llist, errcnt, rmlist, itemp, spfile, child, fs, code>>

\* cpp has ended: its failure is one error, its output goes on to rcc.
PreprocessDone ==
  /\ at \in {"cpp", "stdout"} /\ child.state \in {"ok", "failed"}
  /\ at' = IF at = "cpp" /\ child.state = "ok" THEN "compile" ELSE "file"
  /\ errcnt' = IF child.state = "failed" THEN errcnt + 1 ELSE errcnt
  /\ child' = [child EXCEPT !.state = "none"]
  /\ UNCHANGED <<line, args, flag, cur, llist, rmlist, itemp, spfile, fs, code>>

\* Mutant: the compiler's temporary file is not put on rmlist.
MutCompile ==
  /\ at = "compile"
  /\ LET t == IF flag.c = 0 THEN FreshTemp
              ELSE IF flag.out THEN OutFile ELSE Object(Head(cur.src).name)
     IN  Spawn("rcc", t, cur.src) /\ cur' = [cur EXCEPT !.name = t]
  /\ at' = "rcc"
  /\ UNCHANGED <<line, args, flag, llist, errcnt, rmlist, itemp, spfile, fs, code>>

\* Mutant: like the preprocessor's, the compiler's temporary file has one name.
MutCompileOneName ==
  /\ at = "compile"
  /\ LET t == IF flag.c = 0 THEN Temp(99)
              ELSE IF flag.out THEN OutFile ELSE Object(Head(cur.src).name)
     IN  /\ Spawn("rcc", t, cur.src) /\ cur' = [cur EXCEPT !.name = t]
         /\ rmlist' = IF flag.c > 0 THEN rmlist ELSE rmlist \cup {t}
  /\ at' = "rcc"
  /\ UNCHANGED <<line, args, flag, llist, errcnt, itemp, spfile, fs, code>>

(* case 1 of filename() and compile().                                     *)
Compile ==
  /\ at = "compile"
  /\ LET t    == IF flag.c = 0 THEN FreshTemp
                 ELSE IF flag.out THEN OutFile ELSE Object(Head(cur.src).name)
         from == IF cur.name \in DOMAIN fs THEN fs[cur.name].src ELSE cur.src
     IN  /\ Spawn("rcc", t, from)
         /\ rmlist' = IF flag.c > 0 THEN rmlist ELSE rmlist \cup {t}
         /\ cur' = [cur EXCEPT !.name = t]
  /\ at' = "rcc"
  /\ UNCHANGED <<line, args, flag, llist, errcnt, itemp, spfile, fs, code>>

CompileDone ==
  /\ at = "rcc" /\ child.state \in {"ok", "failed"}
  /\ LET good == child.state = "ok"
     IN  /\ errcnt' = IF good THEN errcnt ELSE errcnt + 1
         /\ spfile' = IF good /\ flag.c > 0 THEN cur.name ELSE spfile
         /\ llist' = IF good /\ flag.c = 0 /\ ~Contains(llist, cur.name)
                     THEN Append(llist, cur.name) ELSE llist
  /\ child' = [child EXCEPT !.state = "none"] /\ at' = "file"
  /\ UNCHANGED <<line, args, flag, cur, rmlist, itemp, fs, code>>

----------------------------------------------------------------------------
(* After the files: linker, source paster, assembler, each under its own   *)
(* condition.                                                              *)
SourcesIn(n) ==
  CASE Head(n) = "arg"  -> Tail(n)
    [] Head(n) = "temp" -> SourcesOf(n)
    [] OTHER -> <<>>

SourcesLinked(list) == Concat([i \in DOMAIN list |-> SourcesIn(list[i])])

Link ==
  /\ at = "file" /\ args = <<>>
  /\ IF errcnt = 0 /\ flag.E = 0 /\ flag.c = 0 /\ llist # <<>>
     THEN /\ Spawn("lc3pp", LdOut, SourcesLinked(llist))
          /\ spfile' = LdOut /\ at' = "link"
     ELSE at' = "linked" /\ UNCHANGED <<child, spfile>>
  /\ UNCHANGED <<line, args, flag, cur, llist, errcnt, rmlist, itemp, fs, code>>

\* Mutant: the driver goes on waiting for a child that has failed.
MutStageDone(here, next) ==
  /\ at = here /\ child.state = "ok"
  /\ child' = [child EXCEPT !.state = "none"] /\ at' = next
  /\ UNCHANGED <<line, args, flag, cur, llist, errcnt, rmlist, itemp, spfile, fs, code>>

StageDone(here, next) ==
  /\ at = here /\ child.state \in {"ok", "failed"}
  /\ errcnt' = IF child.state = "failed" THEN errcnt + 1 ELSE errcnt
  /\ child' = [child EXCEPT !.state = "none"] /\ at' = next
  /\ UNCHANGED <<line, args, flag, cur, llist, rmlist, itemp, spfile, fs, code>>

LinkDone == StageDone("link", "linked")

\* Without a file to paste into, strrchr is given a null pointer.
Paste ==
  /\ at = "linked"
  /\ IF errcnt = 0 /\ flag.E = 0 /\ flag.g > 0
     THEN IF spfile = NoName
          THEN at' = "exit" /\ code' = 139 /\ UNCHANGED <<child, rmlist, cur>>
          ELSE /\ Spawn("SourcePaste", FreshTemp, SourcesOf(spfile))
               /\ rmlist' = rmlist \cup {FreshTemp}
               /\ cur' = [cur EXCEPT !.name = FreshTemp]
               /\ at' = "paste" /\ code' = code
     ELSE at' = "pasted" /\ UNCHANGED <<child, rmlist, cur, code>>
  /\ UNCHANGED <<line, args, flag, llist, errcnt, itemp, spfile, fs>>

(* The file is replaced by the paster's output whether the paster          *)
(* succeeded or not; the rename fails when there is no output, or when it  *)
(* is on another file system.                                              *)
PasteDone ==
  /\ at = "paste" /\ child.state \in {"ok", "failed"}
  /\ \E renamed \in BOOLEAN :
       LET there == cur.name \in DOMAIN fs
           dry   == flag.v >= 2
           gone  == spfile \notin DOMAIN fs
           after == [n \in (DOMAIN fs \ {spfile, cur.name}) \cup {spfile} |->
                       IF n = spfile THEN fs[cur.name] ELSE fs[n]]
           removed == [n \in DOMAIN fs \ {spfile} |-> fs[n]]
           Err(b) == IF b THEN 1 ELSE 0
       IN  /\ renamed => there
           /\ fs' = IF dry THEN fs ELSE IF renamed THEN after ELSE removed
           /\ errcnt' = errcnt + Err(child.state = "failed")
                               + Err(~dry /\ gone) + Err(~dry /\ ~renamed)
  /\ child' = [child EXCEPT !.state = "none"] /\ at' = "pasted"
  /\ UNCHANGED <<line, args, flag, cur, llist, rmlist, itemp, spfile, code>>

\* Mutant: the errors of the stages before are not looked at.
MutAssemble ==
  /\ at = "pasted"
  /\ IF flag.E = 0 /\ flag.c = 0 /\ flag.L = 0
     THEN Spawn("lc3as", Obj, SourcesOf(LdOut)) /\ at' = "as"
     ELSE at' = "rm" /\ UNCHANGED child
  /\ UNCHANGED <<line, args, flag, cur, llist, errcnt, rmlist, itemp, spfile, fs, code>>

Assemble ==
  /\ at = "pasted"
  /\ IF errcnt = 0 /\ flag.E = 0 /\ flag.c = 0 /\ flag.L = 0
     THEN Spawn("lc3as", Obj, SourcesOf(LdOut)) /\ at' = "as"
     ELSE at' = "rm" /\ UNCHANGED child
  /\ UNCHANGED <<line, args, flag, cur, llist, errcnt, rmlist, itemp, spfile, fs, code>>

AssembleDone == StageDone("as", "rm")

Without(names) == [n \in DOMAIN fs \ names |-> fs[n]]

rm == fs' = IF flag.v >= 2 THEN fs ELSE Without(rmlist)

Finish ==
  /\ at = "rm" /\ rm
  /\ at' = "exit" /\ code' = (IF errcnt > 0 THEN 1 ELSE 0)
  /\ UNCHANGED <<line, args, flag, cur, llist, errcnt, rmlist, itemp, spfile, child>>

(* A signal at any time; one sent by the terminal reaches the child too,   *)
(* which may still write before it dies.                                   *)
interrupt ==
  /\ at # "exit" /\ code = 256 /\ rm
  /\ code' = 100 /\ at' = "exit"
  /\ child' = IF child.state \in {"running", "open"}
              THEN [child EXCEPT !.prog = "orphan"] ELSE child
  /\ UNCHANGED <<line, args, flag, cur, llist, errcnt, rmlist, itemp, spfile>>

----------------------------------------------------------------------------
(* The child: it opens its output, and ends; only a child that has written *)
(* all of it ends well.  One that cannot be started fails at once.         *)
ChildOpens ==
  /\ child.state = "running"
  /\ child' = [child EXCEPT !.state = "open"]
  /\ fs' = IF child.out = NoName THEN fs
           ELSE [n \in DOMAIN fs \cup {child.out} |->
                   IF n = child.out THEN [src |-> <<>>, pasted |-> FALSE, whole |-> FALSE]
                   ELSE fs[n]]
  /\ UNCHANGED <<line, at, args, flag, cur, llist, errcnt, rmlist, itemp, spfile, code>>

ChildEnds ==
  /\ child.state \in {"running", "open"}
  /\ \/ /\ child' = [child EXCEPT !.state = "failed"] /\ fs' = fs
     \/ /\ child.state = "open"
        /\ child' = [child EXCEPT !.state = "ok"]
        /\ fs' = [n \in DOMAIN fs |->
                    IF n = child.out
                    THEN Content(child.what, child.prog = "SourcePaste") ELSE fs[n]]
  /\ UNCHANGED <<line, at, args, flag, cur, llist, errcnt, rmlist, itemp, spfile, code>>

Main ==
  \/ Options \/ LibraryArg \/ MissingArg \/ ObjectArg \/ OtherArg \/ SourceArg
  \/ PreprocessedArg \/ PreprocessDone \/ Compile \/ CompileDone
  \/ Link \/ LinkDone \/ Paste \/ PasteDone \/ Assemble \/ AssembleDone \/ Finish

Next == Main \/ interrupt \/ ChildOpens \/ ChildEnds

Spec == Init /\ [][Next]_vars /\ WF_vars(Main) /\ WF_vars(ChildEnds)

----------------------------------------------------------------------------
TypeOK ==
  /\ errcnt \in Nat /\ code \in 0 .. 256 /\ (at = "exit") = (code # 256)
  /\ child.state \in {"none", "running", "open", "ok", "failed"}
  /\ \A n \in rmlist : Head(n) = "temp"

(* The files to be linked: an object file named twice is linked once.     *)
Wanted ==
  Only({i \in Positions({"c", "i", "other", "lcc"}) :
          line[i].kind = "lcc" => \A j \in 1 .. i - 1 : line[j] # line[i]})

(* When lcc exits with success after linking, the object file (with -L the *)
(* assembly file) was made from exactly the files named, in their order,   *)
(* and with -g the source has been pasted in.                              *)
Built ==
  code = 0 /\ llist # <<>> /\ flag.c = 0 /\ flag.E = 0 /\ flag.v < 2 =>
    LET product == IF flag.L > 0 THEN LdOut ELSE Obj
    IN  /\ product \in DOMAIN fs /\ fs[product].whole
        /\ fs[product].src = Wanted
        /\ flag.g > 0 => fs[LdOut].pasted

(* However lcc ends, no temporary file outlives it, unless the signal came *)
(* while a child ran, which can still create one.                          *)
NoTempLeft == at = "exit" /\ child.prog # "orphan" => Temps = {}

P == INSTANCE Pipeline WITH
  stage <- CASE at \in {"rm", "exit"} -> 5
             [] at \notin {"rm", "exit"} /\ child.prog = "lc3as" -> 4
             [] at \notin {"rm", "exit"} /\ child.prog = "SourcePaste" -> 3
             [] at \notin {"rm", "exit"} /\ child.prog = "lc3pp" -> 2
             [] OTHER -> 1,
  ok <- errcnt = 0

(* lcc does what Pipeline promises.                                        *)
KeepsPromise == P!Spec

(* lcc ends when its children do.                                          *)
Ends == <>(at = "exit")
=============================================================================
