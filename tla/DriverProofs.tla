---------------------------- MODULE DriverProofs ----------------------------
(***************************************************************************)
(* The compiler driver does what Pipeline promises, leaves no temporary    *)
(* file behind, and makes its product from exactly the files named, for    *)
(* every command line and every set of files an earlier call left.         *)
(***************************************************************************)
EXTENDS Driver, TLAPS, FiniteSetTheorems, WellFoundedInduction

Stages == {"options", "file", "cpp", "stdout", "compile", "rcc", "link",
           "linked", "paste", "pasted", "as", "rm", "exit"}

\* Between two of its children the driver waits for none.
Between == {"options", "file", "compile", "linked", "pasted", "rm"}

Alive == child.state \in {"running", "open"}

FlagType ==
  /\ flag.c \in Nat /\ flag.E \in Nat /\ flag.L \in Nat
  /\ flag.g \in Nat /\ flag.v \in Nat

ChildType ==
  /\ child = [prog |-> child.prog, out |-> child.out, what |-> child.what,
              state |-> child.state]
  /\ child.state \in {"none", "running", "open", "ok", "failed"}

Typed ==
  /\ line \in CommandLines
  /\ at \in Stages /\ errcnt \in Nat /\ code \in 0 .. 256
  /\ (at = "exit") <=> (code # 256)
  /\ FlagType /\ ChildType

\* The children there can have been by now.
Order ==
  /\ at \in {"options", "file", "cpp", "stdout", "compile", "rcc"} =>
       child.prog \in {"none", "cpp", "rcc"}
  /\ at \in {"link", "linked"} => child.prog \in {"none", "cpp", "rcc", "lc3pp"}
  /\ at \in {"paste", "pasted"} =>
       child.prog \in {"none", "cpp", "rcc", "lc3pp", "SourcePaste"}
  /\ at = "as" => child.prog = "lc3as"
  /\ at # "exit" => child.prog # "orphan"
  /\ at = "options" => errcnt = 0

StageInv == Typed /\ Order

(* A temporary file there is, or that the running child can still create,  *)
(* is on rmlist.                                                           *)
Listed ==
  /\ Temps \subseteq rmlist
  /\ Alive /\ child.out # NoName /\ Head(child.out) = "temp" =>
       child.out \in rmlist
  /\ \A n \in rmlist : Head(n) = "temp"

(* The preprocessor's output is a temporary file, and the file the paster  *)
(* replaces is not.                                                        *)
Kept ==
  /\ itemp # NoName => Head(itemp) = "temp"
  /\ spfile # NoName => Head(spfile) # "temp"
  /\ at = "paste" => spfile # NoName
  /\ at = "rcc" => cur.name # NoName
  /\ at = "rcc" /\ flag.c > 0 => Head(cur.name) # "temp"

(* With -v -v no child runs and no temporary file is made.                 *)
Dry ==
  /\ at = "options" => Temps = {}
  /\ flag.v >= 2 => Temps = {} /\ ~Alive

(* The driver waits for its child; what an interrupted driver left running *)
(* is an orphan.                                                           *)
Waits ==
  /\ at \in Between => ~Alive
  /\ at = "exit" /\ child.prog # "orphan" => ~Alive /\ Temps = {}

(* Without an error and without -E, a call that made a temporary file has  *)
(* something to paste into, or to link.                                    *)
Pasteable ==
  /\ at = "stdout" => flag.E > 0
  /\ at = "options" => rmlist = {}
  /\ errcnt = 0 /\ flag.E = 0 /\ rmlist # {} =>
       /\ at = "file" => spfile # NoName \/ (llist # <<>> /\ flag.c = 0)
       /\ at \in {"link", "linked"} => spfile # NoName

IsSeq(s) == s \in Seq({s[i] : i \in DOMAIN s})

TempInv == IsSeq(llist) /\ Listed /\ Kept /\ Dry /\ Waits /\ Pasteable

----------------------------------------------------------------------------
(* How often an option of some kinds is given is a number.                 *)
LEMMA CountType == ASSUME Typed, NEW kinds PROVE Count(kinds) \in Nat
<1>1. line \in Seq([kind : FileKinds \cup OptKinds, name : STRING])
  BY DriverConstants DEF Typed
<1>2. Len(line) \in Nat /\ DOMAIN line = 1 .. Len(line)
  BY <1>1
<1>3. IsFiniteSet(DOMAIN line)
  BY <1>2, FS_Interval
<1>4. IsFiniteSet(Positions(kinds))
  BY <1>3, FS_Subset DEF Positions
<1>5. QED
  BY <1>4, FS_CardinalityType DEF Count

(* The initial states satisfy the invariant of the stages.                 *)
LEMMA InitStage == Init => StageInv
  BY DEF Init, StageInv, Typed, Order, Stages, FlagType, ChildType

(* Spawn starts the program; with -v -v it has ended at once.              *)
LEMMA SpawnEffect ==
  ASSUME NEW prog, NEW out, NEW what, Spawn(prog, out, what), FlagType
  PROVE  /\ ChildType' /\ child'.prog = prog /\ child'.out = out
         /\ child'.state = IF flag.v >= 2 THEN "ok" ELSE "running"
  BY DEF Spawn, ChildType, FlagType

(* A child whose state changes is the child it was.                        *)
LEMMA StateEffect ==
  ASSUME ChildType, NEW x \in {"none", "open", "ok", "failed"},
         child' = [child EXCEPT !.state = x]
  PROVE  /\ ChildType' /\ child'.prog = child.prog /\ child'.out = child.out
         /\ child'.state = x
  BY DEF ChildType

(* The actions of the driver keep the invariant of the stages.             *)
LEMMA MainStage == StageInv /\ Main => StageInv'
<1> SUFFICES ASSUME StageInv, Main PROVE StageInv'
  OBVIOUS
<1> USE DEF StageInv, Typed, Order, Stages
<1>0. FlagType /\ ChildType
  OBVIOUS
<1>1. CASE Options
  <2>1. CASE line = <<>> \/ \E i \in DOMAIN line : Refused(line[i])
    BY <1>1, <2>1 DEF Options, FlagType, ChildType
  <2>2. CASE ~(line = <<>> \/ \E i \in DOMAIN line : Refused(line[i]))
    <3>1. /\ Count({"-c"}) \in Nat /\ Count({"-E"}) \in Nat
          /\ Count({"-L"}) \in Nat /\ Count({"-g"}) \in Nat
          /\ Count({"-v"}) \in Nat /\ Count({"-B"}) \in Nat
      BY CountType
    <3>2. FlagType' /\ errcnt' \in Nat
      BY <1>1, <2>2, <3>1 DEF Options, FlagType
    <3>3. QED
      BY <1>1, <2>2, <3>2 DEF Options, ChildType
  <2>3. QED
    BY <2>1, <2>2
<1>2. CASE LibraryArg \/ MissingArg \/ ObjectArg
  BY <1>2 DEF LibraryArg, MissingArg, ObjectArg, SkipArg, FlagType, ChildType
<1>3. CASE OtherArg
  <2>1. CASE flag.E > 0
    <3>1. Spawn("cpp", NoName, <<>>)
      BY <1>3, <2>1 DEF OtherArg
    <3>2. ChildType' /\ child'.prog = "cpp"
      BY <1>0, <3>1, SpawnEffect
    <3>3. QED
      BY <1>3, <2>1, <3>2 DEF OtherArg, FlagType
  <2>2. CASE ~(flag.E > 0)
    BY <1>3, <2>2 DEF OtherArg, SkipArg, FlagType, ChildType
  <2>3. QED
    BY <2>1, <2>2
<1>4. CASE SourceArg
  <2>1. ChildType' /\ child'.prog = "cpp"
    BY <1>0, <1>4, SpawnEffect DEF SourceArg
  <2>2. QED
    BY <1>4, <2>1 DEF SourceArg, FlagType
<1>5. CASE PreprocessedArg
  BY <1>5 DEF PreprocessedArg, SkipArg, FlagType, ChildType
<1>6. CASE PreprocessDone
  <2>1. ChildType' /\ child'.prog = child.prog
    BY <1>0, <1>6, StateEffect DEF PreprocessDone
  <2>2. QED
    BY <1>6, <2>1 DEF PreprocessDone, FlagType
<1>7. CASE Compile
  <2>1. ChildType' /\ child'.prog = "rcc"
    BY <1>0, <1>7, SpawnEffect DEF Compile
  <2>2. QED
    BY <1>7, <2>1 DEF Compile, FlagType
<1>8. CASE CompileDone
  <2>1. ChildType' /\ child'.prog = child.prog
    BY <1>0, <1>8, StateEffect DEF CompileDone
  <2>2. QED
    BY <1>8, <2>1 DEF CompileDone, FlagType
<1>9. CASE Link
  <2>1. CASE child' = child
    BY <1>9, <2>1 DEF Link, FlagType, ChildType
  <2>2. CASE Spawn("lc3pp", LdOut, SourcesLinked(llist)) /\ at' = "link"
    <3>1. ChildType' /\ child'.prog = "lc3pp"
      BY <1>0, <2>2, SpawnEffect
    <3>2. QED
      BY <1>9, <2>2, <3>1 DEF Link, FlagType
  <2>3. QED
    BY <1>9, <2>1, <2>2 DEF Link
<1>10. CASE LinkDone \/ AssembleDone
  <2>1. PICK here, next : /\ StageDone(here, next)
                          /\ <<here, next>> \in {<<"link", "linked">>, <<"as", "rm">>}
    BY <1>10 DEF LinkDone, AssembleDone
  <2>2. ChildType' /\ child'.prog = child.prog
    BY <1>0, <2>1, StateEffect DEF StageDone
  <2>3. QED
    BY <2>1, <2>2 DEF StageDone, FlagType
<1>11. CASE Paste
  <2>1. CASE child' = child
    BY <1>11, <2>1 DEF Paste, FlagType, ChildType
  <2>2. CASE Spawn("SourcePaste", FreshTemp, SourcesOf(spfile)) /\ at' = "paste"
    <3>1. ChildType' /\ child'.prog = "SourcePaste"
      BY <1>0, <2>2, SpawnEffect
    <3>2. code' = code
      BY <1>11, <2>2 DEF Paste
    <3>3. QED
      BY <1>11, <2>2, <3>1, <3>2 DEF Paste, FlagType
  <2>3. QED
    BY <1>11, <2>1, <2>2 DEF Paste
<1>12. CASE PasteDone
  <2>1. ChildType' /\ child'.prog = child.prog
    BY <1>0, <1>12, StateEffect DEF PasteDone
  <2>2. errcnt' \in Nat
    BY <1>12 DEF PasteDone
  <2>3. QED
    BY <1>12, <2>1, <2>2 DEF PasteDone, FlagType
<1>13. CASE Assemble
  <2>1. CASE child' = child /\ at' = "rm"
    BY <1>13, <2>1 DEF Assemble, FlagType, ChildType
  <2>2. CASE Spawn("lc3as", Obj, SourcesOf(LdOut)) /\ at' = "as"
    <3>1. ChildType' /\ child'.prog = "lc3as"
      BY <1>0, <2>2, SpawnEffect
    <3>2. QED
      BY <1>13, <2>2, <3>1 DEF Assemble, FlagType
  <2>3. QED
    BY <1>13, <2>1, <2>2 DEF Assemble
<1>14. CASE Finish
  BY <1>14 DEF Finish, FlagType, ChildType
<1>15. QED
  BY <1>1, <1>2, <1>3, <1>4, <1>5, <1>6, <1>7, <1>8, <1>9, <1>10, <1>11,
     <1>12, <1>13, <1>14 DEF Main

(* The invariant of the stages is inductive.                               *)
LEMMA NextStage == StageInv /\ [Next]_vars => StageInv'
<1> SUFFICES ASSUME StageInv, [Next]_vars PROVE StageInv'
  OBVIOUS
<1>1. CASE interrupt
  <2>1. ChildType'
    BY <1>1 DEF interrupt, StageInv, Typed, ChildType
  <2>2. QED
    BY <1>1, <2>1 DEF interrupt, StageInv, Typed, Order, Stages, FlagType
<1>2. CASE ChildOpens \/ ChildEnds
  <2>1. ChildType' /\ child'.prog = child.prog
    BY <1>2, StateEffect DEF ChildOpens, ChildEnds, StageInv, Typed
  <2>2. UNCHANGED <<line, at, errcnt, flag, code>>
    BY <1>2 DEF ChildOpens, ChildEnds
  <2>3. QED
    BY <2>1, <2>2 DEF StageInv, Typed, Order, FlagType
<1>3. CASE UNCHANGED vars
  BY <1>3 DEF vars, StageInv, Typed, Order, FlagType, ChildType
<1>4. QED
  BY <1>1, <1>2, <1>3, MainStage DEF Next

(* Every reachable state satisfies the invariant of the stages.            *)
THEOREM StagesInOrder == Spec => []StageInv
  BY InitStage, NextStage, PTL DEF Spec

----------------------------------------------------------------------------
(***************************************************************************)
(* The refinement of Pipeline.                                             *)
(***************************************************************************)
\* The stage of Pipeline the driver is in, as the mapping P computes it.
Stage == CASE at \in {"rm", "exit"} -> 5
           [] at \notin {"rm", "exit"} /\ child.prog = "lc3as" -> 4
           [] at \notin {"rm", "exit"} /\ child.prog = "SourcePaste" -> 3
           [] at \notin {"rm", "exit"} /\ child.prog = "lc3pp" -> 2
           [] OTHER -> 1

(* The stage is that of the driver's last child, until all is done.        *)
LEMMA StageValue ==
  /\ at \in {"rm", "exit"} => Stage = 5
  /\ at \notin {"rm", "exit"} =>
       /\ child.prog = "lc3as" => Stage = 4
       /\ child.prog = "SourcePaste" => Stage = 3
       /\ child.prog = "lc3pp" => Stage = 2
       /\ child.prog \notin {"lc3as", "SourcePaste", "lc3pp"} => Stage = 1
  BY DEF Stage

(* A child of the driver belongs to a stage.                               *)
LEMMA StageType == Stage \in 1 .. 5 /\ (Stage = 5 <=> at \in {"rm", "exit"})
  BY StageValue

(* A step of the driver that keeps the stage, the errors and the exit code *)
(* does nothing in Pipeline.                                               *)
LEMMA PipelineStutter ==
  ASSUME Stage' = Stage, errcnt' = errcnt, code' = code
  PROVE  UNCHANGED P!vars
  BY DEF P!vars, Stage

(* A step that counts an error fails in Pipeline.                           *)
LEMMA PipelineFail ==
  ASSUME code = 256, Stage \in 1 .. 4, errcnt' # 0,
         Stage' \in {Stage, 5}, code' = code
  PROVE  P!Next
  BY DEF P!Next, P!Fail, P!None, P!Compiling, P!Assembling, P!Ending, Stage

(* A step to a later stage, allowed after an error only to the last.       *)
LEMMA PipelineAdvance ==
  ASSUME code = 256, Stage' \in Stage + 1 .. 5, errcnt # 0 => Stage' = 5,
         errcnt' = errcnt, code' = code
  PROVE  P!Next
  BY DEF P!Next, P!Advance, P!None, P!Ending, Stage

(* A step that ends the driver, with code 0 only if there was no error.    *)
LEMMA PipelineExit ==
  ASSUME code = 256, code' \in 0 .. 255, code' = 0 => errcnt = 0,
         Stage' = 5, errcnt' = errcnt
  PROVE  P!Next
  BY DEF P!Next, P!Exit, P!None, P!Ending, Stage

(* A child that has ended: the driver goes on at the same stage, or with   *)
(* an error if the child failed.                                           *)
LEMMA PipelineEnded ==
  ASSUME StageInv, child' = [child EXCEPT !.state = "none"],
         code' = code, at # "exit", at # "rm", at' # "exit",
         errcnt' \in Nat, errcnt' >= errcnt
  PROVE  [P!Next]_P!vars
<1>1. child'.prog = child.prog
  BY StateEffect DEF StageInv, Typed
<1>2. code = 256 /\ errcnt \in Nat
  BY DEF StageInv, Typed
<1>3. Stage \in 1 .. 4
  BY StageType
<1>4. Stage' = IF at' = "rm" THEN 5 ELSE Stage
  BY <1>1, StageValue DEF Stage
<1>5. CASE errcnt' = errcnt /\ at' # "rm"
  BY <1>4, <1>5, PipelineStutter
<1>6. CASE errcnt' = errcnt /\ at' = "rm"
  BY <1>2, <1>3, <1>4, <1>6, PipelineAdvance
<1>7. CASE errcnt' # errcnt
  BY <1>2, <1>3, <1>4, <1>7, PipelineFail
<1>8. QED
  BY <1>5, <1>6, <1>7

(* Every step of the driver is a step of Pipeline or changes nothing there. *)
LEMMA NextPipeline == StageInv /\ [Next]_vars => [P!Next]_P!vars
<1> SUFFICES ASSUME StageInv, [Next]_vars PROVE [P!Next]_P!vars
  OBVIOUS
<1>0. /\ at # "exit" <=> code = 256
      /\ errcnt \in Nat /\ FlagType /\ ChildType
  BY DEF StageInv, Typed
<1>1. CASE Options
  <2>1. at = "options" /\ errcnt = 0 /\ code = 256 /\ child' = child
    BY <1>0, <1>1 DEF Options, StageInv, Order
  <2>2. Stage = 1
    BY <2>1, StageValue DEF StageInv, Order
  <2>3. CASE line = <<>> \/ \E i \in DOMAIN line : Refused(line[i])
    <3>1. at' = "exit" /\ code' \in 0 .. 255 /\ errcnt' = errcnt
      BY <1>1, <2>3 DEF Options
    <3>2. Stage' = 5
      BY <3>1 DEF Stage
    <3>3. QED
      BY <2>1, <3>1, <3>2, PipelineExit
  <2>4. CASE ~(line = <<>> \/ \E i \in DOMAIN line : Refused(line[i]))
    <3>1. at' = "file" /\ code' = code
      BY <1>1, <2>4 DEF Options
    <3>2. Stage' = 1
      BY <2>1, <2>2, <3>1 DEF Stage, StageInv, Order
    <3>3. CASE errcnt' = 0
      BY <2>1, <2>2, <3>1, <3>2, <3>3, PipelineStutter
    <3>4. CASE errcnt' # 0
      BY <2>1, <2>2, <3>1, <3>2, <3>4, PipelineFail
    <3>5. QED
      BY <3>3, <3>4
  <2>5. QED
    BY <2>3, <2>4
<1>2. CASE MissingArg
  <2>1. at = "file" /\ UNCHANGED <<at, child, code>> /\ errcnt' = errcnt + 1
    BY <1>2 DEF MissingArg, SkipArg
  <2>2. Stage = 1 /\ Stage' = 1
    BY <2>1, StageValue DEF StageInv, Order, Stage
  <2>3. QED
    BY <1>0, <2>1, <2>2, PipelineFail
<1>3. CASE LibraryArg \/ ObjectArg \/ OtherArg \/ SourceArg \/ PreprocessedArg
           \/ Compile
  <2>1. /\ at \in {"file", "compile"} /\ UNCHANGED <<errcnt, code>>
        /\ at' \in {"file", "stdout", "cpp", "compile", "rcc"}
    BY <1>3 DEF LibraryArg, ObjectArg, OtherArg, SourceArg, PreprocessedArg,
                Compile, SkipArg
  <2>2. child'.prog \in {child.prog, "cpp", "rcc"}
    BY <1>0, <1>3, SpawnEffect DEF LibraryArg, ObjectArg, OtherArg, SourceArg,
                PreprocessedArg, Compile, SkipArg
  <2>3. Stage = 1 /\ Stage' = 1
    BY <2>1, <2>2 DEF StageInv, Order, Stage
  <2>4. QED
    BY <2>1, <2>3, PipelineStutter
<1>4. CASE \/ PreprocessDone \/ CompileDone \/ LinkDone \/ PasteDone
           \/ AssembleDone
  <2>1. /\ child' = [child EXCEPT !.state = "none"] /\ code' = code
        /\ at \in {"cpp", "stdout", "rcc", "link", "paste", "as"}
        /\ at' \in {"compile", "file", "linked", "pasted", "rm"}
    BY <1>4 DEF PreprocessDone, CompileDone, LinkDone, PasteDone,
                AssembleDone, StageDone
  <2>2. errcnt' \in Nat /\ errcnt' >= errcnt
    BY <1>0, <1>4 DEF PreprocessDone, CompileDone, LinkDone, PasteDone,
                      AssembleDone, StageDone
  <2>3. QED
    BY <2>1, <2>2, PipelineEnded
<1>5. CASE Link
  <2>1. at = "file" /\ UNCHANGED <<errcnt, code>>
    BY <1>5 DEF Link
  <2>2. Stage = 1
    BY <2>1, StageValue DEF StageInv, Order
  <2>3. CASE at' = "linked" /\ child' = child
    <3>1. Stage' = 1
      BY <2>1, <2>3 DEF StageInv, Order, Stage
    <3>2. QED
      BY <2>1, <2>2, <3>1, PipelineStutter
  <2>4. CASE /\ errcnt = 0 /\ at' = "link"
             /\ Spawn("lc3pp", LdOut, SourcesLinked(llist))
    <3>1. child'.prog = "lc3pp"
      BY <1>0, <2>4, SpawnEffect
    <3>2. Stage' = 2
      BY <2>4, <3>1 DEF Stage
    <3>3. QED
      BY <1>0, <2>1, <2>2, <2>4, <3>2, PipelineAdvance
  <2>5. QED
    BY <1>5, <2>3, <2>4 DEF Link
<1>6. CASE Paste
  <2>1. at = "linked" /\ errcnt' = errcnt
    BY <1>6 DEF Paste
  <2>2. Stage \in 1 .. 2
    BY <2>1, StageValue DEF StageInv, Order
  <2>3. CASE at' = "exit" /\ code' = 139 /\ errcnt = 0
    <3>1. Stage' = 5
      BY <2>3 DEF Stage
    <3>2. QED
      BY <1>0, <2>1, <2>3, <3>1, PipelineExit
  <2>4. CASE /\ errcnt = 0 /\ at' = "paste" /\ code' = code
             /\ Spawn("SourcePaste", FreshTemp, SourcesOf(spfile))
    <3>1. child'.prog = "SourcePaste"
      BY <1>0, <2>4, SpawnEffect
    <3>2. Stage' = 3
      BY <2>4, <3>1 DEF Stage
    <3>3. QED
      BY <1>0, <2>1, <2>2, <2>4, <3>2, PipelineAdvance
  <2>5. CASE at' = "pasted" /\ child' = child /\ code' = code
    <3>1. Stage' = Stage
      BY <2>1, <2>5 DEF Stage
    <3>2. QED
      BY <2>1, <2>5, <3>1, PipelineStutter
  <2>6. QED
    BY <1>6, <2>3, <2>4, <2>5 DEF Paste
<1>7. CASE Assemble
  <2>1. at = "pasted" /\ UNCHANGED <<errcnt, code>>
    BY <1>7 DEF Assemble
  <2>2. Stage \in 1 .. 3
    BY <2>1, StageValue DEF StageInv, Order
  <2>3. CASE at' = "rm"
    <3>1. Stage' = 5
      BY <2>3 DEF Stage
    <3>2. QED
      BY <1>0, <2>1, <2>2, <3>1, PipelineAdvance
  <2>4. CASE /\ errcnt = 0 /\ at' = "as"
             /\ Spawn("lc3as", Obj, SourcesOf(LdOut))
    <3>1. child'.prog = "lc3as"
      BY <1>0, <2>4, SpawnEffect
    <3>2. Stage' = 4
      BY <2>4, <3>1 DEF Stage
    <3>3. QED
      BY <1>0, <2>1, <2>2, <2>4, <3>2, PipelineAdvance
  <2>5. QED
    BY <1>7, <2>3, <2>4 DEF Assemble
<1>8. CASE Finish \/ interrupt
  <2>1. /\ at' = "exit" /\ at # "exit" /\ errcnt' = errcnt
        /\ code' \in 0 .. 255 /\ (code' = 0 => errcnt = 0)
    BY <1>0, <1>8 DEF Finish, interrupt
  <2>2. Stage' = 5
    BY <2>1 DEF Stage
  <2>3. QED
    BY <1>0, <2>1, <2>2, PipelineExit
<1>9. CASE ChildOpens \/ ChildEnds
  <2>1. child'.prog = child.prog
    BY <1>0, <1>9, StateEffect DEF ChildOpens, ChildEnds
  <2>2. UNCHANGED <<at, errcnt, code>>
    BY <1>9 DEF ChildOpens, ChildEnds
  <2>3. Stage' = Stage
    BY <2>1, <2>2 DEF Stage
  <2>4. QED
    BY <2>2, <2>3, PipelineStutter
<1>10. CASE UNCHANGED vars
  <2>1. UNCHANGED <<at, child, errcnt, code>>
    BY <1>10 DEF vars
  <2>2. Stage' = Stage
    BY <2>1 DEF Stage
  <2>3. QED
    BY <2>1, <2>2, PipelineStutter
<1>11. QED
  BY <1>1, <1>2, <1>3, <1>4, <1>5, <1>6, <1>7, <1>8, <1>9, <1>10
  DEF Next, Main

(* lcc does what Pipeline promises: the stages follow one another, none    *)
(* starts after an error, and the exit code tells whether there was one    *)
(* (main, filename, callsys, interrupt of lcc.c).                          *)
THEOREM DriverRefinesPipeline == Spec => KeepsPromise
<1>1. Init => P!Init
  BY DEF Init, P!Init, P!Compiling, P!None
<1>2. QED
  BY <1>1, StagesInOrder, NextPipeline, PTL DEF Spec, KeepsPromise, P!Spec

----------------------------------------------------------------------------
(***************************************************************************)
(* Temporary files.                                                        *)
(***************************************************************************)
(* Appending to a sequence gives a sequence that is not empty.             *)
LEMMA AppendSeq ==
  ASSUME NEW s, NEW e, IsSeq(s)
  PROVE  IsSeq(Append(s, e)) /\ Append(s, e) # <<>>
<1> DEFINE S == {s[i] : i \in DOMAIN s} \cup {e}
           t == Append(s, e)
<1>1. s \in Seq(S)
  <2>1. s \in Seq({s[i] : i \in DOMAIN s})
    BY DEF IsSeq
  <2>2. /\ Len(s) \in Nat /\ DOMAIN s = 1 .. Len(s)
        /\ s = [i \in 1 .. Len(s) |-> s[i]]
    BY <2>1
  <2>3. \A i \in 1 .. Len(s) : s[i] \in S
    BY <2>2
  <2>4. s \in [1 .. Len(s) -> S]
    BY <2>2, <2>3
  <2>5. QED
    BY <2>2, <2>4
<1>2. t \in Seq(S) /\ t # <<>>
  BY <1>1
<1> HIDE DEF t, S
<1>3. /\ Len(t) \in Nat /\ DOMAIN t = 1 .. Len(t)
      /\ t = [i \in 1 .. Len(t) |-> t[i]]
  BY <1>2
<1>4. t \in [1 .. Len(t) -> {t[i] : i \in DOMAIN t}]
  BY <1>3
<1>5. t \in Seq({t[i] : i \in DOMAIN t})
  BY <1>3, <1>4
<1>6. QED
  BY <1>2, <1>5 DEF IsSeq, t

(* The linker's list is a sequence that only grows once options are read.  *)
LEMMA ListGrows ==
  ASSUME IsSeq(llist), Next
  PROVE  IsSeq(llist') /\ (at # "options" /\ llist # <<>> => llist' # <<>>)
<1>1. CASE Options
  <2>1. IsSeq(<<>>) /\ IsSeq(<< <<"-x">> >>)
    <3>1. << <<"-x">> >> \in Seq({<<"-x">>})
      OBVIOUS
    <3>2. {<< <<"-x">> >>[i] : i \in DOMAIN << <<"-x">> >>} = {<<"-x">>}
      OBVIOUS
    <3>3. QED
      BY <3>1, <3>2 DEF IsSeq
  <2>2. QED
    BY <1>1, <2>1 DEF Options, LinkerOptions
<1>2. CASE ~Options
  <2>1. llist' = llist \/ \E e : llist' = Append(llist, e)
    BY <1>2 DEF Next, Main, LibraryArg, MissingArg, ObjectArg, OtherArg,
      SourceArg, PreprocessedArg, PreprocessDone, Compile, CompileDone, Link,
      LinkDone, Paste, PasteDone, Assemble, AssembleDone, Finish, interrupt,
      ChildOpens, ChildEnds, StageDone
  <2>2. QED
    BY <2>1, AppendSeq
<1>3. QED
  BY <1>1, <1>2

(* Which names are those of temporary files.                               *)
LEMMA NameKinds ==
  /\ Head(FreshTemp) = "temp" /\ FreshTemp # NoName
  /\ Head(OutFile) # "temp" /\ OutFile # NoName
  /\ Head(LdOut) # "temp" /\ LdOut # NoName
  /\ Head(Obj) # "temp" /\ Obj # NoName
  /\ \A s : Head(Object(s)) # "temp" /\ Object(s) # NoName
  BY DEF FreshTemp, Temp, OutFile, LdOut, Obj, Object, NoName

(* A child is started: its temporary file, if it has one, is on rmlist.    *)
LEMMA SpawnTemp ==
  ASSUME StageInv, TempInv, NEW prog, NEW out, NEW what,
         Spawn(prog, out, what), fs' = fs, flag' = flag,
         rmlist \subseteq rmlist', \A n \in rmlist' : Head(n) = "temp",
         out = NoName \/ Head(out) # "temp" \/ out \in rmlist',
         at' \notin Between, at' # "exit"
  PROVE  Listed' /\ Dry' /\ Waits'
<1>1. /\ child'.out = out
      /\ child'.state = IF flag.v >= 2 THEN "ok" ELSE "running"
  BY SpawnEffect DEF StageInv, Typed
<1>2. Temps' = Temps
  BY DEF Temps
<1>3. Listed'
  BY <1>1, <1>2 DEF TempInv, Listed
<1>4. Dry'
  BY <1>1, <1>2 DEF TempInv, Dry, Alive, Between
<1>5. Waits'
  BY DEF Waits
<1>6. QED
  BY <1>3, <1>4, <1>5

(* The driver goes on without a child.                                     *)
LEMMA IdleTemp ==
  ASSUME TempInv, ~Alive', Temps' \subseteq Temps, flag' = flag,
         rmlist' = rmlist, at' # "exit", at' # "options"
  PROVE  Listed' /\ Dry' /\ Waits'
  BY DEF TempInv, Listed, Dry, Waits

(* The initial states satisfy the invariant of the temporary files.        *)
LEMMA InitTemp == Init => TempInv
<1> SUFFICES ASSUME Init PROVE TempInv
  OBVIOUS
<1>1. DOMAIN fs \subseteq Leftovers
  BY DEF Init
<1>2. Temps = {}
  BY <1>1, DriverConstants DEF Temps
<1>3. IsSeq(llist)
  BY DEF Init, IsSeq
<1>4. QED
  BY <1>2, <1>3 DEF Init, TempInv, Listed, Kept, Dry, Waits, Pasteable, Alive,
                    NoName

(* The actions of the driver keep the invariant of the temporary files.    *)
LEMMA MainTemp ==
  ASSUME StageInv, TempInv, Main
  PROVE  Listed' /\ Kept' /\ Dry' /\ Waits' /\ Pasteable'
<1>0. /\ FlagType /\ ChildType /\ errcnt \in Nat
      /\ Listed /\ Kept /\ Dry /\ Waits /\ Pasteable /\ IsSeq(llist)
  BY DEF StageInv, Typed, TempInv
<1>1. llist # <<>> /\ at # "options" => llist' # <<>>
  BY <1>0, ListGrows DEF Next
<1>2. fs' = fs => Temps' = Temps
  BY DEF Temps
<1>3. child' = child => (Alive' <=> Alive)
  BY DEF Alive
<1>4. CASE Options
  <2>1. /\ at = "options" /\ at' \in {"file", "exit"}
        /\ UNCHANGED <<itemp, cur, rmlist, spfile, child, fs>>
    BY <1>4 DEF Options
  <2>2. Temps' = {} /\ ~Alive' /\ rmlist' = {}
    BY <1>0, <1>2, <1>3, <2>1 DEF Dry, Waits, Between, Pasteable
  <2>3. QED
    BY <1>0, <2>1, <2>2 DEF Listed, Kept, Dry, Waits, Pasteable
<1>5. CASE \/ LibraryArg \/ MissingArg \/ ObjectArg
           \/ OtherArg /\ ~(flag.E > 0)
           \/ PreprocessedArg
  <2>1. /\ at = "file" /\ at' \in {"file", "compile"}
        /\ UNCHANGED <<itemp, flag, rmlist, spfile, child, fs>>
        /\ errcnt' \in {errcnt, errcnt + 1}
    BY <1>5 DEF LibraryArg, MissingArg, ObjectArg, OtherArg, PreprocessedArg,
                SkipArg
  <2>2. ~Alive'
    BY <1>0, <1>3, <2>1 DEF Waits, Between
  <2>3. Listed' /\ Dry' /\ Waits'
    BY <1>2, <2>1, <2>2, IdleTemp
  <2>4. Kept'
    BY <1>0, <2>1 DEF Kept
  <2>5. Pasteable'
    BY <1>0, <1>1, <2>1 DEF Pasteable
  <2>6. QED
    BY <2>3, <2>4, <2>5
<1>6. CASE flag.E > 0 /\ (OtherArg \/ SourceArg)
  <2>1. /\ Spawn("cpp", NoName, <<>>) /\ at' = "stdout"
        /\ UNCHANGED <<itemp, flag, rmlist, spfile, fs>>
    BY <1>6 DEF OtherArg, SourceArg
  <2>2. Listed' /\ Dry' /\ Waits'
    BY <1>0, <2>1, SpawnTemp DEF Between, Listed
  <2>3. Kept' /\ Pasteable'
    BY <1>0, <1>6, <2>1 DEF Kept, Pasteable, FlagType
  <2>4. QED
    BY <2>2, <2>3
<1>7. CASE ~(flag.E > 0) /\ SourceArg
  <2> DEFINE t == IF itemp = NoName THEN FreshTemp ELSE itemp
  <2>1. /\ Spawn("cpp", t, <<Head(args)>>) /\ at' = "cpp"
        /\ rmlist' = rmlist \cup {t}
        /\ itemp' = t /\ UNCHANGED <<flag, spfile, fs>>
    BY <1>7 DEF SourceArg
  <2>2. Head(t) = "temp"
    BY <1>0, NameKinds DEF Kept
  <2> HIDE DEF t
  <2>3. Listed' /\ Dry' /\ Waits'
    BY <1>0, <2>1, <2>2, SpawnTemp DEF Between, Listed
  <2>4. Kept' /\ Pasteable'
    BY <1>0, <2>1, <2>2 DEF Kept, Pasteable
  <2>5. QED
    BY <2>3, <2>4
<1>8. CASE PreprocessDone
  <2>1. /\ at \in {"cpp", "stdout"} /\ at' \in {"compile", "file"}
        /\ at' = "file" => at = "stdout" \/ errcnt' = errcnt + 1
        /\ child' = [child EXCEPT !.state = "none"]
        /\ UNCHANGED <<itemp, flag, rmlist, spfile, fs>>
    BY <1>8 DEF PreprocessDone
  <2>2. ~Alive'
    BY <1>0, <2>1, StateEffect DEF Alive
  <2>3. Listed' /\ Dry' /\ Waits'
    BY <1>2, <2>1, <2>2, IdleTemp
  <2>4. Kept' /\ Pasteable'
    BY <1>0, <2>1 DEF Kept, Pasteable, FlagType
  <2>5. QED
    BY <2>3, <2>4
<1>9. CASE Compile
  <2> DEFINE t == IF flag.c = 0 THEN FreshTemp
                  ELSE IF flag.out THEN OutFile ELSE Object(Head(cur.src).name)
  <2>1. PICK from : Spawn("rcc", t, from)
    BY <1>9 DEF Compile
  <2>2. /\ rmlist' = (IF flag.c > 0 THEN rmlist ELSE rmlist \cup {t})
        /\ at' = "rcc" /\ cur' = [cur EXCEPT !.name = t]
        /\ UNCHANGED <<itemp, flag, spfile, fs>>
    BY <1>9 DEF Compile
  <2>3. /\ t # NoName /\ flag.c \in Nat
        /\ flag.c = 0 => Head(t) = "temp"
        /\ flag.c > 0 => Head(t) # "temp"
    BY <1>0, NameKinds DEF FlagType
  <2> HIDE DEF t
  <2>4. Listed' /\ Dry' /\ Waits'
    BY <1>0, <2>1, <2>2, <2>3, SpawnTemp DEF Between, Listed
  <2>5. cur'.name = t
    BY <2>2
  <2>6. Kept' /\ Pasteable'
    BY <1>0, <2>2, <2>3, <2>5 DEF Kept, Pasteable
  <2>7. QED
    BY <2>4, <2>6
<1>10. CASE CompileDone
  <2>1. /\ at = "rcc" /\ at' = "file"
        /\ child' = [child EXCEPT !.state = "none"]
        /\ UNCHANGED <<itemp, flag, rmlist, cur, fs>>
    BY <1>10 DEF CompileDone
  <2>2. ~Alive'
    BY <1>0, <2>1, StateEffect DEF Alive
  <2>3. Listed' /\ Dry' /\ Waits'
    BY <1>2, <2>1, <2>2, IdleTemp
  <2>4. \/ errcnt' = errcnt + 1 /\ spfile' = spfile
        \/ flag.c > 0 /\ spfile' = cur.name
        \/ ~(flag.c > 0) /\ spfile' = spfile /\ llist' # <<>>
    <3>1. CASE child.state = "failed"
      BY <1>10, <3>1 DEF CompileDone
    <3>2. CASE child.state = "ok" /\ flag.c > 0
      BY <1>10, <3>2 DEF CompileDone
    <3>3. CASE child.state = "ok" /\ ~(flag.c > 0)
      <4>1. flag.c = 0 /\ spfile' = spfile
        BY <1>0, <1>10, <3>3 DEF CompileDone, FlagType
      <4>2. CASE Contains(llist, cur.name)
        <5>1. llist # <<>>
          BY <4>2 DEF Contains
        <5>2. QED
          BY <1>1, <2>1, <3>3, <4>1, <5>1
      <4>3. CASE ~Contains(llist, cur.name)
        BY <1>0, <1>10, <3>3, <4>1, <4>3, AppendSeq DEF CompileDone
      <4>4. QED
        BY <4>2, <4>3
    <3>4. QED
      BY <1>10, <3>1, <3>2, <3>3 DEF CompileDone
  <2>5. Kept' /\ Pasteable'
    BY <1>0, <2>1, <2>4 DEF Kept, Pasteable, FlagType
  <2>6. QED
    BY <2>3, <2>5
<1>11. CASE Link
  <2>1. /\ at = "file" /\ UNCHANGED <<itemp, flag, rmlist, llist, errcnt, cur, fs>>
        /\ \/ /\ Spawn("lc3pp", LdOut, SourcesLinked(llist))
              /\ at' = "link" /\ spfile' = LdOut
           \/ /\ at' = "linked" /\ UNCHANGED <<child, spfile>>
              /\ ~(errcnt = 0 /\ flag.E = 0 /\ flag.c = 0 /\ llist # <<>>)
    BY <1>11 DEF Link
  <2>2. CASE at' = "link"
    <3>1. Listed' /\ Dry' /\ Waits'
      BY <1>0, <2>1, <2>2, NameKinds, SpawnTemp DEF Between, Listed
    <3>2. Kept' /\ Pasteable'
      BY <1>0, <2>1, <2>2, NameKinds DEF Kept, Pasteable
    <3>3. QED
      BY <3>1, <3>2
  <2>3. CASE at' = "linked"
    <3>1. ~Alive'
      BY <1>0, <1>3, <2>1, <2>3 DEF Waits, Between
    <3>2. Listed' /\ Dry' /\ Waits'
      BY <1>2, <2>1, <2>3, <3>1, IdleTemp
    <3>3. Kept' /\ Pasteable'
      BY <1>0, <2>1, <2>3 DEF Kept, Pasteable
    <3>4. QED
      BY <3>2, <3>3
  <2>4. QED
    BY <2>1, <2>2, <2>3
<1>12. CASE LinkDone \/ AssembleDone
  <2>1. /\ \/ at = "link" /\ at' = "linked"
           \/ at = "as" /\ at' = "rm"
        /\ child' = [child EXCEPT !.state = "none"]
        /\ errcnt' \in {errcnt, errcnt + 1}
        /\ UNCHANGED <<itemp, flag, rmlist, spfile, fs>>
    BY <1>12 DEF LinkDone, AssembleDone, StageDone
  <2>2. ~Alive'
    BY <1>0, <2>1, StateEffect DEF Alive
  <2>3. Listed' /\ Dry' /\ Waits'
    BY <1>2, <2>1, <2>2, IdleTemp
  <2>4. Kept' /\ Pasteable'
    BY <1>0, <2>1 DEF Kept, Pasteable
  <2>5. QED
    BY <2>3, <2>4
<1>13. CASE Paste
  <2>1. at = "linked" /\ UNCHANGED <<itemp, flag, llist, errcnt, spfile, fs>>
    BY <1>13 DEF Paste
  <2>2. ~Alive
    BY <1>0, <2>1 DEF Waits, Between
  <2>3. CASE at' = "exit"
    <3>1. /\ errcnt = 0 /\ flag.E = 0 /\ spfile = NoName
          /\ UNCHANGED <<child, rmlist, cur>>
      BY <1>13, <2>3 DEF Paste
    <3>2. rmlist = {}
      BY <1>0, <2>1, <3>1 DEF Pasteable
    <3>3. Temps' = {}
      BY <1>0, <1>2, <2>1, <3>2 DEF Listed
    <3>4. ~Alive'
      BY <1>3, <2>2, <3>1
    <3>5. Listed' /\ Dry' /\ Waits'
      BY <1>0, <2>3, <3>1, <3>3, <3>4 DEF Listed, Dry, Waits, Between
    <3>6. Kept' /\ Pasteable'
      BY <1>0, <2>1, <2>3 DEF Kept, Pasteable
    <3>7. QED
      BY <3>5, <3>6
  <2>4. CASE at' = "paste"
    <3>1. /\ Spawn("SourcePaste", FreshTemp, SourcesOf(spfile))
          /\ rmlist' = rmlist \cup {FreshTemp} /\ spfile # NoName
      BY <1>13, <2>4 DEF Paste
    <3>2. Listed' /\ Dry' /\ Waits'
      BY <1>0, <2>1, <2>4, <3>1, NameKinds, SpawnTemp DEF Between, Listed
    <3>3. Kept' /\ Pasteable'
      BY <1>0, <2>1, <2>4, <3>1 DEF Kept, Pasteable
    <3>4. QED
      BY <3>2, <3>3
  <2>5. CASE at' = "pasted"
    <3>1. UNCHANGED <<child, rmlist, cur>>
      BY <1>13, <2>5 DEF Paste
    <3>2. Listed' /\ Dry' /\ Waits'
      BY <1>2, <1>3, <2>1, <2>2, <2>5, <3>1, IdleTemp
    <3>3. Kept' /\ Pasteable'
      BY <1>0, <2>1, <2>5 DEF Kept, Pasteable
    <3>4. QED
      BY <3>2, <3>3
  <2>6. QED
    BY <1>13, <2>3, <2>4, <2>5 DEF Paste
<1>14. CASE PasteDone
  <2>1. /\ at = "paste" /\ at' = "pasted"
        /\ child' = [child EXCEPT !.state = "none"]
        /\ UNCHANGED <<itemp, flag, rmlist, spfile, cur>>
    BY <1>14 DEF PasteDone
  <2>2. DOMAIN fs' \subseteq DOMAIN fs \cup {spfile}
    BY <1>14 DEF PasteDone
  <2>3. Head(spfile) # "temp"
    BY <1>0, <2>1 DEF Kept
  <2>4. Temps' \subseteq Temps
    BY <2>2, <2>3 DEF Temps
  <2>5. ~Alive'
    BY <1>0, <2>1, StateEffect DEF Alive
  <2>6. Listed' /\ Dry' /\ Waits'
    BY <2>1, <2>4, <2>5, IdleTemp
  <2>7. Kept' /\ Pasteable'
    BY <1>0, <2>1 DEF Kept, Pasteable
  <2>8. QED
    BY <2>6, <2>7
<1>15. CASE Assemble
  <2>1. /\ at = "pasted" /\ UNCHANGED <<itemp, flag, rmlist, spfile, fs>>
        /\ \/ Spawn("lc3as", Obj, SourcesOf(LdOut)) /\ at' = "as"
           \/ at' = "rm" /\ child' = child
    BY <1>15 DEF Assemble
  <2>2. ~Alive
    BY <1>0, <2>1 DEF Waits, Between
  <2>3. Listed' /\ Dry' /\ Waits'
    <3>1. CASE at' = "as"
      BY <1>0, <2>1, <3>1, NameKinds, SpawnTemp DEF Between, Listed
    <3>2. CASE at' = "rm"
      BY <1>2, <1>3, <2>1, <2>2, <3>2, IdleTemp
    <3>3. QED
      BY <2>1, <3>1, <3>2
  <2>4. Kept' /\ Pasteable'
    BY <1>0, <2>1 DEF Kept, Pasteable
  <2>5. QED
    BY <2>3, <2>4
<1>16. CASE Finish
  <2>1. /\ at = "rm" /\ at' = "exit" /\ rm
        /\ UNCHANGED <<itemp, flag, rmlist, spfile, child>>
    BY <1>16 DEF Finish
  <2>2. Temps' = {}
    BY <1>0, <2>1 DEF rm, Without, Temps, Listed, Dry, FlagType
  <2>3. ~Alive'
    BY <1>0, <1>3, <2>1 DEF Waits, Between
  <2>4. QED
    BY <1>0, <2>1, <2>2, <2>3 DEF Listed, Kept, Dry, Waits, Pasteable, Between
<1>17. QED
  BY <1>4, <1>5, <1>6, <1>7, <1>8, <1>9, <1>10, <1>11, <1>12, <1>13, <1>14,
     <1>15, <1>16 DEF Main

(* The invariant of the temporary files is inductive.                      *)
LEMMA NextTemp == StageInv /\ TempInv /\ [Next]_vars => TempInv'
<1> SUFFICES ASSUME StageInv, TempInv, [Next]_vars PROVE TempInv'
  OBVIOUS
<1>0. /\ FlagType /\ ChildType /\ (at = "exit" <=> code # 256) /\ Order
      /\ Listed /\ Kept /\ Dry /\ Waits /\ Pasteable /\ IsSeq(llist)
  BY DEF StageInv, Typed, TempInv
<1>1. IsSeq(llist')
  BY <1>0, ListGrows DEF vars
<1>2. CASE Main
  BY <1>1, <1>2, MainTemp DEF TempInv
<1>3. CASE interrupt
  <2>1. /\ at' = "exit" /\ at # "exit" /\ rm
        /\ UNCHANGED <<itemp, flag, rmlist, spfile>>
    BY <1>3 DEF interrupt
  <2>2. Temps' = {}
    BY <1>0, <2>1 DEF rm, Without, Temps, Listed, Dry, FlagType
  <2>3. child'.state = child.state /\ child'.out = child.out
    BY <1>0, <1>3 DEF interrupt, ChildType
  <2>4. Alive => child'.prog = "orphan"
    BY <1>0, <1>3 DEF interrupt, ChildType, Alive
  <2>5. Listed' /\ Dry' /\ Waits'
    BY <1>0, <2>1, <2>2, <2>3, <2>4 DEF Listed, Dry, Waits, Between, Alive
  <2>6. Kept' /\ Pasteable'
    BY <1>0, <2>1 DEF Kept, Pasteable
  <2>7. QED
    BY <1>1, <2>5, <2>6 DEF TempInv
<1>4. CASE ChildOpens \/ ChildEnds
  <2>1. /\ Alive
        /\ UNCHANGED <<at, flag, cur, llist, errcnt, rmlist, itemp, spfile>>
    BY <1>4 DEF ChildOpens, ChildEnds, Alive
  <2>2. child'.prog = child.prog /\ child'.out = child.out
    BY <1>0, <1>4, StateEffect DEF ChildOpens, ChildEnds
  <2>3. DOMAIN fs' \subseteq DOMAIN fs \cup ({child.out} \ {NoName})
    BY <1>4 DEF ChildOpens, ChildEnds
  <2>4. Temps' \subseteq rmlist
    BY <1>0, <2>1, <2>3 DEF Temps, Listed
  <2>5. at \notin Between /\ ~(flag.v >= 2) /\ (at = "exit" => child.prog = "orphan")
    BY <1>0, <2>1 DEF Waits, Dry
  <2>6. Listed'
    BY <1>0, <2>1, <2>2, <2>4 DEF Listed
  <2>7. Dry' /\ Waits'
    BY <2>1, <2>2, <2>5 DEF Dry, Waits, Between
  <2>8. Kept' /\ Pasteable'
    BY <1>0, <2>1 DEF Kept, Pasteable
  <2>9. QED
    BY <1>1, <2>6, <2>7, <2>8 DEF TempInv
<1>5. CASE UNCHANGED vars
  BY <1>5 DEF vars, TempInv, Listed, Kept, Dry, Waits, Pasteable, Alive, Temps
<1>6. QED
  BY <1>2, <1>3, <1>4, <1>5 DEF Next

(* However lcc ends, no temporary file outlives it, unless the signal came *)
(* while a child ran (rm, interrupt, tempname of lcc.c).                   *)
THEOREM TempsRemoved == Spec => []NoTempLeft
<1>1. TempInv => NoTempLeft
  BY DEF TempInv, Waits, NoTempLeft
<1>2. QED
  BY <1>1, InitTemp, NextTemp, StagesInOrder, PTL DEF Spec

(* The driver's variables keep their types, and only temporary files are   *)
(* ever on rmlist.                                                         *)
THEOREM DriverTypeCorrect == Spec => []TypeOK
<1>1. StageInv /\ TempInv => TypeOK
  BY DEF StageInv, Typed, ChildType, TempInv, Listed, TypeOK
<1>2. QED
  BY <1>1, InitTemp, NextTemp, StagesInOrder, PTL DEF Spec

----------------------------------------------------------------------------
(***************************************************************************)
(* The product.  While no error is counted and files are to be linked, the *)
(* sources of what is on the linker's list, of the file being compiled and *)
(* of the arguments still to come are together those wanted.               *)
(***************************************************************************)
Args == {line[i] : i \in DOMAIN line}

\* The arguments the second loop sees, and those to be linked.
Seen  == Positions(FileKinds \cup {"-l", "-lib"})
Wants == {i \in Positions({"c", "i", "other", "lcc"}) :
            line[i].kind = "lcc" => \A j \in 1 .. i - 1 : line[j] # line[i]}

(* A temporary name is used once: a new one is on no list.                 *)
Numbered ==
  /\ IsFiniteSet(rmlist)
  /\ \A t \in rmlist : \E i \in 0 .. Cardinality(rmlist) - 1 : t = Temp(i)

Absent(n) == \A i \in DOMAIN llist : llist[i] # n

Fresh ==
  /\ \A i \in DOMAIN llist : Head(llist[i]) = "temp" => llist[i] \in rmlist
  /\ itemp # NoName => itemp \in rmlist /\ Absent(itemp)
  /\ at = "rcc" /\ flag.c = 0 =>
       cur.name \in rmlist /\ cur.name # itemp /\ Absent(cur.name)

(* No file of the command line is written, and the child's output is there *)
(* while it writes.                                                        *)
Written ==
  /\ \A n \in DOMAIN fs : Head(n) # "arg"
  /\ spfile # NoName => Head(spfile) # "arg"
  /\ at = "rcc" => Head(cur.name) # "arg"
  /\ child.out # NoName =>
       /\ Alive => Head(child.out) # "arg"
       /\ child.state = "open" /\ at # "exit" => child.out \in DOMAIN fs

NamesInv == Numbered /\ Fresh /\ Written

Holds(n, src) == n \in DOMAIN fs /\ fs[n].src = src
Whole(n)      == Holds(n, Wanted) /\ fs[n].whole

Steady == errcnt = 0 /\ flag.c = 0 /\ flag.E = 0 /\ flag.v < 2

Underway == IF at = "file" THEN <<>> ELSE cur.src

(* The arguments up to p have been taken off the line.                     *)
Taken(p) ==
  /\ args = Only(Seen \ (1 .. p))
  /\ SourcesLinked(llist) \in Seq(Args)
  /\ SourcesLinked(llist) \o (Underway \o Only(Wants \ (1 .. p))) = Wanted
  /\ \A a \in Args : a.kind = "lcc" =>
       ((\E i \in DOMAIN llist : llist[i] = Input(a)) <=> \E j \in 1 .. p : line[j] = a)

Compiling ==
  /\ at \in {"file", "cpp", "compile", "rcc"} => \E p \in 0 .. Len(line) : Taken(p)
  /\ at \in {"cpp", "compile", "rcc"} => cur.src \in {<<a>> : a \in Args}
  /\ at = "cpp" =>
       /\ child.prog = "cpp" /\ child.out = cur.name /\ child.what = cur.src
       /\ cur.name = itemp /\ itemp # NoName
       /\ child.state = "ok" => Holds(cur.name, cur.src)
  /\ at = "compile" /\ cur.name \in DOMAIN fs => Holds(cur.name, cur.src)
  /\ at = "rcc" =>
       /\ child.prog = "rcc" /\ child.out = cur.name /\ child.what = cur.src
       /\ child.state = "ok" => Holds(cur.name, cur.src)

(* From the linker on, its output is made from what is wanted.             *)
Linking ==
  llist # <<>> =>
    /\ at = "link" =>
         /\ child.prog = "lc3pp" /\ child.out = LdOut /\ child.what = Wanted
         /\ child.state = "ok" => Whole(LdOut)
    /\ at \in {"link", "linked", "paste"} => spfile = LdOut
    /\ at \in {"linked", "paste", "pasted", "as", "rm"} => Whole(LdOut)
    /\ at = "paste" =>
         /\ child.prog = "SourcePaste" /\ child.out = cur.name /\ child.what = Wanted
         /\ Head(cur.name) = "temp" /\ cur.name # NoName
         /\ child.state = "ok" => Whole(cur.name) /\ fs[cur.name].pasted
    /\ at \in {"pasted", "as", "rm"} => (flag.g > 0 => fs[LdOut].pasted)
    /\ at = "as" =>
         /\ child.prog = "lc3as" /\ child.out = Obj /\ child.what = Wanted
         /\ child.state = "ok" => Whole(Obj)
    /\ at \in {"as", "rm"} => flag.L \in Nat
    /\ at = "rm" /\ flag.L = 0 => Whole(Obj)

(* Once lcc has ended with success, nothing is left that could change it.  *)
Ended ==
  /\ at = "options" => llist = <<>>
  /\ code = 0 => Built /\ ~Alive /\ at = "exit"

BuiltInv == NamesInv /\ (Steady => Compiling /\ Linking) /\ Ended

(* Induction.  The library's theorems of induction take an operator; this  *)
(* follows from what it says of well-founded relations on sets.            *)
LEMMA Least1 ==
  ASSUME NEW T \in SUBSET Nat, T # {}
  PROVE  \E n \in T : \A m \in T : n <= m
<1>1. PICK R : R = OpToRel(<, Nat) /\ IsWellFoundedOn(R, Nat)
  BY NatLessThanWellFounded
<1>2. \A m, n \in Nat : m < n => <<m, n>> \in R
  BY <1>1 DEF OpToRel
<1>3. PICK n \in T : \A m \in T : ~ (<<m, n>> \in R)
  BY <1>1, WFMin
<1>4. ASSUME NEW m \in T PROVE n <= m
  <2>1. m \in Nat /\ n \in Nat
    OBVIOUS
  <2>2. ~ (m < n)
    BY <1>2, <1>3, <2>1
  <2> QED
    BY <2>1, <2>2
<1> QED
  BY <1>4

(* What holds of 0 and of n + 1 with n holds of all numbers.               *)
LEMMA Induction ==
  ASSUME NEW S, 0 \in S, \A n \in Nat : n \in S => n + 1 \in S
  PROVE  \A n \in Nat : n \in S
<1> SUFFICES ASSUME Nat \ S # {} PROVE FALSE
  OBVIOUS
<1>1. PICK n \in Nat \ S : \A m \in Nat \ S : n <= m
  BY Least1
<1>2. n # 0 /\ n - 1 \in Nat /\ n - 1 \notin Nat \ S
  BY <1>1
<1> QED
  BY <1>2

(***************************************************************************)
(* Sequences and the arguments of the line.                                *)
(***************************************************************************)
(* The parts of a concatenation: what it is up to each place.              *)
Parts(s, c) ==
  /\ DOMAIN c = 0 .. Len(s) /\ c[0] = <<>>
  /\ \A i \in 1 .. Len(s) : c[i] = c[i - 1] \o s[i]

(* What the recursive definition of Concat says.                           *)
LEMMA ConcatParts ==
  ASSUME NEW s, Len(s) \in Nat
  PROVE  \E c : Parts(s, c) /\ Concat(s) = c[Len(s)]
<1> DEFINE n == Len(s)
           Q(f) == f = [i \in 0 .. Len(s) |-> IF i = 0 THEN <<>> ELSE f[i - 1] \o s[i]]
           Upto(m, f) == /\ DOMAIN f = 0 .. m /\ f[0] = <<>>
                         /\ \A i \in 1 .. m : f[i] = f[i - 1] \o s[i]
           S == {m \in Nat : \E f : Upto(m, f)}
<1> HIDE DEF Upto
<1>1. 0 \in S
  <2>1. PICK h : h = [i \in 0 .. 0 |-> <<>>]
    OBVIOUS
  <2>2. DOMAIN h = 0 .. 0 /\ h[0] = <<>> /\ 1 .. 0 = {}
    BY <2>1
  <2>3. \E f : Upto(0, f)
    BY <2>2 DEF Upto
  <2> QED
    BY <2>3
<1>2. ASSUME NEW m \in Nat, m \in S PROVE m + 1 \in S
  <2>1. PICK f : Upto(m, f)
    BY <1>2
  <2> DEFINE v == f[m] \o s[m + 1]
             g == [i \in 0 .. m + 1 |-> IF i = m + 1 THEN v ELSE f[i]]
  <2>2. DOMAIN g = 0 .. m + 1 /\ g[0] = <<>> /\ g[m + 1] = v
    BY <2>1 DEF Upto
  <2>3. \A i \in 0 .. m : g[i] = f[i]
    OBVIOUS
  <2>4. ASSUME NEW i \in 1 .. m + 1 PROVE g[i] = g[i - 1] \o s[i]
    <3>1. CASE i = m + 1
      <4>1. i - 1 = m /\ m \in 0 .. m
        BY <3>1
      <4>2. g[i - 1] = f[m] /\ g[i] = v
        BY <2>2, <2>3, <3>1, <4>1, Zenon
      <4> QED
        BY <3>1, <4>2, Zenon
    <3>2. CASE i \in 1 .. m
      <4>1. i \in 0 .. m /\ i - 1 \in 0 .. m
        BY <3>2
      <4>2. f[i] = f[i - 1] \o s[i]
        BY <2>1, <3>2 DEF Upto
      <4> QED
        BY <2>3, <4>1, <4>2
    <3> QED
      BY <3>1, <3>2
  <2> HIDE DEF g
  <2>5. \E h : Upto(m + 1, h)
    BY <2>2, <2>4 DEF Upto
  <2> QED
    BY <2>5
<1>3. n \in S
  <2> HIDE DEF S
  <2> QED
    BY <1>1, <1>2, Induction
<1>4. PICK f : Upto(n, f)
  BY <1>3
<1>5. PICK g : g = [i \in 0 .. n |-> f[i]]
  OBVIOUS
<1>6. /\ DOMAIN g = 0 .. n /\ g[0] = <<>>
      /\ \A i \in 1 .. n : g[i] = g[i - 1] \o s[i]
  <2>1. \A i \in 1 .. n : i \in 0 .. n /\ i - 1 \in 0 .. n
    OBVIOUS
  <2>2. /\ DOMAIN f = 0 .. n /\ f[0] = <<>>
        /\ \A i \in 1 .. n : f[i] = f[i - 1] \o s[i]
    BY <1>4, Zenon DEF Upto
  <2>3. DOMAIN g = 0 .. n /\ \A i \in 0 .. n : g[i] = f[i]
    BY <1>5, Zenon
  <2>4. 0 \in 0 .. n
    OBVIOUS
  <2> QED
    BY <2>1, <2>2, <2>3, <2>4, Zenon
<1>7. Q(g)
  <2>1. \A i \in 0 .. n : g[i] = IF i = 0 THEN <<>> ELSE g[i - 1] \o s[i]
    BY <1>6
  <2>2. g = [i \in 0 .. n |-> g[i]]
    BY <1>5, <1>6
  <2> QED
    BY <2>1, <2>2
<1>8. Concat(s) = (CHOOSE h : Q(h))[n]
  BY DEF Concat
<1> HIDE DEF Q
<1>9. PICK c : c = CHOOSE h : Q(h)
  OBVIOUS
<1>10. Q(c) /\ Concat(s) = c[n]
  BY <1>7, <1>8, <1>9
<1>11. Parts(s, c)
  <2>1. 0 \in 0 .. n /\ \A i \in 1 .. n : i \in 0 .. n /\ i # 0
    OBVIOUS
  <2>2. DOMAIN c = 0 .. n /\ \A i \in 0 .. n : c[i] = IF i = 0 THEN <<>> ELSE c[i - 1] \o s[i]
    BY <1>10, Zenon DEF Q
  <2>3. c[0] = <<>> /\ \A i \in 1 .. n : c[i] = c[i - 1] \o s[i]
    BY <2>1, <2>2, Zenon
  <2> QED
    BY <2>2, <2>3, Zenon DEF Parts
<1> QED
  BY <1>10, <1>11

(* Two sequences that agree have concatenations that agree.                *)
LEMMA PartsAgree ==
  ASSUME NEW s, NEW t, NEW c, NEW d, Parts(s, c), Parts(t, d),
         NEW n \in Nat, Len(s) \in Nat, Len(t) \in Nat, n <= Len(s), n <= Len(t),
         \A i \in 1 .. n : s[i] = t[i]
  PROVE  c[n] = d[n]
<1> DEFINE S == {m \in Nat : m <= n => c[m] = d[m]}
<1>1. 0 \in S
  BY DEF Parts
<1>2. ASSUME NEW m \in Nat, m \in S PROVE m + 1 \in S
  <2> SUFFICES ASSUME m + 1 <= n PROVE c[m + 1] = d[m + 1]
    OBVIOUS
  <2>1. /\ c[m] = d[m] /\ (m + 1) - 1 = m /\ m + 1 \in 1 .. n
        /\ m + 1 \in 1 .. Len(s) /\ m + 1 \in 1 .. Len(t)
    BY <1>2
  <2>2. c[m + 1] = c[m] \o s[m + 1] /\ d[m + 1] = d[m] \o t[m + 1]
    BY <2>1 DEF Parts
  <2> QED
    BY <2>1, <2>2
<1>3. n \in S
  <2> HIDE DEF S
  <2> QED
    BY <1>1, <1>2, Induction
<1> QED
  BY <1>3

(* The concatenation of no sequences, and of one more.                     *)
LEMMA ConcatEmpty == ASSUME NEW s, Len(s) = 0 PROVE Concat(s) = <<>>
<1>1. PICK c : Parts(s, c) /\ Concat(s) = c[Len(s)]
  BY ConcatParts
<1> QED
  BY <1>1, Zenon DEF Parts

(* One part more at the end.                                               *)
LEMMA ConcatAppend ==
  ASSUME NEW s, NEW t, Len(s) \in Nat, Len(t) = Len(s) + 1,
         \A i \in 1 .. Len(s) : t[i] = s[i]
  PROVE  Concat(t) = Concat(s) \o t[Len(t)]
<1>1. PICK c : Parts(s, c) /\ Concat(s) = c[Len(s)]
  BY ConcatParts
<1>2. PICK d : Parts(t, d) /\ Concat(t) = d[Len(t)]
  BY ConcatParts
<1>3. c[Len(s)] = d[Len(s)]
  BY <1>1, <1>2, PartsAgree
<1>4. d[Len(t)] = d[Len(s)] \o t[Len(t)]
  <2>1. Len(t) \in 1 .. Len(t) /\ Len(t) - 1 = Len(s)
    OBVIOUS
  <2>2. \A i \in 1 .. Len(t) : d[i] = d[i - 1] \o t[i]
    BY <1>2, Zenon DEF Parts
  <2>3. d[Len(t)] = d[Len(t) - 1] \o t[Len(t)]
    BY <2>1, <2>2, Zenon
  <2> QED
    BY <2>1, <2>3, Zenon
<1> QED
  BY <1>1, <1>2, <1>3, <1>4

(* Concatenation is associative, and has a unit.                           *)
LEMMA Associative ==
  ASSUME NEW R, NEW p \in Seq(R), NEW q \in Seq(R), NEW r \in Seq(R)
  PROVE  (p \o q) \o r = p \o (q \o r)
  OBVIOUS

(* The empty sequence changes nothing.                                     *)
LEMMA Unit ==
  ASSUME NEW R, NEW p \in Seq(R)
  PROVE  p \o <<>> = p /\ <<>> \o p = p /\ <<>> \in Seq(R)
  OBVIOUS

(* The line is a sequence of its arguments.                                *)
LEMMA LineType ==
  ASSUME Typed
  PROVE  Len(line) \in Nat /\ DOMAIN line = 1 .. Len(line) /\ line \in Seq(Args)
<1>1. line \in Seq([kind : FileKinds \cup OptKinds, name : STRING])
  BY DriverConstants DEF Typed
<1>2. /\ Len(line) \in Nat /\ DOMAIN line = 1 .. Len(line)
      /\ line = [i \in 1 .. Len(line) |-> line[i]]
  BY <1>1
<1>3. line \in [1 .. Len(line) -> Args]
  BY <1>2 DEF Args
<1> QED
  BY <1>2, <1>3

One(S) == [i \in DOMAIN line |-> IF i \in S THEN <<line[i]>> ELSE <<>>]

(* What Only concatenates.                                                 *)
LEMMA OneParts ==
  ASSUME Typed, NEW S
  PROVE  /\ Only(S) = Concat(One(S)) /\ Len(One(S)) = Len(line)
         /\ \A i \in 1 .. Len(line) :
              /\ i \in S => One(S)[i] = <<line[i]>>
              /\ i \notin S => One(S)[i] = <<>>
              /\ One(S)[i] \in Seq(Args)
<1>1. Len(line) \in Nat /\ DOMAIN line = 1 .. Len(line)
  BY LineType
<1>2. Len(One(S)) = Len(line)
  BY <1>1 DEF One
<1>3. \A i \in 1 .. Len(line) : line[i] \in Args
  BY <1>1 DEF Args
<1>4. \A i \in 1 .. Len(line) : <<line[i]>> \in Seq(Args)
  BY <1>3
<1>5. <<>> \in Seq(Args)
  OBVIOUS
<1> QED
  BY <1>1, <1>2, <1>4, <1>5 DEF One, Only

(* The arguments at some positions, the first apart.                       *)
LEMMA OnlyFirst ==
  ASSUME Typed, NEW S, NEW k \in S, k \in DOMAIN line, \A j \in S : k <= j
  PROVE  /\ Only(S \ {k}) \in Seq(Args)
         /\ Only(S) = <<line[k]>> \o Only(S \ {k})
<1> DEFINE n == Len(line)
           v == One(S)
           w == One(S \ {k})
<1>1. n \in Nat /\ DOMAIN line = 1 .. n /\ k \in 1 .. n
  BY LineType
<1>2. /\ Only(S) = Concat(v) /\ Len(v) = n
      /\ Only(S \ {k}) = Concat(w) /\ Len(w) = n
  BY OneParts
<1>3. /\ v[k] = <<line[k]>> /\ w[k] = <<>> /\ <<line[k]>> \in Seq(Args)
      /\ \A i \in 1 .. n : w[i] \in Seq(Args)
      /\ \A i \in 1 .. n : i # k => v[i] = w[i]
      /\ \A i \in 1 .. n : i < k => w[i] = <<>>
  <2>1. /\ \A i \in 1 .. n : /\ i \in S => v[i] = <<line[i]>>
                             /\ i \notin S => v[i] = <<>>
                             /\ v[i] \in Seq(Args)
        /\ \A i \in 1 .. n : /\ i \in S \ {k} => w[i] = <<line[i]>>
                             /\ i \notin S \ {k} => w[i] = <<>>
                             /\ w[i] \in Seq(Args)
    BY OneParts
  <2>2. \A i \in 1 .. n : i < k => i \notin S \ {k}
    BY <1>1
  <2> HIDE DEF n, v, w
  <2> QED
    BY <1>1, <2>1, <2>2
<1>4. PICK c : Parts(v, c) /\ Concat(v) = c[n]
  BY <1>1, <1>2, ConcatParts
<1>5. PICK d : Parts(w, d) /\ Concat(w) = d[n]
  BY <1>1, <1>2, ConcatParts
<1> HIDE DEF n, v, w
<1>6. /\ c[0] = <<>> /\ d[0] = <<>>
      /\ \A i \in 1 .. n : c[i] = c[i - 1] \o v[i] /\ d[i] = d[i - 1] \o w[i]
  BY <1>2, <1>4, <1>5, Zenon DEF Parts
<1> DEFINE G(m) == /\ d[m] \in Seq(Args)
                   /\ m < k => c[m] = <<>> /\ d[m] = <<>>
                   /\ m >= k => c[m] = <<line[k]>> \o d[m]
           T == {m \in Nat : m <= n => G(m)}
<1>7. 0 \in T
  <2>1. 0 < k /\ <<>> \in Seq(Args)
    BY <1>1
  <2>2. G(0)
    BY <1>1, <1>6, <2>1
  <2> HIDE DEF G
  <2> QED
    BY <2>2
<1>8. ASSUME NEW m \in Nat, m \in T PROVE m + 1 \in T
  <2> SUFFICES ASSUME m + 1 <= n PROVE G(m + 1)
    OBVIOUS
  <2>1. m <= n /\ m + 1 \in 1 .. n /\ (m + 1) - 1 = m
    BY <1>1
  <2>2. G(m)
    BY <1>8, <2>1
  <2>3. c[m + 1] = c[m] \o v[m + 1] /\ d[m + 1] = d[m] \o w[m + 1]
    BY <1>6, <2>1
  <2>4. d[m] \in Seq(Args) /\ w[m + 1] \in Seq(Args)
    BY <1>3, <2>1, <2>2
  <2>5. d[m + 1] \in Seq(Args)
    BY <2>3, <2>4
  <2>6. <<>> \o <<>> = <<>> /\ <<>> \o <<line[k]>> = <<line[k]>>
        /\ <<line[k]>> \o <<>> = <<line[k]>>
    BY <1>3, Unit
  <2>7. CASE m + 1 < k
    <3>1. c[m] = <<>> /\ d[m] = <<>> /\ w[m + 1] = <<>> /\ v[m + 1] = <<>>
      BY <1>1, <1>3, <2>1, <2>2, <2>7
    <3>2. c[m + 1] = <<>> /\ d[m + 1] = <<>>
      BY <2>3, <2>6, <3>1, Zenon
    <3> QED
      BY <1>1, <2>5, <2>7, <3>2
  <2>8. CASE m + 1 = k
    <3>1. c[m] = <<>> /\ d[m] = <<>> /\ w[m + 1] = <<>> /\ v[m + 1] = <<line[k]>>
      BY <1>1, <1>3, <2>2, <2>8
    <3>2. c[m + 1] = <<line[k]>> /\ d[m + 1] = <<>>
      BY <2>3, <2>6, <3>1, Zenon
    <3>3. c[m + 1] = <<line[k]>> \o d[m + 1]
      BY <2>6, <3>2, Zenon
    <3> QED
      BY <1>1, <2>5, <2>8, <3>3
  <2>9. CASE m + 1 > k
    <3>1. c[m] = <<line[k]>> \o d[m] /\ v[m + 1] = w[m + 1]
      BY <1>1, <1>3, <2>1, <2>2, <2>9
    <3>2. (<<line[k]>> \o d[m]) \o w[m + 1] = <<line[k]>> \o (d[m] \o w[m + 1])
      <4>1. PICK e \in Seq(Args) : e = <<line[k]>>
        BY <1>3
      <4>2. PICK q \in Seq(Args) : q = d[m]
        BY <2>4
      <4>3. PICK r \in Seq(Args) : r = w[m + 1]
        BY <2>4
      <4>4. (e \o q) \o r = e \o (q \o r)
        BY Associative
      <4> QED
        BY <4>1, <4>2, <4>3, <4>4
    <3>3. c[m + 1] = <<line[k]>> \o d[m + 1]
      BY <2>3, <3>1, <3>2, Zenon
    <3> QED
      BY <1>1, <2>5, <2>9, <3>3
  <2> HIDE DEF G
  <2> QED
    BY <1>1, <2>7, <2>8, <2>9
<1> HIDE DEF T
<1>9. n \in T
  BY <1>1, <1>7, <1>8, Induction
<1>10. G(n)
  BY <1>1, <1>9 DEF T
<1>11. n >= k
  BY <1>1
<1>12. d[n] \in Seq(Args) /\ c[n] = <<line[k]>> \o d[n]
  BY <1>10, <1>11, Zenon
<1>13. Only(S) = c[n] /\ Only(S \ {k}) = d[n]
  BY <1>2, <1>4, <1>5, Zenon
<1> QED
  BY <1>12, <1>13, Zenon

(* No positions, no arguments; and always a sequence of arguments.         *)
LEMMA OnlyNone ==
  ASSUME Typed, NEW S, S \cap DOMAIN line = {}
  PROVE  Only(S) = <<>>
<1> DEFINE n == Len(line)
           v == One(S)
<1>1. n \in Nat /\ DOMAIN line = 1 .. n
  BY LineType
<1>2. Only(S) = Concat(v) /\ Len(v) = n
  BY OneParts
<1>3. \A i \in 1 .. n : v[i] = <<>>
  BY <1>1, OneParts
<1>4. PICK c : Parts(v, c) /\ Concat(v) = c[n]
  BY <1>1, <1>2, ConcatParts
<1> HIDE DEF n, v
<1>5. c[0] = <<>> /\ \A i \in 1 .. n : c[i] = c[i - 1] \o v[i]
  BY <1>2, <1>4, Zenon DEF Parts
<1> DEFINE T == {m \in Nat : m <= n => c[m] = <<>>}
<1>6. 0 \in T
  BY <1>5
<1>7. ASSUME NEW m \in Nat, m \in T PROVE m + 1 \in T
  <2> SUFFICES ASSUME m + 1 <= n PROVE c[m + 1] = <<>>
    OBVIOUS
  <2>1. m + 1 \in 1 .. n /\ (m + 1) - 1 = m /\ c[m] = <<>>
    BY <1>1, <1>7
  <2>2. c[m + 1] = <<>> \o <<>>
    BY <1>3, <1>5, <2>1
  <2>3. <<>> \o <<>> = <<>>
    BY Unit
  <2> QED
    BY <2>2, <2>3, Zenon
<1> HIDE DEF T
<1>8. n \in T
  BY <1>1, <1>6, <1>7, Induction
<1> QED
  BY <1>1, <1>2, <1>4, <1>8 DEF T

(* The arguments at any positions are a sequence of arguments.             *)
LEMMA OnlySeq ==
  ASSUME Typed, NEW S
  PROVE  Only(S) \in Seq(Args)
<1> DEFINE T == S \cap DOMAIN line
<1>1. DOMAIN line \subseteq Nat
  BY LineType
<1>2. Only(S) = Only(T)
  <2>1. One(S) = One(T)
    BY DEF One
  <2> QED
    BY <2>1, OneParts
<1>3. CASE T = {}
  <2>1. T \cap DOMAIN line = {}
    BY <1>3
  <2>2. Only(T) = <<>> /\ <<>> \in Seq(Args)
    BY <2>1, OnlyNone
  <2> QED
    BY <1>2, <2>2, Zenon
<1>4. CASE T # {}
  <2>1. PICK k \in T : \A j \in T : k <= j
    BY <1>1, <1>4, Least1
  <2>2. Only(T \ {k}) \in Seq(Args) /\ Only(T) = <<line[k]>> \o Only(T \ {k})
    BY <2>1, OnlyFirst
  <2>3. line[k] \in Args
    BY <2>1 DEF Args
  <2> QED
    <3>1. <<line[k]>> \in Seq(Args)
      BY <2>3
    <3> HIDE DEF T
    <3>2. <<line[k]>> \o Only(T \ {k}) \in Seq(Args)
      BY <2>2, <3>1
    <3> QED
      BY <1>2, <2>2, <3>2, Zenon
<1> QED
  BY <1>3, <1>4

----------------------------------------------------------------------------
(* A temporary name is new.                                                *)
LEMMA NewName ==
  ASSUME Numbered, rmlist' = rmlist \cup {FreshTemp}
  PROVE  FreshTemp \notin rmlist /\ Numbered'
<1> DEFINE n == Cardinality(rmlist)
<1>1. n \in Nat
  BY FS_CardinalityType DEF Numbered
<1>2. FreshTemp = Temp(n)
  BY DEF FreshTemp
<1>3. \A i \in 0 .. n - 1 : Temp(n) # Temp(i)
  <2> HIDE DEF n
  <2> QED
    BY <1>1 DEF Temp
<1>4. FreshTemp \notin rmlist
  BY <1>2, <1>3 DEF Numbered
<1>5. IsFiniteSet(rmlist') /\ Cardinality(rmlist') = n + 1
  BY <1>4, FS_AddElement DEF Numbered
<1>6. ASSUME NEW t \in rmlist'
      PROVE  \E i \in 0 .. n : t = Temp(i)
  <2> HIDE DEF n
  <2>1. \A i \in 0 .. n - 1 : i \in 0 .. n
    BY <1>1
  <2>2. n \in 0 .. n
    BY <1>1
  <2> QED
    BY <1>2, <2>1, <2>2 DEF Numbered, n
<1> HIDE DEF n
<1>7. (n + 1) - 1 = n
  BY <1>1
<1> QED
  BY <1>4, <1>5, <1>6, <1>7 DEF Numbered

(* The names on the linker's list after one more.                          *)
LEMMA ListMembers ==
  ASSUME IsSeq(llist), NEW e, llist' = Append(llist, e)
  PROVE  /\ \A i \in DOMAIN llist' : llist'[i] = e \/ \E j \in DOMAIN llist : llist'[i] = llist[j]
         /\ \A j \in DOMAIN llist : \E i \in DOMAIN llist' : llist'[i] = llist[j]
         /\ \E i \in DOMAIN llist' : llist'[i] = e
<1> DEFINE S == {llist[i] : i \in DOMAIN llist} \cup {e}
<1>1. llist \in Seq({llist[i] : i \in DOMAIN llist})
  BY DEF IsSeq
<1>2. /\ Len(llist) \in Nat /\ DOMAIN llist = 1 .. Len(llist)
      /\ llist = [i \in 1 .. Len(llist) |-> llist[i]]
  BY <1>1
<1>3. llist \in [1 .. Len(llist) -> S]
  BY <1>2
<1>4. llist \in Seq(S) /\ e \in S
  BY <1>2, <1>3
<1> HIDE DEF S
<1>5. /\ DOMAIN llist' = 1 .. Len(llist) + 1
      /\ \A i \in 1 .. Len(llist) : llist'[i] = llist[i]
      /\ llist'[Len(llist) + 1] = e
  BY <1>2, <1>4
<1>6. \A i \in DOMAIN llist' : i \in DOMAIN llist \/ i = Len(llist) + 1
  BY <1>2, <1>5
<1>7. \A i \in DOMAIN llist : i \in DOMAIN llist'
  BY <1>2, <1>5
<1>8. Len(llist) + 1 \in DOMAIN llist'
  BY <1>2, <1>5
<1> QED
  BY <1>2, <1>5, <1>6, <1>7, <1>8

(* A list that gains a name other than a temporary one keeps the names.    *)
LEMMA ListKeepsNames ==
  ASSUME IsSeq(llist), Fresh, Numbered,
         \/ llist' = llist
         \/ \E e : llist' = Append(llist, e) /\ Head(e) # "temp" /\ e # NoName,
         UNCHANGED <<rmlist, itemp, flag>>, at' # "rcc"
  PROVE  Fresh'
<1>1. CASE llist' = llist
  BY <1>1 DEF Fresh, Absent
<1>2. CASE llist' # llist
  <2>1. PICK e : llist' = Append(llist, e) /\ Head(e) # "temp" /\ e # NoName
    BY <1>2
  <2>2. \A i \in DOMAIN llist' : llist'[i] = e \/ \E j \in DOMAIN llist : llist'[i] = llist[j]
    BY <2>1, ListMembers
  <2>3. itemp # NoName => Head(itemp) = "temp"
    BY DEF Fresh, Numbered, Temp
  <2> QED
    BY <2>1, <2>2, <2>3 DEF Fresh, Absent
<1> QED
  BY <1>1, <1>2

(* A child is started on an output that is no file of the command line.    *)
LEMMA SpawnWritten ==
  ASSUME Written, FlagType, NEW prog, NEW out, NEW what, Spawn(prog, out, what),
         fs' = fs, spfile' = spfile \/ spfile' = LdOut, Head(out) # "arg" \/ out = NoName,
         at' = "rcc" => Head(cur'.name) # "arg"
  PROVE  Written'
<1>1. child'.out = out /\ child'.state \in {"ok", "running"}
  BY SpawnEffect
<1> QED
  BY <1>1 DEF Written, LdOut

(* Steps that write nothing, and start no child.                           *)
LEMMA IdleWritten ==
  ASSUME Written, at' # "rcc", DOMAIN fs' \subseteq DOMAIN fs,
         spfile' = spfile \/ Head(spfile') # "arg",
         \/ child' = child /\ ~ Alive
         \/ child'.state = "none"
  PROVE  Written'
<1>1. ~ Alive' /\ child'.state # "open"
  BY DEF Alive
<1> QED
  BY <1>1 DEF Written

(* Steps that leave the linker's list and the temporary files alone.       *)
LEMMA SameNames ==
  ASSUME Fresh, Numbered, UNCHANGED <<llist, rmlist, itemp>>, at' # "rcc"
  PROVE  Fresh' /\ Numbered'
  BY DEF Fresh, Numbered, Absent

(* The driver's steps keep the invariant of the names.                     *)
LEMMA MainNames ==
  ASSUME StageInv, TempInv, NamesInv, Main
  PROVE  NamesInv'
<1>0. /\ FlagType /\ ChildType /\ IsSeq(llist) /\ Kept /\ Waits
      /\ Numbered /\ Fresh /\ Written
      /\ \A n \in rmlist : Head(n) = "temp"
  BY DEF StageInv, Typed, TempInv, NamesInv, Listed
<1>1. CASE Options
  <2>1. /\ at = "options" /\ at' \in {"file", "exit"}
        /\ UNCHANGED <<cur, rmlist, itemp, spfile, child, fs>>
    BY <1>1 DEF Options
  <2>2. ~ Alive
    BY <1>0, <2>1 DEF Waits, Between
  <2>3. Written'
    BY <1>0, <2>1, <2>2, IdleWritten
  <2>4. Numbered'
    BY <1>0, <2>1 DEF Numbered
  <2>5. rmlist = {}
    BY <2>1 DEF TempInv, Pasteable
  <2>6. itemp = NoName
    BY <1>0, <2>5 DEF Fresh
  <2>7. llist' = llist \/ llist' = <<>> \/ llist' = << <<"-x">> >>
    BY <1>1 DEF Options, LinkerOptions
  <2>8. \A i \in DOMAIN llist' : Head(llist'[i]) = "temp" => llist'[i] \in rmlist'
    <3>1. CASE llist' = llist
      BY <1>0, <2>1, <3>1 DEF Fresh
    <3>2. CASE llist' = <<>> \/ llist' = << <<"-x">> >>
      <4>1. \A i \in DOMAIN llist' : llist'[i] = <<"-x">>
        BY <3>2
      <4>2. Head(<<"-x">>) # "temp"
        OBVIOUS
      <4> QED
        BY <4>1, <4>2
    <3> QED
      BY <2>7, <3>1, <3>2
  <2> QED
    BY <2>1, <2>3, <2>4, <2>6, <2>8 DEF NamesInv, Fresh
<1>2. CASE LibraryArg \/ MissingArg \/ ObjectArg \/ (OtherArg /\ ~ (flag.E > 0))
  <2>1. /\ at = "file" /\ at' = "file"
        /\ UNCHANGED <<flag, rmlist, itemp, spfile, child, fs>>
    BY <1>2 DEF LibraryArg, MissingArg, ObjectArg, OtherArg, SkipArg
  <2>2. ~ Alive
    BY <1>0, <2>1 DEF Waits, Between
  <2>3. Written'
    BY <1>0, <2>1, <2>2, IdleWritten
  <2>4. /\ Head(<<"-l">>) # "temp" /\ <<"-l">> # NoName
        /\ \A a : Head(Input(a)) # "temp" /\ Input(a) # NoName
    BY DEF Input, NoName
  <2>5. \/ llist' = llist \/ llist' = Append(llist, <<"-l">>)
        \/ \E a : llist' = Append(llist, Input(a))
    BY <1>2 DEF LibraryArg, MissingArg, ObjectArg, OtherArg
  <2>6. \/ llist' = llist
        \/ \E e : llist' = Append(llist, e) /\ Head(e) # "temp" /\ e # NoName
    <3>1. CASE llist' = Append(llist, <<"-l">>)
      <4>1. PICK e : e = <<"-l">>
        OBVIOUS
      <4> QED
        BY <2>4, <3>1, <4>1
    <3>2. CASE \E a : llist' = Append(llist, Input(a))
      <4>1. PICK a : llist' = Append(llist, Input(a))
        BY <3>2
      <4>2. PICK e : e = Input(a)
        OBVIOUS
      <4> QED
        BY <2>4, <4>1, <4>2
    <3> QED
      BY <2>5, <3>1, <3>2
  <2>7. Fresh'
    BY <1>0, <2>1, <2>6, ListKeepsNames
  <2>8. Numbered'
    BY <1>0, <2>1 DEF Numbered
  <2> QED
    BY <2>3, <2>7, <2>8 DEF NamesInv
<1>3. CASE OtherArg /\ flag.E > 0
  <2>1. /\ at' = "stdout" /\ UNCHANGED <<flag, rmlist, itemp, spfile, fs>>
        /\ Spawn("cpp", NoName, <<>>) /\ llist' = Append(llist, Input(Head(args)))
    BY <1>3 DEF OtherArg
  <2>2. Written'
    BY <1>0, <2>1, SpawnWritten
  <2>3. Head(Input(Head(args))) # "temp" /\ Input(Head(args)) # NoName
    BY DEF Input, NoName
  <2>4. Fresh'
    BY <1>0, <2>1, <2>3, ListKeepsNames
  <2>5. Numbered'
    BY <1>0, <2>1 DEF Numbered
  <2> QED
    BY <2>2, <2>4, <2>5 DEF NamesInv
<1>4. CASE SourceArg
  <2>1. CASE flag.E > 0
    <3>1. /\ Spawn("cpp", NoName, <<>>) /\ at' = "stdout"
          /\ UNCHANGED <<rmlist, itemp, llist, spfile, fs>>
      BY <1>4, <2>1 DEF SourceArg
    <3>2. Written'
      BY <1>0, <3>1, SpawnWritten
    <3>3. Fresh' /\ Numbered'
      BY <1>0, <3>1, SameNames
    <3> QED
      BY <3>2, <3>3 DEF NamesInv
  <2>2. CASE ~ (flag.E > 0)
    <3> DEFINE t == IF itemp = NoName THEN FreshTemp ELSE itemp
    <3>1. /\ Spawn("cpp", t, <<Head(args)>>) /\ at' = "cpp"
          /\ itemp' = t /\ rmlist' = rmlist \cup {t}
          /\ UNCHANGED <<llist, spfile, fs>>
      BY <1>4, <2>2 DEF SourceArg
    <3>2. Head(t) = "temp"
      BY <1>0, NameKinds DEF Kept
    <3>3. Written'
      <4> HIDE DEF t
      <4> QED
        BY <1>0, <3>1, <3>2, SpawnWritten
    <3>4. CASE itemp = NoName
      <4>1. t = FreshTemp
        BY <3>4
      <4>2. FreshTemp \notin rmlist /\ Numbered'
        BY <1>0, <3>1, <4>1, NewName
      <4>3. Fresh'
        BY <1>0, <3>1, <4>1, <4>2, NameKinds DEF Fresh, Absent
      <4> QED
        BY <3>3, <4>2, <4>3 DEF NamesInv
    <3>5. CASE itemp # NoName
      <4>1. t = itemp
        BY <3>5
      <4>2. rmlist' = rmlist /\ itemp' = itemp
        BY <1>0, <3>1, <3>5, <4>1 DEF Fresh
      <4>3. Fresh' /\ Numbered'
        BY <1>0, <3>1, <4>2, SameNames
      <4> QED
        BY <3>3, <4>3 DEF NamesInv
    <3> QED
      BY <3>4, <3>5
  <2> QED
    BY <2>1, <2>2
<1>5. CASE PreprocessedArg
  <2>1. /\ at = "file" /\ at' \in {"file", "compile"}
        /\ UNCHANGED <<llist, rmlist, itemp, spfile, child, fs>>
    BY <1>5 DEF PreprocessedArg, SkipArg
  <2>2. ~ Alive
    BY <1>0, <2>1 DEF Waits, Between
  <2>3. Written'
    BY <1>0, <2>1, <2>2, IdleWritten
  <2>4. Fresh' /\ Numbered'
    BY <1>0, <2>1, SameNames
  <2> QED
    BY <2>3, <2>4 DEF NamesInv
<1>6. CASE PreprocessDone \/ LinkDone \/ AssembleDone
  <2>1. /\ at' # "rcc" /\ child' = [child EXCEPT !.state = "none"]
        /\ UNCHANGED <<llist, rmlist, itemp, spfile, fs>>
    BY <1>6 DEF PreprocessDone, LinkDone, AssembleDone, StageDone
  <2>2. child'.state = "none"
    BY <1>0, <2>1, StateEffect
  <2>3. Written'
    BY <1>0, <2>1, <2>2, IdleWritten
  <2>4. Fresh' /\ Numbered'
    BY <1>0, <2>1, SameNames
  <2> QED
    BY <2>3, <2>4 DEF NamesInv
<1>7. CASE Compile
  <2> DEFINE t == IF flag.c = 0 THEN FreshTemp
                  ELSE IF flag.out THEN OutFile ELSE Object(Head(cur.src).name)
  <2>1. PICK from : Spawn("rcc", t, from)
    BY <1>7 DEF Compile
  <2>2. /\ at' = "rcc" /\ cur' = [cur EXCEPT !.name = t]
        /\ rmlist' = (IF flag.c > 0 THEN rmlist ELSE rmlist \cup {t})
        /\ UNCHANGED <<llist, flag, itemp, spfile, fs>>
    BY <1>7 DEF Compile
  <2>3. Head(t) # "arg" /\ flag.c \in Nat
    <3>1. /\ Head(FreshTemp) # "arg" /\ Head(OutFile) # "arg"
          /\ \A s : Head(Object(s)) # "arg"
      BY DEF FreshTemp, Temp, OutFile, Object
    <3> QED
      BY <1>0, <3>1 DEF FlagType
  <2>4. cur'.name = t
    BY <2>2
  <2>5. Written'
    <3> HIDE DEF t
    <3> QED
      BY <1>0, <2>1, <2>2, <2>3, <2>4, SpawnWritten
  <2>6. CASE flag.c = 0
    <3>1. t = FreshTemp /\ rmlist' = rmlist \cup {t}
      BY <2>2, <2>6
    <3>2. FreshTemp \notin rmlist /\ Numbered'
      BY <1>0, <3>1, NewName
    <3>3. cur'.name \in rmlist' /\ cur'.name # itemp /\ cur'.name \notin rmlist
      BY <1>0, <2>4, <3>1, <3>2, NameKinds DEF Fresh
    <3>4. Absent(cur.name)'
      BY <1>0, <2>2, <2>4, <3>1, <3>3, NameKinds DEF Fresh, Absent
    <3>5. Fresh'
      BY <1>0, <2>2, <3>1, <3>3, <3>4 DEF Fresh, Absent
    <3> QED
      BY <2>5, <3>2, <3>5 DEF NamesInv
  <2>7. CASE flag.c > 0
    <3>1. rmlist' = rmlist /\ ~ (flag'.c = 0)
      BY <2>2, <2>7
    <3>2. Fresh' /\ Numbered'
      BY <1>0, <2>2, <3>1 DEF Fresh, Numbered, Absent
    <3> QED
      BY <2>5, <3>2 DEF NamesInv
  <2> QED
    BY <2>3, <2>6, <2>7
<1>8. CASE CompileDone
  <2>1. /\ at = "rcc" /\ at' = "file" /\ child' = [child EXCEPT !.state = "none"]
        /\ UNCHANGED <<flag, rmlist, itemp, fs>>
        /\ spfile' = spfile \/ spfile' = cur.name
        /\ \/ llist' = llist
           \/ llist' = Append(llist, cur.name) /\ flag.c = 0
    BY <1>8 DEF CompileDone
  <2>2. child'.state = "none"
    BY <1>0, <2>1, StateEffect
  <2>3. Written'
    BY <1>0, <2>1, <2>2, IdleWritten DEF Written
  <2>4. Numbered'
    BY <1>0, <2>1 DEF Numbered
  <2>5. CASE llist' = llist
    BY <1>0, <2>1, <2>3, <2>4, <2>5, SameNames DEF NamesInv
  <2>6. CASE llist' = Append(llist, cur.name) /\ flag.c = 0
    <3>1. cur.name \in rmlist /\ cur.name # itemp
      BY <1>0, <2>1, <2>6 DEF Fresh
    <3>2. \A i \in DOMAIN llist' :
            llist'[i] = cur.name \/ \E j \in DOMAIN llist : llist'[i] = llist[j]
      BY <1>0, <2>6, ListMembers
    <3>3. Fresh'
      BY <1>0, <2>1, <3>1, <3>2 DEF Fresh, Absent
    <3> QED
      BY <2>3, <2>4, <3>3 DEF NamesInv
  <2> QED
    BY <2>1, <2>5, <2>6
<1>9. CASE Link
  <2>1. /\ at = "file" /\ at' # "rcc" /\ UNCHANGED <<llist, rmlist, itemp, fs>>
        /\ \/ spfile' = LdOut /\ Spawn("lc3pp", LdOut, SourcesLinked(llist))
           \/ UNCHANGED <<child, spfile>>
    BY <1>9 DEF Link
  <2>2. ~ Alive
    BY <1>0, <2>1 DEF Waits, Between
  <2>3. Head(LdOut) # "arg"
    BY DEF LdOut
  <2>4. Written'
    BY <1>0, <2>1, <2>2, <2>3, IdleWritten, SpawnWritten
  <2>5. Fresh' /\ Numbered'
    BY <1>0, <2>1, SameNames
  <2> QED
    BY <2>4, <2>5 DEF NamesInv
<1>10. CASE Paste
  <2>1. /\ at = "linked" /\ at' # "rcc" /\ UNCHANGED <<llist, itemp, spfile, fs>>
        /\ \/ /\ rmlist' = rmlist \cup {FreshTemp}
              /\ Spawn("SourcePaste", FreshTemp, SourcesOf(spfile))
           \/ UNCHANGED <<child, rmlist>>
    BY <1>10 DEF Paste
  <2>2. ~ Alive
    BY <1>0, <2>1 DEF Waits, Between
  <2>3. Head(FreshTemp) # "arg"
    BY NameKinds
  <2>4. Written'
    BY <1>0, <2>1, <2>2, <2>3, IdleWritten, SpawnWritten
  <2>5. Numbered'
    BY <1>0, <2>1, NewName DEF Numbered
  <2>6. Fresh'
    BY <1>0, <2>1 DEF Fresh, Absent
  <2> QED
    BY <2>4, <2>5, <2>6 DEF NamesInv
<1>11. CASE PasteDone
  <2>1. /\ at = "paste" /\ at' = "pasted" /\ child' = [child EXCEPT !.state = "none"]
        /\ UNCHANGED <<llist, rmlist, itemp, spfile>>
    BY <1>11 DEF PasteDone
  <2>2. DOMAIN fs' \subseteq DOMAIN fs \cup {spfile}
    BY <1>11 DEF PasteDone
  <2>3. child'.state = "none" /\ spfile # NoName
    BY <1>0, <2>1, StateEffect DEF Kept
  <2>4. Written'
    BY <1>0, <2>1, <2>2, <2>3 DEF Written, Alive
  <2>5. Fresh' /\ Numbered'
    BY <1>0, <2>1, SameNames
  <2> QED
    BY <2>4, <2>5 DEF NamesInv
<1>12. CASE Assemble
  <2>1. /\ at = "pasted" /\ at' # "rcc" /\ UNCHANGED <<llist, rmlist, itemp, spfile, fs>>
        /\ \/ Spawn("lc3as", Obj, SourcesOf(LdOut))
           \/ child' = child
    BY <1>12 DEF Assemble
  <2>2. ~ Alive
    BY <1>0, <2>1 DEF Waits, Between
  <2>3. Head(Obj) # "arg"
    BY DEF Obj
  <2>4. Written'
    BY <1>0, <2>1, <2>2, <2>3, IdleWritten, SpawnWritten
  <2>5. Fresh' /\ Numbered'
    BY <1>0, <2>1, SameNames
  <2> QED
    BY <2>4, <2>5 DEF NamesInv
<1>13. CASE Finish
  <2>1. /\ at = "rm" /\ at' = "exit" /\ rm
        /\ UNCHANGED <<llist, rmlist, itemp, spfile, child>>
    BY <1>13 DEF Finish
  <2>2. ~ Alive
    BY <1>0, <2>1 DEF Waits, Between
  <2>3. DOMAIN fs' \subseteq DOMAIN fs
    BY <2>1 DEF rm, Without
  <2>4. Written'
    BY <1>0, <2>1, <2>2, <2>3, IdleWritten
  <2>5. Fresh' /\ Numbered'
    BY <1>0, <2>1, SameNames
  <2> QED
    BY <2>4, <2>5 DEF NamesInv
<1> QED
  BY <1>1, <1>2, <1>3, <1>4, <1>5, <1>6, <1>7, <1>8, <1>9, <1>10, <1>11, <1>12,
     <1>13 DEF Main

(* Of a child of the driver that opens its output or ends.                 *)
LEMMA ChildEffect ==
  ASSUME StageInv, ChildOpens \/ ChildEnds
  PROVE  /\ Alive /\ ChildType'
         /\ child'.prog = child.prog /\ child'.out = child.out /\ child'.what = child.what
         /\ UNCHANGED <<line, at, args, flag, cur, llist, errcnt, rmlist, itemp, spfile, code>>
         /\ \A n \in DOMAIN fs : n # child.out => n \in DOMAIN fs' /\ fs'[n] = fs[n]
         /\ DOMAIN fs' \subseteq DOMAIN fs \cup ({child.out} \ {NoName})
<1>1. ChildType
  BY DEF StageInv, Typed
<1>2. child'.what = child.what
  BY <1>1 DEF ChildOpens, ChildEnds, ChildType
<1>3. CASE ChildOpens
  BY <1>1, <1>2, <1>3, StateEffect DEF ChildOpens, Alive
<1>4. CASE ChildEnds
  BY <1>1, <1>2, <1>4, StateEffect DEF ChildEnds, Alive
<1> QED
  BY <1>3, <1>4

(* What a child has made when it ends well.                                *)
LEMMA ChildMakes ==
  ASSUME StageInv, NamesInv, ChildOpens \/ ChildEnds, child'.state = "ok",
         at # "exit", child.out # NoName
  PROVE  /\ child.out \in DOMAIN fs' /\ fs'[child.out].src = child.what
         /\ fs'[child.out].whole
         /\ fs'[child.out].pasted <=> child.prog = "SourcePaste"
<1>1. ChildType
  BY DEF StageInv, Typed
<1>2. ChildEnds /\ child.state = "open"
  BY <1>1, StateEffect DEF ChildOpens, ChildEnds
<1>3. child.out \in DOMAIN fs
  BY <1>2 DEF NamesInv, Written
<1>4. fs' = [n \in DOMAIN fs |->
              IF n = child.out
              THEN Content(child.what, child.prog = "SourcePaste") ELSE fs[n]]
  BY <1>1, <1>2, StateEffect DEF ChildEnds
<1>5. fs'[child.out] = Content(child.what, child.prog = "SourcePaste")
  BY <1>3, <1>4
<1> QED
  BY <1>3, <1>4, <1>5 DEF Content

(* All steps keep the invariant of the names.                              *)
LEMMA NextNames ==
  ASSUME StageInv, TempInv, NamesInv, [Next]_vars
  PROVE  NamesInv'
<1>0. Numbered /\ Fresh /\ Written
  BY DEF NamesInv
<1>1. CASE Main
  BY <1>1, MainNames
<1>2. CASE interrupt
  <2>1. /\ at' = "exit" /\ rm /\ UNCHANGED <<llist, rmlist, itemp, spfile>>
        /\ child' = child \/ child' = [child EXCEPT !.prog = "orphan"]
    BY <1>2 DEF interrupt
  <2>2. DOMAIN fs' \subseteq DOMAIN fs
    BY <2>1 DEF rm, Without
  <2>3. child'.out = child.out /\ child'.state = child.state
    BY <2>1 DEF StageInv, Typed, ChildType
  <2>4. Written'
    BY <1>0, <2>1, <2>2, <2>3 DEF Written, Alive
  <2> QED
    BY <1>0, <2>1, <2>4, SameNames DEF NamesInv
<1>3. CASE ChildOpens \/ ChildEnds
  <2>1. /\ Alive /\ child'.out = child.out
        /\ UNCHANGED <<at, flag, cur, llist, rmlist, itemp, spfile>>
        /\ \A n \in DOMAIN fs : n # child.out => n \in DOMAIN fs'
        /\ DOMAIN fs' \subseteq DOMAIN fs \cup ({child.out} \ {NoName})
    BY <1>3, ChildEffect
  <2>2. child'.state = "open" => child.out = NoName \/ child.out \in DOMAIN fs'
    BY <1>3, StateEffect DEF ChildOpens, ChildEnds, StageInv, Typed
  <2>3. Written'
    BY <1>0, <2>1, <2>2 DEF Written
  <2>4. Fresh' /\ Numbered'
    BY <1>0, <2>1 DEF Fresh, Numbered, Absent
  <2> QED
    BY <2>3, <2>4 DEF NamesInv
<1>4. CASE UNCHANGED vars
  BY <1>0, <1>4 DEF vars, NamesInv, Numbered, Fresh, Absent, Written, Alive
<1> QED
  BY <1>1, <1>2, <1>3, <1>4 DEF Next

----------------------------------------------------------------------------
(* Which positions are seen, and which of those are wanted.                *)
LEMMA Positioned ==
  /\ Seen \subseteq DOMAIN line /\ Wants \subseteq Seen
  /\ \A i \in Seen : line[i].kind \in FileKinds \cup {"-l", "-lib"}
  /\ \A i \in DOMAIN line : line[i].kind \in FileKinds \cup {"-l", "-lib"} => i \in Seen
  /\ \A i \in Seen : i \in Wants <=>
       /\ line[i].kind \in {"c", "i", "other", "lcc"}
       /\ line[i].kind = "lcc" => \A j \in 1 .. i - 1 : line[j] # line[i]
  BY DEF Seen, Wants, Positions, FileKinds

(* The argument taken after those up to p, at position q.                  *)
Follows(p, q) ==
  /\ q \in (p + 1) .. Len(line) /\ q \in Seen /\ line[q] \in Args
  /\ Head(args) = line[q] /\ Tail(args) = Only(Seen \ (1 .. q))
  /\ \A j \in (p + 1) .. (q - 1) : j \notin Seen
  /\ Only(Wants \ (1 .. p)) =
       (IF q \in Wants THEN <<line[q]>> ELSE <<>>) \o Only(Wants \ (1 .. q))

(* There is one when there are arguments left.                             *)
LEMMA NextArg ==
  ASSUME Typed, NEW p \in 0 .. Len(line), args = Only(Seen \ (1 .. p)), args # <<>>
  PROVE  \E q : Follows(p, q)
<1> DEFINE S == Seen \ (1 .. p)
           W == Wants \ (1 .. p)
<1>1. Len(line) \in Nat /\ DOMAIN line = 1 .. Len(line)
  BY LineType
<1>2. S \subseteq DOMAIN line /\ W \subseteq S /\ S \in SUBSET Nat
  BY <1>1, Positioned
<1>3. S # {}
  <2>1. S = {} => S \cap DOMAIN line = {}
    OBVIOUS
  <2> QED
    BY <2>1, OnlyNone
<1>4. PICK q \in S : \A j \in S : q <= j
  BY <1>2, <1>3, Least1
<1>5. q \in (p + 1) .. Len(line) /\ q \in Seen /\ q \in DOMAIN line /\ line[q] \in Args
  BY <1>1, <1>2, <1>4 DEF Args
<1>6. S \ {q} = Seen \ (1 .. q)
  <2>1. ASSUME NEW j \in Seen PROVE j \in S \ {q} <=> j \in Seen \ (1 .. q)
    <3>1. j \in Nat /\ j \in 1 .. Len(line)
      BY <1>1, Positioned
    <3>2. CASE j \in S \ {q}
      <4>1. q <= j /\ j # q
        BY <1>4, <3>2
      <4> QED
        BY <1>5, <3>1, <3>2, <4>1
    <3>3. CASE j \notin S \ {q}
      <4>1. j = q \/ j \in 1 .. p
        BY <3>3
      <4> QED
        BY <1>5, <3>1, <3>3, <4>1
    <3> QED
      BY <3>2, <3>3
  <2> QED
    BY <2>1
<1>7. Only(S \ {q}) \in Seq(Args) /\ Only(S) = <<line[q]>> \o Only(S \ {q})
  BY <1>4, <1>5, OnlyFirst
<1>8. Head(args) = line[q] /\ Tail(args) = Only(S \ {q})
  <2>1. PICK r \in Seq(Args) : r = Only(S \ {q})
    BY <1>7
  <2>2. PICK e \in Args : e = line[q]
    BY <1>5
  <2>3. Head(<<e>> \o r) = e /\ Tail(<<e>> \o r) = r
    OBVIOUS
  <2> QED
    BY <1>7, <2>1, <2>2, <2>3
<1>9. \A j \in (p + 1) .. (q - 1) : j \notin Seen
  <2> SUFFICES ASSUME NEW j \in (p + 1) .. (q - 1), j \in Seen PROVE FALSE
    OBVIOUS
  <2>1. j \in S /\ j < q
    BY <1>5
  <2>2. q <= j
    BY <1>4, <2>1
  <2> QED
    BY <1>5, <2>1, <2>2
<1>10. Only(W) = (IF q \in Wants THEN <<line[q]>> ELSE <<>>) \o Only(Wants \ (1 .. q))
  <2>1. W \ {q} = Wants \ (1 .. q)
    <3>1. W \ {q} = Wants \cap (S \ {q})
      BY <1>2
    <3>2. Wants \cap (Seen \ (1 .. q)) = Wants \ (1 .. q)
      BY Positioned
    <3> QED
      BY <1>6, <3>1, <3>2
  <2>2. CASE q \in Wants
    <3>1. q \in W /\ \A j \in W : q <= j
      BY <1>2, <1>4, <2>2
    <3>2. Only(W) = <<line[q]>> \o Only(W \ {q})
      BY <1>5, <3>1, OnlyFirst
    <3> QED
      BY <2>1, <2>2, <3>2
  <2>3. CASE q \notin Wants
    <3>1. W = W \ {q}
      BY <2>3
    <3>2. Only(W) \in Seq(Args)
      BY OnlySeq
    <3>3. <<>> \o Only(W) = Only(W)
      BY <3>2, Unit
    <3> QED
      BY <2>1, <2>3, <3>1, <3>3
  <2> QED
    BY <2>2, <2>3
<1> QED
  BY <1>5, <1>6, <1>8, <1>9, <1>10 DEF Follows

(* When none is left, nothing wanted is left.                              *)
LEMMA NoArg ==
  ASSUME Typed, NEW p \in 0 .. Len(line), <<>> = Only(Seen \ (1 .. p))
  PROVE  Only(Wants \ (1 .. p)) = <<>>
<1> DEFINE S == Seen \ (1 .. p)
<1>1. S = {}
  <2> SUFFICES ASSUME S # {} PROVE FALSE
    OBVIOUS
  <2>1. S \in SUBSET Nat /\ S \subseteq DOMAIN line
    BY LineType, Positioned
  <2>2. PICK q \in S : \A j \in S : q <= j
    BY <2>1, Least1
  <2>3. Only(S \ {q}) \in Seq(Args) /\ Only(S) = <<line[q]>> \o Only(S \ {q})
    BY <2>1, <2>2, OnlyFirst
  <2>4. PICK r \in Seq(Args) : r = Only(S \ {q})
    BY <2>3
  <2>5. PICK e \in Args : e = line[q]
    BY <2>1, <2>2 DEF Args
  <2>6. <<e>> \o r # <<>>
    <3>1. Len(<<e>> \o r) = 1 + Len(r) /\ Len(r) \in Nat
      OBVIOUS
    <3>2. Len(<<>>) = 0
      OBVIOUS
    <3> QED
      BY <3>1, <3>2
  <2> QED
    BY <2>3, <2>4, <2>5, <2>6
<1>2. (Wants \ (1 .. p)) \cap DOMAIN line = {}
  BY <1>1, Positioned
<1> QED
  BY <1>2, OnlyNone

(* Concatenation under a name of its own.                                  *)
Cat(p, q) == p \o q

(* It is associative, and gives a sequence over the same set.              *)
LEMMA CatSeq ==
  ASSUME NEW R, NEW p \in Seq(R), NEW q \in Seq(R), NEW r \in Seq(R)
  PROVE  Cat(Cat(p, q), r) = Cat(p, Cat(q, r)) /\ Cat(p, q) \in Seq(R)
  BY DEF Cat

(* Concatenations taken apart in another way.                              *)
LEMMA Regroup ==
  ASSUME NEW R, NEW s \in Seq(R), NEW x \in Seq(R), NEW y \in Seq(R), NEW r \in Seq(R)
  PROVE  Cat(Cat(s, x), Cat(y, r)) = Cat(s, Cat(Cat(x, y), r))
<1>1. Cat(y, r) \in Seq(R)
  BY CatSeq
<1> QED
  BY <1>1, CatSeq

Has(n) == \E i \in DOMAIN llist : llist[i] = n

(* One argument is taken: what it adds to the linker's list and to the     *)
(* file being compiled is itself, if it is wanted.                         *)
LEMMA ArgTaken ==
  ASSUME Typed, at = "file", NEW p \in 0 .. Len(line), Taken(p), NEW q, Follows(p, q),
         args' = Tail(args), line' = line,
         NEW x \in Seq(Args), SourcesLinked(llist)' = SourcesLinked(llist) \o x,
         Underway' \in Seq(Args),
         x \o Underway' = (IF q \in Wants THEN <<line[q]>> ELSE <<>>),
         \A a \in Args : a.kind = "lcc" => (Has(Input(a))' <=> Has(Input(a)) \/ a = line[q])
  PROVE  Taken(q)' /\ q \in 0 .. Len(line')
<1>1. Seen' = Seen /\ Wants' = Wants /\ Args' = Args /\ \A S : Only(S)' = Only(S)
  BY DEF Seen, Wants, Args, Positions, Only
<1>2. args' = Only(Seen \ (1 .. q))'
  BY <1>1 DEF Follows
<1>3. SourcesLinked(llist)' \in Seq(Args)
  BY DEF Taken
<1>4. SourcesLinked(llist)' \o (Underway' \o Only(Wants \ (1 .. q))) = Wanted
  <2> DEFINE y == Underway'
             r == Only(Wants \ (1 .. q))
             l == SourcesLinked(llist)
  <2>1. r \in Seq(Args) /\ l \in Seq(Args) /\ y \in Seq(Args)
    BY OnlySeq DEF Taken
  <2>2. Only(Wants \ (1 .. p)) = Cat(Cat(x, y), r)
    BY DEF Follows, Cat
  <2>3. Only(Wants \ (1 .. p)) \in Seq(Args)
    BY OnlySeq
  <2>4. Cat(l, Only(Wants \ (1 .. p))) = Wanted
    <3>1. Underway = <<>>
      BY DEF Underway
    <3>2. <<>> \o Only(Wants \ (1 .. p)) = Only(Wants \ (1 .. p))
      BY <2>3, Unit
    <3> QED
      BY <3>1, <3>2 DEF Taken, Cat
  <2> HIDE DEF y, r, l
  <2>5. Cat(Cat(l, x), Cat(y, r)) = Cat(l, Cat(Cat(x, y), r))
    BY <2>1, Regroup
  <2>6. Cat(Cat(l, x), Cat(y, r)) = Wanted
    BY <2>2, <2>4, <2>5
  <2> QED
    BY <2>6 DEF y, r, l, Cat
<1>5. Wanted' = Wanted
  BY DEF Wanted, Only, Positions
<1>6. q \in 0 .. Len(line) /\ p < q
  BY DEF Follows
<1>7. ASSUME NEW a \in Args, a.kind = "lcc"
      PROVE  Has(Input(a))' <=> \E j \in 1 .. q : line[j] = a
  <2>1. Has(Input(a)) <=> \E j \in 1 .. p : line[j] = a
    BY <1>7 DEF Taken, Has
  <2>2. Has(Input(a))' <=> Has(Input(a)) \/ a = line[q]
    BY <1>7
  <2>3. \A j \in 1 .. q : j \in 1 .. p \/ j = q \/ j \in (p + 1) .. (q - 1)
    BY <1>6
  <2>4. \A j \in 1 .. p : j \in 1 .. q
    BY <1>6
  <2>5. q \in 1 .. q
    BY <1>6
  <2>6. ASSUME NEW j \in (p + 1) .. (q - 1) PROVE line[j] # a
    <3>1. j \in DOMAIN line
      BY <1>6, LineType
    <3>2. j \notin Seen
      BY DEF Follows
    <3> QED
      BY <1>7, <3>1, <3>2, Positioned DEF FileKinds
  <2> QED
    BY <2>1, <2>2, <2>3, <2>4, <2>5, <2>6
<1>8. \A a \in Args' : a.kind = "lcc" =>
        ((\E i \in DOMAIN llist' : llist'[i] = Input(a)) <=> \E j \in 1 .. q : line'[j] = a)
  BY <1>1, <1>7 DEF Has
<1> QED
  BY <1>1, <1>2, <1>3, <1>4, <1>5, <1>6, <1>8 DEF Taken

----------------------------------------------------------------------------
(* The sources on the linker's list: of one more name, of the same names,  *)
(* and of no file but the linker's own option.                             *)
LEMMA LinkedMore ==
  ASSUME IsSeq(llist), NEW e, llist' = Append(llist, e), fs' = fs
  PROVE  SourcesLinked(llist)' = SourcesLinked(llist) \o SourcesIn(e)
<1> DEFINE S == {llist[i] : i \in DOMAIN llist} \cup {e}
           s == [i \in DOMAIN llist |-> SourcesIn(llist[i])]
           m == Append(llist, e)
           t == [i \in DOMAIN m |-> SourcesIn(m[i])]
<1>1. /\ Len(llist) \in Nat /\ DOMAIN llist = 1 .. Len(llist)
      /\ llist = [i \in 1 .. Len(llist) |-> llist[i]]
  BY DEF IsSeq
<1>2. llist \in [1 .. Len(llist) -> S]
  BY <1>1
<1>3. llist \in Seq(S) /\ e \in S
  BY <1>1, <1>2
<1> HIDE DEF S
<1>4. /\ DOMAIN m = 1 .. Len(llist) + 1
      /\ \A i \in 1 .. Len(llist) : m[i] = llist[i]
      /\ m[Len(llist) + 1] = e
  BY <1>1, <1>3
<1>5. SourcesLinked(llist)' = Concat(t)
  <2>1. \A n : SourcesIn(n)' = SourcesIn(n)
    BY DEF SourcesIn, SourcesOf
  <2> QED
    BY <2>1 DEF SourcesLinked, SourcesIn, SourcesOf
<1> HIDE DEF m
<1>6. Len(s) = Len(llist) /\ Len(t) = Len(llist) + 1
  BY <1>1, <1>4
<1>7. \A i \in 1 .. Len(llist) : t[i] = s[i]
  <2>1. \A i \in 1 .. Len(llist) : i \in DOMAIN m /\ i \in DOMAIN llist
    BY <1>1, <1>4
  <2> QED
    BY <1>4, <2>1
<1>8. t[Len(llist) + 1] = SourcesIn(e)
  <2>1. Len(llist) + 1 \in DOMAIN m
    BY <1>1, <1>4
  <2> QED
    BY <1>4, <2>1
<1>9. SourcesLinked(llist) = Concat(s)
  BY DEF SourcesLinked
<1> HIDE DEF s, t
<1>10. Concat(t) = Concat(s) \o t[Len(t)]
  BY <1>1, <1>6, <1>7, ConcatAppend
<1>11. t[Len(t)] = SourcesIn(e)
  BY <1>6, <1>8
<1> QED
  BY <1>5, <1>9, <1>10, <1>11, Zenon

(* The sources of the list depend on the list and the files only.          *)
LEMMA LinkedSame ==
  ASSUME llist' = llist, fs' = fs
  PROVE  SourcesLinked(llist)' = SourcesLinked(llist)
  BY DEF SourcesLinked, SourcesIn, SourcesOf

(* The linker's options come from no source.                               *)
LEMMA LinkedNone ==
  SourcesLinked(<<>>) = <<>> /\ SourcesLinked(<< <<"-x">> >>) = <<>>
<1>1. SourcesLinked(<<>>) = <<>>
  <2> DEFINE s == [i \in DOMAIN <<>> |-> SourcesIn(<<>>[i])]
  <2>1. Len(s) = 0
    OBVIOUS
  <2> HIDE DEF s
  <2>2. Concat(s) = <<>>
    BY <2>1, ConcatEmpty
  <2> QED
    BY <2>2 DEF s, SourcesLinked
<1>2. SourcesLinked(<< <<"-x">> >>) = <<>>
  <2> DEFINE l == << <<"-x">> >>
             s == [i \in DOMAIN l |-> SourcesIn(l[i])]
             e == [i \in 1 .. 0 |-> <<>>]
  <2>1. Len(e) = 0 /\ Len(s) = 1
    OBVIOUS
  <2>2. l[1] = <<"-x">> /\ 1 \in DOMAIN l /\ Head(<<"-x">>) = "-x"
    OBVIOUS
  <2>3. s[1] = SourcesIn(<<"-x">>)
    <3> HIDE DEF l
    <3> QED
      BY <2>2
  <2>4. SourcesIn(<<"-x">>) = <<>>
    BY <2>2 DEF SourcesIn
  <2>5. SourcesLinked(l) = Concat(s)
    BY DEF SourcesLinked
  <2> HIDE DEF s, e, l
  <2>6. Concat(e) = <<>>
    BY <2>1, ConcatEmpty
  <2>7. /\ Len(e) \in Nat /\ Len(s) = Len(e) + 1
        /\ \A i \in 1 .. Len(e) : s[i] = e[i]
    BY <2>1
  <2>8. Concat(s) = Concat(e) \o s[Len(s)]
    BY <2>7, ConcatAppend, Zenon
  <2>9. <<>> \o <<>> = <<>>
    BY Unit
  <2>10. Concat(s) = <<>>
    <3>1. s[Len(s)] = <<>>
      BY <2>1, <2>3, <2>4
    <3> QED
      BY <2>6, <2>8, <2>9, <3>1, Zenon
  <2> QED
    BY <2>5, <2>10 DEF l
<1> QED
  BY <1>1, <1>2

(* While no error is counted, none was before.                             *)
LEMMA SteadyBack ==
  ASSUME StageInv, Main, ~ Options, Steady'
  PROVE  Steady /\ flag' = flag /\ line' = line /\ errcnt = 0 /\ errcnt' = 0
<1>1. flag' = flag /\ line' = line
  BY DEF Main, LibraryArg, MissingArg, ObjectArg, OtherArg, SourceArg, PreprocessedArg,
     PreprocessDone, Compile, CompileDone, Link, LinkDone, StageDone, Paste, PasteDone,
     Assemble, AssembleDone, Finish, SkipArg
<1>2. errcnt \in Nat
  BY DEF StageInv, Typed
<1>3. errcnt' >= errcnt /\ errcnt' \in Nat
  BY <1>2 DEF Main, LibraryArg, MissingArg, ObjectArg, OtherArg, SourceArg, PreprocessedArg,
     PreprocessDone, Compile, CompileDone, Link, LinkDone, StageDone, Paste, PasteDone,
     Assemble, AssembleDone, Finish, SkipArg
<1> QED
  BY <1>1, <1>2, <1>3 DEF Steady

(* After the options, nothing has been taken off the line.                 *)
LEMMA OptionsTaken ==
  ASSUME StageInv, Options, at' = "file"
  PROVE  Taken(0)' /\ 0 \in 0 .. Len(line')
<1>0. Typed
  BY DEF StageInv
<1>1. /\ line' = line /\ fs' = fs
      /\ llist' = <<>> \/ llist' = << <<"-x">> >>
      /\ args' = Only(Seen)
  BY DEF Options, LinkerOptions, Seen
<1>2. Seen' = Seen /\ Wants' = Wants /\ Args' = Args /\ \A S : Only(S)' = Only(S)
  BY <1>1 DEF Seen, Wants, Args, Positions, Only
<1>3. \A S : S \ (1 .. 0) = S
  <2>1. 1 .. 0 = {}
    OBVIOUS
  <2> QED
    BY <2>1
<1>4. args' = Only(Seen \ (1 .. 0))'
  <2>1. Seen \ (1 .. 0) = Seen
    BY <1>3
  <2>2. Only(Seen \ (1 .. 0))' = Only(Seen \ (1 .. 0))
    BY <1>1 DEF Seen, Positions, Only
  <2> QED
    BY <1>1, <2>1, <2>2
<1>5. SourcesLinked(llist)' = <<>>
  <2>1. SourcesLinked(llist)' = SourcesLinked(llist')
    BY <1>1 DEF SourcesLinked, SourcesIn, SourcesOf
  <2> QED
    BY <1>1, <2>1, LinkedNone
<1>6. Wanted' = Only(Wants) /\ Only(Wants \ (1 .. 0))' = Only(Wants)
  <2>1. Wants \ (1 .. 0) = Wants
    BY <1>3
  <2>2. Only(Wants \ (1 .. 0))' = Only(Wants \ (1 .. 0))
    BY <1>1 DEF Wants, Positions, Only
  <2>3. Wanted' = Wanted /\ Wanted = Only(Wants)
    BY <1>1 DEF Wanted, Wants, Positions, Only
  <2> QED
    BY <2>1, <2>2, <2>3
<1>7. <<>> \o (<<>> \o Only(Wants)) = Only(Wants) /\ <<>> \in Seq(Args)
  <2>1. Only(Wants) \in Seq(Args)
    BY <1>0, OnlySeq
  <2>2. <<>> \o Only(Wants) = Only(Wants)
    BY <2>1, Unit
  <2>3. <<>> \in Seq(Args)
    OBVIOUS
  <2> QED
    BY <2>2, <2>3
<1>8. Underway' = <<>>
  BY DEF Underway
<1>9. \A a : ~ \E i \in DOMAIN llist' : llist'[i] = Input(a)
  <2>1. \A i \in DOMAIN llist' : llist'[i] = <<"-x">>
    BY <1>1
  <2>2. \A a : Input(a) # <<"-x">>
    BY DEF Input
  <2> QED
    BY <2>1, <2>2
<1>10. ~ \E j \in 1 .. 0 : TRUE
  OBVIOUS
<1>11. SourcesLinked(llist)' \in Seq(Args')
  BY <1>2, <1>5, <1>7
<1>12. SourcesLinked(llist)' \o (Underway' \o Only(Wants \ (1 .. 0))') = Wanted'
  BY <1>5, <1>6, <1>7, <1>8
<1>13. \A a \in Args' : a.kind = "lcc" =>
        ((\E i \in DOMAIN llist' : llist'[i] = Input(a)) <=> \E j \in 1 .. 0 : line'[j] = a)
  BY <1>9, <1>10
<1>14. Len(line) \in Nat
  BY <1>0, LineType
<1> QED
  BY <1>1, <1>4, <1>11, <1>12, <1>13, <1>14 DEF Taken

----------------------------------------------------------------------------
(* What is on the list after one more name.                                *)
LEMMA HasMore ==
  ASSUME IsSeq(llist), NEW e, llist' = Append(llist, e)
  PROVE  \A n : Has(n)' <=> Has(n) \/ n = e
  BY ListMembers DEF Has

(* Files of the command line have names of their own.                      *)
LEMMA InputsDiffer ==
  /\ \A a, b : Input(a) = Input(b) => a = b
  /\ \A a : Input(a) # <<"-l">> /\ Head(Input(a)) = "arg" /\ Tail(Input(a)) = <<a>>
  BY DEF Input

(* Between two positions nothing else is an object file.                   *)
LEMMA FirstOfName ==
  ASSUME Typed, NEW p \in 0 .. Len(line), Taken(p), NEW q, Follows(p, q),
         line[q].kind = "lcc"
  PROVE  q \in Wants <=> ~ Has(Input(line[q]))
<1>1. q \in Seen /\ line[q] \in Args /\ q \in (p + 1) .. Len(line)
  BY DEF Follows
<1>2. Has(Input(line[q])) <=> \E j \in 1 .. p : line[j] = line[q]
  BY <1>1 DEF Taken, Has
<1>3. q \in Wants <=> \A j \in 1 .. q - 1 : line[j] # line[q]
  BY <1>1, Positioned
<1>4. \A j \in 1 .. q - 1 : j \in 1 .. p \/ j \in (p + 1) .. (q - 1)
  BY <1>1
<1>5. \A j \in 1 .. p : j \in 1 .. q - 1
  BY <1>1
<1>6. ASSUME NEW j \in (p + 1) .. (q - 1) PROVE line[j] # line[q]
  <2>1. j \in DOMAIN line
    BY <1>1, LineType
  <2>2. j \notin Seen
    BY DEF Follows
  <2> QED
    BY <2>1, <2>2, Positioned DEF FileKinds
<1> QED
  BY <1>2, <1>3, <1>4, <1>5, <1>6

(* An argument that is not wanted, or is a library, adds nothing.          *)
LEMMA NothingTaken ==
  ASSUME StageInv, IsSeq(llist), at = "file", NEW p \in 0 .. Len(line), Taken(p),
         NEW q, Follows(p, q), q \notin Wants,
         at' = "file", args' = Tail(args), line' = line, fs' = fs,
         \/ line[q].kind # "lcc" /\ llist' \in {llist, Append(llist, <<"-l">>)}
         \/ Has(Input(line[q])) /\ llist' = llist
  PROVE  Taken(q)' /\ q \in 0 .. Len(line')
<1>1. Typed /\ <<>> \in Seq(Args) /\ <<>> \o <<>> = <<>> /\ Underway' = <<>>
  BY Unit DEF StageInv, Underway
<1>2. SourcesLinked(llist) \o <<>> = SourcesLinked(llist)
  BY Unit DEF Taken
<1>3. SourcesLinked(llist)' = SourcesLinked(llist) \o <<>>
  <2>1. CASE llist' = llist
    <3>1. SourcesLinked(llist)' = SourcesLinked(llist)
      BY <2>1, LinkedSame
    <3> QED
      BY <1>2, <3>1
  <2>2. CASE llist' = Append(llist, <<"-l">>)
    <3>1. SourcesIn(<<"-l">>) = <<>>
      <4>1. Head(<<"-l">>) = "-l"
        OBVIOUS
      <4> QED
        BY <4>1 DEF SourcesIn
    <3>2. SourcesLinked(llist)' = SourcesLinked(llist) \o SourcesIn(<<"-l">>)
      BY <2>2, LinkedMore
    <3> QED
      BY <3>1, <3>2, Zenon
  <2> QED
    BY <2>1, <2>2
<1>4. \A a \in Args : a.kind = "lcc" => (Has(Input(a))' <=> Has(Input(a)) \/ a = line[q])
  <2>1. CASE llist' = llist
    BY <2>1 DEF Has
  <2>2. CASE llist' = Append(llist, <<"-l">>)
    <3>1. \A n : Has(n)' <=> Has(n) \/ n = <<"-l">>
      BY <2>2, HasMore
    <3> QED
      BY <2>2, <3>1, InputsDiffer
  <2> QED
    BY <2>1, <2>2
<1> QED
  BY <1>1, <1>3, <1>4, ArgTaken

(* A file that is wanted and need not be compiled is put on the list.      *)
LEMMA FileTaken ==
  ASSUME StageInv, IsSeq(llist), at = "file", NEW p \in 0 .. Len(line), Taken(p),
         NEW q, Follows(p, q), q \in Wants,
         at' = "file", args' = Tail(args), line' = line, fs' = fs,
         llist' = Append(llist, Input(line[q]))
  PROVE  Taken(q)' /\ q \in 0 .. Len(line')
<1> DEFINE x == <<line[q]>>
<1>1. Typed /\ Underway' = <<>> /\ <<>> \in Seq(Args)
  BY Unit DEF StageInv, Underway
<1>2. x \in Seq(Args)
  BY DEF Follows
<1>3. x \o <<>> = x
  BY <1>2, Unit
<1>4. SourcesLinked(llist)' = SourcesLinked(llist) \o x
  <2>1. SourcesIn(Input(line[q])) = x
    BY InputsDiffer DEF SourcesIn
  <2>2. SourcesLinked(llist)' = SourcesLinked(llist) \o SourcesIn(Input(line[q]))
    BY LinkedMore
  <2> QED
    BY <2>1, <2>2, Zenon
<1>5. \A a : Has(Input(a))' <=> Has(Input(a)) \/ a = line[q]
  <2>1. \A n : Has(n)' <=> Has(n) \/ n = Input(line[q])
    BY HasMore
  <2> QED
    BY <2>1, InputsDiffer
<1>6. x \o Underway' = IF q \in Wants THEN <<line[q]>> ELSE <<>>
  BY <1>1, <1>3
<1>7. Underway' \in Seq(Args)
  BY <1>1
<1> HIDE DEF x
<1> QED
  BY <1>1, <1>2, <1>4, <1>5, <1>6, <1>7, ArgTaken

(* A file that is wanted and is to be compiled.                            *)
LEMMA SourceTaken ==
  ASSUME StageInv, at = "file", NEW p \in 0 .. Len(line), Taken(p),
         NEW q, Follows(p, q), q \in Wants, line[q].kind # "lcc",
         at' # "file", args' = Tail(args), line' = line, fs' = fs, llist' = llist,
         cur'.src = <<line[q]>>
  PROVE  Taken(q)' /\ q \in 0 .. Len(line')
<1> DEFINE y == <<line[q]>>
<1>1. Typed /\ <<>> \in Seq(Args) /\ Underway' = y
  BY Unit DEF StageInv, Underway
<1>2. y \in Seq(Args)
  BY DEF Follows
<1>3. <<>> \o y = y /\ SourcesLinked(llist) \o <<>> = SourcesLinked(llist)
  BY <1>2, Unit DEF Taken
<1>4. SourcesLinked(llist)' = SourcesLinked(llist) \o <<>>
  BY <1>3, LinkedSame
<1>5. \A a : Has(a)' <=> Has(a)
  BY DEF Has
<1>6. <<>> \o Underway' = IF q \in Wants THEN <<line[q]>> ELSE <<>>
  BY <1>1, <1>3
<1>7. Underway' \in Seq(Args)
  BY <1>1, <1>2
<1> HIDE DEF y
<1>8. \A a \in Args : a.kind = "lcc" => (Has(Input(a))' <=> Has(Input(a)) \/ a = line[q])
  BY <1>5
<1> QED
  BY <1>1, <1>4, <1>6, <1>7, <1>8, ArgTaken

(* What is being compiled moves to the linker's list, or stays.            *)
LEMMA TakenAgain ==
  ASSUME Typed, NEW p \in 0 .. Len(line), Taken(p), args' = args, line' = line,
         NEW x \in Seq(Args), SourcesLinked(llist)' = SourcesLinked(llist) \o x,
         Underway' \in Seq(Args), x \o Underway' = Underway,
         \A a : Has(Input(a))' <=> Has(Input(a))
  PROVE  Taken(p)' /\ p \in 0 .. Len(line')
<1> DEFINE y == Underway'
           r == Only(Wants \ (1 .. p))
           l == SourcesLinked(llist)
<1>1. /\ Args' = Args /\ Wanted' = Wanted
      /\ Only(Wants \ (1 .. p))' = r /\ Only(Seen \ (1 .. p))' = Only(Seen \ (1 .. p))
  BY DEF Seen, Wants, Args, Positions, Only, Wanted
<1>2. r \in Seq(Args) /\ l \in Seq(Args) /\ y \in Seq(Args)
  BY OnlySeq DEF Taken
<1>3. Cat(l, Cat(Cat(x, y), r)) = Wanted
  BY DEF Taken, Cat
<1> HIDE DEF y, r, l
<1>4. Cat(Cat(l, x), Cat(y, r)) = Cat(l, Cat(Cat(x, y), r))
  BY <1>2, Regroup
<1>5. Cat(Cat(l, x), Cat(y, r)) = Wanted
  BY <1>3, <1>4
<1>6. SourcesLinked(llist)' \o (Underway' \o Only(Wants \ (1 .. p))') = Wanted'
  BY <1>1, <1>5 DEF y, r, l, Cat
<1>7. SourcesLinked(llist)' \in Seq(Args')
  BY <1>1, <1>2 DEF l
<1>8. args' = Only(Seen \ (1 .. p))'
  BY <1>1 DEF Taken
<1>9. \A a \in Args' : a.kind = "lcc" =>
        ((\E i \in DOMAIN llist' : llist'[i] = Input(a)) <=> \E j \in 1 .. p : line'[j] = a)
  BY <1>1 DEF Taken, Has
<1> QED
  BY <1>6, <1>7, <1>8, <1>9 DEF Taken

(* A single argument is a sequence of arguments.                           *)
LEMMA OneArg ==
  ASSUME NEW y \in {<<a>> : a \in Args}
  PROVE  y \in Seq(Args) /\ y \o <<>> = y /\ <<>> \o y = y
<1>1. PICK a \in Args : y = <<a>>
  OBVIOUS
<1>2. y \in Seq(Args)
  BY <1>1
<1> QED
  BY <1>2, Unit

(* The driver's steps keep the invariant of compiling.                     *)
LEMMA MainCompiling ==
  ASSUME StageInv, TempInv, NamesInv, Steady => Compiling, Main, Steady'
  PROVE  Compiling'
<1>0. /\ Typed /\ FlagType /\ ChildType /\ IsSeq(llist) /\ Waits /\ Pasteable
      /\ Numbered /\ Fresh /\ Written
      /\ \A n \in rmlist : Head(n) = "temp"
  BY DEF StageInv, Typed, TempInv, NamesInv, Listed
<1>1. CASE Options
  <2>1. at' = "file" => Taken(0)' /\ 0 \in 0 .. Len(line')
    BY <1>1, OptionsTaken
  <2>2. at' \in {"file", "exit"}
    BY <1>1 DEF Options
  <2> QED
    BY <2>1, <2>2 DEF Compiling
<1>2. ASSUME ~ Options
      PROVE  /\ flag' = flag /\ line' = line /\ errcnt = 0 /\ errcnt' = 0
             /\ flag.c = 0 /\ flag.E = 0 /\ flag.v < 2 /\ ~ (flag.v >= 2)
             /\ Compiling
  BY <1>0, <1>2, SteadyBack DEF Steady, FlagType
<1>3. ASSUME at = "file", args # <<>>, ~ Options
      PROVE  /\ \E p \in 0 .. Len(line) : \E q : Taken(p) /\ Follows(p, q)
             /\ Head(args) \in Args
  <2>1. PICK p \in 0 .. Len(line) : Taken(p)
    BY <1>2, <1>3 DEF Compiling
  <2>2. PICK q : Follows(p, q)
    BY <1>0, <1>3, <2>1, NextArg DEF Taken
  <2> QED
    BY <2>1, <2>2 DEF Follows
<1>4. CASE LibraryArg \/ ObjectArg \/ OtherArg
  <2>1. ~ Options /\ at = "file" /\ args # <<>>
    BY <1>4 DEF Options, LibraryArg, ObjectArg, OtherArg
  <2>2. PICK p \in 0 .. Len(line) : \E q : Taken(p) /\ Follows(p, q)
    BY <1>3, <2>1
  <2>20. PICK q : Follows(p, q)
    BY <2>2
  <2>3. /\ at' = "file" /\ args' = Tail(args) /\ UNCHANGED <<line, fs>>
    BY <1>2, <1>4, <2>1 DEF LibraryArg, ObjectArg, OtherArg, SkipArg
  <2>4. Head(args) = line[q] /\ q \in Seen
    BY <2>2, <2>20 DEF Follows
  <2>5. Taken(q)' /\ q \in 0 .. Len(line')
    <3>1. CASE LibraryArg
      <4>1. line[q].kind \in {"-l", "-lib"} /\ llist' \in {llist, Append(llist, <<"-l">>)}
        BY <2>4, <3>1 DEF LibraryArg
      <4>2. q \notin Wants
        BY <2>4, <4>1, Positioned
      <4> QED
        BY <1>0, <2>1, <2>2, <2>20, <2>3, <4>1, <4>2, NothingTaken
    <3>2. CASE ObjectArg
      <4>1. line[q].kind = "lcc"
        BY <2>4, <3>2 DEF ObjectArg
      <4>2. q \in Wants <=> ~ Has(Input(line[q]))
        BY <1>0, <2>2, <2>20, <4>1, FirstOfName
      <4>3. DOMAIN llist = 1 .. Len(llist)
        BY <1>0 DEF IsSeq
      <4>4. llist' = IF Has(Input(line[q])) THEN llist ELSE Append(llist, Input(line[q]))
        BY <2>4, <3>2, <4>3 DEF ObjectArg, Contains, Has
      <4>5. CASE Has(Input(line[q]))
        BY <1>0, <2>1, <2>2, <2>20, <2>3, <4>2, <4>4, <4>5, NothingTaken
      <4>6. CASE ~ Has(Input(line[q]))
        BY <1>0, <2>1, <2>2, <2>20, <2>3, <4>2, <4>4, <4>6, FileTaken
      <4> QED
        BY <4>5, <4>6
    <3>3. CASE OtherArg
      <4>1. line[q].kind = "other" /\ llist' = Append(llist, Input(line[q]))
        BY <2>4, <3>3 DEF OtherArg
      <4>2. q \in Wants
        BY <2>4, <4>1, Positioned
      <4> QED
        BY <1>0, <2>1, <2>2, <2>20, <2>3, <4>1, <4>2, FileTaken
    <3> QED
      BY <1>4, <3>1, <3>2, <3>3
  <2> QED
    BY <2>3, <2>5 DEF Compiling
<1>5. CASE MissingArg
  <2>1. ~ Options /\ errcnt' = errcnt + 1
    BY <1>5 DEF Options, MissingArg
  <2> QED
    BY <1>2, <2>1
<1>6. CASE SourceArg \/ PreprocessedArg
  <2>1. ~ Options /\ at = "file" /\ args # <<>>
    BY <1>6 DEF Options, SourceArg, PreprocessedArg
  <2>2. PICK p \in 0 .. Len(line) : \E q : Taken(p) /\ Follows(p, q)
    BY <1>3, <2>1
  <2>20. PICK q : Follows(p, q)
    BY <2>2
  <2>3. Head(args) = line[q] /\ q \in Seen /\ line[q] \in Args
    BY <2>2, <2>20 DEF Follows
  <2>4. ~ (flag.E > 0) /\ Args' = Args
    BY <1>2, <2>1 DEF Args
  <2>5. /\ line[q].kind \in {"c", "i"} /\ args' = Tail(args)
        /\ at' \in {"cpp", "compile"} /\ cur'.src = <<line[q]>>
        /\ UNCHANGED <<line, fs, llist>>
    BY <1>2, <1>6, <2>1, <2>3, <2>4 DEF SourceArg, PreprocessedArg
  <2>6. q \in Wants /\ line[q].kind # "lcc"
    BY <2>3, <2>5, Positioned
  <2>7. Taken(q)' /\ q \in 0 .. Len(line')
    BY <2>1, <2>2, <2>20, <2>5, <2>6, SourceTaken
  <2>8. cur'.src \in {<<a>> : a \in Args'}
    BY <2>3, <2>4, <2>5
  <2>9. CASE SourceArg
    <3> DEFINE t == IF itemp = NoName THEN FreshTemp ELSE itemp
    <3>1. /\ Spawn("cpp", t, <<Head(args)>>) /\ at' = "cpp"
          /\ itemp' = t /\ cur' = [name |-> t, src |-> <<Head(args)>>]
      BY <2>4, <2>9 DEF SourceArg
    <3>2. t # NoName
      BY NameKinds
    <3> HIDE DEF t
    <3>3. /\ child'.prog = "cpp" /\ child'.out = t /\ child'.what = <<Head(args)>>
          /\ child'.state # "ok"
      BY <1>2, <2>1, <3>1 DEF Spawn
    <3>4. cur'.name = t /\ cur'.src = <<Head(args)>>
      BY <3>1
    <3> QED
      BY <2>7, <2>8, <3>1, <3>2, <3>3, <3>4 DEF Compiling
  <2>10. CASE PreprocessedArg
    <3>1. /\ cur' = [name |-> Input(Head(args)), src |-> <<Head(args)>>]
          /\ at' = "compile" /\ fs' = fs
      BY <2>4, <2>10 DEF PreprocessedArg
    <3>2. cur'.name \notin DOMAIN fs'
      BY <1>0, <3>1, InputsDiffer DEF Written
    <3> QED
      BY <2>7, <2>8, <3>1, <3>2 DEF Compiling
  <2> QED
    BY <1>6, <2>9, <2>10
<1>7. CASE PreprocessDone
  <2>1. ~ Options /\ Compiling /\ flag.E = 0
    BY <1>2, <1>7 DEF Options, PreprocessDone
  <2>2. /\ at = "cpp" /\ child.state = "ok" /\ at' = "compile"
        /\ UNCHANGED <<line, args, cur, llist, fs>>
    BY <1>0, <1>2, <1>7, <2>1 DEF PreprocessDone, Pasteable
  <2>3. PICK p \in 0 .. Len(line) : Taken(p)
    BY <2>1, <2>2 DEF Compiling
  <2>4. cur.src \in {<<a>> : a \in Args} /\ Holds(cur.name, cur.src)
    BY <2>1, <2>2 DEF Compiling
  <2>5. Underway' = cur.src /\ Underway = cur.src
    BY <2>2 DEF Underway
  <2>6. Underway' \in Seq(Args) /\ <<>> \o Underway' = Underway
    BY <2>4, <2>5, OneArg
  <2>7. SourcesLinked(llist)' = SourcesLinked(llist) \o <<>> /\ <<>> \in Seq(Args)
    BY <2>2, <2>3, LinkedSame, Unit DEF Taken
  <2>8. \A a : Has(Input(a))' <=> Has(Input(a))
    BY <2>2 DEF Has
  <2>9. Taken(p)' /\ p \in 0 .. Len(line')
    BY <1>0, <2>2, <2>3, <2>6, <2>7, <2>8, TakenAgain
  <2>10. Args' = Args
    BY <2>2 DEF Args
  <2> QED
    BY <2>2, <2>4, <2>9, <2>10 DEF Compiling, Holds
<1>8. CASE Compile
  <2>1. ~ Options /\ Compiling /\ flag.c = 0
    BY <1>2, <1>8 DEF Options, Compile
  <2> DEFINE t    == IF flag.c = 0 THEN FreshTemp
                     ELSE IF flag.out THEN OutFile ELSE Object(Head(cur.src).name)
             from == IF cur.name \in DOMAIN fs THEN fs[cur.name].src ELSE cur.src
  <2>2. /\ at = "compile" /\ at' = "rcc" /\ Spawn("rcc", t, from)
        /\ cur' = [cur EXCEPT !.name = t]
        /\ UNCHANGED <<line, args, llist, fs>>
    BY <1>8 DEF Compile
  <2>3. PICK p \in 0 .. Len(line) : Taken(p)
    BY <2>1, <2>2 DEF Compiling
  <2>4. cur.src \in {<<a>> : a \in Args} /\ from = cur.src
    BY <2>1, <2>2 DEF Compiling, Holds
  <2> HIDE DEF t, from
  <2>5. cur'.name = t /\ cur'.src = cur.src
    BY <2>2
  <2>6. Underway' = cur.src /\ Underway = cur.src
    BY <2>2, <2>5 DEF Underway
  <2>7. Underway' \in Seq(Args) /\ <<>> \o Underway' = Underway
    BY <2>4, <2>6, OneArg
  <2>8. SourcesLinked(llist)' = SourcesLinked(llist) \o <<>> /\ <<>> \in Seq(Args)
    BY <2>2, <2>3, LinkedSame, Unit DEF Taken
  <2>9. \A a : Has(Input(a))' <=> Has(Input(a))
    BY <2>2 DEF Has
  <2>10. Taken(p)' /\ p \in 0 .. Len(line')
    BY <1>0, <2>2, <2>3, <2>7, <2>8, <2>9, TakenAgain
  <2>11. Args' = Args
    BY <2>2 DEF Args
  <2>12. /\ child'.prog = "rcc" /\ child'.out = t /\ child'.what = cur.src
         /\ child'.state # "ok"
    BY <1>2, <2>1, <2>2, <2>4 DEF Spawn
  <2> QED
    BY <2>2, <2>4, <2>5, <2>10, <2>11, <2>12 DEF Compiling
<1>9. CASE CompileDone
  <2>1. ~ Options /\ Compiling /\ flag.c = 0 /\ errcnt' = errcnt /\ errcnt = 0
    BY <1>2, <1>9 DEF Options, CompileDone
  <2>2. /\ at = "rcc" /\ at' = "file" /\ child.state = "ok"
        /\ UNCHANGED <<line, args, cur, fs>>
    BY <2>1, <1>9 DEF CompileDone
  <2>3. PICK p \in 0 .. Len(line) : Taken(p)
    BY <2>1, <2>2 DEF Compiling
  <2>4. cur.src \in {<<a>> : a \in Args} /\ Holds(cur.name, cur.src)
    BY <2>1, <2>2 DEF Compiling
  <2>5. Absent(cur.name) /\ Head(cur.name) = "temp"
    BY <1>0, <2>1, <2>2 DEF Fresh
  <2>6. llist' = Append(llist, cur.name)
    <3>1. DOMAIN llist = 1 .. Len(llist)
      BY <1>0 DEF IsSeq
    <3> QED
      BY <1>9, <2>1, <2>2, <2>5, <3>1 DEF CompileDone, Contains, Absent
  <2>7. SourcesIn(cur.name) = cur.src
    BY <2>4, <2>5 DEF SourcesIn, SourcesOf, Holds
  <2>8. SourcesLinked(llist)' = SourcesLinked(llist) \o cur.src
    <3>1. SourcesLinked(llist)' = SourcesLinked(llist) \o SourcesIn(cur.name)
      BY <1>0, <2>2, <2>6, LinkedMore
    <3> QED
      BY <2>7, <3>1, Zenon
  <2>9. Underway' = <<>> /\ Underway = cur.src
    BY <2>2 DEF Underway
  <2>10. /\ cur.src \in Seq(Args) /\ Underway' \in Seq(Args)
         /\ cur.src \o Underway' = Underway
    <3>1. cur.src \in Seq(Args) /\ cur.src \o <<>> = cur.src
      BY <2>4, OneArg
    <3>2. <<>> \in Seq(Args)
      OBVIOUS
    <3> QED
      BY <2>9, <3>1, <3>2
  <2>11. \A a : Has(Input(a))' <=> Has(Input(a))
    <3>1. \A n : Has(n)' <=> Has(n) \/ n = cur.name
      BY <1>0, <2>6, HasMore
    <3>2. \A a : Input(a) # cur.name
      BY <2>5, InputsDiffer
    <3> QED
      BY <3>1, <3>2
  <2>12. Taken(p)' /\ p \in 0 .. Len(line')
    BY <1>0, <2>2, <2>3, <2>8, <2>10, <2>11, TakenAgain
  <2> QED
    BY <2>2, <2>12 DEF Compiling
<1>10. CASE Link \/ LinkDone \/ Paste \/ PasteDone \/ Assemble \/ AssembleDone \/ Finish
  <2>1. at' \in {"link", "linked", "exit", "paste", "pasted", "as", "rm"}
    BY <1>10 DEF Link, LinkDone, StageDone, Paste, PasteDone, Assemble, AssembleDone, Finish
  <2> QED
    BY <2>1 DEF Compiling
<1> QED
  BY <1>1, <1>4, <1>5, <1>6, <1>7, <1>8, <1>9, <1>10 DEF Main

(* A child that writes to none of the files on the linker's list leaves    *)
(* their sources alone.                                                    *)
LEMMA ListLeftAlone ==
  ASSUME StageInv, ChildOpens \/ ChildEnds, Absent(child.out)
  PROVE  SourcesLinked(llist)' = SourcesLinked(llist)
<1>1. /\ llist' = llist
      /\ \A n \in DOMAIN fs : n # child.out => n \in DOMAIN fs' /\ fs'[n] = fs[n]
      /\ DOMAIN fs' \subseteq DOMAIN fs \cup ({child.out} \ {NoName})
  BY ChildEffect
<1>2. \A n : n # child.out => SourcesIn(n)' = SourcesIn(n)
  BY <1>1 DEF SourcesIn, SourcesOf
<1>3. \A i \in DOMAIN llist : SourcesIn(llist[i])' = SourcesIn(llist[i])
  <2> SUFFICES ASSUME NEW i \in DOMAIN llist
               PROVE  SourcesIn(llist[i])' = SourcesIn(llist[i])
    OBVIOUS
  <2>1. PICK n : n = llist[i]
    OBVIOUS
  <2>2. n # child.out
    BY <2>1 DEF Absent
  <2>3. SourcesIn(n)' = SourcesIn(n)
    BY <1>2, <2>2
  <2> QED
    BY <1>1, <2>1, <2>3 DEF SourcesIn, SourcesOf
<1> QED
  BY <1>1, <1>3 DEF SourcesLinked, SourcesIn, SourcesOf

(* Nor does a child that only opens its output or ends change what has     *)
(* been taken.                                                             *)
LEMMA ChildCompiling ==
  ASSUME StageInv, TempInv, NamesInv, Steady => Compiling, ChildOpens \/ ChildEnds,
         Steady'
  PROVE  Compiling'
<1>0. /\ Typed /\ IsSeq(llist) /\ Waits /\ Fresh
  BY DEF StageInv, TempInv, NamesInv
<1>1. /\ Alive /\ child'.prog = child.prog /\ child'.out = child.out
      /\ child'.what = child.what
      /\ UNCHANGED <<line, at, args, flag, cur, llist, errcnt, itemp>>
  BY ChildEffect
<1>2. Steady /\ Compiling /\ flag.c = 0
  BY <1>1 DEF Steady
<1>3. at \notin {"file", "compile"}
  BY <1>0, <1>1 DEF Waits, Between
<1>4. ASSUME at \in {"cpp", "rcc"}
      PROVE  /\ \E p \in 0 .. Len(line') : Taken(p)'
             /\ cur'.src \in {<<a>> : a \in Args'}
             /\ child'.state = "ok" => Holds(cur.name, cur.src)'
  <2>1. PICK p \in 0 .. Len(line) : Taken(p)
    BY <1>2, <1>4 DEF Compiling
  <2>2. cur.src \in {<<a>> : a \in Args} /\ child.out = cur.name /\ child.what = cur.src
    BY <1>2, <1>4 DEF Compiling
  <2>3. Absent(child.out) /\ child.out # NoName
    BY <1>0, <1>2, <1>4, <2>2 DEF Fresh, Compiling, TempInv, Kept
  <2>4. Underway' = cur.src /\ Underway = cur.src
    BY <1>1, <1>4 DEF Underway
  <2>5. Underway' \in Seq(Args) /\ <<>> \o Underway' = Underway
    BY <2>2, <2>4, OneArg
  <2>6. SourcesLinked(llist)' = SourcesLinked(llist)
    BY <2>3, ListLeftAlone
  <2>7. SourcesLinked(llist)' = SourcesLinked(llist) \o <<>> /\ <<>> \in Seq(Args)
    BY <2>1, <2>6, Unit DEF Taken
  <2>8. \A a : Has(Input(a))' <=> Has(Input(a))
    BY <1>1 DEF Has
  <2>9. Taken(p)' /\ p \in 0 .. Len(line')
    BY <1>0, <1>1, <2>1, <2>5, <2>7, <2>8, TakenAgain
  <2>10. cur'.src \in {<<a>> : a \in Args'}
    BY <1>1, <2>2 DEF Args
  <2>11. child'.state = "ok" => child.out \in DOMAIN fs' /\ fs'[child.out].src = child.what
    BY <1>4, <2>3, ChildMakes
  <2>12. child'.state = "ok" => Holds(cur.name, cur.src)'
    BY <1>1, <2>2, <2>11 DEF Holds
  <2> QED
    BY <2>9, <2>10, <2>12
<1> QED
  BY <1>1, <1>2, <1>3, <1>4 DEF Compiling

(* All steps keep the invariant of compiling.                              *)
LEMMA NextCompiling ==
  ASSUME StageInv, TempInv, NamesInv, Steady => Compiling, [Next]_vars, Steady'
  PROVE  Compiling'
<1>1. CASE Main
  BY <1>1, MainCompiling
<1>2. CASE ChildOpens \/ ChildEnds
  BY <1>2, ChildCompiling
<1>3. CASE interrupt
  <2>1. at' = "exit"
    BY <1>3 DEF interrupt
  <2> QED
    BY <2>1 DEF Compiling
<1>4. CASE UNCHANGED vars
  <2>1. UNCHANGED <<line, at, args, flag, cur, llist, errcnt, itemp, child, fs>>
    BY <1>4 DEF vars
  <2>2. Steady /\ Compiling
    BY <2>1, SMTT(30) DEF Steady
  <2>3. ASSUME NEW p, Taken(p) PROVE Taken(p)'
    BY <2>1, <2>3, ZenonT(40) DEF Taken, Only, Seen, Wants, Positions, Args, SourcesLinked,
       SourcesIn, SourcesOf, Underway, Wanted
  <2>4. at \in {"file", "cpp", "compile", "rcc"} => \E p \in 0 .. Len(line') : Taken(p)'
    BY <2>1, <2>2, <2>3 DEF Compiling
  <2> QED
    BY <2>1, <2>2, <2>4 DEF Compiling, Holds, Args
<1> QED
  BY <1>1, <1>2, <1>3, <1>4 DEF Next

(* When the arguments are used up, what is on the list is what is wanted.  *)
LEMMA AllTaken ==
  ASSUME StageInv, at = "file", args = <<>>, NEW p \in 0 .. Len(line), Taken(p)
  PROVE  SourcesLinked(llist) = Wanted
<1>1. Typed
  BY DEF StageInv
<1>2. Only(Wants \ (1 .. p)) = <<>>
  BY <1>1, NoArg DEF Taken
<1>3. SourcesLinked(llist) \in Seq(Args) /\ Underway = <<>>
  BY DEF Taken, Underway
<1>4. SourcesLinked(llist) \o (<<>> \o <<>>) = Wanted
  BY <1>2, <1>3 DEF Taken
<1>5. <<>> \o <<>> = <<>>
  OBVIOUS
<1>6. SourcesLinked(llist) \o <<>> = SourcesLinked(llist)
  BY <1>3, Unit
<1> QED
  BY <1>4, <1>5, <1>6, Zenon

(* A step of the driver keeps the invariant of linking.                    *)
LEMMA MainLinking ==
  ASSUME StageInv, TempInv, NamesInv, Steady => Compiling /\ Linking, Main, Steady'
  PROVE  Linking'
<1>0. /\ Typed /\ FlagType /\ ChildType /\ Kept /\ Waits
  BY DEF StageInv, Typed, TempInv
<1>1. CASE Options \/ LibraryArg \/ MissingArg \/ ObjectArg \/ OtherArg \/ SourceArg
           \/ PreprocessedArg \/ PreprocessDone \/ Compile \/ CompileDone \/ Finish
  <2>1. at' \in {"file", "stdout", "cpp", "compile", "rcc", "exit"}
    BY <1>1 DEF Options, LibraryArg, MissingArg, ObjectArg, OtherArg, SourceArg,
       PreprocessedArg, PreprocessDone, Compile, CompileDone, Finish, SkipArg
  <2> QED
    BY <2>1 DEF Linking
<1>2. ASSUME Link \/ LinkDone \/ Paste \/ PasteDone \/ Assemble \/ AssembleDone
      PROVE  Linking'
  <2>1. ~ Options /\ llist' = llist
    BY <1>2 DEF Options, Link, LinkDone, StageDone, Paste, PasteDone, Assemble,
       AssembleDone
  <2>2. /\ flag' = flag /\ line' = line /\ errcnt = 0 /\ errcnt' = 0
        /\ flag.c = 0 /\ flag.E = 0 /\ ~ (flag.v >= 2)
        /\ Compiling /\ Linking
    BY <1>0, <2>1, SteadyBack DEF Steady, FlagType
  <2>3. Wanted' = Wanted
    BY <2>2 DEF Wanted, Only, Positions
  <2>4. SUFFICES ASSUME llist # <<>> PROVE Linking'
    BY <2>1 DEF Linking
  <2>5. CASE Link
    <3>1. /\ at = "file" /\ args = <<>> /\ at' = "link" /\ spfile' = LdOut
          /\ Spawn("lc3pp", LdOut, SourcesLinked(llist))
      BY <2>2, <2>4, <2>5 DEF Link
    <3>2. SourcesLinked(llist) = Wanted
      BY <2>2, <3>1, AllTaken DEF Compiling
    <3>3. /\ child'.prog = "lc3pp" /\ child'.out = LdOut /\ child'.what = Wanted
          /\ child'.state = "running"
      BY <2>2, <3>1, <3>2 DEF Spawn
    <3>4. LdOut' = LdOut
      BY DEF LdOut
    <3> QED
      BY <2>3, <3>1, <3>3, <3>4 DEF Linking
  <2>6. CASE LinkDone
    <3>1. /\ at = "link" /\ at' = "linked" /\ child.state = "ok" /\ UNCHANGED <<spfile, fs>>
      BY <2>2, <2>6 DEF LinkDone, StageDone
    <3>2. Whole(LdOut) /\ spfile = LdOut
      BY <2>2, <2>4, <3>1 DEF Linking
    <3> QED
      BY <2>3, <3>1, <3>2 DEF Linking, Whole, Holds, LdOut
  <2>7. CASE Paste
    <3>1. at = "linked" /\ spfile = LdOut /\ Whole(LdOut) /\ UNCHANGED <<spfile, fs>>
      BY <2>2, <2>4, <2>7 DEF Linking, Paste
    <3>2. Whole(LdOut)' /\ spfile' = LdOut
      BY <2>3, <3>1 DEF Whole, Holds, LdOut
    <3>3. CASE flag.g > 0
      <4>1. LdOut # NoName
        BY NameKinds
      <4>2. /\ Spawn("SourcePaste", FreshTemp, SourcesOf(LdOut)) /\ at' = "paste"
            /\ cur' = [cur EXCEPT !.name = FreshTemp]
        BY <2>2, <2>7, <3>1, <3>3, <4>1 DEF Paste
      <4>3. SourcesOf(LdOut) = Wanted
        BY <3>1 DEF SourcesOf, Whole, Holds
      <4>4. Head(FreshTemp) = "temp" /\ FreshTemp # NoName
        BY NameKinds
      <4>5. PICK t : t = FreshTemp
        OBVIOUS
      <4>6. /\ child'.prog = "SourcePaste" /\ child'.out = t /\ child'.what = Wanted
            /\ child'.state = "running"
        BY <2>2, <4>2, <4>3, <4>5 DEF Spawn
      <4>7. cur'.name = t
        BY <4>2, <4>5
      <4> QED
        BY <2>3, <3>2, <4>2, <4>4, <4>5, <4>6, <4>7 DEF Linking
    <3>4. CASE ~ (flag.g > 0)
      <4>1. at' = "pasted" /\ ~ (flag'.g > 0)
        BY <2>2, <2>7, <3>4 DEF Paste
      <4> QED
        BY <3>2, <4>1 DEF Linking
    <3> QED
      BY <3>3, <3>4
  <2>8. CASE PasteDone
    <3>1. /\ at = "paste" /\ at' = "pasted" /\ spfile = LdOut
          /\ Head(cur.name) = "temp"
          /\ child.state = "ok" => Whole(cur.name) /\ fs[cur.name].pasted
      BY <2>2, <2>4, <2>8 DEF Linking, PasteDone
    <3>2. /\ child.state = "ok" /\ cur.name \in DOMAIN fs
          /\ fs' = [n \in (DOMAIN fs \ {spfile, cur.name}) \cup {spfile} |->
                      IF n = spfile THEN fs[cur.name] ELSE fs[n]]
      BY <2>2, <2>8 DEF PasteDone
    <3>3. LdOut \in DOMAIN fs' /\ fs'[LdOut] = fs[cur.name]
      BY <3>1, <3>2
    <3>4. Whole(LdOut)' /\ fs'[LdOut].pasted
      BY <2>3, <3>1, <3>2, <3>3 DEF Whole, Holds, LdOut
    <3> QED
      BY <3>1, <3>4 DEF Linking, LdOut
  <2>9. CASE Assemble
    <3>1. /\ at = "pasted" /\ Whole(LdOut) /\ (flag.g > 0 => fs[LdOut].pasted)
          /\ UNCHANGED <<spfile, fs>>
      BY <2>2, <2>4, <2>9 DEF Linking, Assemble
    <3>2. Whole(LdOut)' /\ (flag'.g > 0 => fs'[LdOut].pasted)
      BY <2>2, <2>3, <3>1 DEF Whole, Holds, LdOut
    <3>3. flag'.L \in Nat
      BY <1>0, <2>2 DEF FlagType
    <3>4. CASE flag.L = 0
      <4>1. Spawn("lc3as", Obj, SourcesOf(LdOut)) /\ at' = "as"
        BY <2>2, <2>9, <3>4 DEF Assemble
      <4>2. SourcesOf(LdOut) = Wanted
        BY <3>1 DEF SourcesOf, Whole, Holds
      <4>3. /\ child'.prog = "lc3as" /\ child'.out = Obj /\ child'.what = Wanted
            /\ child'.state = "running"
        BY <2>2, <4>1, <4>2 DEF Spawn
      <4> QED
        BY <2>3, <3>2, <3>3, <4>1, <4>3 DEF Linking, Obj, LdOut
    <3>5. CASE flag.L # 0
      <4>1. at' = "rm" /\ flag'.L # 0
        BY <2>2, <2>9, <3>5 DEF Assemble
      <4> QED
        BY <3>2, <3>3, <4>1 DEF Linking, LdOut
    <3> QED
      BY <3>4, <3>5
  <2>10. CASE AssembleDone
    <3>1. /\ at = "as" /\ at' = "rm" /\ child.state = "ok" /\ UNCHANGED <<spfile, fs>>
      BY <2>2, <2>10 DEF AssembleDone, StageDone
    <3>2. Whole(LdOut) /\ Whole(Obj) /\ (flag.g > 0 => fs[LdOut].pasted) /\ flag.L \in Nat
      BY <2>2, <2>4, <3>1 DEF Linking
    <3>3. Whole(LdOut)' /\ Whole(Obj)' /\ (flag'.g > 0 => fs'[LdOut].pasted) /\ flag'.L \in Nat
      BY <2>2, <2>3, <3>1, <3>2 DEF Whole, Holds, LdOut, Obj
    <3> QED
      BY <3>1, <3>3 DEF Linking, Obj, LdOut
  <2> QED
    BY <1>2, <2>5, <2>6, <2>7, <2>8, <2>9, <2>10
<1> QED
  BY <1>1, <1>2 DEF Main

(* A child keeps the invariant of linking: it writes only its output, and  *)
(* that it has made well when it ends well.                                *)
LEMMA ChildLinking ==
  ASSUME StageInv, TempInv, NamesInv, Steady => Compiling /\ Linking,
         ChildOpens \/ ChildEnds, Steady'
  PROVE  Linking'
<1>0. /\ Typed /\ Waits /\ Kept /\ Order
  BY DEF StageInv, TempInv
<1>1. /\ Alive /\ child'.prog = child.prog /\ child'.out = child.out
      /\ child'.what = child.what
      /\ UNCHANGED <<line, at, flag, cur, llist, errcnt, spfile>>
      /\ \A n \in DOMAIN fs : n # child.out => n \in DOMAIN fs' /\ fs'[n] = fs[n]
  BY ChildEffect
<1>2. Steady /\ Linking
  BY <1>1 DEF Steady
<1>3. Wanted' = Wanted
  BY <1>1 DEF Wanted, Only, Positions
<1>4. SUFFICES ASSUME llist # <<>> PROVE Linking'
  BY <1>1 DEF Linking
<1>13. /\ child'.prog = child.prog /\ child'.out = child.out /\ child'.what = child.what
       /\ UNCHANGED <<at, flag, cur, llist, spfile>>
  BY <1>1
<1>5. at \notin {"linked", "pasted", "rm"}
  BY <1>0, <1>1 DEF Waits, Between
<1>6. ASSUME at # "exit", child'.state = "ok", child.out # NoName, child.what = Wanted
      PROVE  /\ child.out \in DOMAIN fs'
             /\ fs'[child.out].src = Wanted' /\ fs'[child.out].whole
             /\ child.prog = "SourcePaste" => fs'[child.out].pasted
  <2>1. /\ child.out \in DOMAIN fs' /\ fs'[child.out].src = child.what
        /\ fs'[child.out].whole
        /\ fs'[child.out].pasted <=> child.prog = "SourcePaste"
    BY <1>6, ChildMakes
  <2> QED
    BY <1>3, <1>6, <2>1
<1>7. ASSUME NEW n, Whole(n), n # child.out
      PROVE  n \in DOMAIN fs' /\ fs'[n] = fs[n] /\ fs'[n].src = Wanted' /\ fs'[n].whole
  BY <1>1, <1>3, <1>7 DEF Whole, Holds
<1>8. LdOut # NoName /\ Obj # NoName /\ LdOut # Obj /\ Head(LdOut) # "temp"
  BY NameKinds DEF LdOut, Obj
<1>9. CASE at = "link"
  <2>1. /\ child.prog = "lc3pp" /\ child.out = LdOut /\ child.what = Wanted
        /\ spfile = LdOut
    BY <1>2, <1>4, <1>9 DEF Linking
  <2>2. child'.state = "ok" => Whole(LdOut)'
    BY <1>6, <1>8, <1>9, <1>13, <2>1 DEF LdOut, Whole, Holds
  <2>3. /\ child'.prog = "lc3pp" /\ child'.out = LdOut /\ child'.what = Wanted'
        /\ spfile' = LdOut /\ at' = "link"
    BY <1>3, <1>9, <1>13, <2>1
  <2> QED
    BY <2>2, <2>3 DEF Linking, Whole, Holds, LdOut
<1>10. CASE at = "paste"
  <2>1. /\ child.prog = "SourcePaste" /\ child.out = cur.name /\ child.what = Wanted
        /\ spfile = LdOut /\ Head(cur.name) = "temp" /\ cur.name # NoName
        /\ Whole(LdOut)
    BY <1>2, <1>4, <1>10 DEF Linking
  <2>2. Whole(LdOut)'
    BY <1>7, <1>8, <2>1 DEF Whole, Holds, LdOut
  <2>3. child.out # NoName
    BY <2>1
  <2>4. child'.state = "ok" => Whole(cur.name)' /\ fs'[cur'.name].pasted
    BY <1>6, <1>10, <1>13, <2>1, <2>3 DEF Whole, Holds
  <2>5. /\ child'.prog = "SourcePaste" /\ child'.out = cur'.name
        /\ child'.what = Wanted' /\ Head(cur'.name) = "temp" /\ cur'.name # NoName
        /\ spfile' = LdOut /\ at' = "paste"
    BY <1>3, <1>10, <1>13, <2>1
  <2> QED
    BY <2>2, <2>4, <2>5 DEF Linking, Whole, Holds, LdOut
<1>11. CASE at = "as"
  <2>1. /\ child.prog = "lc3as" /\ child.out = Obj /\ child.what = Wanted
        /\ Whole(LdOut) /\ (flag.g > 0 => fs[LdOut].pasted) /\ flag.L \in Nat
    BY <1>2, <1>4, <1>11 DEF Linking
  <2>2. LdOut \in DOMAIN fs' /\ fs'[LdOut] = fs[LdOut] /\ Whole(LdOut)'
    BY <1>7, <1>8, <2>1 DEF Whole, Holds, LdOut
  <2>3. child'.state = "ok" => Whole(Obj)'
    BY <1>6, <1>8, <1>11, <1>13, <2>1 DEF Obj, Whole, Holds
  <2>4. /\ child'.prog = "lc3as" /\ child'.out = Obj /\ child'.what = Wanted'
        /\ at' = "as" /\ (flag'.g > 0 => fs'[LdOut].pasted) /\ flag'.L \in Nat
    BY <1>3, <1>11, <1>13, <2>1, <2>2
  <2> QED
    BY <2>2, <2>3, <2>4 DEF Linking, Whole, Holds, LdOut, Obj
<1>12. CASE at \notin {"link", "linked", "paste", "pasted", "as", "rm"}
  BY <1>1, <1>12 DEF Linking
<1> QED
  BY <1>5, <1>9, <1>10, <1>11, <1>12

(* All steps keep the invariant of linking.                                *)
LEMMA NextLinking ==
  ASSUME StageInv, TempInv, NamesInv, Steady => Compiling /\ Linking, [Next]_vars,
         Steady'
  PROVE  Linking'
<1>1. CASE Main
  BY <1>1, MainLinking
<1>2. CASE ChildOpens \/ ChildEnds
  BY <1>2, ChildLinking
<1>3. CASE interrupt
  <2>1. at' = "exit"
    BY <1>3 DEF interrupt
  <2> QED
    BY <2>1 DEF Linking
<1>4. CASE UNCHANGED vars
  <2>1. /\ UNCHANGED <<line, at, flag, cur, llist, errcnt, spfile, child, fs>>
        /\ Wanted' = Wanted
    BY <1>4 DEF vars, Wanted, Only, Positions
  <2>2. Steady /\ Linking
    BY <2>1 DEF Steady
  <2> QED
    BY <2>1, <2>2 DEF Linking, Whole, Holds, LdOut, Obj
<1> QED
  BY <1>1, <1>2, <1>3, <1>4 DEF Next

----------------------------------------------------------------------------
(* lcc ends with success only with the product made, and then nothing      *)
(* changes it.                                                             *)
LEMMA NextEnded ==
  ASSUME StageInv, TempInv, NamesInv, Steady => Compiling /\ Linking, Ended,
         [Next]_vars
  PROVE  Ended'
<1>0. /\ Typed /\ FlagType /\ Waits /\ Listed
      /\ (at = "exit") <=> (code # 256)
  BY DEF StageInv, Typed, TempInv
<1>1. CASE Finish
  <2>1. /\ at = "rm" /\ at' = "exit" /\ rm
        /\ code' = (IF errcnt > 0 THEN 1 ELSE 0)
        /\ UNCHANGED <<line, flag, llist, errcnt, rmlist, child>>
    BY <1>1 DEF Finish
  <2>2. ~ Alive /\ ~ Alive'
    BY <1>0, <2>1 DEF Waits, Between, Alive
  <2>3. SUFFICES ASSUME code' = 0, llist' # <<>>, flag'.c = 0, flag'.E = 0, flag'.v < 2
                 PROVE  LET product == IF flag'.L > 0 THEN LdOut ELSE Obj
                        IN  /\ product \in DOMAIN fs' /\ fs'[product].whole
                            /\ fs'[product].src = Wanted'
                            /\ flag'.g > 0 => fs'[LdOut].pasted
    BY <2>1, <2>2 DEF Ended, Built, LdOut, Obj
  <2>4. errcnt = 0
    BY <2>1, <2>3 DEF StageInv, Typed
  <2>5. Steady /\ Linking
    BY <2>1, <2>3, <2>4 DEF Steady
  <2>6. /\ Whole(LdOut) /\ (flag.g > 0 => fs[LdOut].pasted)
        /\ flag.L \in Nat /\ (flag.L = 0 => Whole(Obj))
    BY <2>1, <2>3, <2>5 DEF Linking
  <2>7. LdOut \notin rmlist /\ Obj \notin rmlist
    BY <1>0, NameKinds DEF Listed
  <2>8. \A n \in DOMAIN fs : n \notin rmlist => n \in DOMAIN fs' /\ fs'[n] = fs[n]
    BY <2>1 DEF rm, Without
  <2>9. Wanted' = Wanted
    BY <2>1 DEF Wanted, Only, Positions
  <2>10. CASE flag.L > 0
    BY <2>1, <2>6, <2>7, <2>8, <2>9, <2>10 DEF Whole, Holds
  <2>11. CASE flag.L = 0
    BY <2>1, <2>6, <2>7, <2>8, <2>9, <2>11 DEF Whole, Holds
  <2> QED
    BY <2>6, <2>10, <2>11
<1>2. CASE Options
  <2>1. CASE line = <<>>
    <3>1. at' = "exit" /\ UNCHANGED <<llist, child>> /\ at = "options"
      BY <1>2, <2>1 DEF Options
    <3>2. llist' = <<>> /\ ~ Alive'
      BY <1>0, <3>1 DEF Ended, Waits, Between, Alive
    <3> QED
      BY <3>1, <3>2 DEF Ended, Built
  <2>2. CASE line # <<>>
    <3>1. at' # "options" /\ code' # 0
      BY <1>0, <1>2, <2>2 DEF Options
    <3> QED
      BY <3>1 DEF Ended
  <2> QED
    BY <2>1, <2>2
<1>3. ASSUME Main, ~ Finish, ~ Options PROVE Ended'
  <2>1. at # "exit" /\ at' # "options" /\ (code' = code \/ code' = 139)
    BY <1>3 DEF Main, LibraryArg, MissingArg, ObjectArg, OtherArg, SourceArg, PreprocessedArg,
       PreprocessDone, Compile, CompileDone, Link, LinkDone, StageDone, Paste, PasteDone,
       Assemble, AssembleDone, SkipArg
  <2> QED
    BY <1>0, <2>1 DEF Ended
<1>4. CASE interrupt
  BY <1>4 DEF interrupt, Ended
<1>5. CASE ChildOpens \/ ChildEnds
  <2>1. Alive /\ UNCHANGED <<at, llist, code>>
    BY <1>5, ChildEffect
  <2> QED
    BY <2>1 DEF Ended
<1>6. CASE UNCHANGED vars
  <2>1. Built' <=> Built
    BY <1>6 DEF vars, Built, LdOut, Obj, Wanted, Only, Positions
  <2> QED
    BY <1>6, <2>1 DEF vars, Ended, Alive
<1> QED
  BY <1>1, <1>2, <1>3, <1>4, <1>5, <1>6 DEF Next

(* The initial states satisfy the invariant of the product.                *)
LEMMA InitBuilt == Init => BuiltInv
<1> SUFFICES ASSUME Init PROVE BuiltInv
  OBVIOUS
<1>1. /\ at = "options" /\ llist = <<>> /\ rmlist = {} /\ itemp = NoName
      /\ spfile = NoName /\ code = 256
      /\ child = [prog |-> "none", out |-> NoName, what |-> <<>>, state |-> "none"]
      /\ DOMAIN fs \subseteq Leftovers
  BY DEF Init
<1>2. Numbered
  <2>1. IsFiniteSet({})
    BY FS_EmptySet
  <2> QED
    BY <1>1, <2>1 DEF Numbered
<1>3. Fresh
  BY <1>1 DEF Fresh
<1>4. Written
  BY <1>1, DriverConstants DEF Written, NoName
<1>5. Compiling /\ Linking /\ Ended
  BY <1>1 DEF Compiling, Linking, Ended
<1> QED
  BY <1>2, <1>3, <1>4, <1>5 DEF BuiltInv, NamesInv

(* All steps keep it.                                                      *)
LEMMA NextBuilt == StageInv /\ TempInv /\ BuiltInv /\ [Next]_vars => BuiltInv'
<1> SUFFICES ASSUME StageInv, TempInv, BuiltInv, [Next]_vars PROVE BuiltInv'
  OBVIOUS
<1>1. NamesInv /\ (Steady => Compiling /\ Linking) /\ Ended
  BY DEF BuiltInv
<1>2. NamesInv'
  BY <1>1, NextNames
<1>3. Steady' => Compiling'
  BY <1>1, NextCompiling
<1>4. Steady' => Linking'
  BY <1>1, NextLinking
<1>5. Ended'
  BY <1>1, NextEnded
<1> QED
  BY <1>2, <1>3, <1>4, <1>5 DEF BuiltInv

(* When lcc exits with success after linking, the product was made from    *)
(* exactly the files the command line names, in their order, and with -g   *)
(* the source has been pasted into it: whatever the compilers, the order   *)
(* in which their output appears and what earlier calls left behind.       *)
THEOREM AlwaysBuilt == Spec => []Built
<1>1. BuiltInv => Built
  <2>1. ASSUME code # 0 PROVE Built
    BY <2>1 DEF Built
  <2>2. ASSUME code = 0, BuiltInv PROVE Built
    BY <2>2 DEF BuiltInv, Ended
  <2> QED
    BY <2>1, <2>2
<1>2. QED
  BY <1>1, InitStage, NextStage, InitTemp, NextTemp, InitBuilt, NextBuilt, PTL DEF Spec

=============================================================================
