# TLA+ models of the LC-3 tools

This directory specifies, model-checks and proves properties of the LC-3
tool chain kept in this repository. Paths are relative to the repository
root. `PROJECT.json` lists the components, the source lines each definition
stands for, the runs, the mutants, the hazards and the theorems.

## The system

| Part | State it keeps | Operations | What makes it correct |
|---|---|---|---|
| `lc3tools/lc3sim.c`: simulator and debugger | registers, memory, breakpoints, `sys_bpt_addr`, `finish_depth`, `should_halt`, `interrupted_at_gui_request`, delayed memory updates | command loop, `run_until_stopped`, `execute_instruction`, the `cmd_*` functions, the SIGINT handler | a command ends where it says, nothing of it is left for the next, the code window shows memory, input and CTRL-C always get attention |
| `lc3tools/symbol.c` with `squash_symbols`, `read_sym_file`, `init_machine` | hash chains and per-location lists of symbols | add, find, remove at an address | both linkings hold the same symbols; loading code removes the symbols it replaces |
| `lc3tools/lc3.f`: assembler | pass, `code_loc`, `saw_orig`, `saw_end`, errors, symbols, debug line | one lexer rule per kind of line, two passes | both passes place a label at the same address, the object file has no gap, references resolve |
| `lc3tools/lc3os.asm` and the device registers in `lc3sim.c` | KBSR/KBDR, DSR/DDR, MCR, stdio buffers | trap routines polling devices | no character lost or repeated, HALT stops the clock |
| scripts (`cmd_execute`) | nesting depth, input streams | execute, nested execute, failure | input is restored on every way out |
| `lc3tools/lc3sim-tk.def`: Tcl/Tk front end | its own breakpoint list and running flag | sends command lines, parses replies | its view agrees with the simulator's |
| `lc3tools/lc3convert.f` | location, words | text to object file | one word per line, start address first |
| `lc3sim_cpp/`: virtual machine in C++ | registers, the number of the register the flags come from, memory | load, run, memory-mapped devices, conversion of instructions between widths | computes what the C machine computes; a converted instruction means what it meant |
| `lc3sim-c/`: virtual machine in C | registers, condition codes, memory, terminal mode | load, run, devices, SIGINT | the flags are those of the last result |
| `lcc-1.3/etc/lcc.c`: compiler driver | option lists, temporary files, error count | runs cpp, rcc, lc3pp, SourcePaste, lc3as | success means a product made from the files named, no step runs after a failed one, temporary files are removed, it ends |
| `lcc-1.3/lc3pp/`: linker and source paster | the lists of external names, read positions, offsets | import definitions, separate data, compute addresses, paste C lines | every definition is imported once, every address is that of its variable, C lines are pasted once and in order, under their own numbers up to the first that does not fit the buffer |
| `lcc-1.3/lc3lib/`: library in LC-3 assembly | stack | stdio | calling convention |
| `lcc-1.3/cpp`: preprocessor | stack of sources, macros, state of conditionals, token rows | directives, expansion, `#line` | the output means what C says of the input, at the right lines, in the right tokens |
| `lcc-1.3/src`: compiler rcc | trees, dag, forest, registers and spills | fold, list, undag, select, allocate, emit; statements to a code list with labels and jumps | the code computes what the C source says and goes the way its statements go |

How the parts interact. The front end and the simulator are two processes:
the front end writes command lines to a socket, the simulator prints replies.
The simulator reads the socket through stdio (`fgets`) but polls the
descriptor itself after each instruction and before each read, so the two look
at different buffers. A run that is interrupted by input is continued when no
more input is seen, by a command line that `simple_readline` makes up. CTRL-C
is a signal handler that sets two flags. Assembler and simulator share the
object file, the symbol file and `symbol.c`. The driver `lcc` runs the five
stages of a compilation as child processes that talk through files: the names
of temporary files, the exit codes and the list for the linker are all they
share. The compiler's `.LC3GLOBAL`, `.extern` and `.debug` lines are the
interface to the linker and, through it, to the assembler's debug file.

Hard behaviour: instructions, command lines and signals interleave freely;
interrupted runs carry state (`sys_bpt_addr`, `finish_depth`, delayed updates)
from one command to another; the poll and the read disagree about what is
waiting; counters and addresses wrap; the assembler goes on after errors; a
signal or a failing child meets the driver at any stage; the preprocessor and
the compiler share and reuse what they have computed (macro expansions,
values in registers) and must notice when it is stale.

## Modules

### Lc3Sim

The execution control of `lc3sim.c`. `at` says where the process is: at the
prompt, before the instruction of a step or next, at the parts of
`run_until_stopped`, at the end of `init_machine`, or gone. One action per
command (`cmd_continue`, `cmd_finish`, `cmd_step_or_next`, `cmd_file`,
`cmd_memory`, `cmd_register_PC`, `cmd_break`, `cmd_option_delay`, `cmd_reset`,
`cmd_lc3_stop`, `cmd_quit`, and `OtherCommand` for those that change nothing
modelled here), one per part of a run (`StartRun`, `RunInstruction`,
`RunHalted`, `StopRun`, `StepInstruction`, `NextInstruction`, `InitDone`), and
the environment: `halt_lc3` (SIGINT), `LineArrives`, `EndOfInput`.

The LC-3 program is arbitrary: before each instruction any member of
`Instruction` may be chosen, so a property holds for every program. The
instruction's effect is that of `execute_instruction`, with its early returns
in their order. Command lines are counted, in the kernel (`pipe`) and in the
stdio buffer (`buf`), and their content is chosen when they are read. `disp`
is memory, what the front end was told about it, `lc3_show_later` and
`have_mem_to_dump`. Without the front end the console is stdin as well, so a
run may eat command lines (`LinesAfterRun`) and `flush_console_input` may drop
some.

Left out: register contents, the trace file, the start script, `execute`, the
text of all output, and the addresses of the device registers (a store to the
MCR is the instruction kind "halt").

### Lc3SimRuns

Extends Lc3Sim with history variables, which never constrain a step: the run
command given last, where a `next` should end, the true number of subroutines
`finish` has to leave, whether the last run ended at a breakpoint, and whether
a run command was given to an interrupted run.

### SymbolTable

`symbol.c` as the simulator uses it. A hash chain is a set (names in it are
distinct and its order shows nowhere), a location's list a sequence (its head
is the label the disassembler prints). Loading is split at each address that
`squash_symbols` visits; "crash" is the walk off the end of a hash chain that
`remove_symbol_at_addr` would do if its symbol were missing.
`init_machine` without an OS file is the case of an empty region.

### Assembler

`lc3.f` in its 16-bit build. The text is any sequence of tokens; pass 1
chooses them as it reads, pass 2 reads the same ones. A token says what the
line makes of the state: how many words, which label, a refused constant, a
refused line. A constant that is refused leaves an uninitialized count, which
is any value. `.ORIG` stores a `long` through a pointer to the `int` `code_loc`
(line 1049) and so overwrites the variable next to it: the neighbours in the
declaration are `saw_orig` and `saw_end`, which are 0 there and get a 0 from an
address that is not negative; other layouts are left out. The object file
records for each word which token wrote it, so that what a reference means can
be compared with where its label ended up.

### Console

The keyboard, display and machine control registers (`read_memory`,
`write_memory`) and the trap routines of `lc3os.asm`. `regular` and `shared`
give the four kinds of console: a terminal or pipe that also carries the
commands, the front end's socket, the file of `-fileio`, and commands
redirected from a file. Characters are numbered in the order typed and counted
in three places: read (`taken`), in the stdio buffer up to `fetched`, in the
kernel up to `typed`; `PollIn` looks at the kernel, `StdioReads` empties the
buffer first. A trap routine is cut at its device accesses and at the traps it
calls, one action per piece; between two cuts it touches only its registers
and the words it saves them in, which nothing else touches. `R7` and the saved
`R7`s hold labels, so returning to the wrong place shows. The shift loop of
PUTSP is one step. The program calls any trap with any registers and may use
the devices itself. The debugger may stop the LC-3 anywhere, list memory
(which reads device registers through `read_memory`), flush, load, reset. The
outcome of the options `device`, `flush` and `keep` is left open; `step`,
`next` and `finish` are `cmd_continue` followed by `Stop`. `call` and `out`
are histories.

Left out: the debugger setting registers or the words of the OS, a program
that overwrites the OS, the failure to load `lc3os.obj`, input through
readline, the devices of the I/O emulator build.

### Scripts

`cmd_execute` with the option `stdin`. The script open at depth d is the
stream d, so that reading from a closed script is reading from a stream above
`script_depth`. A failing `execute` at the prompt sets `stop_scripts` as it
does in a script and so ends the session; no comment says whether this is
meant, and `FailureUnwinds` speaks of failures in scripts only.

### Encoding and Vm

`Encoding` holds the macros of `instr_parser.h`, `instr_maker.h` and
`instr_converter.h` as operators on a format (widths of the word, the
operation code, a register number and the parameter of RES); `Pow2` is the
shift `1UL << n`, and `VmConstants` lets the wide format have any width from 16
to 64, the bits in which the macros compute. `Vm` runs the C
machine (`c`, with stored condition codes) and the C++ machine (`x`, with the
number of the register they come from) side by side on the same file and the
same input: `Load`, `disable_input_buffering`, `install_handler`, `Step`,
`restore_input_buffering`, `handle_signal`. `apart` collects the reasons for
which the two may differ from then on: RES and RTI (`extension`), bits 8 to 11
of a trap vector (`vector`), flags computed late (`flags`), characters above
127 (`char`), memory nobody wrote (`memory`, `calloc` against `malloc`), the
end of the address space (`range`), a stop through the MCR (`mcr`), a file too
long (`length`) and the C++ machine's limit of instructions (`limit`).

Between `tcsetattr` and `signal` in `lc3sim-c/main.c` a CTRL-C kills the
program with the terminal in raw mode. The model has this window (`armed`), and
no property denies it; in the ends the handler and `main` bring about the
terminal is restored in the same step.

### Pipeline and Driver

`Driver` is `lcc.c`: the option loop, `filename` for each argument, the
stages, `rm` and the signal handler, one action per step at which a child is
started or waited for. A child is a process of its own: it opens its output
at some time, ends at a later one, well or not, and outlives a signal sent to
the driver alone. A file holds the sequence of the sources it was made from:
`Only` selects arguments of the command line in their order, `Concat` puts
sequences one after another, `SourcesLinked` is what the files on the linker's
list hold and `Wanted` what they should. Names that differ in the model are
different files. `Leftovers` are products of earlier calls. None of them has a
temporary name of this process (`tempname` puts the process number in it) and
none is a file that the command line names.
`Pipeline` is the promise: stages follow one another, none starts after a
failure, a failure is never forgotten and the exit code tells of it.
`KeepsPromise` is the refinement, `Driver` with `INSTANCE Pipeline WITH` the
stage read from the child that runs and `ok` from `errcnt`.

Seen there: a paster that fails still has its output renamed over the linked
file (the error count stops the assembler); with `-c -g` and several files only
the last is pasted; `lcc -g` without a file calls `strrchr` on a null pointer;
with nothing but options the linker is not run and a leftover of an earlier
call may be assembled; `-lccdir=` and `LCCDIR` overwrite the first word of the
linker's command (`lc3.c:39`).

### Linker

`lc3pp.c` on files that are sequences of line records: it copies the file that
defines `main`, imports what is declared `.extern` from the other files or the
library, writes the data section and replaces each `.LC3GLOBAL` by the
instructions that compute an address; then `SourcePaste.c` inserts C lines,
read one piece at a time (`SourceLine`) until the number asked for or the end
of the file (`SourceDone`). A piece is what `fgets` returns: a line, or 511
characters of a longer one (`LINE_SIZE`). `Sources` says of each file how many
pieces it has, which are not blank and which end in a newline; the code counts
a piece as a line, so that `PastedInOrder` gives the numbers and the lines
asked for up to the first long line (`LongBefore`) and only the order after it.
Lines of assembly longer than the buffer are copied piece by piece, which
changes nothing, and appear as one line here.
`LinkedOnce` excepts six cases, each a definition of its own: `SharedVariable`
(a variable used by two imported functions is imported twice), `CallsHelper`
(a function called by an imported function is not imported), `NegativeOffset`
(the name of a `.LC3GLOBAL` ends at a blank or a plus sign, so that `n-3` is
recorded as a name and `n` is not imported if every use has such an offset),
`NamePrefix` (a name that begins with the name looked for is taken for it),
`PaddedVariable` (`.BLKW` words at the end of an imported variable are
dropped), `MainNotFirst` (names are compared with file 0 instead of the main
file).

Assumed of the files (`IsFile`, `IsText` in `LinkerConstants`): each ends
with `.END` (the scan does not stop otherwise), a function ends with `RET`
(importing one copies up to it), the `.FILL` and `.BLKW` lines of a variable
follow its label, and no register named is `R4`, which holds the address of the
data and which the compiler never allocates. The compiler writes nothing else;
the library's routines hold no `.LC3GLOBAL`. When no file defines `main` the
code reads an entry it never wrote: `FindMain` then takes any file or crashes.
Left out: the `realloc` of `used_var` without `sizeof`, directives of `-g2`,
line numbers of imported functions, which refer to their own file's list.

### CppLex, CppExpr, CppMacro and Cpp

The preprocessor, one module per part: the scanner's state machine
(`lex.c`), the two-stack evaluator of `#if` (`eval.c`), macros, token rows and
hidesets (`macro.c`, `tokens.c`, `hideset.c`), and `process` with directives,
includes and `#line` (`cpp.c`, `include.c`). `Cpp` takes one row per step. The
four modules are composed by EXTENDS; only `Cpp` has state. A character may
stand for a run of letters. `MCCpp` holds the inputs by family, each with what
C says of it; an input for which the preprocessor is known to depart from C
carries the name of the departure and is not asked for its meaning:
`LeftChain`, `MiddleConditional`, `LostUndefined`, `MixedArms` (`#if`
expressions), `OnlyWarned` (an `#if` left open at a parenthesis or with a
comma gets a warning and the value 0), `BlankBeforeParameter`, `NewlineInString`, `EmptyPasted`,
`DirectiveGathered`, `ReadBeyondRow`, `CallAtEnd` (macros), `ElifOfIncluder`,
`JunkInSkippedGroup`, `NumberInSkippedGroup`, `ElifEvaluated` (conditionals),
`FoldedLine`, `NoFinalNewline`, `CrInComment`, `VerticalTab` (text).

Left out: `-M`, `-N` and verbose output, absolute include paths, the size of
the input buffer and of the operator stack, the quick filter for names, the
most negative number divided by -1. Shift counts are taken modulo the width, as
the host does.

### Fold, Dag, Gen and Rcc

The compiler from the parsed expression to running code. `Fold` is `simplify`
with the trees of `tree.c` and `enode.c`; `Dag` is `listnodes` and `undag`;
`Gen` covers a forest with the instructions of `lc3.md` and allocates
registers; `Rcc` has the state: it parses a statement, walks the forest,
allocates one instruction at a time, emits, and executes the code on a
machine with junk in its registers. `MCRcc` writes C functions as trees and
gives their meaning (`Eval`). The code of a function was compared with that
of the compiler built from this repository for all functions of the run.

`MCRcc` names where the compiler departs from C, and the properties except
just these: `EightBits` (`simp.c` takes eight bits per unit although a unit of
lc3 has sixteen: `unsigned a = 300` becomes 44, `x & 255` becomes `x`),
`NoCodeForUnsigned` (no instruction for unsigned `| ^ << >> * / %`),
`UnsignedBranch` (an unsigned comparison uses R7 without spilling it),
`SameRegister` (both operands in one register: `lc3.md` has a FIXME), and
comparisons whose difference does not fit a word (`far`).

Left out: division and right shift at run time, structures, bit-fields,
floating point, volatile, frames of more than 32 words. `Fold.root` omits what
`root1` (`tree.c`) does with `COND`, `AND`, `OR` and the special cases of
`RIGHT` (lines 42 to 72), which no tree of the run has at its root. Statements are the
module `Stmt`. `prunetemps` does nothing for lc3. The called function is
external: it returns a value made of its arguments and counts its calls in G.

### Stmt

The statements of the compiler (`stmt.c`, with `compound` and `funcdefn` of
`decl.c` and `emitcode` of `dag.c`). A record holds what the recursive descent
changes: the code list, the pending forest, the next label, the references
counted for each label, the label it was equated to, and the switches being
read. `branch` and `definelab` improve the end of the list as the code does:
they equate and remove labels, drop jumps that cannot be reached and remove
jumps that go nowhere. `swstmt` generates the dispatch after the body and
splices it in before it; `swgen` and `swcode` make buckets, comparisons and
tables of jumps. `Compile` is the whole of this for one function; then the
code runs, one instruction per step.

Expressions are abstracted to what control can tell apart: an effect, a test
or a value that the environment chooses, and one variable that statements set
and compare. The machine shows the environment its effects and questions
(`trace`). `MCStmt` gives statements their meaning in C (`Exec`, with `break`,
`continue`, `return`, `goto` and the search for a case as modes) and follows
the trace with it. Three departures are named and excepted: the case labels
of an unsigned `switch` above 127, which are extended from eight bits
(`UnsignedSwitch`); unsigned values above 32767, which are compared as
negative numbers, or not at all when the table starts at 0, and then jump
outside of it (`Large`); and an expression that ends the body of a `switch`
with `default` and has no block around it (`EarlySwitch`). That one is still
pending when `swstmt` generates the dispatch, which takes it in, so that it is
executed before the dispatch: `switch (n) default: A: x = 2;` loses the
assignment for a `goto A`, and `switch (n) default: if (c) goto A; else x = 2;`
makes it whatever `c` is. The compiler built from this repository does the
same; where every path leads through the expression, nothing differs.

Left out: messages, event hooks, profiling counts and the return of
structures.

### MC modules and proofs

The modules `MC...` give the instances for TLC. `Lc3SimProofs`,
`SymbolTableProofs`, `AssemblerProofs`, `ConsoleProofs`, `ScriptsProofs`,
`DriverProofs`, `VmProofs` and `LinkerProofs` hold the theorems. A definition
called a mutant, or used nowhere else beside the one it resembles, is a
plausible mistake in the code; `PROJECT.json` pairs it with the property that
notices it.

## Runs

| Run | Checks | Shows |
|---|---|---|
| `sim_safety` | `NoStaleGoal`, `CodeWindowCurrent`, `NoUpdateLost` | no goal of `next` or `finish` outlives its run; the code window is right whenever the simulator really waits; no delayed update is lost |
| `runs_goals` | `BreakpointHolds`, `FinishCountExact`, `NextRemembered`, `GuiInputGetsAttention`, `CtrlCStops` | the automatic continue never leaves a breakpoint; `finish` counts exactly and `next` keeps its goal across interruptions; input and CTRL-C end every run, also of a program that loops |
| `symbol_tables` | `TablesAgree`, `SquashEnds` | chains and lists agree after any history, so that unlinking finds its symbol; squashing ends for wrapping regions |
| `asm_passes` | `PassesAgree`, `ImageContiguous`, `RefsResolve`, `DebugRangesOrdered` | labels, image and references agree for all short texts; C line ranges are not empty and do not overlap |
| `console_traps` | `RegistersKept`, `DisplayedExactly`, `FreshKey`, `KeySeen`, `OutputReturns` | traps restore registers, display exactly what they promise and return new characters, whatever the debugger does in between; a character in the kernel ends GETC's wait; output traps return |
| `scripts_nesting` | `ConsoleOpen`, `OptionObeyed`, `FailureUnwinds` | the LC-3 reads from an open stream, the one the option names; a failure ends the scripts and not the session |
| `vm_lockstep` | `Lockstep`, `ConvertKeepsMeaning` | both machines compute the same until a named difference; conversion keeps the meaning of all 65536 words |
| `driver_pipeline` | `Built`, `NoTempLeft`, `KeepsPromise`, `Ends` | success means a product of exactly the files named; no temporary file is left; `Driver` implements `Pipeline`; it ends |
| `linker_link` | `LinkedOnce`, `AddressExact`, `PastedInOrder` | a link is whole outside six named cases; every computed address is right about all limits of ADD and LDR; C lines are pasted once, in order and, up to the first that is too long, under their numbers |
| `cpp_rows` | `Meaning`, `LinesInStep`, `FullyExpanded`, `TokensStaySeparate` | 2700 inputs get their meaning in C, or an error, outside the named departures, none but a call cut off by the end goes on for ever; at the right line, fully expanded, in tokens that stay apart |
| `rcc_compile` | `FoldExact`, `LiveHeld`, `CodeExact` | folding keeps the value, the allocator loses none, the code does what the source says, outside the named departures |
| `stmt_flow` | `FlowExact` | the code of 6007 functions goes the way their statements go, whatever the environment answers, ends if and only if they end, and fails no assertion |

Each module has a type invariant `TypeOK` where its state has types of its own;
the proof modules prove theirs. It can be added to the INVARIANTS of a
run's cfg.

Further statements of the repository's documents that the code does not keep.
Each is a definition of its module; adding it to the cfg makes TLC show the
counterexample:

| Statement | Add to | What happens |
|---|---|---|
| `StepIsOneStep` (Lc3SimRuns): "step -- execute one step (into subroutine/trap)" (`lc3tools/lc3sim.c:1443`) | INVARIANT in `Lc3SimRuns_goals.cfg` | when the poll after the step sees front-end input, `interrupted_at_gui_request` stays set and `simple_readline` makes up a "c" (`lc3sim.c:1864`): the LC-3 runs on |
| `RegionSquashed` (SymbolTable): "removed symbols from region of memory into which new code is loaded" (`lc3tools/CHANGE_LOG:195`) | INVARIANT in `SymbolTable_tables.cfg` | `add_symbol` with `dup_ok` changes the address of a symbol but not the list it is in (`symbol.c:88`); loading over the new address leaves it |
| `BufferedKeySeen` (Console): "wait for a keystroke" (`lc3tools/lc3os.asm:579`) | PROPERTY in `Console_traps.cfg`, with `MaxKeys = 2` | KBSR is polled on the descriptor, KBDR is read through stdio (`lc3sim.c:560`): a second character typed ahead is not seen |
| `FlushEnds` (Console): "flush console input each time LC-3 starts" (`lc3tools/lc3sim.c:1690`) | PROPERTY in `Console_traps.cfg` | a regular file is reported readable at its end, too, and the loop at `lc3sim.c:1942` does not look at what `fgetc` returns |
| `ProperLinker` (Linker): "Functions as a proper linker at the .asm level" (`lcc-1.3/lc3pp/lc3pp.c:17`) | INVARIANT in `Linker_link.cfg` | a link succeeds in the six cases named above without being whole (`lc3pp.c:274`) |
| `AsmLinesKept` (Linker): "Not a special line, just output" (`lcc-1.3/lc3pp/SourcePaste.c:137`) | INVARIANT in `Linker_link.cfg` | a C line that comes without its newline (the last line of a file that does not end in one, or a piece of a line longer than the buffer) is put out as it is (`SourcePaste.c:39`): the assembly line that follows becomes the end of the comment and its instruction is lost |
| `CallsAreTold` (Cpp): of a name that is not a call, "gatherargs has already pushed trp->tr to the next token" (`lcc-1.3/cpp/macro.c:193`) | INVARIANT in `Cpp_rows.cfg` | at the end of the input `gatherargs` moves back to the name (`macro.c:249`): when the name of a macro with parameters is the last token of the file, of an argument or of an `#if` line, `expandrow` takes it again for ever |

Seen while modelling, and part of the models without a run of their own:

* `cmd_next` sets its breakpoint only when the call instruction was not itself
  interrupted; the exception is in the statement of `NextRemembered`.
* `halt_lc3` sets `need_a_stop_notice` at the prompt as well, and the next run
  prints the notice though nothing stopped it.
* The automatic continue goes by `poll`, so it happens with command lines left
  in the stdio buffer; they are read at the next interruption.
* `last_KBSR_read` outlives a stop of the LC-3. When the announced character is
  flushed or read as a command meanwhile, KBDR waits inside `fgetc` (`Blocked`
  in Console).
* At the end of the outermost script `cmd_execute` sets `lc3in` to `stdin`, or
  to `lc3out` with the front end (`OutsideConsole`), also in a session started
  with `-fileio` or on the socket (`FirstConsole`).

Bounds. Two words of memory and two values are enough for a store to hit the
code window, a breakpoint to differ from the place a call returns to, and a
file to overlap or miss the OS. `MaxFinishDepth = 3` lets `finish` nest, return
and hit its limit. `MaxPipe = 2` lets `poll` and `fgets` disagree (one line
taken, one left in either buffer). The history runs use one value, since
their questions are about control. Three names in two buckets give a
collision and a non-collision; three locations give wrapping and
non-wrapping regions. Assembler texts have up to six tokens:
`.ORIG`, a label, two references or blocks around it and `.END`, or `.ORIG`,
two C lines with their instructions and `.END`, among them texts in which
labels and blocks stand between C lines; texts that mix the two kinds of line
otherwise have up to four (`ShortMix`). Memory of six words and a reach of two
make overflow and out-of-range labels happen.
The console has one character (typed at any time, flushed, read by the
debugger or by a trap), a byte of six values, a string of two words, a packed
word of two characters and a prompt of one: every loop of the routines is
entered, repeated and left; the proofs cover any number of characters. Scripts
nest to the code's own limit of ten.

The virtual machines execute every pair of 25 instructions, which include each
operation with the registers that matter for it (R7 with JSRR and the link,
R0 with GETC), then a test of each flag; that is enough for a late flag, a
link overwritten too early or a device access to show. The driver's command
lines have two arguments of every kind, and three where options and two
sources meet. The linker gets one to three files in every order, offsets
on both sides of every limit of ADD and LDR, a C file without a newline at its
end and one with a line of two pieces. The preprocessor runs with
numbers of 8 bits, hidesets of five names and includes two deep, so that each
limit is met; an expansion counts as endless after `MaxExpand` replacements
in a row. The compiler's functions have up to four statements and expressions
of up to seven operands, more than the five registers can hold; folding is
tried with constants at the limits of a word and of eight bits. Statements are
nested two deep in all combinations and three deep with simple ones inside,
each with a label that may be inside or outside; a switch has every subset of
nine case values, which makes one to five buckets, with and without tables.
Runs are looked at for `MaxTrace = 6` effects and answers, which is several
rounds of each loop; `MaxLabels = 40` is more labels than any function uses. A
run that shows nothing for longer than the code is long never will, for the
same instruction is met again in the same state.

Deadlock is not checked where the process may really end: `quit` or end of
input in the simulator, the exit of the assembler, the driver, the linker, the
preprocessor and the virtual machines. The runs of the symbol table and of the
compiler do check it.

Fairness. `runs_goals` assumes weak fairness of the simulator's own steps
and of reading a command when one can be read: the process is scheduled and
its reads return. Nothing obliges the user, the front end or the signal.
`symbol_tables` assumes that a loop that is running is executed.
`console_traps` assumes that the LC-3 is executed while it runs, that the flush loop is, and that a device polled again and
again becomes ready (`random () & 15` is 0 at last); neither the user nor the
debugger has to do anything. `scripts_nesting` assumes that a command loop that
must end, ends. `driver_pipeline` assumes that `main` goes on when it can
(it never waits for anything but a child) and that a child ends; no signal has
to come.

## Proofs

All constants are arbitrary within the named assumptions (`SimConstants`,
`TableConstants`, `AsmConstants`, `ConsoleConstants`, `DepthAssumption`,
`DriverConstants`, `VmConstants`, `LinkerConstants`), which TLC evaluates on every instance.

*Lc3SimProofs.* `NoStaleGoal` and `CodeWindowCurrent` speak of the prompt only
and are not inductive: a step, a `next` or the end of `init_machine` also come
back to the prompt. The invariant `IInv` says the same of all places between
runs (`Idle`), adds where an interruption can exist at all (`Places`: only in
GUI mode and never while the OS boots), and that with the delay option off the
code window is current at all times (`Window`). Lemmas describe what each
operation on the display does; one lemma per group of actions keeps the
invariant. Theorems: `TypeCorrect`, `GoalsForgotten`, `CodeWindowCorrect`, and
`UpdatesRemembered`, which `Window` gives as well.

The properties of Lc3SimRuns speak of what happened earlier, so their proof is
about the specification with histories. `HistoriesChangeNothing` shows that it
allows no behaviour the simulator does not have; `IInv` therefore holds in it,
and `HistInv` is inductive beside `IInv`: `Unanswered` (while an interruption
is pending, the run is over and did not end at a breakpoint; the automatic
continue goes by the pending interruption), `Counts` (`finish_depth` is the
depth that the history counts, also across an interruption) and `Goal` (the
breakpoint of `next` is where the history says it was put). Theorems:
`BreakpointsHold`, `FinishCountsExactly`, `NextKeepsItsGoal`.

*SymbolTableProofs.* `TablesAgree` with the types is inductive: removing a
location's symbols keeps it because a name is in one list only, adding a name
because a name that is not found is in no list. `UnlinkFinds` follows.

*AssemblerProofs.* That pass 2 is at the address pass 1 gave a label depends
on everything read before. `Follows` states it: there is a course of
(`code_loc`, `saw_orig`) through the text, determined token by token by
`LocAfter` and `OrigAfter`; pass 1 has followed all of it, pass 2 has followed
it up to `pos`, and without errors in pass 1 every label lies on it. `Image`
ties the object file to `code_loc`, and needs from `Follows` that a text
accepted by pass 1 has nothing before its `.ORIG`. `Lines` says that a pending
or finished C line began or ended before `code_loc`. Theorems:
`AsmTypeCorrect`, `PassesAlwaysAgree`, `ImageAlwaysContiguous`,
`LinesAlwaysOrdered`.

`RefInv` follows the references into the object file. `EndLast`: `.END` is the
last token either pass reads. `Known`: a label with an address is in the text.
`Labels`: the address of a label that pass 2 has passed is the image's start
plus the number of words written before it. `Meant`: each word that pass 2 has
written for a reference leads from its own address to that of its label. A
reference can be to a label further on; only at the end, when all of the text
has been read, the four give `RefsAlwaysResolve`.

*ConsoleProofs.* `RegistersKept` and `FreshKey` speak of the moment a trap has
returned. The invariant `IInv` says where things are before: `Returns` gives
for each routine the labels it can return to and where that label is kept,
`Frames` where each register of the program is (still in the register, or in
which saving word, seen through OUT and GETC by `Leaf` and `Live1`), `Keys`
where the character is that GETC or IN will return, and that a character
announced to GETC is either still announced or already in the KBDR. Each step
of a routine has its own case; the debugger's steps go through two lemmas,
`Beside` (the trap goes on afterwards) and `Forgets`. Theorems:
`ConsoleTypeCorrect`, `RegistersAlwaysKept`, `KeysAlwaysFresh`.

`Shown`, inductive beside `IInv`, follows the display: `Within` says which trap
was called when a routine runs, `ShownFirst` that nothing is displayed before
and that OUT writes only after it has seen the display ready (the debugger's own
look at the DSR cannot make it busy again), `ShownPuts` and `ShownPutsp` give at
each place of the two loops the number n of characters displayed, that they are
the first n of the string and that the string has not ended before n,
`ShownIn` what IN has displayed of prompt, echo and line feed. Lemmas on
division give the place and the byte of the n-th character, also for strings
that go round the end of memory. Theorem: `AlwaysDisplayedExactly`.

*ScriptsProofs.* `OptionObeyed` with the types, and with what holds at depth 0,
is inductive. Theorems: `ScriptsTypeCorrect`, `ConsoleAlwaysOpen`,
`OptionAlwaysObeyed`.

*DriverProofs.* `StageInv` says which children there can have been at each
stage, and what the flags and the child can be. With it every step of `Driver` maps
to a step or a stutter of `Pipeline`, one lemma per group of actions:
`DriverRefinesPipeline`, the refinement that the run `driver_pipeline` checks
on short command lines. `TempInv` adds where temporary files are: one that
exists, or that the child still alive can create, is on `rmlist` (`Listed`);
the file the paster replaces and the output of `-c` are none (`Kept`); with
`-v -v` there are none (`Dry`); `main` goes on to `rm` only when no child is
left to create one (`Waits`, `Pasteable`). It assumes that an earlier call has
left no temporary file of this process (`DriverConstants`). Theorems:
`TempsRemoved`, `DriverTypeCorrect`.

`Built` speaks of the end of a call and of a file several children have had a
hand in. `BuiltInv` says where its content is before. `NamesInv`: every
temporary name is one of the first `Cardinality(rmlist)`, so that the next one
is new; the file under way is not yet on the linker's list; no file named on
the command line is ever written. As long as nothing has failed and linking
is asked for (`Steady`), `Compiling` holds an argument p for which `Taken(p)`:
the sources on the linker's list, then the file under way, then the arguments
after p that are wanted make up `Wanted`, and an object file is on the list if
and only if it was named up to p (an object file named twice is linked once).
When no argument is left this is `SourcesLinked(llist) = Wanted`, and `Linking`
carries it from the linker's output through the paster to the object file.
That taking the first argument off the line splits `Wanted` where it should,
and that the list's last file adds its sources at the end, are lemmas on
`Only` and `Concat`, by induction on a set of numbers (below). Theorem:
`AlwaysBuilt`.

*VmProofs.* `VmInv` (types; before loading, each machine is as it was
created) is inductive for every program, operating system,
input and content of uninitialised memory; `VmConstants` asks that a character
is a byte or the end of the input, which is what `getchar` returns. Theorems:
`VmTypeCorrect`.

`LockstepHolds` is proved instruction by instruction. `Agree` relates the two
machines: the same registers, pc, memory and output, and the stored flags of
one are the flags of the register the other remembers. Each operation on a
machine (set a register, set flags, jump, store, load, stop) keeps `Agree`
under the conditions its lemma names; `Readable` and `Neutral` are what the
absence of a reason in `apart` gives for the loads and the devices; `BothPerform`
puts the operations together for all sixteen codes and all traps, and `Paired`,
the invariant, says that the machines agree and stop together as long as
`apart` is empty.
The proof found a reason that the model did not name: fetching an instruction
from the KBDR is a keyboard read on both machines, so that a character above
127 differs there as it does for a load. `Reasons` now names it.

`AlwaysConvertKeepsMeaning`: the conversion of every 16-bit word keeps operation
and operands, for every width of the word from 16 to 64 bits, the ones of the
32- and the 64-bit build included. Powers of two are values of the recursive
function `Pow2`, which `Powers` doubles at each step, so that every field's
weight is a multiple of `Unit`, that of the last field but one (`Widths`); the
prover needs no law of powers and no large number. `Divides` says that division
with remainder has one result; with it `Packed0` to `Packed2` and `WithinRest`
find the fields of a sum again, the lemmas `Pack...` say that a field packed
into a word is what the executer's macros take out, and `DecodedShapes` and
`ConvertShapes` list what the decoder and the converter do with each operation
code. TLC, whose integers have 32 bits, checks all 65536 words against a format
of 24.

*LinkerProofs.* `PastedInOrder` relates lines printed to lines asked for and is
not inductive. `PasteInv` adds `Streams` (the number of the last line stored
for a file, or kept in `i` while `OutputSource` reads, is the number of lines
pieces read from its stream), `Printed` (what is printed of a file is what is
not blank of the pieces read, each under the number of pieces so far and in
order) and `Reached` (after a directive as many pieces have been read, or the
file has ended). `Numbered` relates the two ways of counting: as long as every
piece ends in a newline, the number of a piece is that of its line, and after
one that does not it is never again. For the proof
`OutputSource` was taken apart into one step per line, as the loop in the code
goes. `SourcePaste` is proved for every output of the linker, `lc3pp` itself only
leaves the paster alone. Theorems: `PasteInductive`, `AlwaysPastedInOrder`.

`AddressComputed` is about `calculate_address` alone: for every offset the
instructions, of which `Leads` writes out the values one by one, end at R4 plus
the offset, from any content of a register other than R4, and each immediate
fits.

`AddressExact` says more: that the offset is the variable's place in the data
section that is written, for all files, libraries and sizes. The linker adds up
sizes in `g_vars`, the data section is what it prints, and the two are written
at different times. `LinkInv` follows the link from its first scan.
`Scanning` and `Copying` say that neither the main file nor the one imported
from is read beyond its `.END` (`MainPlace`, `ImportPlace`: a definition found
by its `.global` has a declaration or a `RET` ahead) and that a `.FILL` or
`.BLKW` never reaches `full_file` without a declaration before it
(`Together`), so that its size is always added to a variable that exists.
`Separating` keeps `Laid`: an increasing map takes each entry of `g_vars` to the
declaration in the data section that it stands for, with the same sum of sizes
before it; both sums end alike. `Emitted` says that the code of each
`.LC3GLOBAL` was computed from the sum before its name's first entry. With `Laid`
that is the first declaration of the name in the output. Theorems:
`AlwaysLinkInv`, `AlwaysAddressExact`.

Induction. The library's theorems take the statement as an operator, which no
installed prover can instantiate; `Induction` in LinkerProofs, DriverProofs and
VmProofs says it of a set of numbers instead and follows from
`NatLessThanWellFounded` and `WFMin`. It gives what the recursive functions
`SizesTo`, `Concat` and `Pow2` compute, one step at a time.

Only model-checked, and why:

* liveness (`GuiInputGetsAttention`, `CtrlCStops`, `SquashEnds`, `KeySeen`,
  `OutputReturns`, `FailureUnwinds`, `Ends`): fairness is out of the prover's
  reach;
* `LinkedOnce`: that every name used is defined once in the output depends on
  what the compiler promises of all files together (which names occur, how
  `.extern` and `.global` match, what the library defines) beside the six
  exceptions, and on every place from which a line was copied; none of this is in
  `LinkInv`, which is about sizes;
* the preprocessor and the compiler (`Meaning`, `LinesInStep`, `FullyExpanded`,
  `TokensStaySeparate`, `FoldExact`, `LiveHeld`, `CodeExact`, `FlowExact`): their
  modules use recursive operators and bitwise operations (`CppExpr`, `Fold`,
  `Dag`, `Gen`, `Stmt` and what extends them), of which nothing can be proved
  for every input.

## Not modelled

* the Tcl program of `lc3sim-tk` beyond the command lines it sends;
* `lc3convert`, which keeps no state beyond the words it has read;
* the library in LC-3 assembly (`lc3lib`), beyond the trap routines it calls;
* the compiler's scanner, declarations and types (`lex.c`, `decl.c`,
  `types.c`): a parser of a whole language, whose result is the input of
  `Fold` and `Stmt`; the output of other back ends; `lburg`, which
  runs when the compiler is built;
* the wide builds of the assembler and of `lc3sim`, the listing, VHDL and
  binary text outputs, and the text of all messages;
* the generated lexer tables.
