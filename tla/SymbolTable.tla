---------------------------- MODULE SymbolTable ----------------------------
(***************************************************************************)
(* The symbol table of the LC-3 simulator: lc3tools/symbol.c, built with   *)
(* MAP_LOCATION_TO_SYMBOL, and the functions of lc3sim.c that fill and     *)
(* empty it.  A symbol is linked twice: by name, in the hash chain of its  *)
(* bucket, and by location, in the list of its address.                    *)
(*                                                                         *)
(* A name stands for all its spellings, since both the hash and the        *)
(* comparison ignore case.  Names in a chain are distinct, so the order of *)
(* a chain shows nowhere and a chain is a set; the head of a location's    *)
(* list is the label the disassembler prints, so that is a sequence.       *)
(***************************************************************************)
EXTENDS Integers, Sequences

CONSTANTS
  Name,     \* symbols, up to case
  Bucket,   \* 0 .. SYMBOL_HASH - 1
  Hash,     \* symbol_hash
  NumLocs   \* number of locations (65536 in the code)

Loc == 0 .. NumLocs - 1

ASSUME TableConstants ==
  /\ NumLocs \in Nat \ {0}
  /\ Hash \in [Name -> Bucket]

VARIABLES
  lc3_sym_hash,   \* the names in each bucket's chain
  lc3_sym_names,  \* the names in each location's list
  addr,           \* sym->addr, for the symbols in the table
  at,             \* what is running: a member of Phase
  first,          \* start of the region being loaded
  addr_s, addr_e  \* the arguments of squash_symbols, as it advances

vars == <<lc3_sym_hash, lc3_sym_names, addr, at, first, addr_s, addr_e>>
tables == <<lc3_sym_hash, lc3_sym_names, addr>>

(* "idle" no file is being read; "squash" in squash_symbols; "adding" in   *)
(* read_sym_file; "crash" after a walk off the end of a hash chain.        *)
Phase == {"idle", "squash", "adding", "crash"}

Listed(a) == {lc3_sym_names[a][i] : i \in 1 .. Len(lc3_sym_names[a])}

\* The symbols that find_symbol finds.
Known == {n \in Name : n \in lc3_sym_hash[Hash[n]]}

Init ==
  /\ lc3_sym_hash = [b \in Bucket |-> {}]
  /\ lc3_sym_names = [a \in Loc |-> <<>>]
  /\ addr = [n \in Name |-> 0]   \* meaningless until a symbol is added
  /\ at = "idle"
  /\ first = 0 /\ addr_s = 0 /\ addr_e = 0

\* read_obj_file calls squash_symbols for the words it loaded.
read_obj_file(s, e) ==
  /\ at = "idle"
  /\ at' = "squash"
  /\ first' = s /\ addr_s' = s /\ addr_e' = e
  /\ UNCHANGED tables

\* init_machine forgets every symbol before it loads the OS.
init_machine(s, e) ==
  /\ at = "idle"
  /\ lc3_sym_hash' = [b \in Bucket |-> {}]
  /\ lc3_sym_names' = [a \in Loc |-> <<>>]
  /\ at' = "squash"
  /\ first' = s /\ addr_s' = s /\ addr_e' = e
  /\ UNCHANGED addr

\* Mutant: the symbols at a location stay in their hash chains.
MutRemoveNameOnly(a) ==
  /\ lc3_sym_names' = [lc3_sym_names EXCEPT ![a] = <<>>]
  /\ UNCHANGED lc3_sym_hash

(* remove_symbol_at_addr: every symbol of the location's list is looked up *)
(* in its chain, which must hold it, and unlinked from both.               *)
remove_symbol_at_addr(a) ==
  /\ lc3_sym_hash' = [b \in Bucket |-> lc3_sym_hash[b] \ Listed(a)]
  /\ lc3_sym_names' = [lc3_sym_names EXCEPT ![a] = <<>>]

\* Mutant: the address stays at the end of memory.
MutAdvanceSaturated == IF addr_s = NumLocs - 1 THEN addr_s ELSE addr_s + 1

Advanced == (addr_s + 1) % NumLocs

squash_symbols ==
  /\ at = "squash" /\ addr_s # addr_e
  /\ IF Listed(addr_s) \subseteq Known
     THEN remove_symbol_at_addr(addr_s) /\ at' = "squash"
     ELSE UNCHANGED <<lc3_sym_hash, lc3_sym_names>> /\ at' = "crash"
  /\ addr_s' = Advanced
  /\ UNCHANGED <<addr, first, addr_e>>

\* The object file is loaded; read_sym_file opens the symbol file, or fails.
SquashDone(opened) ==
  /\ at = "squash" /\ addr_s = addr_e
  /\ at' = IF opened THEN "adding" ELSE "idle"
  /\ UNCHANGED <<tables, first, addr_s, addr_e>>

\* cmd_file with a symbol file.
cmd_file_sym ==
  /\ at = "idle"
  /\ at' = "adding"
  /\ UNCHANGED <<tables, first, addr_s, addr_e>>

\* add_symbol with dup_ok set, for a line of the symbol file.
add_symbol(n, a) ==
  /\ at = "adding"
  /\ IF n \in Known
     THEN UNCHANGED <<lc3_sym_hash, lc3_sym_names>>
     ELSE /\ lc3_sym_hash' = [lc3_sym_hash EXCEPT ![Hash[n]] = @ \cup {n}]
          /\ lc3_sym_names' = [lc3_sym_names EXCEPT ![a] = <<n>> \o @]
  /\ addr' = [addr EXCEPT ![n] = a]
  /\ UNCHANGED <<at, first, addr_s, addr_e>>

\* read_sym_file reaches the end of the file or a line it cannot parse.
SymbolsRead ==
  /\ at = "adding"
  /\ at' = "idle"
  /\ UNCHANGED <<tables, first, addr_s, addr_e>>

Next ==
  \/ \E s, e \in Loc : read_obj_file(s, e) \/ init_machine(s, e)
  \/ squash_symbols
  \/ \E opened \in BOOLEAN : SquashDone(opened)
  \/ cmd_file_sym
  \/ \E n \in Name, a \in Loc : add_symbol(n, a)
  \/ SymbolsRead

Spec == Init /\ [][Next]_vars

\* The simulator does not stop in the middle of squash_symbols.
FairSpec == Spec /\ WF_vars(squash_symbols)

----------------------------------------------------------------------------
\* Every variable keeps its type.
TypeOK ==
  /\ lc3_sym_hash \in [Bucket -> SUBSET Name]
  /\ lc3_sym_names \in [Loc -> Seq(Name)]
  /\ addr \in [Name -> Loc]
  /\ at \in Phase
  /\ first \in Loc /\ addr_s \in Loc /\ addr_e \in Loc

(* The two ways of linking hold the same symbols, each one once: a chain   *)
(* holds only names of its own bucket, a name in a chain is in the list of *)
(* exactly one location, and a name in a list is in its chain.  The loop   *)
(* of remove_symbol_at_addr has no other end than finding its symbol.      *)
TablesAgree ==
  /\ \A b \in Bucket : \A n \in lc3_sym_hash[b] : Hash[n] = b
  /\ \A a \in Loc : \A i \in DOMAIN lc3_sym_names[a] :
       lc3_sym_names[a][i] \in Known
  /\ \A n \in Known : \E a \in Loc : \E i \in DOMAIN lc3_sym_names[a] :
       lc3_sym_names[a][i] = n
  /\ \A a, c \in Loc :
       \A i \in DOMAIN lc3_sym_names[a], j \in DOMAIN lc3_sym_names[c] :
         lc3_sym_names[a][i] = lc3_sym_names[c][j] => a = c /\ i = j

\* remove_symbol_at_addr never walks off the end of a hash chain.
NoWildUnlink == at # "crash"

\* squash_symbols ends, also for a region that wraps around the end of memory.
SquashEnds == at = "squash" ~> (at = "squash" /\ addr_s = addr_e)

(* "removed symbols from region of memory into which new code is loaded in *)
(* simulator" (CHANGE_LOG, 19 October 2003): after squash_symbols no       *)
(* symbol's address is in the region that was loaded.                      *)
Region == {a \in Loc : (a - first) % NumLocs < (addr_e - first) % NumLocs}
RegionSquashed ==
  at = "squash" /\ addr_s = addr_e => \A n \in Known : addr[n] \notin Region
=============================================================================
