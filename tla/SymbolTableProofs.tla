------------------------- MODULE SymbolTableProofs -------------------------
(***************************************************************************)
(* The two ways the simulator links its symbols always agree, so that      *)
(* remove_symbol_at_addr always finds the symbol it unlinks: proofs for    *)
(* every set of names, every hash function and every number of locations.  *)
(***************************************************************************)
EXTENDS SymbolTable, TLAPS

IInv == TypeOK /\ TablesAgree /\ NoWildUnlink

\* What it means to put a name at the front of a location's list.
LEMMA Front ==
  ASSUME NEW s \in Seq(Name), NEW n \in Name
  PROVE  /\ <<n>> \o s \in Seq(Name)
         /\ DOMAIN (<<n>> \o s) = 1 .. Len(s) + 1
         /\ (<<n>> \o s)[1] = n
         /\ \A i \in DOMAIN s : (<<n>> \o s)[i + 1] = s[i]
         /\ \A i \in DOMAIN (<<n>> \o s) : i # 1 => /\ i - 1 \in DOMAIN s
                                                   /\ (<<n>> \o s)[i] = s[i - 1]
  OBVIOUS

\* The names of a location's list.
LEMMA ListedNames ==
  ASSUME TypeOK, NEW a \in Loc
  PROVE  \A n : n \in Listed(a) <=>
                  \E i \in DOMAIN lc3_sym_names[a] : lc3_sym_names[a][i] = n
  BY DEF Listed, TypeOK

(* The invariant holds of empty tables.                                    *)
LEMMA InitIInv == Init => IInv
  BY TableConstants
  DEF Init, IInv, TypeOK, TablesAgree, NoWildUnlink, Known, Phase, Loc

\* Unlinking the symbols of a location keeps the tables in agreement.
LEMMA RemoveKeeps ==
  ASSUME IInv, NEW a \in Loc, remove_symbol_at_addr(a)
  PROVE  /\ lc3_sym_hash' \in [Bucket -> SUBSET Name]
         /\ lc3_sym_names' \in [Loc -> Seq(Name)]
         /\ TablesAgree'
<1>1. /\ lc3_sym_hash' \in [Bucket -> SUBSET Name]
      /\ lc3_sym_names' \in [Loc -> Seq(Name)]
  BY DEF remove_symbol_at_addr, IInv, TypeOK
<1>2. Known' = Known \ Listed(a)
  BY TableConstants DEF remove_symbol_at_addr, IInv, TypeOK, Known
<1>3. \A b \in Bucket : \A n \in lc3_sym_hash'[b] : Hash[n] = b
  BY DEF remove_symbol_at_addr, IInv, TypeOK, TablesAgree
<1>4. \A c \in Loc : lc3_sym_names'[c] = IF c = a THEN <<>> ELSE lc3_sym_names[c]
  BY DEF remove_symbol_at_addr, IInv, TypeOK
<1>5. \A c \in Loc : \A i \in DOMAIN lc3_sym_names'[c] :
        /\ c # a
        /\ i \in DOMAIN lc3_sym_names[c]
        /\ lc3_sym_names'[c][i] = lc3_sym_names[c][i]
  BY <1>4
<1>6. \A c \in Loc : \A i \in DOMAIN lc3_sym_names'[c] :
        lc3_sym_names'[c][i] \in Known'
  BY <1>2, <1>5, ListedNames DEF IInv, TablesAgree
<1>7. \A n \in Known' : \E c \in Loc : \E i \in DOMAIN lc3_sym_names'[c] :
        lc3_sym_names'[c][i] = n
  <2>1. SUFFICES ASSUME NEW n \in Known'
                 PROVE  \E c \in Loc : \E i \in DOMAIN lc3_sym_names'[c] :
                          lc3_sym_names'[c][i] = n
    OBVIOUS
  <2>2. PICK c \in Loc : \E i \in DOMAIN lc3_sym_names[c] : lc3_sym_names[c][i] = n
    BY <1>2 DEF IInv, TablesAgree
  <2>3. c # a
    BY <1>2, <2>2, ListedNames DEF IInv
  <2>4. QED
    BY <1>4, <2>2, <2>3
<1>8. \A c, d \in Loc :
        \A i \in DOMAIN lc3_sym_names'[c], j \in DOMAIN lc3_sym_names'[d] :
          lc3_sym_names'[c][i] = lc3_sym_names'[d][j] => c = d /\ i = j
  BY <1>5 DEF IInv, TablesAgree
<1>9. QED
  BY <1>1, <1>3, <1>6, <1>7, <1>8 DEF TablesAgree

\* Linking a symbol that the table does not know keeps the tables in agreement.
LEMMA AddKeeps ==
  ASSUME IInv, NEW n \in Name, NEW a \in Loc, n \notin Known,
         lc3_sym_hash' = [lc3_sym_hash EXCEPT ![Hash[n]] = @ \cup {n}],
         lc3_sym_names' = [lc3_sym_names EXCEPT ![a] = <<n>> \o @]
  PROVE  /\ lc3_sym_hash' \in [Bucket -> SUBSET Name]
         /\ lc3_sym_names' \in [Loc -> Seq(Name)]
         /\ TablesAgree'
<1> DEFINE old == lc3_sym_names[a]
           new == lc3_sym_names'[a]
<1>1. lc3_sym_hash' \in [Bucket -> SUBSET Name]
  BY TableConstants DEF IInv, TypeOK
<1>2. old \in Seq(Name)
  BY DEF IInv, TypeOK
<1>3. /\ new = <<n>> \o old
      /\ \A c \in Loc : c # a => lc3_sym_names'[c] = lc3_sym_names[c]
  BY DEF IInv, TypeOK
<1>4. /\ new \in Seq(Name)
      /\ 1 \in DOMAIN new /\ new[1] = n
      /\ \A i \in DOMAIN old : i + 1 \in DOMAIN new /\ new[i + 1] = old[i]
      /\ \A i \in DOMAIN new : i # 1 => i - 1 \in DOMAIN old /\ new[i] = old[i - 1]
      /\ DOMAIN old \subseteq Nat /\ DOMAIN new \subseteq Nat
  BY <1>2, <1>3, Front
<1>5. lc3_sym_names' \in [Loc -> Seq(Name)]
  BY <1>2, Front DEF IInv, TypeOK
<1>6. Known' = Known \cup {n}
  BY TableConstants DEF IInv, TypeOK, Known
<1>7. \A b \in Bucket : \A m \in lc3_sym_hash'[b] : Hash[m] = b
  BY TableConstants DEF IInv, TypeOK, TablesAgree
<1> HIDE DEF old, new
<1>8. \A c \in Loc : \A i \in DOMAIN lc3_sym_names'[c] :
        \/ /\ lc3_sym_names'[c][i] = n
           /\ c = a /\ i = 1
        \/ /\ lc3_sym_names'[c][i] \in Known
           /\ c # a /\ i \in DOMAIN lc3_sym_names[c]
           /\ lc3_sym_names'[c][i] = lc3_sym_names[c][i]
        \/ /\ lc3_sym_names'[c][i] \in Known
           /\ c = a /\ i # 1 /\ i \in Nat /\ i - 1 \in DOMAIN lc3_sym_names[c]
           /\ lc3_sym_names'[c][i] = lc3_sym_names[c][i - 1]
  BY <1>3, <1>4 DEF IInv, TablesAgree, old, new
<1>9. \A c \in Loc : \A i \in DOMAIN lc3_sym_names'[c] :
        lc3_sym_names'[c][i] \in Known'
  BY <1>6, <1>8
<1>10. \A m \in Known' : \E c \in Loc : \E i \in DOMAIN lc3_sym_names'[c] :
         lc3_sym_names'[c][i] = m
  <2>1. ASSUME NEW m \in Known
        PROVE  \E c \in Loc : \E i \in DOMAIN lc3_sym_names'[c] :
                 lc3_sym_names'[c][i] = m
    <3>1. PICK c \in Loc : \E i \in DOMAIN lc3_sym_names[c] : lc3_sym_names[c][i] = m
      BY DEF IInv, TablesAgree
    <3>2. CASE c = a
      <4>1. PICK i \in DOMAIN old : old[i] = m
        BY <3>1, <3>2 DEF old
      <4>2. i + 1 \in DOMAIN lc3_sym_names'[a] /\ lc3_sym_names'[a][i + 1] = m
        BY <4>1, <1>4 DEF new
      <4>3. QED
        BY <4>2, Zenon
    <3>3. CASE c # a
      BY <1>3, <3>1, <3>3
    <3>4. QED
      BY <3>2, <3>3
  <2>2. 1 \in DOMAIN lc3_sym_names'[a] /\ lc3_sym_names'[a][1] = n
    BY <1>4 DEF new
  <2>3. \A m \in Known' : m \in Known \/ m = n
    BY <1>6
  <2>4. SUFFICES ASSUME NEW m \in Known'
                 PROVE  \E c \in Loc : \E i \in DOMAIN lc3_sym_names'[c] :
                          lc3_sym_names'[c][i] = m
    OBVIOUS
  <2>5. CASE m \in Known
    BY <2>1, <2>5
  <2>6. CASE m = n
    BY <2>2, <2>6
  <2>7. QED
    BY <2>3, <2>5, <2>6
<1>11. \A c, d \in Loc :
         \A i \in DOMAIN lc3_sym_names'[c], j \in DOMAIN lc3_sym_names'[d] :
           lc3_sym_names'[c][i] = lc3_sym_names'[d][j] => c = d /\ i = j
  <2> SUFFICES ASSUME NEW c \in Loc, NEW d \in Loc,
                      NEW i \in DOMAIN lc3_sym_names'[c],
                      NEW j \in DOMAIN lc3_sym_names'[d],
                      lc3_sym_names'[c][i] = lc3_sym_names'[d][j]
               PROVE  c = d /\ i = j
    OBVIOUS
  <2>1. \A e, f \in Loc :
          \A k \in DOMAIN lc3_sym_names[e], l \in DOMAIN lc3_sym_names[f] :
            lc3_sym_names[e][k] = lc3_sym_names[f][l] => e = f /\ k = l
    BY DEF IInv, TablesAgree
  <2>2. CASE lc3_sym_names'[c][i] = n
    BY <1>8, <2>2
  <2>3. CASE lc3_sym_names'[c][i] # n
    <3>1. \/ c # a /\ i \in DOMAIN lc3_sym_names[c]
             /\ lc3_sym_names'[c][i] = lc3_sym_names[c][i]
          \/ c = a /\ i \in Nat /\ i - 1 \in DOMAIN lc3_sym_names[c]
             /\ lc3_sym_names'[c][i] = lc3_sym_names[c][i - 1]
      BY <1>8, <2>3
    <3>2. \/ d # a /\ j \in DOMAIN lc3_sym_names[d]
             /\ lc3_sym_names'[d][j] = lc3_sym_names[d][j]
          \/ d = a /\ j \in Nat /\ j - 1 \in DOMAIN lc3_sym_names[d]
             /\ lc3_sym_names'[d][j] = lc3_sym_names[d][j - 1]
      BY <1>8, <2>3
    <3>3. QED
      BY <2>1, <3>1, <3>2
  <2>4. QED
    BY <2>2, <2>3
<1>12. QED
  BY <1>1, <1>5, <1>7, <1>9, <1>10, <1>11 DEF TablesAgree

\* Every step keeps the tables in agreement.
LEMMA NextIInv == IInv /\ [Next]_vars => IInv'
<1> SUFFICES ASSUME IInv, [Next]_vars PROVE IInv'
  OBVIOUS
<1>1. ASSUME NEW s \in Loc, NEW e \in Loc, read_obj_file(s, e) PROVE IInv'
  BY <1>1 DEF read_obj_file, tables, IInv, TypeOK, TablesAgree, NoWildUnlink,
              Known, Phase
<1>2. ASSUME NEW s \in Loc, NEW e \in Loc, init_machine(s, e) PROVE IInv'
  BY <1>2, TableConstants
  DEF init_machine, IInv, TypeOK, TablesAgree, NoWildUnlink, Known, Phase
<1>3. CASE squash_symbols
  <2>1. addr_s \in Loc /\ Advanced \in Loc
    BY TableConstants DEF IInv, TypeOK, Advanced, Loc
  <2>2. Listed(addr_s) \subseteq Known
    BY <2>1, ListedNames DEF IInv, TablesAgree
  <2>3. remove_symbol_at_addr(addr_s) /\ at' = "squash"
    BY <1>3, <2>2 DEF squash_symbols
  <2>4. QED
    BY <1>3, <2>1, <2>3, RemoveKeeps
    DEF squash_symbols, IInv, TypeOK, NoWildUnlink, Phase
<1>4. ASSUME NEW opened \in BOOLEAN, SquashDone(opened) PROVE IInv'
  BY <1>4 DEF SquashDone, tables, IInv, TypeOK, TablesAgree, NoWildUnlink,
              Known, Phase
<1>5. CASE cmd_file_sym
  BY <1>5 DEF cmd_file_sym, tables, IInv, TypeOK, TablesAgree, NoWildUnlink,
              Known, Phase
<1>6. ASSUME NEW n \in Name, NEW a \in Loc, add_symbol(n, a) PROVE IInv'
  <2>1. CASE n \in Known
    BY <1>6, <2>1
    DEF add_symbol, IInv, TypeOK, TablesAgree, NoWildUnlink, Known
  <2>2. CASE n \notin Known
    <3>1. /\ lc3_sym_hash' = [lc3_sym_hash EXCEPT ![Hash[n]] = @ \cup {n}]
          /\ lc3_sym_names' = [lc3_sym_names EXCEPT ![a] = <<n>> \o @]
          /\ addr' \in [Name -> Loc]
          /\ UNCHANGED <<at, first, addr_s, addr_e>>
      BY <1>6, <2>2 DEF add_symbol, IInv, TypeOK
    <3>2. QED
      BY <2>2, <3>1, AddKeeps DEF IInv, TypeOK, NoWildUnlink
  <2>3. QED
    BY <2>1, <2>2
<1>7. CASE SymbolsRead
  BY <1>7 DEF SymbolsRead, tables, IInv, TypeOK, TablesAgree, NoWildUnlink,
              Known, Phase
<1>8. CASE UNCHANGED vars
  BY <1>8 DEF vars, IInv, TypeOK, TablesAgree, NoWildUnlink, Known
<1>9. QED
  BY <1>1, <1>2, <1>3, <1>4, <1>5, <1>6, <1>7, <1>8 DEF Next

(* The chains and the lists of the symbol table always hold the same       *)
(* symbols, each once (add_symbol, remove_symbol_at_addr).                 *)
THEOREM TablesAlwaysAgree == Spec => []TablesAgree
<1>1. IInv => TablesAgree
  BY DEF IInv
<1>2. QED
  BY <1>1, InitIInv, NextIInv, PTL DEF Spec

(* remove_symbol_at_addr never runs off the end of a hash chain: its loop  *)
(* "*find != s" needs no other end.                                        *)
THEOREM UnlinkFinds == Spec => []NoWildUnlink
<1>1. IInv => NoWildUnlink
  BY DEF IInv
<1>2. QED
  BY <1>1, InitIInv, NextIInv, PTL DEF Spec
=============================================================================
