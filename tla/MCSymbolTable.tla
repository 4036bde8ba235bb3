--------------------------- MODULE MCSymbolTable ---------------------------
(* Instances of SymbolTable for TLC: two of the names share a bucket.      *)
EXTENDS SymbolTable, TLC

CONSTANTS n1, n2, n3

MCHash == n1 :> 0 @@ n2 :> 0 @@ n3 :> 1
=============================================================================
