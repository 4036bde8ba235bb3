----------------------------- MODULE MCScripts -----------------------------
(* The code's own limit on the depth of scripts.                           *)
EXTENDS Scripts
MCDepth == 10
=============================================================================
