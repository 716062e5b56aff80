------------------------------- MODULE MC_Cache -------------------------------
(***************************************************************************)
(* TLC's instance of ResponseCache: two reads and two writes in flight, and *)
(* time enough for a counter to expire and its values to be used again.    *)
(***************************************************************************)
EXTENDS ResponseCache, TLC

Symmetry == Permutations(Reader) \cup Permutations(Writer)
=============================================================================
