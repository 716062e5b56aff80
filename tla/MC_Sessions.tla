---------------------------- MODULE MC_Sessions ----------------------------
(***************************************************************************)
(* TLC's instances of StudySessions.  Session ids and request slots are    *)
(* interchangeable in the safety runs; users are not (SomeUser is one of   *)
(* them).                                                                  *)
(***************************************************************************)
EXTENDS StudySessions, TLC

Symmetry == Permutations(Session) \cup Permutations(Request)
=============================================================================
