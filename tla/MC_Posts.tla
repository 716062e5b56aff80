------------------------------- MODULE MC_Posts -------------------------------
(* TLC's instances of CommunityPosts. *)
EXTENDS CommunityPosts, TLC

Symmetry == Permutations(Handler) \cup Permutations(Person)
=============================================================================
