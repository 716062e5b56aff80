------------------------------- MODULE MC_Subs -------------------------------
(* TLC's instance of Subscriptions. *)
EXTENDS Subscriptions, TLC

SubsSymmetry == Permutations(Worker) \cup Permutations(Customer) \cup Permutations(Sub)
=============================================================================
