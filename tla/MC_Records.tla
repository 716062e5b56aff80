----------------------------- MODULE MC_Records -----------------------------
(***************************************************************************)
(* TLC's instance of the refresh tokens of two users and of the focus      *)
(* estimate of one.  They share no variable, so a behaviour is a behaviour *)
(* of one of them, the one `part' names, with the other where it begins.   *)
(***************************************************************************)
EXTENDS RefreshTokens, FocusEstimate, TLC

VARIABLE part

recordVars == <<part, tokenVars, estimateVars>>

Init ==
    /\ part \in {"tokens", "estimate"}
    /\ TokensInit /\ EstimateInit

In(p, A) == part = p /\ A

Next ==
    \/ In("tokens", TokensNext) /\ UNCHANGED <<part, estimateVars>>
    \/ In("estimate", EstimateNext) /\ UNCHANGED <<part, tokenVars>>

Spec == Init /\ [][Next]_recordVars

\* Every variable of both parts keeps its type.
TypeOK ==
    /\ part = "tokens" => TokensTypeOK
    /\ part = "estimate" => EstimateTypeOK

\* ScoringIsFair and BaselineIsOfAllReadings: the arithmetic (focusScoring.js).
ScoringIsSound == part = "estimate" => ScoringIsFair /\ BaselineIsOfAllReadings

\* The requests of both parts are the same two values.
Symmetry == Permutations(Token) \cup Permutations(Request)
=============================================================================
