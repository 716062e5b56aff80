---------------------------- MODULE SessionRules ----------------------------
(***************************************************************************)
(* The rules of apps/api/src/services/session.service.js that read no      *)
(* table: when a session counts as abandoned, when the sweep may close it, *)
(* where an end is clamped, what a close is worth.  Times are minutes on   *)
(* one clock.                                                              *)
(***************************************************************************)
EXTENDS Integers

CONSTANTS
    AbandonedAfter,     \* ABANDONED_AFTER_MS: silence before start/join closes
    SweepSilence,       \* SWEEP_SILENCE_MS: silence before the sweep looks
    SweepPastPlan,      \* SWEEP_PAST_PLAN_MS: how far past its plan
    SweepOpenEnded,     \* SWEEP_OPEN_ENDED_SILENCE_MS: silence with no plan
    PointsPerMinute,    \* FOCUS_POINTS_PER_MINUTE
    PenaltyPoints       \* INTERRUPTION_PENALTY_POINTS

\* The order the comments of session.service.js:57-73 argue for: the sweep is
\* far gentler than the rule that runs when the user starts something else.
ASSUME RulesAssumption ==
    /\ AbandonedAfter \in Nat /\ SweepSilence \in Nat
    /\ SweepPastPlan \in Nat /\ SweepOpenEnded \in Nat
    /\ PointsPerMinute \in Nat /\ PenaltyPoints \in Nat
    /\ AbandonedAfter <= SweepSilence
    /\ SweepSilence <= SweepOpenEnded

NoPlan == 0     \* plannedMinutes null: the code tests it for truth

AtLeast(a, b) == IF a >= b THEN a ELSE b
AtMost(a, b) == IF a <= b THEN a ELSE b

\* Newest moment an open session showed it was still being used; a session with
\* no sample and no interruption has only its start (a missing one counts 0).
LastSignOfLife(startedAt, sample, interruption) ==
    AtLeast(startedAt, AtLeast(sample, interruption))

IsAbandoned(last, now) == now - last >= AbandonedAfter

\* Slips: forgetting the silence, forgetting the sessions with no plan.
SweepDueBusy(startedAt, planned, last, now) ==
    IF planned # NoPlan
      THEN now >= startedAt + planned + SweepPastPlan
      ELSE now - last >= SweepOpenEnded

SweepDuePlanned(startedAt, planned, last, now) ==
    /\ now - last >= SweepSilence
    /\ planned # NoPlan
    /\ now >= startedAt + planned + SweepPastPlan

SweepDue(startedAt, planned, last, now) ==
    /\ now - last >= SweepSilence
    /\ IF planned # NoPlan
         THEN now >= startedAt + planned + SweepPastPlan
         ELSE now - last >= SweepOpenEnded

\* Slip: the floor without the ceiling, so a fast clock lengthens the session.
ClampedEndNoCeiling(startedAt, tapped, now) == AtLeast(startedAt, tapped)

\* The tapped end is clamped to [startedAt, now]; the start wins over the tap.
ClampedEnd(startedAt, tapped, now) == AtMost(now, AtLeast(startedAt, tapped))

MinutesStudied(startedAt, endedAt) == AtLeast(0, endedAt - startedAt)

\* Slip: penalties may take the points below zero.
FocusPointsNoFloor(startedAt, endedAt, penalties) ==
    MinutesStudied(startedAt, endedAt) * PointsPerMinute - penalties * PenaltyPoints

FocusPoints(startedAt, endedAt, penalties) ==
    AtLeast(0, MinutesStudied(startedAt, endedAt) * PointsPerMinute
                 - penalties * PenaltyPoints)

\* A joiner plans the host's remaining time, at least a minute of it.
RemainingPlan(planned, startedAt, now) ==
    IF planned = NoPlan THEN NoPlan ELSE AtLeast(1, planned - (now - startedAt))
=============================================================================
