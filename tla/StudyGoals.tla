----------------------------- MODULE StudyGoals -----------------------------
(***************************************************************************)
(* One person's goal for one period, and the notification that it has been *)
(* reached (apps/api/src/services/goal.service.js), with the sessions that *)
(* feed it.  There is no flag that a goal was announced: the announcement  *)
(* is made when progress is at the target now and was below it without the *)
(* minutes of the session that has just ended.  Times are minutes.         *)
(***************************************************************************)
EXTENDS Integers, FiniteSets, FiniteSetsExt

CONSTANTS
    Session,            \* the sessions of one person, one running at a time
    Targets,            \* the targets the person may set
    PeriodLength,       \* the length of the goal's period
    MaxPending,         \* bound: closes whose announcement is still to come
    MaxClock            \* bound: the clock

ASSUME GoalsAssumption ==
    /\ IsFiniteSet(Session)
    /\ Targets \subseteq Nat \ {0}
    /\ PeriodLength \in Nat \ {0}
    /\ MaxPending \in Nat /\ MaxClock \in Nat

VARIABLES
    clock,
    target,     \* the goals row's targetMinutes, NoGoal when there is none
    session,    \* state, start and end of each session
    pending,    \* sessions ended, notifyGoalsReached still to come
    announced,  \* GOAL_REACHED notifications since the target was set, or last unmet
                \* by a deletion
    metWhenSet, \* the target was already met in this period when it was set
    overtaken   \* history: a close or a deletion came before the announcement of
                \* another close, whose progress it changes

goalVars == <<clock, target, session, pending, announced, metWhenSet, overtaken>>

NoGoal == 0
Time == 0..MaxClock
GoalSessionStates == {"new", "running", "ended", "abandoned", "deleted"}

GoalsInit ==
    /\ clock = 0
    /\ target = NoGoal
    /\ session = [s \in Session |-> [st |-> "new", start |-> 0, end |-> 0]]
    /\ pending = {}
    /\ announced = 0
    /\ metWhenSet = FALSE
    /\ overtaken = FALSE

-----------------------------------------------------------------------------
\* periodStart: midnight UTC for DAILY, Monday for WEEKLY.
PeriodStart(t) == t - (t % PeriodLength)

Finished(s) == session[s].st \in {"ended", "abandoned"}
Minutes == [s \in Session |-> session[s].end - session[s].start]

\* findCompletedSessionsSince counts a session where it began; sumMinutes.
SinceStartOf(t) == {s \in Session : Finished(s) /\ session[s].start >= PeriodStart(t)}
Earned(sessions) == MapThenSumSet(LAMBDA s : Minutes[s], sessions)
Progress(t) == Earned(SinceStartOf(t))

\* Slip: at the target again counts as not yet reached before.
CrossesLate(progress, minutes) ==
    /\ progress >= target
    /\ progress - minutes <= target

\* The goal is met now, and was not before this session's minutes.
Crosses(progress, minutes) ==
    /\ progress >= target
    /\ progress - minutes < target

Start(s) ==
    /\ clock < MaxClock
    /\ session[s].st = "new"
    /\ \A t \in Session : session[t].st # "running"
    /\ session' = [session EXCEPT ![s] = [@ EXCEPT !.st = "running", !.start = clock]]
    /\ UNCHANGED <<clock, target, pending, announced, metWhenSet, overtaken>>

\* The end of a session is stored; an abandoned one ends at its last sign of
\* life, a tapped one now.
Close(s, st, end) ==
    /\ session[s].st = "running"
    /\ Cardinality(pending) < MaxPending
    /\ end \in session[s].start..clock
    /\ session' = [session EXCEPT ![s] = [@ EXCEPT !.st = st, !.end = end]]
    /\ pending' = pending \cup {s}
    /\ overtaken' = (overtaken \/ pending # {})
    /\ UNCHANGED <<clock, target, announced, metWhenSet>>

\* The person may end a session that began in an earlier period.
End(s) == Close(s, "ended", clock)

Abandon(s, last) == Close(s, "abandoned", last)

\* notifyGoalsReached.  Only the close of an abandoned session says when it
\* started, and only then is a session of an earlier period left out.
NotifyGoalsReached(s) ==
    /\ s \in pending
    /\ pending' = pending \ {s}
    /\ announced' = announced +
         IF /\ target # NoGoal
            /\ session[s].st = "abandoned" => session[s].start >= PeriodStart(clock)
            /\ Crosses(Progress(clock), Minutes[s])
           THEN 1 ELSE 0
    /\ UNCHANGED <<clock, target, session, metWhenSet, overtaken>>

\* PUT and DELETE /goals/:period.
SetGoal(t) ==
    /\ target' = t
    /\ announced' = 0
    /\ metWhenSet' = (t # NoGoal /\ Progress(clock) >= t)
    /\ overtaken' = (Cardinality(pending) > 1)
    /\ UNCHANGED <<clock, session, pending>>

\* deleteSession takes the minutes with it, before or after they were announced.
DeleteSession(s) ==
    LET left == Earned(SinceStartOf(clock) \ {s}) IN
      /\ session[s].st \notin {"new", "deleted"}
      /\ session' = [session EXCEPT ![s] = [@ EXCEPT !.st = "deleted"]]
      /\ IF left < target THEN announced' = 0 /\ metWhenSet' = FALSE
                          ELSE UNCHANGED <<announced, metWhenSet>>
      /\ overtaken' = (overtaken \/ pending # {})
      /\ UNCHANGED <<clock, target, pending>>

\* A new period starts with no progress and nothing announced.
ClockTick ==
    /\ clock < MaxClock
    /\ clock' = clock + 1
    /\ IF PeriodStart(clock + 1) = clock + 1
         THEN announced' = 0 /\ metWhenSet' = FALSE /\ overtaken' = (Cardinality(pending) > 1)
         ELSE UNCHANGED <<announced, metWhenSet, overtaken>>
    /\ UNCHANGED <<target, session, pending>>

GoalsNext ==
    \/ \E s \in Session : \/ Start(s) \/ End(s) \/ NotifyGoalsReached(s) \/ DeleteSession(s)
                          \/ \E last \in Time : Abandon(s, last)
    \/ \E t \in Targets \cup {NoGoal} : SetGoal(t)
    \/ ClockTick

GoalsSpec == GoalsInit /\ [][GoalsNext]_goalVars

-----------------------------------------------------------------------------
\* Every variable keeps its type.
GoalsTypeOK ==
    /\ clock \in Time
    /\ target \in Targets \cup {NoGoal}
    /\ session \in [Session -> [st : GoalSessionStates, start : Time, end : Time]]
    /\ pending \subseteq {s \in Session : session[s].st \notin {"new", "running"}}
    /\ announced \in Nat
    /\ {metWhenSet, overtaken} \subseteq BOOLEAN

\* One announcement per period for a target, however many sessions follow the
\* one that crossed the line (notifyGoalsReached), unless what a close is announced
\* from was changed by another close or by a deletion.
AnnouncedOnce == ~ overtaken => announced <= 1

\* A target that was crossed by study is announced: nobody reaches a goal in
\* silence (notifyGoalsReached), with the same proviso.
ReachedIsAnnounced ==
    target # NoGoal /\ Progress(clock) >= target /\ ~ metWhenSet /\ ~ overtaken
        => announced > 0 \/ pending # {}
=============================================================================
