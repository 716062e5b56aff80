----------------------------- MODULE StudyStreak -----------------------------
(***************************************************************************)
(* One person's streak (apps/api/src/services/streak.service.js): a row    *)
(* holding a count and a last day, moved by recordStudyDay from whichever  *)
(* handler has just closed a session.  recordStudyDay reads the row and    *)
(* upserts it later, so several calls may be in flight; a late-closed      *)
(* session brings a day that is already past.  Days are UTC days.          *)
(***************************************************************************)
EXTENDS Integers

CONSTANTS
    Caller,         \* calls of recordStudyDay that may be in flight
    Milestones,     \* MILESTONES: counts worth telling someone about
    MaxDay          \* bound: the last day

ASSUME StreakAssumption ==
    /\ MaxDay \in Nat
    /\ Milestones \subseteq Nat

VARIABLES
    today,      \* the server's UTC day
    streak,     \* the streaks row: currentCount and lastActiveDate
    studied,    \* the days recordStudyDay has been called for
    told,       \* milestone notifications raised, per day recorded
    call,       \* the calls in flight: the day, and the count to be written
    serial      \* history: no call has begun while another was in flight

streakVars == <<today, streak, studied, told, call, serial>>

Day == 0..MaxDay
NoRow == [count |-> 0, last |-> -1]     \* no streaks row yet
HasRow(s) == s.last >= 0
Idle == [pc |-> "idle", day |-> 0, count |-> 0]

StreakInit ==
    /\ today = 0
    /\ streak = NoRow
    /\ studied = {}
    /\ told = [d \in Day |-> 0]
    /\ call = [c \in Caller |-> Idle]
    /\ serial = TRUE

-----------------------------------------------------------------------------
\* Slip: only the days before the last one count as recorded.
AlreadyCountedToday(s, day) == HasRow(s) /\ day < s.last

\* A day already counted, or older than one already counted, changes nothing.
AlreadyCounted(s, day) == HasRow(s) /\ day <= s.last

\* Slip: any later day continues the streak.
NextCountAnyGap(s, day) == s.count + 1

\* One day after the last one continues the streak; anything else restarts it.
NextCount(s, day) == IF HasRow(s) /\ day = s.last + 1 THEN s.count + 1 ELSE 1

\* Slip: a lapsed streak is served as it is stored.
EffectiveCountStored(s, now) == s.count

\* The streak expires on read: it is live today and the day after its last day.
EffectiveCount(s, now) == IF HasRow(s) /\ now - s.last <= 1 THEN s.count ELSE 0

\* recordStudyDay, up to deciding the count: endSession records today, the
\* close of an abandoned session the day it started.
BeginRecord(c, day) ==
    /\ call[c].pc = "idle"
    /\ day <= today
    /\ studied' = studied \cup {day}
    /\ serial' = (serial /\ \A d \in Caller : call[d].pc = "idle")
    /\ call' = IF AlreadyCounted(streak, day) THEN call
               ELSE [call EXCEPT ![c] = [pc |-> "upsert", day |-> day,
                                         count |-> NextCount(streak, day)]]
    /\ UNCHANGED <<today, streak, told>>

\* Slip: lastActiveDate is stored as the end of the day, that is the next day.
UpsertNextDay(c) ==
    /\ call[c].pc = "upsert"
    /\ streak' = [count |-> call[c].count, last |-> call[c].day + 1]
    /\ call' = [call EXCEPT ![c] = IF call[c].count \in Milestones
                                     THEN [@ EXCEPT !.pc = "tell"] ELSE Idle]
    /\ UNCHANGED <<today, studied, told, serial>>

\* The upsert, and after it the milestone of the count just written.
Upsert(c) ==
    /\ call[c].pc = "upsert"
    /\ streak' = [count |-> call[c].count, last |-> call[c].day]
    /\ call' = [call EXCEPT ![c] = IF call[c].count \in Milestones
                                     THEN [@ EXCEPT !.pc = "tell"] ELSE Idle]
    /\ UNCHANGED <<today, studied, told, serial>>

\* Slip: a notification whose answer is lost is sent again.
TellMilestoneAgain(c) ==
    /\ call[c].pc = "tell"
    /\ told' = [told EXCEPT ![call[c].day] = @ + 1]
    /\ \/ call' = [call EXCEPT ![c] = Idle]
       \/ told[call[c].day] = 0 /\ UNCHANGED call
    /\ UNCHANGED <<today, streak, studied, serial>>

\* emitNotification, which never throws.
TellMilestone(c) ==
    /\ call[c].pc = "tell"
    /\ told' = [told EXCEPT ![call[c].day] = @ + 1]
    /\ call' = [call EXCEPT ![c] = Idle]
    /\ UNCHANGED <<today, streak, studied, serial>>

NewDay ==
    /\ today < MaxDay
    /\ today' = today + 1
    /\ UNCHANGED <<streak, studied, told, call, serial>>

StreakNext ==
    \/ \E c \in Caller : \/ \E day \in Day : BeginRecord(c, day)
                         \/ Upsert(c)
                         \/ TellMilestone(c)
    \/ NewDay

StreakSpec == StreakInit /\ [][StreakNext]_streakVars

-----------------------------------------------------------------------------
\* Every variable keeps its type.
StreakTypeOK ==
    /\ today \in Day
    /\ streak \in [count : Nat, last : Day \cup {-1}]
    /\ studied \subseteq Day
    /\ told \in [Day -> Nat]
    /\ call \in [Caller -> [pc : {"idle", "upsert", "tell"}, day : Day, count : Nat]]
    /\ serial \in BOOLEAN

\* The count days up to and including last are all days in S.
Run(S, last, count) == \A k \in 0..(count - 1) : last - k \in S

\* However calls overlap, a streak of n days means n consecutive days that were
\* each recorded as studied, none of them in the future (recordStudyDay).
StreakIsEarned ==
    /\ Run(studied, streak.last, streak.count)
    /\ streak.last <= today

\* A streak shown to anyone is current: its days run up to today or yesterday
\* (toEffectiveStreak).
ServedStreakIsLive ==
    LET n == EffectiveCount(streak, today)
    IN  n > 0 => \E last \in {today, today - 1} : Run(studied, last, n)

\* While calls do not overlap, a streak is restarted only by a later day, when
\* the day after its last one has not been studied: a late-closed session or a
\* second one of the day resets nothing (recordStudyDay).
ResetOnlyOnGap ==
    [][serial /\ streak' # streak /\ streak'.count <= streak.count
         => (streak.last + 1) \notin studied /\ streak'.last > streak.last]_streakVars

\* While calls do not overlap, a milestone is told once for the day that reached
\* it: there is no de-duplication but the same-day check (recordStudyDay).
MilestoneOnce == serial => \A d \in Day : told[d] <= 1
=============================================================================
