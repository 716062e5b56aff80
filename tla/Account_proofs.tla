---------------------------- MODULE Account_proofs ----------------------------
(***************************************************************************)
(* Proofs about the parts of one person's account that MC_Account checks:  *)
(* the streak (StudyStreak), the password reset (PasswordReset), the       *)
(* subscription (Subscriptions), the goals (StudyGoals) and the            *)
(* notifications (LiveInbox).  No two parts share a variable: a step of    *)
(* the account is a step of each part or leaves it alone, and the last     *)
(* section proves of the whole what the others prove of each.              *)
(***************************************************************************)
EXTENDS MC_Account, Sums_proofs, SequenceTheorems, TLAPS

(***************************************************************************)
(* StudyStreak, for any number of overlapping calls, any milestones and    *)
(* any last day.                                                           *)
(***************************************************************************)

\* What a call in flight may write has been earned: the run it extends was
\* earned when it was read, and recorded days are never taken back.
CallsAreEarned ==
    \A c \in Caller : call[c].pc = "upsert" =>
        /\ Run(studied, call[c].day, call[c].count)
        /\ call[c].day <= today

IInv == StreakTypeOK /\ StreakIsEarned /\ CallsAreEarned

\* A run stays a run when more days are recorded.
LEMMA RunGrows ==
    ASSUME NEW S, NEW T, S \subseteq T, NEW last, NEW count, Run(S, last, count)
    PROVE  Run(T, last, count)
BY DEF Run

\* The day after a run extends it by one; any day is a run of one.
LEMMA NextCountIsEarned ==
    ASSUME NEW S, NEW s \in [count : Nat, last : Day \cup {-1}],
           NEW date \in Day, Run(S, s.last, s.count)
    PROVE  Run(S \cup {date}, date, NextCount(s, date))
<1>1. CASE HasRow(s) /\ date = s.last + 1
  <2> SUFFICES ASSUME NEW k \in 0..s.count PROVE date - k \in S \cup {date}
    BY <1>1 DEF Run, NextCount
  <2>1. CASE k = 0
    BY <2>1 DEF Day
  <2>2. CASE k # 0
    <3>1. k - 1 \in 0..(s.count - 1)
      BY <2>2
    <3>2. s.last - (k - 1) \in S
      BY <3>1 DEF Run
    <3> QED
      BY <1>1, <3>2 DEF Day
  <2> QED
    BY <2>1, <2>2
<1>2. CASE ~ (HasRow(s) /\ date = s.last + 1)
  <2>1. NextCount(s, date) = 1
    BY <1>2 DEF NextCount
  <2> SUFFICES ASSUME NEW k \in 0..0 PROVE date - k \in S \cup {date}
    BY <2>1 DEF Run
  <2> QED
    BY DEF Day
<1> QED
  BY <1>1, <1>2

\* Type correctness: no interleaving takes a variable out of its type.
LEMMA TypeStep == StreakTypeOK /\ [StreakNext]_streakVars => StreakTypeOK'
<1> SUFFICES ASSUME StreakTypeOK, [StreakNext]_streakVars PROVE StreakTypeOK'
  OBVIOUS
<1> USE StreakAssumption DEF StreakTypeOK, Day
<1>1. ASSUME NEW c \in Caller, NEW date \in Day, BeginRecord(c, date) PROVE StreakTypeOK'
  <2>1. NextCount(streak, date) \in Nat
    BY DEF NextCount
  <2> QED
    BY <1>1, <2>1 DEF BeginRecord
<1>2. ASSUME NEW c \in Caller, Upsert(c) PROVE StreakTypeOK'
  <2>1. streak' \in [count : Nat, last : Day \cup {-1}]
    BY <1>2 DEF Upsert
  <2>2. CASE call[c].count \in Milestones
    BY <1>2, <2>1, <2>2 DEF Upsert
  <2>3. CASE call[c].count \notin Milestones
    BY <1>2, <2>1, <2>3 DEF Upsert, Idle
  <2> QED
    BY <2>2, <2>3
<1>3. ASSUME NEW c \in Caller, TellMilestone(c) PROVE StreakTypeOK'
  BY <1>3 DEF TellMilestone, Idle
<1>4. CASE NewDay
  BY <1>4 DEF NewDay
<1>5. CASE UNCHANGED streakVars
  BY <1>5 DEF streakVars
<1> QED
  BY <1>1, <1>2, <1>3, <1>4, <1>5 DEF StreakNext

\* Every step keeps what the row holds, and what calls may still write, earned.
LEMMA EarnedStep == IInv /\ [StreakNext]_streakVars => StreakIsEarned' /\ CallsAreEarned'
<1> SUFFICES ASSUME IInv, [StreakNext]_streakVars PROVE StreakIsEarned' /\ CallsAreEarned'
  OBVIOUS
<1> USE StreakAssumption DEF IInv
<1>1. ASSUME NEW c \in Caller, NEW date \in Day, BeginRecord(c, date)
      PROVE  StreakIsEarned' /\ CallsAreEarned'
  <2>1. studied \subseteq studied' /\ UNCHANGED <<streak, today>> /\ date <= today
    BY <1>1 DEF BeginRecord
  <2>2. StreakIsEarned'
    BY <2>1, RunGrows DEF StreakIsEarned
  <2>3. Run(studied', date, NextCount(streak, date))
    BY <1>1, NextCountIsEarned DEF BeginRecord, StreakIsEarned, StreakTypeOK
  <2>4. ASSUME NEW d \in Caller, call'[d].pc = "upsert"
        PROVE  Run(studied', call'[d].day, call'[d].count) /\ call'[d].day <= today'
    <3>1. CASE call'[d] = call[d]
      <4>1. Run(studied, call[d].day, call[d].count) /\ call[d].day <= today
        BY <3>1, <2>4 DEF CallsAreEarned
      <4> QED
        BY <4>1, <3>1, <2>1, RunGrows
    <3>2. CASE call'[d] # call[d]
      <4>1. call'[d] = [pc |-> "upsert", day |-> date, count |-> NextCount(streak, date)]
        BY <3>2, <1>1 DEF BeginRecord, StreakTypeOK
      <4> QED
        BY <4>1, <2>1, <2>3
    <3> QED
      BY <3>1, <3>2
  <2> QED
    BY <2>2, <2>4 DEF CallsAreEarned
<1>2. ASSUME NEW c \in Caller, Upsert(c) PROVE StreakIsEarned' /\ CallsAreEarned'
  <2>1. UNCHANGED <<studied, today>>
    BY <1>2 DEF Upsert
  <2>2. Run(studied, call[c].day, call[c].count) /\ call[c].day <= today
    BY <1>2 DEF Upsert, CallsAreEarned
  <2>3. StreakIsEarned'
    BY <1>2, <2>1, <2>2 DEF Upsert, StreakIsEarned
  <2>4. \A d \in Caller : call'[d].pc = "upsert" => call'[d] = call[d]
    BY <1>2 DEF Upsert, StreakTypeOK, Idle
  <2> QED
    BY <2>1, <2>3, <2>4 DEF CallsAreEarned
<1>3. ASSUME NEW c \in Caller, TellMilestone(c)
      PROVE  StreakIsEarned' /\ CallsAreEarned'
  <2>1. UNCHANGED <<studied, today, streak>>
    BY <1>3 DEF TellMilestone
  <2>2. \A d \in Caller : call'[d].pc = "upsert" => call'[d] = call[d]
    BY <1>3 DEF TellMilestone, StreakTypeOK, Idle
  <2> QED
    BY <2>1, <2>2 DEF StreakIsEarned, CallsAreEarned
<1>4. CASE NewDay
  <2>1. today' = today + 1 /\ UNCHANGED <<streak, studied, call>>
    BY <1>4 DEF NewDay
  <2>2. today \in Int /\ streak.last \in Int /\ \A c \in Caller : call[c].day \in Int
    BY DEF StreakTypeOK, Day
  <2> QED
    BY <2>1, <2>2 DEF StreakIsEarned, CallsAreEarned
<1>5. CASE UNCHANGED streakVars
  BY <1>5 DEF streakVars, StreakIsEarned, CallsAreEarned
<1> QED
  BY <1>1, <1>2, <1>3, <1>4, <1>5 DEF StreakNext

LEMMA InitIInv == StreakInit => IInv
<1> USE StreakAssumption DEF StreakInit, Day, NoRow, Idle
<1>1. StreakInit => StreakTypeOK
  BY DEF StreakTypeOK
<1>2. StreakInit => StreakIsEarned
  BY DEF StreakIsEarned, Run
<1>3. StreakInit => CallsAreEarned
  BY DEF CallsAreEarned
<1> QED
  BY <1>1, <1>2, <1>3 DEF IInv

\* The strengthening holds in every reachable state.
LEMMA Inductive == StreakSpec => []IInv
<1>1. IInv /\ [StreakNext]_streakVars => IInv'
  BY TypeStep, EarnedStep DEF IInv
<1> QED
  BY InitIInv, <1>1, PTL DEF StreakSpec

\* Type correctness of the streak for every instance.
THEOREM StreakTypeCorrect == StreakSpec => []StreakTypeOK
BY Inductive, PTL DEF IInv

\* However the calls of recordStudyDay overlap, a stored streak of n days is n
\* consecutive studied days.
THEOREM StreakEarned == StreakSpec => []StreakIsEarned
BY Inductive, PTL DEF IInv

\* A streak the API serves is live: it runs up to today or yesterday.
THEOREM ServedStreakLive == StreakSpec => []ServedStreakIsLive
<1>1. IInv => ServedStreakIsLive
  BY DEF IInv, StreakTypeOK, Day, StreakIsEarned, ServedStreakIsLive, EffectiveCount, HasRow
<1> QED
  BY Inductive, <1>1, PTL

-----------------------------------------------------------------------------
(* What holds while calls do not overlap.  One call is under way, what it    *)
(* is about to write still follows from the row, every studied day is in     *)
(* the row or in that call, and a day that was told is in the row.           *)
OneCall == \A c, d \in Caller : call[c].pc # "idle" /\ call[d].pc # "idle" => c = d
StillNext ==
    \A c \in Caller : call[c].pc = "upsert" =>
        ~ AlreadyCounted(streak, call[c].day) /\ call[c].count = NextCount(streak, call[c].day)
StudiedIsKept ==
    \A x \in studied : \/ HasRow(streak) /\ x <= streak.last
                       \/ \E c \in Caller : call[c].pc = "upsert" /\ call[c].day = x
ToldIsKept == \A x \in Day : told[x] > 0 => HasRow(streak) /\ x <= streak.last
TellsOnce ==
    \A c \in Caller : call[c].pc = "tell" =>
        told[call[c].day] = 0 /\ HasRow(streak) /\ call[c].day <= streak.last
NoRowNoCount == ~ HasRow(streak) => streak.count = 0

Serially == OneCall /\ StillNext /\ StudiedIsKept /\ ToldIsKept /\ TellsOnce
                    /\ (\A x \in Day : told[x] <= 1)
SInv == StreakTypeOK /\ NoRowNoCount /\ (serial => Serially)

LEMMA SerialStep == SInv /\ [StreakNext]_streakVars => SInv'
<1> SUFFICES ASSUME SInv, [StreakNext]_streakVars PROVE SInv'
  OBVIOUS
<1>0. StreakTypeOK /\ StreakTypeOK'
  BY TypeStep DEF SInv
<1> USE StreakAssumption, <1>0 DEF SInv
<1>1. ASSUME NEW c \in Caller, NEW date \in Day, BeginRecord(c, date) PROVE SInv'
  <2>1. UNCHANGED <<today, streak, told>> /\ studied' = studied \cup {date}
    BY <1>1 DEF BeginRecord
  <2>2. NoRowNoCount'
    BY <2>1 DEF NoRowNoCount, HasRow
  <2> SUFFICES ASSUME serial' PROVE Serially'
    BY <2>2
  <2>3. serial /\ \A d \in Caller : call[d].pc = "idle"
    BY <1>1 DEF BeginRecord
  <2>4. Serially
    BY <2>3
  <2>5. CASE AlreadyCounted(streak, date)
    <3>1. call' = call
      BY <1>1, <2>5 DEF BeginRecord
    <3> QED
      BY <2>1, <2>3, <2>4, <2>5, <3>1
      DEF Serially, OneCall, StillNext, StudiedIsKept, ToldIsKept, TellsOnce,
          AlreadyCounted, NextCount, HasRow
  <2>6. CASE ~ AlreadyCounted(streak, date)
    <3>1. /\ call'[c] = [pc |-> "upsert", day |-> date, count |-> NextCount(streak, date)]
          /\ \A d \in Caller : d # c => call'[d] = call[d]
      BY <1>1, <2>6 DEF BeginRecord, StreakTypeOK
    <3>2. OneCall' /\ StillNext' /\ TellsOnce'
      BY <2>1, <2>3, <2>6, <3>1
      DEF OneCall, StillNext, TellsOnce, AlreadyCounted, NextCount, HasRow
    <3>3. StudiedIsKept'
      BY <2>1, <2>3, <2>4, <3>1 DEF Serially, StudiedIsKept, HasRow
    <3>4. ToldIsKept' /\ \A x \in Day : told'[x] <= 1
      BY <2>1, <2>4 DEF Serially, ToldIsKept, HasRow
    <3> QED
      BY <3>2, <3>3, <3>4 DEF Serially
  <2> QED
    BY <2>5, <2>6
<1>2. ASSUME NEW c \in Caller, Upsert(c) PROVE SInv'
  <2>1. /\ UNCHANGED <<today, studied, told, serial>> /\ call[c].pc = "upsert"
        /\ streak' = [count |-> call[c].count, last |-> call[c].day]
        /\ call'[c].pc \in {"idle", "tell"}
        /\ call'[c].pc = "tell" => call'[c].day = call[c].day
        /\ \A d \in Caller : d # c => call'[d] = call[d]
    BY <1>2 DEF Upsert, StreakTypeOK, Idle
  <2>2. call[c].day \in Day /\ HasRow(streak')
    BY <2>1 DEF StreakTypeOK, HasRow, Day
  <2>3. NoRowNoCount'
    BY <2>2 DEF NoRowNoCount, HasRow
  <2> SUFFICES ASSUME serial' PROVE Serially'
    BY <2>3
  <2>4. Serially
    BY <2>1
  <2>5. \A d \in Caller : d # c => call[d].pc = "idle"
    BY <2>1, <2>4 DEF Serially, OneCall
  <2>6. HasRow(streak) => streak.last < call[c].day
    BY <2>1, <2>4 DEF Serially, StillNext, AlreadyCounted, StreakTypeOK, Day, HasRow
  <2>7. OneCall' /\ StillNext'
    BY <2>1, <2>5 DEF OneCall, StillNext
  <2>8. StudiedIsKept'
    <3> SUFFICES ASSUME NEW x \in studied PROVE x <= streak'.last
      BY <2>1, <2>2 DEF StudiedIsKept
    <3>1. CASE HasRow(streak) /\ x <= streak.last
      BY <3>1, <2>1, <2>2, <2>6 DEF StreakTypeOK, Day
    <3>2. CASE \E d \in Caller : call[d].pc = "upsert" /\ call[d].day = x
      BY <3>2, <2>1, <2>2, <2>5 DEF Day
    <3> QED
      BY <2>4, <3>1, <3>2 DEF Serially, StudiedIsKept
  <2>9. ToldIsKept' /\ told'[call[c].day] = 0
    <3>1. ASSUME NEW x \in Day, told[x] > 0 PROVE x < call[c].day
      <4>1. HasRow(streak) /\ x <= streak.last
        BY <3>1, <2>4 DEF Serially, ToldIsKept
      <4>2. streak.last \in Int
        BY DEF StreakTypeOK, Day
      <4>3. x \in Int /\ call[c].day \in Int
        BY <2>2 DEF Day
      <4> QED
        BY <4>1, <4>2, <4>3, <2>6
    <3>2. told[call[c].day] = 0
      <4>1. told[call[c].day] \in Nat /\ call[c].day \in Int
        BY <2>2 DEF StreakTypeOK, Day
      <4>2. ~ (told[call[c].day] > 0)
        BY <4>1, <3>1, <2>2
      <4> QED
        BY <4>1, <4>2
    <3> QED
      BY <3>1, <3>2, <2>1, <2>2 DEF ToldIsKept, Day
  <2>10. TellsOnce'
    BY <2>1, <2>2, <2>5, <2>9 DEF TellsOnce, Day
  <2> QED
    BY <2>1, <2>4, <2>7, <2>8, <2>9, <2>10 DEF Serially
<1>3. ASSUME NEW c \in Caller, TellMilestone(c) PROVE SInv'
  <2>1. /\ UNCHANGED <<today, streak, studied, serial>> /\ call[c].pc = "tell"
        /\ call'[c].pc = "idle" /\ \A d \in Caller : d # c => call'[d] = call[d]
        /\ told' = [told EXCEPT ![call[c].day] = @ + 1]
    BY <1>3 DEF TellMilestone, StreakTypeOK, Idle
  <2>2. NoRowNoCount'
    BY <2>1 DEF NoRowNoCount, HasRow
  <2> SUFFICES ASSUME serial' PROVE Serially'
    BY <2>2
  <2>3. Serially
    BY <2>1
  <2>4. \A d \in Caller : call'[d].pc = "idle"
    BY <2>1, <2>3 DEF Serially, OneCall
  <2>5. OneCall' /\ StillNext' /\ TellsOnce'
    BY <2>4 DEF OneCall, StillNext, TellsOnce
  <2>6. StudiedIsKept'
    BY <2>1, <2>3 DEF Serially, OneCall, StudiedIsKept, HasRow
  <2>7. told[call[c].day] = 0 /\ HasRow(streak) /\ call[c].day <= streak.last
    BY <2>1, <2>3 DEF Serially, TellsOnce
  <2>8. ASSUME NEW x \in Day
        PROVE  told'[x] <= 1 /\ (told'[x] > 0 => HasRow(streak') /\ x <= streak'.last)
    <3>1. CASE x = call[c].day
      BY <2>1, <2>7, <3>1 DEF StreakTypeOK
    <3>2. CASE x # call[c].day
      BY <2>1, <2>3, <3>2 DEF Serially, ToldIsKept, StreakTypeOK
    <3> QED
      BY <3>1, <3>2
  <2> QED
    BY <2>5, <2>6, <2>8 DEF Serially, ToldIsKept
<1>4. CASE NewDay
  BY <1>4 DEF NewDay, NoRowNoCount, Serially, OneCall, StillNext, StudiedIsKept, ToldIsKept,
              TellsOnce, AlreadyCounted, NextCount, HasRow
<1>5. CASE UNCHANGED streakVars
  BY <1>5 DEF streakVars, NoRowNoCount, Serially, OneCall, StillNext, StudiedIsKept, ToldIsKept,
              TellsOnce, AlreadyCounted, NextCount, HasRow
<1> QED
  BY <1>1, <1>2, <1>3, <1>4, <1>5 DEF StreakNext

LEMMA SerialInductive == StreakSpec => []SInv
<1>1. StreakInit => SInv
  <2> SUFFICES ASSUME StreakInit PROVE SInv
    OBVIOUS
  <2>1. StreakTypeOK
    BY InitIInv DEF IInv
  <2> QED
    BY <2>1 DEF StreakInit, SInv, NoRowNoCount, Serially, OneCall, StillNext, StudiedIsKept,
       ToldIsKept, TellsOnce, NoRow, Idle, HasRow
<1> QED
  BY <1>1, SerialStep, PTL DEF StreakSpec

\* While calls do not overlap, a milestone is told once for the day that reached it.
THEOREM MilestoneToldOnce == StreakSpec => []MilestoneOnce
<1>1. SInv => MilestoneOnce
  BY DEF SInv, Serially, MilestoneOnce
<1> QED
  BY SerialInductive, <1>1, PTL

\* While calls do not overlap, only a later day after a day not studied restarts the
\* streak.
THEOREM OnlyGapsReset == StreakSpec => ResetOnlyOnGap
<1> DEFINE Gap == serial /\ streak' # streak /\ streak'.count <= streak.count
                    => (streak.last + 1) \notin studied /\ streak'.last > streak.last
<1>1. SInv /\ [StreakNext]_streakVars => [Gap]_streakVars
  <2> SUFFICES ASSUME SInv, StreakNext, serial, streak' # streak, streak'.count <= streak.count
               PROVE  (streak.last + 1) \notin studied /\ streak'.last > streak.last
    OBVIOUS
  <2>1. PICK c \in Caller : Upsert(c)
    BY DEF StreakNext, BeginRecord, TellMilestone, NewDay
  <2>2. call[c].pc = "upsert" /\ streak' = [count |-> call[c].count, last |-> call[c].day]
    BY <2>1 DEF Upsert
  <2>3. /\ ~ AlreadyCounted(streak, call[c].day)
        /\ call[c].count = NextCount(streak, call[c].day)
    BY <2>2 DEF SInv, Serially, StillNext
  <2>4. StreakTypeOK /\ call[c].day \in Nat
    BY DEF SInv, StreakTypeOK, Day
  <2>5. HasRow(streak)
    BY <2>2, <2>3, <2>4 DEF SInv, NoRowNoCount, NextCount, StreakTypeOK
  <2>6. call[c].day > streak.last + 1
    BY <2>2, <2>3, <2>4, <2>5 DEF AlreadyCounted, NextCount, StreakTypeOK, Day
  <2>7. ASSUME streak.last + 1 \in studied PROVE FALSE
    <3>1. PICK d \in Caller : call[d].pc = "upsert" /\ call[d].day = streak.last + 1
      BY <2>4, <2>7 DEF SInv, Serially, StudiedIsKept, StreakTypeOK, Day
    <3>2. d = c
      BY <2>2, <3>1 DEF SInv, Serially, OneCall
    <3> QED
      BY <2>4, <2>6, <3>1, <3>2 DEF StreakTypeOK, Day
  <2> QED
    BY <2>2, <2>4, <2>6, <2>7 DEF StreakTypeOK, Day
<1> QED
  BY SerialInductive, <1>1, PTL DEF StreakSpec, ResetOnlyOnGap

-------------------------------------------------------------------------------
(***************************************************************************)
(* That PasswordReset implements OneTimeReset, for any number of codes,    *)
(* requests and devices, and that no session outlives the password it was  *)
(* logged in under unless it was in the middle of something.               *)
(***************************************************************************)

\* A code whose mail is being sent is not a row yet, and nobody else mails it.
MailIsNew ==
    \A q \in Visit : visit[q].at = "insert" =>
        /\ codeRow[visit[q].code].st = "none"
        /\ \E i \in DOMAIN asked : asked[i] = visit[q].code
        /\ \A r \in Visit :
              visit[r].at = "insert" /\ visit[r].code = visit[q].code => r = q

\* What a transaction deletes, a guess matched, or a reset read, was a row.
RowsExist ==
    /\ \A c \in Code : codeRow[c].there => codeRow[c].st # "none"
    /\ \A q \in Visit : \A c \in visit[q].gone : codeRow[c].st # "none"

\* A reset in flight carries a token that was handed out.
HashIsVerified ==
    \A q \in Visit :
        visit[q].at = "hash" => codeRow[visit[q].code].st \in {"verified", "consumed"}

ResetInv == ResetTypeOK /\ MailIsNew /\ RowsExist /\ HashIsVerified

\* Every device with another password than the account's was caught by a reset.
DevicesAccounted ==
    \A d \in Device : dev[d].st # "out" /\ dev[d].with # password => d \in late

-----------------------------------------------------------------------------
LEMMA FreeIsWork == Free \in Work
  BY ResetAssumption DEF Free, Work, SomeCode

LEMMA ResetInitInv == ResetInit => ResetInv
  <1> SUFFICES ASSUME ResetInit PROVE ResetInv
    OBVIOUS
  <1>1. ResetTypeOK
    BY FreeIsWork, ResetAssumption
       DEF ResetInit, ResetTypeOK, NoCodeRow, CodeRow, Password, Device0
  <1>2. MailIsNew /\ RowsExist /\ HashIsVerified
    BY DEF ResetInit, MailIsNew, RowsExist, HashIsVerified, Free, NoCodeRow
  <1> QED BY <1>1, <1>2 DEF ResetInv

\* What every step that moves one request on, and no code's row back, keeps.
LEMMA BeginMailInv ==
    ASSUME ResetInv, NEW q \in Visit, NEW c \in Code, BeginMail(q, c)
    PROVE  ResetInv'
  <1> USE DEF ResetInv
  <1>1. ResetTypeOK'
    BY DEF BeginMail, ResetTypeOK, Work, logins
  <1>2. MailIsNew'
    <2> SUFFICES ASSUME NEW r \in Visit, visit'[r].at = "insert"
                 PROVE  /\ codeRow'[visit'[r].code].st = "none"
                        /\ \E i \in DOMAIN asked' : asked'[i] = visit'[r].code
                        /\ \A s \in Visit :
                              visit'[s].at = "insert" /\ visit'[s].code = visit'[r].code
                              => s = r
      BY DEF MailIsNew
    <2>1. asked \in Seq(Code) /\ asked' = Append(asked, c)
      BY DEF BeginMail, ResetTypeOK
    <2>2. /\ Len(asked') = Len(asked) + 1
          /\ DOMAIN asked' = 1 .. (Len(asked) + 1)
          /\ asked'[Len(asked) + 1] = c
          /\ \A i \in DOMAIN asked : i \in DOMAIN asked' /\ asked'[i] = asked[i]
      BY <2>1
    <2>3. \E i \in DOMAIN asked' : asked'[i] = c
      BY <2>1, <2>2
    <2>4. CASE r = q
      <3>1. visit'[r].code = c /\ codeRow' = codeRow
        BY <2>4 DEF BeginMail, ResetTypeOK
      <3>2. \A s \in Visit : s # q => visit'[s] = visit[s]
        BY DEF BeginMail, ResetTypeOK
      <3> QED BY <2>3, <2>4, <3>1, <3>2 DEF BeginMail, MailIsNew
    <2>5. CASE r # q
      <3>1. visit'[r] = visit[r] /\ visit'[q].code = c /\ codeRow' = codeRow
        BY <2>5 DEF BeginMail, ResetTypeOK
      <3>2. \A s \in Visit : s # q => visit'[s] = visit[s]
        BY DEF BeginMail, ResetTypeOK
      <3> QED BY <2>2, <2>5, <3>1, <3>2 DEF BeginMail, MailIsNew
    <2> QED BY <2>4, <2>5
  <1>3. RowsExist'
    BY DEF BeginMail, RowsExist, ResetTypeOK
  <1>4. HashIsVerified'
    BY DEF BeginMail, HashIsVerified, ResetTypeOK
  <1> QED BY <1>1, <1>2, <1>3, <1>4

LEMMA CommitMailInv ==
    ASSUME ResetInv, NEW q \in Visit, CommitMail(q)
    PROVE  ResetInv'
  <1> USE DEF ResetInv
  <1>0. codeRow \in [Code -> CodeRow] /\ visit[q] \in Work
    BY DEF ResetTypeOK
  <1>1. ResetTypeOK'
    <2>1. ASSUME NEW c \in Code
          PROVE  /\ [codeRow[c] EXCEPT !.st = "open", !.there = TRUE] \in CodeRow
                 /\ [codeRow[c] EXCEPT !.there = FALSE] \in CodeRow
      BY <1>0 DEF CodeRow
    <2>2. codeRow' \in [Code -> CodeRow]
      BY <1>0, <2>1 DEF CommitMail
    <2>3. visit' \in [Visit -> Work]
      BY FreeIsWork DEF CommitMail, Finish, ResetTypeOK
    <2> QED BY <2>2, <2>3 DEF CommitMail, ResetTypeOK, logins
  <1>2. /\ visit'[q] = Free /\ \A r \in Visit : r # q => visit'[r] = visit[r]
        /\ asked' = asked
        /\ codeRow'[visit[q].code].st = "open"
        /\ \A c \in Code : c # visit[q].code => codeRow'[c].st = codeRow[c].st
        /\ \A c \in Code : codeRow'[c].there => codeRow[c].there \/ c = visit[q].code
        /\ visit[q].at = "insert" /\ visit[q].code \in Code
    <2>1. /\ visit'[q] = Free /\ \A r \in Visit : r # q => visit'[r] = visit[r]
          /\ asked' = asked
      BY DEF CommitMail, Finish, ResetTypeOK
    <2>2. visit[q].at = "insert" /\ visit[q].code \in Code
      BY <1>0 DEF CommitMail, Work
    <2>3. ASSUME NEW c \in Code
          PROVE  codeRow'[c] = IF c = visit[q].code
                             THEN [codeRow[c] EXCEPT !.st = "open", !.there = TRUE]
                           ELSE IF c \in visit[q].gone
                             THEN [codeRow[c] EXCEPT !.there = FALSE]
                           ELSE codeRow[c]
      BY DEF CommitMail
    <2>4. ASSUME NEW c \in Code
          PROVE  /\ c = visit[q].code => codeRow'[c].st = "open"
                 /\ c # visit[q].code => codeRow'[c].st = codeRow[c].st
                 /\ codeRow'[c].there => codeRow[c].there \/ c = visit[q].code
      <3>1. codeRow[c] \in CodeRow
        BY <1>0
      <3>2. CASE c = visit[q].code
        BY <2>3, <3>1, <3>2 DEF CodeRow
      <3>3. CASE c # visit[q].code /\ c \in visit[q].gone
        BY <2>3, <3>1, <3>3 DEF CodeRow
      <3>4. CASE c # visit[q].code /\ c \notin visit[q].gone
        BY <2>3, <3>4
      <3> QED BY <3>2, <3>3, <3>4
    <2> QED BY <2>1, <2>2, <2>4
  <1>3. MailIsNew'
    <2> SUFFICES ASSUME NEW r \in Visit, visit'[r].at = "insert"
                 PROVE  /\ codeRow'[visit'[r].code].st = "none"
                        /\ \E i \in DOMAIN asked' : asked'[i] = visit'[r].code
                        /\ \A s \in Visit :
                              visit'[s].at = "insert" /\ visit'[s].code = visit'[r].code
                              => s = r
      BY DEF MailIsNew
    <2>1. r # q /\ visit'[r] = visit[r]
      BY <1>2 DEF Free
    <2>2. visit[r].code # visit[q].code /\ visit[r].code \in Code
      BY <1>2, <2>1 DEF MailIsNew, ResetTypeOK, Work
    <2>3. codeRow'[visit'[r].code].st = "none"
      BY <1>2, <2>1, <2>2 DEF MailIsNew
    <2>4. \E i \in DOMAIN asked' : asked'[i] = visit'[r].code
      BY <1>2, <2>1 DEF MailIsNew
    <2>5. ASSUME NEW s \in Visit, visit'[s].at = "insert", visit'[s].code = visit'[r].code
          PROVE  s = r
      BY <1>2, <2>1, <2>5 DEF MailIsNew, Free
    <2> QED BY <2>3, <2>4, <2>5
  <1>4. RowsExist'
    BY <1>2 DEF RowsExist, Free, ResetTypeOK, Work
  <1>5. HashIsVerified'
    BY <1>2 DEF HashIsVerified, MailIsNew, Free, ResetTypeOK, Work
  <1> QED BY <1>1, <1>3, <1>4, <1>5

\* A request that takes up a code, or lets go of one, without a row's changing.
LEMMA RequestMovesInv ==
    ASSUME ResetInv, NEW q \in Visit, NEW w \in Work,
           visit' = [visit EXCEPT ![q] = w], w.at # "insert", w.gone = {},
           w.at = "hash" => codeRow[w.code].st \in {"verified", "consumed"},
           codeRow' \in [Code -> CodeRow], asked' = asked,
           \A c \in Code : /\ codeRow'[c].there => codeRow[c].there
                           /\ \/ codeRow'[c].st = codeRow[c].st
                              \/ codeRow[c].st = "open" /\ codeRow'[c].st = "verified"
                              \/ codeRow[c].st = "verified" /\ codeRow'[c].st = "consumed",
           password' \in Password, late' \in SUBSET Device,
           dev' \in [Device -> [st : {"out", "in", "login", "refresh"}, with : Password]]
    PROVE  ResetInv'
  <1> USE DEF ResetInv
  <1>1. /\ visit'[q] = w /\ visit' \in [Visit -> Work]
        /\ \A r \in Visit : r # q => visit'[r] = visit[r]
    BY DEF ResetTypeOK
  <1>2. ResetTypeOK'
    BY <1>1 DEF ResetTypeOK
  <1>3. \A r \in Visit : visit[r].code \in Code /\ visit[r].gone \subseteq Code
    BY DEF ResetTypeOK, Work
  <1>4. MailIsNew'
    BY <1>1, <1>3 DEF MailIsNew
  <1>5. RowsExist'
    BY <1>1, <1>3 DEF RowsExist
  <1>6. HashIsVerified'
    BY <1>1, <1>3 DEF HashIsVerified, Work
  <1> QED BY <1>2, <1>4, <1>5, <1>6

LEMMA WorkOf ==
    ASSUME ResetInv, NEW q \in Visit
    PROVE  /\ visit[q] \in Work /\ visit[q].code \in Code /\ codeRow[visit[q].code] \in CodeRow
           /\ Free.at # "insert" /\ Free.at # "hash" /\ Free.gone = {}
  BY DEF ResetInv, ResetTypeOK, Work, Free

LEMMA CountGuessInv ==
    ASSUME ResetInv, NEW q \in Visit, CountGuess(q)
    PROVE  ResetInv'
  <1> DEFINE c == visit[q].code
             new == [codeRow[c] EXCEPT !.attempts = codeRow[c].attempts + 1]
  <1>1. codeRow[c] \in CodeRow /\ c \in Code
    BY WorkOf
  <1>2. codeRow' = codeRow \/ (codeRow' = [codeRow EXCEPT ![c] = new] /\ codeRow[c].attempts < MaxAttempts)
    BY DEF CountGuess
  <1>3. codeRow[c].attempts < MaxAttempts
        => new \in CodeRow /\ new.there = codeRow[c].there /\ new.st = codeRow[c].st
    BY <1>1, ResetAssumption DEF CodeRow
  <1> HIDE DEF c, new
  <1>4. /\ codeRow' \in [Code -> CodeRow]
        /\ \A d \in Code : (codeRow'[d].there => codeRow[d].there) /\ codeRow'[d].st = codeRow[d].st
    BY <1>1, <1>2, <1>3 DEF ResetInv, ResetTypeOK
  <1>5. visit' = [visit EXCEPT ![q] = Free] /\ asked' = asked /\ logins' = logins
    BY DEF CountGuess, Finish
  <1> QED
    BY <1>4, <1>5, WorkOf, FreeIsWork, RequestMovesInv
       DEF logins, ResetInv, ResetTypeOK

LEMMA GrantCodeInv ==
    ASSUME ResetInv, NEW q \in Visit, GrantCode(q)
    PROVE  ResetInv'
  <1> DEFINE c == visit[q].code
             new == [codeRow[c] EXCEPT !.st = "verified", !.by = q, !.expired = FALSE]
  <1>1. codeRow[c] \in CodeRow /\ c \in Code
    BY WorkOf
  <1>2. codeRow' = codeRow \/ (codeRow' = [codeRow EXCEPT ![c] = new] /\ codeRow[c].st = "open")
    BY DEF GrantCode
  <1>3. new \in CodeRow /\ new.there = codeRow[c].there /\ new.st = "verified"
    BY <1>1 DEF CodeRow
  <1> HIDE DEF c, new
  <1>4. /\ codeRow' \in [Code -> CodeRow]
        /\ \A d \in Code :
              /\ codeRow'[d].there => codeRow[d].there
              /\ codeRow'[d].st = codeRow[d].st \/ (codeRow[d].st = "open" /\ codeRow'[d].st = "verified")
    BY <1>1, <1>2, <1>3 DEF ResetInv, ResetTypeOK
  <1>5. visit' = [visit EXCEPT ![q] = Free] /\ asked' = asked /\ logins' = logins
    BY DEF GrantCode, Finish
  <1> QED
    BY <1>4, <1>5, WorkOf, FreeIsWork, RequestMovesInv
       DEF logins, ResetInv, ResetTypeOK

LEMMA SetPasswordInv ==
    ASSUME ResetInv, NEW q \in Visit, SetPassword(q)
    PROVE  ResetInv'
  <1> DEFINE c == visit[q].code
             new == [codeRow[c] EXCEPT !.st = "consumed"]
  <1>1. codeRow[c] \in CodeRow /\ c \in Code
    BY WorkOf
  <1>2. codeRow' = codeRow \/ (codeRow' = [codeRow EXCEPT ![c] = new] /\ codeRow[c].st = "verified")
    BY DEF SetPassword, Redeemable, ResetInv, HashIsVerified
  <1>3. new \in CodeRow /\ new.there = codeRow[c].there /\ new.st = "consumed"
    BY <1>1 DEF CodeRow
  <1> HIDE DEF c, new
  <1>4. /\ codeRow' \in [Code -> CodeRow]
        /\ \A d \in Code :
              /\ codeRow'[d].there => codeRow[d].there
              /\ codeRow'[d].st = codeRow[d].st \/ (codeRow[d].st = "verified" /\ codeRow'[d].st = "consumed")
    BY <1>1, <1>2, <1>3 DEF ResetInv, ResetTypeOK
  <1>5. password' \in Password /\ late' \in SUBSET Device
    BY WorkOf DEF SetPassword, logins, Password, ResetInv, ResetTypeOK
  <1>6. dev' \in [Device -> [st : {"out", "in", "login", "refresh"}, with : Password]]
    BY DEF SetPassword, logins, ResetInv, ResetTypeOK
  <1>7. visit' = [visit EXCEPT ![q] = Free] /\ asked' = asked
    BY DEF SetPassword, Finish
  <1> QED
    BY <1>4, <1>5, <1>6, <1>7, WorkOf, FreeIsWork, RequestMovesInv

\* The two reads that start a verification and a reset.
LEMMA BeginVerifyInv ==
    ASSUME ResetInv, NEW q \in Visit, NEW c \in Code, NEW right \in BOOLEAN,
           BeginVerify(q, c, right)
    PROVE  ResetInv'
  <1> DEFINE w == [at |-> IF right THEN "grant" ELSE "count", code |-> c, gone |-> {}]
  <1>1. w \in Work /\ w.at # "insert" /\ w.at # "hash" /\ w.gone = {}
    BY DEF Work
  <1>2. visit' = [visit EXCEPT ![q] = w]
    BY DEF BeginVerify, Goes
  <1> HIDE DEF w
  <1> QED
    BY <1>1, <1>2, RequestMovesInv DEF BeginVerify, logins, ResetInv, ResetTypeOK

LEMMA BeginResetInv ==
    ASSUME ResetInv, NEW q \in Visit, NEW c \in Code, BeginReset(q, c)
    PROVE  ResetInv'
  <1> DEFINE w == [at |-> "hash", code |-> c, gone |-> {}]
  <1>1. w \in Work /\ w.at # "insert" /\ w.gone = {} /\ codeRow[w.code].st = "verified"
    BY DEF Work, BeginReset
  <1>2. visit' = [visit EXCEPT ![q] = w]
    BY DEF BeginReset, Goes
  <1> HIDE DEF w
  <1> QED
    BY <1>1, <1>2, RequestMovesInv DEF BeginReset, logins, ResetInv, ResetTypeOK

\* Time and the devices leave the requests and the rows' stages alone.
LEMMA OthersInv ==
    ASSUME ResetInv, visit' = visit, asked' = asked, codeRow' \in [Code -> CodeRow],
           \A c \in Code : codeRow'[c].there = codeRow[c].there /\ codeRow'[c].st = codeRow[c].st,
           password' \in Password, late' \in SUBSET Device,
           dev' \in [Device -> [st : {"out", "in", "login", "refresh"}, with : Password]]
    PROVE  ResetInv'
  <1> USE DEF ResetInv
  <1>1. \A r \in Visit : visit[r].code \in Code /\ visit[r].gone \subseteq Code
    BY DEF ResetTypeOK, Work
  <1>2. ResetTypeOK'
    BY DEF ResetTypeOK
  <1>3. MailIsNew' /\ RowsExist' /\ HashIsVerified'
    BY <1>1 DEF MailIsNew, RowsExist, HashIsVerified
  <1> QED BY <1>2, <1>3

LEMMA ExpiresInv ==
    ASSUME ResetInv, NEW c \in Code, Expires(c)
    PROVE  ResetInv'
  <1> DEFINE new == [codeRow[c] EXCEPT !.expired = TRUE]
  <1>1. new \in CodeRow /\ new.there = codeRow[c].there /\ new.st = codeRow[c].st
    BY DEF ResetInv, ResetTypeOK, CodeRow
  <1>2. codeRow' = [codeRow EXCEPT ![c] = new]
    BY DEF Expires
  <1> HIDE DEF new
  <1>3. codeRow' \in [Code -> CodeRow]
        /\ \A d \in Code : codeRow'[d].there = codeRow[d].there /\ codeRow'[d].st = codeRow[d].st
    BY <1>1, <1>2 DEF ResetInv, ResetTypeOK
  <1> QED BY <1>3, OthersInv DEF Expires, logins, ResetInv, ResetTypeOK

LEMMA DeviceInv ==
    ASSUME ResetInv, NEW d \in Device, LoginAnew(d) \/ Refresh(d) \/ IssueToken(d)
    PROVE  ResetInv'
  <1>1. dev' \in [Device -> [st : {"out", "in", "login", "refresh"}, with : Password]]
    BY DEF LoginAnew, Refresh, IssueToken, ResetInv, ResetTypeOK
  <1>2. visit' = visit /\ asked' = asked /\ codeRow' = codeRow /\ password' = password
    BY DEF LoginAnew, Refresh, IssueToken
  <1>3. late' \in SUBSET Device
    BY DEF LoginAnew, Refresh, IssueToken, ResetInv, ResetTypeOK
  <1> QED BY <1>1, <1>2, <1>3, OthersInv DEF ResetInv, ResetTypeOK

LEMMA ResetNextInv == ResetInv /\ [ResetNext]_resetVars => ResetInv'
  <1> SUFFICES ASSUME ResetInv, [ResetNext]_resetVars PROVE ResetInv'
    OBVIOUS
  <1>1. CASE UNCHANGED resetVars
    BY <1>1, OthersInv DEF resetVars, ResetInv, ResetTypeOK
  <1>2. ASSUME NEW q \in Visit, NEW c \in Code, BeginMail(q, c) \/ BeginReset(q, c)
        PROVE  ResetInv'
    BY <1>2, BeginMailInv, BeginResetInv
  <1>3. ASSUME NEW q \in Visit, NEW c \in Code, NEW right \in BOOLEAN,
               BeginVerify(q, c, right)
        PROVE  ResetInv'
    BY <1>3, BeginVerifyInv
  <1>4. ASSUME NEW q \in Visit,
               CommitMail(q) \/ CountGuess(q) \/ GrantCode(q) \/ SetPassword(q)
        PROVE  ResetInv'
    BY <1>4, CommitMailInv, CountGuessInv, GrantCodeInv, SetPasswordInv
  <1>5. ASSUME NEW c \in Code, Expires(c) PROVE ResetInv'
    BY <1>5, ExpiresInv
  <1>6. ASSUME NEW d \in Device, LoginAnew(d) \/ Refresh(d) \/ IssueToken(d)
        PROVE  ResetInv'
    BY <1>6, DeviceInv
  <1> QED BY <1>1, <1>2, <1>3, <1>4, <1>5, <1>6 DEF ResetNext

\* The reset's rows, requests and logins always have the shape declared for them.
THEOREM ResetTypeCorrect == ResetSpec => []ResetTypeOK
  <1>1. ResetInv => ResetTypeOK
    BY DEF ResetInv
  <1> QED BY <1>1, ResetInitInv, ResetNextInv, PTL DEF ResetSpec

-----------------------------------------------------------------------------
\* However logins, refreshes and resets overlap: a session logged in under
\* another password than the account's was in the middle of its login or of a
\* refresh when the password changed, so the revocation could not see it.
THEOREM OldSessionsAreOut == ResetSpec => []OldSessionsEnd
  <1>1. ResetInit => DevicesAccounted
    BY DEF ResetInit, DevicesAccounted, Device0
  <1>2. ResetInv /\ DevicesAccounted /\ [ResetNext]_resetVars => DevicesAccounted'
    <2> SUFFICES ASSUME ResetInv, DevicesAccounted, [ResetNext]_resetVars,
                        NEW d \in Device, dev'[d].st # "out", dev'[d].with # password'
                 PROVE  d \in late'
      BY DEF DevicesAccounted
    <2>0. dev[d] \in [st : {"out", "in", "login", "refresh"}, with : Password]
      BY DEF ResetInv, ResetTypeOK
    <2>1. CASE UNCHANGED logins
      BY <2>1 DEF logins, DevicesAccounted
    <2>2. ASSUME NEW e \in Device, LoginAnew(e) \/ Refresh(e) \/ IssueToken(e)
          PROVE  d \in late'
      BY <2>0, <2>2 DEF LoginAnew, Refresh, IssueToken, DevicesAccounted, ResetInv, ResetTypeOK
    <2>3. ASSUME NEW q \in Visit, SetPassword(q)
          PROVE  d \in late'
      <3>1. CASE Redeemable(visit[q].code)
        <4>1. dev[d].st # "in"
          BY <2>0, <2>3, <3>1 DEF SetPassword, ResetInv, ResetTypeOK
        <4>2. dev'[d] = dev[d]
          BY <2>3, <3>1, <4>1 DEF SetPassword
        <4> QED BY <2>0, <2>3, <3>1, <4>1, <4>2 DEF SetPassword
      <3>2. CASE ~ Redeemable(visit[q].code)
        BY <2>1, <2>3, <3>2 DEF SetPassword
      <3> QED BY <3>1, <3>2
    <2> QED
      BY <2>1, <2>2, <2>3
         DEF ResetNext, resetVars, logins, BeginMail, CommitMail, BeginVerify, CountGuess,
             GrantCode, BeginReset, Expires
  <1>3. DevicesAccounted => OldSessionsEnd
    BY DEF DevicesAccounted, OldSessionsEnd
  <1> QED BY <1>1, <1>2, <1>3, ResetInitInv, ResetNextInv, PTL DEF ResetSpec

-----------------------------------------------------------------------------
(***************************************************************************)
(* The refinement.                                                         *)
(***************************************************************************)

\* A step that changes no row's stage or holder, and no password, is a stutter.
LEMMA NothingHappens ==
    ASSUME \A c \in Code : /\ codeRow'[c].st = codeRow[c].st /\ codeRow'[c].by = codeRow[c].by
                           /\ codeRow'[c].there = codeRow[c].there,
           password' = password
    PROVE  UNCHANGED OneTime!promised
  <1>1. \A c \in Code : StageOf(c)' = StageOf(c)
    BY DEF StageOf
  <1> QED BY <1>1 DEF OneTime!promised

LEMMA MailRefines ==
    ASSUME ResetInv, NEW q \in Visit, CommitMail(q)
    PROVE  OneTime!Step
  <1> DEFINE c == visit[q].code
             withdrawn == {d \in visit[q].gone : codeRow[d].there /\ codeRow[d].st \in {"open", "verified"}}
  <1>1. /\ c \in Code /\ codeRow[c].st = "none" /\ withdrawn \subseteq Code
        /\ visit[q].gone \subseteq Code
    BY WorkOf DEF CommitMail, ResetInv, MailIsNew, Work
  <1>2. \A d \in Code : codeRow[d] \in CodeRow
    BY DEF ResetInv, ResetTypeOK
  <1>3. \A d \in withdrawn : StageOf(d) \in {"open", "held"}
    BY <1>1 DEF StageOf
  <1>4. StageOf(c) = "none"
    BY <1>1 DEF StageOf
  <1>5. ASSUME NEW d \in Code
        PROVE  /\ StageOf(d)' = IF d = c THEN "open"
                                ELSE IF d \in withdrawn THEN "void" ELSE StageOf(d)
               /\ codeRow'[d].by = codeRow[d].by
    <2>1. codeRow'[d] = IF d = c THEN [codeRow[d] EXCEPT !.st = "open", !.there = TRUE]
                    ELSE IF d \in visit[q].gone THEN [codeRow[d] EXCEPT !.there = FALSE]
                    ELSE codeRow[d]
      BY DEF CommitMail
    <2>2. CASE d = c
      BY <1>2, <2>1, <2>2 DEF CodeRow, StageOf
    <2>3. CASE d # c /\ d \in visit[q].gone
      <3>1. codeRow'[d].st = codeRow[d].st /\ codeRow'[d].there = FALSE /\ codeRow'[d].by = codeRow[d].by
        BY <1>2, <2>1, <2>3 DEF CodeRow
      <3>2. codeRow[d].st # "none"
        BY <2>3 DEF ResetInv, RowsExist
      <3>3. CASE codeRow[d].st = "consumed"
        BY <2>3, <3>1, <3>3 DEF StageOf
      <3>4. CASE codeRow[d].st \in {"open", "verified"} /\ codeRow[d].there
        BY <2>3, <3>1, <3>4 DEF StageOf
      <3>5. CASE codeRow[d].st \in {"open", "verified"} /\ ~ codeRow[d].there
        BY <2>3, <3>1, <3>5 DEF StageOf
      <3> QED BY <1>2, <3>1, <3>2, <3>3, <3>4, <3>5 DEF CodeRow
    <2>4. CASE d # c /\ d \notin visit[q].gone
      <3>1. codeRow'[d] = codeRow[d] /\ d \notin withdrawn
        BY <2>1, <2>4
      <3>2. StageOf(d)' = StageOf(d)
        BY <3>1 DEF StageOf
      <3> QED BY <2>4, <3>1, <3>2
    <2> QED BY <2>2, <2>3, <2>4
  <1> HIDE DEF c, withdrawn
  <1>6. OneTime!Mail(c, withdrawn)
    BY <1>1, <1>3, <1>4, <1>5 DEF OneTime!Mail, CommitMail, logins
  <1> QED BY <1>1, <1>6 DEF OneTime!Step

LEMMA GrantRefines ==
    ASSUME ResetInv, NEW q \in Visit, GrantCode(q)
    PROVE  OneTime!Step \/ UNCHANGED OneTime!promised
  <1>0. PICK c \in Code : c = visit[q].code
    BY WorkOf
  <1> DEFINE new == [codeRow[c] EXCEPT !.st = "verified", !.by = q, !.expired = FALSE]
  <1>1. c \in Code /\ codeRow[c] \in CodeRow
    BY <1>0, WorkOf
  <1>2. \/ codeRow' = codeRow
        \/ codeRow' = [codeRow EXCEPT ![c] = new] /\ codeRow[c].there /\ codeRow[c].st = "open"
    BY <1>0 DEF GrantCode
  <1>3. new.st = "verified" /\ new.by = q /\ new.there = codeRow[c].there
    BY <1>1 DEF CodeRow
  <1> HIDE DEF new
  <1>4. password' = password
    BY DEF GrantCode, logins
  <1>5. CASE codeRow' = codeRow
    BY <1>4, <1>5, NothingHappens
  <1>6. CASE codeRow' = [codeRow EXCEPT ![c] = new] /\ codeRow[c].there /\ codeRow[c].st = "open"
    <2>1. codeRow'[c] = new /\ \A d \in Code : d # c => codeRow'[d] = codeRow[d]
      BY <1>1, <1>6 DEF ResetInv, ResetTypeOK
    <2>2. StageOf(c) = "open" /\ StageOf(c)' = "held" /\ codeRow'[c].by = q
      BY <1>3, <1>6, <2>1 DEF StageOf
    <2>3. \A d \in Code : d # c => StageOf(d)' = StageOf(d) /\ codeRow'[d].by = codeRow[d].by
      BY <2>1 DEF StageOf
    <2>4. OneTime!Grant(c, q)
      BY <1>1, <1>4, <2>2, <2>3 DEF OneTime!Grant
    <2> QED BY <1>1, <2>4 DEF OneTime!Step
  <1> QED BY <1>2, <1>5, <1>6

LEMMA PasswordRefines ==
    ASSUME ResetInv, NEW q \in Visit, SetPassword(q)
    PROVE  OneTime!Step \/ UNCHANGED OneTime!promised
  <1>0. PICK c \in Code : c = visit[q].code
    BY WorkOf
  <1> DEFINE new == [codeRow[c] EXCEPT !.st = "consumed"]
  <1>1. c \in Code /\ codeRow[c] \in CodeRow
    BY <1>0, WorkOf
  <1>2. \/ codeRow' = codeRow /\ password' = password
        \/ /\ codeRow' = [codeRow EXCEPT ![c] = new] /\ password' = c
           /\ codeRow[c].there /\ codeRow[c].st = "verified"
    BY <1>0 DEF SetPassword, Redeemable, logins, ResetInv, HashIsVerified
  <1>3. new.st = "consumed" /\ new.by = codeRow[c].by
    BY <1>1 DEF CodeRow
  <1> HIDE DEF new
  <1>5. CASE codeRow' = codeRow /\ password' = password
    BY <1>5, NothingHappens
  <1>6. CASE /\ codeRow' = [codeRow EXCEPT ![c] = new] /\ password' = c
             /\ codeRow[c].there /\ codeRow[c].st = "verified"
    <2>1. codeRow'[c] = new /\ \A d \in Code : d # c => codeRow'[d] = codeRow[d]
      BY <1>1, <1>6 DEF ResetInv, ResetTypeOK
    <2>2. StageOf(c) = "held" /\ StageOf(c)' = "used" /\ codeRow'[c].by = codeRow[c].by
      BY <1>3, <1>6, <2>1 DEF StageOf
    <2>3. \A d \in Code : d # c => StageOf(d)' = StageOf(d) /\ codeRow'[d].by = codeRow[d].by
      BY <2>1 DEF StageOf
    <2>4. OneTime!Redeem(c)
      BY <1>1, <1>6, <2>2, <2>3 DEF OneTime!Redeem
    <2> QED BY <1>1, <2>4 DEF OneTime!Step
  <1> QED BY <1>2, <1>5, <1>6

\* The counting of a guess and the running out of a code leave the stages alone.
LEMMA QuietRefines ==
    ASSUME ResetInv,
           \/ \E q \in Visit : CountGuess(q)
           \/ \E c \in Code : Expires(c)
    PROVE  UNCHANGED OneTime!promised
  <1>1. ASSUME NEW c \in Code, NEW new,
               \/ new = [codeRow[c] EXCEPT !.attempts = codeRow[c].attempts + 1]
               \/ new = [codeRow[c] EXCEPT !.expired = TRUE],
               codeRow' = [codeRow EXCEPT ![c] = new]
        PROVE  \A d \in Code : /\ codeRow'[d].st = codeRow[d].st /\ codeRow'[d].by = codeRow[d].by
                               /\ codeRow'[d].there = codeRow[d].there
    <2>1. codeRow[c] \in CodeRow
      BY DEF ResetInv, ResetTypeOK
    <2>2. new.st = codeRow[c].st /\ new.by = codeRow[c].by /\ new.there = codeRow[c].there
      BY <1>1, <2>1 DEF CodeRow
    <2>3. codeRow'[c] = new /\ \A d \in Code : d # c => codeRow'[d] = codeRow[d]
      BY <1>1 DEF ResetInv, ResetTypeOK
    <2> QED BY <2>2, <2>3
  <1>2. CASE \E q \in Visit : CountGuess(q)
    <2>1. PICK q \in Visit : CountGuess(q)
      BY <1>2
    <2>2. visit[q].code \in Code /\ password' = password
      BY <2>1, WorkOf DEF CountGuess, logins
    <2>3. CASE codeRow' = codeRow
      BY <2>2, <2>3, NothingHappens
    <2>4. CASE codeRow' = [codeRow EXCEPT ![visit[q].code] =
                         [codeRow[visit[q].code] EXCEPT !.attempts = codeRow[visit[q].code].attempts + 1]]
      BY <1>1, <2>2, <2>4, NothingHappens
    <2> QED BY <2>1, <2>3, <2>4 DEF CountGuess
  <1>3. CASE \E c \in Code : Expires(c)
    <2>1. PICK c \in Code : Expires(c)
      BY <1>3
    <2> QED BY <1>1, <2>1, NothingHappens DEF Expires, logins
  <1> QED BY <1>2, <1>3

\* However the requests overlap and whatever expires: a code's token goes to one
\* request, sets one password, and a withdrawn code stays withdrawn.
THEOREM ResetImplementsOneTime == ResetSpec => ResetIsOneTime
  <1>1. ResetInit => OneTime!Begun
    BY DEF ResetInit, OneTime!Begun, StageOf, NoCodeRow
  <1>2. ResetInv /\ [ResetNext]_resetVars => [OneTime!Step]_(OneTime!promised)
    <2> SUFFICES ASSUME ResetInv, [ResetNext]_resetVars
                 PROVE  OneTime!Step \/ UNCHANGED OneTime!promised
      OBVIOUS
    <2>1. CASE UNCHANGED <<codeRow, password>>
      BY <2>1, NothingHappens
    <2>2. CASE \E q \in Visit : CommitMail(q)
      BY <2>2, MailRefines
    <2>3. CASE \E q \in Visit : GrantCode(q)
      BY <2>3, GrantRefines
    <2>4. CASE \E q \in Visit : SetPassword(q)
      BY <2>4, PasswordRefines
    <2>5. CASE (\E q \in Visit : CountGuess(q)) \/ \E c \in Code : Expires(c)
      BY <2>5, QuietRefines
    <2> QED
      BY <2>1, <2>2, <2>3, <2>4, <2>5
         DEF ResetNext, resetVars, logins, BeginMail, BeginVerify, BeginReset,
             LoginAnew, Refresh, IssueToken
  <1> QED BY <1>1, <1>2, ResetInitInv, ResetNextInv, PTL
          DEF ResetSpec, ResetIsOneTime, OneTime!Promise

-------------------------------------------------------------------------------
(***************************************************************************)
(* Subscriptions, for any number of subscriptions, customers and handlers. *)
(***************************************************************************)

\* Statuses the app acts on.
Acted == Running \cup {"canceled"}

\* An announcement of s is still to be handled, or is being handled.
Pending(s) ==
    \/ events[s] > 0
    \/ \E w \in Worker : work[w].sub = s /\ work[w].pc \in {"retrieve", "find", "write"}

\* A customer that was created and not stored yet is nobody else's.
NewCustomers ==
    /\ \A s \in Sub : stripe[s].cust \in created \cup {None}
    /\ \A w \in Worker : work[w].cust \in created \cup {None}
    /\ \A w \in Worker : Stage(w, "store") =>
         /\ work[w].cust # None /\ work[w].cust # customer
         /\ \A s \in Sub : stripe[s].cust # work[w].cust
         /\ \A v \in Worker \ {w} :
              work[v].pc \in {"store", "session"} => work[v].cust # work[w].cust

\* What the row names, and what a handler is about to write, has begun at Stripe; an
\* ended subscription stays ended, and one that runs is paid for.
Begun ==
    /\ row.ref # None => stripe[row.ref].st \in Acted
    /\ row.status = "none" => row.ref = None
    /\ \A w \in Worker : Stage(w, "retrieve") => work[w].sub \in Sub
    /\ \A w \in Worker : work[w].pc \in {"find", "write"} =>
         /\ work[w].sub \in Sub /\ stripe[work[w].sub].st \in Acted
         /\ work[w].status # "none"
         /\ work[w].status = "EXPIRED" => stripe[work[w].sub].st = "canceled"
    /\ \A s \in Sub : stripe[s].st \in Running => stripe[s].until > day

OneRuns == \A s, t \in Sub : stripe[s].st \in Running /\ stripe[t].st \in Running => s = t

OneWriter == \A w, v \in Writing : w = v

\* What a handler that nothing overlapped is about to write is what Stripe says, or
\* Stripe has announced another change; what it found of the row is still so.
WriterSees(w) ==
    /\ Stage(w, "cancel") => work[w].sub = row.ref
    /\ work[w].pc \in {"find", "write"} =>
         \/ events[work[w].sub] > 0
         \/ /\ work[w].status = LocalStatus(stripe[work[w].sub].st)
            /\ work[w].until = stripe[work[w].sub].until
    /\ Stage(w, "write") /\ work[w].status = "EXPIRED" => row.ref \in {None, work[w].sub}

\* The row agrees with Stripe, and no older one is cached, or it is about to be so.
RowCatchesUp ==
    Tracked =>
        /\ \/ Pending(row.ref)
           \/ /\ row.status = LocalStatus(stripe[row.ref].st)
              /\ row.until = stripe[row.ref].until
        /\ stale => \/ Pending(row.ref)
                    \/ \E w \in Worker : Stage(w, "bump") /\ work[w].sub = row.ref

\* The row names the subscription that runs, or is about to, and nobody is about to
\* write another.
PayerCatchesUp ==
    \A s \in Sub : stripe[s].st \in Running /\ stripe[s].cust = customer =>
        /\ row.ref = s \/ Pending(s)
        /\ \A w \in Worker :
             work[w].pc \in {"find", "write"} /\ work[w].sub # s /\ work[w].status # "EXPIRED" =>
                 events[s] > 0

\* What holds at every moment.
SubsInv ==
    /\ SubscriptionsTypeOK /\ NewCustomers /\ Begun
    /\ ~ doubled => OneRuns
    /\ ~ overlapped => OneWriter /\ RowCatchesUp /\ \A w \in Worker : WriterSees(w)
    /\ ~ overlapped /\ ~ doubled => PayerCatchesUp

-----------------------------------------------------------------------------
Works == [pc : Stages, sub : Sub \cup {None}, cust : Customer \cup {None},
          status : Statuses, until : Nat]

\* The type invariant, one variable and one field at a time.
LEMMA SubsTyped ==
    ASSUME SubscriptionsTypeOK
    PROVE  /\ day \in Nat /\ repeats \in 0 .. MaxRepeats /\ customer \in created \cup {None}
           /\ created \subseteq Customer
           /\ stripe \in [Sub -> [st : StripeStates, cust : Customer \cup {None}, until : Nat]]
           /\ \A s \in Sub : /\ stripe[s].st \in StripeStates /\ stripe[s].until \in Nat
                             /\ stripe[s].cust \in Customer \cup {None} /\ events[s] \in Nat
           /\ events \in [Sub -> Nat]
           /\ row \in [status : Statuses, ref : Sub \cup {None}, until : Nat]
           /\ row.status \in Statuses /\ row.ref \in Sub \cup {None} /\ row.until \in Nat
           /\ work \in [Worker -> Works]
           /\ \A w \in Worker : /\ work[w] \in Works /\ work[w].pc \in Stages
                                /\ work[w].sub \in Sub \cup {None}
                                /\ work[w].cust \in Customer \cup {None}
                                /\ work[w].status \in Statuses /\ work[w].until \in Nat
           /\ stale \in BOOLEAN /\ overlapped \in BOOLEAN /\ doubled \in BOOLEAN
<1>1. work \in [Worker -> Works]
  BY DEF SubscriptionsTypeOK, Works
<1>2. \A w \in Worker : /\ work[w] \in Works /\ work[w].pc \in Stages
                        /\ work[w].sub \in Sub \cup {None}
                        /\ work[w].cust \in Customer \cup {None}
                        /\ work[w].status \in Statuses /\ work[w].until \in Nat
  BY <1>1 DEF Works
<1>3. day \in Nat
  BY SubscriptionsAssumption DEF SubscriptionsTypeOK
<1> QED
  BY <1>1, <1>2, <1>3 DEF SubscriptionsTypeOK

\* One handler's step changes nothing of another's.
LEMMA WorkMoves ==
    ASSUME SubscriptionsTypeOK, NEW w \in Worker
    PROVE  /\ \A pc \in Stages : To(w, pc) =>
                /\ work' \in [Worker -> Works] /\ work'[w].pc = pc
                /\ work'[w].sub = work[w].sub /\ work'[w].cust = work[w].cust
                /\ work'[w].status = work[w].status /\ work'[w].until = work[w].until
                /\ \A v \in Worker \ {w} : work'[v] = work[v]
           /\ Rest(w) => /\ work' \in [Worker -> Works] /\ work'[w] = Resting
                         /\ work'[w].pc = "idle" /\ work'[w].cust = None
                         /\ \A v \in Worker \ {w} : work'[v] = work[v]
<1>1. work \in [Worker -> Works] /\ work[w] \in Works
  BY SubsTyped
<1>2. Resting \in Works /\ Resting.pc = "idle" /\ Resting.cust = None
  BY DEF Resting, Works, Stages, Statuses
<1>3. ASSUME NEW pc \in Stages, To(w, pc)
      PROVE  /\ work' \in [Worker -> Works] /\ work'[w].pc = pc
             /\ work'[w].sub = work[w].sub /\ work'[w].cust = work[w].cust
             /\ work'[w].status = work[w].status /\ work'[w].until = work[w].until
             /\ \A v \in Worker \ {w} : work'[v] = work[v]
  <2>1. work' = [work EXCEPT ![w] = [work[w] EXCEPT !.pc = pc]]
    BY <1>3 DEF To
  <2>2. [work[w] EXCEPT !.pc = pc] \in Works
    BY <1>1, <1>3 DEF Works
  <2> QED
    BY <1>1, <2>1, <2>2 DEF Works
<1>4. ASSUME Rest(w)
      PROVE  /\ work' \in [Worker -> Works] /\ work'[w] = Resting
             /\ \A v \in Worker \ {w} : work'[v] = work[v]
  BY <1>1, <1>2, <1>4 DEF Rest
<1> QED
  BY <1>2, <1>3, <1>4

LEMMA SubsStart == SubscriptionsInit => SubsInv
<1> SUFFICES ASSUME SubscriptionsInit PROVE SubsInv
  OBVIOUS
<1> USE DEF SubscriptionsInit
<1>1. Resting \in Works /\ Resting.pc = "idle" /\ Resting.cust = None
  BY DEF Resting, Works, Stages, Statuses
<1>2. SubscriptionsTypeOK
  <2>1. row \in [status : Statuses, ref : Sub \cup {None}, until : Nat]
    BY DEF NoSubscription, StubRow, Statuses
  <2>2. work \in [Worker -> Works]
    BY <1>1
  <2>3. stripe \in [Sub -> [st : StripeStates, cust : Customer \cup {None}, until : Nat]]
    BY DEF StripeStates
  <2>4. day \in 0 .. MaxDays /\ repeats \in 0 .. MaxRepeats /\ events \in [Sub -> Nat]
    BY SubscriptionsAssumption
  <2> QED
    BY <2>1, <2>2, <2>3, <2>4 DEF SubscriptionsTypeOK, Works
<1>3. row.ref = None /\ ~ Tracked /\ Writing = {}
  BY <1>1 DEF NoSubscription, StubRow, Tracked, Writing
<1>4. NewCustomers /\ OneWriter /\ \A w \in Worker : WriterSees(w)
  BY <1>1, <1>3 DEF NewCustomers, OneWriter, WriterSees, Stage
<1>5. \A s \in Sub : stripe[s].st \notin Running
  BY DEF Running
<1>6. Begun
  BY <1>1, <1>3, <1>5 DEF Begun, Stage
<1>7. OneRuns /\ RowCatchesUp /\ PayerCatchesUp
  BY <1>3, <1>5 DEF OneRuns, RowCatchesUp, PayerCatchesUp
<1> QED
  BY <1>2, <1>4, <1>6, <1>7 DEF SubsInv

-----------------------------------------------------------------------------
\* A step of a checkout on its way to a session touches neither the row nor Stripe's
\* subscriptions, and moves the customer only to one no subscription has.
CheckoutMoves(w) ==
    /\ work'[w].pc \in {"customer", "create", "store", "session"}
    /\ work[w].pc \in {"idle", "customer", "create", "store"}
    /\ work' \in [Worker -> Works] /\ \A v \in Worker \ {w} : work'[v] = work[v]
    /\ UNCHANGED <<day, stripe, events, row, stale, repeats, overlapped, doubled>>
    /\ created \subseteq created' /\ created' \subseteq Customer
    /\ customer' \in created' \cup {None}
    /\ customer' = customer \/ \A s \in Sub : stripe[s].cust # customer'

LEMMA CheckoutSettles ==
    ASSUME SubscriptionsAssumption, SubsInv, NEW w \in Worker, CheckoutMoves(w), NewCustomers'
    PROVE  SubsInv'
<1> USE DEF SubsInv
<1>1. SubscriptionsTypeOK'
  BY DEF CheckoutMoves, SubscriptionsTypeOK, Works
<1>2. /\ \A v \in Worker : work[v].pc \in {"retrieve", "cancel", "find", "write", "bump"}
                           \/ work'[v].pc \in {"retrieve", "cancel", "find", "write", "bump"} =>
            work'[v] = work[v]
      /\ UNCHANGED <<day, stripe, events, row, stale, repeats, overlapped, doubled>>
      /\ customer' = customer \/ \A s \in Sub : stripe[s].cust # customer'
  BY DEF CheckoutMoves
<1>3. Writing' = Writing
  BY <1>2 DEF Writing
<1>4. \A s : Pending(s)' <=> Pending(s)
  BY <1>2 DEF Pending
<1>5. Begun'
  BY <1>2 DEF Begun, Stage
<1>6. OneRuns' <=> OneRuns
  BY <1>2 DEF OneRuns
<1>7. OneWriter' <=> OneWriter
  BY <1>3 DEF OneWriter
<1>8. ASSUME NEW v \in Worker, WriterSees(v) PROVE WriterSees(v)'
  BY <1>2, <1>8 DEF WriterSees, Stage
<1>9. row.ref \in Sub \cup {None} /\ (Tracked' => Tracked)
  BY <1>2, SubsTyped DEF Tracked
<1>10. RowCatchesUp => RowCatchesUp'
  BY <1>2, <1>4, <1>9 DEF RowCatchesUp, Stage
<1>11. PayerCatchesUp => PayerCatchesUp'
  BY <1>2, <1>4 DEF PayerCatchesUp
<1> QED
  BY <1>1, <1>2, <1>5, <1>6, <1>7, <1>8, <1>10, <1>11

LEMMA CheckoutKeeps ==
    ASSUME SubscriptionsAssumption, SubsInv, NEW w \in Worker,
           BeginCheckout(w) \/ FindCustomer(w) \/ CreateCustomer(w) \/ StoreCustomer(w)
    PROVE  SubsInv'
<1> USE DEF SubsInv
<1>0. {"idle", "customer", "create", "store", "session"} \subseteq Stages
  BY DEF Stages
<1>t. /\ work \in [Worker -> Works] /\ work[w] \in Works
      /\ customer \in created \cup {None} /\ created \subseteq Customer
  BY SubsTyped
<1>1. CASE BeginCheckout(w)
  <2>1. /\ work[w].pc = "idle" /\ work' \in [Worker -> Works] /\ work'[w].pc = "customer"
        /\ work'[w].cust = work[w].cust /\ \A v \in Worker \ {w} : work'[v] = work[v]
        /\ UNCHANGED <<day, stripe, events, created, customer, row, stale, repeats,
                       overlapped, doubled>>
    BY <1>0, <1>1, WorkMoves DEF BeginCheckout, Stage
  <2>2. NewCustomers'
    <3>1. /\ \A v \in Worker : work'[v].cust = work[v].cust
          /\ \A v \in Worker : work'[v].pc \in {"store", "session"} => work'[v] = work[v]
      BY <2>1
    <3> QED
      BY <2>1, <3>1 DEF NewCustomers, Stage
  <2>3. CheckoutMoves(w)
    BY <1>t, <2>1 DEF CheckoutMoves
  <2> QED
    BY <2>2, <2>3, CheckoutSettles
<1>2. CASE FindCustomer(w)
  <2>0. work'[w] = [work[w] EXCEPT !.pc = IF customer = None THEN "create" ELSE "session",
                                   !.cust = customer]
    BY <1>2, <1>t DEF FindCustomer
  <2>1. /\ work[w].pc = "customer"
        /\ \A v \in Worker \ {w} : work'[v] = work[v]
        /\ UNCHANGED <<day, stripe, events, created, customer, row, stale, repeats,
                       overlapped, doubled>>
    BY <1>2, <1>t DEF FindCustomer, Stage
  <2>2. /\ work'[w].pc \in {"create", "session"} /\ work'[w].cust = customer
        /\ work'[w] \in Works
    BY <1>0, <1>t, <2>0 DEF Works
  <2>3. work' \in [Worker -> Works]
    BY <1>t, <1>2, <2>2 DEF FindCustomer
  <2>4. NewCustomers'
    BY <1>t, <2>1, <2>2 DEF NewCustomers, Stage
  <2>5. CheckoutMoves(w)
    BY <1>t, <2>1, <2>2, <2>3 DEF CheckoutMoves
  <2> QED
    BY <2>4, <2>5, CheckoutSettles
<1>3. CASE CreateCustomer(w)
  <2>1. PICK c \in Customer \ created :
          /\ created' = created \cup {c}
          /\ work' = [work EXCEPT ![w].pc = "store", ![w].cust = c]
    BY <1>3 DEF CreateCustomer
  <2>0. created' = created \cup {c}
    BY <2>1
  <2>2. /\ work[w].pc = "create" /\ \A v \in Worker \ {w} : work'[v] = work[v]
        /\ UNCHANGED <<day, stripe, events, customer, row, stale, repeats, overlapped, doubled>>
    BY <1>3, <1>t, <2>1 DEF CreateCustomer, Stage
  <2>3. work'[w].pc = "store" /\ work'[w].cust = c /\ work'[w] \in Works
    <3>1. work'[w] = [work[w] EXCEPT !.pc = "store", !.cust = c]
      BY <1>t, <2>1
    <3> QED
      BY <1>0, <1>t, <3>1 DEF Works
  <2>4. work' \in [Worker -> Works]
    BY <1>t, <2>1, <2>3
  <2>5. c # None /\ c # customer
    BY <1>t, SubscriptionsAssumption
  <2>6. NewCustomers'
    <3>1. /\ \A s \in Sub : stripe[s].cust # c
          /\ \A v \in Worker : work[v].cust # c
      BY <2>5 DEF NewCustomers
    <3>2. /\ \A s \in Sub : stripe'[s].cust \in created' \cup {None}
          /\ \A v \in Worker : work'[v].cust \in created' \cup {None}
      <4>1. \A s \in Sub : stripe'[s].cust \in created' \cup {None}
        BY <2>0, <2>2 DEF NewCustomers
      <4>2. ASSUME NEW v \in Worker PROVE work'[v].cust \in created' \cup {None}
        <5>1. CASE v = w
          BY <2>0, <2>3, <5>1
        <5>2. CASE v # w
          BY <2>0, <2>2, <5>2 DEF NewCustomers
        <5> QED
          BY <5>1, <5>2
      <4> QED
        BY <4>1, <4>2
    <3>3. ASSUME NEW v \in Worker, Stage(v, "store")'
          PROVE  /\ work'[v].cust # None /\ work'[v].cust # customer'
                 /\ \A s \in Sub : stripe'[s].cust # work'[v].cust
                 /\ \A u \in Worker \ {v} :
                      work'[u].pc \in {"store", "session"} => work'[u].cust # work'[v].cust
      <4>1. CASE v = w
        BY <2>2, <2>3, <2>5, <3>1, <4>1
      <4>2. CASE v # w
        <5>1. work'[v] = work[v] /\ Stage(v, "store")
          BY <2>2, <3>3, <4>2 DEF Stage
        <5>2. \A u \in Worker \ {v} :
                work[u].pc \in {"store", "session"} => work[u].cust # work[v].cust
          BY <5>1 DEF NewCustomers
        <5>3. \A u \in Worker \ {v} :
                work'[u].pc \in {"store", "session"} => work'[u].cust # work'[v].cust
          BY <2>2, <2>3, <3>1, <5>1, <5>2
        <5> QED
          BY <2>2, <5>1, <5>3 DEF NewCustomers
      <4> QED
        BY <4>1, <4>2
    <3> QED
      BY <3>2, <3>3 DEF NewCustomers
  <2>7. CheckoutMoves(w)
    BY <1>t, <2>0, <2>2, <2>3, <2>4 DEF CheckoutMoves
  <2> QED
    BY <2>6, <2>7, CheckoutSettles
<1>4. CASE StoreCustomer(w)
  <2>1. /\ work[w].pc = "store" /\ work' \in [Worker -> Works] /\ work'[w].pc = "session"
        /\ work'[w].cust = work[w].cust /\ \A v \in Worker \ {w} : work'[v] = work[v]
        /\ customer' = work[w].cust
        /\ UNCHANGED <<day, stripe, events, created, row, stale, repeats, overlapped, doubled>>
    BY <1>0, <1>4, WorkMoves DEF StoreCustomer, Stage
  <2>2. /\ work[w].cust \in created /\ \A s \in Sub : stripe[s].cust # work[w].cust
        /\ \A v \in Worker \ {w} : work[v].pc = "store" => work[v].cust # work[w].cust
    BY <2>1 DEF NewCustomers, Stage
  <2>3. NewCustomers'
    <3>1. \A v \in Worker : work'[v].cust = work[v].cust
      BY <2>1
    <3>2. \A v \in Worker : work'[v].pc = "store" => work[v].pc = "store" /\ v # w
      BY <2>1
    <3>3. \A v \in Worker : work'[v].pc \in {"store", "session"} =>
                              work[v].pc \in {"store", "session"}
      BY <2>1
    <3> QED
      BY <2>1, <2>2, <3>1, <3>2, <3>3 DEF NewCustomers, Stage
  <2>4. CheckoutMoves(w)
    BY <1>t, <2>1, <2>2 DEF CheckoutMoves
  <2> QED
    BY <2>3, <2>4, CheckoutSettles
<1> QED
  BY <1>1, <1>2, <1>3, <1>4

\* A checkout offers a subscription that does not exist yet.
LEMMA OpenSessionKeeps ==
    ASSUME SubscriptionsAssumption, SubsInv, NEW w \in Worker, NEW s \in Sub, OpenSession(w, s)
    PROVE  SubsInv'
<1> USE DEF SubsInv
<1>1. /\ work[w].pc = "session" /\ stripe[s].st = "none"
      /\ work' \in [Worker -> Works] /\ work'[w].pc = "idle" /\ work'[w].cust = None
      /\ \A v \in Worker \ {w} : work'[v] = work[v]
      /\ UNCHANGED <<day, events, created, customer, row, stale, repeats, overlapped, doubled>>
  BY WorkMoves DEF OpenSession, Stage
<1>2. stripe' = [stripe EXCEPT ![s] = [st |-> "offered", cust |-> work[w].cust, until |-> 0]]
  BY DEF OpenSession
<1>3. /\ stripe'[s].st = "offered" /\ stripe'[s].cust = work[w].cust
      /\ \A t \in Sub \ {s} : stripe'[t] = stripe[t]
      /\ stripe' \in [Sub -> [st : StripeStates, cust : Customer \cup {None}, until : Nat]]
  BY <1>2, SubsTyped DEF StripeStates
<1>4. SubscriptionsTypeOK'
  BY <1>1, <1>3, SubsTyped DEF SubscriptionsTypeOK, Works
<1>5. NewCustomers'
  BY <1>1, <1>3 DEF NewCustomers, Stage
<1>6. /\ \A t \in Sub : stripe'[t].st \in Acted <=> stripe[t].st \in Acted
      /\ \A t \in Sub : stripe'[t].st \in Running <=> stripe[t].st \in Running
      /\ \A t \in Sub : stripe[t].st \in Acted => stripe'[t] = stripe[t]
      /\ Running \subseteq Acted
  BY <1>1, <1>3 DEF Acted, Running
<1>7. \A t : Pending(t)' <=> Pending(t)
  BY <1>1 DEF Pending
<1>8. row.ref \in Sub \cup {None} /\ \A v \in Worker : work[v].sub \in Sub \cup {None}
  BY SubsTyped
<1>9. Begun'
  BY <1>1, <1>6, <1>8 DEF Begun, Stage
<1>10. (OneRuns => OneRuns') /\ (OneWriter => OneWriter')
  BY <1>1, <1>6 DEF OneRuns, OneWriter, Writing
<1>11. ASSUME NEW v \in Worker, WriterSees(v) PROVE WriterSees(v)'
  BY <1>1, <1>6, <1>11 DEF WriterSees, Stage, Begun
<1>12. RowCatchesUp => RowCatchesUp'
  BY <1>1, <1>6, <1>7, <1>8 DEF RowCatchesUp, Tracked, Begun, Stage
<1>13. PayerCatchesUp => PayerCatchesUp'
  BY <1>1, <1>6, <1>7 DEF PayerCatchesUp
<1> QED
  BY <1>1, <1>4, <1>5, <1>9, <1>10, <1>11, <1>12, <1>13

\* What Stripe announces of one subscription.
LEMMA StripeMoves ==
    ASSUME SubscriptionsAssumption, SubscriptionsTypeOK, NEW s \in Sub, NEW st \in StripeStates,
           Moves(s, st)
    PROVE  /\ stripe'[s].st = st /\ stripe'[s].cust = stripe[s].cust
           /\ stripe'[s].until = IF st = "active" THEN day + 1 ELSE stripe[s].until
           /\ \A t \in Sub \ {s} : stripe'[t] = stripe[t] /\ events'[t] = events[t]
           /\ stripe' \in [Sub -> [st : StripeStates, cust : Customer \cup {None}, until : Nat]]
           /\ events' \in [Sub -> Nat] /\ events'[s] > 0
<1>1. /\ stripe \in [Sub -> [st : StripeStates, cust : Customer \cup {None}, until : Nat]]
      /\ stripe[s] \in [st : StripeStates, cust : Customer \cup {None}, until : Nat]
      /\ events \in [Sub -> Nat] /\ events[s] \in Nat /\ day \in Nat
  BY SubsTyped
<1> DEFINE paid == IF st = "active" THEN day + 1 ELSE stripe[s].until
<1>2. stripe'[s] = [stripe[s] EXCEPT !.st = st, !.until = paid] /\ paid \in Nat
  BY <1>1 DEF Moves
<1> HIDE DEF paid
<1>3. /\ stripe'[s].st = st /\ stripe'[s].cust = stripe[s].cust
      /\ stripe'[s].until = paid
      /\ stripe'[s] \in [st : StripeStates, cust : Customer \cup {None}, until : Nat]
  BY <1>1, <1>2
<1>4. stripe' \in [Sub -> [st : StripeStates, cust : Customer \cup {None}, until : Nat]]
  BY <1>1, <1>3 DEF Moves
<1>5. /\ events' \in [Sub -> Nat] /\ events'[s] > 0
      /\ \A t \in Sub \ {s} : events'[t] = events[t]
  BY <1>1 DEF Moves
<1>6. \A t \in Sub \ {s} : stripe'[t] = stripe[t]
  BY <1>1 DEF Moves
<1>7. \A t \in Sub \ {s} : stripe'[t] = stripe[t] /\ events'[t] = events[t]
  BY <1>5, <1>6
<1> QED
  BY <1>3, <1>4, <1>5, <1>7 DEF paid

\* Stripe changes a subscription and announces it.
LEMMA PayKeeps ==
    ASSUME SubscriptionsAssumption, SubsInv, NEW s \in Sub, Pay(s)
    PROVE  SubsInv'
<1> USE DEF SubsInv
<1>1. /\ stripe[s].st \in {"offered", "incomplete"}
      /\ UNCHANGED <<day, created, customer, row, stale, work, repeats, overlapped>>
  BY DEF Pay
<1>2. PICK st \in {"active", "incomplete", "canceled"} : Moves(s, st)
  BY DEF Pay
<1>3. /\ stripe'[s].st = st /\ stripe'[s].cust = stripe[s].cust
      /\ st = "active" => stripe'[s].until = day + 1
      /\ \A t \in Sub \ {s} : stripe'[t] = stripe[t]
      /\ stripe' \in [Sub -> [st : StripeStates, cust : Customer \cup {None}, until : Nat]]
  BY <1>2, StripeMoves DEF StripeStates
<1>4. /\ events' \in [Sub -> Nat] /\ events'[s] > 0
      /\ \A t \in Sub \ {s} : events'[t] = events[t]
  BY <1>2, StripeMoves DEF StripeStates
<1>5. /\ doubled' \in BOOLEAN /\ (doubled => doubled')
      /\ ~ doubled' /\ st = "active" => \A t \in Sub \ {s} : stripe[t].st \notin Running
  BY <1>2, SubsTyped DEF Moves
<1>6. SubscriptionsTypeOK'
  BY <1>1, <1>3, <1>4, <1>5 DEF SubscriptionsTypeOK
<1>7. NewCustomers'
  BY <1>1, <1>3 DEF NewCustomers, Stage
<1>8. /\ stripe[s].st \notin Acted /\ Running \subseteq Acted
      /\ stripe'[s].st \in Running => st = "active"
      /\ day \in Nat
  BY <1>1, <1>3, SubsTyped DEF Acted, Running
<1>9. row.ref # s /\ \A v \in Worker : work[v].pc \in {"find", "write"} => work[v].sub # s
  BY <1>8, SubscriptionsAssumption DEF Begun
<1>10. Begun'
  <2>1. row.ref \in Sub \cup {None}
    BY SubsTyped
  <2>2. \A t \in Sub : stripe'[t].st \in Running => stripe'[t].until > day
    BY <1>1, <1>3, <1>8 DEF Begun
  <2>3. \A v \in Worker : work[v].pc \in {"find", "write"} =>
          work[v].sub \in Sub /\ stripe'[work[v].sub] = stripe[work[v].sub]
    BY <1>1, <1>3, <1>9 DEF Begun
  <2> QED
    BY <1>1, <1>3, <1>9, <2>1, <2>2, <2>3 DEF Begun, Stage
<1>11. \A t \in Sub : (Pending(t) => Pending(t)') /\ Pending(s)'
  BY <1>1, <1>4 DEF Pending
<1>12. ~ doubled' => OneRuns'
  BY <1>3, <1>5, <1>8 DEF OneRuns
<1>13. OneWriter => OneWriter'
  BY <1>1 DEF OneWriter, Writing
<1>14. ASSUME NEW v \in Worker, WriterSees(v) PROVE WriterSees(v)'
  BY <1>1, <1>3, <1>4, <1>9, <1>14 DEF WriterSees, Stage, Begun
<1>15. RowCatchesUp => RowCatchesUp'
  BY <1>1, <1>3, <1>9, <1>11, SubsTyped DEF RowCatchesUp, Tracked, Stage
<1>16. PayerCatchesUp => PayerCatchesUp'
  BY <1>1, <1>3, <1>4, <1>9, <1>11 DEF PayerCatchesUp
<1> QED
  BY <1>1, <1>5, <1>6, <1>7, <1>10, <1>12, <1>13, <1>14, <1>15, <1>16

\* A paid period ends.
LEMMA PeriodEndsKeeps ==
    ASSUME SubscriptionsAssumption, SubsInv, PeriodEnds
    PROVE  SubsInv'
<1> USE DEF SubsInv
<1>1. /\ day' = day + 1 /\ day < MaxDays /\ day \in Nat /\ day' \in 0 .. MaxDays
      /\ UNCHANGED <<created, customer, row, stale, work, repeats, overlapped, doubled>>
  BY SubsTyped, SubscriptionsAssumption DEF PeriodEnds, SubscriptionsTypeOK
<1>2. \A t \in Sub :
        /\ stripe[t].st = "active" => stripe'[t] = [stripe[t] EXCEPT !.until = day + 2]
        /\ stripe[t].st = "cancelling" => stripe'[t] = [stripe[t] EXCEPT !.st = "canceled"]
        /\ stripe[t].st \notin {"active", "cancelling"} => stripe'[t] = stripe[t]
        /\ events'[t] = IF stripe[t].st \in Running THEN events[t] + 1 ELSE events[t]
  BY DEF PeriodEnds
<1>3. \A t \in Sub :
        stripe[t] \in [st : StripeStates, cust : Customer \cup {None}, until : Nat]
  BY SubsTyped
<1>4. \A t \in Sub :
        /\ stripe'[t].cust = stripe[t].cust
        /\ stripe[t].st = "active" => stripe'[t].st = "active" /\ stripe'[t].until = day + 2
        /\ stripe[t].st = "cancelling" => stripe'[t].st = "canceled"
        /\ stripe'[t] \in [st : StripeStates, cust : Customer \cup {None}, until : Nat]
  <2> SUFFICES ASSUME NEW t \in Sub
               PROVE  /\ stripe'[t].cust = stripe[t].cust
                      /\ stripe[t].st = "active" =>
                           stripe'[t].st = "active" /\ stripe'[t].until = day + 2
                      /\ stripe[t].st = "cancelling" => stripe'[t].st = "canceled"
                      /\ stripe'[t] \in [st : StripeStates, cust : Customer \cup {None},
                                         until : Nat]
    OBVIOUS
  <2>1. stripe[t] \in [st : StripeStates, cust : Customer \cup {None}, until : Nat]
    BY <1>3
  <2>2. CASE stripe[t].st = "active"
    <3>1. stripe'[t] = [st |-> "active", cust |-> stripe[t].cust, until |-> day + 2]
      BY <1>2, <2>1, <2>2
    <3> QED
      BY <1>1, <2>1, <2>2, <3>1
  <2>3. CASE stripe[t].st = "cancelling"
    <3>1. stripe'[t] = [st |-> "canceled", cust |-> stripe[t].cust, until |-> stripe[t].until]
      BY <1>2, <2>1, <2>3
    <3> QED
      BY <2>1, <2>3, <3>1 DEF StripeStates
  <2>4. CASE stripe[t].st \notin {"active", "cancelling"}
    BY <1>2, <2>1, <2>4
  <2> QED
    BY <2>2, <2>3, <2>4
<1>5. /\ DOMAIN stripe' = Sub /\ DOMAIN events' = Sub
      /\ stripe' = [t \in Sub |-> stripe'[t]] /\ events' = [t \in Sub |-> events'[t]]
  BY DEF PeriodEnds
<1>6. /\ stripe' \in [Sub -> [st : StripeStates, cust : Customer \cup {None}, until : Nat]]
      /\ events' \in [Sub -> Nat]
  BY <1>2, <1>4, <1>5, SubsTyped
<1>7. SubscriptionsTypeOK'
  BY <1>1, <1>6 DEF SubscriptionsTypeOK
<1>8. NewCustomers'
  BY <1>1, <1>4 DEF NewCustomers, Stage
<1>9. \A t \in Sub : /\ stripe'[t].st \in Running => stripe[t].st = "active"
                     /\ stripe'[t].st \in Running => stripe[t].st \in Running
                     /\ stripe[t].st \in Acted => stripe'[t].st \in Acted
                     /\ stripe[t].st = "canceled" => stripe'[t].st = "canceled"
                     /\ stripe[t].st \notin Running => stripe'[t] = stripe[t]
                     /\ stripe[t].st \in Running => events'[t] > 0
                     /\ events[t] > 0 => events'[t] > 0
  <2>1. \A t \in Sub : stripe[t].st \notin {"active", "cancelling"} => stripe'[t] = stripe[t]
    BY <1>2
  <2>2. \A t \in Sub : events[t] \in Nat
    BY SubsTyped
  <2>3. ASSUME NEW t \in Sub
        PROVE  /\ stripe'[t].st \in Running => stripe[t].st = "active"
               /\ stripe[t].st \in Acted => stripe'[t].st \in Acted
    <3>1. CASE stripe[t].st \in {"active", "cancelling"}
      BY <1>4, <3>1 DEF Running, Acted
    <3>2. CASE stripe[t].st \notin {"active", "cancelling"}
      BY <2>1, <3>2 DEF Running, Acted
    <3> QED
      BY <3>1, <3>2
  <2>4. \A t \in Sub : stripe[t].st = "canceled" => stripe'[t].st = "canceled"
    BY <2>1
  <2>5. \A t \in Sub : /\ stripe[t].st \in Running => events'[t] > 0
                       /\ events[t] > 0 => events'[t] > 0
    <3>1. \A t \in Sub : events'[t] = IF stripe[t].st \in Running THEN events[t] + 1
                                                                  ELSE events[t]
      BY DEF PeriodEnds
    <3> QED
      BY <2>2, <3>1
  <2>6. {"active", "cancelling"} = Running /\ "active" \in Running
    BY DEF Running
  <2> SUFFICES ASSUME NEW t \in Sub
               PROVE  /\ stripe'[t].st \in Running => stripe[t].st = "active"
                      /\ stripe'[t].st \in Running => stripe[t].st \in Running
                      /\ stripe[t].st \in Acted => stripe'[t].st \in Acted
                      /\ stripe[t].st = "canceled" => stripe'[t].st = "canceled"
                      /\ stripe[t].st \notin Running => stripe'[t] = stripe[t]
                      /\ stripe[t].st \in Running => events'[t] > 0
                      /\ events[t] > 0 => events'[t] > 0
    OBVIOUS
  <2> QED
    BY <2>1, <2>3, <2>4, <2>5, <2>6
<1>10. row.ref \in Sub \cup {None}
  BY SubsTyped
<1>11. Begun'
  BY <1>1, <1>4, <1>9, <1>10 DEF Begun, Stage
<1>12. \A t \in Sub : /\ Pending(t) => Pending(t)'
                      /\ stripe[t].st \in Running => Pending(t)'
  BY <1>1, <1>9 DEF Pending
<1>13. (OneRuns => OneRuns') /\ (OneWriter => OneWriter')
  BY <1>1, <1>9 DEF OneRuns, OneWriter, Writing
<1>14. ASSUME NEW v \in Worker, WriterSees(v) PROVE WriterSees(v)'
  BY <1>1, <1>9, <1>14 DEF WriterSees, Stage, Begun
<1>15. RowCatchesUp => RowCatchesUp'
  BY <1>1, <1>4, <1>9, <1>10, <1>12 DEF RowCatchesUp, Tracked, Stage
<1>16. PayerCatchesUp => PayerCatchesUp'
  BY <1>1, <1>4, <1>9, <1>12 DEF PayerCatchesUp
<1> QED
  BY <1>1, <1>7, <1>8, <1>11, <1>13, <1>14, <1>15, <1>16

-----------------------------------------------------------------------------
\* A cancellation or a delivery begins; nothing else was about to write, or this
\* is remembered.
LEMMA BeginCancelKeeps ==
    ASSUME SubscriptionsAssumption, SubsInv, NEW w \in Worker, BeginCancel(w)
    PROVE  SubsInv'
<1> USE DEF SubsInv
<1>1. /\ work[w].pc = "idle" /\ row.status = "ACTIVE"
      /\ work'[w] = [work[w] EXCEPT !.pc = "cancel", !.sub = row.ref]
      /\ \A v \in Worker \ {w} : work'[v] = work[v]
      /\ UNCHANGED <<day, stripe, events, created, customer, row, stale, repeats, doubled>>
  BY SubsTyped DEF BeginCancel, Stage
<1>2. overlapped' \in BOOLEAN /\ (overlapped => overlapped') /\ (~ overlapped' => Writing = {})
  BY SubsTyped DEF BeginCancel
<1>3. /\ work'[w].pc = "cancel" /\ work'[w].sub = row.ref /\ work'[w].cust = work[w].cust
      /\ work'[w] \in Works /\ row.ref \in Sub \cup {None}
  BY <1>1, SubsTyped DEF Works, Stages
<1>4. work' \in [Worker -> Works]
  BY <1>3, SubsTyped DEF BeginCancel
<1>5. SubscriptionsTypeOK'
  BY <1>1, <1>2, <1>4 DEF SubscriptionsTypeOK, Works
<1>6. NewCustomers' /\ Begun'
  <2>1. /\ \A v \in Worker : work'[v].cust = work[v].cust
        /\ \A v \in Worker : work'[v].pc \in {"store", "session"} => work'[v] = work[v]
    BY <1>1, <1>3
  <2>2. NewCustomers'
    BY <1>1, <2>1 DEF NewCustomers, Stage
  <2>3. \A v \in Worker : work'[v].pc \in {"find", "write"} => work'[v] = work[v]
    BY <1>1, <1>3
  <2>4. \A v \in Worker : work'[v].pc = "retrieve" => work'[v].sub \in Sub
    BY <1>1, <1>3 DEF Begun, Stage
  <2>5. Begun'
    BY <1>1, <2>3, <2>4 DEF Begun, Stage
  <2> QED
    BY <2>2, <2>5
<1>7. \A t : Pending(t)' <=> Pending(t)
  BY <1>1, <1>3 DEF Pending
<1>8. OneRuns => OneRuns'
  BY <1>1 DEF OneRuns
<1>9. ~ overlapped' => OneWriter' /\ \A v \in Worker : WriterSees(v)'
  <2> SUFFICES ASSUME ~ overlapped' PROVE OneWriter' /\ \A v \in Worker : WriterSees(v)'
    OBVIOUS
  <2>1. \A v \in Worker \ {w} : work'[v].pc \notin {"cancel", "retrieve", "find", "write"}
    BY <1>1, <1>2 DEF Writing
  <2>2. OneWriter'
    BY <2>1 DEF OneWriter, Writing
  <2>3. \A v \in Worker : WriterSees(v)'
    BY <1>1, <1>3, <2>1 DEF WriterSees, Stage
  <2> QED
    BY <2>2, <2>3
<1>10. RowCatchesUp => RowCatchesUp'
  BY <1>1, <1>3, <1>7 DEF RowCatchesUp, Tracked, Stage
<1>11. PayerCatchesUp => PayerCatchesUp'
  <2>1. \A v \in Worker : work'[v].pc \in {"find", "write"} => work'[v] = work[v]
    BY <1>1, <1>3
  <2> QED
    BY <1>1, <1>7, <2>1 DEF PayerCatchesUp
<1> QED
  BY <1>1, <1>2, <1>5, <1>6, <1>8, <1>9, <1>10, <1>11

LEMMA ReceiveKeeps ==
    ASSUME SubscriptionsAssumption, SubsInv, NEW w \in Worker, NEW s \in Sub, Receive(w, s)
    PROVE  SubsInv'
<1> USE DEF SubsInv
<1>1. /\ work[w].pc = "idle" /\ events[s] > 0
      /\ work'[w] = [work[w] EXCEPT !.pc = "retrieve", !.sub = s]
      /\ \A v \in Worker \ {w} : work'[v] = work[v]
      /\ events' \in [Sub -> Nat] /\ \A t \in Sub \ {s} : events'[t] = events[t]
      /\ UNCHANGED <<day, stripe, created, customer, row, stale, repeats, doubled>>
  BY SubsTyped DEF Receive, Stage
<1>2. overlapped' \in BOOLEAN /\ (overlapped => overlapped') /\ (~ overlapped' => Writing = {})
  BY SubsTyped DEF Receive
<1>3. /\ work'[w].pc = "retrieve" /\ work'[w].sub = s /\ work'[w].cust = work[w].cust
      /\ work'[w] \in Works /\ row.ref \in Sub \cup {None}
  BY <1>1, SubsTyped DEF Works, Stages
<1>4. work' \in [Worker -> Works]
  BY <1>3, SubsTyped DEF Receive
<1>5. SubscriptionsTypeOK'
  BY <1>1, <1>2, <1>4 DEF SubscriptionsTypeOK, Works
<1>6. NewCustomers' /\ Begun'
  <2>1. /\ \A v \in Worker : work'[v].cust = work[v].cust
        /\ \A v \in Worker : work'[v].pc \in {"store", "session"} => work'[v] = work[v]
    BY <1>1, <1>3
  <2>2. NewCustomers'
    BY <1>1, <2>1 DEF NewCustomers, Stage
  <2>3. \A v \in Worker : work'[v].pc \in {"find", "write"} => work'[v] = work[v]
    BY <1>1, <1>3
  <2>4. \A v \in Worker : work'[v].pc = "retrieve" => work'[v].sub \in Sub
    BY <1>1, <1>3 DEF Begun, Stage
  <2>5. Begun'
    BY <1>1, <2>3, <2>4 DEF Begun, Stage
  <2> QED
    BY <2>2, <2>5
<1>7. \A t \in Sub : Pending(t) => Pending(t)'
  <2>1. Pending(s)'
    BY <1>3 DEF Pending
  <2>2. ASSUME NEW t \in Sub \ {s}, Pending(t) PROVE Pending(t)'
    BY <1>1, <2>2 DEF Pending
  <2> QED
    BY <2>1, <2>2
<1>8. OneRuns => OneRuns'
  BY <1>1 DEF OneRuns
<1>9. ~ overlapped' => OneWriter' /\ \A v \in Worker : WriterSees(v)'
  <2> SUFFICES ASSUME ~ overlapped' PROVE OneWriter' /\ \A v \in Worker : WriterSees(v)'
    OBVIOUS
  <2>1. \A v \in Worker \ {w} : work'[v].pc \notin {"cancel", "retrieve", "find", "write"}
    BY <1>1, <1>2 DEF Writing
  <2>2. OneWriter'
    BY <2>1 DEF OneWriter, Writing
  <2>3. \A v \in Worker : WriterSees(v)'
    BY <1>1, <1>3, <2>1 DEF WriterSees, Stage
  <2> QED
    BY <2>2, <2>3
<1>10. RowCatchesUp => RowCatchesUp'
  BY <1>1, <1>3, <1>7 DEF RowCatchesUp, Tracked, Stage
<1>11. PayerCatchesUp /\ ~ overlapped' => PayerCatchesUp'
  <2> SUFFICES ASSUME ~ overlapped', PayerCatchesUp PROVE PayerCatchesUp'
    OBVIOUS
  <2>1. \A v \in Worker : work'[v].pc \notin {"find", "write"}
    <3>1. \A v \in Worker : work[v].pc \notin {"find", "write"}
      BY <1>2 DEF Writing
    <3> QED
      BY <1>1, <1>3, <3>1
  <2> QED
    BY <1>1, <1>7, <2>1 DEF PayerCatchesUp
<1> QED
  BY <1>1, <1>2, <1>5, <1>6, <1>8, <1>9, <1>10, <1>11

\* A handler that gives up leaves nothing behind: what it was asked to do was done,
\* is not the user's, or is about to be asked for again.
LEMMA GivesUp ==
    ASSUME SubscriptionsAssumption, SubsInv, NEW w \in Worker,
           work' \in [Worker -> Works], work'[w].pc = "idle", work'[w].cust = None,
           \A v \in Worker \ {w} : work'[v] = work[v],
           UNCHANGED <<day, stripe, created, customer, row, stale, overlapped, doubled>>,
           events' \in [Sub -> Nat], repeats' \in 0 .. MaxRepeats,
           \A t \in Sub : events[t] > 0 => events'[t] > 0,
           \/ work[w].pc = "cancel"
           \/ work[w].pc = "retrieve" /\ \/ stripe[work[w].sub].cust # customer
                                         \/ stripe[work[w].sub].st \notin Acted
           \/ work[w].pc = "find" /\ row.ref # work[w].sub /\ work[w].status = "EXPIRED"
           \/ work[w].sub \in Sub /\ events'[work[w].sub] > 0
    PROVE  SubsInv'
<1> USE DEF SubsInv
<1>1. SubscriptionsTypeOK'
  BY DEF SubscriptionsTypeOK, Works
<1>2. \A v \in Worker : work'[v].pc # "idle" => v # w /\ work'[v] = work[v]
  OBVIOUS
<1>3. NewCustomers'
  BY <1>2 DEF NewCustomers, Stage
<1>4. Begun'
  BY <1>2 DEF Begun, Stage
<1>5. (OneRuns => OneRuns') /\ (OneWriter => OneWriter')
  BY <1>2 DEF OneRuns, OneWriter, Writing
<1>6. row.ref \in Sub \cup {None}
  BY SubsTyped
<1>7. ASSUME NEW v \in Worker, WriterSees(v) PROVE WriterSees(v)'
  BY <1>2, <1>7 DEF WriterSees, Stage, Begun
<1>8. \A t \in Sub : Pending(t) => \/ Pending(t)'
                                   \/ /\ work[w].sub = t /\ ~ events'[t] > 0
                                      /\ work[w].pc \in {"retrieve", "find", "write"}
  BY DEF Pending
<1>9. RowCatchesUp => RowCatchesUp'
  <2> SUFFICES ASSUME RowCatchesUp, Tracked PROVE RowCatchesUp'
    BY DEF RowCatchesUp, Tracked
  <2>1. row.ref \in Sub /\ stripe[row.ref].cust = customer /\ stripe[row.ref].st \in Acted
    BY <1>6 DEF Tracked, Begun
  <2>2. Pending(row.ref) => Pending(row.ref)'
    BY <1>8, <2>1
  <2>3. (\E v \in Worker : Stage(v, "bump") /\ work[v].sub = row.ref) =>
          \/ Pending(row.ref)'
          \/ \E v \in Worker : Stage(v, "bump")' /\ work'[v].sub = row.ref
    BY <2>1 DEF Stage, Pending
  <2> QED
    BY <2>2, <2>3 DEF RowCatchesUp
<1>10. PayerCatchesUp => PayerCatchesUp'
  <2> SUFFICES ASSUME PayerCatchesUp, NEW t \in Sub, stripe[t].st \in Running,
                      stripe[t].cust = customer
               PROVE  /\ row.ref = t \/ Pending(t)'
                      /\ \A v \in Worker :
                           work'[v].pc \in {"find", "write"} /\ work'[v].sub # t
                             /\ work'[v].status # "EXPIRED" => events'[t] > 0
    BY DEF PayerCatchesUp
  <2>1. stripe[t].st \in Acted /\ stripe[t].st # "canceled"
    BY DEF Acted, Running
  <2>2. row.ref = t \/ Pending(t)'
    <3>1. work[w].pc = "find" /\ work[w].status = "EXPIRED" => work[w].sub # t
      BY <2>1 DEF Begun
    <3> QED
      BY <1>8, <2>1, <3>1 DEF PayerCatchesUp
  <2> QED
    BY <1>2, <2>2 DEF PayerCatchesUp
<1> QED
  BY <1>1, <1>3, <1>4, <1>5, <1>7, <1>9, <1>10

\* A cancellation proper.
LEMMA CancelKeeps ==
    ASSUME SubscriptionsAssumption, SubsInv, NEW w \in Worker, CancelStub(w) \/ CancelAtStripe(w)
    PROVE  SubsInv'
<1> USE DEF SubsInv
<1>t. /\ row \in [status : Statuses, ref : Sub \cup {None}, until : Nat]
      /\ row.ref \in Sub \cup {None} /\ work[w] \in Works /\ work \in [Worker -> Works]
      /\ {"idle", "bump", "write"} \subseteq Stages
  BY SubsTyped DEF Stages
<1>1. CASE CancelStub(w)
  <2>1. /\ work[w].pc = "cancel" /\ work[w].sub = None
        /\ work' \in [Worker -> Works] /\ work'[w].pc = "bump" /\ work'[w].cust = work[w].cust
        /\ work'[w].sub = None /\ \A v \in Worker \ {w} : work'[v] = work[v]
        /\ UNCHANGED <<day, stripe, events, created, customer, repeats, overlapped, doubled>>
        /\ stale' = TRUE
    BY <1>1, <1>t, WorkMoves DEF CancelStub, Stage
  <2>2. row' = [status |-> "CANCELLED", ref |-> row.ref, until |-> row.until]
    BY <1>1, <1>t DEF CancelStub
  <2>3. /\ row'.ref = row.ref /\ row'.status = "CANCELLED"
        /\ row' \in [status : Statuses, ref : Sub \cup {None}, until : Nat]
    BY <1>t, <2>2 DEF Statuses
  <2>4. SubscriptionsTypeOK'
    BY <2>1, <2>3 DEF SubscriptionsTypeOK, Works
  <2>5. /\ \A v \in Worker : work'[v].cust = work[v].cust
        /\ \A v \in Worker : work'[v].pc \in {"store", "session", "retrieve", "find", "write",
                                              "cancel"} => work'[v] = work[v]
    BY <2>1
  <2>6. NewCustomers'
    BY <2>1, <2>5 DEF NewCustomers, Stage
  <2>7. Begun'
    BY <2>1, <2>3, <2>5 DEF Begun, Stage
  <2>8. (OneRuns => OneRuns') /\ (OneWriter => OneWriter')
    BY <2>1, <2>5 DEF OneRuns, OneWriter, Writing
  <2>9. ASSUME NEW v \in Worker, WriterSees(v) PROVE WriterSees(v)'
    BY <2>1, <2>3, <2>5, <2>9 DEF WriterSees, Stage
  <2>10. \A u \in Sub : Pending(u)' <=> Pending(u)
    BY <2>1 DEF Pending
  <2>11. ~ overlapped => RowCatchesUp'
    BY <2>1, <2>3 DEF RowCatchesUp, Tracked, WriterSees, Stage
  <2>12. PayerCatchesUp => PayerCatchesUp'
    BY <2>1, <2>3, <2>5, <2>10 DEF PayerCatchesUp
  <2> QED
    BY <2>1, <2>4, <2>6, <2>7, <2>8, <2>9, <2>11, <2>12
<1>2. CASE CancelAtStripe(w) /\ stripe[work[w].sub].st \in Running
  <2> PICK s : s = work[w].sub
    OBVIOUS
  <2>1. /\ work[w].pc = "cancel" /\ s \in Sub /\ stripe[s].st \in Running /\ Moves(s, "cancelling")
        /\ UNCHANGED <<day, created, customer, row, stale, repeats, overlapped>>
    BY <1>2, SubsTyped DEF CancelAtStripe, Stage
  <2>0. work' = [work EXCEPT ![w].pc = "write", ![w].status = "CANCELLED",
                             ![w].until = stripe[s].until]
    BY <1>2 DEF CancelAtStripe
  <2>2. /\ stripe'[s].st = "cancelling" /\ stripe'[s].cust = stripe[s].cust
        /\ stripe'[s].until = stripe[s].until
        /\ \A t \in Sub \ {s} : stripe'[t] = stripe[t] /\ events'[t] = events[t]
        /\ stripe' \in [Sub -> [st : StripeStates, cust : Customer \cup {None}, until : Nat]]
        /\ events' \in [Sub -> Nat] /\ events'[s] > 0
    BY <2>1, StripeMoves DEF StripeStates
  <2>3. doubled' = doubled
    BY <2>1, SubsTyped DEF Moves
  <2>4. \A v \in Worker \ {w} : work'[v] = work[v]
    BY <1>t, <2>0
  <2>5. /\ work'[w].pc = "write" /\ work'[w].status = "CANCELLED" /\ work'[w].sub = work[w].sub
        /\ work'[w].cust = work[w].cust /\ work'[w] \in Works
    <3>1. work'[w] = [work[w] EXCEPT !.pc = "write", !.status = "CANCELLED",
                                     !.until = stripe[s].until]
      BY <1>t, <2>0
    <3>2. s \in Sub /\ stripe[s].until \in Nat
      BY <2>1, SubsTyped
    <3> QED
      BY <1>t, <3>1, <3>2 DEF Works, Statuses
  <2>6. work' \in [Worker -> Works]
    BY <1>t, <2>0, <2>5
  <2>7. SubscriptionsTypeOK'
    BY <2>1, <2>2, <2>3, <2>6 DEF SubscriptionsTypeOK, Works
  <2>8. /\ \A v \in Worker : work'[v].cust = work[v].cust /\ work'[v].sub = work[v].sub
        /\ \A v \in Worker : work'[v].pc \in {"store", "session", "retrieve", "find", "cancel",
                                              "bump"} => work'[v] = work[v]
    BY <2>4, <2>5
  <2>9. \A t \in Sub : stripe'[t].cust = stripe[t].cust
    BY <2>2
  <2>10. NewCustomers'
    BY <2>1, <2>8, <2>9 DEF NewCustomers, Stage
  <2>11. \A t \in Sub : /\ stripe'[t].st \in Running <=> stripe[t].st \in Running
                        /\ stripe[t].st \in Acted => stripe'[t].st \in Acted
                        /\ stripe[t].st = "canceled" => stripe'[t].st = "canceled"
                        /\ stripe'[t].until = stripe[t].until
    BY <2>1, <2>2 DEF Running, Acted
  <2>12. work[w].sub = s /\ stripe'[s].st \in Acted
    BY <2>2 DEF Running, Acted
  <2>13. Begun'
    <3>1. row.ref # None => stripe'[row.ref].st \in Acted
      BY <1>t, <2>11 DEF Begun
    <3>2. ASSUME NEW v \in Worker, work'[v].pc \in {"find", "write"}
          PROVE  /\ work'[v].sub \in Sub /\ stripe'[work'[v].sub].st \in Acted
                 /\ work'[v].status # "none"
                 /\ work'[v].status = "EXPIRED" => stripe'[work'[v].sub].st = "canceled"
      <4>1. CASE v = w
        BY <2>1, <2>5, <2>12, <4>1
      <4>2. CASE v # w
        BY <2>4, <2>11, <3>2, <4>2 DEF Begun
      <4> QED
        BY <4>1, <4>2
    <3> QED
      BY <2>1, <2>8, <2>11, <3>1, <3>2 DEF Begun, Stage
  <2>14. OneRuns => OneRuns'
    BY <2>11 DEF OneRuns
  <2>15. OneWriter => OneWriter' /\ \A v \in Worker \ {w} : work'[v].pc \notin {"find", "write"}
    BY <2>1, <2>4, <2>5 DEF OneWriter, Writing
  <2>16. \A t \in Sub : Pending(t) => Pending(t)'
    BY <2>1, <2>2, <2>4, SubsTyped DEF Pending
  <2>17. Pending(s)'
    BY <2>2 DEF Pending
  <2>18. ASSUME NEW v \in Worker, WriterSees(v), OneWriter PROVE WriterSees(v)'
    <3>1. CASE v = w
      BY <2>2, <2>5, <2>12, <3>1 DEF WriterSees, Stage
    <3>2. CASE v # w
      BY <2>1, <2>4, <2>15, <2>18, <3>2 DEF WriterSees, Stage
    <3> QED
      BY <3>1, <3>2
  <2>19. RowCatchesUp => RowCatchesUp'
    <3>1. CASE row.ref = s
      <4>1. Pending(row.ref)'
        BY <2>1, <2>2, <3>1 DEF Pending
      <4> QED
        BY <4>1 DEF RowCatchesUp
    <3>2. CASE row.ref # s
      <4>1. row.ref \in Sub => (Pending(row.ref) => Pending(row.ref)')
        BY <2>1, <2>16
      <4>2. row.ref \in Sub => stripe'[row.ref] = stripe[row.ref]
        BY <2>2, <3>2
      <4>3. \A v \in Worker : Stage(v, "bump") => Stage(v, "bump")' /\ work'[v].sub = work[v].sub
        BY <2>1, <2>4, <2>8 DEF Stage
      <4> QED
        BY <1>t, <2>1, <4>1, <4>2, <4>3 DEF RowCatchesUp, Tracked
    <3> QED
      BY <3>1, <3>2
  <2>20. PayerCatchesUp /\ OneRuns /\ OneWriter => PayerCatchesUp'
    <3> SUFFICES ASSUME OneRuns, OneWriter, PayerCatchesUp,
                        NEW t \in Sub, stripe'[t].st \in Running
                 PROVE  /\ Pending(t)'
                        /\ \A v \in Worker :
                             work'[v].pc \in {"find", "write"} /\ work'[v].sub # t
                               /\ work'[v].status # "EXPIRED" => events'[t] > 0
      BY DEF PayerCatchesUp
    <3>1. t = s
      BY <2>1, <2>11 DEF OneRuns
    <3>2. events'[t] > 0 /\ Pending(t)'
      BY <2>2, <2>17, <3>1
    <3> QED
      BY <3>2
  <2> QED
    BY <2>1, <2>3, <2>7, <2>10, <2>13, <2>14, <2>15, <2>18, <2>19, <2>20
<1>3. CASE CancelAtStripe(w) /\ stripe[work[w].sub].st \notin Running
  <2>1. /\ work[w].pc = "cancel" /\ work' \in [Worker -> Works] /\ work'[w].pc = "idle"
        /\ work'[w].cust = None /\ \A v \in Worker \ {w} : work'[v] = work[v]
        /\ UNCHANGED <<day, stripe, events, created, customer, row, stale, repeats, overlapped,
                       doubled>>
    BY <1>3, WorkMoves DEF CancelAtStripe, Stage
  <2> QED
    BY <1>t, <2>1, SubsTyped, GivesUp
<1> QED
  BY <1>1, <1>2, <1>3 DEF CancelAtStripe

\* A delivery asks Stripe, finds the row, and writes it.
LEMMA RetrieveKeeps ==
    ASSUME SubscriptionsAssumption, SubsInv, NEW w \in Worker, Retrieve(w)
    PROVE  SubsInv'
<1> USE DEF SubsInv
<1> DEFINE s == work[w].sub
           status == LocalStatus(stripe[s].st)
<1>1. /\ work[w].pc = "retrieve" /\ s \in Sub /\ stripe[s].st \in StripeStates
      /\ work \in [Worker -> Works] /\ work[w] \in Works /\ stripe[s].until \in Nat
      /\ status \in Statuses
      /\ UNCHANGED <<day, stripe, events, created, customer, row, stale, repeats, overlapped,
                     doubled>>
  BY SubsTyped DEF Retrieve, Begun, Stage, LocalStatus, Statuses
<1>2. /\ stripe[s].st \in Acted <=> status # "none"
      /\ status = "EXPIRED" <=> stripe[s].st = "canceled"
      /\ stripe[s].st \in Running <=> status \in {"ACTIVE", "CANCELLED"}
      /\ Running \subseteq Acted
  BY <1>1 DEF LocalStatus, Acted, Running, StripeStates
<1>3. CASE stripe[s].cust # customer \/ status = "none"
  <2>1. /\ work' \in [Worker -> Works] /\ work'[w].pc = "idle" /\ work'[w].cust = None
        /\ \A v \in Worker \ {w} : work'[v] = work[v]
    BY <1>3, WorkMoves DEF Retrieve
  <2> QED
    BY <1>1, <1>2, <1>3, <2>1, SubsTyped, GivesUp
<1>4. CASE ~ (stripe[s].cust # customer \/ status = "none")
  <2>1. work' = [work EXCEPT ![w].pc = "find", ![w].status = status,
                             ![w].until = stripe[s].until]
    BY <1>4 DEF Retrieve
  <2> HIDE DEF status
  <2>2. \A v \in Worker \ {w} : work'[v] = work[v]
    BY <1>1, <2>1
  <2>3. /\ work'[w].pc = "find" /\ work'[w].status = status /\ work'[w].sub = work[w].sub
        /\ work'[w].until = stripe[s].until
        /\ work'[w].cust = work[w].cust /\ work'[w] \in Works
    <3>1. work'[w] = [work[w] EXCEPT !.pc = "find", !.status = status,
                                     !.until = stripe[s].until]
      BY <1>1, <2>1
    <3> QED
      BY <1>1, <3>1 DEF Works, Stages
  <2>4. work' \in [Worker -> Works]
    BY <1>1, <2>1, <2>3
  <2>5. SubscriptionsTypeOK'
    BY <1>1, <2>4 DEF SubscriptionsTypeOK, Works
  <2>6. /\ \A v \in Worker : work'[v].cust = work[v].cust /\ work'[v].sub = work[v].sub
        /\ \A v \in Worker : work'[v].pc \in {"store", "session", "retrieve", "cancel", "write",
                                              "bump"} => work'[v] = work[v]
    BY <2>2, <2>3
  <2>7. NewCustomers'
    BY <1>1, <2>6 DEF NewCustomers, Stage
  <2>8. Begun'
    <3>1. ASSUME NEW v \in Worker, work'[v].pc \in {"find", "write"}
          PROVE  /\ work'[v].sub \in Sub /\ stripe[work'[v].sub].st \in Acted
                 /\ work'[v].status # "none"
                 /\ work'[v].status = "EXPIRED" => stripe[work'[v].sub].st = "canceled"
      <4>1. CASE v = w
        BY <1>1, <1>2, <1>4, <2>3, <4>1
      <4>2. CASE v # w
        BY <2>2, <3>1, <4>2 DEF Begun
      <4> QED
        BY <4>1, <4>2
    <3> QED
      BY <1>1, <2>6, <3>1 DEF Begun, Stage
  <2>9. OneRuns => OneRuns'
    BY <1>1 DEF OneRuns
  <2>10. OneWriter => OneWriter' /\ \A v \in Worker \ {w} : work'[v].pc \notin {"find", "write"}
    BY <1>1, <2>2, <2>3 DEF OneWriter, Writing
  <2>11. \A t \in Sub : Pending(t) => Pending(t)'
    <3>1. \A v \in Worker : work[v].pc \in {"retrieve", "find", "write"} =>
             work'[v].pc \in {"retrieve", "find", "write"} /\ work'[v].sub = work[v].sub
      BY <2>2, <2>3
    <3> QED
      BY <1>1, <3>1 DEF Pending
  <2>12. ASSUME NEW v \in Worker, WriterSees(v) PROVE WriterSees(v)'
    <3>1. CASE v = w
      BY <1>1, <2>3, <3>1 DEF WriterSees, Stage, status
    <3>2. CASE v # w
      BY <1>1, <2>2, <2>12, <3>2 DEF WriterSees, Stage
    <3> QED
      BY <3>1, <3>2
  <2>13. RowCatchesUp => RowCatchesUp'
    <3>1. \A v \in Worker : Stage(v, "bump") => work'[v] = work[v]
      BY <1>1, <2>2 DEF Stage
    <3> QED
      BY <1>1, <2>11, <3>1, SubsTyped DEF RowCatchesUp, Tracked, Stage
  <2>14. PayerCatchesUp /\ OneRuns /\ OneWriter => PayerCatchesUp'
    <3> SUFFICES ASSUME OneRuns, OneWriter, PayerCatchesUp,
                        NEW t \in Sub, stripe[t].st \in Running, stripe[t].cust = customer
                 PROVE  /\ row.ref = t \/ Pending(t)'
                        /\ \A v \in Worker :
                             work'[v].pc \in {"find", "write"} /\ work'[v].sub # t
                               /\ work'[v].status # "EXPIRED" => events[t] > 0
      BY <1>1 DEF PayerCatchesUp
    <3>1. row.ref = t \/ Pending(t)'
      BY <2>11 DEF PayerCatchesUp
    <3>2. ASSUME status # "EXPIRED" PROVE t = s
      BY <1>1, <1>2, <1>4, <3>2 DEF Statuses, OneRuns
    <3> QED
      BY <2>3, <2>10, <3>1, <3>2
  <2> QED
    BY <1>1, <2>5, <2>7, <2>8, <2>9, <2>10, <2>12, <2>13, <2>14
<1> QED
  BY <1>3, <1>4

LEMMA FindRowKeeps ==
    ASSUME SubscriptionsAssumption, SubsInv, NEW w \in Worker, FindRow(w)
    PROVE  SubsInv'
<1> USE DEF SubsInv
<1>1. /\ work[w].pc = "find" /\ work[w].sub \in Sub /\ "write" \in Stages
      /\ UNCHANGED <<day, stripe, events, created, customer, row, stale, repeats, overlapped,
                     doubled>>
  BY DEF FindRow, Begun, Stage, Stages
<1>2. CASE row.status # "none" /\ row.ref # work[w].sub /\ work[w].status = "EXPIRED"
  <2>1. /\ work' \in [Worker -> Works] /\ work'[w].pc = "idle" /\ work'[w].cust = None
        /\ \A v \in Worker \ {w} : work'[v] = work[v]
    BY <1>2, WorkMoves DEF FindRow
  <2> QED
    BY <1>1, <1>2, <2>1, SubsTyped, GivesUp
<1>3. CASE ~ (row.status # "none" /\ row.ref # work[w].sub /\ work[w].status = "EXPIRED")
  <2>1. To(w, "write")
    BY <1>3 DEF FindRow
  <2>2. /\ work' \in [Worker -> Works] /\ work'[w].pc = "write"
        /\ work'[w].sub = work[w].sub /\ work'[w].cust = work[w].cust
        /\ work'[w].status = work[w].status /\ work'[w].until = work[w].until
        /\ \A v \in Worker \ {w} : work'[v] = work[v]
    BY <1>1, <2>1, WorkMoves
  <2>3. \A v \in Worker : /\ work'[v].sub = work[v].sub /\ work'[v].cust = work[v].cust
                          /\ work'[v].status = work[v].status /\ work'[v].until = work[v].until
                          /\ work'[v].pc \in {"find", "write"} <=> work[v].pc \in {"find", "write"}
                          /\ work'[v].pc \notin {"find", "write"} => work'[v] = work[v]
    BY <1>1, <2>2
  <2>4. SubscriptionsTypeOK'
    BY <1>1, <2>2 DEF SubscriptionsTypeOK, Works
  <2>5. NewCustomers' /\ Begun'
    <3>1. NewCustomers'
      BY <1>1, <2>3 DEF NewCustomers, Stage
    <3>2. Begun'
      BY <1>1, <2>3 DEF Begun, Stage
    <3> QED
      BY <3>1, <3>2
  <2>6. (OneRuns => OneRuns') /\ (OneWriter => OneWriter')
    BY <1>1, <2>3 DEF OneRuns, OneWriter, Writing
  <2>7. \A t \in Sub : Pending(t) => Pending(t)'
    BY <1>1, <2>3 DEF Pending
  <2>8. ASSUME NEW v \in Worker, WriterSees(v) PROVE WriterSees(v)'
    <3>1. CASE v = w
      BY <1>1, <1>3, <2>2, <2>8, <3>1 DEF WriterSees, Stage, Begun
    <3>2. CASE v # w
      BY <1>1, <2>2, <2>8, <3>2 DEF WriterSees, Stage
    <3> QED
      BY <3>1, <3>2
  <2>9. RowCatchesUp => RowCatchesUp'
    BY <1>1, <2>3, <2>7, SubsTyped DEF RowCatchesUp, Tracked, Stage
  <2>10. PayerCatchesUp => PayerCatchesUp'
    BY <1>1, <2>3, <2>7 DEF PayerCatchesUp
  <2> QED
    BY <1>1, <2>4, <2>5, <2>6, <2>8, <2>9, <2>10
<1> QED
  BY <1>2, <1>3

LEMMA WriteRowKeeps ==
    ASSUME SubscriptionsAssumption, SubsInv, NEW w \in Worker, WriteRow(w)
    PROVE  SubsInv'
<1> USE DEF SubsInv
<1>1. /\ work[w].pc = "write" /\ work[w].sub \in Sub /\ work[w].status # "none"
      /\ stripe[work[w].sub].st \in Acted /\ work[w].sub # None
      /\ work[w].status \in Statuses /\ work[w].until \in Nat
      /\ UNCHANGED <<day, stripe, events, created, customer, repeats, overlapped, doubled>>
      /\ stale' = TRUE
      /\ row' = [status |-> work[w].status, ref |-> work[w].sub, until |-> work[w].until]
  BY SubsTyped, SubscriptionsAssumption DEF WriteRow, Begun, Stage
<1>2. /\ row' \in [status : Statuses, ref : Sub \cup {None}, until : Nat]
      /\ row'.status = work[w].status /\ row'.ref = work[w].sub /\ row'.until = work[w].until
  BY <1>1
<1>3. /\ work' \in [Worker -> Works] /\ work'[w].pc = "bump" /\ work'[w].sub = work[w].sub
      /\ work'[w].cust = work[w].cust /\ \A v \in Worker \ {w} : work'[v] = work[v]
  BY WorkMoves DEF WriteRow, Stages
<1>4. \A v \in Worker : work'[v].pc # "bump" => v # w /\ work'[v] = work[v]
  BY <1>3
<1>5. \A v \in Worker : work'[v].cust = work[v].cust
  BY <1>3
<1>6. SubscriptionsTypeOK'
  BY <1>1, <1>2, <1>3 DEF SubscriptionsTypeOK, Works
<1>7. NewCustomers'
  BY <1>1, <1>4, <1>5 DEF NewCustomers, Stage
<1>8. Begun'
  BY <1>1, <1>2, <1>4 DEF Begun, Stage
<1>9. (OneRuns => OneRuns') /\ (OneWriter => OneWriter')
  BY <1>1, <1>4 DEF OneRuns, OneWriter, Writing
<1>10. ASSUME OneWriter, NEW v \in Worker, v # w
       PROVE  work[v].pc \notin {"cancel", "retrieve", "find", "write"}
  BY <1>1, <1>10 DEF OneWriter, Writing
<1>11. ASSUME OneWriter, NEW v \in Worker PROVE WriterSees(v)'
  BY <1>3, <1>4, <1>10, <1>11 DEF WriterSees, Stage
<1>12. ASSUME WriterSees(w) PROVE RowCatchesUp'
  <2>1. \/ events'[row'.ref] > 0
        \/ /\ row'.status = LocalStatus(stripe'[row'.ref].st)
           /\ row'.until = stripe'[row'.ref].until
    BY <1>1, <1>2, <1>12 DEF WriterSees
  <2>2. events'[row'.ref] > 0 => Pending(row.ref)'
    BY DEF Pending
  <2>3. \E v \in Worker : Stage(v, "bump")' /\ work'[v].sub = row'.ref
    BY <1>2, <1>3 DEF Stage
  <2> QED
    BY <2>1, <2>2, <2>3 DEF RowCatchesUp
<1>13. ASSUME OneWriter, WriterSees(w), PayerCatchesUp PROVE PayerCatchesUp'
  <2> SUFFICES ASSUME NEW t \in Sub, stripe[t].st \in Running, stripe[t].cust = customer
               PROVE  /\ row'.ref = t \/ Pending(t)'
                      /\ \A v \in Worker : work'[v].pc \notin {"find", "write"}
    BY <1>1 DEF PayerCatchesUp
  <2>1. \A v \in Worker : work'[v].pc \notin {"find", "write"}
    BY <1>4, <1>10, <1>13
  <2>2. CASE work[w].sub # t /\ work[w].status # "EXPIRED"
    <3>1. events'[t] > 0
      BY <1>1, <1>13, <2>2 DEF PayerCatchesUp
    <3> QED
      BY <2>1, <3>1 DEF Pending
  <2>3. CASE work[w].sub # t /\ work[w].status = "EXPIRED"
    <3>1. row.ref # t
      BY <1>1, <1>13, <2>3, SubscriptionsAssumption DEF WriterSees, Stage
    <3>2. Pending(t)
      BY <1>13, <3>1 DEF PayerCatchesUp
    <3>3. events[t] > 0
      BY <1>10, <1>13, <2>3, <3>2 DEF Pending
    <3> QED
      BY <1>1, <2>1, <3>3 DEF Pending
  <2> QED
    BY <1>2, <2>1, <2>2, <2>3
<1> QED
  BY <1>1, <1>6, <1>7, <1>8, <1>9, <1>11, <1>12, <1>13

LEMMA InvalidateSubscriptionKeeps ==
    ASSUME SubscriptionsAssumption, SubsInv, NEW w \in Worker, InvalidateSubscription(w)
    PROVE  SubsInv'
<1> USE DEF SubsInv
<1>1. /\ work[w].pc = "bump" /\ work' \in [Worker -> Works] /\ work'[w].pc = "idle"
      /\ work'[w].cust = None /\ \A v \in Worker \ {w} : work'[v] = work[v]
      /\ UNCHANGED <<day, stripe, events, created, customer, row, repeats, overlapped, doubled>>
      /\ stale' = FALSE
  BY WorkMoves DEF InvalidateSubscription, Stage
<1>2. SubscriptionsTypeOK'
  BY <1>1 DEF SubscriptionsTypeOK, Works
<1>3. \A v \in Worker : work'[v].pc # "idle" => v # w /\ work'[v] = work[v]
  BY <1>1
<1>4. NewCustomers'
  BY <1>1, <1>3 DEF NewCustomers, Stage
<1>5. Begun'
  BY <1>1, <1>3 DEF Begun, Stage
<1>6. (OneRuns => OneRuns') /\ (OneWriter => OneWriter')
  BY <1>1, <1>3 DEF OneRuns, OneWriter, Writing
<1>7. ASSUME NEW v \in Worker, WriterSees(v) PROVE WriterSees(v)'
  BY <1>1, <1>3, <1>7 DEF WriterSees, Stage
<1>8. \A t \in Sub : Pending(t) => Pending(t)'
  BY <1>1 DEF Pending
<1>9. RowCatchesUp => RowCatchesUp'
  BY <1>1, <1>8, SubsTyped DEF RowCatchesUp, Tracked
<1>10. PayerCatchesUp => PayerCatchesUp'
  BY <1>1, <1>3, <1>8 DEF PayerCatchesUp
<1> QED
  BY <1>1, <1>2, <1>4, <1>5, <1>6, <1>7, <1>9, <1>10

\* A delivery that dies, or is made twice, is announced again.
LEMMA RepeatKeeps ==
    ASSUME SubscriptionsAssumption, SubsInv, NEW w \in Worker, Repeat(w)
    PROVE  SubsInv'
<1> USE DEF SubsInv
<1> PICK s : s = work[w].sub
  OBVIOUS
<1>1. /\ s \in Sub /\ events' = [events EXCEPT ![s] = events[s] + 1]
      /\ repeats' = repeats + 1 /\ repeats < MaxRepeats
      /\ UNCHANGED <<day, stripe, created, customer, row, stale, overlapped, doubled>>
      /\ Rest(w) \/ UNCHANGED work
  BY SubsTyped DEF Repeat
<1>2. /\ events' \in [Sub -> Nat] /\ events'[s] > 0
      /\ \A t \in Sub : events[t] > 0 => events'[t] > 0
      /\ repeats' \in 0 .. MaxRepeats
  BY <1>1, SubsTyped, SubscriptionsAssumption
<1>3. CASE Rest(w)
  <2>1. /\ work' \in [Worker -> Works] /\ work'[w].pc = "idle" /\ work'[w].cust = None
        /\ \A v \in Worker \ {w} : work'[v] = work[v]
    BY <1>3, WorkMoves
  <2> QED
    BY <1>1, <1>2, <2>1, GivesUp
<1>4. CASE UNCHANGED work
  <2>1. SubscriptionsTypeOK'
    BY <1>1, <1>2, <1>4 DEF SubscriptionsTypeOK
  <2>2. NewCustomers' /\ Begun'
    BY <1>1, <1>4 DEF NewCustomers, Begun, Stage
  <2>3. (OneRuns => OneRuns') /\ (OneWriter => OneWriter')
    BY <1>1, <1>4 DEF OneRuns, OneWriter, Writing
  <2>4. ASSUME NEW v \in Worker, WriterSees(v) PROVE WriterSees(v)'
    BY <1>1, <1>2, <1>4, <2>4 DEF WriterSees, Stage, Begun
  <2>5. \A t \in Sub : Pending(t) => Pending(t)'
    BY <1>2, <1>4 DEF Pending
  <2>6. RowCatchesUp => RowCatchesUp'
    BY <1>1, <1>4, <2>5, SubsTyped DEF RowCatchesUp, Tracked, Stage
  <2>7. PayerCatchesUp => PayerCatchesUp'
    BY <1>1, <1>2, <1>4, <2>5 DEF PayerCatchesUp
  <2> QED
    BY <1>1, <2>1, <2>2, <2>3, <2>4, <2>6, <2>7
<1> QED
  BY <1>1, <1>3, <1>4

\* Every step keeps the invariant.
LEMMA SubsStep == SubsInv /\ [SubscriptionsNext]_subscriptionVars => SubsInv'
<1> SUFFICES ASSUME SubsInv, [SubscriptionsNext]_subscriptionVars PROVE SubsInv'
  OBVIOUS
<1>1. CASE UNCHANGED subscriptionVars
  BY <1>1 DEF subscriptionVars, SubsInv, SubscriptionsTypeOK, NewCustomers, Begun, OneRuns,
     OneWriter, Writing, RowCatchesUp, WriterSees, PayerCatchesUp, Pending, Tracked, Stage
<1>2. ASSUME NEW w \in Worker,
             \/ BeginCheckout(w) \/ FindCustomer(w) \/ CreateCustomer(w) \/ StoreCustomer(w)
             \/ \E s \in Sub : OpenSession(w, s) \/ Receive(w, s)
             \/ BeginCancel(w) \/ CancelStub(w) \/ CancelAtStripe(w)
             \/ Retrieve(w) \/ FindRow(w) \/ WriteRow(w) \/ InvalidateSubscription(w)
             \/ Repeat(w)
      PROVE  SubsInv'
  BY <1>2, SubscriptionsAssumption, CheckoutKeeps, OpenSessionKeeps, ReceiveKeeps, BeginCancelKeeps,
     CancelKeeps, RetrieveKeeps, FindRowKeeps, WriteRowKeeps, InvalidateSubscriptionKeeps,
     RepeatKeeps
<1> QED
  BY <1>1, <1>2, SubscriptionsAssumption, PayKeeps, PeriodEndsKeeps DEF SubscriptionsNext

\* What the row, the handlers and Stripe agree on at every moment.
THEOREM SubscriptionInvariant == SubscriptionsSpec => []SubsInv
  BY SubsStart, SubsStep, PTL DEF SubscriptionsSpec

\* Every variable of the subscription keeps its type.
THEOREM SubscriptionTypeCorrect == SubscriptionsSpec => []SubscriptionsTypeOK
<1>1. SubsInv => SubscriptionsTypeOK
  BY DEF SubsInv
<1> QED
  BY <1>1, SubscriptionInvariant, PTL

\* Once every announcement is handled and no two handlers ran together, the row says
\* what Stripe says and who pays is premium, in whatever order the announcements of
\* however many subscriptions came (handleWebhookEvent, isPremium).
THEOREM SubscriptionSettled == SubscriptionsSpec => []SubscriptionSettles
<1>1. Settled => /\ \A s \in Sub : ~ Pending(s)
                 /\ \A w \in Worker : ~ Stage(w, "bump")
  <2>1. ASSUME Settled, NEW s \in Sub PROVE ~ Pending(s)
    <3>1. events[s] = 0 /\ \A w \in Worker : work[w].pc = "idle"
      BY <2>1 DEF Settled, Stage
    <3> QED
      BY <3>1 DEF Pending
  <2>2. ASSUME Settled, NEW w \in Worker PROVE ~ Stage(w, "bump")
    BY <2>2 DEF Settled, Stage
  <2> QED
    BY <2>1, <2>2
<1>2. SubsInv => RowFollowsStripe
  <2> SUFFICES ASSUME SubsInv, Settled, ~ overlapped, Tracked
               PROVE  /\ row.status = LocalStatus(stripe[row.ref].st)
                      /\ row.until = stripe[row.ref].until /\ ~ stale
    BY DEF RowFollowsStripe
  <2>1. row.ref \in Sub /\ RowCatchesUp
    BY SubsTyped DEF SubsInv, Tracked
  <2> QED
    BY <1>1, <2>1 DEF RowCatchesUp
<1>3. SubsInv => PayerIsPremium
  <2> SUFFICES ASSUME SubsInv, Settled, ~ overlapped, ~ doubled,
                      NEW s \in Sub, stripe[s].st \in Running, stripe[s].cust = customer
               PROVE  Premium
    BY DEF PayerIsPremium
  <2>1. row.ref = s /\ s # None
    BY <1>1, SubscriptionsAssumption DEF SubsInv, PayerCatchesUp
  <2>2. RowFollowsStripe
    BY <1>2
  <2>3. row.status = LocalStatus(stripe[s].st) /\ row.until = stripe[s].until
    BY <2>1, <2>2 DEF RowFollowsStripe, Tracked
  <2>4. stripe[s].until > day /\ stripe[s].until \in Nat /\ day \in Nat
    BY SubsTyped DEF SubsInv, Begun
  <2>5. row.status \in {"ACTIVE", "CANCELLED"}
    BY <2>3 DEF LocalStatus, Running
  <2> QED
    BY <2>3, <2>4, <2>5 DEF Premium, Lapsed
<1>4. SubsInv => SubscriptionSettles
  BY <1>2, <1>3 DEF SubscriptionSettles
<1> QED
  BY <1>4, SubscriptionInvariant, PTL

-------------------------------------------------------------------------------
(***************************************************************************)
(* StudyGoals, for any finite set of sessions, any targets and any length  *)
(* of the period.  What was announced had been reached, counting every     *)
(* minute that was credited but the session whose announcement is under    *)
(* way; what was reached before that had been announced.                   *)
(***************************************************************************)

\* Whoever closed is counted from its start to its end, and a session that runs is the
\* last that was started.
Underway(s) == session[s].st = "running"
Closed(s) == Finished(s) \/ s \in pending
TimesAreInOrder ==
    /\ \A s \in Session : session[s].st # "new" => session[s].start <= clock
    /\ \A s \in Session : Closed(s) => session[s].start <= session[s].end
    /\ \A s, r \in Session :
         Underway(s) /\ session[r].st # "new" => session[r].start <= session[s].start

\* The progress without a session.
Others(s) == Earned(SinceStartOf(clock) \ {s})

\* What was announced was reached, before the session to be announced if there is one;
\* what was reached before that was announced.
CountIsFair ==
    /\ announced <= 1
    /\ \A s, r \in pending : s = r
    /\ announced = 1 => /\ target # NoGoal
                        /\ Progress(clock) >= target
                        /\ \A s \in pending : Progress(clock) - Minutes[s] >= target
    /\ announced = 0 /\ target # NoGoal /\ ~ metWhenSet =>
         /\ pending = {} => Progress(clock) < target
         /\ \A s \in pending : Others(s) < target

GoalsInv == GoalsTypeOK /\ TimesAreInOrder /\ (~ overtaken => CountIsFair)

LEMMA PeriodFacts ==
    ASSUME NEW t \in Nat
    PROVE  /\ PeriodStart(t) \in Nat /\ PeriodStart(t) <= t
           /\ PeriodStart(t + 1) # t + 1 => PeriodStart(t + 1) = PeriodStart(t)
<1> DEFINE P == PeriodLength
<1>1. P \in Nat \ {0}
  BY GoalsAssumption
<1> HIDE DEF P
<1>2. /\ t = P * (t \div P) + (t % P) /\ t % P \in 0..(P - 1) /\ t \div P \in Nat
      /\ (t + 1) = P * ((t + 1) \div P) + ((t + 1) % P) /\ (t + 1) % P \in 0..(P - 1)
      /\ (t + 1) \div P \in Nat
  BY <1>1
<1> QED
  BY <1>1, <1>2 DEF PeriodStart, P

LEMMA EarnedFacts ==
    ASSUME NEW A \in SUBSET Session, \A s \in A : Minutes[s] \in Nat
    PROVE  /\ Earned(A) \in Nat
           /\ \A s \in A : Earned(A) = Minutes[s] + Earned(A \ {s})
           /\ \A s : Earned(A \ {s}) \in Nat /\ Earned(A \ {s}) <= Earned(A)
<1>1. \A B \in SUBSET A : IsFiniteSet(B)
  BY GoalsAssumption, FS_Subset
<1>2. \A B \in SUBSET A : SumOf(Minutes, B) \in Nat
  BY <1>1, SumIsNat
<1>3. \A s \in A : SumOf(Minutes, A) = Minutes[s] + SumOf(Minutes, A \ {s})
  <2>1. \A s \in A : Minutes[s] \in Int
    OBVIOUS
  <2> QED
    BY <1>1, <2>1, SumWithout
<1>4. \A B : Earned(B) = SumOf(Minutes, B)
  BY DEF Earned, SumOf
<1>5. ASSUME NEW s PROVE Earned(A \ {s}) \in Nat /\ Earned(A \ {s}) <= Earned(A)
  <2>1. CASE s \in A
    BY <1>2, <1>3, <1>4, <2>1
  <2>2. CASE s \notin A
    <3>1. A \ {s} = A
      BY <2>2
    <3> QED
      BY <1>2, <1>4, <3>1
  <2> QED
    BY <2>1, <2>2
<1> QED
  BY <1>2, <1>3, <1>4, <1>5

Since == SinceStartOf(clock)

\* The progress is a number, with and without a session, and the one with it is more.
ProgressIsKnown ==
    /\ Since \in SUBSET Session /\ Progress(clock) \in Nat
    /\ \A s \in Since : Minutes[s] \in Nat /\ Progress(clock) = Minutes[s] + Others(s)
    /\ \A s \in Session : Others(s) \in Nat /\ Others(s) <= Progress(clock)
    /\ \A s \in pending : Minutes[s] \in Nat

LEMMA ProgressFacts == GoalsTypeOK /\ TimesAreInOrder => ProgressIsKnown
<1> SUFFICES ASSUME GoalsTypeOK, TimesAreInOrder PROVE ProgressIsKnown
  OBVIOUS
<1>1. Since \in SUBSET Session
  BY DEF Since, SinceStartOf
<1>2. \A s \in Session : Closed(s) => Minutes[s] \in Nat
  <2> SUFFICES ASSUME NEW s \in Session, Closed(s) PROVE Minutes[s] \in Nat
    OBVIOUS
  <2>1. session[s].start \in Nat /\ session[s].end \in Nat
    BY GoalsAssumption DEF GoalsTypeOK, Time
  <2> QED
    BY <2>1 DEF TimesAreInOrder, Minutes
<1>3. \A s \in Since : Minutes[s] \in Nat
  BY <1>2 DEF Since, SinceStartOf, Closed
<1>4. \A s \in pending : Minutes[s] \in Nat
  BY <1>2 DEF GoalsTypeOK, Closed
<1>5. Progress(clock) = Earned(Since) /\ \A s : Others(s) = Earned(Since \ {s})
  BY DEF Progress, Others, Since
<1> QED
  BY <1>1, <1>3, <1>4, <1>5, EarnedFacts DEF ProgressIsKnown

LEMMA EarnedIsSum == \A B : Earned(B) = SumOf(Minutes, B)
BY DEF Earned, SumOf

LEMMA ProgressSame ==
    ASSUME GoalsTypeOK, Since' = Since, \A s \in Since : Minutes'[s] = Minutes[s]
    PROVE  /\ Progress(clock)' = Progress(clock)
           /\ \A s : Others(s)' = Others(s)
<1>1. \A A \in SUBSET Since : SumOf(Minutes', A) = SumOf(Minutes, A)
  <2> SUFFICES ASSUME NEW A \in SUBSET Since PROVE SumOf(Minutes', A) = SumOf(Minutes, A)
    OBVIOUS
  <2>1. Since \in SUBSET Session
    BY DEF Since, SinceStartOf
  <2>2. IsFiniteSet(A)
    BY <2>1, GoalsAssumption, FS_Subset
  <2>3. PICK e : e = Minutes'
    OBVIOUS
  <2>4. PICK d : d = Minutes
    OBVIOUS
  <2>5. SumOf(e, A) = SumOf(d, A)
    BY <2>2, <2>3, <2>4, SumOfSame
  <2> QED
    BY <2>3, <2>4, <2>5
<1>2. (\A B : Earned(B) = SumOf(Minutes, B)) /\ (\A B : Earned(B) = SumOf(Minutes, B))'
  BY EarnedIsSum, PTL
<1> HIDE DEF Minutes
<1>3. Progress(clock) = SumOf(Minutes, Since) /\ Progress(clock)' = SumOf(Minutes', Since')
  BY <1>2 DEF Progress, Since
<1>4. ASSUME NEW s
      PROVE  Others(s) = SumOf(Minutes, Since \ {s}) /\ Others(s)' = SumOf(Minutes', Since' \ {s})
  BY <1>2 DEF Others, Since
<1> QED
  BY <1>1, <1>3, <1>4

-----------------------------------------------------------------------------
LEMMA ProgressStays ==
    ASSUME GoalsTypeOK, UNCHANGED session, PeriodStart(clock') = PeriodStart(clock)
    PROVE  /\ Progress(clock)' = Progress(clock) /\ UNCHANGED Minutes
           /\ \A s : Others(s)' = Others(s)
<1>1. Since' = Since
  BY DEF Since, SinceStartOf, Finished
<1>2. UNCHANGED Minutes
  BY DEF Minutes
<1> QED
  BY <1>1, <1>2, ProgressSame

LEMMA NothingEarned == Since = {} => Progress(clock) = 0
BY EarnedIsSum, SumOfNone DEF Progress, Since

LEMMA SumOfOthers ==
    ASSUME GoalsTypeOK, NEW s, Since' \ {s} = Since, \A r \in Since : Minutes'[r] = Minutes[r]
    PROVE  Others(s)' = Progress(clock)
<1>1. SumOf(Minutes', Since) = SumOf(Minutes, Since)
  <2>1. IsFiniteSet(Since)
    BY GoalsAssumption, FS_Subset DEF Since, SinceStartOf
  <2>2. PICK e : e = Minutes'
    OBVIOUS
  <2>3. PICK d : d = Minutes
    OBVIOUS
  <2>4. PICK A : A = Since
    OBVIOUS
  <2>5. SumOf(e, A) = SumOf(d, A)
    BY <2>1, <2>2, <2>3, <2>4, SumOfSame
  <2> QED
    BY <2>2, <2>3, <2>4, <2>5
<1>2. (\A B : Earned(B) = SumOf(Minutes, B)) /\ (\A B : Earned(B) = SumOf(Minutes, B))'
  BY EarnedIsSum, PTL
<1> HIDE DEF Minutes
<1>3. Progress(clock) = SumOf(Minutes, Since) /\ Others(s)' = SumOf(Minutes', Since' \ {s})
  BY <1>2 DEF Progress, Others, Since
<1> QED
  BY <1>1, <1>3

LEMMA GoalsTypeStep == GoalsTypeOK /\ GoalsNext => GoalsTypeOK'
<1> SUFFICES ASSUME GoalsTypeOK, GoalsNext PROVE GoalsTypeOK'
  OBVIOUS
<1> DEFINE Row == [st : GoalSessionStates, start : Time, end : Time]
<1>0. /\ session \in [Session -> Row] /\ clock \in Time /\ pending \subseteq Session
      /\ Time \subseteq Nat
  BY GoalsAssumption DEF GoalsTypeOK, Time
<1>1. ASSUME NEW s \in Session, Start(s) PROVE GoalsTypeOK'
  BY <1>0, <1>1 DEF GoalsTypeOK, Start, GoalSessionStates
<1>2. ASSUME NEW s \in Session, NEW st \in {"ended", "abandoned"}, NEW end \in Time, Close(s, st, end)
      PROVE  GoalsTypeOK'
  BY <1>0, <1>2 DEF GoalsTypeOK, Close, GoalSessionStates
<1>3. ASSUME NEW s \in Session, NotifyGoalsReached(s) PROVE GoalsTypeOK'
  BY <1>0, <1>3 DEF GoalsTypeOK, NotifyGoalsReached
<1>4. ASSUME NEW s \in Session, DeleteSession(s) PROVE GoalsTypeOK'
  <2>1. metWhenSet' \in BOOLEAN /\ overtaken' \in BOOLEAN
    BY <1>4 DEF GoalsTypeOK, DeleteSession
  <2>2. announced' \in Nat /\ UNCHANGED <<clock, target, pending>>
    BY <1>4 DEF GoalsTypeOK, DeleteSession
  <2>3. session' \in [Session -> Row] /\ \A r \in pending : session'[r].st \notin {"new", "running"}
    BY <1>0, <1>4 DEF GoalsTypeOK, DeleteSession, GoalSessionStates
  <2> QED
    BY <2>1, <2>2, <2>3 DEF GoalsTypeOK
<1>5. ASSUME NEW t \in Targets \cup {NoGoal}, SetGoal(t) PROVE GoalsTypeOK'
  BY <1>0, <1>5 DEF GoalsTypeOK, SetGoal
<1>6. CASE ClockTick
  <2>1. metWhenSet' \in BOOLEAN /\ overtaken' \in BOOLEAN
    <3>1. metWhenSet \in BOOLEAN /\ overtaken \in BOOLEAN
      BY DEF GoalsTypeOK
    <3>2. CASE PeriodStart(clock + 1) = clock + 1
      <4>1. metWhenSet' = FALSE /\ overtaken' = (Cardinality(pending) > 1)
        BY <1>6, <3>2 DEF ClockTick
      <4>2. (Cardinality(pending) > 1) \in BOOLEAN
        OBVIOUS
      <4> QED
        BY <4>1, <4>2, Zenon
    <3>3. CASE PeriodStart(clock + 1) # clock + 1
      BY <1>6, <3>1, <3>3 DEF ClockTick
    <3> QED
      BY <3>2, <3>3
  <2>2. announced' \in Nat /\ UNCHANGED <<target, session, pending>>
    BY <1>6 DEF GoalsTypeOK, ClockTick
  <2>3. clock' \in Time
    BY <1>6, GoalsAssumption DEF GoalsTypeOK, ClockTick, Time
  <2> QED
    BY <2>1, <2>2, <2>3 DEF GoalsTypeOK
<1> QED
  BY <1>0, <1>1, <1>2, <1>3, <1>4, <1>5, <1>6 DEF GoalsNext, End, Abandon

LEMMA TimesStep == GoalsTypeOK /\ TimesAreInOrder /\ GoalsNext => TimesAreInOrder'
<1> SUFFICES ASSUME GoalsTypeOK, TimesAreInOrder, GoalsNext PROVE TimesAreInOrder'
  OBVIOUS
<1>0. /\ clock \in Nat /\ \A s \in Session : session[s].start \in Nat /\ session[s].end \in Nat
      /\ session \in [Session -> [st : GoalSessionStates, start : Time, end : Time]]
      /\ Time \subseteq Nat
  BY GoalsAssumption DEF GoalsTypeOK, Time
<1>1. ASSUME NEW s \in Session, Start(s) PROVE TimesAreInOrder'
  BY <1>0, <1>1 DEF GoalsTypeOK, TimesAreInOrder, Start, Underway, Closed, Finished
<1>2. ASSUME NEW s \in Session, NEW st \in {"ended", "abandoned"}, NEW end \in Time, Close(s, st, end)
      PROVE  TimesAreInOrder'
  BY <1>0, <1>2 DEF GoalsTypeOK, TimesAreInOrder, Close, Underway, Closed, Finished
<1>3. ASSUME NEW s \in Session, NotifyGoalsReached(s) PROVE TimesAreInOrder'
  BY <1>0, <1>3 DEF GoalsTypeOK, TimesAreInOrder, NotifyGoalsReached, Underway, Closed, Finished
<1>4. ASSUME NEW s \in Session, DeleteSession(s) PROVE TimesAreInOrder'
  BY <1>0, <1>4 DEF GoalsTypeOK, TimesAreInOrder, DeleteSession, Underway, Closed, Finished
<1>5. ASSUME NEW t \in Targets \cup {NoGoal}, SetGoal(t) PROVE TimesAreInOrder'
  BY <1>0, <1>5 DEF GoalsTypeOK, TimesAreInOrder, SetGoal, Underway, Closed, Finished
<1>6. CASE ClockTick
  BY <1>0, <1>6 DEF GoalsTypeOK, TimesAreInOrder, ClockTick, Underway, Closed, Finished
<1> QED
  BY <1>0, <1>1, <1>2, <1>3, <1>4, <1>5, <1>6 DEF GoalsNext, End, Abandon, GoalsTypeOK

-----------------------------------------------------------------------------
\* What each action does to the count, while nothing is overtaken.

LEMMA StartIsFair ==
    ASSUME GoalsInv, ~ overtaken', NEW s \in Session, Start(s)
    PROVE  CountIsFair'
<1>1. GoalsTypeOK /\ CountIsFair /\ session \in [Session -> [st : GoalSessionStates, start : Time, end : Time]]
  BY DEF GoalsInv, GoalsTypeOK, Start
<1>2. /\ clock' = clock /\ UNCHANGED <<target, pending, announced, metWhenSet>>
      /\ \A r \in Session \ {s} : session'[r] = session[r]
      /\ session[s].st = "new" /\ session'[s].st = "running"
  BY <1>1 DEF Start
<1>3. Since' = Since
  BY <1>2 DEF Since, SinceStartOf, Finished
<1>4. \A r \in Since : Minutes'[r] = Minutes[r]
  BY <1>2 DEF Since, SinceStartOf, Finished, Minutes
<1>5. \A r \in pending : Minutes'[r] = Minutes[r]
  BY <1>1, <1>2 DEF GoalsTypeOK, Minutes
<1>6. Progress(clock)' = Progress(clock) /\ \A r : Others(r)' = Others(r)
  BY <1>1, <1>3, <1>4, ProgressSame
<1> QED
  BY <1>1, <1>2, <1>5, <1>6 DEF CountIsFair

LEMMA CloseIsFair ==
    ASSUME GoalsInv, GoalsTypeOK', TimesAreInOrder', ~ overtaken', NEW s \in Session,
           NEW st \in {"ended", "abandoned"}, NEW end \in Time, Close(s, st, end)
    PROVE  CountIsFair'
<1>0. ~ overtaken /\ pending = {}
  BY DEF Close
<1>1. /\ GoalsTypeOK /\ CountIsFair /\ TimesAreInOrder
      /\ session \in [Session -> [st : GoalSessionStates, start : Time, end : Time]]
      /\ announced \in Nat /\ target \in Nat /\ (target # NoGoal => target > 0)
      /\ \A r \in Session : session[r].start \in Nat
  BY <1>0, GoalsAssumption DEF GoalsInv, GoalsTypeOK, NoGoal, Time
<1>2. /\ clock' = clock /\ UNCHANGED <<target, announced, metWhenSet>> /\ pending' = {s}
      /\ \A r \in Session \ {s} : session'[r] = session[r]
      /\ session[s].st = "running" /\ session'[s].st = st /\ session'[s].start = session[s].start
  BY <1>0, <1>1 DEF Close
<1>3. ProgressIsKnown /\ ProgressIsKnown'
  BY <1>1, ProgressFacts, PTL
<1>4. s \notin Since /\ Since' \subseteq Since \cup {s} /\ Since \subseteq Since'
  BY <1>2 DEF Since, SinceStartOf, Finished
<1>5. Others(s)' = Progress(clock)
  <2>1. Since' \ {s} = Since /\ Since \in SUBSET Session
    BY <1>3, <1>4 DEF ProgressIsKnown
  <2>2. \A r \in Since : Minutes'[r] = Minutes[r]
    BY <1>2, <1>4, <2>1 DEF Minutes
  <2> QED
    BY <1>1, <2>1, <2>2, SumOfOthers
<1>6. announced = 1 => s \in Since'
  <2> SUFFICES ASSUME announced = 1, s \notin Since' PROVE FALSE
    OBVIOUS
  <2>1. Progress(clock) > 0
    BY <1>1, <1>3 DEF CountIsFair, ProgressIsKnown
  <2>2. Since # {}
    BY <2>1, NothingEarned
  <2>3. PICK r \in Since : TRUE
    BY <2>2
  <2>4. r \in Session /\ session[r].st # "new" /\ session[r].start >= PeriodStart(clock)
    BY <2>3 DEF Since, SinceStartOf, Finished
  <2>5. session[s].start < PeriodStart(clock)
    BY <1>1, <1>2, PeriodFacts DEF Since, SinceStartOf, Finished, GoalsTypeOK, Time
  <2>6. PeriodStart(clock) \in Nat
    BY <1>1, GoalsAssumption, PeriodFacts DEF GoalsTypeOK, Time
  <2>7. session[r].start <= session[s].start
    BY <1>1, <1>2, <2>4 DEF TimesAreInOrder, Underway
  <2> QED
    BY <1>1, <2>4, <2>5, <2>6, <2>7
<1>7. announced = 1 => /\ target # NoGoal /\ Progress(clock)' >= target
                       /\ Progress(clock)' - Minutes'[s] >= target
  <2> SUFFICES ASSUME announced = 1
               PROVE  /\ target # NoGoal /\ Progress(clock)' >= target
                      /\ Progress(clock)' - Minutes'[s] >= target
    OBVIOUS
  <2>1. Progress(clock)' = Minutes'[s] + Others(s)' /\ Minutes'[s] \in Nat
    BY <1>3, <1>6 DEF ProgressIsKnown
  <2> QED
    BY <1>1, <1>3, <1>5, <2>1 DEF CountIsFair, ProgressIsKnown
<1>8. announced = 0 /\ target # NoGoal /\ ~ metWhenSet => Others(s)' < target
  BY <1>0, <1>1, <1>5 DEF CountIsFair
<1> QED
  BY <1>1, <1>2, <1>7, <1>8 DEF CountIsFair

LEMMA NotifyIsFair ==
    ASSUME GoalsInv, ~ overtaken', NEW s \in Session, NotifyGoalsReached(s)
    PROVE  CountIsFair'
<1> DEFINE tells == /\ target # NoGoal
                    /\ session[s].st = "abandoned" => session[s].start >= PeriodStart(clock)
                    /\ Crosses(Progress(clock), Minutes[s])
<1>0. ~ overtaken /\ s \in pending /\ pending' = pending \ {s}
      /\ UNCHANGED <<clock, target, session, metWhenSet>>
  BY DEF NotifyGoalsReached
<1>1. /\ GoalsTypeOK /\ CountIsFair /\ TimesAreInOrder /\ pending = {s}
      /\ announced \in Nat /\ target \in Nat
  BY <1>0, GoalsAssumption DEF GoalsInv, GoalsTypeOK, CountIsFair, NoGoal
<1>2. announced' = announced + (IF tells THEN 1 ELSE 0)
  BY DEF NotifyGoalsReached
<1>3. ProgressIsKnown
  BY <1>1, ProgressFacts
<1>4. Progress(clock)' = Progress(clock)
  BY <1>0, <1>1, ProgressStays
<1>5. CASE announced = 1
  <2>1. Progress(clock) - Minutes[s] >= target /\ target # NoGoal /\ Progress(clock) >= target
    BY <1>1, <1>5 DEF CountIsFair
  <2>2. ~ tells
    BY <1>0, <1>1, <1>3, <2>1 DEF Crosses, ProgressIsKnown
  <2> HIDE DEF tells
  <2> QED
    BY <1>0, <1>1, <1>2, <1>4, <1>5, <2>1, <2>2 DEF CountIsFair
<1>6. CASE announced = 0 /\ tells
  <2>1. target # NoGoal /\ Progress(clock) >= target
    BY <1>6 DEF Crosses
  <2> HIDE DEF tells
  <2> QED
    BY <1>0, <1>1, <1>2, <1>4, <1>6, <2>1 DEF CountIsFair
<1>7. CASE announced = 0 /\ ~ tells
  <2>1. ASSUME target # NoGoal, ~ metWhenSet, Progress(clock) >= target PROVE FALSE
    <3>1. Others(s) < target
      BY <1>1, <1>7, <2>1 DEF CountIsFair
    <3>2. s \in Since
      <4> SUFFICES ASSUME s \notin Since PROVE FALSE
        OBVIOUS
      <4>1. Since \ {s} = Since
        OBVIOUS
      <4>2. Others(s) = Progress(clock)
        BY <4>1 DEF Others, Progress, Since
      <4> QED
        BY <1>1, <1>3, <2>1, <3>1, <4>2 DEF ProgressIsKnown
    <3>3. Progress(clock) - Minutes[s] < target
      BY <1>1, <1>3, <3>1, <3>2 DEF ProgressIsKnown
    <3>4. session[s].start >= PeriodStart(clock)
      BY <3>2 DEF Since, SinceStartOf
    <3> QED
      BY <1>7, <2>1, <3>3, <3>4 DEF Crosses
  <2>2. target # NoGoal /\ ~ metWhenSet => Progress(clock) < target
    BY <1>1, <1>3, <2>1 DEF ProgressIsKnown
  <2> HIDE DEF tells
  <2> QED
    BY <1>0, <1>1, <1>2, <1>4, <1>7, <2>2 DEF CountIsFair
<1> QED
  BY <1>1, <1>5, <1>6, <1>7 DEF CountIsFair

LEMMA OneIsPending ==
    ASSUME GoalsTypeOK, ~ (Cardinality(pending) > 1)
    PROVE  \A r, q \in pending : r = q
<1> SUFFICES ASSUME NEW r \in pending, NEW q \in pending, r # q PROVE FALSE
  OBVIOUS
<1>1. IsFiniteSet(pending)
  BY GoalsAssumption, FS_Subset DEF GoalsTypeOK
<1>2. {r, q} \in SUBSET pending /\ Cardinality({r, q}) = 2
  <2>1. IsFiniteSet({r}) /\ Cardinality({r}) = 1
    BY FS_Singleton
  <2>2. Cardinality({r} \cup {q}) = 2
    BY <2>1, FS_AddElement
  <2>3. {r} \cup {q} = {r, q}
    OBVIOUS
  <2> QED
    BY <2>2, <2>3
<1>3. 2 <= Cardinality(pending) /\ Cardinality(pending) \in Nat
  BY <1>1, <1>2, FS_Subset, FS_CardinalityType
<1> QED
  BY <1>3

LEMMA SetIsFair ==
    ASSUME GoalsInv, ~ overtaken', NEW t \in Targets \cup {NoGoal}, SetGoal(t)
    PROVE  CountIsFair'
<1>1. /\ GoalsTypeOK /\ TimesAreInOrder /\ target' = t /\ announced' = 0
      /\ metWhenSet' = (t # NoGoal /\ Progress(clock) >= t)
      /\ UNCHANGED <<clock, session, pending>> /\ ~ (Cardinality(pending) > 1)
      /\ t \in Nat
  <2>1. overtaken' = (Cardinality(pending) > 1)
    BY DEF SetGoal
  <2>2. ~ (Cardinality(pending) > 1)
    BY <2>1, Zenon
  <2>3. t \in Nat
    BY GoalsAssumption DEF NoGoal
  <2> QED
    BY <2>2, <2>3, Zenon DEF GoalsInv, SetGoal
<1>2. \A r, q \in pending : r = q
  BY <1>1, OneIsPending
<1>3. ProgressIsKnown
  BY <1>1, ProgressFacts
<1>4. Progress(clock)' = Progress(clock) /\ \A r : Others(r)' = Others(r)
  BY <1>1, ProgressStays
<1>5. t # NoGoal /\ ~ metWhenSet' => Progress(clock) < t
  <2>1. t # NoGoal /\ ~ metWhenSet' => ~ (Progress(clock) >= t)
    BY <1>1, Zenon
  <2> QED
    BY <1>1, <1>3, <2>1 DEF ProgressIsKnown
<1>6. pending \subseteq Session
  BY <1>1 DEF GoalsTypeOK
<1>7. t # NoGoal /\ ~ metWhenSet' => \A r \in pending : Others(r) < t
  BY <1>1, <1>3, <1>5, <1>6 DEF ProgressIsKnown
<1> QED
  BY <1>1, <1>2, <1>4, <1>5, <1>7 DEF CountIsFair

LEMMA DeleteIsFair ==
    ASSUME GoalsInv, GoalsTypeOK', TimesAreInOrder', ~ overtaken', NEW s \in Session, DeleteSession(s)
    PROVE  CountIsFair'
<1>0. ~ overtaken /\ pending = {}
  BY DEF DeleteSession
<1>1. /\ GoalsTypeOK /\ CountIsFair /\ TimesAreInOrder
      /\ session \in [Session -> [st : GoalSessionStates, start : Time, end : Time]]
      /\ announced \in Nat /\ target \in Nat
  BY <1>0, GoalsAssumption DEF GoalsInv, GoalsTypeOK, NoGoal
<1>2. /\ UNCHANGED <<clock, target, pending>>
      /\ \A r \in Session \ {s} : session'[r] = session[r]
      /\ session'[s].st = "deleted"
  BY <1>1 DEF DeleteSession
<1>3. ProgressIsKnown
  BY <1>1, ProgressFacts
<1>4. Progress(clock)' = Others(s)
  <2>1. Since' = Since \ {s} /\ \A r \in Since \ {s} : Minutes'[r] = Minutes[r]
    BY <1>2 DEF Since, SinceStartOf, Finished, Minutes
  <2>2. SumOf(Minutes', Since \ {s}) = SumOf(Minutes, Since \ {s})
    <3>1. IsFiniteSet(Since \ {s})
      BY GoalsAssumption, FS_Subset DEF Since, SinceStartOf
    <3>2. PICK e : e = Minutes'
      OBVIOUS
    <3>3. PICK d : d = Minutes
      OBVIOUS
    <3>4. PICK A : A = Since \ {s}
      OBVIOUS
    <3>5. SumOf(e, A) = SumOf(d, A)
      BY <2>1, <3>1, <3>2, <3>3, <3>4, SumOfSame
    <3> QED
      BY <3>2, <3>3, <3>4, <3>5
  <2>3. (\A B : Earned(B) = SumOf(Minutes, B)) /\ (\A B : Earned(B) = SumOf(Minutes, B))'
    BY EarnedIsSum, PTL
  <2> HIDE DEF Minutes
  <2>4. Progress(clock)' = SumOf(Minutes', Since') /\ Others(s) = SumOf(Minutes, Since \ {s})
    BY <2>3 DEF Progress, Others, Since
  <2> QED
    BY <2>1, <2>2, <2>4
<1>5. IF Others(s) < target THEN announced' = 0 /\ metWhenSet' = FALSE
                            ELSE UNCHANGED <<announced, metWhenSet>>
  BY DEF DeleteSession, Others
<1>6. Others(s) \in Nat /\ Others(s) <= Progress(clock) /\ Progress(clock) \in Nat
  BY <1>3 DEF ProgressIsKnown
<1>7. CASE Others(s) < target
  BY <1>0, <1>1, <1>2, <1>4, <1>5, <1>6, <1>7 DEF CountIsFair
<1>8. CASE ~ (Others(s) < target)
  <2>1. UNCHANGED <<announced, metWhenSet>>
    BY <1>5, <1>8
  <2>2. announced = 0 /\ target # NoGoal => metWhenSet
    BY <1>0, <1>1, <1>6, <1>8 DEF CountIsFair
  <2> QED
    BY <1>0, <1>1, <1>2, <1>4, <1>6, <1>8, <2>1, <2>2 DEF CountIsFair
<1> QED
  BY <1>7, <1>8

LEMMA TickIsFair ==
    ASSUME GoalsInv, ~ overtaken', ClockTick
    PROVE  CountIsFair'
<1>1. /\ GoalsTypeOK /\ TimesAreInOrder /\ clock \in Nat /\ clock' = clock + 1
      /\ UNCHANGED <<target, session, pending>> /\ target \in Nat /\ (target # NoGoal => target > 0)
  BY GoalsAssumption DEF GoalsInv, GoalsTypeOK, ClockTick, NoGoal, Time
<1>2. CASE PeriodStart(clock + 1) # clock + 1
  <2>1. UNCHANGED <<announced, metWhenSet, overtaken>>
    BY <1>2 DEF ClockTick
  <2>2. PeriodStart(clock') = PeriodStart(clock)
    BY <1>1, <1>2, PeriodFacts
  <2>3. Progress(clock)' = Progress(clock) /\ \A r : Others(r)' = Others(r)
    BY <1>1, <2>2, ProgressStays
  <2>4. UNCHANGED Minutes
    BY <1>1 DEF Minutes
  <2>5. CountIsFair
    BY <2>1 DEF GoalsInv
  <2> QED
    BY <1>1, <2>1, <2>3, <2>4, <2>5 DEF CountIsFair
<1>3. CASE PeriodStart(clock + 1) = clock + 1
  <2>1. announced' = 0 /\ metWhenSet' = FALSE /\ ~ (Cardinality(pending) > 1)
    BY <1>3 DEF ClockTick
  <2>2. \A r, q \in pending : r = q
    BY <1>1, <2>1, OneIsPending
  <2>3. Since' = {}
    <3> SUFFICES ASSUME NEW r \in Since' PROVE FALSE
      OBVIOUS
    <3>1. r \in Session /\ session[r].st # "new" /\ session[r].start >= clock + 1
      BY <1>1, <1>3 DEF Since, SinceStartOf, Finished
    <3>2. session[r].start <= clock /\ session[r].start \in Nat
      BY <1>1, <3>1, GoalsAssumption DEF TimesAreInOrder, GoalsTypeOK, Time
    <3> QED
      BY <1>1, <3>1, <3>2
  <2>4. \A r : (Since \ {r})' = {}
    BY <2>3
  <2>5. (\A B : Earned(B) = SumOf(Minutes, B))'
    BY EarnedIsSum, PTL
  <2>6. Progress(clock)' = 0 /\ \A r : Others(r)' = 0
    <3> HIDE DEF Minutes
    <3>1. Progress(clock)' = SumOf(Minutes', Since')
      BY <2>5 DEF Progress, Since
    <3>2. ASSUME NEW r PROVE Others(r)' = SumOf(Minutes', Since' \ {r})
      BY <2>5 DEF Others, Since
    <3>3. PICK e : e = Minutes'
      OBVIOUS
    <3> QED
      BY <2>3, <3>1, <3>2, <3>3, SumOfNone
  <2> QED
    BY <1>1, <2>1, <2>2, <2>6 DEF CountIsFair
<1> QED
  BY <1>2, <1>3

-----------------------------------------------------------------------------
LEMMA GoalsStart == GoalsInit => GoalsInv
<1> SUFFICES ASSUME GoalsInit PROVE GoalsInv
  OBVIOUS
<1>1. GoalsTypeOK
  <2>1. {metWhenSet, overtaken} \subseteq BOOLEAN
    BY Zenon DEF GoalsInit
  <2>2. 0 \in Time
    BY GoalsAssumption DEF Time
  <2> QED
    BY <2>1, <2>2 DEF GoalsInit, GoalsTypeOK, GoalSessionStates
<1>2. TimesAreInOrder
  BY DEF GoalsInit, TimesAreInOrder, Underway, Closed, Finished
<1>3. CountIsFair
  BY DEF GoalsInit, CountIsFair
<1> QED
  BY <1>1, <1>2, <1>3 DEF GoalsInv

LEMMA GoalsStep == GoalsInv /\ [GoalsNext]_goalVars => GoalsInv'
<1> SUFFICES ASSUME GoalsInv, [GoalsNext]_goalVars PROVE GoalsInv'
  OBVIOUS
<1>1. CASE GoalsNext
  <2>1. GoalsTypeOK' /\ TimesAreInOrder'
    BY <1>1, GoalsTypeStep, TimesStep DEF GoalsInv
  <2>2. ASSUME ~ overtaken' PROVE CountIsFair'
    <3>1. ASSUME NEW s \in Session, Start(s) PROVE CountIsFair'
      BY <2>2, <3>1, StartIsFair
    <3>2. ASSUME NEW s \in Session, NotifyGoalsReached(s) PROVE CountIsFair'
      BY <2>2, <3>2, NotifyIsFair
    <3>3. ASSUME NEW s \in Session, DeleteSession(s) PROVE CountIsFair'
      BY <2>1, <2>2, <3>3, DeleteIsFair
    <3>4. ASSUME NEW s \in Session, End(s) PROVE CountIsFair'
      <4>1. Close(s, "ended", clock) /\ clock \in Time
        BY <3>4 DEF End, GoalsInv, GoalsTypeOK
      <4> QED
        BY <2>1, <2>2, <4>1, CloseIsFair
    <3>5. ASSUME NEW s \in Session, NEW last \in Time, Abandon(s, last) PROVE CountIsFair'
      <4>1. Close(s, "abandoned", last)
        BY <3>5 DEF Abandon
      <4> QED
        BY <2>1, <2>2, <4>1, CloseIsFair
    <3>6. ASSUME NEW t \in Targets \cup {NoGoal}, SetGoal(t) PROVE CountIsFair'
      BY <2>2, <3>6, SetIsFair
    <3>7. CASE ClockTick
      BY <2>2, <3>7, TickIsFair
    <3> QED
      BY <1>1, <3>1, <3>2, <3>3, <3>4, <3>5, <3>6, <3>7 DEF GoalsNext
  <2> QED
    BY <2>1, <2>2 DEF GoalsInv
<1>2. CASE UNCHANGED goalVars
  <2>1. UNCHANGED <<clock, target, session, pending, announced, metWhenSet, overtaken>>
    BY <1>2 DEF goalVars
  <2>2. GoalsTypeOK'
    BY <2>1 DEF GoalsInv, GoalsTypeOK
  <2>3. TimesAreInOrder'
    BY <2>1 DEF GoalsInv, TimesAreInOrder, Underway, Closed, Finished
  <2>4. Progress(clock)' = Progress(clock) /\ UNCHANGED Minutes /\ \A s : Others(s)' = Others(s)
    BY <2>1, ProgressStays DEF GoalsInv
  <2>5. CountIsFair => CountIsFair'
    BY <2>1, <2>4 DEF CountIsFair
  <2> QED
    BY <2>1, <2>2, <2>3, <2>5 DEF GoalsInv
<1> QED
  BY <1>1, <1>2

\* Reaching a goal is told, and told once.
LEMMA FairIsToldOnce == GoalsInv => AnnouncedOnce /\ ReachedIsAnnounced
<1> SUFFICES ASSUME GoalsInv PROVE AnnouncedOnce /\ ReachedIsAnnounced
  OBVIOUS
<1>1. AnnouncedOnce
  BY DEF GoalsInv, CountIsFair, AnnouncedOnce
<1>2. ReachedIsAnnounced
  <2> SUFFICES ASSUME target # NoGoal, Progress(clock) >= target, ~ metWhenSet, ~ overtaken,
                      announced <= 0, pending = {}
               PROVE  FALSE
    BY DEF GoalsInv, GoalsTypeOK, ReachedIsAnnounced
  <2>1. announced = 0
    BY DEF GoalsInv, GoalsTypeOK
  <2>2. Progress(clock) < target
    BY <2>1 DEF GoalsInv, CountIsFair
  <2>3. Progress(clock) \in Nat /\ target \in Nat
    BY ProgressFacts, GoalsAssumption DEF GoalsInv, ProgressIsKnown, GoalsTypeOK, NoGoal
  <2> QED
    BY <2>2, <2>3
<1> QED
  BY <1>1, <1>2

-------------------------------------------------------------------------------
(***************************************************************************)
(* LiveInbox, for any notifications and any number of loads in flight.     *)
(* While nothing has been overtaken, the phone's list goes to the table    *)
(* when what the socket carries, and what is still to be published, is     *)
(* applied to it, unless the list will be read again; and what is on its   *)
(* way is no news of the table, so a list read meanwhile goes there too.   *)
(***************************************************************************)

NoteList == [Note -> NoteStates]
Frame == Change \cup [type : {"ready"}, unread : Nat]
LoadState == [on : BOOLEAN, list : {NoList} \cup NoteList, count : {NoCount} \cup Nat]
Asked == {op \in Change : op.type \in {"deleted", "cleared", "read-all"}}
AskState == [pc : {"none", "sent", "done"}, op : Asked,
             items : {NoList} \cup NoteList, unread : Nat]

InboxTyped ==
    /\ InboxTypeOK /\ counting \in BOOLEAN
    /\ frames \in Seq(Frame) /\ load \in [Load -> LoadState] /\ ask \in AskState
    /\ ~ connected => frames = <<>>
    /\ ask.pc # "none" => ask.items \in NoteList

\* The lists will be read again.
Refreshing ==
    \/ counting
    \/ \E i \in DOMAIN frames : frames[i].type = "ready"
    \/ \E l \in Load : load[l].on

OneIsUnpublished == \A op, other \in unpublished : op = other

\* What is on its way of a notification is no news of the table.
Out == unpublished \cup {frames[i] : i \in DOMAIN frames}
Removes(op, n) == op.type = "cleared" \/ (op.type = "deleted" /\ op.n = n)
Undone(i, n) ==
    \/ \E j \in DOMAIN frames : j > i /\ Removes(frames[j], n)
    \/ \E op \in unpublished : Removes(op, n)
IsOld(op) ==
    /\ op.type \in {"created", "deleted", "read"} => op.n \in emitted
    /\ op.type = "deleted" => rows[op.n] = "absent"
    /\ op.type = "read" => rows[op.n] # "unread"
NothingIsNews ==
    /\ \A n \in Note : rows[n] # "absent" => n \in emitted
    /\ \A op \in Out : IsOld(op)
    /\ \A n \in Note : rows[n] = "absent" =>
         /\ \A op \in unpublished : ~ (op.type = "created" /\ op.n = n)
         /\ \A i \in DOMAIN frames :
              frames[i].type = "created" /\ frames[i].n = n => Undone(i, n)

\* What a load has read is the table.
LoadsAreFresh ==
    \A l \in Load :
      /\ load[l].list # NoList => load[l].on /\ load[l].list = rows /\ ~ Sweeping
      /\ load[l].count # NoCount => load[l].on /\ load[l].count = CountUnread(rows)

\* Applying the frames fs to a list, one by one, and then what is not published yet, if
\* anything, ends at the table.
Leads(path, list, fs, pub, table) ==
    /\ path[0] = list
    /\ \A i \in 1..Len(fs) : path[i] = Applied(path[i - 1], fs[i])
    /\ pub = {} => path[Len(fs)] = table
    /\ \A op \in pub : Applied(path[Len(fs)], op) = table
LeadsTo(list, fs, pub, table) ==
    \E path \in [0..Len(fs) -> NoteList] : Leads(path, list, fs, pub, table)

AskIsAlone ==
    ask.pc = "sent" => unpublished = {} /\ \A i \in DOMAIN frames : frames[i].type = "ready"

PhoneFollows ==
    connected /\ ~ Refreshing =>
        /\ unread = CountUnread(items)
        /\ IF ask.pc = "sent"
             THEN /\ items = Applied(rows, ask.op)
                  /\ ask.items = rows /\ ask.unread = CountUnread(rows)
             ELSE LeadsTo(items, frames, unpublished, rows)

InboxInv ==
    /\ InboxTyped
    /\ ~ crossed =>
         /\ OneIsUnpublished /\ NothingIsNews /\ LoadsAreFresh /\ AskIsAlone /\ PhoneFollows

-----------------------------------------------------------------------------
\* What a change makes of each notification.
LEMMA AppliedAt ==
    ASSUME NEW list \in NoteList, NEW op \in Change, NEW n \in Note
    PROVE  /\ op.type \in {"created", "deleted", "read", "cleared", "read-all"}
           /\ op.type \in {"created", "deleted", "read"} => op.n \in Note
           /\ op.type = "cleared" => Applied(list, op)[n] = "absent"
           /\ op.type = "read-all" =>
                Applied(list, op)[n] = IF list[n] = "unread" THEN "read" ELSE list[n]
           /\ op.type = "created" =>
                Applied(list, op)[n] = IF op.n = n /\ list[n] = "absent" THEN "unread" ELSE list[n]
           /\ op.type = "deleted" => Applied(list, op)[n] = IF op.n = n THEN "absent" ELSE list[n]
           /\ op.type = "read" =>
                Applied(list, op)[n] = IF op.n = n /\ list[n] = "unread" THEN "read" ELSE list[n]
<1>1. /\ op.type \in {"created", "deleted", "read", "cleared", "read-all"}
      /\ op.type \in {"created", "deleted", "read"} => op.n \in Note
  BY DEF Change
<1>2. Applied(list, op)[n] =
        CASE op.type = "cleared" -> "absent"
          [] op.type = "read-all" -> IF list[n] = "unread" THEN "read" ELSE list[n]
          [] op.type = "created" /\ op.n = n -> IF list[n] = "absent" THEN "unread" ELSE list[n]
          [] op.type = "deleted" /\ op.n = n -> "absent"
          [] op.type = "read" /\ op.n = n -> IF list[n] = "unread" THEN "read" ELSE list[n]
          [] OTHER -> list[n]
  BY DEF Applied
<1> QED
  BY <1>1, <1>2

LEMMA AppliedTyped ==
    ASSUME NEW list \in NoteList, NEW op \in Change
    PROVE  Applied(list, op) \in NoteList
<1>1. \A n \in Note : list[n] \in NoteStates
  BY DEF NoteList
<1>2. \A n \in Note : Applied(list, op)[n] \in NoteStates
  BY <1>1, AppliedAt DEF NoteStates
<1>3. Applied(list, op) = [n \in Note |-> Applied(list, op)[n]]
  BY DEF Applied
<1> HIDE DEF NoteStates
<1> QED
  BY <1>2, <1>3 DEF NoteList

\* Two lists that agree on every notification are the same.
LEMMA SameList ==
    ASSUME NEW a \in NoteList, NEW b \in NoteList, \A n \in Note : a[n] = b[n]
    PROVE  a = b
BY DEF NoteList

LEMMA AppliedTwice ==
    ASSUME NEW list \in NoteList, NEW op \in Change
    PROVE  Applied(Applied(list, op), op) = Applied(list, op)
<1>1. PICK a : a = Applied(list, op)
  OBVIOUS
<1>2. a \in NoteList
  BY <1>1, AppliedTyped
<1>3. PICK b : b = Applied(a, op)
  OBVIOUS
<1>4. b \in NoteList
  BY <1>2, <1>3, AppliedTyped
<1>5. ASSUME NEW n \in Note PROVE b[n] = a[n]
  BY <1>1, <1>2, <1>3, AppliedAt
<1> QED
  BY <1>1, <1>2, <1>3, <1>4, <1>5, SameList

LEMMA CountIsNat == \A list : CountUnread(list) \in Nat
<1> TAKE list
<1>1. IsFiniteSet({n \in Note : list[n] = "unread"})
  BY InboxAssumption, FS_Subset
<1> QED
  BY <1>1, FS_CardinalityType DEF CountUnread

LEMMA SweptIsRead ==
    ASSUME NEW list \in NoteList, NEW op \in Change, op.type \in {"cleared", "read-all"}
    PROVE  CountUnread(Applied(list, op)) = 0
<1>1. {n \in Note : Applied(list, op)[n] = "unread"} = {}
  BY AppliedAt
<1> QED
  BY <1>1, FS_EmptySet DEF CountUnread

\* The store keeps its count beside its list.
LEMMA StoreCounts ==
    ASSUME items \in NoteList, unread \in Nat, NEW op \in Change, StoreApplies(op)
    PROVE  /\ items' = Applied(items, op) /\ items' \in NoteList /\ unread' \in Nat
           /\ unread = CountUnread(items) => unread' = CountUnread(items')
<1>1. items' = Applied(items, op)
  BY DEF StoreApplies
<1>2. items' \in NoteList
  BY <1>1, AppliedTyped
<1>3. CountUnread(items) \in Nat /\ CountUnread(items') \in Nat
  BY CountIsNat
<1>4. unread' = IF op.type \in {"cleared", "read-all"} THEN 0
                ELSE LET d == unread + CountUnread(items') - CountUnread(items)
                     IN IF d < 0 THEN 0 ELSE d
  BY <1>1 DEF StoreApplies
<1>5. unread' \in Nat
  BY <1>3, <1>4
<1>6. op.type \in {"cleared", "read-all"} => CountUnread(items') = 0
  BY <1>1, SweptIsRead
<1>7. unread = CountUnread(items) => unread' = CountUnread(items')
  BY <1>3, <1>4, <1>6
<1> QED
  BY <1>1, <1>2, <1>5, <1>7

-----------------------------------------------------------------------------
LEMMA FrameFacts ==
    ASSUME frames \in Seq(Frame)
    PROVE  /\ \A i \in DOMAIN frames : frames[i] \in Frame
           /\ DOMAIN frames = 1..Len(frames) /\ Len(frames) \in Nat
           /\ frames # <<>> =>
                /\ Head(frames) \in Frame /\ Head(frames) = frames[1] /\ 1 \in DOMAIN frames
                /\ Tail(frames) \in Seq(Frame) /\ DOMAIN Tail(frames) = 1..(Len(frames) - 1)
                /\ Len(Tail(frames)) = Len(frames) - 1 /\ Len(frames) >= 1
                /\ \A i \in DOMAIN Tail(frames) :
                     Tail(frames)[i] = frames[i + 1] /\ i + 1 \in DOMAIN frames
           /\ \A f \in Frame :
                /\ Append(frames, f) \in Seq(Frame)
                /\ Len(Append(frames, f)) = Len(frames) + 1
                /\ DOMAIN Append(frames, f) = 1..(Len(frames) + 1)
                /\ Append(frames, f)[Len(frames) + 1] = f
                /\ \A i \in DOMAIN frames : Append(frames, f)[i] = frames[i]
<1> HIDE DEF Frame
<1>1. DOMAIN frames = 1..Len(frames) /\ Len(frames) \in Nat
  BY LenProperties
<1>2. \A i \in DOMAIN frames : frames[i] \in Frame
  BY <1>1, ElementOfSeq
<1>3. ASSUME frames # <<>>
      PROVE  /\ Head(frames) \in Frame /\ Head(frames) = frames[1] /\ 1 \in DOMAIN frames
             /\ Tail(frames) \in Seq(Frame) /\ DOMAIN Tail(frames) = 1..(Len(frames) - 1)
             /\ Len(Tail(frames)) = Len(frames) - 1 /\ Len(frames) >= 1
             /\ \A i \in DOMAIN Tail(frames) :
                     Tail(frames)[i] = frames[i + 1] /\ i + 1 \in DOMAIN frames
  <2>1. Len(frames) # 0
    BY <1>3, EmptySeq
  <2>2. /\ Head(frames) = frames[1] /\ Tail(frames) \in Seq(Frame)
        /\ Len(Tail(frames)) = Len(frames) - 1
        /\ \A i \in 1..Len(Tail(frames)) : Tail(frames)[i] = frames[i + 1]
    BY <1>3, HeadTailProperties
  <2>3. DOMAIN Tail(frames) = 1..Len(Tail(frames))
    BY <2>2, LenProperties
  <2> QED
    BY <1>1, <1>2, <2>1, <2>2, <2>3
<1>4. ASSUME NEW f \in Frame
      PROVE  /\ Append(frames, f) \in Seq(Frame)
             /\ Len(Append(frames, f)) = Len(frames) + 1
             /\ DOMAIN Append(frames, f) = 1..(Len(frames) + 1)
             /\ Append(frames, f)[Len(frames) + 1] = f
             /\ \A i \in DOMAIN frames : Append(frames, f)[i] = frames[i]
  <2>1. /\ Append(frames, f) \in Seq(Frame) /\ Len(Append(frames, f)) = Len(frames) + 1
        /\ Append(frames, f)[Len(frames) + 1] = f
        /\ \A i \in 1..Len(frames) : Append(frames, f)[i] = frames[i]
    BY AppendProperties
  <2>2. DOMAIN Append(frames, f) = 1..Len(Append(frames, f))
    BY <2>1, LenProperties
  <2> QED
    BY <1>1, <2>1, <2>2
<1> QED
  BY <1>1, <1>2, <1>3, <1>4

\* Setting one field of a load keeps the type.
LEMMA LoadTyped ==
    ASSUME load \in [Load -> LoadState], NEW l \in Load
    PROVE  /\ [load EXCEPT ![l].on = TRUE] \in [Load -> LoadState]
           /\ \A list \in NoteList : [load EXCEPT ![l].list = list] \in [Load -> LoadState]
           /\ \A k \in Nat : [load EXCEPT ![l].count = k] \in [Load -> LoadState]
           /\ [load EXCEPT ![l] = NotLoading] \in [Load -> LoadState]
<1>1. load[l] \in LoadState
  OBVIOUS
<1>2. [load[l] EXCEPT !.on = TRUE] \in LoadState
  BY <1>1 DEF LoadState
<1>3. \A list \in NoteList : [load[l] EXCEPT !.list = list] \in LoadState
  BY <1>1 DEF LoadState
<1>4. \A k \in Nat : [load[l] EXCEPT !.count = k] \in LoadState
  BY <1>1 DEF LoadState
<1>5. NotLoading \in LoadState
  BY DEF NotLoading, LoadState
<1> HIDE DEF LoadState
<1> QED
  BY <1>2, <1>3, <1>4, <1>5

LEMMA InboxTypeStep == InboxTyped /\ InboxNext => InboxTyped'
<1> SUFFICES ASSUME InboxTyped, InboxNext PROVE InboxTyped'
  OBVIOUS
<1> DEFINE Types ==
      /\ rows \in NoteList /\ items \in NoteList /\ emitted \subseteq Note
      /\ unpublished \subseteq Change /\ unread \in Nat
      /\ connected \in BOOLEAN /\ counting \in BOOLEAN
      /\ frames \in Seq(Frame) /\ load \in [Load -> LoadState] /\ ask \in AskState
      /\ (counting => connected) /\ (~ connected => frames = <<>>)
      /\ (ask.pc # "none" => ask.items \in NoteList)
<1>0. Types /\ (crossed \in BOOLEAN)
  BY DEF InboxTyped, InboxTypeOK, NoteList
<1>00. Types' /\ (crossed' \in BOOLEAN) => InboxTyped'
  <2>1. ask' \in AskState => ask'.pc \in {"none", "sent", "done"}
    BY DEF AskState
  <2> QED
    BY <2>1 DEF InboxTyped, InboxTypeOK, NoteList
<1>c. crossed' \in BOOLEAN
  <2>1. ASSUME NEW op, Commit(op) PROVE crossed' \in BOOLEAN
    BY <2>1 DEF Commit
  <2> QED
    BY <1>0, <2>1 DEF InboxNext, EmitNotification, OtherDevice, Publish, AskFor, Connect, SayReady,
       Disconnect, ApplyReady, ApplyEvent, Reload, ServeList, ServeCount, LandLoad, LoseLoad,
       DoAsked, CallAnswered, Refused, AnswerLost
<1>1. Change \subseteq Frame
  BY DEF Frame
<1>2. ASSUME NEW op \in Change, Commit(op), emitted' \subseteq Note,
             UNCHANGED <<storeVars, load, ask>>
      PROVE  Types'
  <2>1. rows' \in NoteList
    BY <1>0, <1>2, AppliedTyped DEF Commit
  <2>2. unpublished' \subseteq Change
    BY <1>0, <1>2 DEF Commit
  <2> QED
    BY <1>0, <1>2, <2>1, <2>2 DEF Commit, storeVars
<1>3. ASSUME NEW n \in Note, EmitNotification(n) PROVE Types'
  <2>1. [type |-> "created", n |-> n] \in Change
    BY DEF Change
  <2> QED
    BY <1>0, <1>2, <1>3, <2>1 DEF EmitNotification
<1>4. ASSUME NEW op \in Change, OtherDevice(op) PROVE Types'
  BY <1>0, <1>2, <1>4 DEF OtherDevice
<1>5. ASSUME NEW op \in Change, Publish(op) PROVE Types'
  <2>1. Append(frames, op) \in Seq(Frame)
    BY <1>0, <1>1, FrameFacts
  <2> QED
    BY <1>0, <1>5, <2>1 DEF Publish, tableVars, storeVars
<1>6. ASSUME NEW op \in Change, AskFor(op) PROVE Types'
  <2>1. op \in Asked
    BY <1>6 DEF AskFor, Asked
  <2>2. ask' \in AskState
    BY <1>0, <1>6, <2>1 DEF AskFor, AskState
  <2> QED
    BY <1>0, <1>6, <2>2, StoreCounts DEF AskFor, tableVars, pipeVars
<1>7. ASSUME Connect PROVE Types'
  BY <1>0, <1>7 DEF Connect, tableVars, storeVars
<1>8. ASSUME SayReady PROVE Types'
  <2>1. [type |-> "ready", unread |-> CountUnread(rows)] \in Frame
    BY CountIsNat DEF Frame
  <2>2. frames' \in Seq(Frame)
    BY <1>0, <1>8, <2>1, FrameFacts DEF SayReady
  <2> QED
    BY <1>0, <1>8, <2>2 DEF SayReady, tableVars, storeVars
<1>9. ASSUME Disconnect PROVE Types'
  BY <1>0, <1>9, EmptySeq DEF Disconnect, tableVars, storeVars
<1>10. ASSUME ApplyReady PROVE Types'
  <2>1. Tail(frames) \in Seq(Frame) /\ Head(frames) \in Frame /\ Head(frames).type = "ready"
    BY <1>0, <1>10, FrameFacts DEF ApplyReady
  <2>2. Head(frames).unread \in Nat
    BY <2>1 DEF Frame, Change
  <2>3. load' \in [Load -> LoadState]
    BY <1>0, <1>10, LoadTyped DEF ApplyReady
  <2> QED
    BY <1>0, <1>10, <2>1, <2>2, <2>3 DEF ApplyReady, tableVars
<1>11. ASSUME ApplyEvent PROVE Types'
  <2>1. Tail(frames) \in Seq(Frame) /\ Head(frames) \in Frame /\ Head(frames).type # "ready"
    BY <1>0, <1>11, FrameFacts DEF ApplyEvent
  <2>2. Head(frames) \in Change
    BY <2>1 DEF Frame
  <2>3. items' \in NoteList /\ unread' \in Nat
    BY <1>0, <1>11, <2>2, StoreCounts DEF ApplyEvent
  <2> QED
    BY <1>0, <1>11, <2>1, <2>3 DEF ApplyEvent, tableVars
<1>12. ASSUME NEW l \in Load, Reload(l) PROVE Types'
  BY <1>0, <1>12, LoadTyped DEF Reload, tableVars, pipeVars, storeVars
<1>13. ASSUME NEW l \in Load, ServeList(l) PROVE Types'
  BY <1>0, <1>13, LoadTyped DEF ServeList, tableVars, pipeVars, storeVars
<1>14. ASSUME NEW l \in Load, ServeCount(l) PROVE Types'
  BY <1>0, <1>14, LoadTyped, CountIsNat DEF ServeCount, tableVars, pipeVars, storeVars
<1>15. ASSUME NEW l \in Load, LandLoad(l) PROVE Types'
  <2>1. items' \in NoteList /\ unread' \in Nat
    BY <1>0, <1>15 DEF LandLoad, LoadState
  <2> QED
    BY <1>0, <1>15, <2>1, LoadTyped DEF LandLoad, tableVars, pipeVars
<1>16. ASSUME NEW l \in Load, LoseLoad(l) PROVE Types'
  BY <1>0, <1>16, LoadTyped DEF LoseLoad, tableVars, pipeVars, storeVars
<1>17. ASSUME DoAsked PROVE Types'
  <2>1. ask' \in AskState /\ ask.op \in Change
    BY <1>0, <1>17 DEF DoAsked, AskState, Asked
  <2>2. rows' \in NoteList
    BY <1>0, <1>17, <2>1, AppliedTyped DEF DoAsked
  <2> QED
    BY <1>0, <1>17, <2>1, <2>2 DEF DoAsked, storeVars
<1>18. NotAsking \in AskState /\ NotAsking.pc = "none"
  BY DEF NotAsking, AskState, Asked, Change
<1>19. ASSUME CallAnswered PROVE Types'
  BY <1>0, <1>18, <1>19 DEF CallAnswered, tableVars, pipeVars, storeVars
<1>20. ASSUME Refused \/ AnswerLost PROVE Types'
  <2>1. ask.unread \in Nat /\ (ask.pc # "none" => ask.items \in NoteList)
    BY <1>0 DEF AskState
  <2>2. items' \in NoteList /\ unread' \in Nat
    BY <1>20, <2>1 DEF Refused, AnswerLost
  <2> QED
    BY <1>0, <1>18, <1>20, <2>2 DEF Refused, AnswerLost, tableVars, pipeVars
<1> HIDE DEF Types
<1> QED
  BY <1>00, <1>c, <1>3, <1>4, <1>5, <1>6, <1>7, <1>8, <1>9, <1>10, <1>11, <1>12, <1>13, <1>14, <1>15,
     <1>16, <1>17, <1>19, <1>20 DEF InboxNext

-----------------------------------------------------------------------------
\* A change of the table that is now unpublished, and the only one, leaves nothing that
\* is on its way news of the table.
LEMMA ChangeKeepsNews ==
    ASSUME InboxTyped, NothingIsNews, NEW op \in Change,
           rows' = Applied(rows, op), rows' # rows, unpublished = {}, unpublished' = {op},
           frames' = frames,
           op.type # "created" => emitted' = emitted,
           op.type = "created" => op.n \notin emitted /\ emitted' = emitted \cup {op.n}
    PROVE  NothingIsNews'
<1>0. /\ rows \in NoteList /\ frames \in Seq(Frame)
      /\ \A i \in DOMAIN frames : frames[i] \in Out
      /\ emitted \subseteq emitted'
  BY AppliedAt DEF InboxTyped, InboxTypeOK, NoteList, Out, Change
<1>a. /\ op.type \in {"created", "deleted", "read", "cleared", "read-all"}
      /\ op.type \in {"created", "deleted", "read"} => op.n \in Note
  BY DEF Change
<1>b. \A n \in Note :
        /\ op.type = "cleared" => rows'[n] = "absent"
        /\ op.type = "read-all" => rows'[n] = IF rows[n] = "unread" THEN "read" ELSE rows[n]
        /\ op.type = "created" =>
             rows'[n] = IF op.n = n /\ rows[n] = "absent" THEN "unread" ELSE rows[n]
        /\ op.type = "deleted" => rows'[n] = IF op.n = n THEN "absent" ELSE rows[n]
        /\ op.type = "read" => rows'[n] = IF op.n = n /\ rows[n] = "unread" THEN "read" ELSE rows[n]
  BY <1>0, AppliedAt
<1>1. op.type = "created" => rows[op.n] = "absent"
  BY <1>a DEF NothingIsNews
<1>2. op.type \in {"deleted", "read"} => rows[op.n] # "absent"
  <2> SUFFICES ASSUME op.type \in {"deleted", "read"}, rows[op.n] = "absent" PROVE FALSE
    OBVIOUS
  <2>1. rows' \in NoteList
    BY <1>0, AppliedTyped
  <2>2. \A n \in Note : rows'[n] = rows[n]
    BY <1>b
  <2> QED
    BY <1>0, <2>1, <2>2, SameList
<1>3. \A n \in Note : rows'[n] # "absent" => n \in emitted'
  BY <1>0, <1>a, <1>b, <1>1 DEF NothingIsNews
<1>4. ASSUME NEW other \in Out PROVE IsOld(other)'
  <2>1. IsOld(other) /\ other \in Frame
    BY FrameFacts DEF NothingIsNews, InboxTyped, InboxTypeOK, Out, Frame
  <2>2. other.type \in {"created", "deleted", "read"} => other.n \in Note /\ other.n \in emitted
    BY <2>1 DEF IsOld, Frame, Change
  <2>3. other.type \in {"deleted", "read"} => ~ (op.type = "created" /\ op.n = other.n)
    BY <2>2
  <2>4. other.type = "deleted" => rows'[other.n] = "absent"
    BY <2>1, <2>2, <2>3, <1>a, <1>b DEF IsOld
  <2>5. other.type = "read" => rows'[other.n] # "unread"
    BY <2>1, <2>2, <2>3, <1>a, <1>b DEF IsOld
  <2> QED
    BY <2>2, <2>4, <2>5, <1>0 DEF IsOld
<1>5. IsOld(op)'
  <2>1. op.type \in {"created", "deleted", "read"} => op.n \in emitted'
    BY <1>a, <1>2 DEF NothingIsNews
  <2>2. op.type = "deleted" => rows'[op.n] = "absent"
    BY <1>a, <1>b
  <2>3. op.type = "read" => rows'[op.n] # "unread"
    BY <1>a, <1>b
  <2> QED
    BY <2>1, <2>2, <2>3 DEF IsOld
<1>6. Out' = Out \cup {op}
  BY DEF Out
<1>7. ASSUME NEW n \in Note, rows'[n] = "absent"
      PROVE  /\ \A other \in unpublished' : ~ (other.type = "created" /\ other.n = n)
             /\ \A i \in DOMAIN frames' :
                  frames'[i].type = "created" /\ frames'[i].n = n => Undone(i, n)'
  <2>1. ~ (op.type = "created" /\ op.n = n)
    BY <1>7, <1>b, <1>1
  <2>2. CASE rows[n] = "absent"
    BY <2>1, <2>2 DEF NothingIsNews, Undone
  <2>3. CASE rows[n] # "absent"
    <3>1. Removes(op, n)
      BY <2>3, <1>7, <1>a, <1>b DEF Removes
    <3> QED
      BY <2>1, <3>1 DEF Undone
  <2> QED
    BY <2>2, <2>3
<1> QED
  BY <1>3, <1>4, <1>5, <1>6, <1>7 DEF NothingIsNews

\* Publishing moves the change behind the frames, or loses it with no socket to carry it.
LEMMA PublishKeepsNews ==
    ASSUME InboxTyped, OneIsUnpublished, NothingIsNews, NEW op \in Change, Publish(op)
    PROVE  NothingIsNews'
<1>0. UNCHANGED <<rows, emitted>> /\ unpublished = {op} /\ unpublished' = {}
  BY DEF Publish, OneIsUnpublished, tableVars
<1>1. frames \in Seq(Frame) /\ op \in Frame
  BY DEF InboxTyped, Frame
<1>2. /\ \A n \in Note : rows[n] # "absent" => n \in emitted
      /\ \A other \in Out : IsOld(other)
      /\ \A n \in Note : rows[n] = "absent" =>
           /\ ~ (op.type = "created" /\ op.n = n)
           /\ \A i \in DOMAIN frames : frames[i].type = "created" /\ frames[i].n = n => Undone(i, n)
  BY <1>0 DEF NothingIsNews
<1>3. \A other : IsOld(other) => IsOld(other)'
  BY <1>0 DEF IsOld
<1>4. CASE ~ connected
  <2>1. frames' = <<>> /\ DOMAIN frames' = {}
    BY <1>4, FrameFacts, <1>1 DEF Publish, InboxTyped
  <2>2. Out' = {}
    BY <1>0, <2>1 DEF Out
  <2> QED
    BY <1>0, <1>2, <2>1, <2>2 DEF NothingIsNews
<1>5. CASE connected
  <2>1. /\ DOMAIN frames = 1..Len(frames) /\ Len(frames) \in Nat
        /\ DOMAIN frames' = 1..(Len(frames) + 1) /\ frames'[Len(frames) + 1] = op
        /\ \A i \in DOMAIN frames : frames'[i] = frames[i]
    BY <1>1, <1>5, FrameFacts DEF Publish
  <2>2. Out' \subseteq Out
    BY <1>0, <2>1 DEF Out
  <2>3. ASSUME NEW n \in Note, rows[n] = "absent", NEW i \in DOMAIN frames',
               frames'[i].type = "created" /\ frames'[i].n = n
        PROVE  Undone(i, n)'
    <3>1. i \in DOMAIN frames /\ frames[i] = frames'[i]
      BY <1>2, <2>1, <2>3
    <3>2. Undone(i, n)
      BY <1>2, <2>3, <3>1
    <3>3. CASE Removes(op, n)
      <4>1. Len(frames) + 1 > i /\ Len(frames) + 1 \in DOMAIN frames'
        BY <2>1, <3>1
      <4> QED
        BY <2>1, <3>3, <4>1 DEF Undone
    <3>4. CASE \E j \in DOMAIN frames : j > i /\ Removes(frames[j], n)
      BY <2>1, <3>4 DEF Undone
    <3> QED
      BY <1>0, <3>2, <3>3, <3>4 DEF Undone
  <2> QED
    BY <1>0, <1>2, <1>3, <2>2, <2>3 DEF NothingIsNews
<1> QED
  BY <1>4, <1>5

\* So does a frame that is taken off, ...
LEMMA TakingKeepsNews ==
    ASSUME InboxTyped, NothingIsNews, frames # <<>>, frames' = Tail(frames),
           UNCHANGED <<rows, emitted, unpublished>>
    PROVE  NothingIsNews' /\ (Sweeping' => Sweeping)
<1>1. /\ DOMAIN frames' = 1..(Len(frames) - 1) /\ Len(frames) \in Nat
      /\ \A i \in DOMAIN frames' : frames'[i] = frames[i + 1] /\ i + 1 \in DOMAIN frames
      /\ DOMAIN frames = 1..Len(frames)
  BY FrameFacts DEF InboxTyped
<1>2. Out' \subseteq Out
  BY <1>1 DEF Out
<1>3. \A op : IsOld(op) => IsOld(op)'
  BY DEF IsOld
<1>4. ASSUME NEW n \in Note, rows[n] = "absent", NEW i \in DOMAIN frames',
             frames'[i].type = "created" /\ frames'[i].n = n
      PROVE  Undone(i, n)'
  <2>1. Undone(i + 1, n)
    BY <1>1, <1>4 DEF NothingIsNews
  <2>2. ASSUME NEW j \in DOMAIN frames, j > i + 1, Removes(frames[j], n) PROVE Undone(i, n)'
    <3>1. j - 1 \in DOMAIN frames' /\ j - 1 > i /\ frames'[j - 1] = frames[j]
      BY <1>1, <2>2
    <3> QED
      BY <2>2, <3>1 DEF Undone
  <2> QED
    BY <2>1, <2>2 DEF Undone
<1> QED
  BY <1>2, <1>3, <1>4 DEF NothingIsNews, Sweeping, Out

\* ... and the "ready" that is put on.
LEMMA ReadyKeepsNews ==
    ASSUME InboxTyped, NothingIsNews, SayReady
    PROVE  NothingIsNews' /\ (Sweeping' => Sweeping)
<1>0. UNCHANGED <<rows, emitted, unpublished>>
  BY DEF SayReady, tableVars
<1>1. PICK f \in Frame : f.type = "ready" /\ frames' = Append(frames, f)
  BY CountIsNat DEF SayReady, Frame
<1>2. /\ DOMAIN frames = 1..Len(frames) /\ Len(frames) \in Nat
      /\ DOMAIN frames' = 1..(Len(frames) + 1) /\ frames'[Len(frames) + 1] = f
      /\ \A i \in DOMAIN frames : frames'[i] = frames[i]
  BY <1>1, FrameFacts DEF InboxTyped
<1>3. Out' \subseteq Out \cup {f}
  BY <1>0, <1>2 DEF Out
<1>4. \A op : (op = f \/ IsOld(op)) => IsOld(op)'
  BY <1>0, <1>1 DEF IsOld
<1>5. ASSUME NEW n \in Note, rows[n] = "absent", NEW i \in DOMAIN frames',
             frames'[i].type = "created" /\ frames'[i].n = n
      PROVE  Undone(i, n)'
  <2>1. i \in DOMAIN frames /\ frames[i] = frames'[i]
    BY <1>1, <1>2, <1>5
  <2>2. Undone(i, n)
    BY <1>5, <2>1 DEF NothingIsNews
  <2> QED
    BY <1>0, <1>2, <2>2 DEF Undone
<1> QED
  BY <1>0, <1>1, <1>3, <1>4, <1>5 DEF NothingIsNews, Sweeping, Out

-----------------------------------------------------------------------------
\* A path with no frame is its one list.
LEMMA LeadsNowhere ==
    ASSUME NEW list \in NoteList, NEW pub, NEW table
    PROVE  LeadsTo(list, <<>>, pub, table) <=>
             (pub = {} => list = table) /\ \A op \in pub : Applied(list, op) = table
<1>1. Len(<<>>) = 0
  BY EmptySeq
<1>2. ASSUME NEW path, Leads(path, list, <<>>, pub, table)
      PROVE  (pub = {} => list = table) /\ \A op \in pub : Applied(list, op) = table
  BY <1>1, <1>2 DEF Leads
<1>3. ASSUME (pub = {} => list = table) /\ \A op \in pub : Applied(list, op) = table
      PROVE  LeadsTo(list, <<>>, pub, table)
  <2> DEFINE path == [i \in 0..0 |-> list]
  <2>1. path \in [0..Len(<<>>) -> NoteList] /\ path[0] = list
    BY <1>1
  <2> HIDE DEF path
  <2>2. Leads(path, list, <<>>, pub, table)
    BY <1>1, <1>3, <2>1 DEF Leads
  <2> QED
    BY <2>1, <2>2 DEF LeadsTo
<1> QED
  BY <1>2, <1>3 DEF LeadsTo

\* A change of the table is the step that is left to make.
LEMMA LeadsOn ==
    ASSUME NEW list, NEW fs, NEW table, NEW op, LeadsTo(list, fs, {}, table)
    PROVE  LeadsTo(list, fs, {op}, Applied(table, op))
<1>1. PICK path \in [0..Len(fs) -> NoteList] : Leads(path, list, fs, {}, table)
  BY DEF LeadsTo
<1>2. Leads(path, list, fs, {op}, Applied(table, op))
  BY <1>1 DEF Leads
<1> QED
  BY <1>2 DEF LeadsTo

\* Publishing makes it the last frame.
LEMMA LeadsPublished ==
    ASSUME NEW list, NEW fs \in Seq(Frame), NEW table \in NoteList, NEW op \in Frame,
           LeadsTo(list, fs, {op}, table)
    PROVE  LeadsTo(list, Append(fs, op), {}, table)
<1> HIDE DEF Frame
<1>1. PICK path \in [0..Len(fs) -> NoteList] : Leads(path, list, fs, {op}, table)
  BY DEF LeadsTo
<1>2. /\ Len(fs) \in Nat /\ Len(Append(fs, op)) = Len(fs) + 1
      /\ Append(fs, op)[Len(fs) + 1] = op
      /\ \A i \in 1..Len(fs) : Append(fs, op)[i] = fs[i]
  BY AppendProperties, LenProperties
<1> DEFINE k == Len(fs)
           longer == [i \in 0..(k + 1) |-> IF i = k + 1 THEN table ELSE path[i]]
<1>3. longer \in [0..Len(Append(fs, op)) -> NoteList]
  <2>1. ASSUME NEW i \in 0..(k + 1)
        PROVE  (IF i = k + 1 THEN table ELSE path[i]) \in NoteList
    <3>1. i # k + 1 => i \in 0..k
      BY <1>2
    <3> QED
      BY <3>1
  <2> QED
    BY <1>2, <2>1
<1>4. \A i \in 0..k : longer[i] = path[i]
  BY <1>2
<1>5. longer[k + 1] = table
  BY <1>2
<1> HIDE DEF longer
<1>6. /\ path[0] = list /\ Applied(path[k], op) = table
      /\ \A i \in 1..k : path[i] = Applied(path[i - 1], fs[i])
  BY <1>1 DEF Leads
<1>7. ASSUME NEW i \in 1..(k + 1) PROVE longer[i] = Applied(longer[i - 1], Append(fs, op)[i])
  <2>1. CASE i = k + 1
    BY <1>2, <1>4, <1>5, <1>6, <2>1
  <2>2. CASE i # k + 1
    <3>1. i \in 1..k /\ i \in 0..k /\ i - 1 \in 0..k
      BY <1>2, <2>2
    <3> QED
      BY <1>2, <1>4, <1>6, <3>1
  <2> QED
    BY <2>1, <2>2
<1>8. longer[0] = list
  BY <1>2, <1>4, <1>6
<1>9. Leads(longer, list, Append(fs, op), {}, table)
  BY <1>2, <1>5, <1>7, <1>8 DEF Leads
<1> QED
  BY <1>3, <1>9 DEF LeadsTo

\* Applying the first frame leaves the rest of the path.
LEMMA LeadsLess ==
    ASSUME NEW list, NEW fs \in Seq(Frame), fs # <<>>, NEW pub, NEW table,
           LeadsTo(list, fs, pub, table)
    PROVE  LeadsTo(Applied(list, Head(fs)), Tail(fs), pub, table)
<1> HIDE DEF Frame
<1>1. PICK path \in [0..Len(fs) -> NoteList] : Leads(path, list, fs, pub, table)
  BY DEF LeadsTo
<1>2. /\ Len(fs) \in Nat \ {0} /\ Len(Tail(fs)) = Len(fs) - 1 /\ Head(fs) = fs[1]
      /\ \A i \in 1..Len(Tail(fs)) : Tail(fs)[i] = fs[i + 1]
  BY HeadTailProperties, LenProperties, EmptySeq
<1> DEFINE k == Len(fs) - 1
           shorter == [i \in 0..k |-> path[i + 1]]
<1>3. shorter \in [0..Len(Tail(fs)) -> NoteList]
  <2>1. ASSUME NEW i \in 0..k PROVE path[i + 1] \in NoteList
    <3>1. i + 1 \in 0..Len(fs)
      BY <1>2
    <3> QED
      BY <3>1
  <2> QED
    BY <1>2, <2>1
<1>4. \A i \in 0..k : shorter[i] = path[i + 1]
  OBVIOUS
<1> HIDE DEF shorter
<1>5. /\ path[0] = list
      /\ \A i \in 1..Len(fs) : path[i] = Applied(path[i - 1], fs[i])
      /\ pub = {} => path[Len(fs)] = table
      /\ \A op \in pub : Applied(path[Len(fs)], op) = table
  BY <1>1 DEF Leads
<1>6. shorter[0] = Applied(list, Head(fs))
  BY <1>2, <1>4, <1>5
<1>7. ASSUME NEW i \in 1..k PROVE shorter[i] = Applied(shorter[i - 1], Tail(fs)[i])
  <2>1. /\ i \in 0..k /\ i - 1 \in 0..k /\ i \in 1..Len(Tail(fs)) /\ i + 1 \in 1..Len(fs)
        /\ (i + 1) - 1 = i /\ (i - 1) + 1 = i
    BY <1>2
  <2>2. path[i + 1] = Applied(path[(i + 1) - 1], fs[i + 1])
    BY <1>5, <2>1
  <2> QED
    BY <1>2, <1>4, <2>1, <2>2
<1>8. shorter[Len(Tail(fs))] = path[Len(fs)]
  BY <1>2, <1>4
<1>9. Leads(shorter, Applied(list, Head(fs)), Tail(fs), pub, table)
  BY <1>2, <1>5, <1>6, <1>7, <1>8 DEF Leads
<1> QED
  BY <1>3, <1>9 DEF LeadsTo

\* Whatever frames there are, a list leads somewhere through them.
LEMMA PathExists ==
    ASSUME NEW list \in NoteList, NEW fs \in Seq(Change)
    PROVE  \E path \in [0..Len(fs) -> NoteList] :
             path[0] = list /\ \A i \in 1..Len(fs) : path[i] = Applied(path[i - 1], fs[i])
<1> HIDE DEF Change
<1> DEFINE Is(path, k) == /\ path \in [0..k -> NoteList] /\ path[0] = list
                          /\ \A i \in 1..k : path[i] = Applied(path[i - 1], fs[i])
           Missing == {k \in 0..Len(fs) : ~ \E path : Is(path, k)}
<1>0. Len(fs) \in Nat /\ \A i \in 1..Len(fs) : fs[i] \in Change
  BY LenProperties, ElementOfSeq
<1>1. Is([i \in 0..0 |-> list], 0)
  OBVIOUS
<1>2. ASSUME NEW k \in 1..Len(fs), NEW path, Is(path, k - 1)
      PROVE  Is([i \in 0..k |-> IF i = k THEN Applied(path[k - 1], fs[k]) ELSE path[i]], k)
  <2> DEFINE longer == [i \in 0..k |-> IF i = k THEN Applied(path[k - 1], fs[k]) ELSE path[i]]
  <2>0. k \in Nat \ {0} /\ k - 1 \in 0..(k - 1) /\ path \in [0..(k - 1) -> NoteList]
    BY <1>0, <1>2
  <2>1. Applied(path[k - 1], fs[k]) \in NoteList
    <3>1. PICK a \in NoteList, op \in Change : a = path[k - 1] /\ op = fs[k]
      BY <1>0, <2>0
    <3> QED
      BY <3>1, AppliedTyped
  <2>2. longer \in [0..k -> NoteList]
    <3>1. ASSUME NEW i \in 0..k
          PROVE  (IF i = k THEN Applied(path[k - 1], fs[k]) ELSE path[i]) \in NoteList
      <4>1. i # k => i \in 0..(k - 1)
        BY <2>0
      <4> QED
        BY <2>0, <2>1, <4>1
    <3> QED
      BY <3>1
  <2>3. longer[k] = Applied(path[k - 1], fs[k]) /\ \A i \in 0..(k - 1) : longer[i] = path[i]
    BY <2>0
  <2> HIDE DEF longer
  <2>4. ASSUME NEW i \in 1..k PROVE longer[i] = Applied(longer[i - 1], fs[i])
    <3>1. CASE i = k
      BY <2>0, <2>3, <3>1
    <3>2. CASE i # k
      <4>1. i \in 1..(k - 1) /\ i \in 0..(k - 1) /\ i - 1 \in 0..(k - 1)
        BY <2>0, <3>2
      <4> QED
        BY <1>2, <2>3, <4>1
    <3> QED
      BY <3>1, <3>2
  <2>5. longer[0] = list
    BY <1>2, <2>0, <2>3
  <2>6. Is(longer, k)
    BY <2>2, <2>4, <2>5
  <2> QED
    BY <2>6 DEF longer
<1> HIDE DEF Is
<1>3. Missing = {}
  <2> SUFFICES ASSUME Missing # {} PROVE FALSE
    OBVIOUS
  <2>1. PICK k \in Missing : \A m \in Missing : k <= m
    <3>1. Missing \subseteq Nat
      OBVIOUS
    <3> QED
      BY <3>1, LeastNat
  <2>2. k # 0
    BY <1>1
  <2>3. k \in 1..Len(fs) /\ k - 1 \in 0..Len(fs) /\ k - 1 \notin Missing
    BY <1>0, <2>1, <2>2
  <2>4. PICK path : Is(path, k - 1)
    BY <2>3
  <2> QED
    BY <1>2, <2>1, <2>3, <2>4
<1>4. PICK path : Is(path, Len(fs))
  BY <1>0, <1>3
<1> QED
  BY <1>4 DEF Is

-----------------------------------------------------------------------------
\* What the table would go through if it took its frames again: a notification that is
\* in it stays as it is, and one that is gone may come back until its removal.
LEMMA TableLeadsToTable ==
    ASSUME InboxTyped, OneIsUnpublished, NothingIsNews, ~ Sweeping,
           \A i \in DOMAIN frames : frames[i].type # "ready"
    PROVE  LeadsTo(rows, frames, unpublished, rows)
<1>0. /\ rows \in NoteList /\ frames \in Seq(Frame) /\ unpublished \subseteq Change
      /\ DOMAIN frames = 1..Len(frames) /\ Len(frames) \in Nat
  BY FrameFacts DEF InboxTyped, InboxTypeOK, NoteList
<1>1. \A i \in DOMAIN frames : frames[i] \in Change
  BY FrameFacts, <1>0 DEF Frame
<1>2. frames \in Seq(Change)
  <2> HIDE DEF Change, Frame
  <2> QED
    BY <1>0, <1>1, SeqDef, LenProperties
<1>3. PICK path \in [0..Len(frames) -> NoteList] :
        path[0] = rows /\ \A i \in 1..Len(frames) : path[i] = Applied(path[i - 1], frames[i])
  BY <1>0, <1>2, PathExists
<1>4. \A op \in Out : IsOld(op) /\ op \in Change /\ op.type \in {"created", "deleted", "read"}
  BY <1>0, <1>1 DEF NothingIsNews, Out, Sweeping, Change
<1> DEFINE Back(k, n) == \E i \in 1..k :
                 /\ frames[i].type = "created" /\ frames[i].n = n
                 /\ \A j \in (i + 1)..k : ~ Removes(frames[j], n)
           Holds(k) == \A n \in Note :
                 /\ rows[n] # "absent" => path[k][n] = rows[n]
                 /\ rows[n] = "absent" /\ path[k][n] # "absent" => Back(k, n)
           Broken == {k \in 0..Len(frames) : ~ Holds(k)}
<1>5. Holds(0)
  BY <1>3
<1>6. ASSUME NEW k \in 1..Len(frames), Holds(k - 1) PROVE Holds(k)
  <2>0. k \in Nat \ {0} /\ k - 1 \in 0..Len(frames) /\ k \in DOMAIN frames
    BY <1>0
  <2>1. PICK list \in NoteList, op \in Change : list = path[k - 1] /\ op = frames[k]
    BY <1>1, <1>3, <2>0
  <2>2. path[k] = Applied(list, op)
    BY <1>3, <2>1
  <2>3. op \in Out
    BY <2>0, <2>1 DEF Out
  <2>4. /\ op.type \in {"created", "deleted", "read"} /\ op.n \in Note
        /\ op.type = "deleted" => rows[op.n] = "absent"
        /\ op.type = "read" => rows[op.n] # "unread"
    BY <1>4, <2>3 DEF IsOld, Change
  <2>5. ASSUME NEW n \in Note, rows[n] # "absent" PROVE path[k][n] = rows[n]
    <3>1. list[n] = rows[n]
      BY <1>6, <2>1, <2>5
    <3> QED
      BY <2>2, <2>4, <2>5, <3>1, AppliedAt
  <2>6. ASSUME NEW n \in Note, rows[n] = "absent", path[k][n] # "absent" PROVE Back(k, n)
    <3>1. CASE op.type = "created" /\ op.n = n
      <4>1. k \in 1..k /\ (k + 1)..k = {}
        BY <2>0
      <4> QED
        BY <2>1, <3>1, <4>1
    <3>2. CASE ~ (op.type = "created" /\ op.n = n)
      <4>1. list[n] # "absent" /\ ~ Removes(op, n)
        BY <2>2, <2>4, <2>6, <3>2, AppliedAt DEF Removes
      <4>2. Back(k - 1, n)
        BY <1>6, <2>1, <2>6, <4>1
      <4>3. PICK i \in 1..(k - 1) : /\ frames[i].type = "created" /\ frames[i].n = n
                                    /\ \A j \in (i + 1)..(k - 1) : ~ Removes(frames[j], n)
        BY <4>2
      <4>4. \A j \in (i + 1)..k : ~ Removes(frames[j], n)
        BY <2>0, <2>1, <4>1, <4>3
      <4>5. i \in 1..k
        BY <2>0
      <4> QED
        BY <4>3, <4>4, <4>5
    <3> QED
      BY <3>1, <3>2
  <2> HIDE DEF Back
  <2> QED
    BY <2>5, <2>6
<1> HIDE DEF Holds
<1>7. Broken = {}
  <2> SUFFICES ASSUME Broken # {} PROVE FALSE
    OBVIOUS
  <2>1. PICK k \in Broken : \A m \in Broken : k <= m
    <3>1. Broken \subseteq Nat
      OBVIOUS
    <3> QED
      BY <3>1, LeastNat
  <2>2. k # 0
    BY <1>5
  <2>3. k \in 1..Len(frames) /\ k - 1 \in 0..Len(frames) /\ k - 1 \notin Broken
    BY <1>0, <2>1, <2>2
  <2>4. Holds(k - 1)
    BY <2>3
  <2> QED
    BY <1>6, <2>1, <2>3, <2>4
<1>8. PICK last \in NoteList : last = path[Len(frames)]
  BY <1>0, <1>3
<1>9. /\ \A n \in Note : rows[n] # "absent" => last[n] = rows[n]
      /\ \A n \in Note : rows[n] = "absent" /\ last[n] # "absent" =>
            \E op \in unpublished : op.type = "deleted" /\ op.n = n
  <2>1. Holds(Len(frames))
    BY <1>0, <1>7
  <2>2. ASSUME NEW n \in Note, rows[n] = "absent", last[n] # "absent"
        PROVE  \E op \in unpublished : op.type = "deleted" /\ op.n = n
    <3>1. PICK i \in DOMAIN frames : /\ frames[i].type = "created" /\ frames[i].n = n
                                     /\ \A j \in (i + 1)..Len(frames) : ~ Removes(frames[j], n)
      BY <1>0, <1>8, <2>1, <2>2 DEF Holds
    <3>2. Undone(i, n)
      BY <2>2, <3>1 DEF NothingIsNews
    <3>3. ~ \E j \in DOMAIN frames : j > i /\ Removes(frames[j], n)
      BY <1>0, <3>1
    <3>4. PICK op \in unpublished : Removes(op, n)
      BY <3>2, <3>3 DEF Undone
    <3>5. op.type # "cleared"
      BY DEF Sweeping
    <3> QED
      BY <3>4, <3>5 DEF Removes
  <2> QED
    BY <1>8, <2>1, <2>2 DEF Holds
<1>10. unpublished = {} => last = rows
  BY <1>0, <1>9, SameList
<1>11. ASSUME NEW op \in unpublished PROVE Applied(last, op) = rows
  <2>0. op \in Change /\ op \in Out
    BY <1>0 DEF Out
  <2>1. /\ op.type \in {"created", "deleted", "read"} /\ op.n \in Note
        /\ op.type = "deleted" => rows[op.n] = "absent"
        /\ op.type = "read" => rows[op.n] # "unread"
        /\ op.type = "created" => rows[op.n] # "absent"
    BY <1>4, <2>0 DEF IsOld, Change, NothingIsNews
  <2>2. \A n \in Note : rows[n] = "absent" /\ last[n] # "absent" => op.type = "deleted" /\ op.n = n
    BY <1>9 DEF OneIsUnpublished
  <2>3. PICK after \in NoteList : after = Applied(last, op)
    BY <2>0, AppliedTyped
  <2>4. ASSUME NEW n \in Note PROVE after[n] = rows[n]
    <3>1. CASE rows[n] = "absent"
      BY <2>0, <2>1, <2>2, <2>3, <3>1, AppliedAt
    <3>2. CASE rows[n] # "absent"
      BY <1>9, <2>0, <2>1, <2>3, <3>2, AppliedAt
    <3> QED
      BY <3>1, <3>2
  <2> QED
    BY <1>0, <2>3, <2>4, SameList
<1>12. Leads(path, rows, frames, unpublished, rows)
  BY <1>3, <1>8, <1>10, <1>11 DEF Leads
<1> QED
  BY <1>3, <1>12 DEF LeadsTo

-----------------------------------------------------------------------------
Following ==
    OneIsUnpublished /\ NothingIsNews /\ LoadsAreFresh /\ AskIsAlone /\ PhoneFollows

LEMMA InboxStart == InboxInit => InboxInv
<1> SUFFICES ASSUME InboxInit PROVE InboxInv
  OBVIOUS
<1>1. Empty \in NoteList
  BY DEF Empty, NoteList, NoteStates
<1>2. frames = <<>> /\ frames \in Seq(Frame) /\ DOMAIN frames = {}
  <2>1. <<>> \in Seq(Frame) /\ Len(<<>>) = 0
    BY EmptySeq
  <2> QED
    BY <2>1, LenProperties DEF InboxInit
<1>3. NotLoading \in LoadState /\ ~ NotLoading.on
      /\ NotLoading.list = NoList /\ NotLoading.count = NoCount
  BY DEF NotLoading, LoadState
<1>4. NotAsking \in AskState /\ NotAsking.pc = "none"
  BY DEF NotAsking, AskState, Asked, Change
<1>5. InboxTyped
  <2>1. load \in [Load -> LoadState]
    BY <1>3 DEF InboxInit
  <2> QED
    BY <1>1, <1>2, <1>4, <2>1 DEF InboxInit, InboxTyped, InboxTypeOK, NoteList
<1>6. Out = {} /\ \A n \in Note : rows[n] = "absent"
  BY <1>2 DEF InboxInit, Out, Empty
<1>7. OneIsUnpublished /\ NothingIsNews /\ LoadsAreFresh /\ AskIsAlone /\ PhoneFollows
  BY <1>2, <1>3, <1>4, <1>6
  DEF InboxInit, OneIsUnpublished, NothingIsNews, LoadsAreFresh, AskIsAlone, PhoneFollows
<1> QED
  BY <1>5, <1>7 DEF InboxInv

\* A change of the table that nothing overtakes.
LEMMA CommitFollows ==
    ASSUME InboxTyped, Following, NEW op \in Change, Commit(op), rows' # rows,
           op.type # "created" => emitted' = emitted,
           op.type = "created" => op.n \notin emitted /\ emitted' = emitted \cup {op.n},
           UNCHANGED <<storeVars, load, ask>>, ~ crossed'
    PROVE  Following'
<1>1. /\ ~ Reading /\ ~ counting /\ unpublished = {} /\ ask.pc = "none"
      /\ rows' = Applied(rows, op) /\ unpublished' = {op}
      /\ UNCHANGED <<connected, counting, frames, items, unread, load, ask>>
  BY DEF Commit, storeVars
<1>2. OneIsUnpublished'
  BY <1>1 DEF OneIsUnpublished
<1>3. NothingIsNews'
  BY <1>1, ChangeKeepsNews DEF Following
<1>4. LoadsAreFresh' /\ AskIsAlone'
  BY <1>1 DEF LoadsAreFresh, AskIsAlone, Reading
<1>5. Refreshing' <=> Refreshing
  BY <1>1 DEF Refreshing
<1>6. connected /\ ~ Refreshing =>
        unread = CountUnread(items) /\ LeadsTo(items, frames, {}, rows)
  BY <1>1 DEF Following, PhoneFollows
<1>7. LeadsTo(items, frames, {}, rows) => LeadsTo(items, frames, {op}, Applied(rows, op))
  BY LeadsOn
<1>8. PhoneFollows'
  BY <1>1, <1>5, <1>6, <1>7 DEF PhoneFollows
<1> QED
  BY <1>2, <1>3, <1>4, <1>8 DEF Following

LEMMA EmitFollows ==
    ASSUME InboxTyped, Following, NEW n \in Note, EmitNotification(n), ~ crossed'
    PROVE  Following'
<1> DEFINE op == [type |-> "created", n |-> n]
<1>1. op \in Change
  BY DEF Change
<1>2. rows[n] = "absent" /\ rows \in NoteList
  BY DEF EmitNotification, Following, NothingIsNews, InboxTyped, InboxTypeOK, NoteList
<1>3. rows' # rows
  <2>1. Applied(rows, op)[n] = "unread"
    BY <1>1, <1>2, AppliedAt
  <2> QED
    BY <1>2, <2>1 DEF EmitNotification, Commit
<1>4. /\ Commit(op) /\ n \notin emitted /\ emitted' = emitted \cup {n}
      /\ UNCHANGED <<storeVars, load, ask>>
  BY DEF EmitNotification
<1>5. op.type = "created" /\ op.n = n
  OBVIOUS
<1> HIDE DEF op
<1> QED
  BY <1>1, <1>3, <1>4, <1>5, CommitFollows

LEMMA OtherDeviceFollows ==
    ASSUME InboxTyped, Following, NEW op \in Change, OtherDevice(op), ~ crossed'
    PROVE  Following'
BY CommitFollows DEF OtherDevice, Commit

LEMMA PublishFollows ==
    ASSUME InboxTyped, Following, NEW op \in Change, Publish(op), ~ crossed'
    PROVE  Following'
<1>0. /\ unpublished = {op} /\ unpublished' = {}
      /\ UNCHANGED <<rows, emitted, connected, counting, items, unread, load, ask>>
      /\ op \in Frame /\ op.type # "ready" /\ rows \in NoteList /\ frames \in Seq(Frame)
  BY DEF Publish, Following, OneIsUnpublished, tableVars, storeVars, Frame, Change,
         InboxTyped, InboxTypeOK, NoteList
<1>1. OneIsUnpublished'
  BY <1>0 DEF OneIsUnpublished
<1>2. NothingIsNews'
  BY PublishKeepsNews DEF Following
<1>3. ask.pc # "sent"
  BY <1>0 DEF Following, AskIsAlone
<1>4. AskIsAlone'
  BY <1>0, <1>3 DEF AskIsAlone
<1>5. /\ DOMAIN frames = 1..Len(frames) /\ Len(frames) \in Nat
      /\ connected =>
           /\ frames' = Append(frames, op)
           /\ DOMAIN frames' = 1..(Len(frames) + 1) /\ frames'[Len(frames) + 1] = op
           /\ \A i \in DOMAIN frames : frames'[i] = frames[i]
      /\ ~ connected => frames' = <<>> /\ DOMAIN frames' = {}
  <2>1. /\ connected => frames' = Append(frames, op)
        /\ ~ connected => frames' = <<>> /\ frames = <<>>
    BY DEF Publish, InboxTyped
  <2>2. DOMAIN <<>> = {}
    BY EmptySeq, LenProperties
  <2>3. DOMAIN frames = 1..Len(frames) /\ Len(frames) \in Nat
    BY <1>0, FrameFacts
  <2>4. /\ DOMAIN Append(frames, op) = 1..(Len(frames) + 1)
        /\ Append(frames, op)[Len(frames) + 1] = op
        /\ \A i \in DOMAIN frames : Append(frames, op)[i] = frames[i]
    BY <1>0, FrameFacts
  <2> QED
    BY <2>1, <2>2, <2>3, <2>4
<1>6. Sweeping' => Sweeping
  BY <1>0, <1>5 DEF Sweeping
<1>7. LoadsAreFresh'
  BY <1>0, <1>6 DEF Following, LoadsAreFresh
<1>8. connected /\ Refreshing => Refreshing'
  BY <1>0, <1>5 DEF Refreshing
<1>9. PhoneFollows'
  <2> SUFFICES ASSUME connected, ~ Refreshing
               PROVE  unread = CountUnread(items) /\ LeadsTo(items, frames', {}, rows)
    BY <1>0, <1>3, <1>8 DEF PhoneFollows
  <2>1. unread = CountUnread(items) /\ LeadsTo(items, frames, {op}, rows)
    BY <1>0, <1>3 DEF Following, PhoneFollows
  <2> QED
    BY <1>0, <1>5, <2>1, LeadsPublished
<1> QED
  BY <1>1, <1>2, <1>4, <1>7, <1>9 DEF Following

\* The socket comes and goes, and says where the table is.
LEMMA SocketFollows ==
    ASSUME InboxTyped, Following, Connect \/ SayReady \/ Disconnect
    PROVE  Following'
<1>1. UNCHANGED <<rows, emitted, unpublished, items, unread, load, ask>>
  BY DEF Connect, SayReady, Disconnect, tableVars, storeVars
<1>2. OneIsUnpublished'
  BY <1>1 DEF Following, OneIsUnpublished
<1>3. ASSUME Connect PROVE Following'
  <2>1. Refreshing' /\ frames' = frames
    BY <1>3 DEF Connect, Refreshing
  <2> QED
    BY <1>1, <1>2, <2>1 DEF Following, NothingIsNews, LoadsAreFresh, AskIsAlone, PhoneFollows,
       Out, IsOld, Undone, Sweeping
<1>4. ASSUME Disconnect PROVE Following'
  <2>1. ~ connected' /\ frames' = <<>> /\ DOMAIN frames' = {}
    BY <1>4, EmptySeq, LenProperties DEF Disconnect
  <2>2. Out' = unpublished /\ unpublished \subseteq Out /\ (Sweeping' => Sweeping)
    BY <1>1, <2>1 DEF Out, Sweeping
  <2> QED
    BY <1>1, <1>2, <2>1, <2>2
    DEF Following, NothingIsNews, LoadsAreFresh, AskIsAlone, PhoneFollows, IsOld
<1>5. ASSUME SayReady PROVE Following'
  <2>0. NothingIsNews' /\ (Sweeping' => Sweeping)
    BY <1>5, ReadyKeepsNews DEF Following
  <2>1. PICK f \in Frame : f.type = "ready" /\ frames' = Append(frames, f)
    BY <1>5, CountIsNat DEF SayReady, Frame
  <2>2. /\ DOMAIN frames = 1..Len(frames) /\ Len(frames) \in Nat
        /\ DOMAIN frames' = 1..(Len(frames) + 1) /\ frames'[Len(frames) + 1] = f
        /\ \A i \in DOMAIN frames : frames'[i] = frames[i]
    BY <2>1, FrameFacts DEF InboxTyped
  <2>3. Refreshing'
    BY <2>1, <2>2 DEF Refreshing
  <2>4. AskIsAlone'
    BY <1>1, <2>1, <2>2 DEF Following, AskIsAlone
  <2> QED
    BY <1>1, <1>2, <2>0, <2>3, <2>4 DEF Following, LoadsAreFresh, PhoneFollows
<1> QED
  BY <1>3, <1>4, <1>5

\* The phone takes what the socket carries.
LEMMA ApplyFollows ==
    ASSUME InboxTyped, Following, ApplyReady \/ ApplyEvent
    PROVE  Following'
<1>1. /\ UNCHANGED <<rows, emitted, unpublished, connected, counting, ask>>
      /\ frames # <<>> /\ frames' = Tail(frames)
  BY DEF ApplyReady, ApplyEvent, tableVars
<1>2. /\ Head(frames) \in Frame /\ Head(frames) = frames[1] /\ 1 \in DOMAIN frames
      /\ DOMAIN frames' = 1..(Len(frames) - 1) /\ DOMAIN frames = 1..Len(frames)
      /\ Len(frames) \in Nat
      /\ \A i \in DOMAIN frames' : frames'[i] = frames[i + 1] /\ i + 1 \in DOMAIN frames
  BY <1>1, FrameFacts DEF InboxTyped
<1>3. OneIsUnpublished'
  BY <1>1 DEF Following, OneIsUnpublished
<1>4. NothingIsNews' /\ (Sweeping' => Sweeping)
  BY <1>1, TakingKeepsNews DEF Following
<1>5. AskIsAlone'
  BY <1>1, <1>2 DEF Following, AskIsAlone
<1>6. ASSUME ApplyReady PROVE LoadsAreFresh' /\ PhoneFollows'
  <2>1. PICK l \in Load : load' = [load EXCEPT ![l].on = TRUE]
    BY <1>6 DEF ApplyReady
  <2>2. load'[l].on /\ \A k \in Load : /\ load'[k].list = load[k].list
                                       /\ load'[k].count = load[k].count
                                       /\ load[k].on => load'[k].on
    BY <2>1 DEF InboxTyped, LoadState
  <2>3. LoadsAreFresh'
    BY <1>1, <1>4, <2>2 DEF Following, LoadsAreFresh
  <2> QED
    BY <2>2, <2>3 DEF PhoneFollows, Refreshing
<1>7. ASSUME ApplyEvent PROVE LoadsAreFresh' /\ PhoneFollows'
  <2>1. load' = load /\ Head(frames).type # "ready" /\ StoreApplies(Head(frames))
    BY <1>7 DEF ApplyEvent
  <2>2. Head(frames) \in Change
    BY <1>2, <2>1 DEF Frame
  <2>3. LoadsAreFresh'
    BY <1>1, <1>4, <2>1 DEF Following, LoadsAreFresh
  <2>4. ask.pc # "sent"
    BY <1>2, <2>1 DEF Following, AskIsAlone
  <2>5. Refreshing => Refreshing'
    <3>1. ASSUME NEW i \in DOMAIN frames, frames[i].type = "ready"
          PROVE  i - 1 \in DOMAIN frames' /\ frames'[i - 1].type = "ready"
      <4>1. i # 1
        BY <1>2, <2>1, <3>1
      <4>2. i - 1 \in DOMAIN frames' /\ (i - 1) + 1 = i
        BY <1>2, <4>1
      <4>3. frames'[i - 1] = frames[(i - 1) + 1]
        BY <1>2, <4>2
      <4> QED
        BY <3>1, <4>2, <4>3
    <3> QED
      BY <1>1, <2>1, <3>1 DEF Refreshing
  <2>6. ASSUME connected, ~ Refreshing
        PROVE  unread' = CountUnread(items') /\ LeadsTo(items', frames', unpublished, rows)
    <3>1. unread = CountUnread(items) /\ LeadsTo(items, frames, unpublished, rows)
      BY <2>4, <2>6 DEF Following, PhoneFollows
    <3>2. items' = Applied(items, Head(frames)) /\ unread' = CountUnread(items')
      BY <2>1, <2>2, <3>1, StoreCounts DEF InboxTyped, InboxTypeOK, NoteList
    <3> QED
      BY <1>1, <3>1, <3>2, LeadsLess DEF InboxTyped
  <2> QED
    BY <1>1, <2>3, <2>4, <2>5, <2>6 DEF PhoneFollows
<1> QED
  BY <1>3, <1>4, <1>5, <1>6, <1>7 DEF Following

\* A load is asked for, and what it reads is the table.
LEMMA LoadingFollows ==
    ASSUME InboxTyped, Following, NEW l \in Load, Reload(l) \/ ServeList(l) \/ ServeCount(l),
           ~ crossed'
    PROVE  Following'
<1>1. UNCHANGED <<rows, emitted, unpublished, connected, counting, frames, items, unread, ask>>
  BY DEF Reload, ServeList, ServeCount, tableVars, pipeVars, storeVars
<1>2. load'[l].on /\ \A k \in Load : k # l => load'[k] = load[k]
  BY DEF InboxTyped, LoadState, Reload, ServeList, ServeCount
<1>3. /\ load'[l].list # NoList =>
             \/ load[l].list # NoList /\ load'[l].list = load[l].list
             \/ load'[l].list = rows /\ ~ Sweeping
      /\ load'[l].count # NoCount =>
             \/ load[l].count # NoCount /\ load'[l].count = load[l].count
             \/ load'[l].count = CountUnread(rows)
  <2>1. CASE Reload(l)
    BY <2>1 DEF InboxTyped, LoadState, Reload
  <2>2. CASE ServeList(l)
    BY <2>2 DEF InboxTyped, LoadState, ServeList
  <2>3. CASE ServeCount(l)
    BY <2>3 DEF InboxTyped, LoadState, ServeCount
  <2> QED
    BY <2>1, <2>2, <2>3
<1>4. Sweeping' <=> Sweeping
  BY <1>1 DEF Sweeping
<1>5. LoadsAreFresh'
  <2> SUFFICES ASSUME NEW k \in Load
               PROVE  /\ load'[k].list # NoList =>
                           load'[k].on /\ load'[k].list = rows /\ ~ Sweeping
                      /\ load'[k].count # NoCount =>
                           load'[k].on /\ load'[k].count = CountUnread(rows)
    BY <1>1, <1>4 DEF LoadsAreFresh
  <2>1. CASE k = l
    BY <1>2, <1>3, <2>1 DEF Following, LoadsAreFresh
  <2>2. CASE k # l
    BY <1>2, <2>2 DEF Following, LoadsAreFresh
  <2> QED
    BY <2>1, <2>2
<1>6. Refreshing'
  BY <1>2 DEF Refreshing
<1> QED
  BY <1>1, <1>5, <1>6 DEF Following, OneIsUnpublished, NothingIsNews, AskIsAlone, PhoneFollows,
     Out, IsOld, Undone

\* What it read is put in the store whole.
LEMMA LandFollows ==
    ASSUME InboxTyped, Following, NEW l \in Load, LandLoad(l), ~ crossed'
    PROVE  Following'
<1>1. /\ UNCHANGED <<rows, emitted, unpublished, connected, counting, frames, ask>>
      /\ ask.pc = "none"
      /\ load' = [load EXCEPT ![l] = NotLoading]
      /\ items' = load[l].list /\ unread' = load[l].count
      /\ load[l].list # NoList /\ load[l].count # NoCount
  BY DEF LandLoad, tableVars, pipeVars
<1>2. items' = rows /\ unread' = CountUnread(rows) /\ ~ Sweeping
  BY <1>1 DEF Following, LoadsAreFresh
<1>3. load'[l] = NotLoading /\ \A k \in Load : k # l => load'[k] = load[k]
  BY <1>1 DEF InboxTyped
<1>4. NotLoading.list = NoList /\ NotLoading.count = NoCount
  BY DEF NotLoading
<1>5. Sweeping' <=> Sweeping
  BY <1>1 DEF Sweeping
<1>6. LoadsAreFresh'
  BY <1>1, <1>3, <1>4, <1>5 DEF Following, LoadsAreFresh
<1>7. PhoneFollows'
  <2>1. ASSUME ~ Refreshing' PROVE LeadsTo(rows, frames, unpublished, rows)
    BY <1>1, <1>2, <2>1, TableLeadsToTable DEF Refreshing, Following
  <2> QED
    BY <1>1, <1>2, <2>1 DEF PhoneFollows
<1> QED
  BY <1>1, <1>6, <1>7 DEF Following, OneIsUnpublished, NothingIsNews, AskIsAlone,
     Out, IsOld, Undone

-----------------------------------------------------------------------------
\* With nothing on its way the phone and the table are the same.
LEMMA NothingLeft ==
    ASSUME InboxTyped, Following, connected, ~ Refreshing, ask.pc # "sent",
           frames = <<>>, unpublished = {}
    PROVE  items = rows /\ unread = CountUnread(rows)
<1>1. unread = CountUnread(items) /\ LeadsTo(items, <<>>, {}, rows)
  BY DEF Following, PhoneFollows
<1>2. items = rows
  BY <1>1, LeadsNowhere DEF InboxTyped, InboxTypeOK, NoteList
<1> QED
  BY <1>1, <1>2

LEMMA AskFollows ==
    ASSUME InboxTyped, Following, NEW op \in Change, AskFor(op), ~ crossed'
    PROVE  Following'
<1>1. /\ UNCHANGED <<rows, emitted, unpublished, connected, counting, frames, load>>
      /\ ask.pc = "none" /\ unpublished = {} /\ frames = <<>> /\ ~ counting
      /\ \A l \in Load : ~ load[l].on
      /\ ask' = [pc |-> "sent", op |-> op, items |-> items, unread |-> unread]
      /\ StoreApplies(op)
  BY DEF AskFor, tableVars, pipeVars
<1>2. DOMAIN frames = {}
  BY <1>1, EmptySeq, LenProperties
<1>3. ~ Refreshing /\ AskIsAlone'
  BY <1>1, <1>2 DEF Refreshing, AskIsAlone
<1>4. PhoneFollows'
  <2> SUFFICES ASSUME connected
               PROVE  /\ unread' = CountUnread(items') /\ items' = Applied(rows, op)
                      /\ items = rows /\ unread = CountUnread(rows)
    BY <1>1 DEF PhoneFollows
  <2>1. items = rows /\ unread = CountUnread(rows)
    BY <1>1, <1>3, NothingLeft
  <2> QED
    BY <1>1, <2>1, StoreCounts DEF InboxTyped, InboxTypeOK, NoteList
<1> QED
  BY <1>1, <1>3, <1>4 DEF Following, OneIsUnpublished, NothingIsNews, LoadsAreFresh,
     Out, IsOld, Undone, Sweeping

\* Without a frame to say "ready", a frame is a change.
LEMMA AskedAlone ==
    ASSUME InboxTyped, Following, ask.pc = "sent", ~ Refreshing
    PROVE  frames = <<>> /\ unpublished = {}
<1>1. unpublished = {} /\ \A i \in DOMAIN frames : frames[i].type = "ready"
  BY DEF Following, AskIsAlone
<1>2. DOMAIN frames = {}
  BY <1>1 DEF Refreshing
<1>3. DOMAIN frames = 1..Len(frames) /\ Len(frames) \in Nat
  BY FrameFacts DEF InboxTyped
<1>4. Len(frames) = 0
  BY <1>2, <1>3
<1> QED
  BY <1>1, <1>4, EmptySeq DEF InboxTyped

LEMMA DoAskedFollows ==
    ASSUME InboxTyped, Following, DoAsked, ~ crossed'
    PROVE  Following'
<1>1. PICK op \in Asked : op = ask.op
  BY DEF InboxTyped, AskState
<1>2. op \in Change /\ op.type # "created"
  BY DEF Asked
<1>3. /\ UNCHANGED <<emitted, connected, counting, frames, items, unread, load>>
      /\ ask.pc = "sent" /\ ask'.pc = "done" /\ unpublished = {} /\ ~ Reading /\ ~ counting
      /\ rows' = Applied(rows, op)
      /\ rows' # rows => unpublished' = {op}
      /\ rows' = rows => unpublished' = {}
  BY <1>1 DEF DoAsked, storeVars, Following, AskIsAlone, InboxTyped, AskState
<1>4. OneIsUnpublished'
  BY <1>3 DEF OneIsUnpublished
<1>5. NothingIsNews'
  <2>1. CASE rows' = rows
    BY <1>3, <2>1 DEF Following, NothingIsNews, Out, IsOld, Undone
  <2>2. CASE rows' # rows
    BY <1>2, <1>3, <2>2, ChangeKeepsNews DEF Following
  <2> QED
    BY <2>1, <2>2
<1>6. LoadsAreFresh' /\ AskIsAlone'
  BY <1>3 DEF LoadsAreFresh, AskIsAlone, Reading
<1>7. PhoneFollows'
  <2> SUFFICES ASSUME connected, ~ Refreshing
               PROVE  unread = CountUnread(items) /\ LeadsTo(items, frames, unpublished', rows')
    BY <1>3 DEF PhoneFollows, Refreshing
  <2>1. unread = CountUnread(items) /\ items = Applied(rows, op)
    BY <1>1, <1>3 DEF Following, PhoneFollows
  <2>2. frames = <<>>
    BY <1>3, AskedAlone
  <2>3. items = rows' /\ Applied(rows', op) = rows' /\ rows \in NoteList /\ items \in NoteList
    BY <1>2, <1>3, <2>1, AppliedTwice DEF InboxTyped, InboxTypeOK, NoteList
  <2>4. (unpublished' = {} => items = rows') /\ \A o \in unpublished' : Applied(items, o) = rows'
    BY <1>3, <2>3
  <2>5. PICK pub, table : pub = unpublished' /\ table = rows'
    OBVIOUS
  <2>6. LeadsTo(items, <<>>, pub, table)
    BY <2>3, <2>4, <2>5, LeadsNowhere
  <2> QED
    BY <2>1, <2>2, <2>5, <2>6
<1> QED
  BY <1>4, <1>5, <1>6, <1>7 DEF Following

LEMMA AnsweredFollows ==
    ASSUME InboxTyped, Following, CallAnswered
    PROVE  Following'
<1>1. /\ UNCHANGED <<rows, emitted, unpublished, connected, counting, frames, items, unread, load>>
      /\ ask.pc = "done" /\ ask'.pc = "none"
  BY DEF CallAnswered, tableVars, pipeVars, storeVars, NotAsking
<1> QED
  BY <1>1 DEF Following, OneIsUnpublished, NothingIsNews, LoadsAreFresh, AskIsAlone, PhoneFollows,
     Refreshing, Out, IsOld, Undone, Sweeping

\* A refusal takes the change back from a phone that nothing else has changed.
LEMMA RefusedFollows ==
    ASSUME InboxTyped, Following, Refused, ~ crossed'
    PROVE  Following'
<1>1. /\ UNCHANGED <<rows, emitted, unpublished, connected, counting, frames, load>>
      /\ ask.pc = "sent" /\ ask'.pc = "none" /\ items' = ask.items /\ unread' = ask.unread
  BY DEF Refused, tableVars, pipeVars, NotAsking
<1>2. AskIsAlone' /\ (Refreshing' <=> Refreshing)
  BY <1>1 DEF AskIsAlone, Refreshing
<1>3. PhoneFollows'
  <2> SUFFICES ASSUME connected, ~ Refreshing
               PROVE  unread' = CountUnread(items') /\ LeadsTo(items', frames, unpublished, rows)
    BY <1>1, <1>2 DEF PhoneFollows
  <2>1. items' = rows /\ unread' = CountUnread(rows)
    BY <1>1 DEF Following, PhoneFollows
  <2>2. frames = <<>> /\ unpublished = {}
    BY <1>1, AskedAlone
  <2>3. LeadsTo(rows, <<>>, {}, rows)
    BY LeadsNowhere DEF InboxTyped, InboxTypeOK, NoteList
  <2> QED
    BY <2>1, <2>2, <2>3
<1> QED
  BY <1>1, <1>2, <1>3 DEF Following, OneIsUnpublished, NothingIsNews, LoadsAreFresh,
     Out, IsOld, Undone, Sweeping

LEMMA InboxStep == InboxInv /\ [InboxNext]_inboxVars => InboxInv'
<1>1. ASSUME InboxInv, InboxNext PROVE InboxInv'
  <2>1. InboxTyped'
    BY <1>1, InboxTypeStep DEF InboxInv
  <2>2. ASSUME ~ crossed' PROVE Following'
    <3>1. InboxTyped /\ Following
      BY <1>1 DEF InboxInv, InboxNext, Following
    <3>2. ~ (\E l \in Load : LoseLoad(l)) /\ ~ AnswerLost
      BY <2>2 DEF LoseLoad, AnswerLost
    <3> QED
      BY <1>1, <2>2, <3>1, <3>2, EmitFollows, OtherDeviceFollows, PublishFollows, SocketFollows,
         ApplyFollows, LoadingFollows, LandFollows, AskFollows, DoAskedFollows, AnsweredFollows,
         RefusedFollows DEF InboxNext
  <2> QED
    BY <2>1, <2>2 DEF InboxInv, Following
<1>2. ASSUME InboxInv, UNCHANGED inboxVars PROVE InboxInv'
  <2>1. UNCHANGED <<rows, emitted, unpublished, connected, counting, frames, items, unread, load,
                    ask, crossed>>
    BY <1>2 DEF inboxVars, tableVars, pipeVars, storeVars
  <2>2. InboxTyped'
    BY <1>2, <2>1 DEF InboxInv, InboxTyped, InboxTypeOK
  <2>3. OneIsUnpublished /\ NothingIsNews => (OneIsUnpublished /\ NothingIsNews)'
    BY <2>1 DEF OneIsUnpublished, NothingIsNews, Out, IsOld, Undone
  <2>4. LoadsAreFresh /\ AskIsAlone /\ PhoneFollows => (LoadsAreFresh /\ AskIsAlone /\ PhoneFollows)'
    BY <2>1 DEF LoadsAreFresh, AskIsAlone, PhoneFollows, Refreshing, Sweeping
  <2> QED
    BY <1>2, <2>1, <2>2, <2>3, <2>4 DEF InboxInv
<1> QED
  BY <1>1, <1>2

LEMMA FollowingAgrees == InboxInv => InboxAgrees
<1> SUFFICES ASSUME InboxInv, InboxSettled, ~ crossed
             PROVE  items = rows /\ unread = CountUnread(rows)
  BY DEF InboxAgrees
<1>1. InboxTyped /\ Following
  BY DEF InboxInv, Following
<1>2. connected /\ frames = <<>> /\ unpublished = {} /\ ask.pc = "none"
  BY DEF InboxSettled
<1>3. ~ Refreshing
  <2>1. DOMAIN frames = {}
    BY <1>2, EmptySeq, LenProperties
  <2> QED
    BY <2>1 DEF InboxSettled, Refreshing
<1> QED
  BY <1>1, <1>2, <1>3, NothingLeft

-------------------------------------------------------------------------------
(***************************************************************************)
(* The account: a behaviour of MC_Account is a behaviour of each part.     *)
(***************************************************************************)
\* A step of the account is a step of each part, or leaves it alone.
LEMMA EachPartSteps ==
    [Next]_accountVars =>
        /\ [StreakNext]_streakVars /\ [GoalsNext]_goalVars /\ [ResetNext]_resetVars
        /\ [SubscriptionsNext]_subscriptionVars /\ [InboxNext]_inboxVars
BY DEF Next, In, accountVars

\* The account behaves as each of its parts does alone, so what is proved of a part is
\* true in it.
THEOREM AccountIsItsParts ==
    Spec => StreakSpec /\ GoalsSpec /\ ResetSpec /\ SubscriptionsSpec /\ InboxSpec
<1>1. Init => StreakInit /\ GoalsInit /\ ResetInit /\ SubscriptionsInit /\ InboxInit
  BY DEF Init
<1> QED
  BY <1>1, EachPartSteps, PTL
  DEF Spec, StreakSpec, GoalsSpec, ResetSpec, SubscriptionsSpec, InboxSpec

AccountInv == StreakTypeOK /\ GoalsInv /\ ResetInv /\ SubsInv /\ InboxInv

LEMMA AccountStart == Init => AccountInv
BY InitIInv, GoalsStart, ResetInitInv, SubsStart, InboxStart DEF Init, AccountInv, IInv

LEMMA AccountStep == AccountInv /\ [Next]_accountVars => AccountInv'
BY EachPartSteps, TypeStep, GoalsStep, ResetNextInv, SubsStep, InboxStep DEF AccountInv

\* Every variable of every part of the account keeps its type, in every behaviour of
\* the whole.
THEOREM AccountTypeCorrect == Spec => []TypeOK
<1>1. AccountInv => TypeOK
  BY DEF AccountInv, GoalsInv, ResetInv, SubsInv, InboxInv, InboxTyped, TypeOK
<1> QED
  BY AccountStart, AccountStep, <1>1, PTL DEF Spec

\* Reaching a goal is told, and told once, for any sessions and any targets: unless a
\* session was closed or deleted while another's announcement was still to be made
\* (notifyGoalsReached).
THEOREM GoalsToldOnce == Spec => []GoalsAreToldOnce
<1>1. AccountInv => GoalsAreToldOnce
  BY FairIsToldOnce DEF AccountInv, GoalsAreToldOnce
<1> QED
  BY AccountStart, AccountStep, <1>1, PTL DEF Spec

\* With nothing on its way, the phone shows the table of notifications and the badge
\* its count, for any notifications and any loads: unless a read failed, or a read or a
\* snapshot was overtaken by a change.
THEOREM InboxAlwaysAgrees == Spec => []InboxAgrees
<1>1. AccountInv => InboxAgrees
  BY FollowingAgrees DEF AccountInv
<1> QED
  BY AccountStart, AccountStep, <1>1, PTL DEF Spec
=============================================================================
