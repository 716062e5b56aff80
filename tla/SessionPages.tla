----------------------------- MODULE SessionPages -----------------------------
(***************************************************************************)
(* The cached pages that sessions show in - a session, the history, goals  *)
(* and their progress, the streak, analytics - and the writes that bump    *)
(* their version counters: session, focus, goal, streak and studyGroup     *)
(* services of apps/api with the key builders of utils/cache.js.           *)
(*                                                                         *)
(* A key may carry counters of several domains (Stamps).  aged holds the   *)
(* pages a write has changed since a counter of theirs last moved, but for *)
(* the changes the code leaves to a page's expiry: a renamed group's       *)
(* histories, and rows that are detached unseen.                           *)
(***************************************************************************)
EXTENDS Integers, FiniteSets

CONSTANTS
    Learner, Study, Club, Clerk,    \* people, sessions, groups; requests in flight
    NoLearner, NoStudy, NoClub,     \* an id that is null
    MaxTouches                      \* bound: breaks, ratings, goals and renames that stand

ASSUME SessionPagesAssumption ==
    /\ NoLearner \notin Learner /\ NoStudy \notin Study /\ NoClub \notin Club
    /\ MaxTouches \in Nat

VARIABLES
    sitting,    \* sessions, with whether interrupted and whether rated
    club,       \* study_groups: whether it is there, how often renamed
    target,     \* goals: the people who have set one
    studied,    \* streaks: the people whose day is in theirs
    clerk,      \* the requests in flight
    aged        \* pages that may be served as they were before a write

pagesVars == <<sitting, club, target, studied, clerk, aged>>

NewSitting == [st |-> "new", owner |-> NoLearner, club |-> NoClub, host |-> NoStudy,
               scored |-> FALSE, broken |-> FALSE, rated |-> FALSE]
AtEase == [pc |-> "idle", of |-> NoStudy, owes |-> {}, refs |-> {}]

PagesInit ==
    /\ sitting = [s \in Study |-> NewSitting]
    /\ club = [c \in Club |-> [there |-> TRUE, renamed |-> 0]]
    /\ target = {} /\ studied = {}
    /\ clerk = [h \in Clerk |-> AtEase]
    /\ aged = {}

-----------------------------------------------------------------------------
Live(s) == s \in Study /\ sitting[s].st \in {"open", "ended"}
OwnedBy(u) == {s \in Study : Live(s) /\ sitting[s].owner = u}
EndedOf(u) == {s \in OwnedBy(u) : sitting[s].st = "ended"}

SessionPage == {"session"} \X Study
LearnerPage == {"history", "goals", "progress", "streak", "analytics"} \X Learner

\* What the handler behind each cached route would answer now.  History rows
\* carry the group's name and the rating, a single session its interruptions.
Sheet(k) ==
    CASE k[1] = "session"   -> {[sitting[k[2]] EXCEPT !.rated = FALSE]}
      [] k[1] = "history"   -> {<<s, sitting[s], IF sitting[s].club = NoClub THEN 0
                                   ELSE club[sitting[s].club].renamed>> : s \in OwnedBy(k[2])}
      [] k[1] = "goals"     -> {k[2]} \cap target
      [] k[1] = "progress"  -> IF k[2] \in target THEN EndedOf(k[2]) ELSE {}
      [] k[1] = "streak"    -> {k[2]} \cap studied
      [] k[1] = "analytics" -> <<k[2] \in target, k[2] \in studied,
                                 {<<s, sitting[s].scored, sitting[s].club, sitting[s].broken>> :
                                    s \in EndedOf(k[2])}>>

\* Slip: the progress key carries the goal's counter only.
StampsGoalOnly(k) ==
    CASE k[1] = "session"   -> {k}
      [] k[1] = "history"   -> {<<"owner", k[2]>>}
      [] k[1] = "goals"     -> {<<"goal", k[2]>>}
      [] k[1] = "progress"  -> {<<"goal", k[2]>>}
      [] k[1] = "streak"    -> {k}
      [] k[1] = "analytics" -> {<<"owner", k[2]>>, <<"goal", k[2]>>, <<"streak", k[2]>>}

\* The version counters in a page's key.
Stamps(k) ==
    CASE k[1] = "session"   -> {k}
      [] k[1] = "history"   -> {<<"owner", k[2]>>}
      [] k[1] = "goals"     -> {<<"goal", k[2]>>}
      [] k[1] = "progress"  -> {<<"goal", k[2]>>, <<"owner", k[2]>>}
      [] k[1] = "streak"    -> {k}
      [] k[1] = "analytics" -> {<<"owner", k[2]>>, <<"goal", k[2]>>, <<"streak", k[2]>>}

\* The pages somebody may have been served (no 404 is cached) that a step changes.
Turned == {k \in LearnerPage : Sheet(k)' # Sheet(k)}
          \cup {k \in SessionPage : Live(k[2]) /\ Sheet(k)' # Sheet(k)}

Serves(h, pc, s, owes) ==
    clerk' = [clerk EXCEPT ![h] = [pc |-> pc, of |-> s, owes |-> owes, refs |-> {}]]

\* A write by h, which goes on to pc and owes these counters; it leaves some
\* pages to expire.
WritesBut(h, pc, s, owes, left) ==
    /\ Serves(h, pc, s, owes)
    /\ aged' = aged \cup (Turned \ left)

Writes(h, pc, s, owes) == WritesBut(h, pc, s, owes, {})

\* invalidateSession's two scopes, for one session or for those read as detached.
SessionCounters(refs) ==
    ({"session"} \X refs) \cup {<<"owner", sitting[s].owner>> : s \in refs}

Waits(h) == clerk[h].pc = "idle"
Leaves(h) == clerk' = [clerk EXCEPT ![h] = AtEase]
Touch ==
    Cardinality({s \in Study : sitting[s].broken}) + Cardinality(target)
      + Cardinality({s \in Study : sitting[s].rated})
      + Cardinality({c \in Club : club[c].renamed > 0}) < MaxTouches

-----------------------------------------------------------------------------
\* openSession's insert, for startSession: nobody can have read a session that
\* did not exist, so only the owner's counter is moved.  Two requests may both
\* find nothing running (settleOpenSessions), so one person may have two.
StartStudy(h, u, s, c) ==
    /\ Waits(h) /\ sitting[s].st = "new"
    /\ c # NoClub => club[c].there
    /\ sitting' = [sitting EXCEPT ![s] = [@ EXCEPT !.st = "open", !.owner = u, !.club = c]]
    /\ UNCHANGED <<club, target, studied>>
    /\ Writes(h, "bump", NoStudy, {<<"owner", u>>})

\* openSession's insert, for joinSession: into the room of the host's session.
JoinStudy(h, u, s, found) ==
    /\ Waits(h) /\ sitting[s].st = "new"
    /\ sitting[found].st = "open" /\ sitting[found].club # NoClub
    /\ LET host == IF Live(sitting[found].host) THEN sitting[found].host ELSE found IN
         /\ u \notin {sitting[found].owner, sitting[host].owner}
         /\ sitting' = [sitting EXCEPT ![s] =
             [@ EXCEPT !.st = "open", !.owner = u, !.club = sitting[found].club, !.host = host]]
    /\ UNCHANGED <<club, target, studied>>
    /\ Writes(h, "bump", NoStudy, {<<"owner", u>>})

\* endSession, abandonSession, settleOpenSessions and the sweep find it open ...
BeginClose(h, s) ==
    /\ Waits(h) /\ sitting[s].st = "open"
    /\ Serves(h, "close", s, {})
    /\ UNCHANGED <<sitting, club, target, studied, aged>>

\* ... and closeSession writes, scores, and only then moves both counters.
WriteClose(h) ==
    /\ clerk[h].pc = "close"
    /\ UNCHANGED <<club, target, studied>>
    /\ LET s == clerk[h].of IN
         IF Live(s)
           THEN /\ sitting' = [sitting EXCEPT ![s].st = "ended"]
                /\ Writes(h, "score", s, SessionCounters({s}))
           ELSE Leaves(h) /\ UNCHANGED <<sitting, aged>>

\* finaliseSessionFocus; where it fails, nothing is written and the rest goes on,
\* as where the session is gone.
ScoreStudy(h) ==
    /\ clerk[h].pc = "score"
    /\ LET s == clerk[h].of IN
         /\ sitting' = [sitting EXCEPT ![s].scored = @ \/ Live(s)]
         /\ UNCHANGED <<club, target, studied>>
         /\ Writes(h, "closed", s, clerk[h].owes)

\* recordStudyDay: a day already counted is not written.
CreditDay(h) ==
    /\ clerk[h].pc = "credit"
    /\ UNCHANGED <<sitting, club, target>>
    /\ LET u == sitting[clerk[h].of].owner IN
         IF u \in studied
           THEN Leaves(h) /\ UNCHANGED <<studied, aged>>
           ELSE /\ studied' = studied \cup {u}
                /\ Writes(h, "bump", NoStudy, {<<"streak", u>>})

\* logInterruption finds the session open; its insert asks only that it exists.
BeginBreak(h, s) ==
    /\ Waits(h) /\ sitting[s].st = "open"
    /\ Serves(h, "break", s, {})
    /\ UNCHANGED <<sitting, club, target, studied, aged>>

AddInterruption(h) ==
    /\ clerk[h].pc = "break"
    /\ UNCHANGED <<club, target, studied>>
    /\ LET s == clerk[h].of IN
         IF Live(s) /\ Touch
           THEN /\ sitting' = [sitting EXCEPT ![s].broken = TRUE]
                /\ Writes(h, "bump", NoStudy, SessionCounters({s}))
           ELSE Leaves(h) /\ UNCHANGED <<sitting, aged>>

\* rateSession: the rating shows in the history alone.
RateStudy(h, s) ==
    /\ Waits(h) /\ Live(s) /\ Touch
    /\ sitting' = [sitting EXCEPT ![s].rated = TRUE]
    /\ UNCHANGED <<club, target, studied>>
    /\ Writes(h, "bump", NoStudy, {<<"owner", sitting[s].owner>>})

\* setGoal and clearGoal.
WriteGoal(h, u) ==
    /\ Waits(h)
    /\ \/ u \notin target /\ Touch /\ target' = target \cup {u}
       \/ u \in target /\ target' = target \ {u}
    /\ UNCHANGED <<sitting, club, studied>>
    /\ Writes(h, "bump", NoStudy, {<<"goal", u>>})

-----------------------------------------------------------------------------
\* A row that came to point at what is deleted after the handler had listed
\* those that do is detached unseen: its pages wait for their expiry.
Unseen(late) ==
    ({"session"} \X late) \cup ({"history", "analytics"} \X {sitting[s].owner : s \in late})

\* deleteSession lists who joined, deletes - their link is nulled - and moves
\* the counters of all of them.
BeginDeleteStudy(h, s) ==
    /\ Waits(h) /\ Live(s)
    /\ clerk' = [clerk EXCEPT ![h] =
         [pc |-> "delete", of |-> s, owes |-> {}, refs |-> {x \in Study : Live(x) /\ sitting[x].host = s}]]
    /\ UNCHANGED <<sitting, club, target, studied, aged>>

DeleteStudy(h) ==
    /\ clerk[h].pc = "delete"
    /\ UNCHANGED <<club, target, studied>>
    /\ LET s == clerk[h].of
           late == {x \in Study : Live(x) /\ sitting[x].host = s} \ clerk[h].refs
       IN  IF ~ Live(s) THEN Leaves(h) /\ UNCHANGED <<sitting, aged>>
           ELSE /\ sitting' = [x \in Study |->
                     IF x = s THEN [NewSitting EXCEPT !.st = "gone", !.owner = sitting[s].owner]
                     ELSE IF sitting[x].host = s THEN [sitting[x] EXCEPT !.host = NoStudy]
                     ELSE sitting[x]]
                /\ WritesBut(h, "bump", NoStudy, SessionCounters({s} \cup clerk[h].refs), Unseen(late))

\* deleteGroup does the same of the sessions studied in the group.
BeginDisband(h, c) ==
    /\ Waits(h) /\ club[c].there
    /\ clerk' = [clerk EXCEPT ![h] =
         [pc |-> "disband", of |-> c, owes |-> {}, refs |-> {x \in Study : Live(x) /\ sitting[x].club = c}]]
    /\ UNCHANGED <<sitting, club, target, studied, aged>>

Disband(h) ==
    /\ clerk[h].pc = "disband"
    /\ UNCHANGED <<target, studied>>
    /\ LET c == clerk[h].of
           late == {x \in Study : Live(x) /\ sitting[x].club = c} \ clerk[h].refs
       IN  IF ~ club[c].there THEN Leaves(h) /\ UNCHANGED <<sitting, club, aged>>
           ELSE /\ club' = [club EXCEPT ![c].there = FALSE]
                /\ sitting' = [x \in Study |->
                     IF sitting[x].club = c THEN [sitting[x] EXCEPT !.club = NoClub] ELSE sitting[x]]
                /\ WritesBut(h, "bump", NoStudy, SessionCounters(clerk[h].refs), Unseen(late))

\* updateGroup's write of a name: histories show the old one until they expire.
RenameClub(c) ==
    /\ club[c].there /\ club[c].renamed = 0 /\ Touch
    /\ club' = [club EXCEPT ![c].renamed = 1]
    /\ UNCHANGED <<sitting, target, studied, clerk, aged>>

-----------------------------------------------------------------------------
\* bumpVersions: a page is asked for anew once any counter of its key moved.
BumpCounters(h) ==
    /\ clerk[h].pc \in {"bump", "closed"}
    /\ aged' = {k \in aged : Stamps(k) \cap clerk[h].owes = {}}
    /\ IF clerk[h].pc = "closed" THEN Serves(h, "credit", clerk[h].of, {}) ELSE Leaves(h)
    /\ UNCHANGED <<sitting, club, target, studied>>

PagesNext ==
    \/ \E h \in Clerk :
        \/ \E u \in Learner, s \in Study :
             \/ \E c \in Club \cup {NoClub} : StartStudy(h, u, s, c)
             \/ \E found \in Study : JoinStudy(h, u, s, found)
        \/ \E s \in Study : BeginClose(h, s) \/ BeginBreak(h, s) \/ RateStudy(h, s)
                            \/ BeginDeleteStudy(h, s)
        \/ \E u \in Learner : WriteGoal(h, u)
        \/ \E c \in Club : BeginDisband(h, c)
        \/ WriteClose(h) \/ ScoreStudy(h) \/ CreditDay(h) \/ AddInterruption(h) \/ DeleteStudy(h)
        \/ Disband(h) \/ BumpCounters(h)
    \/ \E c \in Club : RenameClub(c)

PagesSpec == PagesInit /\ [][PagesNext]_pagesVars

-----------------------------------------------------------------------------
\* Every variable keeps its type.
PagesTypeOK ==
    /\ sitting \in [Study -> [st : {"new", "open", "ended", "gone"}, owner : Learner \cup {NoLearner},
                              club : Club \cup {NoClub}, host : Study \cup {NoStudy},
                              scored : BOOLEAN, broken : BOOLEAN, rated : BOOLEAN]]
    /\ club \in [Club -> [there : BOOLEAN, renamed : 0..1]]
    /\ target \subseteq Learner /\ studied \subseteq Learner
    /\ aged \subseteq SessionPage \cup LearnerPage

\* A page that no longer shows what is in the tables has a handler about to move
\* a counter of its key, whichever domain wrote and however handlers overlap:
\* progress and analytics read three domains (goalProgressKey, cacheMine), and
\* deletions rewrite rows of others (invalidateDetachedSessions).
SessionPagesAreBumped ==
    \A k \in aged : \E h \in Clerk : Stamps(k) \cap clerk[h].owes # {}
=============================================================================
