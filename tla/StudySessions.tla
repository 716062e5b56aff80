---------------------------- MODULE StudySessions ----------------------------
(***************************************************************************)
(* The life of a study session on the server: starting, joining, sampling, *)
(* being interrupted, ending, being abandoned or swept, being deleted.     *)
(*                                                                         *)
(* Every request is a process that runs its handler one database call at a *)
(* time; between two calls any other request of any API instance may run.  *)
(* The handlers hold no lock and open no transaction, so what one read may *)
(* be stale when it writes.                                                *)
(***************************************************************************)
EXTENDS SessionRules, FiniteSets

CONSTANTS
    User, Session, Request,     \* people, session ids, requests in flight
    NoSession,                  \* hostSessionId null
    Plans,                      \* the plans a client asks for
    Groups,                     \* whether it starts in a group
    Operations,                 \* which operations clients and timers invoke
    RedisAnswers,               \* how the sweep's lock may find Redis
    LockTTL,                    \* LOCK_TTL_MS of the sweep's lock
    MaxNow, MaxStart, LastUse,  \* bounds: the clock, the last start, last use
    MaxInterruptions,           \* bound: penalised interruptions per session
    MaxCrashes                  \* bound: requests lost to a process crash

ASSUME SessionsAssumption ==
    /\ NoSession \notin Session
    /\ Plans \subseteq Nat /\ Groups \subseteq BOOLEAN
    /\ MaxNow \in Nat /\ MaxStart \in Nat /\ LastUse \in Nat
    /\ MaxInterruptions \in Nat /\ MaxCrashes \in Nat /\ LockTTL \in Nat
    /\ RedisAnswers \subseteq BOOLEAN
    /\ User # {}

VARIABLES
    now,        \* the server's clock
    row,        \* the sessions table
    signs,      \* newest foreground sample, newest interruption, penalties
    credits,    \* how often gamification was run for a session
    req,        \* the requests in flight
    sweepLock,  \* until when lock:session-sweep is held
    crashes,
    serial      \* history: no request has begun while another was in flight

vars == <<now, row, signs, credits, req, sweepLock, crashes, serial>>

Time == 0..MaxNow
MaybeSession == Session \cup {NoSession}

Row == [st: {"absent", "open", "ended", "deleted"}, user: User, start: Time,
        end: Time, points: Nat, plan: Nat, host: MaybeSession,
        group: BOOLEAN, scored: Time]
Signs == [sample: Time, interruption: Time, penalties: 0..MaxInterruptions]
Req == [pc: {"idle", "host", "list", "loop", "write", "score", "scored",
             "credit", "create", "insert"},
        kind: {"start", "join", "end", "abandon", "sweep", "sample", "interrupt"},
        user: User, sid: MaybeSession, todo: SUBSET Session,
        last: [Session -> Time], at: Time, penalties: 0..MaxInterruptions,
        scored: Time, running: BOOLEAN,
        plan: Nat, found: MaybeSession, host: MaybeSession, group: BOOLEAN]

SomeUser == CHOOSE u \in User : TRUE
NeverActive == [s \in Session |-> 0]

Idle == [pc |-> "idle", kind |-> "start", user |-> SomeUser, sid |-> NoSession,
         todo |-> {}, last |-> NeverActive, at |-> 0, penalties |-> 0,
         scored |-> 0, running |-> FALSE, plan |-> NoPlan, found |-> NoSession,
         host |-> NoSession, group |-> FALSE]

Init ==
    /\ now = 0
    /\ row = [s \in Session |->
                [st |-> "absent", user |-> SomeUser, start |-> 0, end |-> 0,
                 points |-> 0, plan |-> NoPlan, host |-> NoSession,
                 group |-> FALSE, scored |-> 0]]
    /\ signs = [s \in Session |->
                  [sample |-> 0, interruption |-> 0, penalties |-> 0]]
    /\ credits = [s \in Session |-> 0]
    /\ req = [r \in Request |-> Idle]
    /\ sweepLock = 0
    /\ crashes = 0
    /\ serial = TRUE

-----------------------------------------------------------------------------
Exists(s) == s \in Session /\ row[s].st \in {"open", "ended"}
IsOpen(s) == s \in Session /\ row[s].st = "open"
LastSign(s) == LastSignOfLife(row[s].start, signs[s].sample, signs[s].interruption)
OpenOf(u) == {s \in Session : IsOpen(s) /\ row[s].user = u}

\* The activity snapshot a list query returns: a session's sign of life now.
Activity(S) == [s \in Session |-> IF s \in S THEN LastSign(s) ELSE 0]

Begin(r, kind, u, change) ==
    /\ kind \in Operations
    /\ req[r].pc = "idle"
    /\ req' = [req EXCEPT ![r] = [change EXCEPT !.kind = kind, !.user = u]]
    /\ serial' = (serial /\ \A q \in Request : req[q].pc = "idle")

Finish(r) == req' = [req EXCEPT ![r] = Idle]

\* Reading a session in full, on the way to closing it at time at.
ReadToClose(r, s, at, todo) ==
    req' = [req EXCEPT ![r].pc = "write", ![r].sid = s, ![r].at = at,
                       ![r].penalties = signs[s].penalties, ![r].todo = todo]

\* settleOpenSessions and the sweep swallow what goes wrong with one session
\* and go on to the next; the other handlers are done, or fail the request.
Closed(r) ==
    IF req[r].kind \in {"start", "join", "sweep"}
      THEN req' = [req EXCEPT ![r].pc = "loop", ![r].sid = NoSession, ![r].at = 0,
                              ![r].penalties = 0, ![r].scored = 0]
      ELSE Finish(r)

-----------------------------------------------------------------------------
\* Bound: a session id is left for every request that may still create one.
IdLeft == Cardinality({r \in Request : req[r].kind \in {"start", "join"}
                                         /\ req[r].pc # "idle"})
            < Cardinality({s \in Session : row[s].st = "absent"})

\* POST /sessions: startSession, up to the list settleOpenSessions reads.
BeginStart(r, u, plan, group) ==
    /\ now <= MaxStart /\ IdLeft
    /\ Begin(r, "start", u,
             [Idle EXCEPT !.pc = "loop", !.plan = plan, !.group = group,
                          !.todo = OpenOf(u), !.last = Activity(OpenOf(u))])
    /\ UNCHANGED <<now, row, signs, credits, sweepLock, crashes>>

\* POST /sessions/join: the session the code finds, refused when it has ended.
BeginJoin(r, u, s) ==
    /\ now <= MaxStart /\ IdLeft
    /\ IsOpen(s) /\ row[s].group
    /\ row[s].user # u
    /\ Begin(r, "join", u,
             [Idle EXCEPT !.pc = IF row[s].host = NoSession THEN "list" ELSE "host",
                          !.found = s, !.group = TRUE,
                          !.host = IF row[s].host = NoSession
                                     THEN s ELSE row[s].host])
    /\ UNCHANGED <<now, row, signs, credits, sweepLock, crashes>>

\* Slip: the room is the one the code was read from.
ResolveHostFound(r) ==
    /\ req[r].pc = "host"
    /\ req' = [req EXCEPT ![r].pc = "list", ![r].host = req[r].found]
    /\ UNCHANGED <<now, row, signs, credits, sweepLock, crashes, serial>>

\* joinSession resolves a participant's code to the room's first session, or
\* lets the found session stand in for a host that has been deleted.
ResolveHost(r) ==
    /\ req[r].pc = "host"
    /\ LET host == IF Exists(req[r].host) THEN req[r].host ELSE req[r].found
       IN  IF row[host].user = req[r].user
             THEN Finish(r)
             ELSE req' = [req EXCEPT ![r].pc = "list", ![r].host = host]
    /\ UNCHANGED <<now, row, signs, credits, sweepLock, crashes, serial>>

\* settleOpenSessions inside joinSession: the list of the joiner's sessions.
ListOpen(r) ==
    /\ req[r].pc = "list"
    /\ req' = [req EXCEPT ![r].pc = "loop",
                          ![r].todo = OpenOf(req[r].user),
                          ![r].last = Activity(OpenOf(req[r].user))]
    /\ UNCHANGED <<now, row, signs, credits, sweepLock, crashes, serial>>

\* The sweep's timer: one instance at a time while Redis answers, any of them
\* while it does not; then findSweepCandidates reads the sessions old enough.
BeginSweep(r, redisAnswers) ==
    LET candidates == {s \in Session : IsOpen(s) /\ row[s].start < now - SweepSilence}
    IN  /\ candidates # {}
        /\ redisAnswers => now >= sweepLock
        /\ sweepLock' = IF redisAnswers THEN AtMost(MaxNow, now + LockTTL) ELSE sweepLock
        /\ Begin(r, "sweep", SomeUser,
                 [Idle EXCEPT !.pc = "loop", !.todo = candidates,
                              !.last = Activity(candidates)])
        /\ UNCHANGED <<now, row, signs, credits, crashes>>

\* Slip: no look at endedAt before closing.
BeginEndAgain(r, s, tapped) ==
    /\ Exists(s)
    /\ Begin(r, "end", row[s].user,
             [Idle EXCEPT !.pc = "write", !.sid = s,
                          !.at = ClampedEnd(row[s].start, tapped, now),
                          !.penalties = signs[s].penalties])
    /\ UNCHANGED <<now, row, signs, credits, sweepLock, crashes>>

\* PATCH /sessions/:id/end: refused with 409 when the row read has ended.
BeginEnd(r, s, tapped) ==
    /\ IsOpen(s)
    /\ Begin(r, "end", row[s].user,
             [Idle EXCEPT !.pc = "write", !.sid = s,
                          !.at = ClampedEnd(row[s].start, tapped, now),
                          !.penalties = signs[s].penalties])
    /\ UNCHANGED <<now, row, signs, credits, sweepLock, crashes>>

\* PATCH /sessions/:id/abandon: the activity is read first; the close point is
\* fixed by this read and not looked at again.
BeginAbandon(r, s) ==
    /\ IsOpen(s)
    /\ Begin(r, "abandon", row[s].user,
             [Idle EXCEPT !.pc = "loop", !.sid = s, !.last = Activity({s})])
    /\ UNCHANGED <<now, row, signs, credits, sweepLock, crashes>>

\* Slip: the abandoned session is closed at now.
RereadAbandonedNow(r) ==
    /\ req[r].pc = "loop" /\ req[r].kind = "abandon"
    /\ LET s == req[r].sid IN
         IF Exists(s) THEN ReadToClose(r, s, now, {}) ELSE Finish(r)
    /\ UNCHANGED <<now, row, signs, credits, sweepLock, crashes, serial>>

\* abandonSession's second read brings the interruptions; it does not look at
\* endedAt again, and a row deleted in between fails the request.
RereadAbandoned(r) ==
    /\ req[r].pc = "loop" /\ req[r].kind = "abandon"
    /\ LET s == req[r].sid IN
         IF Exists(s) THEN ReadToClose(r, s, req[r].last[s], {}) ELSE Finish(r)
    /\ UNCHANGED <<now, row, signs, credits, sweepLock, crashes, serial>>

\* One turn of settleOpenSessions: a session silent too short a time is running
\* and is left alone; a silent one is read again and closed if still open.
SettleNext(r, s) ==
    /\ req[r].pc = "loop" /\ req[r].kind \in {"start", "join"}
    /\ s \in req[r].todo
    /\ LET rest == req[r].todo \ {s} IN
         IF ~ IsAbandoned(req[r].last[s], now)
           THEN req' = [req EXCEPT ![r].running = TRUE, ![r].todo = rest]
           ELSE IF IsOpen(s)
                  THEN ReadToClose(r, s, req[r].last[s], rest)
                  ELSE req' = [req EXCEPT ![r].todo = rest]
    /\ UNCHANGED <<now, row, signs, credits, sweepLock, crashes, serial>>

\* One turn of sweepAbandonedSessions.
SweepNext(r, s) ==
    /\ req[r].pc = "loop" /\ req[r].kind = "sweep"
    /\ s \in req[r].todo
    /\ LET rest == req[r].todo \ {s} IN
         IF /\ SweepDue(row[s].start, row[s].plan, req[r].last[s], now)
            /\ IsOpen(s)
           THEN ReadToClose(r, s, req[r].last[s], rest)
           ELSE req' = [req EXCEPT ![r].todo = rest]
    /\ UNCHANGED <<now, row, signs, credits, sweepLock, crashes, serial>>

SweepDone(r) ==
    /\ req[r].pc = "loop" /\ req[r].kind = "sweep" /\ req[r].todo = {}
    /\ Finish(r)
    /\ UNCHANGED <<now, row, signs, credits, sweepLock, crashes, serial>>

\* Slip: settling without refusing.
SettledAnyway(r) ==
    /\ req[r].pc = "loop" /\ req[r].kind \in {"start", "join"}
    /\ req[r].todo = {}
    /\ req' = [req EXCEPT ![r].pc = "create", ![r].last = NeverActive]
    /\ UNCHANGED <<now, row, signs, credits, sweepLock, crashes, serial>>

\* A session still running refuses the new one with 409; otherwise go and create.
Settled(r) ==
    /\ req[r].pc = "loop" /\ req[r].kind \in {"start", "join"}
    /\ req[r].todo = {}
    /\ IF req[r].running
         THEN Finish(r)
         ELSE req' = [req EXCEPT ![r].pc = "create", ![r].last = NeverActive]
    /\ UNCHANGED <<now, row, signs, credits, sweepLock, crashes, serial>>

\* openSession's insert.  A host deleted meanwhile fails the foreign key.
CreateSession(r, s) ==
    /\ req[r].pc = "create"
    /\ row[s].st = "absent"
    /\ LET q == req[r]
           plan == IF q.kind = "join"
                     THEN RemainingPlan(row[q.host].plan, row[q.host].start, now)
                     ELSE q.plan
       IN  row' = IF q.kind = "join" /\ ~ Exists(q.host)
                    THEN row
                    ELSE [row EXCEPT ![s] =
                            [@ EXCEPT !.st = "open", !.user = q.user,
                                      !.start = now, !.plan = plan,
                                      !.host = q.host, !.group = q.group]]
    /\ Finish(r)
    /\ UNCHANGED <<now, signs, credits, sweepLock, crashes, serial>>

-----------------------------------------------------------------------------
\* Slip: the first end is kept, the points are still replaced.
WriteEndOnce(r) ==
    /\ req[r].pc = "write"
    /\ LET q == req[r] IN
         IF Exists(q.sid)
           THEN /\ row' = [row EXCEPT ![q.sid] =
                     [@ EXCEPT !.st = "ended",
                               !.end = IF IsOpen(q.sid) THEN q.at ELSE @,
                               !.points = FocusPoints(row[q.sid].start, q.at,
                                                      q.penalties)]]
                /\ req' = [req EXCEPT ![r].pc = "score"]
           ELSE /\ Closed(r)
                /\ UNCHANGED row
    /\ UNCHANGED <<now, signs, credits, sweepLock, crashes, serial>>

\* closeSession writes the end and the points in one update by id.  It is not
\* conditional on the row being open, so of two closers the later one wins.
WriteEnd(r) ==
    /\ req[r].pc = "write"
    /\ LET q == req[r] IN
         IF Exists(q.sid)
           THEN /\ row' = [row EXCEPT ![q.sid] =
                     [@ EXCEPT !.st = "ended", !.end = q.at,
                               !.points = FocusPoints(row[q.sid].start, q.at,
                                                      q.penalties)]]
                /\ req' = [req EXCEPT ![r].pc = "score"]
           ELSE /\ Closed(r)
                /\ UNCHANGED row
    /\ UNCHANGED <<now, signs, credits, sweepLock, crashes, serial>>

\* Slip: the score is taken over the time up to now.
ReadForScoreNow(r) ==
    /\ req[r].pc = "score"
    /\ req' = IF Exists(req[r].sid)
                THEN [req EXCEPT ![r].pc = "scored", ![r].scored = now]
                ELSE [req EXCEPT ![r].pc = "credit"]
    /\ UNCHANGED <<now, row, signs, credits, sweepLock, crashes, serial>>

\* finaliseSessionFocus reads the end back from the row, if it is still there ...
ReadForScore(r) ==
    /\ req[r].pc = "score"
    /\ req' = IF Exists(req[r].sid)
                THEN [req EXCEPT ![r].pc = "scored", ![r].scored = row[req[r].sid].end]
                ELSE [req EXCEPT ![r].pc = "credit"]
    /\ UNCHANGED <<now, row, signs, credits, sweepLock, crashes, serial>>

\* ... and writes the score of the time up to it.  A failure is swallowed.
WriteScore(r) ==
    /\ req[r].pc = "scored"
    /\ row' = IF Exists(req[r].sid)
                THEN [row EXCEPT ![req[r].sid].scored = req[r].scored]
                ELSE row
    /\ req' = [req EXCEPT ![r].pc = "credit"]
    /\ UNCHANGED <<now, signs, credits, sweepLock, crashes, serial>>

\* Gamification: endSession credits today, every abandoned close the day the
\* session started.  The streak and the goals it moves are StudyStreak's and
\* StudyGoals'; here it is enough that it runs, and for which session.
Gamify(r) ==
    /\ req[r].pc = "credit"
    /\ credits' = [credits EXCEPT ![req[r].sid] = @ + 1]
    /\ Closed(r)
    /\ UNCHANGED <<now, row, signs, sweepLock, crashes, serial>>

-----------------------------------------------------------------------------
\* DELETE /sessions/:id.  The ownership read and the delete are one step: the
\* owner never changes and the delete by id checks existence itself.  Rows that
\* joined it lose their link (ON DELETE SET NULL).
DeleteSession(s) ==
    /\ "delete" \in Operations
    /\ Exists(s)
    /\ row' = [t \in Session |->
                 IF t = s THEN [row[t] EXCEPT !.st = "deleted"]
                 ELSE IF row[t].host = s THEN [row[t] EXCEPT !.host = NoSession]
                 ELSE row[t]]
    /\ UNCHANGED <<now, signs, credits, req, sweepLock, crashes, serial>>

\* POST /sessions/:id/samples: refused once the row read has ended.  The
\* client's timestamp is clamped between the start and now.
BeginSample(r, s, at) ==
    /\ now <= LastUse
    /\ IsOpen(s)
    /\ at \in row[s].start..now
    /\ Begin(r, "sample", row[s].user,
             [Idle EXCEPT !.pc = "insert", !.sid = s, !.at = at])
    /\ UNCHANGED <<now, row, signs, credits, sweepLock, crashes>>

\* POST /sessions/:id/interruptions: refused once the row read has ended.
BeginInterruption(r, s, penalised) ==
    /\ now <= LastUse
    /\ IsOpen(s)
    /\ Begin(r, "interrupt", row[s].user,
             [Idle EXCEPT !.pc = "insert", !.sid = s, !.running = penalised])
    /\ UNCHANGED <<now, row, signs, credits, sweepLock, crashes>>

\* The insert of either: the row's foreign key is all it checks.  An
\* interruption is stamped by the database.
Insert(r) ==
    /\ req[r].pc = "insert"
    /\ LET q == req[r] IN
         signs' =
           IF ~ Exists(q.sid) THEN signs
           ELSE IF q.kind = "sample"
             THEN [signs EXCEPT ![q.sid].sample = AtLeast(@, q.at)]
             ELSE [signs EXCEPT ![q.sid].interruption = now,
                                ![q.sid].penalties =
                                   IF q.running /\ @ < MaxInterruptions
                                     THEN @ + 1 ELSE @]
    /\ Finish(r)
    /\ UNCHANGED <<now, row, credits, sweepLock, crashes, serial>>

-----------------------------------------------------------------------------
\* The API process dies with a request half done: what it wrote stays.
Crash(r) ==
    /\ crashes < MaxCrashes
    /\ req[r].pc # "idle"
    /\ crashes' = crashes + 1
    /\ Finish(r)
    /\ UNCHANGED <<now, row, signs, credits, sweepLock, serial>>

Tick ==
    /\ now < MaxNow
    /\ now' = now + 1
    /\ UNCHANGED <<row, signs, credits, req, sweepLock, crashes, serial>>

\* A request that has been read goes on to its answer.
Proceed(r) ==
    \/ ResolveHost(r) \/ ListOpen(r) \/ RereadAbandoned(r)
    \/ \E s \in Session : SettleNext(r, s) \/ SweepNext(r, s) \/ CreateSession(r, s)
    \/ SweepDone(r) \/ Settled(r)
    \/ WriteEnd(r) \/ ReadForScore(r) \/ WriteScore(r) \/ Gamify(r)
    \/ Insert(r)

Arrive(r) ==
    \/ \E u \in User, plan \in Plans, group \in Groups : BeginStart(r, u, plan, group)
    \/ \E u \in User, s \in Session : BeginJoin(r, u, s)
    \/ \E s \in Session, tapped \in Time : BeginEnd(r, s, tapped)
    \/ \E s \in Session : BeginAbandon(r, s)
    \/ \E s \in Session, at \in Time : BeginSample(r, s, at)
    \/ \E s \in Session, penalised \in BOOLEAN : BeginInterruption(r, s, penalised)
    \/ \E redisAnswers \in RedisAnswers : BeginSweep(r, redisAnswers)

Next ==
    \/ \E r \in Request : Arrive(r) \/ Proceed(r) \/ Crash(r)
    \/ \E s \in Session : DeleteSession(s)
    \/ Tick

Spec == Init /\ [][Next]_vars

\* A handler that has started goes on (the event loop and the database answer),
\* the clock moves, and the sweep's interval timer keeps firing.
FairSpec ==
    /\ Spec
    /\ WF_vars(Tick)
    /\ \A r \in Request :
         /\ WF_vars(Proceed(r))
         /\ WF_vars(BeginSweep(r, TRUE))

-----------------------------------------------------------------------------
\* Every variable keeps its type: see Row, Signs and Req.
TypeOK ==
    /\ now \in Time
    /\ row \in [Session -> Row]
    /\ signs \in [Session -> Signs]
    /\ credits \in [Session -> Nat]
    /\ req \in [Request -> Req]
    /\ sweepLock \in Time
    /\ crashes \in 0..MaxCrashes
    /\ serial \in BOOLEAN

\* A session ends no earlier than it started and no later than now, whichever
\* handlers raced to close it: the tap is clamped (endSession) and a sign of
\* life is clamped when it is stored (clampToSession).
EndWithinLife ==
    \A s \in Session : row[s].st = "ended" =>
        row[s].start <= row[s].end /\ row[s].end <= now

\* Points and end always come from one and the same close: the points are what
\* the time up to the stored end is worth, less the penalties of interruptions
\* that were really logged (closeSession).
PointsMatchEnd ==
    \A s \in Session : row[s].st = "ended" =>
        \E k \in 0..signs[s].penalties :
            row[s].points = FocusPoints(row[s].start, row[s].end, k)

\* A room has one host: whoever joined points at an existing session that has
\* joined nothing itself and belongs to somebody else (joinSession).
RoomsAreFlat ==
    \A s \in Session : Exists(s) /\ row[s].host # NoSession =>
        LET h == row[s].host IN
            /\ Exists(h) /\ row[h].group
            /\ row[h].host = NoSession
            /\ row[h].user # row[s].user

\* A room with a plan gives every joiner one, and a room without gives none:
\* joining a host past the plan still leaves a minute of it (joinSession).
PlannedRoomsStayPlanned ==
    \A s \in Session : Exists(s) /\ row[s].host # NoSession =>
        (row[s].plan = NoPlan <=> row[row[s].host].plan = NoPlan)

\* RoomsAreFlat and PlannedRoomsStayPlanned: a room is one live host and the
\* people who joined it, on a plan if the host is on one (joinSession).
RoomsHold == RoomsAreFlat /\ PlannedRoomsStayPlanned

\* Time after a crash earns nothing: a close nobody tapped for never puts the
\* end after the session's newest sign of life (settleOpenSessions, the sweep,
\* abandonSession).
SilenceEarnsNothing ==
    [][\A s \in Session : row'[s].st = "ended" /\ row'[s].end # row[s].end =>
         \/ row'[s].end <= LastSign(s)
         \/ \E r \in Request : req[r].kind = "end" /\ req[r].sid = s]_vars

\* A session is closed and credited once (sessionSweep.js:10-15).
CreditedOnce == \A s \in Session : credits[s] <= 1

\* Requests of one person that never overlap leave them one running session:
\* startSession settles or refuses before it creates.
OneRunningSerially == serial => \A u \in User : Cardinality(OpenOf(u)) <= 1

\* Requests that never overlap close and credit a session once, whichever of
\* end, abandon and sweep it is (the endedAt checks before closeSession).
CreditedOnceSerially == serial => CreditedOnce

\* When nobody is at work on an ended session and no process died, its focus
\* score is the score of exactly the time it is stored to have run, and its
\* streak and goals have been credited (closeSession, finaliseSessionFocus).
ScoreMatchesEnd ==
    \A s \in Session :
        /\ serial /\ crashes = 0
        /\ row[s].st = "ended" /\ \A r \in Request : req[r].sid # s
        => row[s].scored = row[s].end /\ credits[s] > 0

\* A sweep that nothing overlaps closes only sessions still silent when it
\* closes them (sweepAbandonedSessions).
SweepSparesTheLiving ==
    [][\A r \in Request :
         /\ serial
         /\ req[r].kind = "sweep" /\ req[r].pc = "write" /\ IsOpen(req[r].sid)
         /\ req'[r].pc = "score"
         => now - LastSign(req[r].sid) >= SweepSilence]_vars

\* A session its client has left is closed in the end, if only by the sweep.
LeftOpenIsClosed ==
    \A s \in Session :
        (IsOpen(s) /\ row[s].start <= MaxStart)
            ~> (~ IsOpen(s) \/ LastSign(s) > LastUse)
=============================================================================
