------------------------- MODULE StudySessions_proofs -------------------------
(***************************************************************************)
(* Proofs about StudySessions, for any number of people, sessions and      *)
(* requests in flight, and any thresholds.                                 *)
(***************************************************************************)
EXTENDS StudySessions, FiniteSetTheorems, TLAPS

\* A close is never worth less than nothing.
LEMMA FocusPointsNat ==
    ASSUME NEW s \in Nat, NEW e \in Nat, NEW k \in Nat
    PROVE  FocusPoints(s, e, k) \in Nat
<1>1. MinutesStudied(s, e) \in Nat
  BY DEF MinutesStudied, AtLeast
<1>2. MinutesStudied(s, e) * PointsPerMinute - k * PenaltyPoints \in Int
  <2>1. MinutesStudied(s, e) * PointsPerMinute \in Nat
    BY <1>1, RulesAssumption
  <2>2. k * PenaltyPoints \in Nat
    BY RulesAssumption
  <2> QED
    BY <2>1, <2>2
<1> QED
  BY <1>2 DEF FocusPoints, AtLeast

\* A joiner's plan is a number of minutes.
LEMMA RemainingPlanNat ==
    ASSUME NEW p \in Nat, NEW s \in Nat, NEW t \in Nat
    PROVE  RemainingPlan(p, s, t) \in Nat
BY DEF RemainingPlan, NoPlan, AtLeast

\* An end is clamped between the start and now.
LEMMA ClampedEndInside ==
    ASSUME NEW s \in Nat, NEW e \in Nat, NEW t \in Nat, s <= t
    PROVE  /\ ClampedEnd(s, e, t) \in Nat
           /\ s <= ClampedEnd(s, e, t) /\ ClampedEnd(s, e, t) <= t
BY DEF ClampedEnd, AtLeast, AtMost

LEMMA IdleTyped == Idle \in Req
<1>1. SomeUser \in User
  BY SessionsAssumption DEF SomeUser
<1> QED
  BY <1>1, SessionsAssumption DEF Idle, Req, MaybeSession, NeverActive, Time, NoPlan

\* A session's sign of life is a time.
LEMMA LastSignTyped ==
    ASSUME TypeOK, NEW s \in Session
    PROVE  LastSign(s) \in Time
BY DEF TypeOK, LastSign, LastSignOfLife, AtLeast, Row, Signs, Time

LEMMA ActivityTyped ==
    ASSUME TypeOK, NEW S \in SUBSET Session
    PROVE  Activity(S) \in [Session -> Time]
BY LastSignTyped, SessionsAssumption DEF Activity, Time

\* Beginning a request with a typed record, and finishing one, keep the type.
LEMMA BeginTyped ==
    ASSUME TypeOK, NEW r \in Request, NEW u \in User, NEW change \in Req,
           NEW kind \in {"start", "join", "end", "abandon", "sweep", "sample", "interrupt"},
           Begin(r, kind, u, change)
    PROVE  req' \in [Request -> Req] /\ serial' \in BOOLEAN
<1>1. [change EXCEPT !.kind = kind, !.user = u] \in Req
  BY DEF Req
<1> QED
  BY <1>1 DEF TypeOK, Begin

LEMMA FinishTyped ==
    ASSUME TypeOK, NEW r \in Request, Finish(r)
    PROVE  req' \in [Request -> Req]
BY IdleTyped DEF TypeOK, Finish

LEMMA ClosedTyped ==
    ASSUME TypeOK, NEW r \in Request, Closed(r)
    PROVE  req' \in [Request -> Req]
<1>1. CASE req[r].kind \in {"start", "join", "sweep"}
  <2> DEFINE next == [req[r] EXCEPT !.pc = "loop", !.sid = NoSession, !.at = 0,
                                    !.penalties = 0, !.scored = 0]
  <2>1. req[r] \in Req
    BY DEF TypeOK
  <2>a. 0 \in Time /\ 0 \in 0..MaxInterruptions /\ NoSession \in MaybeSession
    BY SessionsAssumption DEF Time, MaybeSession
  <2>2. next \in Req
    BY <2>1, <2>a DEF Req
  <2>3. req' = [req EXCEPT ![r] = next]
    BY <1>1, <2>1 DEF Closed, TypeOK, Req
  <2> QED
    BY <2>2, <2>3 DEF TypeOK
<1>2. CASE req[r].kind \notin {"start", "join", "sweep"}
  BY <1>2, FinishTyped DEF Closed
<1> QED
  BY <1>1, <1>2

LEMMA ReadToCloseTyped ==
    ASSUME TypeOK, NEW r \in Request, NEW s \in Session, NEW at \in Time,
           NEW todo \in SUBSET Session, ReadToClose(r, s, at, todo)
    PROVE  req' \in [Request -> Req]
<1> DEFINE next == [req[r] EXCEPT !.pc = "write", !.sid = s, !.at = at,
                                  !.penalties = signs[s].penalties, !.todo = todo]
<1>1. req[r] \in Req /\ signs[s] \in Signs
  BY DEF TypeOK
<1>2. next \in Req
  BY <1>1 DEF Req, Signs, MaybeSession
<1>3. req' = [req EXCEPT ![r] = next]
  BY <1>1 DEF ReadToClose, TypeOK, Req
<1> QED
  BY <1>2, <1>3 DEF TypeOK

-----------------------------------------------------------------------------
LEMMA ArriveTyped ==
    ASSUME TypeOK, NEW r \in Request, Arrive(r)
    PROVE  TypeOK'
<1> USE SessionsAssumption
<1>0. Idle \in Req /\ now \in Time /\ now \in Nat
  BY IdleTyped DEF TypeOK, Time
<1>1. ASSUME NEW u \in User, NEW plan \in Plans, NEW group \in Groups,
             BeginStart(r, u, plan, group)
      PROVE  TypeOK'
  <2> DEFINE change == [Idle EXCEPT !.pc = "loop", !.plan = plan, !.group = group,
                          !.todo = OpenOf(u), !.last = Activity(OpenOf(u))]
  <2>1. OpenOf(u) \in SUBSET Session /\ plan \in Nat /\ group \in BOOLEAN
    BY DEF OpenOf
  <2>2. Activity(OpenOf(u)) \in [Session -> Time]
    BY <2>1, ActivityTyped
  <2>3. change \in Req
    BY <1>0, <2>1, <2>2 DEF Req
  <2>4. Begin(r, "start", u, change) /\ UNCHANGED <<now, row, signs, credits, sweepLock, crashes>>
    BY <1>1 DEF BeginStart
  <2> HIDE DEF change
  <2>5. req' \in [Request -> Req] /\ serial' \in BOOLEAN
    BY <2>3, <2>4, BeginTyped
  <2> QED
    BY <2>4, <2>5 DEF TypeOK
<1>2. ASSUME NEW u \in User, NEW s \in Session, BeginJoin(r, u, s)
      PROVE  TypeOK'
  <2> DEFINE change == [Idle EXCEPT !.pc = IF row[s].host = NoSession THEN "list" ELSE "host",
                          !.found = s, !.group = TRUE,
                          !.host = IF row[s].host = NoSession
                                     THEN s ELSE row[s].host]
  <2>u. u \in User
    OBVIOUS
  <2>1. row[s].host \in MaybeSession
    BY DEF TypeOK, Row
  <2>3. change \in Req
    BY <1>0, <2>1 DEF Req, MaybeSession
  <2>4. Begin(r, "join", u, change) /\ UNCHANGED <<now, row, signs, credits, sweepLock, crashes>>
    BY <1>2 DEF BeginJoin
  <2> HIDE DEF change
  <2>5. req' \in [Request -> Req] /\ serial' \in BOOLEAN
    BY <2>3, <2>4, <2>u, BeginTyped
  <2> QED
    BY <2>4, <2>5 DEF TypeOK
<1>3. ASSUME NEW s \in Session, NEW tapped \in Time, BeginEnd(r, s, tapped)
      PROVE  TypeOK'
  <2> DEFINE change == [Idle EXCEPT !.pc = "write", !.sid = s,
                          !.at = ClampedEnd(row[s].start, tapped, now),
                          !.penalties = signs[s].penalties]
  <2>u. row[s].user \in User
    BY DEF TypeOK, Row
  <2>1. row[s].start \in Time /\ signs[s].penalties \in 0..MaxInterruptions
    BY DEF TypeOK, Row, Signs
  <2>2. ClampedEnd(row[s].start, tapped, now) \in Time
    BY <1>0, <2>1 DEF ClampedEnd, AtLeast, AtMost, Time
  <2>3. change \in Req
    BY <1>0, <2>1, <2>2 DEF Req, MaybeSession
  <2>4. Begin(r, "end", row[s].user, change) /\ UNCHANGED <<now, row, signs, credits, sweepLock, crashes>>
    BY <1>3 DEF BeginEnd
  <2> HIDE DEF change
  <2>5. req' \in [Request -> Req] /\ serial' \in BOOLEAN
    BY <2>3, <2>4, <2>u, BeginTyped
  <2> QED
    BY <2>4, <2>5 DEF TypeOK
<1>4. ASSUME NEW s \in Session, BeginAbandon(r, s)
      PROVE  TypeOK'
  <2> DEFINE change == [Idle EXCEPT !.pc = "loop", !.sid = s, !.last = Activity({s})]
  <2>u. row[s].user \in User
    BY DEF TypeOK, Row
  <2>1. Activity({s}) \in [Session -> Time]
    BY ActivityTyped
  <2>3. change \in Req
    BY <1>0, <2>1 DEF Req, MaybeSession
  <2>4. Begin(r, "abandon", row[s].user, change) /\ UNCHANGED <<now, row, signs, credits, sweepLock, crashes>>
    BY <1>4 DEF BeginAbandon
  <2> HIDE DEF change
  <2>5. req' \in [Request -> Req] /\ serial' \in BOOLEAN
    BY <2>3, <2>4, <2>u, BeginTyped
  <2> QED
    BY <2>4, <2>5 DEF TypeOK
<1>5. ASSUME NEW s \in Session, NEW at \in Time, BeginSample(r, s, at)
      PROVE  TypeOK'
  <2> DEFINE change == [Idle EXCEPT !.pc = "insert", !.sid = s, !.at = at]
  <2>u. row[s].user \in User
    BY DEF TypeOK, Row
  <2>3. change \in Req
    BY <1>0 DEF Req, MaybeSession
  <2>4. Begin(r, "sample", row[s].user, change) /\ UNCHANGED <<now, row, signs, credits, sweepLock, crashes>>
    BY <1>5 DEF BeginSample
  <2> HIDE DEF change
  <2>5. req' \in [Request -> Req] /\ serial' \in BOOLEAN
    BY <2>3, <2>4, <2>u, BeginTyped
  <2> QED
    BY <2>4, <2>5 DEF TypeOK
<1>6. ASSUME NEW s \in Session, NEW penalised \in BOOLEAN, BeginInterruption(r, s, penalised)
      PROVE  TypeOK'
  <2> DEFINE change == [Idle EXCEPT !.pc = "insert", !.sid = s, !.running = penalised]
  <2>u. row[s].user \in User
    BY DEF TypeOK, Row
  <2>3. change \in Req
    BY <1>0 DEF Req, MaybeSession
  <2>4. Begin(r, "interrupt", row[s].user, change) /\ UNCHANGED <<now, row, signs, credits, sweepLock, crashes>>
    BY <1>6 DEF BeginInterruption
  <2> HIDE DEF change
  <2>5. req' \in [Request -> Req] /\ serial' \in BOOLEAN
    BY <2>3, <2>4, <2>u, BeginTyped
  <2> QED
    BY <2>4, <2>5 DEF TypeOK
<1>7. ASSUME NEW redisAnswers \in RedisAnswers, BeginSweep(r, redisAnswers)
      PROVE  TypeOK'
  <2> DEFINE candidates == {s \in Session : IsOpen(s) /\ row[s].start < now - SweepSilence}
             change == [Idle EXCEPT !.pc = "loop", !.todo = candidates,
                                    !.last = Activity(candidates)]
  <2>1. candidates \in SUBSET Session /\ SomeUser \in User
    BY DEF SomeUser
  <2>2. Activity(candidates) \in [Session -> Time]
    BY <2>1, ActivityTyped
  <2>3. change \in Req
    BY <1>0, <2>1, <2>2 DEF Req
  <2>4. /\ Begin(r, "sweep", SomeUser, change)
        /\ sweepLock' = IF redisAnswers THEN AtMost(MaxNow, now + LockTTL) ELSE sweepLock
        /\ UNCHANGED <<now, row, signs, credits, crashes>>
    BY <1>7 DEF BeginSweep
  <2> HIDE DEF change
  <2>5. req' \in [Request -> Req] /\ serial' \in BOOLEAN
    BY <2>1, <2>3, <2>4, BeginTyped
  <2>6. sweepLock' \in Time
    BY <1>0, <2>4 DEF TypeOK, Time, AtMost
  <2> QED
    BY <2>4, <2>5, <2>6 DEF TypeOK
<1> QED
  BY <1>1, <1>2, <1>3, <1>4, <1>5, <1>6, <1>7 DEF Arrive

LEMMA ProceedTyped ==
    ASSUME TypeOK, NEW r \in Request, Proceed(r)
    PROVE  TypeOK'
<1> USE SessionsAssumption
<1>0. /\ now \in Time /\ req[r] \in Req
      /\ req[r].last \in [Session -> Time] /\ req[r].todo \in SUBSET Session
  BY DEF TypeOK, Req
<1>1. CASE ResolveHost(r)
  <2> DEFINE host == IF Exists(req[r].host) THEN req[r].host ELSE req[r].found
  <2>1. host \in MaybeSession
    BY <1>0 DEF Req
  <2>2. \/ Finish(r)
        \/ req' = [req EXCEPT ![r] = [req[r] EXCEPT !.pc = "list", !.host = host]]
    BY <1>0, <1>1 DEF ResolveHost, TypeOK, Req
  <2>3. [req[r] EXCEPT !.pc = "list", !.host = host] \in Req
    BY <1>0, <2>1 DEF Req
  <2>4. req' \in [Request -> Req]
    BY <2>2, <2>3, FinishTyped DEF TypeOK
  <2> QED
    BY <1>1, <2>4 DEF TypeOK, ResolveHost
<1>2. CASE ListOpen(r)
  <2> DEFINE next == [req[r] EXCEPT !.pc = "loop", !.todo = OpenOf(req[r].user),
                                    !.last = Activity(OpenOf(req[r].user))]
  <2>1. OpenOf(req[r].user) \in SUBSET Session
    BY DEF OpenOf
  <2>2. Activity(OpenOf(req[r].user)) \in [Session -> Time]
    BY <2>1, ActivityTyped
  <2>3. next \in Req
    BY <1>0, <2>1, <2>2 DEF Req
  <2>4. req' = [req EXCEPT ![r] = next]
    BY <1>0, <1>2 DEF ListOpen, TypeOK, Req
  <2> QED
    BY <1>2, <2>3, <2>4 DEF TypeOK, ListOpen
<1>3. CASE RereadAbandoned(r)
  <2>1. CASE Exists(req[r].sid)
    <3>1. req[r].sid \in Session
      BY <2>1 DEF Exists
    <3>2. req[r].last[req[r].sid] \in Time
      BY <1>0, <3>1
    <3>3. ReadToClose(r, req[r].sid, req[r].last[req[r].sid], {})
      BY <1>3, <2>1 DEF RereadAbandoned
    <3>4. req' \in [Request -> Req]
      BY <3>1, <3>2, <3>3, ReadToCloseTyped
    <3> QED
      BY <1>3, <3>4 DEF TypeOK, RereadAbandoned
  <2>2. CASE ~ Exists(req[r].sid)
    BY <1>3, <2>2, FinishTyped DEF TypeOK, RereadAbandoned
  <2> QED
    BY <2>1, <2>2
<1>4. ASSUME NEW s \in Session, SettleNext(r, s)
      PROVE  TypeOK'
  <2> DEFINE rest == req[r].todo \ {s}
  <2>1. rest \in SUBSET Session /\ req[r].last[s] \in Time
    BY <1>0
  <2>2. \/ req' = [req EXCEPT ![r] = [req[r] EXCEPT !.running = TRUE, !.todo = rest]]
        \/ ReadToClose(r, s, req[r].last[s], rest)
        \/ req' = [req EXCEPT ![r] = [req[r] EXCEPT !.todo = rest]]
    BY <1>0, <1>4 DEF SettleNext, TypeOK, Req
  <2>3. /\ [req[r] EXCEPT !.running = TRUE, !.todo = rest] \in Req
        /\ [req[r] EXCEPT !.todo = rest] \in Req
    BY <1>0, <2>1 DEF Req
  <2>4. req' \in [Request -> Req]
    BY <2>1, <2>2, <2>3, ReadToCloseTyped DEF TypeOK
  <2> QED
    BY <1>4, <2>4 DEF TypeOK, SettleNext
<1>5. ASSUME NEW s \in Session, SweepNext(r, s)
      PROVE  TypeOK'
  <2> DEFINE rest == req[r].todo \ {s}
  <2>1. rest \in SUBSET Session /\ req[r].last[s] \in Time
    BY <1>0
  <2>2. \/ ReadToClose(r, s, req[r].last[s], rest)
        \/ req' = [req EXCEPT ![r] = [req[r] EXCEPT !.todo = rest]]
    BY <1>0, <1>5 DEF SweepNext, TypeOK, Req
  <2>3. [req[r] EXCEPT !.todo = rest] \in Req
    BY <1>0, <2>1 DEF Req
  <2>4. req' \in [Request -> Req]
    BY <2>1, <2>2, <2>3, ReadToCloseTyped DEF TypeOK
  <2> QED
    BY <1>5, <2>4 DEF TypeOK, SweepNext
<1>6. CASE SweepDone(r)
  BY <1>6, FinishTyped DEF TypeOK, SweepDone
<1>7. CASE Settled(r)
  <2> DEFINE next == [req[r] EXCEPT !.pc = "create", !.last = NeverActive]
  <2>1. NeverActive \in [Session -> Time]
    BY DEF NeverActive, Time
  <2>2. next \in Req
    BY <1>0, <2>1 DEF Req
  <2>3. Finish(r) \/ req' = [req EXCEPT ![r] = next]
    BY <1>0, <1>7 DEF Settled, TypeOK, Req
  <2>4. req' \in [Request -> Req]
    BY <2>2, <2>3, FinishTyped DEF TypeOK
  <2> QED
    BY <1>7, <2>4 DEF TypeOK, Settled
<1>8. ASSUME NEW s \in Session, CreateSession(r, s)
      PROVE  TypeOK'
  <2> DEFINE q == req[r]
             plan == IF q.kind = "join"
                       THEN RemainingPlan(row[q.host].plan, row[q.host].start, now)
                       ELSE q.plan
             new == [row[s] EXCEPT !.st = "open", !.user = q.user, !.start = now,
                                   !.plan = plan, !.host = q.host, !.group = q.group]
  <2>1. \/ UNCHANGED row
        \/ (q.kind = "join" => Exists(q.host)) /\ row' = [row EXCEPT ![s] = new]
    BY <1>8 DEF CreateSession
  <2>2. ASSUME q.kind = "join" => Exists(q.host)
        PROVE  new \in Row
    <3>1. row[s] \in Row
      BY DEF TypeOK
    <3>2. plan \in Nat
      <4>1. CASE q.kind = "join"
        <5>1. q.host \in Session
          BY <2>2, <4>1 DEF Exists
        <5>2. row[q.host].plan \in Nat /\ row[q.host].start \in Nat /\ now \in Nat
          BY <5>1 DEF TypeOK, Row, Time
        <5> QED
          BY <4>1, <5>2, RemainingPlanNat
      <4>2. CASE q.kind # "join"
        BY <1>0, <4>2 DEF Req
      <4> QED
        BY <4>1, <4>2
    <3> HIDE DEF plan
    <3> QED
      BY <1>0, <3>1, <3>2 DEF Row, Req
  <2> HIDE DEF new
  <2>3. row' \in [Session -> Row]
    BY <2>1, <2>2 DEF TypeOK
  <2> QED
    BY <1>8, <2>3, FinishTyped DEF TypeOK, CreateSession
<1>9. CASE WriteEnd(r)
  <2> DEFINE q == req[r]
  <2>1. CASE Exists(q.sid)
    <3> DEFINE points == FocusPoints(row[q.sid].start, q.at, q.penalties)
               new == [row[q.sid] EXCEPT !.st = "ended", !.end = q.at, !.points = points]
    <3>1. q.sid \in Session /\ q.at \in Time
      BY <1>0, <2>1 DEF Exists, Req
    <3>2. row[q.sid] \in Row
      BY <3>1 DEF TypeOK
    <3>3. points \in Nat
      <4>1. row[q.sid].start \in Nat /\ q.at \in Nat /\ q.penalties \in Nat
        BY <1>0, <3>1, <3>2 DEF Row, Req, Time
      <4> QED
        BY <4>1, FocusPointsNat
    <3>4. new \in Row
      <4> HIDE DEF points
      <4> QED
        BY <3>1, <3>2, <3>3 DEF Row
    <3>5. /\ row' = [row EXCEPT ![q.sid] = new]
          /\ req' = [req EXCEPT ![r] = [req[r] EXCEPT !.pc = "score"]]
      BY <1>0, <1>9, <2>1 DEF WriteEnd, TypeOK, Req
    <3>6. [req[r] EXCEPT !.pc = "score"] \in Req
      BY <1>0 DEF Req
    <3> HIDE DEF new
    <3>7. row' \in [Session -> Row] /\ req' \in [Request -> Req]
      BY <3>4, <3>5, <3>6 DEF TypeOK
    <3> QED
      BY <1>9, <3>7 DEF TypeOK, WriteEnd
  <2>2. CASE ~ Exists(q.sid)
    BY <1>9, <2>2, ClosedTyped DEF TypeOK, WriteEnd
  <2> QED
    BY <2>1, <2>2
<1>10. CASE ReadForScore(r)
  <2> DEFINE scored == [req[r] EXCEPT !.pc = "scored", !.scored = row[req[r].sid].end]
             gone == [req[r] EXCEPT !.pc = "credit"]
  <2>1. \/ Exists(req[r].sid) /\ req' = [req EXCEPT ![r] = scored]
        \/ req' = [req EXCEPT ![r] = gone]
    BY <1>0, <1>10 DEF ReadForScore, TypeOK, Req
  <2>2. ASSUME Exists(req[r].sid) PROVE scored \in Req
    <3>1. row[req[r].sid].end \in Time
      BY <2>2 DEF Exists, TypeOK, Row
    <3> QED
      BY <1>0, <3>1 DEF Req
  <2>3. gone \in Req
    BY <1>0 DEF Req
  <2>4. req' \in [Request -> Req]
    BY <2>1, <2>2, <2>3 DEF TypeOK
  <2> QED
    BY <1>10, <2>4 DEF TypeOK, ReadForScore
<1>11. CASE WriteScore(r)
  <2> DEFINE next == [req[r] EXCEPT !.pc = "credit"]
  <2>1. next \in Req /\ req[r].scored \in Time
    BY <1>0 DEF Req
  <2>2. req' = [req EXCEPT ![r] = next]
    BY <1>0, <1>11 DEF WriteScore, TypeOK, Req
  <2>3. row' \in [Session -> Row]
    BY <1>11, <2>1 DEF WriteScore, TypeOK, Row, Exists
  <2> QED
    BY <1>11, <2>1, <2>2, <2>3 DEF TypeOK, WriteScore
<1>12. CASE Gamify(r)
  <2>1. credits' = [credits EXCEPT ![req[r].sid] = @ + 1]
    BY <1>12 DEF Gamify
  <2>2. credits' \in [Session -> Nat]
    <3>1. CASE req[r].sid \in Session
      BY <2>1, <3>1 DEF TypeOK
    <3>2. CASE req[r].sid \notin Session
      BY <2>1, <3>2 DEF TypeOK
    <3> QED
      BY <3>1, <3>2
  <2>3. req' \in [Request -> Req]
    BY <1>12, ClosedTyped DEF Gamify
  <2> QED
    BY <1>12, <2>2, <2>3 DEF TypeOK, Gamify
<1>13. CASE Insert(r)
  <2>1. signs' \in [Session -> Signs]
    <3> DEFINE q == req[r]
               sampled == [signs[q.sid] EXCEPT !.sample = AtLeast(@, q.at)]
               interrupted == [signs[q.sid] EXCEPT !.interruption = now,
                                 !.penalties = IF q.running /\ @ < MaxInterruptions
                                                 THEN @ + 1 ELSE @]
    <3>1. \/ signs' = signs
          \/ Exists(q.sid) /\ signs' = [signs EXCEPT ![q.sid] = sampled]
          \/ Exists(q.sid) /\ signs' = [signs EXCEPT ![q.sid] = interrupted]
      BY <1>13 DEF Insert, TypeOK, Signs, Exists
    <3>2. ASSUME Exists(q.sid) PROVE sampled \in Signs /\ interrupted \in Signs
      <4>1. /\ signs[q.sid] \in Signs
            /\ signs[q.sid].sample \in Time /\ signs[q.sid].penalties \in 0..MaxInterruptions
        BY <3>2 DEF Exists, TypeOK, Signs
      <4>2. AtLeast(signs[q.sid].sample, q.at) \in Time
        BY <1>0, <4>1 DEF AtLeast, Req
      <4>3. sampled \in Signs
        BY <4>1, <4>2 DEF Signs
      <4> DEFINE old == signs[q.sid].penalties
                 penalties == IF q.running /\ old < MaxInterruptions THEN old + 1 ELSE old
      <4>4. penalties \in 0..MaxInterruptions
        BY <4>1
      <4>5. interrupted = [signs[q.sid] EXCEPT !.interruption = now, !.penalties = penalties]
        BY <4>1 DEF Signs
      <4> HIDE DEF penalties, interrupted
      <4>6. interrupted \in Signs
        BY <1>0, <4>1, <4>4, <4>5 DEF Signs
      <4> QED
        BY <4>3, <4>6
    <3> QED
      BY <3>1, <3>2 DEF TypeOK
  <2> QED
    BY <1>13, <2>1, FinishTyped DEF TypeOK, Insert
<1> QED
  BY <1>1, <1>2, <1>3, <1>4, <1>5, <1>6, <1>7, <1>8, <1>9, <1>10, <1>11, <1>12, <1>13
     DEF Proceed

LEMMA TypeStep == TypeOK /\ [Next]_vars => TypeOK'
<1> SUFFICES ASSUME TypeOK, [Next]_vars PROVE TypeOK'
  OBVIOUS
<1>1. ASSUME NEW r \in Request, Arrive(r) PROVE TypeOK'
  BY <1>1, ArriveTyped
<1>2. ASSUME NEW r \in Request, Proceed(r) PROVE TypeOK'
  BY <1>2, ProceedTyped
<1>3. ASSUME NEW r \in Request, Crash(r) PROVE TypeOK'
  BY <1>3, FinishTyped, SessionsAssumption DEF TypeOK, Crash
<1>4. ASSUME NEW s \in Session, DeleteSession(s) PROVE TypeOK'
  BY <1>4 DEF TypeOK, DeleteSession, Row, MaybeSession
<1>5. CASE Tick
  BY <1>5, SessionsAssumption DEF TypeOK, Tick, Time
<1>6. CASE UNCHANGED vars
  BY <1>6 DEF TypeOK, vars
<1> QED
  BY <1>1, <1>2, <1>3, <1>4, <1>5, <1>6 DEF Next

LEMMA InitTyped == Init => TypeOK
<1> SUFFICES ASSUME Init PROVE TypeOK
  OBVIOUS
<1>1. SomeUser \in User
  BY SessionsAssumption DEF SomeUser
<1> QED
  BY <1>1, IdleTyped, SessionsAssumption
     DEF Init, TypeOK, Row, Signs, MaybeSession, Time, NoPlan

\* Type correctness of the sessions for every instance.
THEOREM SessionsTypeCorrect == Spec => []TypeOK
BY InitTyped, TypeStep, PTL DEF Spec

-----------------------------------------------------------------------------
(***************************************************************************)
(* What a close is worth.  The properties are about the moment of the      *)
(* write; what makes them hold was read several calls earlier, so the      *)
(* inductive invariant says what a request in flight knows and that it is  *)
(* still true when the request uses it.                                    *)
(***************************************************************************)

\* Nothing is stamped in the future.
NothingAhead ==
    \A s \in Session : row[s].start <= now /\ signs[s].sample <= now
                                           /\ signs[s].interruption <= now

\* At time t, not before its start, session s was in use.
Witnessed(s, t) ==
    /\ row[s].st # "absent"
    /\ row[s].start <= t /\ t <= LastSign(s)

\* What request r has read.
Known(r) ==
    /\ \A s \in req[r].todo : Witnessed(s, req[r].last[s])
    /\ req[r].pc = "loop" /\ req[r].kind = "abandon" =>
         req[r].sid \in Session /\ Witnessed(req[r].sid, req[r].last[req[r].sid])
    /\ req[r].pc = "write" =>
         /\ req[r].sid \in Session /\ row[req[r].sid].st # "absent"
         /\ row[req[r].sid].start <= req[r].at /\ req[r].at <= now
         /\ req[r].penalties <= signs[req[r].sid].penalties
         /\ req[r].kind # "end" => req[r].at <= LastSign(req[r].sid)
    /\ req[r].pc = "insert" => req[r].at <= now
    /\ req[r].pc \in {"host", "list"} => req[r].kind = "join"

AllKnown == \A r \in Request : Known(r)

IInv == TypeOK /\ NothingAhead /\ AllKnown /\ EndWithinLife /\ PointsMatchEnd

\* A session keeps its start, its signs of life and penalties only grow, and
\* the clock does not go back.
Persists ==
    /\ now <= now'
    /\ \A s \in Session :
         /\ row[s].st # "absent" => row'[s].st # "absent" /\ row'[s].start = row[s].start
         /\ signs[s].sample <= signs'[s].sample
         /\ signs[s].interruption <= signs'[s].interruption
         /\ signs[s].penalties <= signs'[s].penalties

LEMMA Times ==
    ASSUME TypeOK
    PROVE  /\ now \in Nat
           /\ \A s \in Session : /\ row[s].start \in Nat /\ row[s].end \in Nat
                                 /\ signs[s].sample \in Nat
                                 /\ signs[s].interruption \in Nat
                                 /\ signs[s].penalties \in Nat
                                 /\ LastSign(s) \in Nat
BY LastSignTyped DEF TypeOK, Row, Signs, Time

LEMMA LastSignPast ==
    ASSUME TypeOK, NothingAhead, NEW s \in Session
    PROVE  row[s].start <= LastSign(s) /\ LastSign(s) <= now
BY Times DEF NothingAhead, LastSign, LastSignOfLife, AtLeast

\* Reading the activity of a session that exists witnesses it.
LEMMA ActivityWitnesses ==
    ASSUME TypeOK, NothingAhead, NEW S \in SUBSET Session, NEW s \in S,
           row[s].st # "absent"
    PROVE  Witnessed(s, Activity(S)[s])
<1>1. s \in Session /\ Activity(S)[s] = LastSign(s)
  BY DEF Activity
<1>2. row[s].start <= LastSign(s) /\ LastSign(s) <= LastSign(s)
  BY <1>1, LastSignPast, Times
<1> QED
  BY <1>1, <1>2 DEF Witnessed

\* A session once witnessed stays so.
LEMMA WitnessPersists ==
    ASSUME TypeOK, TypeOK', Persists, NEW s \in Session, NEW t \in Nat, Witnessed(s, t)
    PROVE  Witnessed(s, t)'
<1>1. row'[s].st # "absent" /\ row'[s].start = row[s].start
  BY DEF Persists, Witnessed
<1>2. LastSign(s) <= LastSign(s)'
  <2>1. /\ row[s].start \in Nat /\ signs[s].sample \in Nat /\ signs[s].interruption \in Nat
        /\ signs'[s].sample \in Nat /\ signs'[s].interruption \in Nat
    BY Times DEF TypeOK, Signs, Time
  <2> QED
    BY <1>1, <2>1 DEF Persists, LastSign, LastSignOfLife, AtLeast
<1>3. LastSign(s) \in Nat /\ LastSign(s)' \in Nat
  <2>1. LastSign(s)' \in Nat
    BY DEF LastSign, LastSignOfLife, AtLeast, TypeOK, Row, Signs, Time
  <2> QED
    BY <2>1, Times
<1> QED
  BY <1>1, <1>2, <1>3 DEF Witnessed

\* A request nobody touches knows what it knew.
LEMMA UntouchedKnown ==
    ASSUME TypeOK, TypeOK', Persists, NEW r \in Request, Known(r), req'[r] = req[r]
    PROVE  Known(r)'
<1> USE SessionsAssumption
<1>0. /\ req[r] \in Req /\ req[r].todo \in SUBSET Session /\ req[r].at \in Nat
      /\ req[r].last \in [Session -> Time] /\ req[r].penalties \in Nat
  BY DEF TypeOK, Req, Time
<1>1. ASSUME NEW s \in req[r].todo PROVE Witnessed(s, req[r].last[s])'
  <2>1. s \in Session /\ req[r].last[s] \in Nat
    BY <1>0 DEF Time
  <2> QED
    BY <2>1, WitnessPersists DEF Known
<1>2. ASSUME req[r].pc = "loop", req[r].kind = "abandon"
      PROVE  req[r].sid \in Session /\ Witnessed(req[r].sid, req[r].last[req[r].sid])'
  <2>1. req[r].sid \in Session
    BY <1>2 DEF Known
  <2>2. req[r].last[req[r].sid] \in Nat
    BY <1>0, <2>1 DEF Time
  <2> QED
    BY <1>2, <2>1, <2>2, WitnessPersists DEF Known
<1>3. ASSUME req[r].pc = "write"
      PROVE  /\ req[r].sid \in Session /\ row'[req[r].sid].st # "absent"
             /\ row'[req[r].sid].start <= req[r].at /\ req[r].at <= now'
             /\ req[r].penalties <= signs'[req[r].sid].penalties
             /\ req[r].kind # "end" => req[r].at <= LastSign(req[r].sid)'
  <2>1. req[r].sid \in Session
    BY <1>3 DEF Known
  <2>2. /\ row'[req[r].sid].st # "absent" /\ row'[req[r].sid].start <= req[r].at
    BY <1>3, <2>1 DEF Known, Persists
  <2>3. req[r].at <= now'
    BY <1>0, <1>3, Times DEF Known, Persists, TypeOK, Time
  <2>4. req[r].penalties <= signs'[req[r].sid].penalties
    BY <1>0, <1>3, <2>1 DEF Known, Persists, TypeOK, Signs
  <2>5. req[r].kind # "end" => req[r].at <= LastSign(req[r].sid)'
    BY <1>0, <1>3, <2>1, WitnessPersists DEF Known, Witnessed
  <2> QED
    BY <2>1, <2>2, <2>3, <2>4, <2>5
<1>4. req[r].pc = "insert" => req[r].at <= now'
  BY <1>0, Times DEF Known, Persists, TypeOK, Time
<1>5. req[r].pc \in {"host", "list"} => req[r].kind = "join"
  BY DEF Known
<1> QED
  BY <1>1, <1>2, <1>3, <1>4, <1>5 DEF Known

\* A request that ends up reading nothing new knows what it knew.
LEMMA QuietKnown ==
    ASSUME TypeOK, TypeOK', Persists, NEW r \in Request, Known(r),
           req'[r].todo \subseteq req[r].todo,
           req'[r].todo = {} \/ req'[r].last = req[r].last,
           req'[r].pc \notin {"write", "insert"},
           req'[r].pc \in {"host", "list"} => req'[r].kind = "join",
           ~ (req'[r].pc = "loop" /\ req'[r].kind = "abandon")
    PROVE  Known(r)'
<1>1. ASSUME NEW s \in req'[r].todo PROVE Witnessed(s, req[r].last[s])'
  <2>1. s \in Session /\ s \in req[r].todo /\ req'[r].last = req[r].last
    BY DEF TypeOK, Req
  <2>2. Witnessed(s, req[r].last[s]) /\ req[r].last[s] \in Nat
    BY <2>1 DEF Known, TypeOK, Req, Time
  <2> QED
    BY <2>1, <2>2, WitnessPersists
<1> QED
  BY <1>1 DEF Known

\* Reading a witnessed session in full.
LEMMA ReadToCloseKnown ==
    ASSUME TypeOK, TypeOK', NothingAhead, NEW r \in Request, Known(r),
           NEW s \in Session, NEW at \in Time, NEW todo \in SUBSET req[r].todo,
           Witnessed(s, at), ReadToClose(r, s, at, todo), UNCHANGED <<now, row, signs>>
    PROVE  Known(r)'
<1>1. /\ req'[r].pc = "write" /\ req'[r].sid = s /\ req'[r].at = at
      /\ req'[r].penalties = signs[s].penalties /\ req'[r].todo = todo
      /\ req'[r].last = req[r].last /\ req'[r].kind = req[r].kind
  BY DEF ReadToClose, TypeOK, Req
<1>2. ASSUME NEW t \in req'[r].todo PROVE Witnessed(t, req[r].last[t])'
  <2>1. Witnessed(t, req[r].last[t])
    BY <1>1 DEF Known
  <2> QED
    BY <1>1, <2>1 DEF Witnessed, LastSign
<1>3. /\ row[s].st # "absent" /\ row[s].start <= at /\ at <= LastSign(s) /\ at <= now
      /\ signs[s].penalties <= signs[s].penalties
  BY LastSignPast, Times DEF Witnessed, Time
<1>4. LastSign(s)' = LastSign(s)
  BY DEF LastSign
<1> QED
  BY <1>1, <1>2, <1>3, <1>4 DEF Known

\* A request that has just begun and fills in no list.
LEMMA FreshKnown ==
    ASSUME NEW r \in Request, req'[r].todo = {},
           req'[r].pc \notin {"write", "insert", "loop"},
           req'[r].pc \in {"host", "list"} => req'[r].kind = "join"
    PROVE  Known(r)'
BY DEF Known

LEMMA FinishKnown ==
    ASSUME TypeOK, NEW r \in Request, Finish(r)
    PROVE  Known(r)'
BY FreshKnown DEF TypeOK, Finish, Idle

LEMMA ClosedKnown ==
    ASSUME TypeOK, TypeOK', Persists, NEW r \in Request, Known(r), Closed(r)
    PROVE  Known(r)'
<1>1. CASE req[r].kind \in {"start", "join", "sweep"}
  <2>1. /\ req'[r].todo = req[r].todo /\ req'[r].last = req[r].last
        /\ req'[r].pc = "loop" /\ req'[r].kind = req[r].kind
    BY <1>1 DEF Closed, TypeOK, Req
  <2> QED
    BY <1>1, <2>1, QuietKnown
<1>2. CASE req[r].kind \notin {"start", "join", "sweep"}
  BY <1>2, FinishKnown DEF Closed
<1> QED
  BY <1>1, <1>2

-----------------------------------------------------------------------------
\* What WriteEnd does to a row.
LEMMA WriteEndShape ==
    ASSUME TypeOK, NEW r \in Request, WriteEnd(r), NEW s \in Session
    PROVE  \/ row'[s] = row[s]
           \/ /\ s = req[r].sid /\ Exists(s)
              /\ row'[s].st = "ended" /\ row'[s].start = row[s].start
              /\ row'[s].end = req[r].at
              /\ row'[s].points = FocusPoints(row[s].start, req[r].at, req[r].penalties)
<1>1. row[s] \in Row
  BY DEF TypeOK
<1>2. CASE s = req[r].sid /\ Exists(s)
  <2> DEFINE points == FocusPoints(row[s].start, req[r].at, req[r].penalties)
  <2>1. row' = [row EXCEPT ![s] = [@ EXCEPT !.st = "ended", !.end = req[r].at,
                                            !.points = points]]
    BY <1>2 DEF WriteEnd
  <2>2. row'[s] = [row[s] EXCEPT !.st = "ended", !.end = req[r].at, !.points = points]
    BY <2>1 DEF TypeOK
  <2> HIDE DEF points
  <2>3. /\ row'[s].st = "ended" /\ row'[s].start = row[s].start
        /\ row'[s].end = req[r].at /\ row'[s].points = points
    BY <1>1, <2>2 DEF Row
  <2> QED
    BY <1>2, <2>3 DEF points
<1>3. CASE ~ (s = req[r].sid /\ Exists(s))
  BY <1>3 DEF WriteEnd, TypeOK
<1> QED
  BY <1>2, <1>3

LEMMA PersistStep == TypeOK /\ NothingAhead /\ [Next]_vars => Persists
<1> SUFFICES ASSUME TypeOK, NothingAhead, [Next]_vars PROVE Persists
  OBVIOUS
<1> USE Times
<1>1. ASSUME NEW r \in Request, Arrive(r) PROVE Persists
  <2>1. UNCHANGED <<now, row, signs>>
    BY <1>1 DEF Arrive, BeginStart, BeginJoin, BeginEnd, BeginAbandon, BeginSample,
                BeginInterruption, BeginSweep
  <2> QED
    BY <2>1 DEF Persists
<1>2. ASSUME NEW r \in Request, NEW s \in Session, CreateSession(r, s) PROVE Persists
  BY <1>2 DEF CreateSession, Persists, TypeOK, Row
<1>3. ASSUME NEW r \in Request, WriteEnd(r) PROVE Persists
  <2>1. UNCHANGED <<now, signs>>
    BY <1>3 DEF WriteEnd
  <2>3. ASSUME NEW s \in Session, row[s].st # "absent"
        PROVE  row'[s].st # "absent" /\ row'[s].start = row[s].start
    BY <1>3, <2>3, WriteEndShape
  <2> QED
    BY <2>1, <2>3 DEF Persists
<1>4. ASSUME NEW r \in Request, WriteScore(r) PROVE Persists
  BY <1>4 DEF WriteScore, Persists, TypeOK, Row
<1>5. ASSUME NEW r \in Request, Insert(r) PROVE Persists
  <2>1. UNCHANGED <<now, row>>
    BY <1>5 DEF Insert
  <2>2. ASSUME NEW s \in Session
        PROVE  /\ signs[s].sample <= signs'[s].sample
               /\ signs[s].interruption <= signs'[s].interruption
               /\ signs[s].penalties <= signs'[s].penalties
    <3>1. CASE req[r].kind = "sample"
      BY <1>5, <3>1 DEF Insert, NothingAhead, TypeOK, Signs, Req, Time, AtLeast
    <3>2. CASE req[r].kind # "sample"
      BY <1>5, <3>2 DEF Insert, NothingAhead, TypeOK, Signs
    <3> QED
      BY <3>1, <3>2
  <2> QED
    BY <2>1, <2>2 DEF Persists
<1>6. ASSUME NEW r \in Request,
             \/ ResolveHost(r) \/ ListOpen(r) \/ RereadAbandoned(r)
             \/ \E s \in Session : SettleNext(r, s) \/ SweepNext(r, s)
             \/ SweepDone(r) \/ Settled(r) \/ ReadForScore(r) \/ Gamify(r) \/ Crash(r)
      PROVE  Persists
  <2>1. UNCHANGED <<now, row, signs>>
    BY <1>6 DEF ResolveHost, ListOpen, RereadAbandoned, SettleNext, SweepNext, SweepDone,
                Settled, ReadForScore, Gamify, Crash
  <2> QED
    BY <2>1 DEF Persists
<1>7. ASSUME NEW s \in Session, DeleteSession(s) PROVE Persists
  BY <1>7 DEF DeleteSession, Persists, TypeOK, Row
<1>8. CASE Tick
  BY <1>8 DEF Tick, Persists
<1>9. CASE UNCHANGED vars
  BY <1>9 DEF vars, Persists
<1> QED
  BY <1>1, <1>2, <1>3, <1>4, <1>5, <1>6, <1>7, <1>8, <1>9 DEF Next, Proceed

LEMMA NothingAheadStep == TypeOK /\ TypeOK' /\ NothingAhead /\ AllKnown /\ [Next]_vars => NothingAhead'
<1> SUFFICES ASSUME TypeOK, TypeOK', NothingAhead, AllKnown, [Next]_vars PROVE NothingAhead'
  OBVIOUS
<1> USE Times
<1>1. ASSUME NEW r \in Request, Arrive(r) PROVE NothingAhead'
  <2>1. UNCHANGED <<now, row, signs>>
    BY <1>1 DEF Arrive, BeginStart, BeginJoin, BeginEnd, BeginAbandon, BeginSample,
                BeginInterruption, BeginSweep
  <2> QED
    BY <2>1 DEF NothingAhead
<1>2. ASSUME NEW r \in Request, NEW s \in Session, CreateSession(r, s) PROVE NothingAhead'
  <2>1. UNCHANGED <<now, signs>>
    BY <1>2 DEF CreateSession
  <2>2. ASSUME NEW t \in Session PROVE row'[t].start = row[t].start \/ row'[t].start = now
    BY <1>2 DEF CreateSession, TypeOK, Row
  <2> QED
    BY <2>1, <2>2 DEF NothingAhead
<1>3. ASSUME NEW r \in Request, WriteEnd(r) PROVE NothingAhead'
  <2>1. UNCHANGED <<now, signs>>
    BY <1>3 DEF WriteEnd
  <2>3. \A s \in Session : row'[s].start = row[s].start
    BY <1>3, WriteEndShape
  <2> QED
    BY <2>1, <2>3 DEF NothingAhead
<1>4. ASSUME NEW r \in Request, WriteScore(r) PROVE NothingAhead'
  BY <1>4 DEF WriteScore, NothingAhead, TypeOK, Row
<1>5. ASSUME NEW r \in Request, Insert(r) PROVE NothingAhead'
  <2>1. UNCHANGED <<now, row>> /\ req[r].at <= now
    BY <1>5 DEF Insert, AllKnown, Known
  <2>2. ASSUME NEW s \in Session
        PROVE  signs'[s].sample <= now /\ signs'[s].interruption <= now
    <3>1. CASE req[r].kind = "sample"
      BY <1>5, <2>1, <3>1 DEF Insert, NothingAhead, TypeOK, Signs, Req, Time, AtLeast
    <3>2. CASE req[r].kind # "sample"
      BY <1>5, <3>2 DEF Insert, NothingAhead, TypeOK, Signs
    <3> QED
      BY <3>1, <3>2
  <2> QED
    BY <2>1, <2>2 DEF NothingAhead
<1>6. ASSUME NEW r \in Request,
             \/ ResolveHost(r) \/ ListOpen(r) \/ RereadAbandoned(r)
             \/ \E s \in Session : SettleNext(r, s) \/ SweepNext(r, s)
             \/ SweepDone(r) \/ Settled(r) \/ ReadForScore(r) \/ Gamify(r) \/ Crash(r)
      PROVE  NothingAhead'
  <2>1. UNCHANGED <<now, row, signs>>
    BY <1>6 DEF ResolveHost, ListOpen, RereadAbandoned, SettleNext, SweepNext, SweepDone,
                Settled, ReadForScore, Gamify, Crash
  <2> QED
    BY <2>1 DEF NothingAhead
<1>7. ASSUME NEW s \in Session, DeleteSession(s) PROVE NothingAhead'
  BY <1>7 DEF DeleteSession, NothingAhead, TypeOK, Row
<1>8. CASE Tick
  BY <1>8 DEF Tick, NothingAhead
<1>9. CASE UNCHANGED vars
  BY <1>9 DEF vars, NothingAhead
<1> QED
  BY <1>1, <1>2, <1>3, <1>4, <1>5, <1>6, <1>7, <1>8, <1>9 DEF Next, Proceed

-----------------------------------------------------------------------------
\* A step of one request leaves the others as they were.
LEMMA OthersStay ==
    ASSUME TypeOK, NEW r \in Request, NEW q \in Request \ {r},
           Arrive(r) \/ Proceed(r) \/ Crash(r)
    PROVE  req'[q] = req[q]
<1>1. CASE Arrive(r)
  BY <1>1 DEF Arrive, BeginStart, BeginJoin, BeginEnd, BeginAbandon, BeginSample,
              BeginInterruption, BeginSweep, Begin, TypeOK
<1>2. CASE Proceed(r)
  <2>1. CASE ResolveHost(r) \/ ListOpen(r) \/ RereadAbandoned(r)
    BY <2>1 DEF ResolveHost, ListOpen, RereadAbandoned, ReadToClose, Finish, TypeOK
  <2>2. CASE \E s \in Session : SettleNext(r, s) \/ SweepNext(r, s) \/ CreateSession(r, s)
    BY <2>2 DEF SettleNext, SweepNext, CreateSession, ReadToClose, Finish, TypeOK
  <2>3. CASE SweepDone(r) \/ Settled(r) \/ Insert(r)
    BY <2>3 DEF SweepDone, Settled, Insert, Finish, TypeOK
  <2>4. CASE WriteEnd(r) \/ ReadForScore(r) \/ WriteScore(r) \/ Gamify(r)
    BY <2>4 DEF WriteEnd, ReadForScore, WriteScore, Gamify, Closed, Finish, TypeOK
  <2> QED
    BY <1>2, <2>1, <2>2, <2>3, <2>4 DEF Proceed
<1>3. CASE Crash(r)
  BY <1>3 DEF Crash, Finish, TypeOK
<1> QED
  BY <1>1, <1>2, <1>3

\* A request that arrives knows what it has just read.
LEMMA ArriveKnown ==
    ASSUME TypeOK, TypeOK', NothingAhead, NEW r \in Request, Arrive(r)
    PROVE  Known(r)'
<1> USE DEF Begin, Idle
<1>0. UNCHANGED <<now, row, signs>>
  BY DEF Arrive, BeginStart, BeginJoin, BeginEnd, BeginAbandon, BeginSample,
         BeginInterruption, BeginSweep
<1>a. ASSUME NEW s \in Session, NEW t, Witnessed(s, t) PROVE Witnessed(s, t)'
  BY <1>0, <1>a DEF Witnessed, LastSign
<1>1. ASSUME NEW S \in SUBSET Session, \A s \in S : row[s].st # "absent",
             req'[r].todo = S, req'[r].last = Activity(S), req'[r].pc = "loop",
             req'[r].kind # "abandon"
      PROVE  Known(r)'
  <2>1. ASSUME NEW s \in req'[r].todo PROVE Witnessed(s, req[r].last[s])'
    <3>1. s \in S /\ s \in Session /\ Witnessed(s, Activity(S)[s])
      BY <1>1, ActivityWitnesses
    <3>2. Witnessed(s, Activity(S)[s])'
      BY <1>0, <3>1 DEF Witnessed, LastSign, Activity
    <3>3. Activity(S)' = Activity(S)
      BY <1>0 DEF Activity, LastSign
    <3> QED
      BY <1>1, <3>2, <3>3
  <2> QED
    BY <1>1, <2>1 DEF Known
<1>2. ASSUME NEW u \in User, NEW plan \in Plans, NEW group \in Groups,
             BeginStart(r, u, plan, group)
      PROVE  Known(r)'
  <2>1. /\ req'[r].todo = OpenOf(u) /\ req'[r].last = Activity(OpenOf(u))
        /\ req'[r].pc = "loop" /\ req'[r].kind = "start"
    BY <1>2 DEF BeginStart, TypeOK
  <2>2. OpenOf(u) \in SUBSET Session /\ \A s \in OpenOf(u) : row[s].st # "absent"
    BY DEF OpenOf, IsOpen
  <2> QED
    BY <1>1, <2>1, <2>2
<1>3. ASSUME NEW u \in User, NEW s \in Session, BeginJoin(r, u, s)
      PROVE  Known(r)'
  <2>1. req'[r].todo = {} /\ req'[r].pc \in {"list", "host"} /\ req'[r].kind = "join"
    BY <1>3 DEF BeginJoin, TypeOK
  <2> QED
    BY <2>1, FreshKnown
<1>4. ASSUME NEW s \in Session, NEW tapped \in Time, BeginEnd(r, s, tapped)
      PROVE  Known(r)'
  <2> DEFINE at == ClampedEnd(row[s].start, tapped, now)
  <2>1. /\ req'[r].todo = {} /\ req'[r].pc = "write" /\ req'[r].kind = "end"
        /\ req'[r].sid = s /\ req'[r].at = at /\ req'[r].penalties = signs[s].penalties
    BY <1>4 DEF BeginEnd, TypeOK
  <2>2. row[s].start <= at /\ at <= now
    <3>1. row[s].start \in Nat /\ tapped \in Nat /\ now \in Nat /\ row[s].start <= now
      BY Times DEF NothingAhead, Time
    <3> QED
      BY <3>1, ClampedEndInside
  <2>3. row[s].st # "absent" /\ signs[s].penalties <= signs[s].penalties
    BY <1>4, Times DEF BeginEnd, IsOpen
  <2> HIDE DEF at
  <2> QED
    BY <1>0, <2>1, <2>2, <2>3 DEF Known
<1>5. ASSUME NEW s \in Session, BeginAbandon(r, s)
      PROVE  Known(r)'
  <2>1. /\ req'[r].todo = {} /\ req'[r].pc = "loop" /\ req'[r].sid = s
        /\ req'[r].last = Activity({s})
    BY <1>5 DEF BeginAbandon, TypeOK
  <2>2. Witnessed(s, Activity({s})[s])
    BY <1>5, ActivityWitnesses DEF BeginAbandon, IsOpen
  <2>3. Witnessed(s, req[r].last[s])'
    BY <1>0, <2>1, <2>2 DEF Witnessed, LastSign
  <2> QED
    BY <2>1, <2>3 DEF Known
<1>6. ASSUME NEW s \in Session, NEW at \in Time, BeginSample(r, s, at)
      PROVE  Known(r)'
  <2>1. /\ req'[r].todo = {} /\ req'[r].pc = "insert" /\ req'[r].at = at /\ at <= now
    BY <1>6, Times DEF BeginSample, TypeOK
  <2> QED
    BY <1>0, <2>1 DEF Known
<1>7. ASSUME NEW s \in Session, NEW penalised \in BOOLEAN, BeginInterruption(r, s, penalised)
      PROVE  Known(r)'
  <2>1. /\ req'[r].todo = {} /\ req'[r].pc = "insert" /\ req'[r].at = 0
    BY <1>7 DEF BeginInterruption, TypeOK
  <2> QED
    BY <1>0, <2>1, Times DEF Known
<1>8. ASSUME NEW redisAnswers \in RedisAnswers, BeginSweep(r, redisAnswers)
      PROVE  Known(r)'
  <2> DEFINE candidates == {s \in Session : IsOpen(s) /\ row[s].start < now - SweepSilence}
  <2>1. /\ req'[r].todo = candidates /\ req'[r].last = Activity(candidates)
        /\ req'[r].pc = "loop" /\ req'[r].kind = "sweep"
    BY <1>8 DEF BeginSweep, TypeOK
  <2>2. candidates \in SUBSET Session /\ \A s \in candidates : row[s].st # "absent"
    BY DEF IsOpen
  <2> HIDE DEF candidates
  <2> QED
    BY <1>1, <2>1, <2>2
<1> QED
  BY <1>2, <1>3, <1>4, <1>5, <1>6, <1>7, <1>8 DEF Arrive

\* A handler that goes on knows what it has read.
LEMMA ProceedKnown ==
    ASSUME TypeOK, TypeOK', NothingAhead, Persists, NEW r \in Request, Known(r), Proceed(r)
    PROVE  Known(r)'
<1>0. /\ req[r] \in Req /\ req[r].todo \in SUBSET Session
      /\ req[r].last \in [Session -> Time]
  BY DEF TypeOK, Req
<1>1. CASE ResolveHost(r)
  <2>1. \/ Finish(r)
        \/ /\ req'[r].todo = req[r].todo /\ req'[r].last = req[r].last
           /\ req'[r].pc = "list" /\ req'[r].kind = "join"
    BY <1>0, <1>1 DEF ResolveHost, TypeOK, Req, Known
  <2> QED
    BY <2>1, FinishKnown, QuietKnown
<1>2. CASE ListOpen(r)
  <2> DEFINE S == OpenOf(req[r].user)
  <2>1. /\ req'[r].todo = S /\ req'[r].last = Activity(S) /\ req'[r].pc = "loop"
        /\ req'[r].kind = req[r].kind /\ UNCHANGED <<now, row, signs>>
    BY <1>0, <1>2 DEF ListOpen, TypeOK, Req
  <2>2. S \in SUBSET Session /\ \A s \in S : row[s].st # "absent"
    BY DEF OpenOf, IsOpen
  <2> HIDE DEF S
  <2>3. ASSUME NEW s \in S PROVE s \in Session /\ Witnessed(s, Activity(S)[s])
    BY <2>2, ActivityWitnesses
  <2>4. ASSUME NEW s \in req'[r].todo PROVE Witnessed(s, req[r].last[s])'
    BY <2>1, <2>3 DEF Witnessed, LastSign
  <2>5. req[r].kind # "abandon"
    BY <1>2 DEF ListOpen, Known
  <2> QED
    BY <2>1, <2>4, <2>5 DEF Known
<1>3. CASE RereadAbandoned(r)
  <2>1. CASE Exists(req[r].sid)
    <3> DEFINE s == req[r].sid
    <3>1. s \in Session /\ Witnessed(s, req[r].last[s]) /\ req[r].last[s] \in Time
      BY <1>0, <1>3 DEF RereadAbandoned, Known
    <3>2. ReadToClose(r, s, req[r].last[s], {}) /\ UNCHANGED <<now, row, signs>>
      BY <1>3, <2>1 DEF RereadAbandoned
    <3> QED
      BY <3>1, <3>2, ReadToCloseKnown
  <2>2. CASE ~ Exists(req[r].sid)
    BY <1>3, <2>2, FinishKnown DEF RereadAbandoned
  <2> QED
    BY <2>1, <2>2
<1>4. ASSUME NEW s \in Session, SettleNext(r, s) \/ SweepNext(r, s)
      PROVE  Known(r)'
  <2> DEFINE rest == req[r].todo \ {s}
  <2>1. s \in req[r].todo /\ UNCHANGED <<now, row, signs>>
    BY <1>4 DEF SettleNext, SweepNext
  <2>2. req[r].kind \in {"start", "join", "sweep"} /\ req[r].pc = "loop"
    BY <1>4 DEF SettleNext, SweepNext
  <2>3. \/ ReadToClose(r, s, req[r].last[s], rest)
        \/ /\ req'[r].todo = rest /\ req'[r].last = req[r].last
           /\ req'[r].pc = "loop" /\ req'[r].kind = req[r].kind
    BY <1>0, <1>4, <2>2 DEF SettleNext, SweepNext, TypeOK, Req
  <2>4. Witnessed(s, req[r].last[s]) /\ req[r].last[s] \in Time
    BY <1>0, <2>1 DEF Known
  <2>5. rest \in SUBSET req[r].todo
    OBVIOUS
  <2> HIDE DEF rest
  <2>6. CASE ReadToClose(r, s, req[r].last[s], rest)
    BY <2>1, <2>4, <2>5, <2>6, ReadToCloseKnown
  <2>7. CASE /\ req'[r].todo = rest /\ req'[r].last = req[r].last
             /\ req'[r].pc = "loop" /\ req'[r].kind = req[r].kind
    BY <2>2, <2>5, <2>7, QuietKnown
  <2> QED
    BY <2>3, <2>6, <2>7
<1>5. CASE SweepDone(r)
  BY <1>5, FinishKnown DEF SweepDone
<1>6. CASE Settled(r)
  <2>1. CASE req[r].running
    BY <1>6, <2>1, FinishKnown DEF Settled
  <2>2. CASE ~ req[r].running
    <3>1. /\ req[r].todo = {}
          /\ req' = [req EXCEPT ![r].pc = "create", ![r].last = NeverActive]
      BY <1>6, <2>2 DEF Settled
    <3> HIDE DEF NeverActive
    <3>2. req'[r].todo = {} /\ req'[r].pc = "create"
      BY <1>0, <3>1 DEF TypeOK, Req
    <3> QED
      BY <3>2, FreshKnown
  <2> QED
    BY <2>1, <2>2
<1>7. ASSUME NEW s \in Session, CreateSession(r, s) PROVE Known(r)'
  BY <1>7, FinishKnown DEF CreateSession
<1>8. CASE WriteEnd(r)
  <2>1. \/ Closed(r)
        \/ req'[r].todo = req[r].todo /\ req'[r].last = req[r].last /\ req'[r].pc = "score"
    BY <1>0, <1>8 DEF WriteEnd, TypeOK, Req
  <2> QED
    BY <2>1, ClosedKnown, QuietKnown
<1>9. CASE ReadForScore(r) \/ WriteScore(r)
  <2>1. /\ req'[r].todo = req[r].todo /\ req'[r].last = req[r].last
        /\ req'[r].pc \in {"scored", "credit"}
    BY <1>0, <1>9 DEF ReadForScore, WriteScore, TypeOK, Req
  <2> QED
    BY <2>1, QuietKnown
<1>10. CASE Gamify(r)
  BY <1>10, ClosedKnown DEF Gamify
<1>11. CASE Insert(r)
  BY <1>11, FinishKnown DEF Insert
<1> QED
  BY <1>1, <1>2, <1>3, <1>4, <1>5, <1>6, <1>7, <1>8, <1>9, <1>10, <1>11 DEF Proceed

LEMMA KnownStep == IInv /\ [Next]_vars => AllKnown'
<1> SUFFICES ASSUME IInv, [Next]_vars PROVE AllKnown'
  OBVIOUS
<1>0. TypeOK /\ TypeOK' /\ NothingAhead /\ Persists /\ \A r \in Request : Known(r)
  BY TypeStep, PersistStep DEF IInv, AllKnown
<1>1. ASSUME NEW r \in Request, Arrive(r) \/ Proceed(r) \/ Crash(r) PROVE AllKnown'
  <2>1. Known(r)'
    BY <1>0, <1>1, ArriveKnown, ProceedKnown, FinishKnown DEF Crash
  <2>2. ASSUME NEW q \in Request \ {r} PROVE Known(q)'
    BY <1>0, <1>1, OthersStay, UntouchedKnown
  <2> QED
    BY <2>1, <2>2 DEF AllKnown
<1>2. CASE Tick \/ (\E s \in Session : DeleteSession(s)) \/ UNCHANGED vars
  <2>1. req' = req
    BY <1>2 DEF Tick, DeleteSession, vars
  <2> QED
    BY <1>0, <2>1, UntouchedKnown DEF AllKnown
<1> QED
  BY <1>1, <1>2 DEF Next

-----------------------------------------------------------------------------
\* A row only ends, or has its end moved, under a request about to write it.
LEMMA EndedBy ==
    ASSUME IInv, [Next]_vars, NEW s \in Session, row'[s].st = "ended"
    PROVE  \/ /\ row[s].st = "ended" /\ row'[s].start = row[s].start
              /\ row'[s].end = row[s].end /\ row'[s].points = row[s].points
           \/ \E r \in Request :
                /\ req[r].pc = "write" /\ req[r].sid = s /\ Exists(s)
                /\ row'[s].start = row[s].start /\ row'[s].end = req[r].at
                /\ row'[s].points =
                     FocusPoints(row[s].start, req[r].at, req[r].penalties)
<1> DEFINE Kept == /\ row[s].st = "ended" /\ row'[s].start = row[s].start
                   /\ row'[s].end = row[s].end /\ row'[s].points = row[s].points
<1>0. TypeOK /\ row[s] \in Row
  BY DEF IInv, TypeOK
<1>1. ASSUME NEW r \in Request, Arrive(r) PROVE Kept
  BY <1>1 DEF Arrive, BeginStart, BeginJoin, BeginEnd, BeginAbandon, BeginSample,
              BeginInterruption, BeginSweep
<1>2. ASSUME NEW r \in Request, NEW t \in Session, CreateSession(r, t) PROVE Kept
  <2>1. row[t] \in Row /\ row[t].st = "absent"
    BY <1>0, <1>2 DEF CreateSession, TypeOK
  <2>2. \/ row' = row
        \/ row'[t].st = "open" /\ (s # t => row'[s] = row[s])
    BY <1>0, <1>2, <2>1 DEF CreateSession, TypeOK, Row
  <2> QED
    BY <2>2
<1>3. ASSUME NEW r \in Request, WriteScore(r) PROVE Kept
  BY <1>0, <1>3 DEF WriteScore, TypeOK, Row
<1>4. ASSUME NEW r \in Request,
             \/ ResolveHost(r) \/ ListOpen(r) \/ RereadAbandoned(r)
             \/ \E t \in Session : SettleNext(r, t) \/ SweepNext(r, t)
             \/ SweepDone(r) \/ Settled(r) \/ ReadForScore(r) \/ Gamify(r)
             \/ Insert(r) \/ Crash(r)
      PROVE  Kept
  BY <1>4 DEF ResolveHost, ListOpen, RereadAbandoned, SettleNext, SweepNext, SweepDone,
              Settled, ReadForScore, Gamify, Insert, Crash
<1>5. ASSUME NEW t \in Session, DeleteSession(t) PROVE Kept
  BY <1>0, <1>5 DEF DeleteSession, TypeOK, Row
<1>6. ASSUME Tick \/ UNCHANGED vars PROVE Kept
  BY <1>6 DEF Tick, vars
<1>7. ASSUME NEW r \in Request, WriteEnd(r)
      PROVE  Kept \/ /\ req[r].pc = "write" /\ req[r].sid = s /\ Exists(s)
                     /\ row'[s].start = row[s].start /\ row'[s].end = req[r].at
                     /\ row'[s].points =
                          FocusPoints(row[s].start, req[r].at, req[r].penalties)
  <2>1. req[r].pc = "write"
    BY <1>7 DEF WriteEnd
  <2> QED
    BY <1>0, <1>7, <2>1, WriteEndShape
<1> HIDE DEF Kept
<1>8. CASE \E r \in Request : WriteEnd(r)
  BY <1>7, <1>8 DEF Kept
<1>9. ASSUME ~ \E r \in Request : WriteEnd(r) PROVE Kept
  <2>1. CASE \E r \in Request : Arrive(r) \/ Proceed(r) \/ Crash(r)
    <3>1. PICK r \in Request : Arrive(r) \/ Proceed(r) \/ Crash(r)
      BY <2>1
    <3>2. CASE \E t \in Session : CreateSession(r, t)
      BY <1>2, <3>2
    <3>3. ASSUME Proceed(r), ~ \E t \in Session : CreateSession(r, t) PROVE Kept
      <4>1. \/ WriteScore(r)
            \/ ResolveHost(r) \/ ListOpen(r) \/ RereadAbandoned(r)
            \/ \E t \in Session : SettleNext(r, t) \/ SweepNext(r, t)
            \/ SweepDone(r) \/ Settled(r) \/ ReadForScore(r) \/ Gamify(r)
            \/ Insert(r)
        BY <1>9, <3>3 DEF Proceed
      <4> QED
        BY <1>3, <1>4, <4>1
    <3> QED
      BY <1>1, <1>4, <3>1, <3>2, <3>3
  <2>2. CASE \E t \in Session : DeleteSession(t)
    BY <1>5, <2>2
  <2>3. Next \/ UNCHANGED vars
    OBVIOUS
  <2> QED
    BY <1>6, <2>1, <2>2, <2>3 DEF Next
<1> QED
  BY <1>8, <1>9 DEF Kept

LEMMA EndWithinLifeStep == IInv /\ [Next]_vars => EndWithinLife'
<1> SUFFICES ASSUME IInv, [Next]_vars, NEW s \in Session, row'[s].st = "ended"
             PROVE  row'[s].start <= row'[s].end /\ row'[s].end <= now'
  BY DEF EndWithinLife
<1>0. TypeOK /\ TypeOK' /\ now \in Nat /\ now' \in Nat /\ now <= now'
  BY TypeStep, PersistStep DEF IInv, Persists, TypeOK, Time
<1>1. ASSUME row[s].st = "ended", row'[s].start = row[s].start, row'[s].end = row[s].end
      PROVE  row'[s].start <= row'[s].end /\ row'[s].end <= now'
  BY <1>0, <1>1, Times DEF IInv, EndWithinLife
<1>2. ASSUME NEW r \in Request, req[r].pc = "write", req[r].sid = s,
             row'[s].start = row[s].start, row'[s].end = req[r].at
      PROVE  row'[s].start <= row'[s].end /\ row'[s].end <= now'
  <2>1. row[s].start <= req[r].at /\ req[r].at <= now
    BY <1>2 DEF IInv, AllKnown, Known
  <2>2. req[r].at \in Nat
    BY <1>0 DEF TypeOK, Req, Time
  <2> QED
    BY <1>0, <1>2, <2>1, <2>2
<1> QED
  BY <1>1, <1>2, EndedBy

LEMMA PointsMatchEndStep == IInv /\ [Next]_vars => PointsMatchEnd'
<1> SUFFICES ASSUME IInv, [Next]_vars, NEW s \in Session, row'[s].st = "ended"
             PROVE  \E k \in 0..signs'[s].penalties :
                      row'[s].points = FocusPoints(row'[s].start, row'[s].end, k)
  BY DEF PointsMatchEnd
<1>0. /\ signs[s].penalties \in Nat /\ signs'[s].penalties \in Nat
      /\ signs[s].penalties <= signs'[s].penalties
  BY TypeStep, PersistStep DEF IInv, Persists, TypeOK, Signs
<1>1. ASSUME row[s].st = "ended", row'[s].start = row[s].start,
             row'[s].end = row[s].end, row'[s].points = row[s].points
      PROVE  \E k \in 0..signs'[s].penalties :
               row'[s].points = FocusPoints(row'[s].start, row'[s].end, k)
  <2>1. PICK k \in 0..signs[s].penalties :
              row[s].points = FocusPoints(row[s].start, row[s].end, k)
    BY <1>1 DEF IInv, PointsMatchEnd
  <2>2. k \in 0..signs'[s].penalties
    BY <1>0
  <2> QED
    BY <1>1, <2>1, <2>2
<1>2. ASSUME NEW r \in Request, req[r].pc = "write", req[r].sid = s,
             row'[s].start = row[s].start, row'[s].end = req[r].at,
             row'[s].points = FocusPoints(row[s].start, req[r].at, req[r].penalties)
      PROVE  \E k \in 0..signs'[s].penalties :
               row'[s].points = FocusPoints(row'[s].start, row'[s].end, k)
  <2>1. req[r].penalties <= signs[s].penalties
    BY <1>2 DEF IInv, AllKnown, Known
  <2>2. req[r].penalties \in Nat
    BY SessionsAssumption DEF IInv, TypeOK, Req
  <2>3. req[r].penalties \in 0..signs'[s].penalties
    BY <1>0, <2>1, <2>2
  <2> QED
    BY <1>2, <2>3
<1> QED
  BY <1>1, <1>2, EndedBy

LEMMA InitInvariant == Init => IInv
<1> SUFFICES ASSUME Init PROVE IInv
  OBVIOUS
<1>1. TypeOK
  BY InitTyped
<1>2. NothingAhead /\ EndWithinLife /\ PointsMatchEnd
  BY DEF Init, NothingAhead, EndWithinLife, PointsMatchEnd
<1>3. AllKnown
  BY DEF Init, AllKnown, Known, Idle
<1> QED
  BY <1>1, <1>2, <1>3 DEF IInv

LEMMA InvariantStep == IInv /\ [Next]_vars => IInv'
BY TypeStep, NothingAheadStep, KnownStep, EndWithinLifeStep, PointsMatchEndStep DEF IInv

\* Every session ends no earlier than it started and no later than now,
\* whichever handlers raced to close it (endSession, closeSession).
THEOREM EndStaysWithinLife == Spec => []EndWithinLife
<1>1. IInv => EndWithinLife
  BY DEF IInv
<1> QED
  BY <1>1, InitInvariant, InvariantStep, PTL DEF Spec

\* The points of an ended session are always those of its stored end, less the
\* penalties of interruptions that were logged (closeSession).
THEOREM PointsAlwaysMatchEnd == Spec => []PointsMatchEnd
<1>1. IInv => PointsMatchEnd
  BY DEF IInv
<1> QED
  BY <1>1, InitInvariant, InvariantStep, PTL DEF Spec

\* A close nobody tapped for never puts the end after the newest sign of life
\* (settleOpenSessions, the sweep, abandonSession).
THEOREM SilenceNeverEarns == Spec => SilenceEarnsNothing
<1> DEFINE Earned == \A s \in Session : row'[s].st = "ended" /\ row'[s].end # row[s].end =>
                        \/ row'[s].end <= LastSign(s)
                        \/ \E r \in Request : req[r].kind = "end" /\ req[r].sid = s
<1>1. IInv /\ [Next]_vars => [Earned]_vars
  <2> SUFFICES ASSUME IInv, [Next]_vars, NEW s \in Session,
                      row'[s].st = "ended", row'[s].end # row[s].end
               PROVE  \/ row'[s].end <= LastSign(s)
                      \/ \E r \in Request : req[r].kind = "end" /\ req[r].sid = s
    OBVIOUS
  <2>1. PICK r \in Request : /\ req[r].pc = "write" /\ req[r].sid = s
                             /\ row'[s].end = req[r].at
    BY EndedBy
  <2>2. req[r].kind # "end" => req[r].at <= LastSign(s)
    BY <2>1 DEF IInv, AllKnown, Known
  <2> QED
    BY <2>1, <2>2
<1>2. Spec => [][Earned]_vars
  BY <1>1, InitInvariant, InvariantStep, PTL DEF Spec
<1> QED
  BY <1>2 DEF SilenceEarnsNothing

-----------------------------------------------------------------------------
(***************************************************************************)
(* Rooms.  A join looks at the session the code found and at its host in    *)
(* one call and inserts in another, after it has settled what the joiner    *)
(* left open; in between any of the sessions may be closed or deleted.      *)
(***************************************************************************)

\* A session that may have people join it, if it is still there.
IsRoom(h) ==
    /\ h \in Session /\ row[h].st # "absent"
    /\ Exists(h) => row[h].group /\ row[h].host = NoSession

\* A session a code may find: in a room h, or left by it.
InRoom(s, h) ==
    /\ s \in Session /\ row[s].st # "absent"
    /\ Exists(s) => row[s].group /\ row[s].host \in {h, NoSession}

\* The room of a session that has joined one: its host is there, has joined
\* nothing, belongs to somebody else, and is on a plan where the joiner is.
Linked(s, h) ==
    /\ Exists(h) /\ row[h].group /\ row[h].host = NoSession
    /\ row[h].user # row[s].user
    /\ (row[s].plan = NoPlan <=> row[h].plan = NoPlan)

\* The room request r is on its way into.
Heading(r) ==
    /\ req[r].kind = "start" => req[r].host = NoSession
    /\ req[r].pc = "create" => req[r].kind \in {"start", "join"}
    /\ req[r].pc # "idle" /\ req[r].kind = "join" =>
         /\ IsRoom(req[r].host)
         /\ IF req[r].pc = "host"
              THEN InRoom(req[r].found, req[r].host) /\ row[req[r].found].user # req[r].user
              ELSE row[req[r].host].user # req[r].user

RoomsInv ==
    /\ IInv
    /\ RoomsAreFlat /\ PlannedRoomsStayPlanned
    /\ \A r \in Request : Heading(r)

\* A session that is there stays what it is but for losing its host; none comes back.
SessionsLast ==
    \A s \in Session : row[s].st # "absent" =>
        /\ row'[s].st # "absent" /\ row'[s].user = row[s].user
        /\ row'[s].group = row[s].group /\ row'[s].host \in {row[s].host, NoSession}
        /\ Exists(s)' => Exists(s)

\* What rooms are about is untouched.
RoomsUntouched ==
    \A s \in Session :
        /\ Exists(s)' <=> Exists(s)
        /\ row'[s].st # "absent" <=> row[s].st # "absent"
        /\ row'[s].user = row[s].user /\ row'[s].group = row[s].group
        /\ row'[s].plan = row[s].plan /\ row'[s].host = row[s].host

\* A room stays one while sessions last.
LEMMA RoomLasts ==
    ASSUME SessionsLast, NEW h
    PROVE  /\ IsRoom(h) => IsRoom(h)' /\ row'[h].user = row[h].user
           /\ \A s : InRoom(s, h) => InRoom(s, h)' /\ row'[s].user = row[s].user
BY DEF SessionsLast, IsRoom, InRoom, Exists

\* A request nobody touches is still on its way to its room.
LEMMA HeadingLasts ==
    ASSUME SessionsLast, NEW r \in Request, Heading(r), req'[r] = req[r]
    PROVE  Heading(r)'
BY RoomLasts DEF Heading

\* The same for one that goes on towards its insert.
LEMMA HeadingGoesOn ==
    ASSUME SessionsLast, NEW r \in Request, Heading(r), req[r].pc \notin {"idle", "host"},
           req'[r].kind = req[r].kind, req'[r].host = req[r].host, req'[r].user = req[r].user,
           req'[r].pc \notin {"host", "create"}
    PROVE  Heading(r)'
BY RoomLasts DEF Heading

\* A finished request heads nowhere.
LEMMA IdleHeading ==
    ASSUME TypeOK, NEW r \in Request, Finish(r)
    PROVE  Heading(r)'
<1>1. req'[r] = Idle
  BY DEF Finish, TypeOK
<1> QED
  BY <1>1 DEF Idle, Heading

LEMMA UntouchedLast ==
    ASSUME RoomsUntouched
    PROVE  SessionsLast
BY DEF RoomsUntouched, SessionsLast

LEMMA UntouchedRooms ==
    ASSUME RoomsUntouched, SessionsAssumption, RoomsAreFlat, PlannedRoomsStayPlanned
    PROVE  RoomsAreFlat' /\ PlannedRoomsStayPlanned'
<1>1. \A s : Exists(s) => s \in Session
  BY DEF Exists
<1> QED
  BY <1>1 DEF RoomsUntouched, RoomsAreFlat, PlannedRoomsStayPlanned

\* A close that goes on with the next session keeps where it is heading.
LEMMA ClosedHeading ==
    ASSUME TypeOK, SessionsLast, NEW r \in Request, Heading(r), req[r].pc \notin {"idle", "host"},
           Closed(r)
    PROVE  Heading(r)'
<1>1. CASE req[r].kind \in {"start", "join", "sweep"}
  <2>1. /\ req'[r].kind = req[r].kind /\ req'[r].host = req[r].host
        /\ req'[r].user = req[r].user /\ req'[r].pc = "loop"
    BY <1>1 DEF Closed, TypeOK, Req
  <2> QED
    BY <2>1, HeadingGoesOn
<1>2. CASE req[r].kind \notin {"start", "join", "sweep"}
  BY <1>2, IdleHeading DEF Closed
<1> QED
  BY <1>1, <1>2

\* A join finds a session in a room, or one that is a room.
LEMMA ArriveHeading ==
    ASSUME RoomsInv, NEW r \in Request, Arrive(r)
    PROVE  Heading(r)'
<1> USE DEF Begin, Idle
<1>0. /\ TypeOK /\ SessionsLast /\ row' = row /\ SessionsAssumption
  BY SessionsAssumption DEF RoomsInv, IInv, SessionsLast, Arrive, BeginStart, BeginJoin, BeginEnd,
     BeginAbandon, BeginSample, BeginInterruption, BeginSweep, Exists
<1>1. ASSUME NEW u \in User, NEW plan \in Plans, NEW group \in Groups,
             BeginStart(r, u, plan, group)
      PROVE  Heading(r)'
  BY <1>0, <1>1 DEF BeginStart, TypeOK, Heading
<1>2. ASSUME NEW u \in User, NEW s \in Session, BeginJoin(r, u, s)
      PROVE  Heading(r)'
  <2>1. /\ Exists(s) /\ row[s].group /\ row[s].user # u /\ row[s].st # "absent"
    BY <1>2 DEF BeginJoin, IsOpen, Exists
  <2>2. /\ req'[r].kind = "join" /\ req'[r].user = u /\ req'[r].found = s
        /\ req'[r].pc = IF row[s].host = NoSession THEN "list" ELSE "host"
        /\ req'[r].host = IF row[s].host = NoSession THEN s ELSE row[s].host
    BY <1>0, <1>2 DEF BeginJoin, TypeOK
  <2>3. CASE row[s].host = NoSession
    BY <1>0, <2>1, <2>2, <2>3 DEF Heading, IsRoom
  <2>4. CASE row[s].host # NoSession
    <3>1. LET h == row[s].host IN
            Exists(h) /\ row[h].group /\ row[h].host = NoSession
      BY <2>1, <2>4 DEF RoomsInv, IInv, RoomsAreFlat
    <3>2. IsRoom(row[s].host)
      BY <3>1 DEF IsRoom, Exists
    <3>3. InRoom(s, row[s].host)
      BY <2>1 DEF InRoom
    <3> QED
      BY <1>0, <2>1, <2>2, <2>4, <3>2, <3>3 DEF Heading, IsRoom, InRoom, Exists
  <2> QED
    BY <2>3, <2>4
<1>3. ASSUME req'[r].kind \notin {"start", "join"}, req'[r].pc # "create" PROVE Heading(r)'
  BY <1>3 DEF Heading
<1>4. ASSUME NEW s \in Session, NEW tapped \in Time, BeginEnd(r, s, tapped) PROVE Heading(r)'
  <2>1. req'[r].kind = "end" /\ req'[r].pc = "write"
    BY <1>0, <1>4 DEF BeginEnd, TypeOK
  <2> QED BY <1>3, <2>1
<1>5. ASSUME NEW s \in Session, BeginAbandon(r, s) PROVE Heading(r)'
  <2>1. req'[r].kind = "abandon" /\ req'[r].pc = "loop"
    BY <1>0, <1>5 DEF BeginAbandon, TypeOK
  <2> QED BY <1>3, <2>1
<1>6. ASSUME NEW s \in Session, NEW at \in Time, BeginSample(r, s, at) PROVE Heading(r)'
  <2>1. req'[r].kind = "sample" /\ req'[r].pc = "insert"
    BY <1>0, <1>6 DEF BeginSample, TypeOK
  <2> QED BY <1>3, <2>1
<1>7. ASSUME NEW s \in Session, NEW penalised \in BOOLEAN, BeginInterruption(r, s, penalised)
      PROVE  Heading(r)'
  <2>1. req'[r].kind = "interrupt" /\ req'[r].pc = "insert"
    BY <1>0, <1>7 DEF BeginInterruption, TypeOK
  <2> QED BY <1>3, <2>1
<1>8. ASSUME NEW redisAnswers \in RedisAnswers, BeginSweep(r, redisAnswers) PROVE Heading(r)'
  <2>1. req'[r].kind = "sweep" /\ req'[r].pc = "loop"
    BY <1>0, <1>8 DEF BeginSweep, TypeOK
  <2> QED BY <1>3, <2>1
<1> QED
  BY <1>1, <1>2, <1>4, <1>5, <1>6, <1>7, <1>8 DEF Arrive

\* The steps of a request that leave the sessions alone.
LEMMA QuietHeading ==
    ASSUME RoomsInv, NEW r \in Request,
           \/ ResolveHost(r) \/ ListOpen(r) \/ RereadAbandoned(r)
           \/ \E s \in Session : SettleNext(r, s) \/ SweepNext(r, s)
           \/ SweepDone(r) \/ Settled(r) \/ ReadForScore(r) \/ Gamify(r) \/ Insert(r) \/ Crash(r)
    PROVE  Heading(r)' /\ row' = row
<1>0. /\ TypeOK /\ Heading(r) /\ Known(r) /\ req[r] \in Req
  BY DEF RoomsInv, IInv, AllKnown, TypeOK
<1>1. row' = row
  BY DEF ResolveHost, ListOpen, RereadAbandoned, SettleNext, SweepNext, SweepDone, Settled,
         ReadForScore, Gamify, Insert, Crash
<1>2. SessionsLast
  BY <1>1 DEF SessionsLast, Exists
<1>3. CASE ResolveHost(r)
  <2> DEFINE host == IF Exists(req[r].host) THEN req[r].host ELSE req[r].found
  <2>1. CASE row[host].user = req[r].user
    BY <1>0, <1>3, <2>1, IdleHeading DEF ResolveHost
  <2>2. CASE row[host].user # req[r].user
    <3>1. /\ req'[r].pc = "list" /\ req'[r].host = host /\ req'[r].kind = req[r].kind
          /\ req'[r].user = req[r].user
      BY <1>0, <1>3, <2>2 DEF ResolveHost, TypeOK, Req
    <3>2. req[r].kind = "join" /\ req[r].pc = "host"
      BY <1>0, <1>3 DEF Known, ResolveHost
    <3>3. IsRoom(req[r].host) /\ InRoom(req[r].found, req[r].host)
      BY <1>0, <3>2 DEF Heading
    <3>4. IsRoom(host)
      <4>1. CASE Exists(req[r].host)
        BY <3>3, <4>1
      <4>2. CASE ~ Exists(req[r].host) /\ Exists(req[r].found)
        <5>1. row[req[r].found].host = NoSession
          BY <3>3, <4>2 DEF InRoom, RoomsInv, RoomsAreFlat
        <5> QED
          BY <3>3, <4>2, <5>1 DEF InRoom, IsRoom
      <4>3. CASE ~ Exists(req[r].host) /\ ~ Exists(req[r].found)
        BY <3>3, <4>3 DEF InRoom, IsRoom
      <4> QED
        BY <4>1, <4>2, <4>3
    <3> QED
      BY <1>1, <2>2, <3>1, <3>2, <3>4 DEF Heading, IsRoom, Exists
  <2> QED
    BY <2>1, <2>2
<1>4. ASSUME Finish(r) PROVE Heading(r)'
  BY <1>0, <1>4, IdleHeading
<1>5. ASSUME req[r].pc \notin {"idle", "host"}, req'[r].kind = req[r].kind,
             req'[r].host = req[r].host, req'[r].user = req[r].user,
             req'[r].pc \notin {"host", "create"}
      PROVE  Heading(r)'
  BY <1>0, <1>2, <1>5, HeadingGoesOn
<1>6. CASE ListOpen(r)
  <2>1. /\ req'[r].kind = req[r].kind /\ req'[r].host = req[r].host
        /\ req'[r].user = req[r].user /\ req'[r].pc = "loop"
    BY <1>0, <1>6 DEF ListOpen, TypeOK, Req
  <2> QED
    BY <1>5, <1>6, <2>1 DEF ListOpen
<1>7. ASSUME NEW s, NEW at, NEW todo, ReadToClose(r, s, at, todo), req[r].pc = "loop"
      PROVE  Heading(r)'
  <2>1. /\ req'[r].kind = req[r].kind /\ req'[r].host = req[r].host
        /\ req'[r].user = req[r].user /\ req'[r].pc = "write"
    BY <1>0, <1>7 DEF ReadToClose, TypeOK, Req
  <2> QED
    BY <1>5, <1>7, <2>1
<1>8. CASE RereadAbandoned(r)
  BY <1>4, <1>7, <1>8 DEF RereadAbandoned
<1>9. ASSUME NEW s \in Session, SettleNext(r, s) \/ SweepNext(r, s)
      PROVE  Heading(r)'
  <2> DEFINE rest == req[r].todo \ {s}
  <2>1. \/ \E at : ReadToClose(r, s, at, rest)
        \/ req' = [req EXCEPT ![r].running = TRUE, ![r].todo = rest]
        \/ req' = [req EXCEPT ![r].todo = rest]
    BY <1>9 DEF SettleNext, SweepNext
  <2>2. req[r].pc = "loop"
    BY <1>9 DEF SettleNext, SweepNext
  <2>3. CASE \/ req' = [req EXCEPT ![r].running = TRUE, ![r].todo = rest]
             \/ req' = [req EXCEPT ![r].todo = rest]
    <3>1. /\ req'[r].kind = req[r].kind /\ req'[r].host = req[r].host
          /\ req'[r].user = req[r].user /\ req'[r].pc = "loop"
      BY <1>0, <2>2, <2>3 DEF TypeOK, Req
    <3> QED
      BY <1>5, <2>2, <3>1
  <2> QED
    BY <1>7, <2>1, <2>2, <2>3
<1>10. CASE SweepDone(r) \/ Insert(r) \/ Crash(r)
  BY <1>4, <1>10 DEF SweepDone, Insert, Crash
<1>11. CASE Settled(r)
  <2>1. CASE Finish(r)
    BY <1>1, <1>4, <2>1
  <2>2. CASE ~ Finish(r)
    <3>1. /\ req'[r].kind = req[r].kind /\ req'[r].host = req[r].host
          /\ req'[r].user = req[r].user /\ req'[r].pc = "create"
          /\ req[r].kind \in {"start", "join"} /\ req[r].pc = "loop"
      BY <1>0, <1>11, <2>2 DEF Settled, TypeOK, Req
    <3> QED
      BY <1>0, <1>1, <1>2, <3>1, RoomLasts DEF Heading
  <2> QED
    BY <2>1, <2>2
<1>12. CASE ReadForScore(r)
  <2>1. /\ req'[r].kind = req[r].kind /\ req'[r].host = req[r].host
        /\ req'[r].user = req[r].user /\ req'[r].pc \in {"scored", "credit"}
    BY <1>0, <1>12 DEF ReadForScore, TypeOK, Req
  <2> QED
    BY <1>5, <1>12, <2>1 DEF ReadForScore
<1>13. CASE Gamify(r)
  BY <1>0, <1>2, <1>13, ClosedHeading DEF Gamify
<1> QED
  BY <1>1, <1>3, <1>6, <1>8, <1>9, <1>10, <1>11, <1>12, <1>13

\* A close writes nothing a room is about.
LEMMA CloseRooms ==
    ASSUME RoomsInv, NEW r \in Request, WriteEnd(r) \/ WriteScore(r)
    PROVE  RoomsUntouched /\ Heading(r)'
<1>0. /\ TypeOK /\ Heading(r) /\ req[r] \in Req /\ row \in [Session -> Row]
  BY DEF RoomsInv, IInv, TypeOK
<1>1. RoomsUntouched
  <2>1. CASE WriteEnd(r)
    <3>1. CASE ~ Exists(req[r].sid)
      BY <2>1, <3>1 DEF WriteEnd, RoomsUntouched, Exists
    <3>2. CASE Exists(req[r].sid)
      <4>1. row' = [row EXCEPT ![req[r].sid] =
                     [@ EXCEPT !.st = "ended", !.end = req[r].at,
                               !.points = FocusPoints(row[req[r].sid].start, req[r].at,
                                                      req[r].penalties)]]
        BY <2>1, <3>2 DEF WriteEnd
      <4>2. ASSUME NEW s \in Session
            PROVE  /\ s = req[r].sid => row'[s].st = "ended"
                   /\ s # req[r].sid => row'[s].st = row[s].st
                   /\ row'[s].user = row[s].user /\ row'[s].group = row[s].group
                   /\ row'[s].plan = row[s].plan /\ row'[s].host = row[s].host
        BY <1>0, <4>1 DEF Row
      <4> QED
        BY <3>2, <4>2 DEF RoomsUntouched, Exists
    <3> QED
      BY <3>1, <3>2
  <2>2. CASE WriteScore(r)
    BY <1>0, <2>2 DEF WriteScore, RoomsUntouched, Exists, Row
  <2> QED
    BY <2>1, <2>2
<1>2. req[r].pc \in {"write", "scored"}
  BY DEF WriteEnd, WriteScore
<1>3. \/ Closed(r)
      \/ req'[r].kind = req[r].kind /\ req'[r].host = req[r].host
         /\ req'[r].user = req[r].user /\ req'[r].pc \in {"score", "credit"}
  BY <1>0 DEF WriteEnd, WriteScore, TypeOK, Req
<1> QED
  BY <1>0, <1>1, <1>2, <1>3, UntouchedLast, ClosedHeading, HeadingGoesOn

\* The insert: into a room that is still there, on what is left of its plan.
LEMMA CreateRooms ==
    ASSUME RoomsInv, NEW r \in Request, NEW s \in Session, CreateSession(r, s)
    PROVE  SessionsLast /\ RoomsAreFlat' /\ PlannedRoomsStayPlanned' /\ Heading(r)'
<1>0. /\ TypeOK /\ Heading(r) /\ req[r] \in Req /\ row \in [Session -> Row] /\ now \in Nat
      /\ SessionsAssumption
  BY SessionsAssumption, Times DEF RoomsInv, IInv, TypeOK
<1>1. Heading(r)'
  BY <1>0, IdleHeading DEF CreateSession
<1>2. CASE row' = row
  <2>1. RoomsUntouched
    BY <1>2 DEF RoomsUntouched, Exists
  <2> QED
    BY <1>0, <1>1, <2>1, UntouchedLast, UntouchedRooms DEF RoomsInv, IInv
<1>3. CASE row' # row
  <2>1. /\ \A t \in Session \ {s} : row'[t] = row[t]
        /\ row[s].st = "absent" /\ row'[s].st = "open" /\ row'[s].user = req[r].user
        /\ row'[s].host = req[r].host
    BY <1>0, <1>3 DEF CreateSession, Row
  <2>2. SessionsLast
    BY <2>1 DEF SessionsLast, Exists
  <2>3. \A t \in Session \ {s} : (Exists(t)' <=> Exists(t)) /\ t # s
    BY <2>1 DEF Exists
  <2>4. ~ Exists(s)
    BY <2>1 DEF Exists
  <2>5. ASSUME NEW t \in Session \ {s}, Exists(t)', row'[t].host # NoSession
        PROVE  Linked(t, row[t].host)'
    <3>1. Linked(t, row[t].host)
      BY <2>1, <2>3, <2>5 DEF RoomsInv, RoomsAreFlat, PlannedRoomsStayPlanned, Linked
    <3>2. row[t].host \in Session \ {s}
      BY <2>4, <3>1 DEF Linked, Exists
    <3> QED
      BY <2>1, <2>3, <3>1, <3>2 DEF Linked
  <2>6. ASSUME row'[s].host # NoSession
        PROVE  Linked(s, row[s].host)'
    <3>1. req[r].kind = "join" /\ req[r].pc = "create"
      BY <1>0, <2>1, <2>6 DEF Heading, CreateSession
    <3>2. Exists(req[r].host)
      BY <1>3, <3>1 DEF CreateSession
    <3>3. /\ row[req[r].host].group /\ row[req[r].host].host = NoSession
          /\ row[req[r].host].user # req[r].user /\ req[r].host \in Session \ {s}
      BY <1>0, <2>4, <3>1, <3>2 DEF Heading, IsRoom
    <3>4. row'[s].plan = RemainingPlan(row[req[r].host].plan, row[req[r].host].start, now)
      BY <1>0, <1>3, <3>1, <3>2 DEF CreateSession, Row
    <3>5. row[req[r].host].plan \in Nat /\ row[req[r].host].start \in Nat
      BY <1>0, <3>3, Times DEF Row
    <3>6. row'[s].plan = NoPlan <=> row[req[r].host].plan = NoPlan
      BY <1>0, <3>4, <3>5 DEF RemainingPlan, NoPlan, AtLeast
    <3> QED
      BY <2>1, <2>3, <3>2, <3>3, <3>6 DEF Linked
  <2>7. RoomsAreFlat'
    BY <2>5, <2>6 DEF RoomsAreFlat, Linked
  <2>8. PlannedRoomsStayPlanned'
    BY <2>5, <2>6 DEF Linked, PlannedRoomsStayPlanned
  <2> QED
    BY <1>1, <2>2, <2>7, <2>8
<1> QED
  BY <1>2, <1>3

\* A delete empties the room it takes the host from, and leaves the others.
LEMMA DeleteRooms ==
    ASSUME RoomsInv, NEW s \in Session, DeleteSession(s)
    PROVE  SessionsLast /\ RoomsAreFlat' /\ PlannedRoomsStayPlanned'
<1>0. row \in [Session -> Row] /\ SessionsAssumption /\ Exists(s)
  BY SessionsAssumption DEF RoomsInv, IInv, TypeOK, DeleteSession
<1>1. /\ row'[s].st = "deleted" /\ row'[s].user = row[s].user
      /\ row'[s].group = row[s].group /\ row'[s].host = row[s].host
  BY <1>0 DEF DeleteSession, Row
<1>2. \A t \in Session \ {s} :
        /\ row'[t].st = row[t].st /\ row'[t].user = row[t].user /\ row'[t].plan = row[t].plan
        /\ row'[t].group = row[t].group
        /\ row'[t].host = IF row[t].host = s THEN NoSession ELSE row[t].host
  BY <1>0 DEF DeleteSession, Row
<1>3. ~ Exists(s)' /\ \A t \in Session \ {s} : (Exists(t)' <=> Exists(t))
  BY <1>1, <1>2 DEF Exists
<1>4. SessionsLast
  BY <1>1, <1>2, <1>3 DEF SessionsLast
<1>5. ASSUME NEW t \in Session, Exists(t)', row'[t].host # NoSession
      PROVE  Linked(t, row[t].host)'
  <2>1. t # s /\ row[t].host # s /\ row'[t].host = row[t].host /\ Exists(t)
    BY <1>2, <1>3, <1>5
  <2>2. Linked(t, row[t].host)
    BY <1>5, <2>1 DEF RoomsInv, RoomsAreFlat, PlannedRoomsStayPlanned, Linked
  <2>3. row[t].host \in Session \ {s}
    BY <2>1, <2>2 DEF Linked, Exists
  <2> QED
    BY <1>2, <1>3, <2>1, <2>2, <2>3 DEF Linked
<1>6. RoomsAreFlat'
  BY <1>5 DEF RoomsAreFlat, Linked
<1>7. PlannedRoomsStayPlanned'
  BY <1>5 DEF Linked, PlannedRoomsStayPlanned
<1> QED
  BY <1>4, <1>6, <1>7

LEMMA RoomsStep == RoomsInv /\ [Next]_vars => RoomsInv'
<1> SUFFICES ASSUME RoomsInv, [Next]_vars PROVE RoomsInv'
  OBVIOUS
<1>0. /\ IInv /\ IInv' /\ TypeOK /\ SessionsAssumption
      /\ RoomsAreFlat /\ PlannedRoomsStayPlanned /\ \A r \in Request : Heading(r)
  BY InvariantStep, SessionsAssumption DEF RoomsInv, IInv
<1>1. ASSUME RoomsUntouched PROVE SessionsLast /\ RoomsAreFlat' /\ PlannedRoomsStayPlanned'
  BY <1>0, <1>1, UntouchedLast, UntouchedRooms
<1>2. ASSUME row' = row PROVE RoomsUntouched
  BY <1>2 DEF RoomsUntouched, Exists
<1>3. ASSUME NEW r \in Request, Arrive(r) \/ Proceed(r) \/ Crash(r)
      PROVE  SessionsLast /\ RoomsAreFlat' /\ PlannedRoomsStayPlanned' /\ Heading(r)'
  <2>1. CASE Arrive(r)
    <3>1. row' = row
      BY <2>1 DEF Arrive, BeginStart, BeginJoin, BeginEnd, BeginAbandon, BeginSample,
                  BeginInterruption, BeginSweep
    <3> QED
      BY <1>1, <1>2, <2>1, <3>1, ArriveHeading
  <2>2. CASE Crash(r)
    BY <1>1, <1>2, <2>2, QuietHeading
  <2>3. CASE Proceed(r)
    BY <1>1, <1>2, <2>3, QuietHeading, CloseRooms, CreateRooms DEF Proceed
  <2> QED
    BY <1>3, <2>1, <2>2, <2>3
<1>4. ASSUME NEW r \in Request, Arrive(r) \/ Proceed(r) \/ Crash(r)
      PROVE  RoomsAreFlat' /\ PlannedRoomsStayPlanned' /\ \A q \in Request : Heading(q)'
  BY <1>0, <1>3, <1>4, OthersStay, HeadingLasts
<1>5. ASSUME NEW s \in Session, DeleteSession(s)
      PROVE  RoomsAreFlat' /\ PlannedRoomsStayPlanned' /\ \A q \in Request : Heading(q)'
  BY <1>0, <1>5, DeleteRooms, HeadingLasts DEF DeleteSession
<1>6. CASE Tick \/ UNCHANGED vars
  <2>1. row' = row /\ req' = req
    BY <1>6 DEF Tick, vars
  <2> QED
    BY <1>0, <1>1, <1>2, <2>1, HeadingLasts DEF RoomsInv
<1> QED
  BY <1>0, <1>4, <1>5, <1>6 DEF Next, RoomsInv

LEMMA RoomsInit == Init => RoomsInv
<1> SUFFICES ASSUME Init PROVE RoomsInv
  OBVIOUS
<1>1. \A s : ~ Exists(s)
  BY DEF Init, Exists
<1>2. \A r \in Request : Heading(r)
  BY DEF Init, Heading, Idle
<1> QED
  BY <1>1, <1>2, InitInvariant DEF RoomsInv, RoomsAreFlat, PlannedRoomsStayPlanned

\* A room is one live host and the people who joined it, all on a plan if the host
\* is on one, whatever is closed or deleted while somebody joins (joinSession).
THEOREM RoomsAlwaysHold == Spec => []RoomsHold
<1>1. RoomsInv => RoomsHold
  BY DEF RoomsInv, RoomsHold
<1> QED
  BY <1>1, RoomsInit, RoomsStep, PTL DEF Spec

(***************************************************************************)
(* While requests do not overlap: the handlers guard nothing themselves,   *)
(* so this is what they do promise, to any number of people and sessions.  *)
(***************************************************************************)

Working(r) == req[r].pc # "idle"
Closing(r) == req[r].pc \in {"score", "scored", "credit"}

\* At most one request is at work.
Alone == \A r, q \in Request : Working(r) /\ Working(q) => r = q

\* A session not yet closed is not credited, and none is twice.
Uncredited == \A s \in Session : row[s].st \in {"absent", "open"} => credits[s] = 0

\* A request closes a session that nobody closed, and credits it after that.
AtWork(r) ==
    /\ req[r].pc = "write" \/ (req[r].pc = "loop" /\ req[r].kind = "abandon") =>
         req[r].sid \in Session /\ row[req[r].sid].st \in {"open", "deleted"}
                                /\ credits[req[r].sid] = 0
    /\ Closing(r) =>
         req[r].sid \in Session /\ row[req[r].sid].st \in {"ended", "deleted"}
                                /\ credits[req[r].sid] = 0

\* What a sweep has read is still so.
SweepSees(r) ==
    Working(r) /\ req[r].kind = "sweep" =>
        /\ \A s \in req[r].todo : req[r].last[s] = LastSign(s)
        /\ req[r].pc = "write" => now - LastSign(req[r].sid) >= SweepSilence

\* The open sessions of somebody who starts or joins are those still to settle,
\* unless one is running.
Cleared(r) ==
    /\ /\ req[r].kind \in {"start", "join"} /\ ~ req[r].running
       /\ req[r].pc = "loop" \/ req[r].pc = "write" \/ Closing(r)
       => \A s \in OpenOf(req[r].user) :
            s \in req[r].todo \/ (req[r].pc = "write" /\ s = req[r].sid)
    /\ req[r].pc = "create" => OpenOf(req[r].user) = {}

\* The score and the credit of a closed session are there, or on their way.
Accounted(s) ==
    crashes = 0 /\ row[s].st = "ended" =>
        \/ row[s].scored = row[s].end /\ credits[s] > 0
        \/ \E r \in Request :
             /\ req[r].sid = s
             /\ \/ req[r].pc = "score"
                \/ req[r].pc = "scored" /\ req[r].scored = row[s].end
                \/ req[r].pc = "credit" /\ row[s].scored = row[s].end

OneOpen == \A s, t \in Session : IsOpen(s) /\ IsOpen(t) /\ row[s].user = row[t].user => s = t

Serially ==
    /\ Alone /\ Uncredited /\ CreditedOnce /\ OneOpen
    /\ \A r \in Request : AtWork(r) /\ SweepSees(r) /\ Cleared(r)
    /\ \A s \in Session : Accounted(s)

-----------------------------------------------------------------------------
\* With one request at work only it has to be looked at.
LEMMA OnlyMover ==
    ASSUME NEW r \in Request, \A q \in Request \ {r} : req'[q].pc = "idle",
           AtWork(r)', SweepSees(r)', Cleared(r)'
    PROVE  Alone' /\ \A q \in Request : AtWork(q)' /\ SweepSees(q)' /\ Cleared(q)'
<1>1. Alone'
  BY DEF Alone, Working
<1>2. ASSUME NEW q \in Request \ {r} PROVE AtWork(q)' /\ SweepSees(q)' /\ Cleared(q)'
  BY DEF AtWork, Closing, SweepSees, Working, Cleared
<1> QED
  BY <1>1, <1>2

\* The others are idle while r is at work, and stay so.
LEMMA OthersIdle ==
    ASSUME TypeOK, Serially, NEW r \in Request, Working(r), Proceed(r) \/ Crash(r)
    PROVE  /\ \A q \in Request \ {r} : req[q].pc = "idle" /\ req'[q].pc = "idle"
BY OthersStay DEF Serially, Alone, Working

LEMMA ProceedsWorking ==
    ASSUME NEW r \in Request, Proceed(r)
    PROVE  Working(r)
BY DEF Proceed, Working, ResolveHost, ListOpen, RereadAbandoned, SettleNext, SweepNext,
   CreateSession, SweepDone, Settled, WriteEnd, ReadForScore, WriteScore, Gamify, Insert

\* The parts that are about sessions, when no row, credit or crash changed and
\* nobody who was closing one moved.
LEMMA SessionsStay ==
    ASSUME Serially, UNCHANGED <<row, credits, crashes>>,
           \A r \in Request : ~ Closing(r)
    PROVE  Uncredited' /\ CreditedOnce' /\ OneOpen' /\ \A s \in Session : Accounted(s)'
<1>1. ASSUME NEW s \in Session PROVE Accounted(s)'
  BY DEF Serially, Accounted, Closing
<1> QED
  BY <1>1 DEF Serially, Uncredited, CreditedOnce, OneOpen, IsOpen

\* A finished request.
LEMMA FinishedIdle ==
    ASSUME TypeOK, NEW r \in Request, Finish(r)
    PROVE  req'[r].pc = "idle" /\ AtWork(r)' /\ SweepSees(r)' /\ Cleared(r)'
<1>1. req'[r].pc = "idle"
  BY DEF TypeOK, Finish, Idle
<1> QED
  BY <1>1 DEF AtWork, Closing, SweepSees, Working, Cleared

\* A step that neither closes nor writes: lists, refusals, sessions left alone.
LEMMA QuietStep ==
    ASSUME TypeOK, Serially, NEW r \in Request, Proceed(r),
           UNCHANGED <<now, row, signs, credits, crashes>>, ~ Closing(r),
           AtWork(r)', SweepSees(r)', Cleared(r)'
    PROVE  Serially'
<1>1. \A q \in Request \ {r} : req[q].pc = "idle" /\ req'[q].pc = "idle"
  BY OthersIdle, ProceedsWorking
<1>2. \A q \in Request : ~ Closing(q)
  BY <1>1 DEF Closing
<1>3. Uncredited' /\ CreditedOnce' /\ OneOpen' /\ \A s \in Session : Accounted(s)'
  BY <1>2, SessionsStay
<1>4. Alone' /\ \A q \in Request : AtWork(q)' /\ SweepSees(q)' /\ Cleared(q)'
  BY <1>1, OnlyMover
<1> QED
  BY <1>3, <1>4 DEF Serially

\* A request that arrives when nobody is at work.
LEMMA ArriveStep ==
    ASSUME TypeOK, Serially, NEW r \in Request, Arrive(r), serial'
    PROVE  Serially'
<1> USE DEF Begin, Idle
<1>1. /\ UNCHANGED <<now, row, signs, credits, crashes>>
      /\ \A q \in Request : req[q].pc = "idle"
  BY DEF Arrive, BeginStart, BeginJoin, BeginEnd, BeginAbandon, BeginSample,
         BeginInterruption, BeginSweep
<1>2. \A q \in Request \ {r} : req'[q].pc = "idle"
  BY <1>1, OthersStay
<1>3. Uncredited' /\ CreditedOnce' /\ OneOpen' /\ \A s \in Session : Accounted(s)'
  BY <1>1, SessionsStay DEF Closing
<1>4. AtWork(r)' /\ SweepSees(r)' /\ Cleared(r)'
  <2>1. ASSUME NEW u \in User, NEW plan \in Plans, NEW group \in Groups,
               BeginStart(r, u, plan, group)
        PROVE  AtWork(r)' /\ SweepSees(r)' /\ Cleared(r)'
    <3>1. /\ req'[r].pc = "loop" /\ req'[r].kind = "start" /\ req'[r].user = u
          /\ req'[r].todo = OpenOf(u)
      BY <2>1 DEF BeginStart, TypeOK
    <3>2. OpenOf(u)' = OpenOf(u)
      BY <1>1 DEF OpenOf, IsOpen
    <3> QED
      BY <3>1, <3>2 DEF AtWork, Closing, SweepSees, Cleared
  <2>2. ASSUME NEW u \in User, NEW s \in Session, BeginJoin(r, u, s)
        PROVE  AtWork(r)' /\ SweepSees(r)' /\ Cleared(r)'
    <3>1. req'[r].pc \in {"list", "host"} /\ req'[r].kind = "join"
      BY <2>2 DEF BeginJoin, TypeOK
    <3> QED
      BY <3>1 DEF AtWork, Closing, SweepSees, Cleared
  <2>3. ASSUME NEW s \in Session, NEW tapped \in Time, BeginEnd(r, s, tapped)
        PROVE  AtWork(r)' /\ SweepSees(r)' /\ Cleared(r)'
    <3>1. /\ req'[r].pc = "write" /\ req'[r].kind = "end" /\ req'[r].sid = s
          /\ row[s].st = "open"
      BY <2>3 DEF BeginEnd, IsOpen, TypeOK
    <3>2. credits[s] = 0
      BY <3>1 DEF Serially, Uncredited
    <3> QED
      BY <1>1, <3>1, <3>2 DEF AtWork, Closing, SweepSees, Cleared
  <2>4. ASSUME NEW s \in Session, BeginAbandon(r, s)
        PROVE  AtWork(r)' /\ SweepSees(r)' /\ Cleared(r)'
    <3>1. /\ req'[r].pc = "loop" /\ req'[r].kind = "abandon" /\ req'[r].sid = s
          /\ row[s].st = "open"
      BY <2>4 DEF BeginAbandon, IsOpen, TypeOK
    <3>2. credits[s] = 0
      BY <3>1 DEF Serially, Uncredited
    <3> QED
      BY <1>1, <3>1, <3>2 DEF AtWork, Closing, SweepSees, Cleared
  <2>5. ASSUME NEW s \in Session, NEW at \in Time, BeginSample(r, s, at)
        PROVE  AtWork(r)' /\ SweepSees(r)' /\ Cleared(r)'
    <3>1. req'[r].pc = "insert" /\ req'[r].kind = "sample"
      BY <2>5 DEF BeginSample, TypeOK
    <3> QED
      BY <3>1 DEF AtWork, Closing, SweepSees, Cleared
  <2>7. ASSUME NEW s \in Session, NEW penalised \in BOOLEAN,
               BeginInterruption(r, s, penalised)
        PROVE  AtWork(r)' /\ SweepSees(r)' /\ Cleared(r)'
    <3>1. req'[r].pc = "insert" /\ req'[r].kind = "interrupt"
      BY <2>7 DEF BeginInterruption, TypeOK
    <3> QED
      BY <3>1 DEF AtWork, Closing, SweepSees, Cleared
  <2>6. ASSUME NEW redisAnswers \in RedisAnswers, BeginSweep(r, redisAnswers)
        PROVE  AtWork(r)' /\ SweepSees(r)' /\ Cleared(r)'
    <3> DEFINE candidates ==
                 {s \in Session : IsOpen(s) /\ row[s].start < now - SweepSilence}
    <3>1. /\ req'[r].todo = candidates /\ req'[r].last = Activity(candidates)
          /\ req'[r].pc = "loop" /\ req'[r].kind = "sweep"
      BY <2>6 DEF BeginSweep, TypeOK
    <3>2. candidates \subseteq Session
      OBVIOUS
    <3> HIDE DEF candidates
    <3>3. \A s \in candidates : Activity(candidates)[s] = LastSign(s)'
      BY <1>1, <3>2 DEF Activity, LastSign
    <3> QED
      BY <3>1, <3>3 DEF AtWork, Closing, SweepSees, Cleared
  <2> QED
    BY <2>1, <2>2, <2>3, <2>4, <2>5, <2>6, <2>7 DEF Arrive
<1>5. Alone' /\ \A q \in Request : AtWork(q)' /\ SweepSees(q)' /\ Cleared(q)'
  BY <1>2, <1>4, OnlyMover
<1> QED
  BY <1>3, <1>5 DEF Serially

-----------------------------------------------------------------------------
\* joinSession up to its list.
LEMMA JoinStep ==
    ASSUME TypeOK, Serially, NEW r \in Request, Known(r), ResolveHost(r) \/ ListOpen(r)
    PROVE  Serially'
<1>1. /\ UNCHANGED <<now, row, signs, credits, crashes>> /\ ~ Closing(r)
      /\ req[r].kind = "join" /\ req[r] \in Req
  BY DEF ResolveHost, ListOpen, Closing, Known, TypeOK
<1>2. AtWork(r)' /\ SweepSees(r)' /\ Cleared(r)'
  <2>1. CASE ResolveHost(r)
    <3>1. Finish(r) \/ (req'[r].pc = "list" /\ req'[r].kind = "join")
      BY <1>1, <2>1 DEF ResolveHost, TypeOK, Req
    <3> QED
      BY <3>1, FinishedIdle DEF AtWork, Closing, SweepSees, Cleared
  <2>2. CASE ListOpen(r)
    <3>1. /\ req'[r].pc = "loop" /\ req'[r].kind = "join" /\ req'[r].user = req[r].user
          /\ req'[r].todo = OpenOf(req[r].user)
      BY <1>1, <2>2 DEF ListOpen, TypeOK, Req
    <3>2. \A u : OpenOf(u)' = OpenOf(u)
      BY <1>1 DEF OpenOf, IsOpen
    <3> QED
      BY <3>1, <3>2 DEF AtWork, Closing, SweepSees, Cleared
  <2> QED
    BY <2>1, <2>2
<1> QED
  BY <1>1, <1>2, QuietStep DEF Proceed

\* Whoever reads a session to close it has found it open.
LEMMA ReadToCloseStep ==
    ASSUME TypeOK, Serially, NEW r \in Request, Proceed(r), req[r].pc = "loop",
           UNCHANGED <<now, row, signs, credits, crashes>>,
           NEW s \in Session, NEW at \in Time, NEW todo \in SUBSET req[r].todo,
           ReadToClose(r, s, at, todo), IsOpen(s),
           req[r].kind = "sweep" => now - LastSign(s) >= SweepSilence,
           req[r].kind \in {"start", "join"} => todo = req[r].todo \ {s}
    PROVE  Serially'
<1>1. /\ req'[r].pc = "write" /\ req'[r].sid = s /\ req'[r].todo = todo
      /\ req'[r].last = req[r].last /\ req'[r].kind = req[r].kind
      /\ req'[r].user = req[r].user /\ req'[r].running = req[r].running
  BY DEF ReadToClose, TypeOK, Req
<1>2. credits[s] = 0 /\ row[s].st = "open"
  BY DEF Serially, Uncredited, IsOpen
<1>3. AtWork(r)'
  BY <1>1, <1>2 DEF AtWork, Closing
<1>4. \A t \in Session : LastSign(t)' = LastSign(t)
  BY DEF LastSign
<1>5. SweepSees(r)'
  <2>1. \A t \in todo : t \in Session /\ t \in req[r].todo
    BY DEF TypeOK, Req
  <2>2. req[r].kind = "sweep" => \A t \in req[r].todo : req[r].last[t] = LastSign(t)
    BY DEF Serially, SweepSees, Working
  <2> QED
    BY <1>1, <1>4, <2>1, <2>2 DEF SweepSees
<1>6. Cleared(r)'
  <2>1. \A u : OpenOf(u)' = OpenOf(u)
    BY DEF OpenOf, IsOpen
  <2>2. Cleared(r)
    BY DEF Serially
  <2> QED
    BY <1>1, <2>1, <2>2 DEF Cleared
<1> QED
  BY <1>3, <1>5, <1>6, QuietStep DEF Closing

LEMMA AbandonStep ==
    ASSUME TypeOK, Serially, NEW r \in Request, RereadAbandoned(r)
    PROVE  Serially'
<1>1. /\ UNCHANGED <<now, row, signs, credits, crashes>> /\ req[r].pc = "loop"
      /\ req[r].kind = "abandon" /\ Proceed(r)
  BY DEF RereadAbandoned, Proceed
<1>2. CASE Exists(req[r].sid)
  <2> DEFINE s == req[r].sid
  <2>1. s \in Session /\ IsOpen(s)
    BY <1>1, <1>2 DEF Exists, IsOpen, Serially, AtWork
  <2>2. req[r].last[s] \in Time /\ {} \in SUBSET req[r].todo
    BY <2>1 DEF TypeOK, Req
  <2>3. ReadToClose(r, s, req[r].last[s], {})
    BY <1>2 DEF RereadAbandoned
  <2> QED
    BY <1>1, <2>1, <2>2, <2>3, ReadToCloseStep
<1>3. CASE ~ Exists(req[r].sid)
  BY <1>1, <1>3, FinishedIdle, QuietStep DEF RereadAbandoned, Closing
<1> QED
  BY <1>2, <1>3

\* One turn of settleOpenSessions.
LEMMA SettleStep ==
    ASSUME TypeOK, Serially, NEW r \in Request, NEW s \in Session, SettleNext(r, s)
    PROVE  Serially'
<1> DEFINE rest == req[r].todo \ {s}
<1>1. /\ UNCHANGED <<now, row, signs, credits, crashes>> /\ req[r].pc = "loop"
      /\ req[r].kind \in {"start", "join"} /\ s \in req[r].todo /\ req[r] \in Req /\ Proceed(r)
  BY DEF SettleNext, Proceed, TypeOK
<1>2. CASE ReadToClose(r, s, req[r].last[s], rest) /\ IsOpen(s)
  <2>1. req[r].last[s] \in Time /\ rest \in SUBSET req[r].todo
    BY <1>1 DEF Req
  <2> QED
    BY <1>1, <1>2, <2>1, ReadToCloseStep
<1>3. CASE /\ req'[r].todo = rest /\ req'[r].pc = "loop" /\ req'[r].kind = req[r].kind
           /\ req'[r].user = req[r].user
           /\ req'[r].running \/ (~ IsOpen(s) /\ req'[r].running = req[r].running)
  <2>1. AtWork(r)' /\ SweepSees(r)'
    BY <1>1, <1>3 DEF AtWork, Closing, SweepSees
  <2>2. \A u : OpenOf(u)' = OpenOf(u)
    BY <1>1 DEF OpenOf, IsOpen
  <2>3. Cleared(r)'
    <3>1. Cleared(r) /\ \A t \in OpenOf(req[r].user) : IsOpen(t)
      BY DEF Serially, OpenOf
    <3> QED
      BY <1>1, <1>3, <2>2, <3>1 DEF Cleared
  <2> QED
    BY <1>1, <2>1, <2>3, QuietStep DEF Closing
<1>4. \/ ReadToClose(r, s, req[r].last[s], rest) /\ IsOpen(s)
      \/ /\ req'[r].todo = rest /\ req'[r].pc = "loop" /\ req'[r].kind = req[r].kind
         /\ req'[r].user = req[r].user
         /\ req'[r].running \/ (~ IsOpen(s) /\ req'[r].running = req[r].running)
  BY <1>1 DEF SettleNext, TypeOK, Req
<1> QED
  BY <1>2, <1>3, <1>4

\* One turn of the sweep closes only what is silent now.
LEMMA SweepStep ==
    ASSUME TypeOK, Serially, NEW r \in Request, NEW s \in Session, SweepNext(r, s)
    PROVE  Serially'
<1> DEFINE rest == req[r].todo \ {s}
           due == SweepDue(row[s].start, row[s].plan, req[r].last[s], now)
<1>1. /\ UNCHANGED <<now, row, signs, credits, crashes>> /\ req[r].pc = "loop"
      /\ req[r].kind = "sweep" /\ s \in req[r].todo /\ req[r] \in Req /\ Proceed(r)
  BY DEF SweepNext, Proceed, TypeOK
<1>2. SweepSees(r) /\ req[r].last[s] = LastSign(s)
  BY <1>1 DEF Serially, SweepSees, Working
<1>3. CASE ReadToClose(r, s, req[r].last[s], rest) /\ IsOpen(s) /\ due
  <2>1. req[r].last[s] \in Time /\ rest \in SUBSET req[r].todo
    BY <1>1 DEF Req
  <2>2. now - LastSign(s) >= SweepSilence
    BY <1>2, <1>3 DEF SweepDue
  <2> HIDE DEF rest, due
  <2> QED
    BY <1>1, <1>3, <2>1, <2>2, ReadToCloseStep
<1>4. CASE /\ req'[r].todo = rest /\ req'[r].pc = "loop" /\ req'[r].kind = "sweep"
           /\ req'[r].last = req[r].last
  <2>1. \A t \in Session : LastSign(t)' = LastSign(t)
    BY <1>1 DEF LastSign
  <2>2. \A t \in rest : t \in Session /\ req[r].last[t] = LastSign(t)
    BY <1>1, <1>2 DEF SweepSees, Working, Req
  <2>3. AtWork(r)' /\ SweepSees(r)' /\ Cleared(r)'
    BY <1>4, <2>1, <2>2 DEF AtWork, Closing, SweepSees, Cleared
  <2> QED
    BY <1>1, <2>3, QuietStep DEF Closing
<1>5. \/ ReadToClose(r, s, req[r].last[s], rest) /\ IsOpen(s) /\ due
      \/ /\ req'[r].todo = rest /\ req'[r].pc = "loop" /\ req'[r].kind = "sweep"
         /\ req'[r].last = req[r].last
  BY <1>1 DEF SweepNext, TypeOK, Req
<1> QED
  BY <1>3, <1>4, <1>5

\* The end of a sweep, and of settleOpenSessions.
LEMMA LoopDoneStep ==
    ASSUME TypeOK, Serially, NEW r \in Request, SweepDone(r) \/ Settled(r)
    PROVE  Serially'
<1>1. /\ UNCHANGED <<now, row, signs, credits, crashes>> /\ req[r].pc = "loop"
      /\ req[r].todo = {} /\ req[r] \in Req /\ Proceed(r)
  BY DEF SweepDone, Settled, Proceed, TypeOK
<1>2. CASE Finish(r)
  BY <1>1, <1>2, FinishedIdle, QuietStep DEF Closing
<1>3. CASE Settled(r) /\ ~ req[r].running
  <2>1. /\ req' = [req EXCEPT ![r].pc = "create", ![r].last = NeverActive]
        /\ req[r].kind \in {"start", "join"}
    BY <1>3 DEF Settled
  <2> HIDE DEF NeverActive
  <2>2. /\ req'[r].pc = "create" /\ req'[r].kind = req[r].kind
        /\ req'[r].user = req[r].user /\ req'[r].todo = {}
    BY <1>1, <2>1 DEF TypeOK, Req
  <2>3. OpenOf(req[r].user) = {}
    BY <1>1, <1>3, <2>1 DEF Serially, Cleared
  <2>4. \A u : OpenOf(u)' = OpenOf(u)
    BY <1>1 DEF OpenOf, IsOpen
  <2>5. AtWork(r)' /\ SweepSees(r)' /\ Cleared(r)'
    BY <1>1, <2>1, <2>2, <2>3, <2>4 DEF AtWork, Closing, SweepSees, Cleared
  <2> QED
    BY <1>1, <2>5, QuietStep DEF Closing
<1> QED
  BY <1>2, <1>3 DEF SweepDone, Settled

\* Creating: the user has no session open, and the new one no credit.
LEMMA CreateStep ==
    ASSUME TypeOK, Serially, NEW r \in Request, NEW s \in Session, CreateSession(r, s)
    PROVE  Serially'
<1>1. /\ UNCHANGED <<now, signs, credits, crashes>> /\ req[r].pc = "create"
      /\ row[s].st = "absent" /\ Proceed(r) /\ Finish(r) /\ row[s] \in Row
  BY DEF CreateSession, Proceed, TypeOK
<1>2. \A q \in Request \ {r} : req[q].pc = "idle" /\ req'[q].pc = "idle"
  BY <1>1, OthersIdle, ProceedsWorking
<1>3. \/ UNCHANGED row
      \/ /\ \A t \in Session \ {s} : row'[t] = row[t]
         /\ row'[s].st = "open" /\ row'[s].user = req[r].user
  BY <1>1 DEF CreateSession, TypeOK, Row
<1>4. ~ Closing(r) /\ \A q \in Request : ~ Closing(q)
  BY <1>1, <1>2 DEF Closing
<1>5. CASE UNCHANGED row
  BY <1>1, <1>4, <1>5, FinishedIdle, QuietStep
<1>6. CASE /\ \A t \in Session \ {s} : row'[t] = row[t]
           /\ row'[s].st = "open" /\ row'[s].user = req[r].user
  <2>1. Uncredited' /\ CreditedOnce'
    BY <1>1, <1>6 DEF Serially, Uncredited, CreditedOnce
  <2>2. OneOpen'
    <3>1. \A t \in Session : ~ (row[t].st = "open" /\ row[t].user = req[r].user)
      BY <1>1 DEF Serially, Cleared, OpenOf, IsOpen
    <3> QED
      BY <1>6, <3>1 DEF Serially, OneOpen, IsOpen
  <2>3. ASSUME NEW t \in Session PROVE Accounted(t)'
    <3>1. CASE t = s
      BY <1>6, <3>1 DEF Accounted
    <3>2. CASE t # s
      BY <1>1, <1>4, <1>6, <3>2 DEF Serially, Accounted, Closing
    <3> QED
      BY <3>1, <3>2
  <2>4. Alone' /\ \A q \in Request : AtWork(q)' /\ SweepSees(q)' /\ Cleared(q)'
    BY <1>1, <1>2, FinishedIdle, OnlyMover
  <2> QED
    BY <2>1, <2>2, <2>3, <2>4 DEF Serially
<1> QED
  BY <1>3, <1>5, <1>6

-----------------------------------------------------------------------------
\* Once a session is dealt with the request goes on with the rest, or is done.
LEMMA ClosedFollows ==
    ASSUME TypeOK, NEW r \in Request, Closed(r), SweepSees(r), Working(r),
           \A s \in Session : LastSign(s)' = LastSign(s),
           req[r].kind \in {"start", "join"} /\ ~ req[r].running =>
             \A s \in Session : row'[s].st = "open" /\ row'[s].user = req[r].user
                               => s \in req[r].todo
    PROVE  AtWork(r)' /\ SweepSees(r)' /\ Cleared(r)'
<1>1. CASE req[r].kind \in {"start", "join", "sweep"}
  <2>1. req[r] \in Req
    BY DEF TypeOK
  <2>2. /\ req'[r].pc = "loop" /\ req'[r].kind = req[r].kind
        /\ req'[r].user = req[r].user /\ req'[r].todo = req[r].todo
        /\ req'[r].last = req[r].last /\ req'[r].running = req[r].running
    BY <1>1, <2>1 DEF Closed, TypeOK, Req
  <2>3. \A s \in req[r].todo : s \in Session
    BY <2>1 DEF Req
  <2>4. AtWork(r)'
    BY <1>1, <2>2 DEF AtWork, Closing
  <2>5. SweepSees(r)'
    BY <2>2, <2>3 DEF SweepSees
  <2>7. Cleared(r)'
    BY <1>1, <2>2 DEF Cleared, OpenOf, IsOpen
  <2> QED
    BY <2>4, <2>5, <2>7
<1>2. CASE req[r].kind \notin {"start", "join", "sweep"}
  BY <1>2, FinishedIdle DEF Closed
<1> QED
  BY <1>1, <1>2

\* closeSession ends a session that nobody ended, and owes it score and credit.
LEMMA WriteEndStep ==
    ASSUME TypeOK, Serially, NEW r \in Request, WriteEnd(r)
    PROVE  Serially'
<1> DEFINE s == req[r].sid
<1>1. /\ UNCHANGED <<now, signs, credits, crashes>> /\ req[r].pc = "write"
      /\ Proceed(r) /\ req[r] \in Req /\ s \in Session /\ Working(r)
      /\ row[s].st \in {"open", "deleted"} /\ credits[s] = 0
  BY DEF WriteEnd, Proceed, TypeOK, Serially, AtWork, Working
<1>2. \A q \in Request \ {r} : req[q].pc = "idle" /\ req'[q].pc = "idle"
  BY <1>1, OthersIdle
<1>3. /\ AtWork(r) /\ SweepSees(r) /\ Cleared(r)
      /\ ~ Closing(r) /\ \A q \in Request : ~ Closing(q)
  BY <1>1, <1>2 DEF Serially, Closing
<1>4. CASE ~ Exists(s)
  <2>1. Closed(r) /\ UNCHANGED row
    BY <1>4 DEF WriteEnd
  <2>2. \A t \in Session : LastSign(t)' = LastSign(t)
    BY <1>1, <2>1 DEF LastSign
  <2>3. req[r].kind \in {"start", "join"} /\ ~ req[r].running =>
          \A t \in Session : row'[t].st = "open" /\ row'[t].user = req[r].user
                            => t \in req[r].todo
    BY <1>1, <1>3, <1>4, <2>1 DEF Cleared, OpenOf, IsOpen, Exists
  <2>4. AtWork(r)' /\ SweepSees(r)' /\ Cleared(r)'
    BY <1>1, <1>3, <2>1, <2>2, <2>3, ClosedFollows
  <2> QED
    BY <1>1, <1>3, <2>1, <2>4, QuietStep
<1>5. CASE Exists(s)
  <2>1. \A t \in Session \ {s} : row'[t] = row[t]
    BY WriteEndShape
  <2>2. row'[s].st = "ended" /\ row'[s].start = row[s].start
    <3>1. row[s].st = "open"
      BY <1>1, <1>5 DEF Exists
    <3>2. /\ row[s] \in Row
          /\ row' = [row EXCEPT ![s] =
                [@ EXCEPT !.st = "ended", !.end = req[r].at,
                          !.points = FocusPoints(row[s].start, req[r].at,
                                                 req[r].penalties)]]
      BY <1>1, <1>5 DEF WriteEnd, TypeOK
    <3> QED
      BY <1>1, <3>2 DEF TypeOK, Row
  <2>3. /\ req'[r].pc = "score" /\ req'[r].sid = s /\ req'[r].kind = req[r].kind
        /\ req'[r].user = req[r].user /\ req'[r].todo = req[r].todo
        /\ req'[r].last = req[r].last /\ req'[r].running = req[r].running
    BY <1>1, <1>5 DEF WriteEnd, TypeOK, Req
  <2>4. Uncredited' /\ CreditedOnce' /\ OneOpen'
    <3>1. Uncredited'
      BY <1>1, <2>1, <2>2 DEF Serially, Uncredited
    <3>2. CreditedOnce'
      BY <1>1 DEF Serially, CreditedOnce
    <3>3. OneOpen'
      BY <2>1, <2>2 DEF Serially, OneOpen, IsOpen
    <3> QED
      BY <3>1, <3>2, <3>3
  <2>5. ASSUME NEW t \in Session PROVE Accounted(t)'
    <3>1. CASE t = s
      BY <2>3, <3>1 DEF Accounted
    <3>2. CASE t # s
      BY <1>1, <1>3, <2>1, <3>2 DEF Serially, Accounted, Closing
    <3> QED
      BY <3>1, <3>2
  <2>6. \A t \in Session : LastSign(t)' = LastSign(t)
    BY <1>1, <2>1, <2>2 DEF LastSign
  <2>7. AtWork(r)'
    BY <1>1, <2>2, <2>3 DEF AtWork, Closing
  <2>8. SweepSees(r)'
    <3>1. \A t \in req[r].todo : t \in Session
      BY <1>1 DEF Req
    <3> QED
      BY <1>1, <1>3, <2>3, <2>6, <3>1 DEF SweepSees
  <2>9. Cleared(r)'
    <3>1. \A t \in Session : row'[t].st = "open" => row'[t] = row[t] /\ t # s
      BY <2>1, <2>2
    <3>2. req[r].kind \in {"start", "join"} /\ ~ req[r].running =>
            \A t \in Session : row[t].st = "open" /\ row[t].user = req[r].user
                              => t \in req[r].todo \/ t = s
      BY <1>1, <1>3 DEF Cleared, OpenOf, IsOpen
    <3> QED
      BY <2>3, <3>1, <3>2 DEF Cleared, OpenOf, IsOpen
  <2>10. Alone' /\ \A q \in Request : AtWork(q)' /\ SweepSees(q)' /\ Cleared(q)'
    BY <1>2, <2>7, <2>8, <2>9, OnlyMover
  <2> QED
    BY <2>4, <2>5, <2>10 DEF Serially
<1> QED
  BY <1>4, <1>5

\* finaliseSessionFocus: the score read and then written is that of the end.
LEMMA ScoreStep ==
    ASSUME TypeOK, Serially, NEW r \in Request, ReadForScore(r) \/ WriteScore(r)
    PROVE  Serially'
<1> DEFINE s == req[r].sid
<1>1. /\ UNCHANGED <<now, signs, credits, crashes>> /\ Proceed(r) /\ Working(r)
      /\ req[r].pc \in {"score", "scored"} /\ Closing(r) /\ req[r] \in Req
      /\ s \in Session /\ row[s].st \in {"ended", "deleted"} /\ credits[s] = 0
  BY DEF ReadForScore, WriteScore, Proceed, Working, Closing, Serially, AtWork, TypeOK
<1>2. \A q \in Request \ {r} : req[q].pc = "idle" /\ req'[q].pc = "idle"
  BY <1>1, OthersIdle
<1>3. /\ req'[r].pc \in {"scored", "credit"} /\ req'[r].sid = s
      /\ req'[r].kind = req[r].kind
      /\ req'[r].user = req[r].user /\ req'[r].todo = req[r].todo
      /\ req'[r].last = req[r].last /\ req'[r].running = req[r].running
  BY <1>1 DEF ReadForScore, WriteScore, TypeOK, Req
<1>4. \A t \in Session : /\ row'[t].st = row[t].st /\ row'[t].user = row[t].user
                         /\ row'[t].start = row[t].start /\ row'[t].end = row[t].end
                         /\ t # s => row'[t].scored = row[t].scored
  BY DEF ReadForScore, WriteScore, TypeOK, Row
<1>5. Uncredited' /\ CreditedOnce' /\ OneOpen'
  BY <1>1, <1>4 DEF Serially, Uncredited, CreditedOnce, OneOpen, IsOpen
<1>6. ASSUME NEW t \in Session PROVE Accounted(t)'
  <2>1. CASE t # s
    BY <1>1, <1>2, <1>4, <2>1 DEF Serially, Accounted
  <2>2. CASE t = s /\ row[s].st = "ended" /\ ReadForScore(r)
    <3>1. req'[r].pc = "scored" /\ req'[r].scored = row'[s].end
      BY <1>1, <1>4, <2>2 DEF ReadForScore, Exists, TypeOK, Req
    <3> QED
      BY <1>3, <2>2, <3>1 DEF Accounted
  <2>3. CASE t = s /\ row[s].st = "ended" /\ WriteScore(r)
    <3>1. req'[r].pc = "credit" /\ row'[s].scored = req[r].scored /\ req[r].pc = "scored"
      BY <1>1, <2>3 DEF WriteScore, Exists, TypeOK, Req, Row
    <3>2. crashes = 0 => req[r].scored = row[s].end
      BY <1>1, <1>2, <2>3, <3>1 DEF Serially, Accounted
    <3> QED
      BY <1>1, <1>3, <1>4, <2>3, <3>1, <3>2 DEF Accounted
  <2>4. CASE t = s /\ row[s].st # "ended"
    BY <1>4, <2>4 DEF Accounted
  <2> QED
    BY <2>1, <2>2, <2>3, <2>4
<1>7. AtWork(r)'
  BY <1>1, <1>3, <1>4 DEF AtWork, Closing
<1>8. SweepSees(r)'
  <2>1. /\ \A t \in Session : LastSign(t)' = LastSign(t)
        /\ \A t \in req[r].todo : t \in Session
    BY <1>1, <1>4 DEF LastSign, Req
  <2>2. SweepSees(r)
    BY DEF Serially
  <2> QED
    BY <1>1, <1>3, <2>1, <2>2 DEF SweepSees
<1>9. Cleared(r)'
  <2>1. \A u : OpenOf(u)' = OpenOf(u)
    BY <1>4 DEF OpenOf, IsOpen
  <2>2. Cleared(r)
    BY DEF Serially
  <2> QED
    BY <1>1, <1>3, <2>1, <2>2 DEF Cleared, Closing
<1>10. Alone' /\ \A q \in Request : AtWork(q)' /\ SweepSees(q)' /\ Cleared(q)'
  BY <1>2, <1>7, <1>8, <1>9, OnlyMover
<1> QED
  BY <1>5, <1>6, <1>10 DEF Serially

\* Gamification runs for a closed session without a credit.
LEMMA GamifyStep ==
    ASSUME TypeOK, Serially, NEW r \in Request, Gamify(r)
    PROVE  Serially'
<1> DEFINE s == req[r].sid
<1>1. /\ UNCHANGED <<now, row, signs, crashes>> /\ Proceed(r) /\ Working(r)
      /\ req[r].pc = "credit" /\ Closed(r)
      /\ s \in Session /\ row[s].st \in {"ended", "deleted"} /\ credits[s] = 0
  BY DEF Gamify, Proceed, Working, Closing, Serially, AtWork
<1>2. \A q \in Request \ {r} : req[q].pc = "idle" /\ req'[q].pc = "idle"
  BY <1>1, OthersIdle
<1>3. credits'[s] = 1 /\ \A t \in Session \ {s} : credits'[t] = credits[t]
  BY <1>1 DEF Gamify, TypeOK
<1>4. Uncredited' /\ CreditedOnce' /\ OneOpen'
  BY <1>1, <1>3 DEF Serially, Uncredited, CreditedOnce, OneOpen, IsOpen
<1>5. ASSUME NEW t \in Session PROVE Accounted(t)'
  <2>1. CASE t # s
    BY <1>1, <1>2, <1>3, <2>1 DEF Serially, Accounted
  <2>2. CASE t = s
    <3>1. crashes = 0 /\ row[s].st = "ended" => row[s].scored = row[s].end
      BY <1>1, <1>2, <1>3 DEF Serially, Accounted
    <3> QED
      BY <1>1, <1>3, <2>2, <3>1 DEF Accounted
  <2> QED
    BY <2>1, <2>2
<1>6. AtWork(r)' /\ SweepSees(r)' /\ Cleared(r)'
  <2>1. \A t \in Session : LastSign(t)' = LastSign(t)
    BY <1>1 DEF LastSign
  <2>2. SweepSees(r) /\ Cleared(r)
    BY DEF Serially
  <2>3. req[r].kind \in {"start", "join"} /\ ~ req[r].running =>
          \A t \in Session : row'[t].st = "open" /\ row'[t].user = req[r].user
                            => t \in req[r].todo
    BY <1>1, <2>2 DEF Cleared, Closing, OpenOf, IsOpen
  <2> QED
    BY <1>1, <2>1, <2>2, <2>3, ClosedFollows
<1>7. Alone' /\ \A q \in Request : AtWork(q)' /\ SweepSees(q)' /\ Cleared(q)'
  BY <1>2, <1>6, OnlyMover
<1> QED
  BY <1>4, <1>5, <1>7 DEF Serially

\* A sample, an interruption or a crash leaves everybody idle.
LEMMA LeaveStep ==
    ASSUME TypeOK, Serially, NEW r \in Request, Insert(r) \/ Crash(r)
    PROVE  Serially'
<1>1. /\ UNCHANGED <<now, row, credits>> /\ Finish(r) /\ Working(r)
      /\ Proceed(r) \/ Crash(r)
  BY DEF Insert, Crash, Proceed, Working
<1>2. \A q \in Request \ {r} : req[q].pc = "idle" /\ req'[q].pc = "idle"
  BY <1>1, OthersIdle
<1>3. Uncredited' /\ CreditedOnce' /\ OneOpen'
  BY <1>1 DEF Serially, Uncredited, CreditedOnce, OneOpen, IsOpen
<1>4. ASSUME NEW t \in Session PROVE Accounted(t)'
  <2>1. CASE Crash(r)
    <3>1. crashes' # 0
      BY <2>1, SessionsAssumption DEF Crash, TypeOK
    <3> QED
      BY <3>1 DEF Accounted
  <2>2. CASE Insert(r)
    <3>1. crashes' = crashes /\ req[r].pc = "insert"
      BY <2>2 DEF Insert
    <3> QED
      BY <1>1, <1>2, <3>1 DEF Serially, Accounted
  <2> QED
    BY <2>1, <2>2
<1>5. Alone' /\ \A q \in Request : AtWork(q)' /\ SweepSees(q)' /\ Cleared(q)'
  BY <1>1, <1>2, FinishedIdle, OnlyMover
<1> QED
  BY <1>3, <1>4, <1>5 DEF Serially

-----------------------------------------------------------------------------
\* Deleting a session takes it out of every list; the clock makes no list grow.
LEMMA DeleteStep ==
    ASSUME TypeOK, Serially, NEW s \in Session, DeleteSession(s)
    PROVE  Serially'
<1>1. /\ UNCHANGED <<now, signs, credits, req, crashes>>
      /\ row[s].st \in {"open", "ended"}
  BY DEF DeleteSession, Exists
<1>2. \A t \in Session : /\ row'[t].st = IF t = s THEN "deleted" ELSE row[t].st
                         /\ row'[t].user = row[t].user /\ row'[t].start = row[t].start
                         /\ row'[t].end = row[t].end /\ row'[t].scored = row[t].scored
  BY DEF DeleteSession, TypeOK, Row
<1>3. Alone' /\ Uncredited' /\ CreditedOnce' /\ OneOpen'
  <2>1. Alone'
    BY <1>1 DEF Serially, Alone, Working
  <2>2. Uncredited' /\ CreditedOnce'
    BY <1>1, <1>2 DEF Serially, Uncredited, CreditedOnce
  <2>3. OneOpen'
    BY <1>2 DEF Serially, OneOpen, IsOpen
  <2> QED
    BY <2>1, <2>2, <2>3
<1>4. ASSUME NEW r \in Request PROVE AtWork(r)' /\ SweepSees(r)' /\ Cleared(r)'
  <2>1. AtWork(r) /\ SweepSees(r) /\ Cleared(r) /\ req[r] \in Req
    BY DEF Serially, TypeOK
  <2>2. AtWork(r)'
    BY <1>1, <1>2, <2>1 DEF AtWork, Closing
  <2>3. SweepSees(r)'
    <3>1. \A t \in Session : LastSign(t)' = LastSign(t)
      BY <1>1, <1>2 DEF LastSign
    <3>2. req[r].pc = "write" => req[r].sid \in Session
      BY <2>1 DEF AtWork
    <3> QED
      BY <1>1, <2>1, <3>1, <3>2 DEF SweepSees, Working, Req
  <2>4. Cleared(r)'
    <3>1. \A u : OpenOf(u)' \subseteq OpenOf(u)
      BY <1>2 DEF OpenOf, IsOpen
    <3> QED
      BY <1>1, <2>1, <3>1 DEF Cleared, Closing
  <2> QED
    BY <2>2, <2>3, <2>4
<1>5. ASSUME NEW t \in Session PROVE Accounted(t)'
  BY <1>1, <1>2 DEF Serially, Accounted
<1> QED
  BY <1>3, <1>4, <1>5 DEF Serially

LEMMA TickStep ==
    ASSUME TypeOK, Serially, UNCHANGED <<row, signs, credits, req, crashes>>,
           now' = now \/ now' = now + 1
    PROVE  Serially'
<1>1. /\ Alone' /\ Uncredited' /\ CreditedOnce' /\ OneOpen'
      /\ \A s \in Session : Accounted(s)'
  BY DEF Serially, Alone, Working, Uncredited, CreditedOnce, OneOpen, IsOpen, Accounted
<1>2. ASSUME NEW r \in Request PROVE AtWork(r)' /\ Cleared(r)'
  BY DEF Serially, AtWork, Closing, Cleared, OpenOf, IsOpen
<1>3. ASSUME NEW r \in Request PROVE SweepSees(r)'
  <2>1. SweepSees(r) /\ AtWork(r) /\ req[r] \in Req /\ now \in Nat /\ now' >= now
    BY DEF Serially, TypeOK, Time
  <2>2. \A t : LastSign(t)' = LastSign(t)
    BY DEF LastSign
  <2>3. ASSUME Working(r), req[r].kind = "sweep", req[r].pc = "write"
        PROVE  now' - LastSign(req[r].sid) >= SweepSilence
    <3>1. req[r].sid \in Session /\ now - LastSign(req[r].sid) >= SweepSilence
      BY <2>1, <2>3 DEF SweepSees, AtWork
    <3>2. LastSign(req[r].sid) \in Nat
      BY <3>1, Times
    <3>3. ASSUME NEW l \in Nat, now - l >= SweepSilence
          PROVE  now' - l >= SweepSilence
      BY <2>1, <3>3, RulesAssumption
    <3> QED
      BY <3>1, <3>2, <3>3
  <2> QED
    BY <2>1, <2>2, <2>3 DEF SweepSees, Working
<1> QED
  BY <1>1, <1>2, <1>3 DEF Serially

-----------------------------------------------------------------------------
SerialInv == IInv /\ (serial => Serially)

LEMMA SerialInit == Init => SerialInv
<1> SUFFICES ASSUME Init PROVE Serially
  BY InitInvariant DEF SerialInv
<1>1. /\ \A r \in Request : req[r].pc = "idle"
      /\ \A s \in Session : row[s].st = "absent" /\ credits[s] = 0
  BY DEF Init, Idle
<1>2. Alone /\ Uncredited /\ CreditedOnce /\ OneOpen
  BY <1>1 DEF Alone, Working, Uncredited, CreditedOnce, OneOpen, IsOpen
<1>3. \A r \in Request : AtWork(r) /\ SweepSees(r) /\ Cleared(r)
  BY <1>1 DEF AtWork, Closing, SweepSees, Working, Cleared
<1>4. \A s \in Session : Accounted(s)
  BY <1>1 DEF Accounted
<1> QED
  BY <1>2, <1>3, <1>4 DEF Serially

LEMMA SerialStep == SerialInv /\ [Next]_vars => SerialInv'
<1> SUFFICES ASSUME SerialInv, [Next]_vars, serial' PROVE Serially'
  BY InvariantStep DEF SerialInv
<1>0. TypeOK /\ \A r \in Request : Known(r)
  BY DEF SerialInv, IInv, AllKnown
<1>1. ASSUME NEW r \in Request, Arrive(r) PROVE Serially'
  <2>1. serial
    BY <1>1 DEF Arrive, BeginStart, BeginJoin, BeginEnd, BeginAbandon, BeginSample,
                BeginInterruption, BeginSweep, Begin
  <2> QED
    BY <1>0, <1>1, <2>1, ArriveStep DEF SerialInv
<1>2. ASSUME NEW r \in Request, Proceed(r) PROVE Serially'
  <2>1. serial
    BY <1>2 DEF Proceed, ResolveHost, ListOpen, RereadAbandoned, SettleNext, SweepNext,
       CreateSession, SweepDone, Settled, WriteEnd, ReadForScore, WriteScore, Gamify, Insert
  <2>2. Serially
    BY <2>1 DEF SerialInv
  <2>3. CASE \E s \in Session : SettleNext(r, s) \/ SweepNext(r, s) \/ CreateSession(r, s)
    BY <1>0, <2>2, <2>3, SettleStep, SweepStep, CreateStep
  <2>4. CASE ResolveHost(r) \/ ListOpen(r) \/ RereadAbandoned(r)
    BY <1>0, <2>2, <2>4, JoinStep, AbandonStep
  <2>5. CASE SweepDone(r) \/ Settled(r)
    BY <1>0, <2>2, <2>5, LoopDoneStep
  <2>6. CASE WriteEnd(r) \/ ReadForScore(r) \/ WriteScore(r) \/ Gamify(r)
    BY <1>0, <2>2, <2>6, WriteEndStep, ScoreStep, GamifyStep
  <2>7. CASE Insert(r)
    BY <1>0, <2>2, <2>7, LeaveStep
  <2> QED
    BY <1>2, <2>3, <2>4, <2>5, <2>6, <2>7 DEF Proceed
<1>3. ASSUME NEW r \in Request, Crash(r) PROVE Serially'
  <2>1. serial
    BY <1>3 DEF Crash
  <2> QED
    BY <1>0, <1>3, <2>1, LeaveStep DEF SerialInv
<1>4. ASSUME NEW s \in Session, DeleteSession(s) PROVE Serially'
  <2>1. serial
    BY <1>4 DEF DeleteSession
  <2> QED
    BY <1>0, <1>4, <2>1, DeleteStep DEF SerialInv
<1>5. CASE Tick \/ UNCHANGED vars
  <2>1. /\ serial /\ UNCHANGED <<row, signs, credits, req, crashes>>
        /\ now' = now \/ now' = now + 1
    BY <1>5 DEF Tick, vars
  <2> QED
    BY <1>0, <2>1, TickStep DEF SerialInv
<1> QED
  BY <1>1, <1>2, <1>3, <1>4, <1>5 DEF Next

\* Requests that never overlap close and credit a session once, whichever of
\* end, abandon and sweep it is (the endedAt checks before closeSession).
THEOREM OneCreditWhenSerial == Spec => []CreditedOnceSerially
<1>1. SerialInv => CreditedOnceSerially
  BY DEF SerialInv, Serially, CreditedOnceSerially
<1> QED
  BY <1>1, SerialInit, SerialStep, PTL DEF Spec

\* Requests that never overlap leave nobody with two running sessions
\* (settleOpenSessions before openSession).
THEOREM OneRunningWhenSerial == Spec => []OneRunningSerially
<1>1. SerialInv => OneRunningSerially
  <2> SUFFICES ASSUME SerialInv, serial, NEW u \in User
               PROVE  Cardinality(OpenOf(u)) <= 1
    BY DEF OneRunningSerially
  <2>1. \A s, t \in OpenOf(u) : s = t
    BY DEF SerialInv, Serially, OneOpen, OpenOf, IsOpen
  <2>2. CASE OpenOf(u) = {}
    BY <2>2, FS_EmptySet
  <2>3. CASE OpenOf(u) # {}
    <3>1. PICK s : s \in OpenOf(u)
      BY <2>3
    <3>2. OpenOf(u) = {s}
      BY <2>1, <3>1
    <3> QED
      BY <3>2, FS_Singleton
  <2> QED
    BY <2>2, <2>3
<1> QED
  BY <1>1, SerialInit, SerialStep, PTL DEF Spec

\* When nobody is at work on an ended session and no process died, its score is
\* that of its stored time and its credit was given (finaliseSessionFocus).
THEOREM ScoresMatchEnds == Spec => []ScoreMatchesEnd
<1>1. SerialInv => ScoreMatchesEnd
  BY DEF SerialInv, Serially, Accounted, ScoreMatchesEnd
<1> QED
  BY <1>1, SerialInit, SerialStep, PTL DEF Spec

\* A sweep that nothing overlaps closes only sessions still silent when it
\* closes them (sweepAbandonedSessions).
THEOREM SweepFindsSilence == Spec => SweepSparesTheLiving
<1> DEFINE Spared == \A r \in Request :
             /\ serial
             /\ req[r].kind = "sweep" /\ req[r].pc = "write" /\ IsOpen(req[r].sid)
             /\ req'[r].pc = "score"
             => now - LastSign(req[r].sid) >= SweepSilence
<1>1. SerialInv => Spared
  BY DEF SerialInv, Serially, SweepSees, Working
<1>2. SerialInv /\ [Next]_vars => [Spared]_vars
  BY <1>1
<1>3. Spec => [][Spared]_vars
  BY <1>2, SerialInit, SerialStep, PTL DEF Spec
<1> QED
  BY <1>3 DEF SweepSparesTheLiving
=============================================================================
