------------------------- MODULE ResponseCache_proofs -------------------------
(***************************************************************************)
(* Proofs about ResponseCache, for any number of reads and writes in       *)
(* flight, any lifetimes and any pattern of losses in Redis: what a read   *)
(* is served, how long an entry may be stale, and the type invariant.      *)
(***************************************************************************)
EXTENDS ResponseCache, FiniteSetTheorems, TLAPS

Pending == {w \in Writer : writer[w].pc = "bump"}
Unannounced == {writer[w].write : w \in Pending}

\* Until when a loss or an expiry of the past may show: something gone by then
\* is allowed to be anything.
Tainted(until) == until <= excuse \/ until <= lapse

\* How long what a read is about to store may live.
LastsUntil(r) == reader[r].since + RequestTime + PayloadTTL

\* A read lasts at most RequestTime, an entry PayloadTTL, so what is lost now
\* shows no longer than the two together.
Timely ==
    /\ lapse \in Nat
    /\ excuse <= now + RequestTime + PayloadTTL
    /\ lapse <= now + RequestTime + PayloadTTL
    /\ \A r \in Reader : reader[r].pc # "idle" =>
         reader[r].since <= now /\ now <= reader[r].since + RequestTime
    /\ \A v \in Version : Cached(v) =>
         now < payload[v].exp /\ payload[v].exp <= now + PayloadTTL

\* Writes are numbered apart, and the counter has moved once for some of those
\* that are not about to move it.
Numbered ==
    /\ acked <= db
    /\ \A w \in Pending : writer[w].write \in 1..db
    /\ \A w, x \in Pending : writer[w].write = writer[x].write => w = x
    /\ counter.v + Cardinality(Unannounced) <= db

\* A body of the current version shows every write but those about to move the
\* counter, and all that were answered.
Shows(body) == acked <= body /\ \A n \in body + 1..db : n \in Unannounced

Fresh ==
    /\ Cached(Current) => Shows(payload[Current].body) \/ Tainted(payload[Current].exp)
    /\ \A r \in Reader : reader[r].pc = "store" /\ reader[r].ver = Current =>
         Shows(reader[r].body) \/ Tainted(LastsUntil(r))

\* Nobody has used a version the counter has yet to reach, but before a loss.
Ahead ==
    /\ \A v \in Version : Cached(v) /\ v > Current => Tainted(payload[v].exp)
    /\ \A r \in Reader : reader[r].pc # "idle" /\ reader[r].ver > Current =>
         Tainted(LastsUntil(r))

\* What a read finds, or will find, under its version shows all that had been
\* answered when it began.
Served ==
    \A r \in Reader : reader[r].pc = "get" =>
        /\ reader[r].floor <= acked
        /\ Cached(reader[r].ver) =>
             reader[r].floor <= payload[reader[r].ver].body
               \/ Tainted(payload[reader[r].ver].exp)
        /\ \A q \in Reader : reader[q].pc = "store" /\ reader[q].ver = reader[r].ver =>
             reader[r].floor <= reader[q].body \/ Tainted(LastsUntil(q))

IInv == TypeOK /\ Timely /\ Numbered /\ Fresh /\ Ahead /\ Served

-----------------------------------------------------------------------------
\* The writes yet to move the counter are some of those made, and each step
\* that takes a writer in or out changes them by the one it wrote.
LEMMA UnannouncedFinite ==
    ASSUME TypeOK, Numbered
    PROVE  /\ IsFiniteSet(Unannounced) /\ Unannounced \subseteq 1..db
           /\ Cardinality(Unannounced) \in Nat
<1>1. Unannounced \subseteq 1..db
  BY DEF Numbered, Unannounced
<1>2. IsFiniteSet(1..db)
  BY FS_Interval DEF TypeOK, Version
<1> QED
  BY <1>1, <1>2, FS_Subset, FS_CardinalityType

LEMMA WriterLeaves ==
    ASSUME TypeOK, Numbered, NEW w \in Writer, writer[w].pc = "bump",
           writer' = [writer EXCEPT ![w] = IdleWriter]
    PROVE  /\ Pending' = Pending \ {w}
           /\ writer[w].write \in Unannounced
           /\ Unannounced' = Unannounced \ {writer[w].write}
           /\ Cardinality(Unannounced') + 1 = Cardinality(Unannounced)
<1>1. /\ \A x \in Writer \ {w} : writer'[x] = writer[x]
      /\ writer'[w].pc = "idle"
  BY DEF TypeOK, IdleWriter
<1>2. Pending' = Pending \ {w} /\ w \in Pending
  BY <1>1 DEF Pending
<1>3. writer[w].write \in Unannounced
  BY <1>2 DEF Unannounced
<1>4. Unannounced' = Unannounced \ {writer[w].write}
  BY <1>1, <1>2 DEF Unannounced, Numbered, Pending
<1>5. Cardinality(Unannounced \ {writer[w].write}) = Cardinality(Unannounced) - 1
  BY <1>3, UnannouncedFinite, FS_RemoveElement
<1> QED
  BY <1>2, <1>3, <1>4, <1>5, UnannouncedFinite

LEMMA WriterEnters ==
    ASSUME TypeOK, Numbered, NEW w \in Writer, Write(w)
    PROVE  /\ Pending' = Pending \cup {w}
           /\ Unannounced' = Unannounced \cup {db + 1}
           /\ Cardinality(Unannounced') = Cardinality(Unannounced) + 1
<1>1. /\ \A x \in Writer \ {w} : writer'[x] = writer[x]
      /\ writer'[w].pc = "bump" /\ writer'[w].write = db + 1
      /\ w \notin Pending
  BY DEF TypeOK, Write, Pending
<1>2. Pending' = Pending \cup {w}
  BY <1>1 DEF Pending
<1>3. Unannounced' = Unannounced \cup {db + 1}
  BY <1>1, <1>2 DEF Unannounced, Pending
<1>4. db + 1 \notin Unannounced
  BY UnannouncedFinite DEF TypeOK, Version
<1> QED
  BY <1>2, <1>3, <1>4, UnannouncedFinite, FS_AddElement

\* The arithmetic the types need.
LEMMA Sums ==
    ASSUME TypeOK
    PROVE  /\ 0 \in Version /\ Version \subseteq Nat
           /\ \A i \in Nat : i <= MaxWrites => i \in Version
           /\ now \in Nat /\ now + PayloadTTL \in Nat /\ now + CounterTTL \in Nat
           /\ now + RequestTime + PayloadTTL \in Nat /\ Never \in Nat
  BY CacheAssumption DEF TypeOK, Version, Never

\* There is a number for the next write, and a version for the next bump, each of
\* which answers a write of its own.
LEMMA RoomToWrite ==
    ASSUME TypeOK, NEW w \in Writer, Write(w)
    PROVE  db + 1 \in Version
<1>1. db \in Version /\ db < MaxWrites
  BY DEF TypeOK, Write
<1> QED
  BY <1>1, CacheAssumption DEF Version

LEMMA RoomToBump ==
    ASSUME TypeOK, Numbered, NEW w \in Writer, Answer(w)
    PROVE  counter.v + 1 \in Version /\ counter.v + 1 <= db
<1>1. db \in Version /\ counter.v \in Version
  BY DEF TypeOK
<1>2. Cardinality(Unannounced') + 1 = Cardinality(Unannounced)
  BY WriterLeaves DEF Answer
<1>3. IsFiniteSet(Unannounced) /\ IsFiniteSet(Unannounced')
  BY UnannouncedFinite, WriterLeaves, FS_Subset DEF Answer
<1>4. Cardinality(Unannounced') \in Nat
  BY <1>3, FS_CardinalityType
<1>5. counter.v + Cardinality(Unannounced) <= db
  BY DEF Numbered
<1> QED
  BY <1>1, <1>2, <1>4, <1>5, CacheAssumption DEF Version

\* A read that has found its body is still a read.
LEMMA ReadTypes ==
    ASSUME TypeOK, NEW r \in Reader
    PROVE  [reader EXCEPT ![r].pc = "store", ![r].body = db] \in
             [Reader -> [pc : {"idle", "get", "store"}, ver : Version,
                         body : Version, since : Nat, floor : Version]]
<1>1. /\ db \in Version
      /\ reader \in [Reader -> [pc : {"idle", "get", "store"}, ver : Version,
                                body : Version, since : Nat, floor : Version]]
  BY DEF TypeOK
<1> QED
  BY <1>1

\* Every variable keeps its type: the counter is never past the last version,
\* since each of its steps answers a write of its own.
LEMMA TypeStep == IInv /\ [Next]_vars => TypeOK'
<1> SUFFICES ASSUME IInv, [Next]_vars PROVE TypeOK'
  OBVIOUS
<1> USE Sums DEF IInv, TypeOK
<1>1. ASSUME NEW r \in Reader, ReadVersion(r) PROVE TypeOK'
  BY <1>1 DEF ReadVersion, IdleReader, Current
<1>2. ASSUME NEW r \in Reader, ServeCached(r) PROVE TypeOK'
  BY <1>2 DEF ServeCached, IdleReader
<1>3. ASSUME NEW r \in Reader, ServeFromDatabase(r) PROVE TypeOK'
  <2>1. reader' \in [Reader -> [pc : {"idle", "get", "store"}, ver : Version,
                               body : Version, since : Nat, floor : Version]]
    BY <1>3, ReadTypes DEF ServeFromDatabase
  <2> QED
    BY <1>3, <2>1 DEF ServeFromDatabase
<1>4. ASSUME NEW r \in Reader, Store(r) PROVE TypeOK'
  <2>1. payload' \in [Version -> [body : Version, exp : Nat]]
    BY <1>4 DEF Store
  <2>2. reader' \in [Reader -> [pc : {"idle", "get", "store"}, ver : Version,
                               body : Version, since : Nat, floor : Version]]
    BY <1>4 DEF Store, IdleReader
  <2> QED
    BY <1>4, <2>1, <2>2 DEF Store
<1>5. ASSUME NEW w \in Writer, Write(w) PROVE TypeOK'
  BY <1>5, RoomToWrite DEF Write
<1>6. ASSUME NEW w \in Writer, Answer(w)
      PROVE  /\ counter.v + 1 \in Version
             /\ acked' \in Version
             /\ writer' \in [Writer -> [pc : {"idle", "bump"}, write : Version, since : Nat]]
  BY <1>6, RoomToBump DEF Answer, IdleWriter
<1>7. ASSUME NEW w \in Writer, Bump(w) PROVE TypeOK'
  BY <1>6, <1>7 DEF Bump, Current
<1>8. ASSUME NEW w \in Writer, LoseBump(w) PROVE TypeOK'
  BY <1>6, <1>8 DEF LoseBump, Excused
<1>9. ASSUME NEW w \in Writer, LoseExpire(w) PROVE TypeOK'
  BY <1>6, <1>9 DEF LoseExpire, Excused, Current
<1>10. ASSUME NEW w \in Writer, CrashBeforeBump(w) PROVE TypeOK'
  BY <1>10 DEF CrashBeforeBump, Excused, IdleWriter
<1>11. CASE RestartRedis
  BY <1>11 DEF RestartRedis, Excused, NoCounter, Gone
<1>12. CASE Tick
  <2>1. now' \in 0..MaxNow
    BY <1>12, CacheAssumption DEF Tick
  <2>2. counter' \in [v : Version, exp : Nat]
    BY <1>12 DEF Tick, Dropped, NoCounter
  <2>3. payload' \in [Version -> [body : Version, exp : Nat]]
    BY <1>12 DEF Tick, Dropped, Gone
  <2> QED
    BY <1>12, <2>1, <2>2, <2>3 DEF Tick
<1>13. CASE UNCHANGED vars
  BY <1>13 DEF vars
<1> QED
  BY <1>1, <1>2, <1>3, <1>4, <1>5, <1>7, <1>8, <1>9, <1>10, <1>11, <1>12, <1>13 DEF Next

\* What each step of a read does to its own record and to nobody else's.
LEMMA ReaderMoves ==
    ASSUME TypeOK, NEW r \in Reader,
           ReadVersion(r) \/ ServeCached(r) \/ ServeFromDatabase(r) \/ Store(r)
    PROVE  /\ \A q \in Reader \ {r} : reader'[q] = reader[q]
           /\ ReadVersion(r) => reader[r].pc = "idle" /\
                reader'[r] = [pc |-> "get", ver |-> Current, body |-> 0, since |-> now,
                              floor |-> acked]
           /\ ServeFromDatabase(r) =>
                /\ reader[r].pc = "get" /\ reader'[r].pc = "store" /\ reader'[r].body = db
                /\ reader'[r].ver = reader[r].ver /\ reader'[r].since = reader[r].since
           /\ ServeCached(r) \/ Store(r) => reader[r].pc # "idle" /\ reader'[r].pc = "idle"
<1>1. CASE ReadVersion(r)
  BY <1>1 DEF TypeOK, ReadVersion, ServeCached, ServeFromDatabase, Store, IdleReader
<1>2. CASE ServeCached(r)
  BY <1>2 DEF TypeOK, ReadVersion, ServeCached, ServeFromDatabase, Store, IdleReader
<1>3. CASE ServeFromDatabase(r)
  BY <1>3 DEF TypeOK, ReadVersion, ServeCached, ServeFromDatabase, Store, IdleReader
<1>4. CASE Store(r)
  BY <1>4 DEF TypeOK, ReadVersion, ServeCached, ServeFromDatabase, Store, IdleReader
<1> QED
  BY <1>1, <1>2, <1>3, <1>4

\* A stored body takes the place of what its version had.
LEMMA PayloadMoves ==
    ASSUME TypeOK, NEW r \in Reader, Store(r), payload' # payload
    PROVE  /\ \A v \in Version \ {reader[r].ver} : payload'[v] = payload[v]
           /\ payload'[reader[r].ver].body = reader[r].body
           /\ payload'[reader[r].ver].exp = now + PayloadTTL
  BY Sums DEF TypeOK, Store

\* Time passes a request by no more than it may last, and drops what expires.
LEMMA TimelyStep == IInv /\ [Next]_vars => Timely'
<1> SUFFICES ASSUME IInv, [Next]_vars PROVE Timely'
  OBVIOUS
<1>1. ASSUME UNCHANGED <<now, payload, excuse, lapse>>,
             \A r \in Reader : \/ reader'[r].pc = "idle"
                               \/ reader[r].pc # "idle" /\ reader'[r].since = reader[r].since
                               \/ reader'[r].since = now
      PROVE  Timely'
  BY <1>1, Sums, CacheAssumption DEF IInv, Timely, Cached
<1>2. ASSUME NEW r \in Reader, ReadVersion(r) \/ ServeCached(r) \/ ServeFromDatabase(r)
      PROVE  Timely'
  <2>1. \A q \in Reader : \/ reader'[q].pc = "idle"
                          \/ reader[q].pc # "idle" /\ reader'[q].since = reader[q].since
                          \/ reader'[q].since = now
    BY <1>2, ReaderMoves DEF IInv
  <2> QED
    BY <1>1, <1>2, <2>1 DEF ReadVersion, ServeCached, ServeFromDatabase
<1>3. ASSUME NEW r \in Reader, Store(r) PROVE Timely'
  <2>1. \A q \in Reader : reader'[q].pc = "idle" \/ reader'[q] = reader[q]
    BY <1>3, ReaderMoves DEF IInv
  <2>2. CASE payload' = payload
    BY <1>1, <1>3, <2>1, <2>2 DEF Store
  <2>3. CASE payload' # payload
    <3>1. \A v \in Version : payload'[v] = payload[v] \/ payload'[v].exp = now + PayloadTTL
      BY <1>3, <2>3, PayloadMoves DEF IInv
    <3> QED
      BY <1>3, <2>1, <3>1, Sums, CacheAssumption DEF IInv, Timely, Cached, Store
  <2> QED
    BY <2>2, <2>3
<1>4. ASSUME UNCHANGED <<now, reader, lapse>>, excuse' \in {excuse, now + RequestTime + PayloadTTL},
             payload' \in {payload, [v \in Version |-> Gone]}
      PROVE  Timely'
  BY <1>4, Sums, CacheAssumption DEF IInv, Timely, Cached, Gone
<1>5. ASSUME NEW w \in Writer, Write(w) \/ Bump(w) \/ LoseBump(w) \/ LoseExpire(w) \/ CrashBeforeBump(w)
      PROVE  Timely'
  BY <1>4, <1>5 DEF Write, Bump, LoseBump, LoseExpire, CrashBeforeBump, Answer, Excused
<1>6. CASE RestartRedis
  BY <1>4, <1>6 DEF RestartRedis, Excused
<1>7. CASE Tick
  <2>1. now' = now + 1 /\ excuse' = excuse /\ reader' = reader
    BY <1>7 DEF Tick
  <2>2. lapse' \in {lapse, now' + RequestTime + PayloadTTL}
    BY <1>7 DEF Tick
  <2>3. \A r \in Reader : reader'[r].pc # "idle" =>
          reader'[r].since <= now' /\ now' <= reader'[r].since + RequestTime
    BY <1>7, <2>1, Sums, CacheAssumption DEF IInv, TypeOK, Timely, Tick
  <2>4. \A v \in Version : payload'[v] = Gone \/ (payload'[v] = payload[v] /\ now' < payload[v].exp)
    <3>1. \A v \in Version : payload'[v] = Dropped(now', payload[v], Gone)
      BY <1>7 DEF Tick
    <3>2. \A v \in Version : payload[v].exp \in Nat
      BY DEF IInv, TypeOK
    <3>3. now' \in Nat
      BY <2>1, Sums DEF IInv
    <3> QED
      BY <3>1, <3>2, <3>3 DEF Dropped
  <2>5. ASSUME NEW v \in Version, Cached(v)'
        PROVE  now' < payload'[v].exp /\ payload'[v].exp <= now' + PayloadTTL
    <3>1. payload'[v] = payload[v] /\ now' < payload[v].exp /\ payload[v].exp \in Nat
      BY <2>4, <2>5 DEF Cached, Gone, IInv, TypeOK
    <3>2. payload[v].exp <= now + PayloadTTL
      BY <2>5, <3>1 DEF IInv, Timely, Cached
    <3> QED
      BY <2>1, <3>1, <3>2, Sums, CacheAssumption DEF IInv
  <2> QED
    BY <2>1, <2>2, <2>3, <2>5, Sums, CacheAssumption DEF IInv, TypeOK, Timely
<1>8. CASE UNCHANGED vars
  BY <1>4, <1>8 DEF vars
<1> QED
  BY <1>2, <1>3, <1>5, <1>6, <1>7, <1>8 DEF Next

\* A write takes the next number; each step of the counter answers a write.
LEMMA NumberedStep == IInv /\ [Next]_vars => Numbered'
<1> SUFFICES ASSUME IInv, [Next]_vars PROVE Numbered'
  OBVIOUS
<1>0. /\ TypeOK /\ Numbered /\ counter.v \in Nat /\ db \in Nat /\ acked \in Nat
      /\ Unannounced \subseteq 1..db /\ Cardinality(Unannounced) \in Nat
  BY Sums, UnannouncedFinite DEF IInv, TypeOK
<1>1. CASE UNCHANGED <<writer, db, acked, counter>>
  BY <1>1 DEF IInv, Numbered, Pending, Unannounced
<1>2. ASSUME NEW w \in Writer, Write(w) PROVE Numbered'
  <2>1. /\ \A x \in Writer \ {w} : writer'[x] = writer[x]
        /\ writer'[w].write = db + 1 /\ db' = db + 1 /\ acked' = acked /\ counter' = counter
    BY <1>0, <1>2 DEF Write, TypeOK
  <2>2. /\ Pending' = Pending \cup {w} /\ Pending \subseteq Writer
        /\ Cardinality(Unannounced') = Cardinality(Unannounced) + 1
    BY <1>0, <1>2, WriterEnters DEF Pending
  <2>3. \A x \in Pending' : x = w \/ (x \in Pending /\ writer'[x].write \in 1..db)
    <3>1. \A x \in Pending : writer[x].write \in 1..db
      BY <1>0 DEF Numbered
    <3> QED
      BY <2>1, <2>2, <3>1
  <2>4. \A x \in Pending' : writer'[x].write \in 1..db'
    BY <1>0, <2>1, <2>3
  <2>5. \A x, y \in Pending' : writer'[x].write = writer'[y].write => x = y
    <3>1. \A x \in Pending' : x # w => writer'[x].write # db + 1
      BY <1>0, <2>3
    <3>2. \A x \in Pending' : x # w => x \in Pending /\ writer'[x] = writer[x]
      BY <2>1, <2>2
    <3> QED
      BY <1>0, <2>1, <3>1, <3>2 DEF Numbered
  <2>6. counter'.v + Cardinality(Unannounced') <= db'
    BY <1>0, <2>1, <2>2 DEF Numbered
  <2> QED
    BY <1>0, <2>1, <2>4, <2>5, <2>6 DEF Numbered
<1>3. ASSUME NEW w \in Writer, writer[w].pc = "bump",
             writer' = [writer EXCEPT ![w] = IdleWriter],
             db' = db, acked' \in {acked, writer[w].write},
             counter'.v \in {counter.v, counter.v + 1}
      PROVE  Numbered'
  <2>1. \A x \in Writer \ {w} : writer'[x] = writer[x]
    BY <1>0, <1>3 DEF TypeOK
  <2>2. /\ Pending' = Pending \ {w} /\ Pending \subseteq Writer
        /\ Cardinality(Unannounced') + 1 = Cardinality(Unannounced)
        /\ writer[w].write \in Unannounced
    BY <1>0, <1>3, WriterLeaves DEF Pending
  <2>3. \A x \in Pending' : x \in Pending /\ writer'[x] = writer[x]
    BY <2>1, <2>2
  <2>4. \A x \in Pending' : writer'[x].write \in 1..db'
    BY <1>0, <1>3, <2>3 DEF Numbered
  <2>5. \A x, y \in Pending' : writer'[x].write = writer'[y].write => x = y
    BY <1>0, <2>3 DEF Numbered
  <2>6. Unannounced' = Unannounced \ {writer[w].write}
    BY <1>0, <1>3, WriterLeaves
  <2>7. Cardinality(Unannounced') \in Nat
    BY <2>6, <1>0, UnannouncedFinite, FS_Subset, FS_CardinalityType
  <2>8. counter.v + Cardinality(Unannounced) <= db /\ acked <= db
    BY <1>0 DEF Numbered
  <2>9. counter'.v + Cardinality(Unannounced') <= db'
    BY <1>0, <1>3, <2>2, <2>7, <2>8
  <2>10. acked' <= db'
    BY <1>0, <1>3, <2>2, <2>8
  <2> QED
    BY <2>4, <2>5, <2>9, <2>10 DEF Numbered
<1>4. ASSUME NEW w \in Writer, Bump(w) \/ LoseBump(w) \/ LoseExpire(w) \/ CrashBeforeBump(w)
      PROVE  Numbered'
  BY <1>3, <1>4 DEF Bump, LoseBump, LoseExpire, CrashBeforeBump, Answer, Current
<1>5. ASSUME UNCHANGED <<writer, db, acked>>, counter' \in {counter, NoCounter}
      PROVE  Numbered'
  <2>1. Pending' = Pending /\ Unannounced' = Unannounced
    BY <1>5 DEF Pending, Unannounced
  <2>2. counter'.v \in Nat /\ counter'.v <= counter.v
    BY <1>0, <1>5 DEF NoCounter
  <2> QED
    BY <1>0, <1>5, <2>1, <2>2 DEF Numbered
<1>6. CASE RestartRedis
  BY <1>5, <1>6 DEF RestartRedis
<1>7. CASE Tick
  BY <1>5, <1>7 DEF Tick, Dropped
<1> QED
  BY <1>1, <1>2, <1>4, <1>6, <1>7
  DEF Next, ReadVersion, ServeCached, ServeFromDatabase, Store, vars

-----------------------------------------------------------------------------
\* What is true of the numbers in every step below.
LEMMA Bounds ==
    ASSUME IInv
    PROVE  /\ now \in Nat /\ excuse \in Nat /\ lapse \in Nat /\ db \in Nat
           /\ acked \in Nat /\ acked <= db /\ Current \in Version /\ Current \in Nat
           /\ \A v \in Version : v \in Nat /\ payload[v].exp \in Nat /\ payload[v].body \in Nat
           /\ \A r \in Reader : /\ reader[r].ver \in Version /\ reader[r].body \in Nat
                                /\ reader[r].floor \in Nat /\ LastsUntil(r) \in Nat
<1>1. TypeOK /\ Version \subseteq Nat /\ now \in Nat
  BY Sums DEF IInv
<1>2. \A r \in Reader : reader[r].since \in Nat
  BY <1>1 DEF TypeOK
<1>3. ASSUME NEW r \in Reader PROVE LastsUntil(r) \in Nat
  <2>1. reader[r].since \in Nat /\ RequestTime \in Nat /\ PayloadTTL \in Nat
    BY <1>2, CacheAssumption
  <2> QED
    BY <2>1 DEF LastsUntil
<1> QED
  BY <1>1, <1>3 DEF IInv, TypeOK, Timely, Numbered, Current

\* Whatever lives now is gone once a read begun now and what it stores are.
LEMMA LivesBriefly ==
    ASSUME IInv
    PROVE  /\ \A v \in Version : Cached(v) => payload[v].exp <= now + RequestTime + PayloadTTL
           /\ \A r \in Reader : reader[r].pc # "idle" =>
                /\ LastsUntil(r) <= now + RequestTime + PayloadTTL
                /\ now + PayloadTTL <= LastsUntil(r)
<1>1. ASSUME NEW v \in Version, Cached(v)
      PROVE  payload[v].exp <= now + RequestTime + PayloadTTL
  BY <1>1, Bounds, CacheAssumption DEF IInv, Timely
<1>2. ASSUME NEW r \in Reader, reader[r].pc # "idle"
      PROVE  /\ LastsUntil(r) <= now + RequestTime + PayloadTTL
             /\ now + PayloadTTL <= LastsUntil(r)
  <2>1. reader[r].since \in Nat
    BY DEF IInv, TypeOK
  <2>2. reader[r].since <= now /\ now <= reader[r].since + RequestTime
    BY <1>2 DEF IInv, Timely
  <2> QED
    BY <2>1, <2>2, Bounds, CacheAssumption DEF LastsUntil
<1> QED
  BY <1>1, <1>2

\* After a loss, or an expiry of the counter, all there is may be out of date
\* for as long as it lives.
LEMMA AllIsExcused ==
    ASSUME IInv, TypeOK', UNCHANGED reader, acked <= acked',
           excuse' \in Nat, lapse' \in Nat,
           \A v \in Version : payload'[v] \in {payload[v], Gone},
           \/ now + RequestTime + PayloadTTL <= excuse'
           \/ now + RequestTime + PayloadTTL <= lapse'
    PROVE  Fresh' /\ Ahead' /\ Served'
<1>1. ASSUME NEW v \in Version, Cached(v)'
      PROVE  Tainted(payload[v].exp)' /\ payload'[v] = payload[v]
  <2>1. payload'[v] = payload[v] /\ Cached(v)
    BY <1>1 DEF Cached, Gone
  <2> QED
    BY <2>1, LivesBriefly, Bounds, CacheAssumption DEF Tainted
<1>2. ASSUME NEW r \in Reader, reader[r].pc # "idle"
      PROVE  Tainted(LastsUntil(r))'
  <2>1. LastsUntil(r)' = LastsUntil(r)
    BY DEF LastsUntil
  <2> QED
    BY <1>2, <2>1, LivesBriefly, Bounds, CacheAssumption DEF Tainted
<1>3. Current' \in Version
  BY DEF TypeOK, Current
<1>4. Fresh'
  BY <1>1, <1>2, <1>3 DEF Fresh
<1>5. Ahead'
  BY <1>1, <1>2 DEF Ahead
<1>6. Served'
  <2>1. \A r \in Reader : reader[r].pc = "get" => reader[r].floor <= acked'
    BY Bounds DEF IInv, Served, TypeOK
  <2>2. \A r \in Reader : reader[r].ver \in Version
    BY Bounds
  <2> QED
    BY <1>1, <1>2, <2>1, <2>2 DEF Served
<1> QED
  BY <1>4, <1>5, <1>6

\* The six steps of writers, and of Redis.
LEMMA WriteKeeps ==
    ASSUME IInv, NEW w \in Writer, Write(w)
    PROVE  Fresh' /\ Ahead' /\ Served'
<1>1. /\ Unannounced' = Unannounced \cup {db + 1} /\ db' = db + 1
      /\ UNCHANGED <<now, counter, payload, reader, acked, excuse, lapse>>
  BY WriterEnters DEF IInv, Write
<1>2. \A b \in Nat : Shows(b) => Shows(b)'
  BY <1>1, Bounds DEF Shows
<1>3. \A r \in Reader : LastsUntil(r)' = LastsUntil(r)
  BY <1>1 DEF LastsUntil
<1>4. Fresh'
  BY <1>1, <1>2, <1>3, Bounds DEF IInv, Fresh, Current, Cached, Tainted
<1>5. Ahead'
  BY <1>1, <1>3 DEF IInv, Ahead, Current, Cached, Tainted
<1>6. Served'
  BY <1>1, <1>3 DEF IInv, Served, Cached, Tainted
<1> QED
  BY <1>4, <1>5, <1>6

LEMMA BumpKeeps ==
    ASSUME IInv, NEW w \in Writer, Bump(w)
    PROVE  Fresh' /\ Ahead' /\ Served'
<1>1. /\ Current' = Current + 1 /\ Current' \in Version
      /\ UNCHANGED <<now, payload, reader, excuse, lapse>>
  BY RoomToBump DEF IInv, Bump, Current
<1>2. acked <= acked' /\ acked' \in Nat
  <2>1. writer[w].write \in Nat
    BY Sums DEF IInv, TypeOK
  <2> QED
    BY <2>1, Bounds DEF Bump, Answer
<1>3. \A r \in Reader : LastsUntil(r)' = LastsUntil(r)
  BY <1>1 DEF LastsUntil
<1>4. Fresh'
  <2>1. Current' > Current
    BY <1>1, Bounds
  <2>2. Cached(Current)' => Tainted(payload[Current].exp)'
    BY <1>1, <2>1 DEF IInv, Ahead, Cached, Tainted
  <2>3. ASSUME NEW r \in Reader, reader[r].pc = "store", reader[r].ver = Current'
        PROVE  Tainted(LastsUntil(r))'
    BY <1>1, <1>3, <2>1, <2>3 DEF IInv, Ahead, Tainted
  <2> QED
    BY <1>1, <2>2, <2>3 DEF Fresh
<1>5. Ahead'
  <2>1. \A v \in Version : v > Current' => v > Current
    BY <1>1, Bounds
  <2>2. \A r \in Reader : reader[r].ver > Current' => reader[r].ver > Current
    BY <2>1, Bounds
  <2> QED
    BY <1>1, <1>3, <2>1, <2>2 DEF IInv, Ahead, Cached, Tainted
<1>6. Served'
  <2>1. \A r \in Reader : reader[r].floor <= acked => reader[r].floor <= acked'
    BY <1>2, Bounds
  <2> QED
    BY <1>1, <1>3, <2>1 DEF IInv, Served, Cached, Tainted
<1> QED
  BY <1>4, <1>5, <1>6

LEMMA LossKeeps ==
    ASSUME IInv, TypeOK',
           RestartRedis \/ \E w \in Writer : LoseBump(w) \/ LoseExpire(w) \/ CrashBeforeBump(w)
    PROVE  Fresh' /\ Ahead' /\ Served'
<1>1. /\ UNCHANGED <<now, reader, lapse>> /\ excuse' = now + RequestTime + PayloadTTL
      /\ \A v \in Version : payload'[v] \in {payload[v], Gone}
  BY DEF RestartRedis, LoseBump, LoseExpire, CrashBeforeBump, Excused
<1>2. \A w \in Writer : writer[w].write \in Nat
  BY Sums DEF IInv, TypeOK
<1>3. acked <= acked'
  BY <1>2, Bounds DEF RestartRedis, LoseBump, LoseExpire, CrashBeforeBump, Answer
<1>4. excuse' \in Nat /\ lapse' \in Nat /\ now + RequestTime + PayloadTTL <= excuse'
  BY <1>1, Sums, Bounds DEF IInv
<1> QED
  BY <1>1, <1>3, <1>4, AllIsExcused

LEMMA TickKeeps ==
    ASSUME IInv, TypeOK', Tick
    PROVE  Fresh' /\ Ahead' /\ Served'
<1>1. /\ now' = now + 1 /\ UNCHANGED <<db, reader, writer, acked, excuse>>
      /\ \A v \in Version : payload'[v] \in {payload[v], Gone}
  BY DEF Tick, Dropped
<1>2. CASE counter' # counter
  <2>1. lapse' = now' + RequestTime + PayloadTTL
    BY <1>2 DEF Tick
  <2>2. lapse' \in Nat /\ now + RequestTime + PayloadTTL <= lapse'
    BY <1>1, <2>1, Bounds, CacheAssumption
  <2>3. acked <= acked' /\ excuse' \in Nat
    BY <1>1, Bounds
  <2> QED
    BY <1>1, <2>2, <2>3, AllIsExcused
<1>3. CASE counter' = counter
  <2>1. lapse' = lapse /\ Current' = Current
    BY <1>3 DEF Tick, Current
  <2>2. \A v \in Version : Cached(v)' => payload'[v] = payload[v] /\ Cached(v)
    BY <1>1 DEF Cached, Gone
  <2>3. \A r \in Reader : LastsUntil(r)' = LastsUntil(r)
    BY <1>1 DEF LastsUntil
  <2>4. \A b : Shows(b) => Shows(b)'
    BY <1>1 DEF Shows, Unannounced, Pending
  <2>5. Fresh'
    BY <1>1, <2>1, <2>2, <2>3, <2>4, Bounds DEF IInv, Fresh, Tainted
  <2>6. Ahead'
    BY <1>1, <2>1, <2>2, <2>3 DEF IInv, Ahead, Tainted
  <2>7. Served'
    BY <1>1, <2>1, <2>2, <2>3, Bounds DEF IInv, Served, Tainted
  <2> QED
    BY <2>5, <2>6, <2>7
<1> QED
  BY <1>2, <1>3

\* The steps of a read that leave the cache alone.
LEMMA ReadKeeps ==
    ASSUME IInv, NEW r \in Reader,
           ReadVersion(r) \/ ServeCached(r) \/ ServeFromDatabase(r)
    PROVE  Fresh' /\ Ahead' /\ Served'
<1>1. UNCHANGED <<now, db, counter, payload, writer, acked, excuse, lapse>>
  BY DEF ReadVersion, ServeCached, ServeFromDatabase
<1>2. /\ UNCHANGED <<Current, Unannounced>>
      /\ \A b : Shows(b)' <=> Shows(b)
      /\ \A u : Tainted(u)' <=> Tainted(u)
      /\ \A v : Cached(v)' <=> Cached(v)
  BY <1>1 DEF Current, Unannounced, Pending, Shows, Tainted, Cached
<1>3. \A q \in Reader \ {r} : reader'[q] = reader[q] /\ LastsUntil(q)' = LastsUntil(q)
  BY ReaderMoves DEF IInv, LastsUntil
<1>4. CASE ReadVersion(r)
  <2>1. /\ reader'[r].pc = "get" /\ reader'[r].ver = Current /\ reader'[r].floor = acked
    BY <1>4, ReaderMoves DEF IInv
  <2>2. Fresh' /\ Ahead'
    BY <1>1, <1>2, <1>3, <2>1, Bounds DEF IInv, Fresh, Ahead
  <2>3. Cached(Current) => acked <= payload[Current].body \/ Tainted(payload[Current].exp)
    BY DEF IInv, Fresh, Shows
  <2>4. \A q \in Reader : reader[q].pc = "store" /\ reader[q].ver = Current =>
          acked <= reader[q].body \/ Tainted(LastsUntil(q))
    BY DEF IInv, Fresh, Shows
  <2>5. acked <= acked
    BY Bounds
  <2>6. ASSUME NEW x \in Reader, reader'[x].pc = "get"
        PROVE  /\ reader'[x].floor <= acked
               /\ Cached(reader'[x].ver) =>
                    \/ reader'[x].floor <= payload[reader'[x].ver].body
                    \/ Tainted(payload[reader'[x].ver].exp)
               /\ \A q \in Reader \ {r} :
                    reader[q].pc = "store" /\ reader[q].ver = reader'[x].ver =>
                      reader'[x].floor <= reader[q].body \/ Tainted(LastsUntil(q))
    BY <1>3, <2>1, <2>3, <2>4, <2>5, <2>6 DEF IInv, Served
  <2>7. Served'
    BY <1>1, <1>2, <1>3, <2>1, <2>6 DEF Served
  <2> QED
    BY <2>2, <2>7
<1>5. CASE ServeCached(r)
  <2>1. reader'[r].pc = "idle"
    BY <1>5, ReaderMoves DEF IInv
  <2>2. Fresh' /\ Ahead'
    BY <1>1, <1>2, <1>3, <2>1 DEF IInv, Fresh, Ahead
  <2>3. Served'
    BY <1>1, <1>2, <1>3, <2>1 DEF IInv, Served
  <2> QED
    BY <2>2, <2>3
<1>6. CASE ServeFromDatabase(r)
  <2>1. /\ reader[r].pc = "get" /\ reader'[r].pc = "store" /\ reader'[r].body = db
        /\ reader'[r].ver = reader[r].ver /\ LastsUntil(r)' = LastsUntil(r)
    BY <1>6, ReaderMoves DEF IInv, LastsUntil
  <2>2. Shows(db)
    BY Bounds DEF Shows
  <2>3. Fresh'
    BY <1>1, <1>2, <1>3, <2>1, <2>2 DEF IInv, Fresh
  <2>4. Ahead'
    BY <1>1, <1>2, <1>3, <2>1 DEF IInv, Ahead
  <2>5. \A x \in Reader : reader[x].pc = "get" => reader[x].floor <= db
    BY Bounds DEF IInv, Served
  <2>6. Served'
    BY <1>1, <1>2, <1>3, <2>1, <2>5 DEF IInv, Served
  <2> QED
    BY <2>3, <2>4, <2>6
<1> QED
  BY <1>4, <1>5, <1>6

\* What a read stores lives no longer than the read was allowed to.
LEMMA StoreKeeps ==
    ASSUME IInv, NEW r \in Reader, Store(r)
    PROVE  Fresh' /\ Ahead' /\ Served'
<1>1. /\ UNCHANGED <<now, db, counter, writer, acked, excuse, lapse>>
      /\ reader[r].pc = "store" /\ reader'[r].pc = "idle"
  BY ReaderMoves DEF IInv, Store
<1>2. /\ UNCHANGED <<Current, Unannounced>>
      /\ \A b : Shows(b)' <=> Shows(b)
      /\ \A u : Tainted(u)' <=> Tainted(u)
  BY <1>1 DEF Current, Unannounced, Pending, Shows, Tainted
<1>3. \A q \in Reader \ {r} : reader'[q] = reader[q] /\ LastsUntil(q)' = LastsUntil(q)
  BY ReaderMoves DEF IInv, LastsUntil
<1>4. Tainted(LastsUntil(r)) => Tainted(now + PayloadTTL)
  BY <1>1, LivesBriefly, Bounds, CacheAssumption DEF Tainted
<1>5. \A v \in Version :
        \/ payload'[v] = payload[v]
        \/ v = reader[r].ver /\ payload'[v].body = reader[r].body
                             /\ payload'[v].exp = now + PayloadTTL
  BY PayloadMoves DEF IInv
<1>6. Fresh'
  <2>1. Cached(Current)' => Shows(payload'[Current].body) \/ Tainted(payload'[Current].exp)
    BY <1>1, <1>2, <1>4, <1>5, Bounds DEF IInv, Fresh, Cached
  <2> QED
    BY <1>1, <1>2, <1>3, <2>1 DEF IInv, Fresh
<1>7. Ahead'
  <2>1. \A v \in Version : Cached(v)' /\ v > Current => Tainted(payload'[v].exp)
    BY <1>1, <1>4, <1>5 DEF IInv, Ahead, Cached
  <2> QED
    BY <1>1, <1>2, <1>3, <2>1 DEF IInv, Ahead
<1>8. Served'
  <2>1. ASSUME NEW x \in Reader, reader[x].pc = "get", payload'[reader[x].ver].exp > 0
        PROVE  \/ reader[x].floor <= payload'[reader[x].ver].body
               \/ Tainted(payload'[reader[x].ver].exp)
    <3>1. CASE payload'[reader[x].ver] = payload[reader[x].ver]
      BY <2>1, <3>1 DEF IInv, Served, Cached
    <3>2. CASE payload'[reader[x].ver] # payload[reader[x].ver]
      <4>1. /\ reader[x].ver = reader[r].ver
            /\ payload'[reader[x].ver].body = reader[r].body
            /\ payload'[reader[x].ver].exp = now + PayloadTTL
        BY <1>5, <3>2, Bounds
      <4>2. reader[x].floor <= reader[r].body \/ Tainted(LastsUntil(r))
        BY <1>1, <2>1, <4>1 DEF IInv, Served
      <4> QED
        BY <1>4, <4>1, <4>2
    <3> QED
      BY <3>1, <3>2
  <2> QED
    BY <1>1, <1>2, <1>3, <2>1 DEF IInv, Served, Cached
<1> QED
  BY <1>6, <1>7, <1>8

-----------------------------------------------------------------------------
\* Nothing is cached, nobody reads or writes.
LEMMA InitHolds == Init => IInv
<1> SUFFICES ASSUME Init PROVE IInv
  OBVIOUS
<1>1. /\ 0 \in Version /\ Version \subseteq Nat
  BY CacheAssumption DEF Version
<1>2. TypeOK
  BY <1>1, CacheAssumption DEF Init, TypeOK, NoCounter, Gone, IdleReader, IdleWriter
<1>3. /\ \A r \in Reader : reader[r].pc = "idle"
      /\ \A v \in Version : ~ Cached(v)
      /\ Current = 0 /\ Pending = {} /\ now = 0 /\ excuse = 0 /\ lapse = 0 /\ acked = 0 /\ db = 0
  BY DEF Init, IdleReader, IdleWriter, Gone, NoCounter, Cached, Current, Pending
<1>4. Timely
  BY <1>3, CacheAssumption DEF Timely
<1>5. Unannounced = {} /\ Cardinality({}) = 0
  BY <1>3, FS_EmptySet DEF Unannounced
<1>6. Numbered
  BY <1>3, <1>5 DEF Numbered, Current
<1>7. Fresh /\ Ahead /\ Served
  BY <1>1, <1>3 DEF Fresh, Ahead, Served
<1> QED
  BY <1>2, <1>4, <1>6, <1>7 DEF IInv

\* Every step keeps the invariant.
LEMMA StepKeeps == IInv /\ [Next]_vars => IInv'
<1> SUFFICES ASSUME IInv, [Next]_vars PROVE IInv'
  OBVIOUS
<1>1. TypeOK' /\ Timely' /\ Numbered'
  BY TypeStep, TimelyStep, NumberedStep
<1>2. CASE UNCHANGED vars
  BY <1>2 DEF vars, IInv, TypeOK, Timely, Numbered, Fresh, Ahead, Served, Pending,
              Unannounced, Shows, Tainted, LastsUntil, Cached, Current
<1>3. CASE Next
  <2>1. Fresh' /\ Ahead' /\ Served'
    BY <1>1, <1>3, ReadKeeps, StoreKeeps, WriteKeeps, BumpKeeps, LossKeeps, TickKeeps
    DEF Next
  <2> QED
    BY <1>1, <2>1 DEF IInv
<1> QED
  BY <1>2, <1>3

\* The inductive invariant: what every entry, read and writer may owe to a loss
\* or an expiry of the past, and what it shows where it owes nothing.
THEOREM Invariant == Spec => []IInv
  BY InitHolds, StepKeeps, PTL DEF Spec

\* Every variable keeps its type; the counter is never past the number of writes.
THEOREM TypeCorrect == Spec => []TypeOK
<1>1. IInv => TypeOK
  BY DEF IInv
<1> QED
  BY <1>1, Invariant, PTL

\* An entry that lags the database with nobody about to move the counter is gone
\* once what Redis or a writer lost has had its time (utils/cache.js, bumpVersions).
THEOREM StaleBriefly == Spec => []StaleOnlyBriefly
<1>1. IInv => StaleOnlyBriefly
  <2> SUFFICES ASSUME IInv, Stale PROVE now < excuse \/ now < lapse
    BY DEF StaleOnlyBriefly
  <2>1. /\ Cached(Current) /\ payload[Current].body < db
        /\ \A w \in Writer : writer[w].pc = "bump" => writer[w].write <= payload[Current].body
    BY DEF Stale
  <2>2. CASE Tainted(payload[Current].exp)
    <3>1. now < payload[Current].exp
      BY <2>1, Bounds DEF IInv, Timely
    <3> QED
      BY <2>2, <3>1, Bounds DEF Tainted
  <2>3. CASE Shows(payload[Current].body)
    <3>1. db \in Unannounced
      BY <2>1, <2>3, Bounds DEF Shows
    <3>2. PICK w \in Writer : writer[w].pc = "bump" /\ writer[w].write = db
      BY <3>1 DEF Unannounced, Pending
    <3> QED
      BY <2>1, <3>2, Bounds
  <2> QED
    BY <2>1, <2>2, <2>3 DEF IInv, Fresh
<1> QED
  BY <1>1, Invariant, PTL

\* A cached answer to a read shows every write answered before the read began,
\* but for as long as a loss or an expiry excuses (middleware/cache.js).
THEOREM NextReadSees == Spec => VisibleOnNextRead
<1> DEFINE Sees == \A r \in Reader :
              /\ reader[r].pc = "get" /\ reader'[r].pc = "idle"
              /\ now >= excuse /\ now >= lapse
              => payload[reader[r].ver].body >= reader[r].floor
<1>1. IInv /\ [Next]_vars => [Sees]_vars
  <2> SUFFICES ASSUME IInv, [Next]_vars, NEW r \in Reader,
                      reader[r].pc = "get", reader'[r].pc = "idle", now >= excuse, now >= lapse
               PROVE  payload[reader[r].ver].body >= reader[r].floor
    OBVIOUS
  <2>1. ServeCached(r)
    <3>1. ASSUME NEW q \in Reader,
                 ReadVersion(q) \/ ServeCached(q) \/ ServeFromDatabase(q) \/ Store(q)
          PROVE  ServeCached(r)
      BY <3>1, ReaderMoves DEF IInv, Store
    <3>2. CASE UNCHANGED reader
      BY <3>2
    <3> QED
      BY <3>1, <3>2 DEF Next, vars, Write, Bump, LoseBump, LoseExpire, CrashBeforeBump,
                        RestartRedis, Tick
  <2>2. Cached(reader[r].ver)
    BY <2>1 DEF ServeCached
  <2>3. now < payload[reader[r].ver].exp
    BY <2>2, Bounds DEF IInv, Timely
  <2>4. ~ Tainted(payload[reader[r].ver].exp)
    BY <2>3, Bounds DEF Tainted
  <2> QED
    BY <2>2, <2>4, Bounds DEF IInv, Served
<1> QED
  BY <1>1, Invariant, PTL DEF Spec, VisibleOnNextRead
=============================================================================
