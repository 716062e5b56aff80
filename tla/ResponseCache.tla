---------------------------- MODULE ResponseCache ----------------------------
(***************************************************************************)
(* The read-through response cache: apps/api/src/middleware/cache.js over  *)
(* apps/api/src/utils/cache.js.  One cached route of one subject: a        *)
(* version counter in Redis stamps the payload's key, a write changes the  *)
(* database and then increments the counter.  Reads and writes run one     *)
(* database or Redis call at a time, and Redis may lose any of its calls.  *)
(*                                                                         *)
(* The database is the number of writes made; a body is the number of      *)
(* writes it shows.                                                        *)
(***************************************************************************)
EXTENDS Integers

CONSTANTS
    Reader, Writer,     \* requests in flight
    PayloadTTL,         \* the route's ttlSec
    CounterTTL,         \* VERSION_TTL_SEC
    RequestTime,        \* the longest a request lasts, in the same unit
    MaxWrites, MaxNow   \* bounds

ASSUME CacheAssumption ==
    /\ PayloadTTL \in Nat \ {0} /\ CounterTTL \in Nat /\ RequestTime \in Nat
    /\ MaxWrites \in Nat /\ MaxNow \in Nat
    /\ PayloadTTL + RequestTime < CounterTTL

VARIABLES
    now,
    db,         \* how many writes the database has
    counter,    \* the version counter: its value and when it expires
    payload,    \* per version: the cached body, and when it expires
    reader, writer,
    acked,      \* history: the last write whose request has been answered
    excuse,     \* history: until when a lost invalidation may show
    lapse       \* history: until when a reused counter value may show

vars == <<now, db, counter, payload, reader, writer, acked, excuse, lapse>>

Version == 0..MaxWrites
Never == MaxNow + CounterTTL + 1        \* a key without an expiry
Gone == [body |-> 0, exp |-> 0]
NoCounter == [v |-> 0, exp |-> 0]
IdleReader == [pc |-> "idle", ver |-> 0, body |-> 0, since |-> 0, floor |-> 0]
IdleWriter == [pc |-> "idle", write |-> 0, since |-> 0]

Init ==
    /\ now = 0 /\ db = 0
    /\ counter = NoCounter
    /\ payload = [v \in Version |-> Gone]
    /\ reader = [r \in Reader |-> IdleReader]
    /\ writer = [w \in Writer |-> IdleWriter]
    /\ acked = 0 /\ excuse = 0 /\ lapse = 0

-----------------------------------------------------------------------------
\* readVersions: a counter that does not exist reads as 0.
Current == counter.v
Cached(v) == payload[v].exp > 0

\* Redis drops a key when it expires.
Dropped(t, key, empty) == IF key.exp <= t THEN empty ELSE key

\* What Redis loses now is stale for as long as a read that had begun may still
\* store, and for the life of the entry it stores.
Excused == excuse' = now + RequestTime + PayloadTTL

\* The middleware reads the version.  With Redis down it does nothing at all
\* and the request goes to the database, so that case is left out.
ReadVersion(r) ==
    /\ reader[r].pc = "idle"
    /\ reader' = [reader EXCEPT ![r] = [IdleReader EXCEPT
                    !.pc = "get", !.ver = Current, !.since = now, !.floor = acked]]
    /\ UNCHANGED <<now, db, counter, payload, writer, acked, excuse, lapse>>

\* A hit answers the request.
ServeCached(r) ==
    /\ reader[r].pc = "get"
    /\ Cached(reader[r].ver)
    /\ reader' = [reader EXCEPT ![r] = IdleReader]
    /\ UNCHANGED <<now, db, counter, payload, writer, acked, excuse, lapse>>

\* A miss - no entry, or a get that failed - reads the database, which answers
\* the request; res.json then starts storing the body.
ServeFromDatabase(r) ==
    /\ reader[r].pc = "get"
    /\ reader' = [reader EXCEPT ![r].pc = "store", ![r].body = db]
    /\ UNCHANGED <<now, db, counter, payload, writer, acked, excuse, lapse>>

\* Slip: the version is read again, and the body stored under that one.
StoreUnderCurrent(r) ==
    /\ reader[r].pc = "store"
    /\ payload' = [payload EXCEPT ![Current] =
                     [body |-> reader[r].body, exp |-> now + PayloadTTL]]
    /\ reader' = [reader EXCEPT ![r] = IdleReader]
    /\ UNCHANGED <<now, db, counter, writer, acked, excuse, lapse>>

\* writeCached, not awaited: under the version read at the start, or lost.
Store(r) ==
    /\ reader[r].pc = "store"
    /\ \/ payload' = [payload EXCEPT ![reader[r].ver] =
                        [body |-> reader[r].body, exp |-> now + PayloadTTL]]
       \/ UNCHANGED payload
    /\ reader' = [reader EXCEPT ![r] = IdleReader]
    /\ UNCHANGED <<now, db, counter, writer, acked, excuse, lapse>>

-----------------------------------------------------------------------------
\* A service's write resolves; its invalidation comes after it.
Write(w) ==
    /\ writer[w].pc = "idle"
    /\ db < MaxWrites
    /\ db' = db + 1
    /\ writer' = [writer EXCEPT ![w] = [pc |-> "bump", write |-> db + 1, since |-> now]]
    /\ UNCHANGED <<now, counter, payload, reader, acked, excuse, lapse>>

Answer(w) ==
    /\ writer[w].pc = "bump"
    /\ writer' = [writer EXCEPT ![w] = IdleWriter]
    /\ acked' = IF writer[w].write > acked THEN writer[w].write ELSE acked

\* Slip: the counter goes down.
BumpDown(w) ==
    /\ Answer(w)
    /\ counter' = [v |-> Current - 1, exp |-> now + CounterTTL]
    /\ UNCHANGED <<now, db, payload, reader, excuse, lapse>>

\* Slip: the entry is deleted, the version stays.
BumpDeletes(w) ==
    /\ Answer(w)
    /\ payload' = [payload EXCEPT ![Current] = Gone]
    /\ UNCHANGED <<now, db, counter, reader, excuse, lapse>>

\* bumpVersions: INCR creates the counter at 1, and EXPIRE renews it.
Bump(w) ==
    /\ Answer(w)
    /\ counter' = [v |-> Current + 1, exp |-> now + CounterTTL]
    /\ UNCHANGED <<now, db, payload, reader, excuse, lapse>>

\* Redis fails the INCR; the request is answered all the same.
LoseBump(w) ==
    /\ Answer(w)
    /\ Excused
    /\ UNCHANGED <<now, db, counter, payload, reader, lapse>>

\* The pipeline is no transaction: the INCR is done and the EXPIRE is not.
LoseExpire(w) ==
    /\ Answer(w)
    /\ counter' = [v |-> Current + 1,
                   exp |-> IF counter = NoCounter THEN Never ELSE counter.exp]
    /\ Excused
    /\ UNCHANGED <<now, db, payload, reader, lapse>>

\* The process dies after the write: no invalidation, and no answer.
CrashBeforeBump(w) ==
    /\ writer[w].pc = "bump"
    /\ writer' = [writer EXCEPT ![w] = IdleWriter]
    /\ Excused
    /\ UNCHANGED <<now, db, counter, payload, reader, acked, lapse>>

\* Redis restarts empty.
RestartRedis ==
    /\ counter' = NoCounter
    /\ payload' = [v \in Version |-> Gone]
    /\ Excused
    /\ UNCHANGED <<now, db, reader, writer, acked, lapse>>

\* Time passes; no request outlasts RequestTime.  A counter may expire: its
\* value is 0 until the next write, and then grows through old values again.
Tick ==
    /\ now < MaxNow
    /\ \A r \in Reader : reader[r].pc # "idle" => now < reader[r].since + RequestTime
    /\ \A w \in Writer : writer[w].pc # "idle" => now < writer[w].since + RequestTime
    /\ now' = now + 1
    /\ counter' = Dropped(now', counter, NoCounter)
    /\ payload' = [v \in Version |-> Dropped(now', payload[v], Gone)]
    /\ lapse' = IF counter' # counter THEN now' + RequestTime + PayloadTTL ELSE lapse
    /\ UNCHANGED <<db, reader, writer, acked, excuse>>

Next ==
    \/ \E r \in Reader : \/ ReadVersion(r) \/ ServeCached(r)
                         \/ ServeFromDatabase(r) \/ Store(r)
    \/ \E w \in Writer : \/ Write(w) \/ Bump(w) \/ LoseBump(w)
                         \/ LoseExpire(w) \/ CrashBeforeBump(w)
    \/ RestartRedis
    \/ Tick

Spec == Init /\ [][Next]_vars

-----------------------------------------------------------------------------
\* Every variable keeps its type.
TypeOK ==
    /\ now \in 0..MaxNow /\ db \in Version /\ acked \in Version /\ excuse \in Nat
    /\ counter \in [v : Version, exp : Nat]
    /\ payload \in [Version -> [body : Version, exp : Nat]]
    /\ reader \in [Reader -> [pc : {"idle", "get", "store"}, ver : Version,
                              body : Version, since : Nat, floor : Version]]
    /\ writer \in [Writer -> [pc : {"idle", "bump"}, write : Version, since : Nat]]

\* A cached answer to a read begun after a write was answered shows the write,
\* however the two and other requests overlap, unless within the life of an
\* entry Redis lost something or the counter expired (middleware/cache.js,
\* bumpVersions).
VisibleOnNextRead ==
    [][\A r \in Reader :
         /\ reader[r].pc = "get" /\ reader'[r].pc = "idle"
         /\ now >= excuse /\ now >= lapse
         => payload[reader[r].ver].body >= reader[r].floor]_vars

\* The entry readers can reach lags the database, and nobody is about to
\* invalidate it.
Stale ==
    /\ Cached(Current) /\ payload[Current].body < db
    /\ \A w \in Writer : writer[w].pc = "bump" =>
         writer[w].write <= payload[Current].body

\* Staleness is bounded: no entry is stale for longer than an entry lives after
\* Redis or a writer failed, or after the counter expired (bumpVersions).
StaleOnlyBriefly == Stale => now < excuse \/ now < lapse

\* Payloads are gone before their counter can disappear, so its expiry never
\* brings one back (utils/cache.js:130-133).
ExpiryResurrectsNothing == Stale => now < excuse
=============================================================================
