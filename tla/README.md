# Stdy: verified models of the server and the phone

Stdy is a study app: a person runs a focus session on the phone, the server
keeps its time, scores it, and credits a streak and goals with it; around that
there are followers, posts, groups, routines, chats and a paid subscription.
This directory holds TLA+ models of that logic, the TLC configurations that
check them, and proofs of the properties that must hold whatever the number of
people, sessions and requests. Paths below are relative to the repository
(`src/` here is its root); `api/` abbreviates `src/apps/api/src/` and `mobile/`
`src/apps/mobile/src/`.

The API is a Node process (several of them may run) over Postgres and Redis.
Its handlers take no lock and, with a few exceptions named below, open no
transaction: a handler is a sequence of database calls, and between two of them
anything else may happen. That is the common difficulty of the whole system,
and it sets the grain of every model of the server: **one database or Redis
call, one action.** The phone is a single thread whose requests and answers can
be lost and whose storage writes are not awaited; there an action is what runs
between two awaits, and each write that reaches its storage.

## 1. Inventory

### 1.1 Components

| Component | State it keeps | Operations | What makes it hard | What makes it correct |
|---|---|---|---|---|
| Study sessions (`api/services/session.service.js`) | `sessions`, `interruptions`: owner, start, end, plan, host, points | start, join, end, abandon, interrupt, edit, delete | every closer reads `endedAt` and later writes it unconditionally; starts list and then insert | an end inside the session's life; points and end of one close; silence earns nothing; one credit; flat rooms |
| Session sweep (`api/jobs/sessionSweep.js`) | `lock:session-sweep` in Redis | a timer per instance | the lock expires, Redis may be away, a process may die half-way | a session its client left is closed in the end; a living one is not |
| Focus estimate (`api/services/focus.service.js`, `focusScoring.js`) | `focus_samples`, scores, baselines, corrections, checklist | ingest, finalise, rate, recalibrate, tasks | runs inside a close, reads the end, the readings and the checklist in separate calls, swallows its failures; samples and ticks are checked before they are written | the score is the score of the stored time; the row and the baseline have each reading and item, once; nothing that is missing costs points |
| Streaks (`api/services/streak.service.js`) | one row: count, last day | record a day, read | late-closed sessions bring past days; read then upsert; nothing runs at midnight | a streak of n days is n studied days; a served streak is current |
| Goals (`api/services/goal.service.js`) | target per period | set, clear, announce after a close | no "announced" flag: it is re-derived | a reached goal is announced, once |
| Refresh tokens (`api/services/token.service.js`, `auth.service.js`) | `refresh_tokens` | login, refresh, logout, logout everywhere | rotation is read, compare-and-set, insert | one live token per login; revoked for good |
| Password reset (`api/services/passwordReset.service.js`) | `password_reset_codes` | request, verify, reset | a transaction and two compare-and-sets beside a counter of guesses; logins and refreshes in flight | one code, one holder, one password; the old logins end |
| Response cache (`api/utils/cache.js`, `api/middleware/cache.js`) | per subject a version counter, per version a payload | read-through, bump | stores are not awaited; Redis may lose either half of a bump; counters expire | an answered write is visible to the next read; staleness is bounded |
| Follows, blocks, conversations (`follow`, `block`, `conversation.service.js`) | edges, unread counts | follow, unfollow, block, unblock, send, read | check then insert, two writes without a transaction, handlers that die | no edge and no message across a block, but by a request the block overtook |
| Posts, likes, comments, bookmarks, reports | rows, cached pages of many people | create, edit, delete, one by one and in bulk | one write changes the pages of others; the pages must be found before the rows are gone | each changed page is bumped |
| Study groups (`studyGroup.service.js`) | owner, memberships, roles | create, join, leave, kick, promote, transfer | each a check and a later write | the owner is a member |
| Study routines (`studyRoutine.service.js`) | routines, items with places | create, clone, add, tick, reorder, delete | a place is computed in one call and written in another | places differ |
| Subscriptions (`subscription.service.js`) | one row per person, Stripe beside it | checkout, cancel, webhook | deliveries late, twice, out of order | the row settles on what Stripe says; who pays is premium |
| Notifications, realtime (`notification.service.js`, `realtime/`) | rows, a Redis channel, sockets | emit, read, delete, push | changes are pushed beside a list and a count read by two requests | the phone's list and badge settle on the table's |
| Chat on the phone (`messageStore.ts`, `useChat.ts`) | bubbles | send, retry, discard, receive, page of history | one message comes back three ways, in any order | each message on screen once, none lost |
| Sign-in on the phone (`auth.ts`, `sessionStore.ts`) | the session in memory, the secure store | login, refresh, sign-out, restore | writes not awaited, refresh against sign-out, kills | the held token is good; none is left behind |
| Session on the phone (`useFocusSession.ts`) | the running session, its remembered id | start, join, switch, end with retries, leave, discard | answers lost or late, kills | no open session forgotten; the button stops spinning |
| Pages sessions show in (history, goal progress, streak, analytics) | cached answers, a counter per domain | every write of a session, goal, streak or group moves counters | a page carries the counter of every domain it reads; deletions rewrite rows of other people | no page stays as it was before a write |
| Rate limiter, HTTP layer, users and photos, core clients | little or none of their own | | | see section 6 |

### 1.2 How they interact

* **Closing a session is the meeting point.** `endSession`, `abandonSession`,
  `settleOpenSessions` (inside start and join) and the sweep all reach
  `closeSession`, which writes the end and the points, then calls
  `finaliseSessionFocus`, then the streak (`recordStudyDay`) and the goals
  (`notifyGoalsReached`). A tapped end credits *today*; every other close
  credits the day the session *started*, so the streak is given past days.
* **A password reset meets the logins**: it revokes the refresh tokens in the
  transaction that sets the password, while a login that has compared the old
  password, or a refresh that has revoked and not yet inserted, is in flight.
* **Notifications** are raised by streaks, goals, likes, comments, follows and
  joins; they are written, the cache is bumped, and an event is published on
  one Redis channel that every API process relays to its sockets.
* **Every write bumps counters** of the response cache after the database has
  it; every cached read is stamped with the counters it read first. Which
  counters a write owes is worked out by the handler, and for posts, groups,
  routines and renames that is most of its work.
* **The phone** retries ends, abandons on relaunch what it remembers to have
  left running, refreshes its token once for all waiting calls, and re-reads
  its lists whenever its socket reconnects.

### 1.3 Hazards

`PROJECT.json` lists each with its line and the properties that watch it. They
are of five kinds: a check that is stale when its write happens (sessions,
blocks, groups, rotation, routines' places, checkouts); a write whose second
half may not follow (a block and its severing, a rotation's insert, a bump); a
fact derived again and again instead of stored (goals told, streaks ended,
subscriptions expired); answers and events applied out of order (webhooks, the
two stores on the phone, a refresh against a sign-out); and something that must
happen although nobody is left to do it (a session left open, a splash screen,
a spinner).

## 2. The modules

| Module | Models | The code |
|---|---|---|
| `SessionRules` | the rules that read no table: silence, sweep rule, clamping, points, a joiner's plan | `session.service.js` |
| `StudySessions`, `StudySessions_proofs` | the life of sessions, with the sweep and finalisation | `session.service.js`, `session.repository.js`, `sessionSweep.js`, `focus.service.js` |
| `StudyStreak` | one streak row under overlapping calls | `streak.service.js`, `calendar.js` |
| `StudyGoals` | one goal of one period and its announcement | `goal.service.js` |
| `RefreshTokens` | the token table under overlapping requests | `token.service.js`, `auth.service.js` |
| `PasswordReset` | one account's codes, password and logins | `passwordReset.service.js`, `auth.service.js`, `token.service.js` |
| `OneTimeReset` | what a reset promises: the abstract specification `PasswordReset` implements | `passwordReset.service.js` |
| `ResponseCache`, `ResponseCache_proofs` | one cached route of one subject | `utils/cache.js`, `middleware/cache.js`, a write of `goal.service.js` |
| `FocusScoring` | the arithmetic of the focus estimate, in exact fractions | `focusScoring.js` |
| `FocusEstimate` | one person's sessions as their estimate sees them: readings, checklist, close, baseline, rating, correction | `focus.service.js`, `focus.repository.js` |
| `Subscriptions` | one person's subscription between Stripe and the row | `subscription.service.js`, `stripeWebhook.controller.js`, `user.service.js` |
| `LiveInbox` | one person's notifications, in the table and on the phone | `notification.service.js`, `realtime/`, `notificationStore.ts`, `useNotifications.ts` |
| `SocialGraph` | follows, blocks, messages between people | `follow.service.js`, `block.service.js`, `conversation.service.js` |
| `CommunityPosts` | posts, what hangs from them, and the pages that show them | `post`, `like`, `comment`, `bookmark`, `report`, `user.service.js` |
| `StudyGroups` | one group | `studyGroup.service.js` |
| `SessionPages` | the cached pages sessions show in, and the counters in their keys | `session`, `focus`, `goal`, `streak`, `studyGroup.service.js`, key builders of `utils/cache.js` |
| `StudyRoutines` | routines and their items | `studyRoutine.service.js` |
| `ChatThread` | one chat on one phone | `messageStore.ts`, `useChat.ts`, `mobile/data/notificationSocket.ts` |
| `PhoneSession` | the phone's sign-in | `auth.ts`, `sessionStore.ts`, `api.ts` |
| `FocusClient` | the phone's study session | `useFocusSession.ts`, `study.tsx` |
| `Account_proofs` | proofs about `StudyStreak`, `PasswordReset`, `Subscriptions`, `StudyGoals`, `LiveInbox`, and the five together | |
| `Records_proofs` | proofs about `RefreshTokens`, `FocusScoring`, `FocusEstimate`, and the parts together | |
| `Social_proofs` | proofs about `SocialGraph`, `CommunityPosts` and `SessionPages` | |
| `Community_proofs` | proofs about `StudyGroups`, `StudyRoutines`, `ChatThread`, and, with `Social_proofs`, the six parts together | |
| `Phone_proofs` | proofs about `PhoneSession`, `FocusClient`, and the app as a whole | |
| `Sums_proofs` | lemmas about sums over finite sets and about folds | |
| `MC_Sessions`, `MC_Cache`, `MC_Posts`, `MC_Subs`, `MC_Focus` | TLC's instances of one module | |
| `MC_Account`, `MC_Records`, `MC_Community`, `MC_Live` | TLC's instances of several parts | |

The proofs of a large module have a module to themselves, those of the smaller ones
are grouped, mostly as the instances group them; each part of such a module begins with
its own invariant and stands alone, and the last proves of the whole what the others
prove of each.

The four composite instances put parts side by side that share no variable.
`part` names the one that moves in a behaviour, the others stay where they
begin: nothing is gained by interleaving independent parts, and one run then
checks each of them over all its behaviours. Where the parts do interact, the
interaction is inside one module: the sweep and the closers in `StudySessions`,
blocks and messages in `SocialGraph`, the reset and the logins in
`PasswordReset`, Stripe and the row in `Subscriptions`, the server and the
phone in `LiveInbox`, `ChatThread`, `PhoneSession` and `FocusClient`.

Definitions that begin with *Slip* in their comment are wrong variants of the
definition below them - a dropped guard, a missing clamp, a value read at the
wrong moment. Nothing uses them; each is substituted for the right one to see
that a property notices.

### 2.1 StudySessions

A **request** (`req[r]`) is a handler in flight: where it stands (`pc`), which
operation it is (`kind`) and what it has read so far. `row` is the sessions
table, `signs` the newest foreground sample, the newest interruption and the
number of penalties of each session, `credits` a count of how often the
gamification of a close ran.

| Action | Code |
|---|---|
| `BeginStart`, `BeginJoin`, `ResolveHost`, `ListOpen` | `startSession`, `joinSession` up to the list of `settleOpenSessions` |
| `SettleNext`, `Settled`, `CreateSession` | the loop of `settleOpenSessions`, its 409, `openSession` |
| `BeginEnd` | `endSession`: the read, the `endedAt` check, the clamp |
| `BeginAbandon`, `RereadAbandoned` | `abandonSession`: activity first, the row again later |
| `BeginSweep`, `SweepNext`, `SweepDone` | `sweepOnce` with its Redis lock, `sweepAbandonedSessions` |
| `WriteEnd` | `closeSession`'s update by id - not conditional on the row being open |
| `ReadForScore`, `WriteScore` | `finaliseSessionFocus` |
| `Gamify` | `creditAbandoned`, or the end's own streak and goal calls |
| `BeginSample`, `BeginInterruption`, `Insert` | the `endedAt` check, and the later insert |
| `DeleteSession` | the delete, with `ON DELETE SET NULL` on rows that had joined it |
| `Crash`, `Tick` | a process dies with a request half done; the clock |

A focus *score* is represented by the end of the interval it was taken over
(`scored`): what matters here is whether it is the interval that is stored. And
`serial` is a history variable: it stays TRUE while no request has begun with
another in flight. Properties under `serial` say what the code achieves for a
person whose requests do not overlap - the case its checks are written for.

### 2.2 The account

* `StudyStreak`: `BeginRecord` is the read and the decision of
  `recordStudyDay`, `Upsert` the unconditional upsert, `TellMilestone` the
  notification. `studied` is the history of days that were recorded; the count
  served is `EffectiveCount`, the streak expiring on read.
* `StudyGoals`: sessions close (`End`, `Abandon`) and their announcement comes
  later (`NotifyGoalsReached`); `SetGoal` and `DeleteSession`, which takes the
  session's minutes with it, may come at any moment between. `metWhenSet`
  remembers that a target was already met when it was set: nobody crosses that
  one. `overtaken` remembers that a close or a deletion came before another
  close's announcement, whose progress it changes.
* `RefreshTokens`: `ReadForRotation`, `Rotate` (the compare-and-set), `Issue`
  (the insert), `Burn` (a used token returns: everything of that user is
  revoked), `Login`, `Logout`, `RevokeAllForUser`, `Crash`. `family` is the
  login a token descends from; the table has no such column, it states what
  rotation promises.
* `PasswordReset`: `BeginMail` and `CommitMail` are the two statements of the
  transaction that replaces the codes, with the rows it has deleted locked until
  the commit; `BeginVerify`, then `CountGuess` or `GrantCode`; `BeginReset`,
  then `SetPassword`, the transaction that consumes the code, sets the password
  and revokes. A device is logged in, in the middle of a login, or in the middle
  of a refresh; `late` holds those that were in the middle when a password
  changed. `OneTimeReset` is the promise: a code is mailed, granted to one
  holder, redeemed once, or withdrawn. `StageOf` and the holder and password of
  the rows are the refinement mapping.
* `Subscriptions`: a checkout is find customer, create it, store it, open a
  session; `Pay`, `PeriodEnds` and the deliveries are Stripe's; a webhook is
  `Receive`, `Retrieve`, `FindRow`, `WriteRow` and the bump. `Repeat` delivers
  again, or a delivery dies and comes back. `overlapped` and `doubled` remember
  that two writers of the row ran together, or that a person held two running
  subscriptions at Stripe at once.
* `LiveInbox`: `Commit` (a write of the table) and `Publish` are two steps;
  frames travel in order; a load is a list and a count served apart and landing
  together; what the person does on the phone is applied at once
  (`AskFor`) and taken back when the request is refused.

* `FocusEstimate`: a reading is good or bad and its request checks the session
  (`BeginIngest`) before it inserts (`CreateSample`); so do the checklist's
  `BeginAddTask`, `BeginTick` and the writes behind them. A close is
  `BeginClose`, `WriteClosed`, then `FindSamples`, `FindTasks`,
  `UpdateSessionFocus` and `UpsertBaseline`; a rating is `Rate`, `FindRated`,
  `FindCalibration`, `UpsertCalibration`. `EstimateFails` is a call whose
  failure the close swallows. The score comes from `FocusScoring`, whose
  fractions have a common denominator so that nothing is rounded but what the
  code rounds.

### 2.3 The community

* `SocialGraph`: `FindFollow`, `CreateFollow`; `CreateBlock`, then
  `Sever` and `SeverBack`, two deletes; `CreateMessage`; each with its bump
  (`BumpPeople`). `lag` holds the counters whose lists changed and were not
  bumped since. `slipped` are the edges an overtaken request left across a
  block, `unseen` the bumps that died with their handler.
* `CommunityPosts`: what a page shows is an operator on the tables (`Page`), and
  a step that changes it puts it among the pages `owed` until its bump. Who must
  be bumped is worked out as each service does it, before the write
  (`CollectUserVersionKeys` for a rename) or after it (`FanOut` for a post);
  `forgotten` holds the pages a handler changes and never means to bump, which
  is what a deleted post leaves (section 4).
* `StudyGroups`: each operation is a check (`CheckJoin`, `CheckKick`, ...) and a
  write (`WriteMembership`, `WriteOwner`, ...). A request between the two is
  `overtaken` by any other write, and `orphaned` records that one such left the
  owner without a membership.
* `StudyRoutines`: `NextTodoPosition` is read in one call and written in
  another; a reorder is one update per item inside a transaction; a clone is a
  routine and then its items. `tied` and `unbumped` are its excuses.
* `SessionPages`: `Sheet` is what the handler behind a cached route would answer
  now, `Stamps` the counters in its key. A write that changes a sheet puts the
  page into `aged`, and `BumpCounters` takes out those with a counter it moved; a
  handler `owes` its counters from the write on. Progress reads sessions and
  goals, analytics sessions, goals and the streak, and a deleted session or group
  rewrites rows of others. Two changes are left to a page's expiry and age nothing:
  a renamed group's histories, and rows that came to point at what was deleted
  after the handler had listed them (`Unseen`). The process dying before a bump is `ResponseCache`'s case, not this one's.
* `ChatThread`: a send is drawn as a placeholder, and the stored message comes
  back as an event, as the answer to the POST and in a page of history.
  `late` remembers a page that was read before a message and landed after it.

### 2.4 The phone

* `PhoneSession`: `SetSession` changes memory and appends a write of the secure
  store; the write happens in `WriteStore`. A refresh carries the token it began
  with; when its answer comes the person may have signed out, or in again.
* `FocusClient`: `op` is the one request the person waits for, `settle` the
  closing of a leftover, `key` the remembered id and `keyWrites` the writes on
  their way to it. `Kill` loses everything in memory. `unheard` holds sessions
  the server opened and whose id the phone never got to write down.

## 3. What the runs check

| Run | Instance | What it shows |
|---|---|---|
| `sessions_race` | 1 person, 1 session, 2 requests, every operation, sweeps without their lock, times 0..4 | `EndWithinLife`, `PointsMatchEnd`, `SilenceEarnsNothing` in every interleaving; `CreditedOnceSerially`, `ScoreMatchesEnd`, `SweepSparesTheLiving` while requests do not overlap |
| `sessions_rooms` | 3 people, 3 sessions, 2 requests; start, join, delete | `RoomsHold` (`RoomsAreFlat` and `PlannedRoomsStayPlanned`), `OneRunningSerially` |
| `sessions_credited_twice` | two closers | `CreditedOnce` fails |
| `records` | two parts, 2 requests each: 2 people, 4 tokens, crashes; 1 session with 1 reading, 2 items, 2 ratings, failing calls | `OneLivePerLogin`, `RevokedForGood`; `EstimateIsKept` (`EstimateIsOfTheSession`, `ItemsStandApart` and `CorrectionIsOfScores`); `ScoringIsSound` (`ScoringIsFair` over sessions of up to two readings, `BaselineIsOfAllReadings` over up to four) |
| `cache_race` | 2 reads, 2 writers, 3 writes, times 0..5 | `VisibleOnNextRead`, `StaleOnlyBriefly` |
| `cache_expiry` | the same | `ExpiryResurrectsNothing` fails |
| `account` | five parts, 2 requests each: streak (5 days), goals (2 sessions, 2 targets, 2 announcements pending), reset (2 codes, 2 devices, 1 wrong guess), subscription (2 at Stripe, 1 customer), inbox (2 notifications, 1 load) | `StreakIsEarned`, `ServedStreakIsLive`, `MilestoneOnce`, `ResetOnlyOnGap`; `GoalsAreToldOnce` (`AnnouncedOnce` and `ReachedIsAnnounced`); `OldSessionsEnd` and the refinement `ResetIsOneTime`; `SubscriptionSettles` (`RowFollowsStripe` and `PayerIsPremium`); `InboxAgrees` |
| `subs_customer` | 2 checkouts, 2 customers | `CheckoutsShareACustomer` fails |
| `community` | six parts, 2 requests each: 2 people and a handler that dies; 1 post, 2 people, one mark at a time, 1 edit; a group of 3; 2 routines, 2 items; a chat of 2 messages; 2 sessions of 2 people, 1 group, 1 break, rating, goal or rename at a time | `BlockedAreApart`, `MessagesRespectBlocks`; `PagesAreCurrent` of five parts (`ListsAreBumped`, `PagesAreBumped`, `GroupPagesAreBumped`, `RoutinePagesAreBumped`, `SessionPagesAreBumped`); `OwnerIsMember`; `PlacesAreDistinct`; `ChatIsWhole` (`BubblesAreDistinct`, `SettledChatIsComplete` and `TypedIsKept`) |
| `posts_deleted` | 2 people, 1 post | `DeletedPostsLeaveTheLists` fails |
| `live` | three parts, with fairness: 1 session, its sweep with the lock, a crash; the sign-in with 3 tokens and a kill; the phone's session with 3 ids, a retry and a kill | `LeftOpenEnds` (`LeftOpenIsClosed`), `SpinnersEnd` (`LaunchEnds` and `BusyEnds`); `SessionIsKept`, `NoTokenIsLeftBehind`; `ScreenIsSound` (`OpenSessionsAreHeld`, `RecapIsOver`, `TimersHaveASession`) |
| `focus_tap` | the phone's session | `EndsWhenTapped` fails |

Type invariants are checked beside them.

**Excuses.** Several of these properties are broken by the code in a known and
narrow case, and a property that simply assumed no concurrency would say little.
Such a property names its excuse by a history variable that a step sets only in
that case, so that every *other* way to break it is still found:

* `slipped` (SocialGraph): a follow or a message whose check came before a block
  and whose insert came after it; a block whose handler died before severing.
* `orphaned` (StudyGroups): a request that had passed its check when another
  one wrote.
* `overtaken` (StudyGoals): a close whose announcement was still to come when another
  session was closed or one was deleted.
* `tied`, `unbumped` (StudyRoutines): two requests that computed a place from the
  same items; the pages of clones detached by a delete.
* `forgotten` (CommunityPosts): the pages the fan-out of a delete cannot find.
* `Unseen` and `RenameClub` (SessionPages): a renamed group's histories, which the
  code leaves to their expiry; rows attached between a delete's list and the delete.
* `overlapped`, `doubled` (Subscriptions): two deliveries reading Stripe and
  writing the row in opposite orders; two paid subscriptions.
* `mingled`, `missed`, `shuffled` (FocusEstimate): two closes at once; a write
  checked before the close that landed after it, or an estimate that failed; a
  checklist an item was removed from, or that two requests added to at once.
* `late` (PasswordReset): a login that had compared the old password, or a
  refresh between its two writes, at the moment of the reset.
* `crossed` (LiveInbox), `late` (ChatThread): an answer that was overtaken by a
  change, applied after it.
* `upset` (PhoneSession), `unheard` (FocusClient): an answer that never came.

**Bounds.** All are constants used in guards. `IdLeft` keeps a session id free
for every request that may still create one; `MaxNow` ends the clock, `MaxStart`
is the last moment a session may start and `LastUse` the last moment a sample
or interruption may arrive, so that what follows them (settling, sweeping) has
time left to happen inside the instance; `MaxInterruptions` caps counted
penalties, `MaxCrashes`, `MaxLost`, `MaxKills` and `MaxDeaths` the handlers,
processes and apps that die, `MaxPending` announcements outstanding,
`MaxMessages` unread messages, `MaxMarks` likes, comments, bookmarks and reports
at once, `MaxChanges` edits and renames, `MaxPlace` an item's place, `MaxSends`
and `MaxStored` the messages typed and stored, `MaxDays` paid periods,
`MaxRepeats` deliveries repeated, `MaxReadings`, `MaxPlaces` and `MaxVerdicts`
a session's readings, its items and the ratings given, `MaxDay`, `MaxClock`, `MaxWrites` and
`RequestTime` as named. `MaxAttempts` and `MaxTries` are not bounds but the
code's own limits (`RESET_CODE_MAX_ATTEMPTS`, the length of
`END_RETRY_DELAYS_MS`), scaled down like the thresholds of time (five minutes,
one hour, three hours become small integers in the order `SessionRules`
assumes).

Two requests at a time suffice for the races the code is exposed to, since each
is between a reader and one writer that comes between its calls. Three sessions
are what a room, its host and a settled predecessor need; three students what a
kick, a transfer and a leave need; two codes what a withdrawal needs; two items
what a tie needs; two messages what an order needs. Deadlock is not checked
where the bounds let every counter run out.

**Fairness** (`LiveSpec`, the conjunction of each part's own). Of the server:
weak fairness of `Proceed(r)` - a handler that has started is a promise chain on
the event loop whose calls are answered or fail; of `BeginSweep(r, TRUE)` - the
interval timer keeps firing in every process; and of `Tick`. Of the phone: a
request is answered or lost (`ServeCalls` or `Lose`, `ServeAbandon` or
`LoseAbandon`, `RestoreAnswered`, `LoginAnswered` or `CallLost`: `fetch` settles;
the code sets no time-out, the platform has one), what follows an answer runs
(`Answered`, `Proceeds`), and a storage write is done (`WriteKey`). Nothing is
assumed of people: no fairness makes anyone end, abandon or start a session, and
a crash may take the sweep with it.

## 4. Where the code and its text disagree

Each of the first five is a run that fails on one property.

1. **A session credited twice** (`sessions_credited_twice`). sessionSweep.js:12
   locks because two closers would credit streak and goals twice; the lock keeps
   sweeps apart, not a sweep from an end, an abandon, a start, or an end from its
   own retry.
2. **A counter's expiry brings an entry back** (`cache_expiry`). utils/cache.js:131
   argues that payloads are gone before their counter can be. A payload stored
   under the counter's last value just before it expires is served again once
   the next write has set the counter to 1 - if that value was 1.
3. **The second checkout's customer wins** (`subs_customer`).
   subscription.service.js:156 expects the second write to lose on the `@unique`;
   the two customers differ, so it does not, and a payment through the first is
   of nobody.
4. **A deleted post stays in lists** (`posts_deleted`). post.service.js:113 says
   the fan-out finds everyone who saved or liked a post; on a delete it looks
   after the rows are gone (:508, and :428 in bulk).
5. **An old tap ends a new session** (`focus_tap`). useFocusSession.ts:291 dates
   an end by the first tap; a switch to a group session after an end that failed
   keeps the tap of the session before.

Others are consequences of the same steps, visible in the models, and are not
runs of their own:

* session.service.js:412 promises one running session per person; two starts in
  flight both find none and both insert (`OneRunningSerially` holds, and needs
  its `serial`).
* streak.service.js:135 ignores a day earlier than the last active one; the
  comparison is made on the row as read, and the upsert is unconditional, so an
  overlapping older call moves the streak back.
* goal.service.js:194 says that subtracting the session's minutes is "exact rather
  than approximate". It is while one close at a time is announced. Two closes whose
  announcements both come after both rows are written may each find the other's
  minutes enough, so that neither tells, and a session deleted in between takes away
  minutes the announcement then subtracts again (`GoalsAreToldOnce` needs its
  `overtaken`).
* token.service.js:223 means a token refreshed twice at once not to be treated as
  stolen. It is when the second request reads after the first one's update.
* subscription.service.js:302-309 re-reads Stripe so that the order of deliveries
  does not matter; two overlapping deliveries may read in one order and write
  (:356) in the other.
* A page of chat history read before a message and landing after its event
  (`mobile/data/notificationSocket.ts`, `messageStore.ts`) replaces the chat
  without it, until the next reload.
* A switch whose end succeeds and whose join is then refused
  (useFocusSession.ts:643-655) leaves the screen "running" with no session id.

* focus.repository.js:101-102: a rating given again "replaces the previous verdict
  rather than stacking a second one". The verdict is replaced, but `Rate` runs the
  whole of `recalibrate` again, and the stored score it is compared with has not
  changed: the same verdict sent n times moves the correction n times, up to
  `MAX_CALIBRATION_OFFSET` (`FindRated`, `UpsertCalibration`). That "adding a
  fraction of it converges" (focusScoring.js:664) needs a new score each time.
* focus.service.js:145-193 reads the samples, works out a score and writes it,
  whatever the row holds by then. Of two closes of one session at once, the one that
  read before a late reading arrived may write last: the row then loses a score that
  had been rated, and the correction goes on counting the verdict on it
  (`CorrectionIsOfScores` needs its `mingled`; three requests show it, two do not).
* focus.repository.js:307-308: positions "continue from whatever is already
  there". They continue from the *number* of items, so after a removal a new item
  takes a place that is taken (`shuffled` excuses this in `ItemsStandApart`).

## 5. What is proved

`tlapm` checks every proof. Every invariant and every action property a run of section
3 passes on is stated by a theorem, for all values of the constants. The assumptions are those the modules name
(`SessionsAssumption`, `CacheAssumption`, ...): the types of the constants, that a
null id is not an id, and four of substance. `RulesAssumption` orders the session's
thresholds of time as the code does. `CacheAssumption` says that an entry and a
request last less than a counter, which is the argument of utils/cache.js:131, and
that an entry lasts at all. `RoutinesAssumption`, `EstimateAssumption`, `GoalsAssumption`
and `InboxAssumption` say that items, sessions and notifications are finite in number,
for a place is a maximum or a count over them, progress a sum, a badge a count. Nothing is assumed of how many users, sessions, tokens, codes, people or
requests there are.

| Theorem | Says |
|---|---|
| `SessionsTypeCorrect` | `StudySessions` keeps its types |
| `EndStaysWithinLife` | start <= end <= now for every ended session |
| `PointsAlwaysMatchEnd` | points and end come from one close |
| `SilenceNeverEarns` | only a tapped end reaches past the last sign of life |
| `OneCreditWhenSerial`, `OneRunningWhenSerial`, `ScoresMatchEnds`, `SweepFindsSilence` | while requests do not overlap: one credit a session, one running session a person, the score of the stored time, and a sweep that closes only the silent |
| `RoomsAlwaysHold` | a room has one level, its host is there, and who joins a planned room has a plan |
| `StreakTypeCorrect`, `StreakEarned`, `ServedStreakLive` | types; a stored streak of n days is n recorded days in a row; one that is served reaches today or yesterday |
| `MilestoneToldOnce`, `OnlyGapsReset` | while calls do not overlap: a milestone is told once a day, and only a gap restarts a streak |
| `TokensTypeCorrect`, `OneLive`, `NoDoubleExchange`, `RevocationIsFinal` | types; one live token for each login, one successor for each token; what is revoked stays so |
| `TypeCorrect`, `StaleBriefly`, `NextReadSees` (cache) | types; a lagging entry nobody is about to outdate dates from a loss or an expiry within an entry's life; a read shows every write answered before it began |
| `EstimateStaysKept` | a closed session counts its own checklist and its readings entered the baseline once; items keep their own places; a correction comes from scores that were rated |
| `SubscriptionTypeCorrect`, `SubscriptionSettled` | types; with every announcement handled the row says what Stripe says, and who pays is premium |
| `ResetTypeCorrect`, `OldSessionsAreOut` | types; a device logged in with an old password was in the middle of something at the reset |
| `ResetImplementsOneTime` | `PasswordReset` implements `OneTimeReset` |
| `GoalsToldOnce` | while no close or deletion comes before another close's announcement, a goal that is reached is told, and told once a period |
| `InboxAlwaysAgrees` | with nothing on its way, the phone's list and badge are the table's, unless an answer was overtaken by a change |
| `ScoringFair`, `BaselineOfAll`, `ScoringSound` | a score is of 0..100 and monotone, for any readings; a baseline updated list by list is the mean and variance of all; both as the run states them |
| `EstimateTypeCorrect` | scores, counts and offsets of `FocusEstimate` stay in their ranges |
| `SocialTypeCorrect`, `BlocksPartPeople`, `NoMessageThroughABlock` | types; edges and messages cross a block only when the block overtook their check, or died |
| `ChangedListsAreBumped`, `GroupPagesBumped` | a page that changed has a handler about to bump it |
| `PostsTypeCorrect`, `PostPagesBumped` | types; a page that shows a post, a mark or a name has, once that changed, a handler about to bump it |
| `PagesTypeCorrect`, `SessionPagesBumped` | types; a page of histories, progress or analytics that changed has a handler that owes a counter in its key |
| `PagesStayCurrent` | the five kinds of cached pages together |
| `ChatStaysWhole` | each message is on the screen once, all when all has landed, none that was typed lost |
| `GroupsTypeCorrect`, `OwnerStaysMember` | types; only an overtaken request leaves a group's owner no member |
| `RoutinesTypeCorrect`, `PlacesStayDistinct`, `RoutinePagesBumped` | types; no two items of a routine at one place; a routine's page that changed has a request about to bump it |
| `PhoneTypeCorrect`, `SessionStaysKept`, `SignOutLeavesNothing` | types; what the app holds is good on the server and is what its store will hold; no live token is left behind |
| `ClientTypeCorrect`, `ScreenStaysSound` | types; a session the server has open is on the screen or its id is kept, a recap is of one that is over, no timer without a session |
| `AccountIsItsParts`, `RecordsAreTheirParts` | a behaviour of a composite instance is one of each of its parts, so that what is proved of a part holds in it |
| `AccountTypeCorrect`, `RecordsAreTyped`, `CommunityTypeCorrect`, `AppTypeCorrect` | the type invariants of the composite instances |

**Sessions.** What a close stores was decided several calls earlier, from data
that may have changed since; the invariant is about that knowledge. `Known(r)`
says of a request that every time in its activity list lies between the start
of that session and its *present* last sign of life, that the close point it
carries into `WriteEnd` does too unless somebody tapped, and that its penalties
are at most those logged by now. It survives everybody else's steps
(`UntouchedKnown`) because starts are fixed and signs of life, penalties and
the clock only grow (`Persists`, `PersistStep`) - which is exactly why a stale
list is harmless here: it can only under-estimate. `NothingAhead` (nothing is
stamped in the future) closes the induction, and `EndedBy` says that an end
changes under nobody but a request that is about to write it.

**Sessions, while requests do not overlap.** The handlers guard nothing, so this is
all they promise about credits: `sessions_credited_twice` shows what two overlapping
requests do. `Serially` says that at most one request
is at work and what it may still rely on: the session it is about to close is open
or has been deleted, and without a credit (`AtWork`); the activity a sweep read is
still that of its sessions (`SweepSees`); the open sessions of somebody who starts
are those still to settle (`Cleared`), so there is none when the new one is created;
and the score and the credit of an ended session are there or with that request
(`Accounted`). The clock and deletions go on in between, and are why each part
allows for a session that is gone.

**Rooms.** A joiner reads the session it joins, then that one's host, closes what it
has open and inserts last; the room may be deleted at any point in between. `Heading`
says what the request may still rely on: the session it found and the host it carries
are, as long as they are there, of a room of somebody else. Neither can come back once
deleted, so the late insert finds its host as it was read, or finds it gone and is
refused.

**The cache.** A read stores what it read under the version it read before it;
everything follows from what a version is worth. `Fresh`: a body under the current
version shows all writes but those whose handler is about to move the counter.
`Ahead`: nobody has used a version that is still to come. `Served`: what a read finds,
or somebody is about to put where it will look, shows all that had been answered when
it began. Each allows for a body that dies before `excuse` or `lapse` do - a loss or
an expiry now may show for a request and an entry's life (`Timely`). `Numbered` is the
count behind `Ahead`: the counter has moved at most once for each write that is
announced, which takes the cardinality of the set of writes that are not.

**Streaks.** `StreakIsEarned` is not inductive: a call in flight may hold a
count. `CallsAreEarned` says that what it holds has been earned, and runs stay
runs as days are added (`RunGrows`). The two theorems about calls that do not
overlap rest on a `Serially` of their own: there is at most one call under way, what it is about
to write still follows from the row as it is, every studied day is in the row or in
that call, and the days already told are behind the row.

**Goals.** No flag says that a goal was announced, so the invariant (`CountIsFair`) has
to say of minutes what a flag would: while nothing was overtaken at most one close is
still to be announced; what was announced is reached *without* that one, and what was
not is not reached without it. `Others`, the progress without a session, is why sums are
needed: that a sum over a finite set is one of its elements and the rest
(`Sums_proofs`). `TimesAreInOrder` keeps minutes from being negative and says that the
running session is the last begun, hence of this period when any is. The deletion of a
session was missing from the model until this proof asked what makes progress fall.

**The inbox.** With a change still to be published, or frames on the socket, the phone
is not the table yet. `PhoneFollows` says that it will be: there is a path of lists
(`LeadsTo`) from the phone's through each frame in order and the unpublished change,
that ends at the table. A path, and not a fold: a step takes a frame from its front or
adds one to its end. `NothingIsNews` is what makes a list that is read at any moment
join that path: a frame that is still to come changes nothing in the table as it is now,
unless a later one undoes it, so applying it twice does no harm. `AskIsAlone` covers the
one thing the phone does first and tells the server after.

**Tokens.** `OneLivePerLogin` needs `Reserved`: between the compare-and-set and
the insert a rotation owns its family - nothing in it is live, and no other
request is on its way to issue into it. `Lineage` ties a token to its
predecessor, `RotatesExisting` says a rotation holds a token that exists.

**The focus estimate.** A close reads the tables one after the other and writes what it
made of them later. `CloserKnows` says what it holds at each of its stages: the counts
of readings and of ticked items as they are, as long as the session is not `missed` -
for the end is written first, and a write after it was let in before. The baselines it
read are the stored ones, and the session is in none of them (`KnowsBaseline`), because
one close at a time is all `mingled` leaves (`AloneInClosing`). `PlacesFill` is what a
place that is a *count* needs: the places are those below the number of items, and of
those who add, one has counted. For `CorrectionIsOfScores` the first attempt did not
ask for closes apart; the step of a second close that writes "no score" broke it, and
TLC, given a third request, has the behaviour (section 4).

**Its arithmetic.** A score is a weighted mean of three fractions, each of 0..1
(`Mean`, `Proper`): it lies in 0..100, and grows with each of them. The readings enter by
a fold, and the baseline is a fold of Welford's update. What a fold gives is shown
without induction: a CHOOSE-defined function over subsets is shown to exist, and of the
prefixes of which the claim (`RunKeeps`: count, sum and sum of squares so far) fails,
there would be a shortest one. `ValuesFit` says of what requests carry that it is in the
range of what they will write.

**Subscriptions.** The row is right when nothing is pending, so the invariant says how
it becomes right. `WriterSees`: what a handler nobody overlapped is about to write is
what Stripe says now, or Stripe has announced another change. `RowCatchesUp`: the row
agrees, or somebody will make it. `PayerCatchesUp`: the same of which subscription the
row names, which one write of an ended one could undo - unless that one is what the
row holds, the check the handler makes first. `NewCustomers` says that a customer
between its creation and its storing belongs to nobody else.

**The reset.** Each step of `PasswordReset` maps to a step of `OneTimeReset` or
to a stutter: a commit mails its code and withdraws the rows it deleted, a grant
opens an open code (the compare-and-set), a password is set by a code that was
held. The inductive part is what a request between its two calls may still
assume of the row it has read - less than it read: only the compare-and-set at
the second call makes the step legal.

**Groups.** Nothing protects a handler's check from the writes of the others, so
the invariant says what a request may still believe: `BeliefHolds` - while nothing
was written since its check, the new owner is a member and the one who goes is not
the owner. Every write withdraws that belief from the others (`Owing` marks them
overtaken), and `orphaned` records the writes made without it. The one owner who is
no member yet is the owner the request in `createGroup` is about to add
(`OwnerIsOrBecomesMember`): the property alone, with any such request, would not
survive the end of one.

**Routines.** `Foresees` is the knowledge a request carries from its read to its write
while nobody overtook it: its place is past all others, its order names every item, its
clone has no items yet. `DustIsOwed` gives each changed page its request, and needs
that a clone half made still owes the bump of its list even before its items come, if
it is still there by then (`WillBump`).

**Follows and blocks.** `ChecksStand` is the reason behind both theorems: a follow
or a message past its look for a block was overtaken if there is a block by now,
whoever of the two made it. `Severing` says which edges a block has still before it:
both until its first deletion, then only the edge back. That is stronger than
`BlockedAreApart`, which allows either until the block is done, and is needed: a
follow can put the first edge back while the block severs the second, and is then
in `slipped`.

**Posts and session pages.** Both say of a page whose bump is owed that a handler is
going to make it, page by page (`PagesAreBumped`, `SessionPagesAreBumped`), and the work
is in the other half: that a write changes no page but those its handler lists. For
posts a handler may still have to find them (`Covers`: it owes the page by now, or the
look-up it is at, of who marked a post or of a renamed person's pages, will name it); for sessions that the rows a page reads are those of
its person (`KeepsRows`, `KeepsEnds`), and that a deletion detaches no row but those
it listed or will excuse (`Detaches`).

**The chat.** The screen's bubbles are a sequence that is filtered, appended to and
rewritten. `BubblesFit` says what each may be: a stored message that has reached the
phone, or the placeholder of a send, showing what became of its request. `AllArrive`
says of each stored message that it is drawn or on its way, and `OnItsWay` lists the
ways: announced, on the socket, the socket down (it will reload), or a page asked for
that will show it. The last clause was the hard one: a message that came while a page
was being read, before the chat was there, is not drawn - the page read then shows it,
or `late` is set. What the filter keeps (`OnlyKeeps`) is shown as for the baselines.

**The parts together.** The composite instances are proved from the parts: a step of the
whole is a step of one part and leaves the others' variables alone, so each part's
invariant is kept.

**The phone's sign-in.** Tokens are handed from hand to hand - the session, an answer on
its way, a goodbye - and the invariant is an account of hands: every live token has one
(`NoneIsLost`) and no token has two (`HeldApart`), as long as no answer was lost
(`upset`). Its first form was not inductive: a session whose refresh was answered may
hold a token that is revoked, and then the answer must be there to replace it
(`AnswersAreGood`). `StoreFollows` says the same of the disk: the last write that is
pending, or what is stored when none is, is what the session wants remembered.

**The phone's session.** `OpenSessionsAreHeld` is about the phone's death, and is kept
by the key: from the moment an id is known, the key is that id or will be once its writes
are done (`KeyToBe`). `ScreenKnows`, `RequestKnows` and `SettlingKnows` say so of the
session on the screen, of the one a request is about and of the leftover, and that two
of them are never at work at once. The first `RequestKnows` said too little: that a
request which reads the session back, or was told it is over, is about a session that
is not open any more; without it the answer could take an open session off the screen.

## 6. What is only model-checked, and what is not modelled

### Only model-checked

* Liveness (`LeftOpenEnds`, `SpinnersEnd`): fairness and `ENABLED` are out of the
  prover's reach.

All else a run passes on is proved. Recursive operators and induction theorems over data
are out of the prover's reach too; the models compute with the community modules' folds
instead, and what these give is proved from a least counterexample (`LeastNat`,
`LeastSubset` in `Sums_proofs`). For the same reason `ChatThread` filters by a fold
(`Only`) and not by `SelectSeq`, which no prover expands.

What a proof says is bounded by the model all the same: the excuses of section 3 are
part of the statements, and the five failing runs of section 4 are what the code does.

### Left out of a modelled part

| Part | Left out | Why |
|---|---|---|
| Sessions | participants' presence, notes, invite codes, membership when a group session starts; room announcements | they read, or tell; no property of a session's time depends on them |
| Sweep | the batch size | a sweep takes any of the open sessions, one by one |
| Focus estimate | the logistic and bell curves that turn a reading into a quality; the restart of baselines of the old motion scale; the three baselines of a person as three rows; the mean absolute error and the correlation; the leaderboard | real-valued functions; reports that change nothing |
| Tokens, sign-in | Google sign-in, the deletion of an account, access tokens | an external identity; a cascade; signatures without state |
| Password reset | the digits of a code, the mail itself | a code is right or wrong, a mail arrives or not |
| Cache | the spelling of keys, payloads above one subject | the fan-out of a write is in the community's modules |
| Groups | the value of a join code, a group's words | data |
| Posts, users | photos, feeds, posts detached from a session or routine | a failed upload leaves an orphaned object, which the code accepts |
| Routines | titles, due dates, the block check of a clone | data; a read before the first write |
| Notifications | preferences, `notifyActivity`'s look for a duplicate, events of rooms | filters before the write |
| Conversations, chat | older pages, the list of conversations, a first message that lost the race on the pair key | one chat shows the hazards |
| Phone | samples, time away, checklist and rating of the session screen; the post store; the development sign-in | buffers that are sent as they are, and optimistic flags |

### Not modelled

* **Rate limiter**: one Lua script per request, no state between windows, open
  when Redis is away: nothing interleaves inside it.
* **The sums of analytics and history**: read-only aggregations, unit-tested; only
  what they read and when they are bumped is modelled (`SessionPages`).
* **HTTP layer, development sign-in, health**: stateless wiring.
* **Core package**: clients of Postgres, Redis, RabbitMQ and the object store; the
  models take row operations, constraints, transactions and Redis commands as
  atomic steps of the outside.
* **Screens, theme, shared package, web app**: rendering, styles, assets.

Most of the repository's lines are of this last kind, or are routes, validators,
queries' field lists and tests, which hold no state a model could be of. The map
covers the services and the phone's stores, and stays a small share of the whole.

## 7. Plan

Done, in this order: sessions, sweep and streaks with their proofs; goals, tokens,
cache; the password reset with its refinement; subscriptions and the inbox; the
community; the phone; the focus estimate and its arithmetic; the pages sessions
show in; proofs of every invariant and action property the runs pass on.

Next:

1. Accounts: Google sign-in and linking, the deletion of an account under logins
   in flight, avatars replaced while an upload is under way.
2. The phone's samples and checklist: a buffer that is flushed by a timer and by
   the end of a session; and the optimistic stores of posts and follows.
3. Two or more sessions in `FocusEstimate` (the instance has one).
4. An abstract ledger of studied time that `StudySessions` implements while
   requests do not overlap.

## 8. Running

    tlc -workers 2 -config MC_Sessions_race.cfg MC_Sessions
    tlapm StudySessions_proofs.tla

Each run of section 3 is a `.cfg` of that form, `MC_<Module>_<run>.cfg`; the five
that are expected to fail stop within seconds, the others take from half a minute
to about four. The proofs take from half a minute to
about five minutes a module.
