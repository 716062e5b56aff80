----------------------------- MODULE FocusClient -----------------------------
(***************************************************************************)
(* The study session as one phone runs it: useFocusSession.ts of           *)
(* apps/mobile, the Study tab's buttons, and the server's answers.         *)
(*                                                                         *)
(* The phone holds the session it runs in memory and its id in a key that  *)
(* outlives the app, written without being awaited, so that a session left *)
(* behind by a crash is closed at the next launch or the next start.  One  *)
(* request of the person's is under way at a time (busy), but "Leave it    *)
(* for now" answers at once.  A request or its answer can be lost, the app *)
(* can be killed anywhere, and the server may close a silent session.      *)
(***************************************************************************)
EXTENDS Integers, Sequences

CONSTANTS
    Focus,        \* ids, each given at most once
    NoFocus,
    MaxTries,       \* END_RETRY_DELAYS_MS.length
    MaxDeaths        \* bound: times the app is killed

ASSUME ClientAssumption ==
    NoFocus \notin Focus /\ MaxTries \in Nat /\ MaxDeaths \in Nat

VARIABLES
    srv,        \* the server's sessions
    phase,
    sid,        \* sessionIdRef
    key,        \* RUNNING_KEY in the phone's storage
    keyWrites,     \* setItem and removeItem calls not done yet
    timers,     \* the tick, the sampler and the app-state listener are on
    ending,
    tap,        \* the session in which End was first tapped (endTappedAtRef)
    op,         \* what busy is about, and its request
    settle,     \* settleLeftover, and its request
    deaths,
    unheard,    \* history: sessions whose id never got into the key
    misdated    \* history: sessions ended with a tap from another session

clientVars == <<srv, phase, sid, key, keyWrites, timers, ending, tap, op, settle,
                deaths, unheard, misdated>>

MaybeFocus == Focus \cup {NoFocus}
Answers == {"none", "ok", "taken", "refused", "gone", "over", "lost"}
IdleCall == [at |-> "none", s |-> NoFocus, answer |-> "none", tries |-> 0]
Op == [at : {"none", "switch", "settle", "create", "end", "read", "discard"},
       s : MaybeFocus, answer : Answers, tries : 0 .. MaxTries]
NotSettling == [at |-> "none", s |-> NoFocus, answer |-> "none"]
Settle == [at : {"none", "look", "abandon", "clear"}, s : MaybeFocus,
           answer : Answers]

ClientInit ==
    /\ srv = [s \in Focus |-> "absent"]
    /\ phase = "idle" /\ sid = NoFocus
    /\ key = NoFocus /\ keyWrites = <<>>
    /\ timers = FALSE /\ ending = "none" /\ tap = NoFocus
    /\ op = IdleCall /\ settle = NotSettling
    /\ deaths = 0 /\ unheard = {} /\ misdated = {}

-----------------------------------------------------------------------------
screen == <<phase, sid, timers, ending, tap>>
storage == <<key, keyWrites>>
histories == <<deaths, unheard, misdated>>

Busy == op.at # "none"
Ask(at, s) == op' = [at |-> at, s |-> s, answer |-> "none", tries |-> 0]
ClearRunning == keyWrites' = Append(keyWrites, NoFocus)

\* A storage write reaches the phone's disk; they are done in order.
WriteKey ==
    /\ keyWrites # <<>>
    /\ key' = Head(keyWrites) /\ keyWrites' = Tail(keyWrites)
    /\ UNCHANGED <<srv, screen, op, settle, histories>>

BeginSettling ==
    IF settle.at = "none" THEN settle' = [NotSettling EXCEPT !.at = "look"]
                          ELSE UNCHANGED settle

\* start, from the Begin button; join, from an invite or a group.
StartOrJoin ==
    /\ ~ Busy /\ phase # "running"
    /\ Ask("settle", NoFocus)
    /\ BeginSettling
    /\ UNCHANGED <<srv, screen, storage, histories>>

\* join, confirmed as a switch: the session that runs is ended first.
Switch ==
    /\ ~ Busy /\ phase = "running"
    /\ timers' = FALSE
    /\ IF sid # NoFocus
         THEN Ask("switch", sid) /\ UNCHANGED settle
         ELSE Ask("settle", NoFocus) /\ BeginSettling
    /\ UNCHANGED <<srv, phase, sid, ending, tap, storage, histories>>

\* A failure leaves the key for settleLeftover, and no session on screen.
SwitchAnswered ==
    /\ op.at = "switch" /\ op.answer # "none"
    /\ sid' = NoFocus
    /\ IF op.answer = "ok"
         THEN /\ ClearRunning
              /\ Ask("settle", NoFocus)
              /\ BeginSettling
              /\ UNCHANGED phase
         ELSE /\ phase' = "idle"
              /\ op' = IdleCall
              /\ UNCHANGED <<keyWrites, settle>>
    /\ UNCHANGED <<srv, key, timers, ending, tap, histories>>

\* settleLeftover: the key, read after the writes before it.
LookAtKey ==
    /\ settle.at = "look" /\ keyWrites = <<>>
    /\ settle' = IF key = NoFocus \/ key = sid THEN NotSettling
                 ELSE [at |-> "abandon", s |-> key, answer |-> "none"]
    /\ UNCHANGED <<srv, screen, storage, op, histories>>

\* Slip: the key is removed whatever became of the abandon.
SettleAnsweredAnyway ==
    /\ settle.at = "abandon" /\ settle.answer # "none"
    /\ ClearRunning
    /\ settle' = [NotSettling EXCEPT !.at = "clear"]
    /\ UNCHANGED <<srv, screen, key, op, histories>>

\* Closed or gone: the key goes.  Anything else leaves it for the next attempt.
SettleAnswered ==
    /\ settle.at = "abandon" /\ settle.answer # "none"
    /\ IF settle.answer \in {"ok", "gone"}
         THEN ClearRunning /\ settle' = [NotSettling EXCEPT !.at = "clear"]
         ELSE settle' = NotSettling /\ UNCHANGED keyWrites
    /\ UNCHANGED <<srv, screen, key, op, histories>>

\* ... and its removal is awaited.
SettledUp ==
    /\ settle.at = "clear" /\ keyWrites = <<>>
    /\ settle' = NotSettling
    /\ UNCHANGED <<srv, screen, storage, op, histories>>

SendCreate ==
    /\ op.at = "settle" /\ settle.at = "none"
    /\ Ask("create", NoFocus)
    /\ UNCHANGED <<srv, screen, storage, settle, histories>>

\* begin.  Nothing of an earlier End is put back.
CreateAnswered ==
    /\ op.at = "create" /\ op.answer # "none"
    /\ op' = IdleCall
    /\ IF op.answer = "ok"
         THEN /\ sid' = op.s /\ phase' = "running" /\ timers' = TRUE
              /\ keyWrites' = Append(keyWrites, op.s)
              /\ UNCHANGED unheard
         ELSE /\ unheard' = unheard \cup ({op.s} \ {NoFocus})
              /\ UNCHANGED <<sid, phase, timers, keyWrites>>
    /\ UNCHANGED <<srv, key, ending, tap, settle, deaths, misdated>>

-----------------------------------------------------------------------------
\* end: the first tap's moment is the one every attempt sends.
End ==
    /\ ~ Busy /\ phase = "running" /\ sid # NoFocus
    /\ Ask("end", sid)
    /\ IF tap = NoFocus
         THEN tap' = sid /\ timers' = FALSE
         ELSE UNCHANGED <<tap, timers>>
    /\ misdated' = IF tap \in {NoFocus, sid} THEN misdated ELSE misdated \cup {sid}
    /\ UNCHANGED <<srv, phase, sid, ending, storage, settle, deaths, unheard>>

Ended ==
    /\ ClearRunning
    /\ ending' = "none" /\ tap' = NoFocus /\ phase' = "recap"
    /\ op' = IdleCall

EndFailed ==
    /\ ending' = "failed"
    /\ op' = IdleCall
    /\ UNCHANGED <<keyWrites, tap, phase>>

\* Slip: the attempts are counted and not limited.
EndAnsweredForever ==
    /\ op.at \in {"end", "read"} /\ op.answer # "none"
    /\ \/ op.answer = "ok" /\ Ended
       \/ /\ op.answer # "ok"
          /\ op' = [op EXCEPT !.at = "end", !.answer = "none", !.tries = @ + 1]
          /\ ending' = "retrying"
          /\ UNCHANGED <<keyWrites, tap, phase>>
    /\ UNCHANGED <<srv, sid, key, timers, settle, histories>>

\* requestEnd: "already ended" is read back, a bad connection is tried again.
EndAnswered ==
    /\ op.at \in {"end", "read"} /\ op.answer # "none"
    /\ \/ op.answer = "ok" /\ Ended
       \/ /\ op.at = "end" /\ op.answer = "over"
          /\ Ask("read", op.s)
          /\ UNCHANGED <<keyWrites, ending, tap, phase>>
       \/ /\ op.at = "end" /\ op.answer = "lost" /\ op.tries < MaxTries
          /\ op' = [op EXCEPT !.answer = "none", !.tries = @ + 1]
          /\ ending' = "retrying"
          /\ UNCHANGED <<keyWrites, tap, phase>>
       \/ /\ \/ op.answer = "gone"
             \/ op.answer = "lost" /\ (op.at = "read" \/ op.tries = MaxTries)
          /\ EndFailed
    /\ UNCHANGED <<srv, sid, key, timers, settle, histories>>

Reset ==
    /\ timers' = FALSE
    /\ sid' = NoFocus /\ tap' = NoFocus
    /\ ending' = "none" /\ phase' = "idle"

\* "Leave it for now", offered when the retries have run out, busy or not.
Leave ==
    /\ phase = "running" /\ ending = "failed"
    /\ Reset
    /\ UNCHANGED <<srv, storage, op, settle, histories>>

\* The Study tab moves on to the composer, and resets.
LeaveRecap ==
    /\ phase = "recap" /\ sid # NoFocus
    /\ Reset
    /\ UNCHANGED <<srv, storage, op, settle, histories>>

\* discard, from the session bar.
DiscardSession ==
    /\ ~ Busy /\ phase = "running" /\ sid # NoFocus
    /\ Ask("discard", sid)
    /\ UNCHANGED <<srv, screen, storage, settle, histories>>

DiscardAnswered ==
    /\ op.at = "discard" /\ op.answer # "none"
    /\ op' = IdleCall
    /\ IF op.answer \in {"ok", "gone"}
         THEN ClearRunning /\ Reset
         ELSE UNCHANGED <<keyWrites, screen>>
    /\ UNCHANGED <<srv, key, settle, histories>>

-----------------------------------------------------------------------------
Open == {s \in Focus : srv[s] = "open"}
Waiting == op.at \in {"switch", "create", "end", "read", "discard"} /\ op.answer = "none"

\* The server's side of the person's request: what it does and what it says.
Outcome(effect, answer) ==
    /\ srv' = effect
    /\ op' = [op EXCEPT !.answer = answer]

ServeEnd ==
    /\ op.at \in {"switch", "end"}
    /\ CASE srv[op.s] = "open" -> Outcome([srv EXCEPT ![op.s] = "ended"], "ok")
         [] srv[op.s] = "ended" -> Outcome(srv, "over")
         [] srv[op.s] = "deleted" -> Outcome(srv, "gone")

ServeRead ==
    /\ op.at = "read"
    /\ Outcome(srv, IF srv[op.s] = "deleted" THEN "gone" ELSE "ok")

ServeDelete ==
    /\ op.at = "discard"
    /\ IF srv[op.s] = "deleted" THEN Outcome(srv, "gone")
       ELSE Outcome([srv EXCEPT ![op.s] = "deleted"], "ok")

\* startSession and joinSession: refused while another runs; an invite may be dead.
ServeCreate ==
    /\ op.at = "create"
    /\ \/ Outcome(srv, "refused")
       \/ Open # {} /\ Outcome(srv, "taken")
       \/ /\ Open = {}
          /\ \E s \in Focus :
                /\ srv[s] = "absent"
                /\ srv' = [srv EXCEPT ![s] = "open"]
                /\ op' = [op EXCEPT !.answer = "ok", !.s = s]

ServeCalls ==
    /\ Waiting
    /\ ServeEnd \/ ServeRead \/ ServeDelete \/ ServeCreate
    /\ UNCHANGED <<screen, storage, settle, histories>>

\* The request never arrived, or its answer did not.
Lose ==
    /\ \/ Waiting
       \/ op.answer \notin {"none", "lost"}
    /\ op' = [op EXCEPT !.answer = "lost"]
    /\ UNCHANGED <<srv, screen, storage, settle, histories>>

\* abandonSession, for settleLeftover.
ServeAbandon ==
    /\ settle.at = "abandon" /\ settle.answer = "none"
    /\ LET s == settle.s IN
         /\ srv' = IF srv[s] = "open" THEN [srv EXCEPT ![s] = "ended"] ELSE srv
         /\ settle' = [settle EXCEPT !.answer =
                         IF srv[s] = "deleted" THEN "gone" ELSE "ok"]
    /\ UNCHANGED <<screen, storage, op, histories>>

LoseAbandon ==
    /\ settle.at = "abandon" /\ settle.answer # "lost"
    /\ settle' = [settle EXCEPT !.answer = "lost"]
    /\ UNCHANGED <<srv, screen, storage, op, histories>>

\* The sweep, or another phone's start, closes a session that went silent.
CloseSilent(s) ==
    /\ srv[s] = "open"
    /\ srv' = [srv EXCEPT ![s] = "ended"]
    /\ UNCHANGED <<screen, storage, op, settle, histories>>

\* The app dies with everything in memory, and is opened again.  A request it had
\* sent was served before that, or never.
Kill ==
    /\ deaths < MaxDeaths
    /\ deaths' = deaths + 1
    /\ unheard' = unheard \cup {s \in Focus : op.at = "create" /\ op.s = s}
                          \cup {s \in Focus : \E i \in DOMAIN keyWrites : keyWrites[i] = s}
    /\ phase' = "idle" /\ sid' = NoFocus
    /\ timers' = FALSE /\ ending' = "none" /\ tap' = NoFocus
    /\ keyWrites' = <<>>
    /\ op' = IdleCall
    /\ settle' = [NotSettling EXCEPT !.at = "look"]
    /\ UNCHANGED <<srv, key, misdated>>

Answered ==
    \/ SwitchAnswered \/ SettleAnswered \/ CreateAnswered \/ EndAnswered
    \/ DiscardAnswered
Proceeds == LookAtKey \/ SettledUp \/ SendCreate
World == ServeCalls \/ Lose \/ ServeAbandon \/ LoseAbandon

ClientNext ==
    \/ StartOrJoin \/ Switch \/ End \/ Leave \/ LeaveRecap \/ DiscardSession
    \/ Answered \/ Proceeds \/ WriteKey \/ World
    \/ \E s \in Focus : CloseSilent(s)
    \/ Kill

\* fetch settles sooner or later (the code sets no timeout, the platform has one),
\* and what the phone itself does next it does.
ClientSpec ==
    /\ ClientInit /\ [][ClientNext]_clientVars
    /\ WF_clientVars(ServeCalls \/ Lose) /\ WF_clientVars(ServeAbandon \/ LoseAbandon)
    /\ WF_clientVars(Answered) /\ WF_clientVars(Proceeds) /\ WF_clientVars(WriteKey)

-----------------------------------------------------------------------------
ClientTypeOK ==
    /\ srv \in [Focus -> {"absent", "open", "ended", "deleted"}]
    /\ phase \in {"idle", "running", "recap"}
    /\ sid \in MaybeFocus /\ key \in MaybeFocus /\ tap \in MaybeFocus
    /\ keyWrites \in Seq(MaybeFocus)
    /\ timers \in BOOLEAN /\ ending \in {"none", "retrying", "failed"}
    /\ op \in Op /\ settle \in Settle
    /\ deaths \in 0 .. MaxDeaths
    /\ unheard \subseteq Focus /\ misdated \subseteq Focus

\* A session the phone was told of is not left open with nothing to close it: it
\* is on the screen, or its id is in the key or on its way there, whatever was
\* lost or killed, left, switched or retried.
KeyToBe == IF keyWrites = <<>> THEN key ELSE keyWrites[Len(keyWrites)]
Held == {sid, KeyToBe} \cup (IF op.at = "create" THEN {op.s} ELSE {})
OpenSessionsAreHeld == Open \subseteq Held \cup unheard

\* The phone says a session is over only when it is.
RecapIsOver == phase = "recap" => sid \notin Open

\* No timer, sampler or listener outlives the session it is for.
TimersHaveASession == timers => phase # "idle" /\ sid # NoFocus

\* OpenSessionsAreHeld, RecapIsOver and TimersHaveASession: the session the app
\* shows, the one it times and the ones the server has open are the same
\* (useFocusSession.ts).
ScreenIsSound == OpenSessionsAreHeld /\ RecapIsOver /\ TimersHaveASession

\* Whatever is lost, the buttons come back: nothing the person asked for is
\* under way for ever.
BusyEnds == Busy ~> ~ Busy

\* "When End was FIRST tapped.  Every retry sends this rather than its own
\* moment": the moment sent with a session's end is one of that session.
EndsWhenTapped == misdated = {}
=============================================================================
