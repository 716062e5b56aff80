----------------------------- MODULE PhoneSession -----------------------------
(***************************************************************************)
(* The signed-in session of one phone: auth.ts and sessionStore.ts of      *)
(* apps/mobile, against the refresh tokens of its user on the server.      *)
(*                                                                         *)
(* The session lives in memory, and in the secure store when remembered.   *)
(* Its writes to the store are not awaited.  A refresh sends the token the *)
(* session had when it began, and by the answer the person may have signed *)
(* out or in again; any request or answer can be lost, and the app can be  *)
(* killed at any point.  The server's side is one step here: see           *)
(* RefreshTokens for what it is made of.                                   *)
(***************************************************************************)
EXTENDS Integers, Sequences

CONSTANTS
    Token,          \* refresh tokens, each issued at most once
    NoToken,
    MaxKills        \* bound: times the app is killed

ASSUME PhoneAssumption == NoToken \notin Token /\ MaxKills \in Nat

VARIABLES
    tok,        \* the server's tokens
    session,    \* the session's refresh token, or NoToken
    remember,   \* of the session, or of the login under way
    store,      \* the secure store
    writes,     \* saves and clears of the store not done yet
    restored,
    call,       \* the login or the restore in flight
    refresh,    \* the refresh in flight (refreshOnce)
    farewells,  \* tokens on their way to POST /auth/logout
    kills,
    upset       \* history: an answer was lost, the app killed in a request, the
                \* tokens revoked elsewhere, or a refresh outlived its session

phoneVars == <<tok, session, remember, store, writes, restored, call, refresh,
               farewells, kills, upset>>

MaybeToken == Token \cup {NoToken}
Quiet == [kind |-> "none", sends |-> NoToken, gets |-> NoToken, answer |-> "none"]
Calls == [kind : {"none", "login", "restore", "refresh"}, sends : MaybeToken,
          gets : MaybeToken, answer : {"none", "ok", "401"}]

away == <<farewells, kills, upset>>
RevokeAll == [u \in Token |-> IF tok[u] = "live" THEN "revoked" ELSE tok[u]]

PhoneInit ==
    /\ tok = [t \in Token |-> "absent"]
    /\ session = NoToken /\ remember = FALSE
    /\ store = NoToken /\ writes = <<>>
    /\ restored = TRUE /\ call = Quiet /\ refresh = Quiet
    /\ farewells = {} /\ kills = 0 /\ upset = FALSE

-----------------------------------------------------------------------------
\* Slip: the store is left alone when the session is not to be remembered.
SetSessionKeep(t, r) ==
    /\ session' = t /\ remember' = r
    /\ writes' = IF t # NoToken /\ r THEN Append(writes, t) ELSE writes

\* setSession: saved when remembered, cleared otherwise, neither awaited.
SetSession(t, r) ==
    /\ session' = t /\ remember' = r
    /\ writes' = Append(writes, IF r THEN t ELSE NoToken)

SameSession == UNCHANGED <<session, remember, writes>>

\* A login is sent from a screen that only a signed-out, restored app shows.
SendLogin(r) ==
    /\ restored /\ session = NoToken /\ call = Quiet
    /\ call' = [Quiet EXCEPT !.kind = "login"]
    /\ remember' = r
    /\ UNCHANGED <<tok, session, store, writes, restored, refresh, away>>

\* refreshOnce, for a call that was answered 401.
SendRefresh ==
    /\ session # NoToken /\ refresh = Quiet
    /\ refresh' = [Quiet EXCEPT !.kind = "refresh", !.sends = session]
    /\ UNCHANGED <<tok, session, remember, store, writes, restored, call, away>>

\* The server: a login issues a token; a live one is exchanged; a revoked one
\* revokes all the user has.
Served(c, t) ==
    /\ c.kind # "none" /\ c.answer = "none"
    /\ tok[t] = "absent"
    /\ tok' = IF c.sends = NoToken \/ tok[c.sends] = "live"
                THEN [u \in Token |-> CASE u = t -> "live"
                                         [] u = c.sends -> "revoked"
                                         [] OTHER -> tok[u]]
                ELSE RevokeAll
ServedAnswer(c, t) ==
    IF c.sends = NoToken \/ tok[c.sends] = "live"
      THEN [c EXCEPT !.answer = "ok", !.gets = t] ELSE [c EXCEPT !.answer = "401"]

ServeCall(t) ==
    /\ Served(call, t) /\ call' = ServedAnswer(call, t)
    /\ UNCHANGED <<session, remember, store, writes, restored, refresh, away>>

ServeRefresh(t) ==
    /\ Served(refresh, t) /\ refresh' = ServedAnswer(refresh, t)
    /\ UNCHANGED <<session, remember, store, writes, restored, call, away>>

\* login's answer.
LoginAnswered ==
    /\ call.kind = "login" /\ call.answer = "ok"
    /\ SetSession(call.gets, remember)
    /\ call' = Quiet
    /\ UNCHANGED <<tok, store, restored, refresh, away>>

\* restoreSession's answer; a refusal forgets the token.
RestoreAnswered ==
    /\ call.kind = "restore" /\ call.answer # "none"
    /\ IF call.answer = "ok"
         THEN SetSession(call.gets, TRUE)
         ELSE writes' = Append(writes, NoToken) /\ UNCHANGED <<session, remember>>
    /\ restored' = TRUE
    /\ call' = Quiet
    /\ UNCHANGED <<tok, store, refresh, away>>

\* Slip: only an answer ends the splash screen.
CallLostSilently ==
    /\ call.kind # "none"
    /\ call' = Quiet
    /\ upset' = TRUE
    /\ UNCHANGED <<tok, session, remember, store, writes, restored, refresh,
                   farewells, kills>>

\* The request or its answer is lost: nothing changes, and a launch goes on.
CallLost ==
    /\ call.kind # "none"
    /\ call' = Quiet
    /\ restored' = TRUE
    /\ upset' = (upset \/ call.answer = "ok" \/ call.kind = "restore")
    /\ UNCHANGED <<tok, session, remember, store, writes, refresh, farewells, kills>>

\* Slip: the answer is stored whoever is signed in by now.
RefreshAnsweredAnyway ==
    /\ refresh.answer # "none"
    /\ IF refresh.answer = "ok" THEN SetSession(refresh.gets, remember)
                                ELSE SetSession(NoToken, FALSE)
    /\ refresh' = Quiet
    /\ UNCHANGED <<tok, store, restored, call, away>>

\* refresh's answer: a pair for a session that is gone is handed back.
RefreshAnswered ==
    /\ refresh.answer # "none"
    /\ \/ /\ session = refresh.sends /\ refresh.answer = "ok"
          /\ SetSession(refresh.gets, remember)
          /\ UNCHANGED farewells
       \/ /\ session = refresh.sends /\ refresh.answer = "401"
          /\ SetSession(NoToken, FALSE)
          /\ UNCHANGED farewells
       \/ /\ session # refresh.sends /\ SameSession
          /\ farewells' = IF refresh.answer = "ok" THEN farewells \cup {refresh.gets}
                                                   ELSE farewells
    /\ refresh' = Quiet
    /\ UNCHANGED <<tok, store, restored, call, kills, upset>>

\* Lost: the session keeps the token it has.
RefreshLost ==
    /\ refresh.kind # "none"
    /\ refresh' = Quiet
    /\ upset' = (upset \/ refresh.answer = "ok")
    /\ UNCHANGED <<tok, session, remember, store, writes, restored, call, farewells,
                   kills>>

-----------------------------------------------------------------------------
\* logout: the phone first, then the server.
Logout ==
    /\ session # NoToken
    /\ SetSession(NoToken, FALSE)
    /\ farewells' = farewells \cup {session}
    /\ upset' = (upset \/ (refresh # Quiet /\ refresh.answer = "none"))
    /\ UNCHANGED <<tok, store, restored, call, refresh, kills>>

ServeFarewell(t) ==
    /\ t \in farewells
    /\ farewells' = farewells \ {t}
    /\ \/ tok' = [tok EXCEPT ![t] = "revoked"] /\ UNCHANGED upset
       \/ upset' = TRUE /\ UNCHANGED tok
    /\ UNCHANGED <<session, remember, store, writes, restored, call, refresh, kills>>

\* The secure store does the oldest write.
WriteStore ==
    /\ writes # <<>>
    /\ store' = Head(writes)
    /\ writes' = Tail(writes)
    /\ UNCHANGED <<tok, session, remember, restored, call, refresh, away>>

\* Another device signs out everywhere, or resets the password.
RevokedElsewhere ==
    /\ tok' = RevokeAll
    /\ upset' = TRUE
    /\ UNCHANGED <<session, remember, store, writes, restored, call, refresh,
                   farewells, kills>>

\* The app is killed, with what it had not written or sent, and opened again.
Relaunch ==
    /\ kills < MaxKills
    /\ kills' = kills + 1
    /\ session' = NoToken /\ remember' = FALSE /\ writes' = <<>> /\ farewells' = {}
    /\ call' = IF store = NoToken THEN Quiet
                                  ELSE [Quiet EXCEPT !.kind = "restore", !.sends = store]
    /\ refresh' = Quiet
    /\ restored' = (store = NoToken)
    /\ upset' = (upset \/ writes # <<>> \/ farewells # {} \/ call # Quiet
                   \/ refresh # Quiet \/ (session # NoToken /\ ~ remember))
    /\ UNCHANGED <<tok, store>>

PhoneNext ==
    \/ \E r \in BOOLEAN : SendLogin(r)
    \/ \E t \in Token : ServeCall(t) \/ ServeRefresh(t) \/ ServeFarewell(t)
    \/ LoginAnswered \/ RestoreAnswered \/ CallLost
    \/ SendRefresh \/ RefreshAnswered \/ RefreshLost
    \/ Logout \/ WriteStore \/ RevokedElsewhere \/ Relaunch

\* fetch answers or fails, one way or the other.
PhoneFairness == WF_phoneVars(RestoreAnswered \/ LoginAnswered \/ CallLost)

PhoneSpec == PhoneInit /\ [][PhoneNext]_phoneVars /\ PhoneFairness

-----------------------------------------------------------------------------
\* Every variable keeps its type.
PhoneTypeOK ==
    /\ tok \in [Token -> {"absent", "live", "revoked"}]
    /\ {session, store} \subseteq MaybeToken
    /\ writes \in Seq(MaybeToken)
    /\ {call, refresh} \subseteq Calls
    /\ farewells \subseteq Token
    /\ {remember, restored, upset} \subseteq BOOLEAN

\* Nobody is signed out by a race: without a loss, the session's token is good,
\* or the refresh that exchanges it is under way.
SignedInIsGood ==
    ~ upset /\ session # NoToken =>
        \/ tok[session] = "live"
        \/ refresh.sends = session /\ refresh.answer = "ok"

\* A sign-out is a sign-out: without a loss and with nothing under way, a good
\* token is the session's or the one the next launch restores.
NoTokenIsLeftBehind ==
    ~ upset /\ call = Quiet /\ refresh = Quiet /\ farewells = {} /\ writes = <<>> =>
        \A t \in Token : tok[t] = "live" => t \in {session, store}

\* With its writes done, the store holds the session that is to be remembered,
\* and never one the person did not want remembered.
StoreHoldsTheSession ==
    writes = <<>> /\ session # NoToken =>
        store = IF remember THEN session ELSE NoToken

\* SignedInIsGood and StoreHoldsTheSession: the token the phone holds is good, and
\* the one it stored is the one it holds (auth.ts).
SessionIsKept == SignedInIsGood /\ StoreHoldsTheSession

\* The splash screen ends (restoreSession's finally).
LaunchEnds == ~ restored ~> restored
=============================================================================
