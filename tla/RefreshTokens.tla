---------------------------- MODULE RefreshTokens ----------------------------
(***************************************************************************)
(* The refresh tokens of apps/api/src/services/token.service.js: issued by *)
(* a login, exchanged for a new one on every refresh, revoked by a logout, *)
(* by "log out everywhere", by a password reset, and all together when a   *)
(* revoked one is presented again.                                         *)
(*                                                                         *)
(* A refresh reads the token, revokes it with a compare-and-set, and then  *)
(* inserts the new one: three database calls that other requests come      *)
(* between.  A family is the login a token descends from; the code keeps   *)
(* no such column, it is here to say what the rotation promises.           *)
(***************************************************************************)
EXTENDS Integers

CONSTANTS
    User, Token, Request,
    NoToken,
    TTL,            \* REFRESH_TOKEN_TTL_DAYS
    MaxNow          \* bound: the clock, in days

ASSUME TokensAssumption ==
    /\ NoToken \notin Token
    /\ TTL \in Nat /\ MaxNow \in Nat
    /\ User # {}

VARIABLES
    now,
    token,      \* the refresh_tokens table
    req         \* the requests in flight

tokenVars == <<now, token, req>>

States == {"absent", "live", "revoked"}
MaybeToken == Token \cup {NoToken}
Row == [st : States, user : User, expires : Nat,
        parent : MaybeToken, family : MaybeToken]
Req == [pc : {"idle", "rotate", "burn", "issue"}, user : User, tok : MaybeToken]

SomeUser == CHOOSE u \in User : TRUE
IdleRequest == [pc |-> "idle", user |-> SomeUser, tok |-> NoToken]

TokensInit ==
    /\ now = 0
    /\ token = [t \in Token |-> [st |-> "absent", user |-> SomeUser, expires |-> 0,
                                 parent |-> NoToken, family |-> NoToken]]
    /\ req = [r \in Request |-> IdleRequest]

-----------------------------------------------------------------------------
Exists(t) == token[t].st # "absent"
Live(t) == token[t].st = "live"

\* updateMany({ userId, revokedAt: null }): one statement.
RevokeAllOf(u) ==
    [t \in Token |-> IF Live(t) /\ token[t].user = u
                       THEN [token[t] EXCEPT !.st = "revoked"] ELSE token[t]]

\* A login or registration that has proved who the user is.
Login(r, u) ==
    /\ req[r].pc = "idle"
    /\ req' = [req EXCEPT ![r] = [pc |-> "issue", user |-> u, tok |-> NoToken]]
    /\ UNCHANGED <<now, token>>

\* rotateRefreshToken's read: a revoked token burns the family, an expired one
\* is refused, a live one goes on.
ReadForRotation(r, t) ==
    /\ req[r].pc = "idle"
    /\ \/ token[t].st = "revoked"
       \/ Live(t) /\ now < token[t].expires
    /\ req' = [req EXCEPT ![r] = [pc |-> IF Live(t) THEN "rotate" ELSE "burn",
                                  user |-> token[t].user, tok |-> t]]
    /\ UNCHANGED <<now, token>>

\* Slip: the update is not conditional on the token being live.
RotateUnconditional(r) ==
    /\ req[r].pc = "rotate"
    /\ token' = [token EXCEPT ![req[r].tok].st = "revoked"]
    /\ req' = [req EXCEPT ![r].pc = "issue"]
    /\ UNCHANGED now

\* The compare-and-set on revokedAt: the loser of a race is refused, and no more.
Rotate(r) ==
    /\ req[r].pc = "rotate"
    /\ LET t == req[r].tok IN
         IF Live(t)
           THEN /\ token' = [token EXCEPT ![t].st = "revoked"]
                /\ req' = [req EXCEPT ![r].pc = "issue"]
           ELSE /\ req' = [req EXCEPT ![r] = IdleRequest]
                /\ UNCHANGED token
    /\ UNCHANGED now

\* A token presented twice: revoke everything the user has.
Burn(r) ==
    /\ req[r].pc = "burn"
    /\ token' = RevokeAllOf(req[r].user)
    /\ req' = [req EXCEPT ![r] = IdleRequest]
    /\ UNCHANGED now

\* Slip: the date is subtracted, so the token is born expired.
IssueExpired(r, t) ==
    /\ req[r].pc = "issue"
    /\ ~ Exists(t)
    /\ token' = [token EXCEPT ![t] =
                   [st |-> "live", user |-> req[r].user, expires |-> now - TTL,
                    parent |-> req[r].tok,
                    family |-> IF req[r].tok = NoToken
                                 THEN t ELSE token[req[r].tok].family]]
    /\ req' = [req EXCEPT ![r] = IdleRequest]
    /\ UNCHANGED now

\* issueRefreshToken's insert, after a login or after a won rotation.
Issue(r, t) ==
    /\ req[r].pc = "issue"
    /\ ~ Exists(t)
    /\ token' = [token EXCEPT ![t] =
                   [st |-> "live", user |-> req[r].user, expires |-> now + TTL,
                    parent |-> req[r].tok,
                    family |-> IF req[r].tok = NoToken
                                 THEN t ELSE token[req[r].tok].family]]
    /\ req' = [req EXCEPT ![r] = IdleRequest]
    /\ UNCHANGED now

\* Slip: logging out deletes the mark, so the token can be used again.
LogoutToggle(t) ==
    /\ Exists(t)
    /\ token' = [token EXCEPT ![t].st = IF Live(t) THEN "revoked" ELSE "live"]
    /\ UNCHANGED <<now, req>>

\* revokeRefreshToken: silent when the token is already revoked.
Logout(t) ==
    /\ Live(t)
    /\ token' = [token EXCEPT ![t].st = "revoked"]
    /\ UNCHANGED <<now, req>>

\* "Log out everywhere", and the last step of a password reset.
RevokeAllForUser(u) ==
    /\ token' = RevokeAllOf(u)
    /\ UNCHANGED <<now, req>>

\* The process dies between two calls: a rotation that revoked the old token
\* has issued no new one, and the client must log in again.
Crash(r) ==
    /\ req[r].pc # "idle"
    /\ req' = [req EXCEPT ![r] = IdleRequest]
    /\ UNCHANGED <<now, token>>

Tick ==
    /\ now < MaxNow
    /\ now' = now + 1
    /\ UNCHANGED <<token, req>>

TokensNext ==
    \/ \E r \in Request :
         \/ \E u \in User : Login(r, u)
         \/ \E t \in Token : ReadForRotation(r, t) \/ Issue(r, t)
         \/ Rotate(r) \/ Burn(r) \/ Crash(r)
    \/ \E t \in Token : Logout(t)
    \/ \E u \in User : RevokeAllForUser(u)
    \/ Tick

TokensSpec == TokensInit /\ [][TokensNext]_tokenVars

-----------------------------------------------------------------------------
\* Every variable keeps its type.
TokensTypeOK ==
    /\ now \in Nat
    /\ token \in [Token -> Row]
    /\ req \in [Request -> Req]

\* Two refreshes racing on one token cannot mint two families: of the tokens
\* that descend from one login at most one is live (rotateRefreshToken).
OneLivePerLogin ==
    \A t1, t2 \in Token :
        Live(t1) /\ Live(t2) /\ token[t1].family = token[t2].family => t1 = t2

\* A token is exchanged at most once, and it is revoked before its successor
\* exists.
ExchangedOnce ==
    /\ \A t \in Token : Exists(t) /\ token[t].parent # NoToken =>
         token[token[t].parent].st = "revoked"
    /\ \A t1, t2 \in Token :
         Exists(t1) /\ Exists(t2) /\ token[t1].parent = token[t2].parent
           => t1 = t2 \/ token[t1].parent = NoToken

\* A revoked token stays revoked, whatever races with what.
RevokedForGood ==
    [][\A t \in Token : token[t].st = "revoked" => token'[t].st = "revoked"]_tokenVars

=============================================================================
