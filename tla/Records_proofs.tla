---------------------------- MODULE Records_proofs ----------------------------
(***************************************************************************)
(* Proofs about RefreshTokens, for any number of users, tokens and         *)
(* requests in flight, about FocusEstimate, for any number of sessions,    *)
(* readings, items and requests, about the arithmetic of FocusScoring, for *)
(* any session and any list of readings, and about the two parts run       *)
(* together (MC_Records).                                                  *)
(***************************************************************************)
EXTENDS MC_Records, Sums_proofs, SequenceTheorems, FiniteSetTheorems, TLAPS

-----------------------------------------------------------------------------
\* The refresh tokens.

\* Every token descends from a login: its family exists, and a successor is of
\* the family of its predecessor, which is revoked.
Lineage ==
    \A t \in Token : Exists(t) =>
        /\ token[t].family \in Token /\ Exists(token[t].family)
        /\ token[t].parent # NoToken =>
             /\ token[token[t].parent].st = "revoked"
             /\ token[token[t].parent].family = token[t].family

\* A request on its way to issue a successor of tok.
Issuing(r, tok) == req[r].pc = "issue" /\ req[r].tok = tok /\ tok # NoToken

\* A won rotation owns its family: nothing in it is live, the token it revoked
\* has no successor, and no other request is about to issue one.
Reserved ==
    \A r \in Request, tok \in Token : Issuing(r, tok) =>
        /\ token[tok].st = "revoked"
        /\ \A t \in Token : Exists(t) =>
             /\ token[t].parent # tok
             /\ Live(t) => token[t].family # token[tok].family
        /\ \A q \in Request, other \in Token :
             Issuing(q, other) /\ token[other].family = token[tok].family => q = r

\* A token about to be revoked by its holder exists.
RotatesExisting ==
    \A r \in Request : req[r].pc = "rotate" => req[r].tok \in Token /\ Exists(req[r].tok)

IInv == TokensTypeOK /\ Lineage /\ Reserved /\ RotatesExisting
          /\ OneLivePerLogin /\ ExchangedOnce

\* No revocation happens backwards and no row changes its ancestry.
OnlyRevokes ==
    \A t \in Token :
        /\ token'[t].family = token[t].family /\ token'[t].parent = token[t].parent
        /\ Exists(t)' <=> Exists(t)
        /\ Live(t)' => Live(t)
        /\ token[t].st = "revoked" => token'[t].st = "revoked"

\* No request comes to issue a successor that was not about to.
NoNewIssue ==
    \A r \in Request : req'[r].pc = "issue" =>
        req'[r] = req[r] \/ req'[r].tok = NoToken

LEMMA TypeStep == TokensTypeOK /\ [TokensNext]_tokenVars => TokensTypeOK'
<1> SUFFICES ASSUME TokensTypeOK, [TokensNext]_tokenVars PROVE TokensTypeOK'
  OBVIOUS
<1> USE TokensAssumption DEF TokensTypeOK, Row, Req, States, MaybeToken
<1>a. ASSUME NEW r \in Request PROVE IdleRequest \in Req
  <2>1. SomeUser \in User
    BY DEF SomeUser
  <2> QED
    BY <2>1 DEF IdleRequest
<1>b. \A u : RevokeAllOf(u) \in [Token -> Row]
  BY DEF RevokeAllOf
<1>1. ASSUME NEW r \in Request, NEW u \in User, Login(r, u) PROVE TokensTypeOK'
  BY <1>1 DEF Login
<1>2. ASSUME NEW r \in Request, NEW t \in Token, ReadForRotation(r, t) PROVE TokensTypeOK'
  BY <1>2 DEF ReadForRotation
<1>3. ASSUME NEW r \in Request, NEW t \in Token, Issue(r, t) PROVE TokensTypeOK'
  BY <1>3, <1>a DEF Issue
<1>4. ASSUME NEW r \in Request, Rotate(r) PROVE TokensTypeOK'
  BY <1>4, <1>a DEF Rotate
<1>5. ASSUME NEW r \in Request, Burn(r) PROVE TokensTypeOK'
  BY <1>5, <1>a, <1>b DEF Burn
<1>6. ASSUME NEW r \in Request, Crash(r) PROVE TokensTypeOK'
  BY <1>6, <1>a DEF Crash
<1>7. ASSUME NEW t \in Token, Logout(t) PROVE TokensTypeOK'
  BY <1>7 DEF Logout
<1>8. ASSUME NEW u \in User, RevokeAllForUser(u) PROVE TokensTypeOK'
  BY <1>8, <1>b DEF RevokeAllForUser
<1>9. CASE Tick
  BY <1>9 DEF Tick
<1>10. CASE UNCHANGED tokenVars
  BY <1>10 DEF tokenVars
<1> QED
  BY <1>1, <1>2, <1>3, <1>4, <1>5, <1>6, <1>7, <1>8, <1>9, <1>10 DEF TokensNext

\* Most steps only revoke, and start no issue: they keep the invariant.
LEMMA RevokingStep ==
    ASSUME IInv, TokensTypeOK', OnlyRevokes, NoNewIssue, RotatesExisting'
    PROVE  IInv'
<1> USE TokensAssumption
<1>1. Lineage'
  BY DEF IInv, OnlyRevokes, Lineage, TokensTypeOK, Row, MaybeToken, Exists
<1>2. \A r \in Request, tok \in Token : Issuing(r, tok)' => Issuing(r, tok)
  BY DEF NoNewIssue, Issuing
<1>3. Reserved'
  <2> SUFFICES ASSUME NEW r \in Request, NEW tok \in Token, Issuing(r, tok)'
      PROVE  /\ token'[tok].st = "revoked"
             /\ \A t \in Token : Exists(t)' =>
                  /\ token'[t].parent # tok
                  /\ Live(t)' => token'[t].family # token'[tok].family
             /\ \A q \in Request, other \in Token :
                  Issuing(q, other)' /\ token'[other].family = token'[tok].family => q = r
    BY DEF Reserved
  <2>1. Issuing(r, tok)
    BY <1>2
  <2> QED
    BY <2>1, <1>2 DEF IInv, Reserved, OnlyRevokes
<1>4. OneLivePerLogin'
  BY DEF IInv, OneLivePerLogin, OnlyRevokes
<1>5. ExchangedOnce'
  BY DEF IInv, ExchangedOnce, OnlyRevokes, TokensTypeOK, Row, MaybeToken
<1> QED
  BY <1>1, <1>3, <1>4, <1>5 DEF IInv

\* Revoking everything a user has only revokes.
LEMMA RevokeAllOnlyRevokes ==
    ASSUME TokensTypeOK, NEW u \in User, token' = RevokeAllOf(u)
    PROVE  OnlyRevokes
BY DEF OnlyRevokes, RevokeAllOf, TokensTypeOK, Row, States, Exists, Live

\* The compare-and-set reserves the family of the token it revokes.
LEMMA RotateStep ==
    ASSUME IInv, TokensTypeOK', NEW r \in Request, Rotate(r)
    PROVE  IInv'
<1> USE TokensAssumption
<1> DEFINE tok == req[r].tok
<1>1. tok \in Token /\ Exists(tok) /\ tok # NoToken
  BY DEF IInv, RotatesExisting, Rotate, TokensAssumption
<1>2. CASE ~ Live(tok)
  <2>1. OnlyRevokes /\ token' = token
    BY <1>2 DEF Rotate, OnlyRevokes, Exists, Live
  <2>2. NoNewIssue /\ RotatesExisting'
    BY <1>2, <2>1 DEF Rotate, NoNewIssue, IInv, RotatesExisting, TokensTypeOK, IdleRequest, Exists
  <2> QED
    BY <2>1, <2>2, RevokingStep
<1>3. CASE Live(tok)
  <2>1. token' = [token EXCEPT ![tok].st = "revoked"]
    BY <1>3 DEF Rotate
  <2>2. OnlyRevokes
    BY <2>1, <1>1 DEF OnlyRevokes, IInv, TokensTypeOK, Row, States, Exists, Live
  <2>3. req' = [req EXCEPT ![r].pc = "issue"]
    BY <1>3 DEF Rotate
  <2>4. token'[tok].st = "revoked"
    BY <2>1, <1>1 DEF IInv, TokensTypeOK, Row
  <2>5. \A q \in Request, other \in Token :
          Issuing(q, other)' => Issuing(q, other) \/ (q = r /\ other = tok)
    BY <2>3 DEF Issuing, IInv, TokensTypeOK, Req
  <2>6. \A q \in Request, other \in Token :
          Issuing(q, other) => token[other].family # token[tok].family
    BY <1>1, <1>3, Zenon DEF IInv, Reserved
  <2>7. Lineage'
    BY <2>2 DEF IInv, OnlyRevokes, Lineage, TokensTypeOK, Row, MaybeToken, Exists
  <2>8. Reserved'
    <3> SUFFICES ASSUME NEW q \in Request, NEW o \in Token, Issuing(q, o)'
        PROVE  /\ token'[o].st = "revoked"
               /\ \A t \in Token : Exists(t)' =>
                    /\ token'[t].parent # o
                    /\ Live(t)' => token'[t].family # token'[o].family
               /\ \A q2 \in Request, other \in Token :
                    Issuing(q2, other)' /\ token'[other].family = token'[o].family
                      => q2 = q
      BY DEF Reserved
    <3>1. CASE Issuing(q, o)
      <4>1. \A q2 \in Request, other \in Token :
              Issuing(q2, other)' /\ token'[other].family = token'[o].family => q2 = q
        BY <3>1, <1>1, <2>2, <2>5, <2>6 DEF IInv, Reserved, OnlyRevokes
      <4> QED
        BY <3>1, <4>1, <2>2 DEF IInv, Reserved, OnlyRevokes
    <3>2. CASE q = r /\ o = tok
      <4>1. \A t \in Token : Exists(t) => token[t].parent # tok
        BY <1>1, <1>3 DEF IInv, Lineage, Live
      <4>2. \A t \in Token : Live(t)' => token'[t].family # token'[tok].family
        BY <1>1, <1>3, <2>2, <2>4 DEF IInv, OneLivePerLogin, OnlyRevokes, Live
      <4>3. \A q2 \in Request, other \in Token :
              Issuing(q2, other)' /\ token'[other].family = token'[tok].family
                => q2 = r
        BY <1>1, <2>2, <2>5, <2>6 DEF OnlyRevokes
      <4> QED
        BY <3>2, <4>1, <4>2, <4>3, <2>2, <2>4 DEF OnlyRevokes
    <3> QED
      BY <2>5, <3>1, <3>2
  <2>9. RotatesExisting'
    BY <2>2, <2>3 DEF IInv, RotatesExisting, OnlyRevokes, TokensTypeOK, Req
  <2>10. OneLivePerLogin'
    BY <2>2 DEF IInv, OneLivePerLogin, OnlyRevokes
  <2>11. ExchangedOnce'
    BY <2>2 DEF IInv, ExchangedOnce, OnlyRevokes, TokensTypeOK, Row, MaybeToken
  <2> QED
    BY <2>7, <2>8, <2>9, <2>10, <2>11 DEF IInv
<1> QED
  BY <1>2, <1>3

\* The insert uses up what the rotation reserved.
LEMMA IssueStep ==
    ASSUME IInv, TokensTypeOK', NEW r \in Request, NEW n \in Token, Issue(r, n)
    PROVE  IInv'
<1> USE TokensAssumption
<1> DEFINE tok == req[r].tok
           fam == IF tok = NoToken THEN n ELSE token[tok].family
<1>1. ~ Exists(n) /\ req[r].pc = "issue" /\ tok \in MaybeToken
  BY DEF Issue, IInv, TokensTypeOK, Req
<1>2. /\ token'[n].st = "live" /\ token'[n].parent = tok /\ token'[n].family = fam
      /\ \A t \in Token : t # n => token'[t] = token[t]
  BY DEF Issue, IInv, TokensTypeOK
<1>3. \A t \in Token : Exists(t)' <=> Exists(t) \/ t = n
  BY <1>1, <1>2 DEF Exists
<1>4. \A t \in Token : Live(t)' <=> Live(t) \/ t = n
  BY <1>1, <1>2 DEF Live, Exists
<1>5. \A q \in Request, o \in Token : Issuing(q, o)' => Issuing(q, o) /\ q # r
  BY DEF Issue, Issuing, IInv, TokensTypeOK, IdleRequest
<1>6. tok # NoToken => Issuing(r, tok) /\ tok \in Token /\ token[tok].st = "revoked"
  BY <1>1 DEF Issuing, IInv, Reserved, MaybeToken
<1>7. \A t \in Token : Exists(t) => token[t].family \in Token /\ token[t].family # n
  BY <1>1 DEF IInv, Lineage
<1>8. \A t \in Token : Exists(t) => token[t].parent # n
  BY <1>1 DEF IInv, Lineage, Exists
<1>9. \A t \in Token : Live(t) => token[t].family # fam
  <2>1. CASE tok = NoToken
    BY <2>1, <1>7 DEF Live, Exists
  <2>2. CASE tok # NoToken
    BY <2>2, <1>6 DEF IInv, Reserved, Live, Exists
  <2> QED
    BY <2>1, <2>2
<1>10. \A q \in Request, o \in Token :
         Issuing(q, o)' => token[o].family # fam /\ Exists(o) /\ o # n
  <2> SUFFICES ASSUME NEW q \in Request, NEW o \in Token, Issuing(q, o)'
      PROVE  token[o].family # fam /\ Exists(o) /\ o # n
    OBVIOUS
  <2>1. Issuing(q, o) /\ q # r
    BY <1>5
  <2>2. Exists(o) /\ o # n
    BY <2>1, <1>1 DEF IInv, Reserved, Exists
  <2>3. CASE tok = NoToken
    BY <2>3, <2>2, <1>7
  <2>4. CASE tok # NoToken
    BY <2>1, <2>2, <2>4, <1>6 DEF IInv, Reserved
  <2> QED
    BY <2>2, <2>3, <2>4
<1>11. Lineage'
  <2> SUFFICES ASSUME NEW t \in Token, Exists(t)'
      PROVE  /\ token'[t].family \in Token /\ Exists(token[t].family)'
             /\ token'[t].parent # NoToken =>
                  /\ token'[token'[t].parent].st = "revoked"
                  /\ token'[token'[t].parent].family = token'[t].family
    BY DEF Lineage
  <2>1. CASE t = n
    <3>1. CASE tok = NoToken
      BY <2>1, <3>1, <1>2, <1>3
    <3>2. CASE tok # NoToken
      <4>1. Exists(tok) /\ tok # n
        BY <3>2, <1>6, <1>1 DEF Exists
      <4> QED
        BY <2>1, <3>2, <4>1, <1>2, <1>3, <1>6 DEF IInv, Lineage
    <3> QED
      BY <3>1, <3>2
  <2>2. CASE t # n
    <3>1. Exists(t) /\ token'[t] = token[t]
      BY <2>2, <1>2, <1>3
    <3>2. token[t].family \in Token /\ Exists(token[t].family)'
      BY <3>1, <1>3 DEF IInv, Lineage
    <3>3. token[t].parent \in MaybeToken /\ token[t].parent # n
      BY <3>1, <1>8 DEF IInv, TokensTypeOK, Row
    <3> QED
      BY <3>1, <3>2, <3>3, <1>2 DEF IInv, Lineage, MaybeToken
  <2> QED
    BY <2>1, <2>2
<1>12. Reserved'
  <2> SUFFICES ASSUME NEW q \in Request, NEW o \in Token, Issuing(q, o)'
      PROVE  /\ token'[o].st = "revoked"
             /\ \A t \in Token : Exists(t)' =>
                  /\ token'[t].parent # o
                  /\ Live(t)' => token'[t].family # token'[o].family
             /\ \A q2 \in Request, other \in Token :
                  Issuing(q2, other)' /\ token'[other].family = token'[o].family
                    => q2 = q
    BY DEF Reserved
  <2>1. Issuing(q, o) /\ q # r /\ o # n /\ token'[o] = token[o]
    BY <1>2, <1>5, <1>10
  <2>2. token'[n].parent # o
    <3>1. tok = o => q = r
      BY <2>1, <1>6 DEF IInv, Reserved
    <3> QED
      BY <3>1, <2>1, <1>2
  <2>3. token'[n].family # token'[o].family
    BY <2>1, <1>2, <1>10
  <2>4. \A t \in Token : Exists(t)' =>
          /\ token'[t].parent # o
          /\ Live(t)' => token'[t].family # token'[o].family
    BY <2>1, <2>2, <2>3, <1>2, <1>3, <1>4 DEF IInv, Reserved
  <2>5. \A q2 \in Request, other \in Token :
          Issuing(q2, other)' /\ token'[other].family = token'[o].family => q2 = q
    BY <2>1, <1>2, <1>5, <1>10 DEF IInv, Reserved
  <2> QED
    BY <2>1, <2>4, <2>5 DEF IInv, Reserved
<1>13. RotatesExisting'
  BY <1>3 DEF Issue, IInv, RotatesExisting, TokensTypeOK, IdleRequest
<1>14. OneLivePerLogin'
  BY <1>2, <1>4, <1>9 DEF IInv, OneLivePerLogin
<1>15. ExchangedOnce'
  <2>1. tok # NoToken => \A t \in Token : Exists(t) => token[t].parent # tok
    BY <1>6 DEF IInv, Reserved
  <2>2. \A t \in Token : Exists(t)' /\ token'[t].parent # NoToken =>
          token'[token'[t].parent].st = "revoked"
    BY <1>11 DEF Lineage
  <2>3. \A t1, t2 \in Token :
          Exists(t1)' /\ Exists(t2)' /\ token'[t1].parent = token'[t2].parent
            => t1 = t2 \/ token'[t1].parent = NoToken
    BY <2>1, <1>2, <1>3 DEF IInv, ExchangedOnce
  <2> QED
    BY <2>2, <2>3 DEF ExchangedOnce
<1> QED
  BY <1>11, <1>12, <1>13, <1>14, <1>15 DEF IInv

LEMMA InvStep == IInv /\ [TokensNext]_tokenVars => IInv'
<1> SUFFICES ASSUME IInv, [TokensNext]_tokenVars PROVE IInv'
  OBVIOUS
<1>t. TokensTypeOK'
  BY TypeStep DEF IInv
<1>s. token' = token => OnlyRevokes
  BY DEF OnlyRevokes, Exists, Live
<1> USE TokensAssumption
<1>1. ASSUME NEW r \in Request, NEW u \in User, Login(r, u) PROVE IInv'
  <2>1. NoNewIssue /\ RotatesExisting'
    BY <1>1 DEF Login, NoNewIssue, IInv, RotatesExisting, TokensTypeOK, Exists
  <2> QED
    BY <1>1, <1>t, <1>s, <2>1, RevokingStep DEF Login
<1>2. ASSUME NEW r \in Request, NEW t \in Token, ReadForRotation(r, t) PROVE IInv'
  <2>1. NoNewIssue
    BY <1>2 DEF ReadForRotation, NoNewIssue, IInv, TokensTypeOK
  <2>2. RotatesExisting'
    BY <1>2 DEF ReadForRotation, IInv, RotatesExisting, TokensTypeOK, Exists, Live
  <2> QED
    BY <1>2, <1>t, <1>s, <2>1, <2>2, RevokingStep DEF ReadForRotation
<1>3. ASSUME NEW r \in Request, NEW t \in Token, Issue(r, t) PROVE IInv'
  BY <1>3, <1>t, IssueStep
<1>4. ASSUME NEW r \in Request, Rotate(r) PROVE IInv'
  BY <1>4, <1>t, RotateStep
<1>5. ASSUME NEW r \in Request, Burn(r) PROVE IInv'
  <2>1. OnlyRevokes
    BY <1>5, RevokeAllOnlyRevokes DEF Burn, IInv, TokensTypeOK, Req
  <2>2. NoNewIssue /\ RotatesExisting'
    BY <1>5, <2>1 DEF Burn, NoNewIssue, IInv, RotatesExisting, TokensTypeOK, IdleRequest, OnlyRevokes
  <2> QED
    BY <1>t, <2>1, <2>2, RevokingStep
<1>6. ASSUME NEW r \in Request, Crash(r) PROVE IInv'
  <2>1. NoNewIssue /\ RotatesExisting'
    BY <1>6 DEF Crash, NoNewIssue, IInv, RotatesExisting, TokensTypeOK, IdleRequest, Exists
  <2> QED
    BY <1>6, <1>t, <1>s, <2>1, RevokingStep DEF Crash
<1>7. ASSUME NEW t \in Token, Logout(t) PROVE IInv'
  <2>1. OnlyRevokes
    BY <1>7 DEF Logout, OnlyRevokes, IInv, TokensTypeOK, Row, States, Exists, Live
  <2>2. NoNewIssue /\ RotatesExisting'
    BY <1>7, <2>1 DEF Logout, NoNewIssue, IInv, RotatesExisting, OnlyRevokes
  <2> QED
    BY <1>t, <2>1, <2>2, RevokingStep
<1>8. ASSUME NEW u \in User, RevokeAllForUser(u) PROVE IInv'
  <2>1. OnlyRevokes
    BY <1>8, RevokeAllOnlyRevokes DEF RevokeAllForUser, IInv
  <2>2. NoNewIssue /\ RotatesExisting'
    BY <1>8, <2>1 DEF RevokeAllForUser, NoNewIssue, IInv, RotatesExisting, OnlyRevokes
  <2> QED
    BY <1>t, <2>1, <2>2, RevokingStep
<1>9. CASE Tick \/ UNCHANGED tokenVars
  <2>1. UNCHANGED <<token, req>>
    BY <1>9 DEF Tick, tokenVars
  <2>2. NoNewIssue /\ RotatesExisting'
    BY <2>1 DEF NoNewIssue, IInv, RotatesExisting, Exists
  <2> QED
    BY <1>t, <1>s, <2>1, <2>2, RevokingStep
<1> QED
  BY <1>1, <1>2, <1>3, <1>4, <1>5, <1>6, <1>7, <1>8, <1>9 DEF TokensNext

LEMMA InitIInv == TokensInit => IInv
<1> SUFFICES ASSUME TokensInit PROVE IInv
  OBVIOUS
<1> USE TokensAssumption
<1>1. TokensTypeOK
  <2>1. SomeUser \in User
    BY DEF SomeUser
  <2> QED
    BY <2>1 DEF TokensInit, TokensTypeOK, Row, Req, States, MaybeToken, IdleRequest
<1>2. \A t \in Token : ~ Exists(t) /\ ~ Live(t)
  BY DEF TokensInit, Exists, Live
<1>3. \A r \in Request : req[r].pc = "idle"
  BY DEF TokensInit, IdleRequest
<1> QED
  BY <1>1, <1>2, <1>3 DEF IInv, Lineage, Reserved, Issuing, RotatesExisting,
                          OneLivePerLogin, ExchangedOnce

\* The strengthening holds in every reachable state.
LEMMA Inductive == TokensSpec => []IInv
BY InitIInv, InvStep, PTL DEF TokensSpec

\* Type correctness of the tokens for every instance.
THEOREM TokensTypeCorrect == TokensSpec => []TokensTypeOK
BY Inductive, PTL DEF IInv

\* However refreshes, logins, logouts and crashes interleave, at most one of the
\* tokens descending from one login is live.
THEOREM OneLive == TokensSpec => []OneLivePerLogin
BY Inductive, PTL DEF IInv

\* No token is ever exchanged for two.
THEOREM NoDoubleExchange == TokensSpec => []ExchangedOnce
BY Inductive, PTL DEF IInv

\* A revoked token is never live again.
THEOREM RevocationIsFinal == TokensSpec => RevokedForGood
<1> DEFINE Stays == \A t \in Token : token[t].st = "revoked" => token'[t].st = "revoked"
<1>1. TokensTypeOK /\ [TokensNext]_tokenVars => [Stays]_tokenVars
  <2> SUFFICES ASSUME TokensTypeOK, TokensNext PROVE Stays
    OBVIOUS
  <2>1. ASSUME NEW r \in Request, NEW t \in Token, Issue(r, t) PROVE Stays
    BY <2>1 DEF Issue, TokensTypeOK, Exists
  <2>2. ASSUME NEW r \in Request, Rotate(r) PROVE Stays
    BY <2>2 DEF Rotate, TokensTypeOK, Row
  <2>3. ASSUME NEW r \in Request, Burn(r) PROVE Stays
    BY <2>3 DEF Burn, RevokeAllOf, TokensTypeOK
  <2>4. ASSUME NEW t \in Token, Logout(t) PROVE Stays
    BY <2>4 DEF Logout, TokensTypeOK, Row
  <2>5. ASSUME NEW u \in User, RevokeAllForUser(u) PROVE Stays
    BY <2>5 DEF RevokeAllForUser, RevokeAllOf, TokensTypeOK
  <2>6. ASSUME NEW r \in Request, NEW u \in User, Login(r, u) PROVE Stays
    BY <2>6 DEF Login
  <2>7. ASSUME NEW r \in Request, NEW t \in Token, ReadForRotation(r, t) PROVE Stays
    BY <2>7 DEF ReadForRotation
  <2>8. ASSUME NEW r \in Request, Crash(r) PROVE Stays
    BY <2>8 DEF Crash
  <2>9. CASE Tick
    BY <2>9 DEF Tick
  <2> QED
    BY <2>1, <2>2, <2>3, <2>4, <2>5, <2>6, <2>7, <2>8, <2>9 DEF TokensNext
<1> QED
  BY <1>1, TokensTypeCorrect, PTL DEF TokensSpec, RevokedForGood

-----------------------------------------------------------------------------
\* The focus estimate.

\* What a request does to readings and to checklists, let in while a session is open.
Writing == {"reading", "add", "tick", "remove"}

\* What kind of value each variable holds; of scores, offsets and excesses only that
\* they are somewhere (V), since their arithmetic is not what this is about.
DutyOf(V) ==
    [at : {"ease"} \cup Writing \cup Closing \cup Rating, s : Sitting \cup {NoSitting},
     on : Item \cup {"none"}, was : {"new", "open", "ended"}, place : Nat,
     good : Nat, bad : Nat, known : [Sitting -> Nat],
     total : Nat, done : Nat, excess : V, n : Nat, offset : V]
SittingOf(V) == [st : {"new", "open", "ended"}, score : V, total : Nat, done : Nat]
ListedAs == [of : Sitting \cup {NoSitting}, place : Nat, done : BOOLEAN]
Shaped(V) ==
    /\ {0, NoScore} \subseteq V
    /\ sitting \in [Sitting -> SittingOf(V)]
    /\ readings \in [Sitting -> [good : Nat, bad : Nat]]
    /\ checklist \in [Item -> ListedAs]
    /\ baseline \in [Sitting -> Nat] /\ verdict \in [Sitting -> 0 .. 5]
    /\ correction \in [offset : V, n : Nat]
    /\ duty \in [Duty -> DutyOf(V)]
    /\ mingled \in BOOLEAN /\ missed \subseteq Sitting /\ shuffled \subseteq Sitting

\* A request is about a session; one that writes was let in while that was open.
DutiesAreOwn ==
    \A d \in Duty :
        /\ duty[d].at # "ease" => duty[d].s \in Sitting
        /\ duty[d].at \in Writing => duty[d].was = "open"
        /\ duty[d].at \in {"tick", "remove"} => duty[d].on \in Item

\* The items of a checklist fill the places from the first; whoever adds one has
\* counted them and is alone in it.
Fills(s) ==
    /\ \A i \in Listed(s) : checklist[i].place < Cardinality(Listed(s))
    /\ \A i, j \in Listed(s) : i # j => checklist[i].place # checklist[j].place
    /\ \A d, e \in Duty :
         duty[d].at = "add" /\ duty[d].s = s =>
           /\ duty[d].place = Cardinality(Listed(s))
           /\ duty[e].at = "add" /\ duty[e].s = s => d = e
PlacesFill ==
    /\ \A i \in Item : checklist[i].of = NoSitting => checklist[i] = NotListed
    /\ \A s \in Sitting \ shuffled : Fills(s)

\* Nothing is estimated before the close.
NothingYet ==
    \A s \in Sitting : sitting[s].st # "ended" => baseline[s] = 0 /\ sitting[s].score = NoScore

\* One close at a time holds what the tables hold, for it reads them after the end is
\* written, when only a late write can change them.
AloneInClosing ==
    \A d, e \in Duty : duty[d].at \in Closing /\ duty[e].at \in Closing => d = e
KnowsBaseline(d) ==
    LET s == duty[d].s IN
        /\ sitting[s].st = (IF duty[d].at = "end" THEN "open" ELSE "ended")
        /\ baseline[s] = 0
        /\ duty[d].at # "fold" => sitting[s].score = NoScore
        /\ duty[d].at \in {"list", "score", "fold"} => duty[d].known = baseline
KnowsSession(d) ==
    LET s == duty[d].s IN
        /\ duty[d].at \in {"list", "score", "fold"} =>
             duty[d].good = readings[s].good /\ duty[d].bad = readings[s].bad
        /\ duty[d].at \in {"score", "fold"} =>
             /\ duty[d].total = Cardinality(Listed(s))
             /\ duty[d].done = Cardinality(Ticked(s))
        /\ duty[d].at = "fold" => sitting[s].total = duty[d].total /\ sitting[s].done = duty[d].done
CloserKnows ==
    \A d \in Duty : duty[d].at \in Closing =>
        KnowsBaseline(d) /\ (duty[d].s \notin missed => KnowsSession(d))

\* What a correction is worked out from are verdicts on scores, and they stay.
CountsScores(n) == MinRatings <= n /\ n <= Cardinality(Usable)
RecallsScores == \A d \in Duty : duty[d].at \in {"recall", "adjust"} => CountsScores(duty[d].n)

WhileAlone ==
    /\ NothingYet /\ AloneInClosing /\ CloserKnows /\ RecallsScores
    /\ correction.n > 0 => CountsScores(correction.n)
EstimateHolds ==
    /\ DutiesAreOwn /\ PlacesFill
    /\ ~ mingled => WhileAlone
    /\ EstimateIsOfTheSession
EstimateInv == (\E V : Shaped(V)) /\ EstimateHolds
-----------------------------------------------------------------------------
LEMMA DutyTyped ==
    ASSUME NEW V, Shaped(V), NEW d \in Duty
    PROVE  /\ duty[d] \in DutyOf(V)
           /\ duty[d].at \in {"ease"} \cup Writing \cup Closing \cup Rating
           /\ duty[d].s \in Sitting \cup {NoSitting} /\ duty[d].on \in Item \cup {"none"}
           /\ duty[d].place \in Nat /\ duty[d].good \in Nat /\ duty[d].bad \in Nat
           /\ duty[d].known \in [Sitting -> Nat] /\ duty[d].n \in Nat
           /\ duty[d].total \in Nat /\ duty[d].done \in Nat
<1>1. duty[d] \in DutyOf(V)
  BY DEF Shaped
<1> QED
  BY <1>1 DEF DutyOf

\* A request of its own moves, and no other.
LEMMA Moved ==
    ASSUME NEW V, Shaped(V), NEW W, V \subseteq W, NEW d \in Duty, NEW r \in DutyOf(W),
           duty' = [duty EXCEPT ![d] = r]
    PROVE  /\ duty' \in [Duty -> DutyOf(W)] /\ duty'[d] = r
           /\ \A e \in Duty : e # d => duty'[e] = duty[e]
<1>1. DutyOf(V) \subseteq DutyOf(W)
  BY DEF DutyOf
<1>2. duty \in [Duty -> DutyOf(V)]
  BY DEF Shaped
<1> HIDE DEF DutyOf
<1> QED
  BY <1>1, <1>2

LEMMA EasesBack ==
    ASSUME NEW V, Shaped(V), NEW d \in Duty, Eases(d)
    PROVE  /\ duty' \in [Duty -> DutyOf(V)] /\ duty'[d].at = "ease"
           /\ \A e \in Duty : e # d => duty'[e] = duty[e]
<1>1. PICK r : r = AtEase
  OBVIOUS
<1>3. r \in DutyOf(V) /\ r.at = "ease"
  BY <1>1 DEF AtEase, DutyOf, Shaped
<1>4. duty' = [duty EXCEPT ![d] = r]
  BY <1>1 DEF Eases
<1> QED
  BY <1>3, <1>4, Moved

LEMMA ChecklistSame ==
    ASSUME checklist' = checklist
    PROVE  \A s : Listed(s)' = Listed(s) /\ Ticked(s)' = Ticked(s)
BY DEF Listed, Ticked

\* Places stay filled while the checklist does and nobody comes to add.
LEMMA PlacesSame ==
    ASSUME PlacesFill, UNCHANGED <<checklist, shuffled>>,
           \A e \in Duty : duty'[e].at = "add" => duty'[e] = duty[e]
    PROVE  PlacesFill'
<1>1. \A s : Listed(s)' = Listed(s)
  BY ChecklistSame
<1>2. ASSUME NEW s \in Sitting, Fills(s)
      PROVE  Fills(s)'
  BY <1>1, <1>2 DEF Fills
<1> QED
  BY <1>2 DEF PlacesFill

LEMMA UsableSame ==
    ASSUME UNCHANGED <<sitting, verdict>>
    PROVE  Usable' = Usable
BY DEF Usable

LEMMA CountsAreFinite ==
    /\ \A s : IsFiniteSet(Listed(s)) /\ Cardinality(Listed(s)) \in Nat
              /\ IsFiniteSet(Ticked(s)) /\ Cardinality(Ticked(s)) \in Nat
    /\ IsFiniteSet(Usable) /\ Cardinality(Usable) \in Nat
<1>1. IsFiniteSet(Item) /\ IsFiniteSet(Sitting)
  BY EstimateAssumption
<1>2. \A s : Listed(s) \subseteq Item /\ Ticked(s) \subseteq Item
  BY DEF Listed, Ticked
<1>3. Usable \subseteq Sitting
  BY DEF Usable
<1> QED
  BY <1>1, <1>2, <1>3, FS_Subset, FS_CardinalityType

\* A verdict on a score stays one while no score is taken away.
LEMMA UsableGrows ==
    ASSUME \A s \in Sitting : verdict[s] # 0 => verdict'[s] # 0,
           \A s \in Sitting : sitting[s].score # NoScore => sitting'[s].score # NoScore
    PROVE  \A n \in Nat : CountsScores(n) => CountsScores(n)'
<1>1. Usable \subseteq Usable'
  BY DEF Usable
<1>2. IsFiniteSet(Usable') /\ Cardinality(Usable') \in Nat
  <2>1. Usable' \subseteq Sitting /\ IsFiniteSet(Sitting)
    BY EstimateAssumption DEF Usable
  <2> QED
    BY <2>1, FS_Subset, FS_CardinalityType
<1>3. Cardinality(Usable) <= Cardinality(Usable')
  BY <1>1, <1>2, FS_Subset
<1>4. Cardinality(Usable) \in Nat
  BY CountsAreFinite
<1> QED
  BY <1>2, <1>3, <1>4 DEF CountsScores

\* A request is let in.
LEMMA BeginIngestKeeps ==
    ASSUME NEW V, Shaped(V), EstimateHolds,
           NEW d \in Duty, NEW s \in Sitting, BeginIngest(d, s)
    PROVE  (\E W : Shaped(W)') /\ EstimateHolds'
<1> USE DEF EstimateHolds
<1>1. UNCHANGED <<sitting, readings, checklist, baseline, verdict, correction, mingled,
                  missed, shuffled>>
  BY DEF BeginIngest, tables, remembered
<1>2. duty' = [duty EXCEPT ![d] = [AtEase EXCEPT !.at = "reading", !.s = s, !.was = "open"]]
  BY DEF BeginIngest, Enters, IsOpen
<1>3. s \in Sitting /\ "open" \in {"new", "open", "ended"}
  OBVIOUS
<1>4. duty[d].at = "ease"
  BY DEF BeginIngest, Enters, Doing
<1>5. PICK r : r = [AtEase EXCEPT !.at = "reading", !.s = s, !.was = "open"]
  OBVIOUS
<1>6. [q \in Sitting |-> 0] \in [Sitting -> Nat] /\ 0 \in V
  BY DEF Shaped
<1>7. /\ \A e \in Duty : duty[e].n \in Nat
      /\ r \in DutyOf(V) /\ r.at = "reading" /\ r.s = s /\ r.was = "open"
  BY DutyTyped, <1>5, <1>6, <1>3 DEF AtEase, DutyOf, Writing, Closing, Rating
<1>8. /\ duty' \in [Duty -> DutyOf(V)] /\ duty'[d] = r
      /\ \A e \in Duty : e # d => duty'[e] = duty[e]
  BY <1>2, <1>5, <1>7, Moved
<1>9. \A e \in Duty : (duty'[e].at \in Closing <=> duty[e].at \in Closing)
        /\ (duty[e].at \in Closing => duty'[e] = duty[e])
  BY <1>7, <1>8, <1>4 DEF Closing
<1>10. \A x : Listed(x)' = Listed(x) /\ Ticked(x)' = Ticked(x)
  BY <1>1, ChecklistSame
<1>11. \A n \in Nat : CountsScores(n) => CountsScores(n)'
  BY <1>1, UsableSame DEF CountsScores
<1>12. Shaped(V)'
  BY <1>1, <1>8 DEF Shaped
<1>13. DutiesAreOwn'
  BY <1>7, <1>8 DEF DutiesAreOwn
<1>14. PlacesFill'
  BY <1>1, <1>7, <1>8, PlacesSame
<1>15. ~ mingled' => NothingYet'
  BY <1>1 DEF NothingYet, WhileAlone
<1>16. ~ mingled' => AloneInClosing'
  BY <1>1, <1>9 DEF AloneInClosing, WhileAlone
<1>17. ~ mingled' => CloserKnows'
  BY <1>1, <1>9, <1>10 DEF CloserKnows, KnowsBaseline, KnowsSession, WhileAlone
<1>18. ~ mingled' => RecallsScores'
  BY <1>1, <1>7, <1>8, <1>11 DEF RecallsScores, WhileAlone
<1>19. ~ mingled' /\ correction'.n > 0 => CountsScores(correction.n)'
  BY <1>1, <1>11 DEF WhileAlone, Shaped
<1>20. EstimateIsOfTheSession'
  BY <1>1, <1>9, <1>10 DEF EstimateIsOfTheSession
<1> QED
  BY <1>12, <1>13, <1>14, <1>15, <1>16, <1>17, <1>18, <1>19, <1>20 DEF WhileAlone

LEMMA BeginTickKeeps ==
    ASSUME NEW V, Shaped(V), EstimateHolds,
           NEW d \in Duty, NEW i \in Item, NEW at \in {"tick", "remove"}, BeginTick(d, i, at)
    PROVE  (\E W : Shaped(W)') /\ EstimateHolds'
<1> USE DEF EstimateHolds
<1>1. UNCHANGED <<sitting, readings, checklist, baseline, verdict, correction, mingled,
                  missed, shuffled>>
  BY DEF BeginTick, tables, remembered
<1>2. duty' = [duty EXCEPT ![d] = [AtEase EXCEPT !.at = at, !.s = checklist[i].of, !.on = i, !.was = "open"]]
  BY DEF BeginTick, IsOpen
<1>3. checklist[i].of \in Sitting /\ "open" \in {"new", "open", "ended"}
  BY DEF Shaped, ListedAs, BeginTick, PlacesFill
<1>4. duty[d].at = "ease"
  BY DEF BeginTick, Doing
<1>5. PICK r : r = [AtEase EXCEPT !.at = at, !.s = checklist[i].of, !.on = i, !.was = "open"]
  OBVIOUS
<1>6. [q \in Sitting |-> 0] \in [Sitting -> Nat] /\ 0 \in V
  BY DEF Shaped
<1>7. /\ \A e \in Duty : duty[e].n \in Nat
      /\ r \in DutyOf(V) /\ r.at = at /\ r.s = checklist[i].of /\ r.was = "open" /\ r.on = i
  BY DutyTyped, <1>5, <1>6, <1>3 DEF AtEase, DutyOf, Writing, Closing, Rating
<1>8. /\ duty' \in [Duty -> DutyOf(V)] /\ duty'[d] = r
      /\ \A e \in Duty : e # d => duty'[e] = duty[e]
  BY <1>2, <1>5, <1>7, Moved
<1>9. \A e \in Duty : (duty'[e].at \in Closing <=> duty[e].at \in Closing)
        /\ (duty[e].at \in Closing => duty'[e] = duty[e])
  BY <1>7, <1>8, <1>4 DEF Closing
<1>10. \A x : Listed(x)' = Listed(x) /\ Ticked(x)' = Ticked(x)
  BY <1>1, ChecklistSame
<1>11. \A n \in Nat : CountsScores(n) => CountsScores(n)'
  BY <1>1, UsableSame DEF CountsScores
<1>12. Shaped(V)'
  BY <1>1, <1>8 DEF Shaped
<1>13. DutiesAreOwn'
  BY <1>3, <1>7, <1>8 DEF DutiesAreOwn
<1>14. PlacesFill'
  BY <1>1, <1>7, <1>8, PlacesSame
<1>15. ~ mingled' => NothingYet'
  BY <1>1 DEF NothingYet, WhileAlone
<1>16. ~ mingled' => AloneInClosing'
  BY <1>1, <1>9 DEF AloneInClosing, WhileAlone
<1>17. ~ mingled' => CloserKnows'
  BY <1>1, <1>9, <1>10 DEF CloserKnows, KnowsBaseline, KnowsSession, WhileAlone
<1>18. ~ mingled' => RecallsScores'
  BY <1>1, <1>7, <1>8, <1>11 DEF RecallsScores, WhileAlone
<1>19. ~ mingled' /\ correction'.n > 0 => CountsScores(correction.n)'
  BY <1>1, <1>11 DEF WhileAlone, Shaped
<1>20. EstimateIsOfTheSession'
  BY <1>1, <1>9, <1>10 DEF EstimateIsOfTheSession
<1> QED
  BY <1>12, <1>13, <1>14, <1>15, <1>16, <1>17, <1>18, <1>19, <1>20 DEF WhileAlone

LEMMA BeginAddTaskKeeps ==
    ASSUME NEW V, Shaped(V), EstimateHolds,
           NEW d \in Duty, NEW s \in Sitting, BeginAddTask(d, s)
    PROVE  (\E W : Shaped(W)') /\ EstimateHolds'
<1> USE DEF EstimateHolds
<1>1. UNCHANGED <<sitting, readings, checklist, baseline, verdict, correction, mingled,
                  missed>>
  BY DEF BeginAddTask, tables
<1>2. duty' = [duty EXCEPT ![d] = [AtEase EXCEPT !.at = "add", !.s = s, !.place = Cardinality(Listed(s))]]
  BY DEF BeginAddTask
<1>3. s \in Sitting /\ "open" \in {"new", "open", "ended"}
  OBVIOUS
<1>4. duty[d].at = "ease"
  BY DEF BeginAddTask, Doing
<1>5. PICK r : r = [AtEase EXCEPT !.at = "add", !.s = s, !.place = Cardinality(Listed(s))]
  OBVIOUS
<1>6. [q \in Sitting |-> 0] \in [Sitting -> Nat] /\ 0 \in V
  BY DEF Shaped
<1>7. /\ shuffled' = (IF \E e \in Duty \ {d} : duty[e].at = "add" THEN shuffled \cup {s} ELSE shuffled)
      /\ shuffled' \subseteq Sitting
  BY DEF BeginAddTask, Amid, Shaped
<1>8. Cardinality(Listed(s)) \in Nat
  BY CountsAreFinite
<1>9. /\ \A e \in Duty : duty[e].n \in Nat
      /\ r \in DutyOf(V) /\ r.at = "add" /\ r.s = s /\ r.was = "open" /\ r.place = Cardinality(Listed(s))
  BY DutyTyped, <1>5, <1>6, <1>3, <1>8 DEF AtEase, DutyOf, Writing, Closing, Rating
<1>10. /\ duty' \in [Duty -> DutyOf(V)] /\ duty'[d] = r
       /\ \A e \in Duty : e # d => duty'[e] = duty[e]
  BY <1>2, <1>5, <1>9, Moved
<1>11. \A e \in Duty : (duty'[e].at \in Closing <=> duty[e].at \in Closing)
         /\ (duty[e].at \in Closing => duty'[e] = duty[e])
  BY <1>9, <1>10, <1>4 DEF Closing
<1>12. \A x : Listed(x)' = Listed(x) /\ Ticked(x)' = Ticked(x)
  BY <1>1, ChecklistSame
<1>13. \A n \in Nat : CountsScores(n) => CountsScores(n)'
  BY <1>1, UsableSame DEF CountsScores
<1>14. Shaped(V)'
  BY <1>1, <1>7, <1>10 DEF Shaped
<1>15. DutiesAreOwn'
  BY <1>9, <1>10 DEF DutiesAreOwn
<1>16. PlacesFill'
  <2>1. UNCHANGED checklist /\ \A x : Listed(x)' = Listed(x)
    BY <1>1, <1>12
  <2>2. ASSUME NEW x \in Sitting \ shuffled'
      PROVE  Fills(x)'
    <3>1. Fills(x) /\ (x = s => \A e \in Duty \ {d} : duty[e].at # "add")
      BY <1>7 DEF PlacesFill
    <3> QED
      BY <2>1, <3>1, <1>9, <1>10 DEF Fills
  <2> QED
    BY <2>1, <2>2 DEF PlacesFill
<1>17. ~ mingled' => NothingYet'
  BY <1>1 DEF NothingYet, WhileAlone
<1>18. ~ mingled' => AloneInClosing'
  BY <1>1, <1>11 DEF AloneInClosing, WhileAlone
<1>19. ~ mingled' => CloserKnows'
  BY <1>1, <1>11, <1>12 DEF CloserKnows, KnowsBaseline, KnowsSession, WhileAlone
<1>20. ~ mingled' => RecallsScores'
  BY <1>1, <1>9, <1>10, <1>13 DEF RecallsScores, WhileAlone
<1>21. ~ mingled' /\ correction'.n > 0 => CountsScores(correction.n)'
  BY <1>1, <1>13 DEF WhileAlone, Shaped
<1>22. EstimateIsOfTheSession'
  BY <1>1, <1>11, <1>12 DEF EstimateIsOfTheSession
<1> QED
  BY <1>14, <1>15, <1>16, <1>17, <1>18, <1>19, <1>20, <1>21, <1>22 DEF WhileAlone

LEMMA RateKeeps ==
    ASSUME NEW V, Shaped(V), EstimateHolds,
           NEW d \in Duty, NEW s \in Sitting, NEW v \in Verdicts, Rate(d, s, v)
    PROVE  (\E W : Shaped(W)') /\ EstimateHolds'
<1> USE DEF EstimateHolds
<1>1. UNCHANGED <<sitting, readings, checklist, baseline, correction, mingled, missed,
                  shuffled>>
  BY DEF Rate
<1>2. duty' = [duty EXCEPT ![d] = [AtEase EXCEPT !.at = "measure", !.s = s, !.was = sitting[s].st]]
  BY DEF Rate, Enters
<1>3. s \in Sitting /\ sitting[s].st \in {"new", "open", "ended"}
  BY DEF Shaped, SittingOf
<1>4. duty[d].at = "ease"
  BY DEF Rate, Enters, Doing
<1>5. PICK r : r = [AtEase EXCEPT !.at = "measure", !.s = s, !.was = sitting[s].st]
  OBVIOUS
<1>6. [q \in Sitting |-> 0] \in [Sitting -> Nat] /\ 0 \in V
  BY DEF Shaped
<1>7. v \in 1 .. 5
  BY EstimateAssumption
<1>8. /\ verdict' \in [Sitting -> 0 .. 5]
      /\ \A x \in Sitting : verdict[x] # 0 => verdict'[x] # 0
  BY <1>7 DEF Rate, Shaped
<1>9. \A n \in Nat : CountsScores(n) => CountsScores(n)'
  BY <1>1, <1>8, UsableGrows
<1>10. /\ \A e \in Duty : duty[e].n \in Nat
       /\ r \in DutyOf(V) /\ r.at = "measure" /\ r.s = s /\ r.was = sitting[s].st
  BY DutyTyped, <1>5, <1>6, <1>3 DEF AtEase, DutyOf, Writing, Closing, Rating
<1>11. /\ duty' \in [Duty -> DutyOf(V)] /\ duty'[d] = r
       /\ \A e \in Duty : e # d => duty'[e] = duty[e]
  BY <1>2, <1>5, <1>10, Moved
<1>12. \A e \in Duty : (duty'[e].at \in Closing <=> duty[e].at \in Closing)
         /\ (duty[e].at \in Closing => duty'[e] = duty[e])
  BY <1>10, <1>11, <1>4 DEF Closing
<1>13. \A x : Listed(x)' = Listed(x) /\ Ticked(x)' = Ticked(x)
  BY <1>1, ChecklistSame
<1>14. Shaped(V)'
  BY <1>1, <1>8, <1>11 DEF Shaped
<1>15. DutiesAreOwn'
  BY <1>10, <1>11 DEF DutiesAreOwn, Writing
<1>16. PlacesFill'
  BY <1>1, <1>10, <1>11, PlacesSame
<1>17. ~ mingled' => NothingYet'
  BY <1>1 DEF NothingYet, WhileAlone
<1>18. ~ mingled' => AloneInClosing'
  BY <1>1, <1>12 DEF AloneInClosing, WhileAlone
<1>19. ~ mingled' => CloserKnows'
  BY <1>1, <1>12, <1>13 DEF CloserKnows, KnowsBaseline, KnowsSession, WhileAlone
<1>20. ~ mingled' => RecallsScores'
  BY <1>1, <1>9, <1>10, <1>11 DEF RecallsScores, WhileAlone
<1>21. ~ mingled' /\ correction'.n > 0 => CountsScores(correction.n)'
  BY <1>1, <1>9 DEF WhileAlone, Shaped
<1>22. EstimateIsOfTheSession'
  BY <1>1, <1>12, <1>13 DEF EstimateIsOfTheSession
<1> QED
  BY <1>14, <1>15, <1>16, <1>17, <1>18, <1>19, <1>20, <1>21, <1>22 DEF WhileAlone

LEMMA BeginCloseKeeps ==
    ASSUME NEW V, Shaped(V), EstimateHolds,
           NEW d \in Duty, NEW s \in Sitting, BeginClose(d, s)
    PROVE  (\E W : Shaped(W)') /\ EstimateHolds'
<1> USE DEF EstimateHolds
<1>1. UNCHANGED <<sitting, readings, checklist, baseline, verdict, correction, missed,
                  shuffled>>
  BY DEF BeginClose, tables
<1>2. duty' = [duty EXCEPT ![d] = [AtEase EXCEPT !.at = "end", !.s = s, !.was = "open"]]
  BY DEF BeginClose, Enters, IsOpen
<1>3. s \in Sitting /\ "open" \in {"new", "open", "ended"}
  OBVIOUS
<1>4. duty[d].at = "ease"
  BY DEF BeginClose, Enters, Doing
<1>5. PICK r : r = [AtEase EXCEPT !.at = "end", !.s = s, !.was = "open"]
  OBVIOUS
<1>6. [q \in Sitting |-> 0] \in [Sitting -> Nat] /\ 0 \in V
  BY DEF Shaped
<1>7. /\ mingled' = (mingled \/ \E e \in Duty \ {d} : duty[e].at \in Closing) /\ mingled' \in BOOLEAN
      /\ sitting[s].st = "open"
  BY DEF BeginClose, Amid, IsOpen
<1>8. /\ \A e \in Duty : duty[e].n \in Nat
      /\ r \in DutyOf(V) /\ r.at = "end" /\ r.s = s /\ r.was = "open"
  BY DutyTyped, <1>5, <1>6, <1>3 DEF AtEase, DutyOf, Writing, Closing, Rating
<1>9. /\ duty' \in [Duty -> DutyOf(V)] /\ duty'[d] = r
      /\ \A e \in Duty : e # d => duty'[e] = duty[e]
  BY <1>2, <1>5, <1>8, Moved
<1>10. \A x : Listed(x)' = Listed(x) /\ Ticked(x)' = Ticked(x)
  BY <1>1, ChecklistSame
<1>11. \A n \in Nat : CountsScores(n) => CountsScores(n)'
  BY <1>1, UsableSame DEF CountsScores
<1>12. Shaped(V)'
  BY <1>1, <1>7, <1>9 DEF Shaped
<1>13. DutiesAreOwn'
  BY <1>8, <1>9 DEF DutiesAreOwn
<1>14. PlacesFill'
  BY <1>1, <1>8, <1>9, PlacesSame
<1>15. ~ mingled' => NothingYet'
  BY <1>1, <1>7 DEF NothingYet, WhileAlone, Shaped
<1>16. ~ mingled' => AloneInClosing'
  BY <1>1, <1>3, <1>4, <1>7, <1>8, <1>9, <1>10, <1>11, CountsAreFinite
    DEF AloneInClosing, WhileAlone, Closing, Writing, Rating, Shaped
<1>17. ~ mingled' => CloserKnows'
  BY <1>1, <1>7, <1>8, <1>9, <1>10
    DEF CloserKnows, KnowsBaseline, KnowsSession, NothingYet, WhileAlone, Shaped
<1>18. ~ mingled' => RecallsScores'
  BY <1>7, <1>8, <1>9, <1>11 DEF RecallsScores, WhileAlone, Shaped
<1>19. ~ mingled' /\ correction'.n > 0 => CountsScores(correction.n)'
  BY <1>1, <1>7, <1>11 DEF WhileAlone, Shaped
<1>20. EstimateIsOfTheSession'
  BY <1>1, <1>4, <1>7, <1>9, <1>10
    DEF EstimateIsOfTheSession, WhileAlone, AloneInClosing, Closing, Shaped
<1> QED
  BY <1>12, <1>13, <1>14, <1>15, <1>16, <1>17, <1>18, <1>19, <1>20 DEF WhileAlone

\* A reading or an item is written, by whoever was let in.
LEMMA CreateSampleKeeps ==
    ASSUME NEW V, Shaped(V), EstimateHolds,
           NEW d \in Duty, NEW kind \in {"good", "bad"}, CreateSample(d, kind)
    PROVE  (\E W : Shaped(W)') /\ EstimateHolds'
<1> USE DEF EstimateHolds
<1>1. UNCHANGED <<sitting, checklist, baseline, verdict, correction, mingled, shuffled>>
  BY DEF CreateSample
<1>2. duty[d].at = "reading" /\ \A e \in Duty : duty[e].n \in Nat
  BY DutyTyped DEF CreateSample, Doing
<1>3. /\ duty' \in [Duty -> DutyOf(V)] /\ duty'[d].at = "ease"
      /\ \A e \in Duty : e # d => duty'[e] = duty[e]
  BY EasesBack DEF CreateSample
<1>4. \A e \in Duty : (duty'[e].at \in Closing <=> duty[e].at \in Closing)
        /\ (duty[e].at \in Closing => duty'[e] = duty[e])
  BY <1>2, <1>3 DEF Closing
<1>5. \A x : Listed(x)' = Listed(x) /\ Ticked(x)' = Ticked(x)
  BY <1>1, ChecklistSame
<1>6. \A n \in Nat : CountsScores(n) => CountsScores(n)'
  BY <1>1, UsableSame DEF CountsScores
<1>7. duty[d].s \in Sitting
  BY <1>2 DEF DutiesAreOwn
<1>8. /\ missed' = (IF sitting[duty[d].s].st # "open" THEN missed \cup {duty[d].s} ELSE missed)
      /\ missed' \subseteq Sitting
  BY <1>2 DEF CreateSample, LateWrite, IsOpen, DutiesAreOwn, Writing, Shaped
<1>9. /\ readings' \in [Sitting -> [good : Nat, bad : Nat]]
      /\ \A x \in Sitting : x # duty[d].s => readings'[x] = readings[x]
  BY <1>7 DEF CreateSample, Shaped
<1>10. Shaped(V)'
  BY <1>1, <1>3, <1>8, <1>9 DEF Shaped
<1>11. DutiesAreOwn'
  BY <1>3 DEF DutiesAreOwn, Writing
<1>12. PlacesFill'
  BY <1>1, <1>3, PlacesSame
<1>13. ~ mingled' => NothingYet'
  BY <1>1 DEF NothingYet, WhileAlone
<1>14. ~ mingled' => AloneInClosing'
  BY <1>1, <1>4 DEF AloneInClosing, WhileAlone
<1>15. ~ mingled' => CloserKnows'
  BY <1>1, <1>4, <1>5, <1>8, <1>9
    DEF CloserKnows, KnowsBaseline, KnowsSession, WhileAlone, DutiesAreOwn
<1>16. ~ mingled' => RecallsScores'
  BY <1>1, <1>2, <1>3, <1>6 DEF RecallsScores, WhileAlone
<1>17. ~ mingled' /\ correction'.n > 0 => CountsScores(correction.n)'
  BY <1>1, <1>6 DEF WhileAlone, Shaped
<1>18. EstimateIsOfTheSession'
  BY <1>1, <1>3, <1>5, <1>8, <1>9 DEF EstimateIsOfTheSession
<1> QED
  BY <1>10, <1>11, <1>12, <1>13, <1>14, <1>15, <1>16, <1>17, <1>18 DEF WhileAlone

LEMMA CreateTaskKeeps ==
    ASSUME NEW V, Shaped(V), EstimateHolds, NEW d \in Duty, NEW i \in Item, CreateTask(d, i)
    PROVE  (\E W : Shaped(W)') /\ EstimateHolds'
<1> USE DEF EstimateHolds
<1>1. UNCHANGED <<sitting, readings, baseline, verdict, correction, mingled, shuffled>>
  BY DEF CreateTask
<1>2. duty[d].at = "add" /\ \A e \in Duty : duty[e].n \in Nat
  BY DutyTyped DEF CreateTask, Doing
<1>3. /\ duty' \in [Duty -> DutyOf(V)] /\ duty'[d].at = "ease"
      /\ \A e \in Duty : e # d => duty'[e] = duty[e]
  BY EasesBack DEF CreateTask
<1>4. \A e \in Duty : (duty'[e].at \in Closing <=> duty[e].at \in Closing)
        /\ (duty[e].at \in Closing => duty'[e] = duty[e])
  BY <1>2, <1>3 DEF Closing
<1>5. \A n \in Nat : CountsScores(n) => CountsScores(n)'
  BY <1>1, UsableSame DEF CountsScores
<1>6. PICK q : q = duty[d].s
  OBVIOUS
<1>7. q \in Sitting /\ q # NoSitting
  BY <1>6, <1>2, EstimateAssumption DEF DutiesAreOwn
<1>8. /\ missed' = (IF sitting[q].st # "open" THEN missed \cup {q} ELSE missed)
      /\ missed' \subseteq Sitting
  BY <1>6, <1>2 DEF CreateTask, LateWrite, IsOpen, DutiesAreOwn, Writing, Shaped
<1>9. /\ checklist[i] = NotListed /\ duty[d].place \in Nat
      /\ checklist' = [checklist EXCEPT ![i] = [of |-> q, place |-> duty[d].place, done |-> FALSE]]
  BY <1>6, DutyTyped DEF CreateTask
<1>10. checklist' \in [Item -> ListedAs]
  BY <1>7, <1>9 DEF Shaped, ListedAs
<1>11. checklist[i].of = NoSitting
  BY <1>9 DEF NotListed
<1>12. /\ Listed(q)' = Listed(q) \cup {i} /\ i \notin Listed(q)
       /\ \A x \in Sitting : x # q => Listed(x)' = Listed(x) /\ Ticked(x)' = Ticked(x)
  BY <1>9, <1>7, <1>11, EstimateAssumption DEF Listed, Ticked, Shaped
<1>13. Cardinality(Listed(q)') = Cardinality(Listed(q)) + 1
  BY <1>12, CountsAreFinite, FS_AddElement
<1>14. Shaped(V)'
  BY <1>1, <1>3, <1>8, <1>10 DEF Shaped
<1>15. DutiesAreOwn'
  BY <1>3 DEF DutiesAreOwn, Writing
<1>16. PlacesFill'
  <2>1. ASSUME NEW j \in Item, checklist'[j].of = NoSitting
      PROVE  checklist'[j] = NotListed
    BY <2>1, <1>9, <1>7 DEF PlacesFill
  <2>2. Fills(q)' \/ q \in shuffled
    <3> SUFFICES ASSUME q \notin shuffled PROVE Fills(q)'
      OBVIOUS
    <3>1. Fills(q)
      BY <1>7 DEF PlacesFill
    <3>2. /\ duty[d].place = Cardinality(Listed(q)) /\ Cardinality(Listed(q)) \in Nat
          /\ \A e \in Duty : duty[e].at = "add" /\ duty[e].s = q => e = d
      BY <3>1, <1>2, <1>6, CountsAreFinite DEF Fills
    <3>3. \A e \in Duty : ~ (duty'[e].at = "add" /\ duty'[e].s = q)
      BY <3>2, <1>3
    <3>4. /\ checklist'[i].place = Cardinality(Listed(q))
          /\ \A j \in Listed(q) : /\ checklist'[j] = checklist[j] /\ checklist[j].place \in Nat
                                  /\ checklist[j].place < Cardinality(Listed(q))
      BY <3>1, <3>2, <1>9, <1>12 DEF Fills, Shaped, Listed, ListedAs
    <3>5. \A j \in Listed(q)' : checklist'[j].place < Cardinality(Listed(q)')
      BY <3>2, <3>4, <1>12, <1>13
    <3>6. \A j, k \in Listed(q)' : j # k => checklist'[j].place # checklist'[k].place
      BY <3>1, <3>4, <1>12 DEF Fills
    <3> QED
      BY <3>3, <3>5, <3>6 DEF Fills
  <2>3. ASSUME NEW x \in Sitting \ shuffled, x # q
      PROVE  Fills(x)'
    <3>1. Fills(x) /\ Listed(x)' = Listed(x)
      BY <2>3, <1>12 DEF PlacesFill
    <3>2. \A j \in Listed(x) : checklist'[j] = checklist[j]
      BY <1>12, <1>9 DEF Listed
    <3>3. \A e \in Duty : duty'[e].at = "add" => duty'[e] = duty[e]
      BY <1>3
    <3> QED
      BY <3>1, <3>2, <3>3 DEF Fills
  <2> QED
    BY <2>1, <2>2, <2>3, <1>1 DEF PlacesFill
<1>17. ~ mingled' => NothingYet'
  BY <1>1 DEF NothingYet, WhileAlone
<1>18. ~ mingled' => AloneInClosing'
  BY <1>1, <1>4 DEF AloneInClosing, WhileAlone
<1>19. ~ mingled' => CloserKnows'
  BY <1>1, <1>4, <1>8, <1>12
    DEF CloserKnows, KnowsBaseline, KnowsSession, WhileAlone, DutiesAreOwn
<1>20. ~ mingled' => RecallsScores'
  BY <1>1, <1>2, <1>3, <1>5 DEF RecallsScores, WhileAlone
<1>21. ~ mingled' /\ correction'.n > 0 => CountsScores(correction.n)'
  BY <1>1, <1>5 DEF WhileAlone, Shaped
<1>22. EstimateIsOfTheSession'
  BY <1>1, <1>4, <1>8, <1>12 DEF EstimateIsOfTheSession
<1> QED
  BY <1>14, <1>15, <1>16, <1>17, <1>18, <1>19, <1>20, <1>21, <1>22 DEF WhileAlone

\* An item is ticked or removed, or was gone.
LEMMA TickedKeeps ==
    ASSUME NEW V, Shaped(V), EstimateHolds,
           NEW d \in Duty, SetTaskComplete(d), checklist[duty[d].on].of = duty[d].s
    PROVE  (\E W : Shaped(W)') /\ EstimateHolds'
<1> USE DEF EstimateHolds
<1>1. UNCHANGED <<sitting, readings, baseline, verdict, correction, mingled, shuffled>>
  BY DEF SetTaskComplete
<1>2. duty[d].at = "tick" /\ \A e \in Duty : duty[e].n \in Nat
  BY DutyTyped DEF SetTaskComplete, Doing
<1>3. /\ duty' \in [Duty -> DutyOf(V)] /\ duty'[d].at = "ease"
      /\ \A e \in Duty : e # d => duty'[e] = duty[e]
  BY EasesBack DEF SetTaskComplete
<1>4. \A e \in Duty : (duty'[e].at \in Closing <=> duty[e].at \in Closing)
        /\ (duty[e].at \in Closing => duty'[e] = duty[e])
  BY <1>2, <1>3 DEF Closing
<1>5. \A n \in Nat : CountsScores(n) => CountsScores(n)'
  BY <1>1, UsableSame DEF CountsScores
<1>6. PICK q : q = duty[d].s
  OBVIOUS
<1>7. PICK i : i = duty[d].on
  OBVIOUS
<1>8. q \in Sitting /\ q # NoSitting /\ i \in Item
  BY <1>6, <1>7, <1>2, EstimateAssumption DEF DutiesAreOwn
<1>9. /\ missed' = (IF sitting[q].st # "open" THEN missed \cup {q} ELSE missed)
      /\ missed' \subseteq Sitting
  BY <1>6, <1>2 DEF SetTaskComplete, LateWrite, IsOpen, DutiesAreOwn, Writing, Shaped
<1>10. PICK done \in BOOLEAN : checklist' = [checklist EXCEPT ![i].done = done]
  BY <1>7 DEF SetTaskComplete
<1>11. /\ checklist[i].of = q /\ checklist' \in [Item -> ListedAs]
       /\ checklist'[i].of = q /\ \A j \in Item : j # i => checklist'[j] = checklist[j]
       /\ \A j \in Item : checklist'[j].of = checklist[j].of /\ checklist'[j].place = checklist[j].place
  BY <1>10, <1>7, <1>6, <1>8 DEF Shaped, ListedAs
<1>12. /\ \A x : Listed(x)' = Listed(x)
       /\ \A x \in Sitting : x # q => Ticked(x)' = Ticked(x)
  BY <1>11 DEF Listed, Ticked
<1>13. Shaped(V)'
  BY <1>1, <1>3, <1>9, <1>11 DEF Shaped
<1>14. DutiesAreOwn'
  BY <1>3 DEF DutiesAreOwn, Writing
<1>15. PlacesFill'
  <2>1. ASSUME NEW j \in Item, checklist'[j].of = NoSitting
      PROVE  checklist'[j] = NotListed
    BY <2>1, <1>11, <1>8 DEF PlacesFill
  <2>2. ASSUME NEW x \in Sitting \ shuffled'
      PROVE  Fills(x)'
    <3>1. Fills(x) /\ x \in Sitting
      BY <1>1 DEF PlacesFill
    <3>3. Listed(x)' = Listed(x)
      BY <1>12
    <3>4. \A j \in Listed(x) : checklist'[j].place = checklist[j].place
      BY <1>11 DEF Listed
    <3>2. \A e \in Duty : duty'[e].at = "add" => duty'[e] = duty[e]
      BY <1>3
    <3> QED
      BY <3>1, <3>2, <3>3, <3>4 DEF Fills
  <2> QED
    BY <2>1, <2>2 DEF PlacesFill
<1>16. ~ mingled' => NothingYet'
  BY <1>1 DEF NothingYet, WhileAlone
<1>17. ~ mingled' => AloneInClosing'
  BY <1>1, <1>4 DEF AloneInClosing, WhileAlone
<1>18. ~ mingled' => CloserKnows'
  BY <1>1, <1>4, <1>9, <1>12, CountsAreFinite
    DEF CloserKnows, KnowsBaseline, KnowsSession, WhileAlone, DutiesAreOwn
<1>19. ~ mingled' => RecallsScores'
  BY <1>1, <1>2, <1>3, <1>5 DEF RecallsScores, WhileAlone
<1>20. ~ mingled' /\ correction'.n > 0 => CountsScores(correction.n)'
  BY <1>1, <1>5 DEF WhileAlone, Shaped
<1>21. EstimateIsOfTheSession'
  BY <1>1, <1>4, <1>9, <1>12 DEF EstimateIsOfTheSession
<1> QED
  BY <1>13, <1>14, <1>15, <1>16, <1>17, <1>18, <1>19, <1>20, <1>21 DEF WhileAlone

LEMMA NotTickedKeeps ==
    ASSUME NEW V, Shaped(V), EstimateHolds,
           NEW d \in Duty, SetTaskComplete(d), checklist[duty[d].on].of # duty[d].s
    PROVE  (\E W : Shaped(W)') /\ EstimateHolds'
<1> USE DEF EstimateHolds
<1>1. UNCHANGED <<sitting, readings, checklist, baseline, verdict, correction, mingled,
                  missed, shuffled>>
  BY DEF SetTaskComplete
<1>2. duty[d].at = "tick" /\ \A e \in Duty : duty[e].n \in Nat
  BY DutyTyped DEF SetTaskComplete, Doing
<1>3. /\ duty' \in [Duty -> DutyOf(V)] /\ duty'[d].at = "ease"
      /\ \A e \in Duty : e # d => duty'[e] = duty[e]
  BY EasesBack DEF SetTaskComplete
<1>4. \A e \in Duty : (duty'[e].at \in Closing <=> duty[e].at \in Closing)
        /\ (duty[e].at \in Closing => duty'[e] = duty[e])
  BY <1>2, <1>3 DEF Closing
<1>5. \A x : Listed(x)' = Listed(x) /\ Ticked(x)' = Ticked(x)
  BY <1>1, ChecklistSame
<1>6. \A n \in Nat : CountsScores(n) => CountsScores(n)'
  BY <1>1, UsableSame DEF CountsScores
<1>7. Shaped(V)'
  BY <1>1, <1>3 DEF Shaped
<1>8. DutiesAreOwn'
  BY <1>3 DEF DutiesAreOwn, Writing
<1>9. PlacesFill'
  BY <1>1, <1>3, PlacesSame
<1>10. ~ mingled' => NothingYet'
  BY <1>1 DEF NothingYet, WhileAlone
<1>11. ~ mingled' => AloneInClosing'
  BY <1>1, <1>4 DEF AloneInClosing, WhileAlone
<1>12. ~ mingled' => CloserKnows'
  BY <1>1, <1>4, <1>5 DEF CloserKnows, KnowsBaseline, KnowsSession, WhileAlone
<1>13. ~ mingled' => RecallsScores'
  BY <1>1, <1>2, <1>3, <1>6 DEF RecallsScores, WhileAlone
<1>14. ~ mingled' /\ correction'.n > 0 => CountsScores(correction.n)'
  BY <1>1, <1>6 DEF WhileAlone, Shaped
<1>15. EstimateIsOfTheSession'
  BY <1>1, <1>4, <1>5 DEF EstimateIsOfTheSession
<1> QED
  BY <1>7, <1>8, <1>9, <1>10, <1>11, <1>12, <1>13, <1>14, <1>15 DEF WhileAlone

LEMMA RemovedKeeps ==
    ASSUME NEW V, Shaped(V), EstimateHolds,
           NEW d \in Duty, DeleteTask(d), checklist[duty[d].on].of = duty[d].s
    PROVE  (\E W : Shaped(W)') /\ EstimateHolds'
<1> USE DEF EstimateHolds
<1>1. UNCHANGED <<sitting, readings, baseline, verdict, correction, mingled>>
  BY DEF DeleteTask
<1>2. duty[d].at = "remove" /\ \A e \in Duty : duty[e].n \in Nat
  BY DutyTyped DEF DeleteTask, Doing
<1>3. /\ duty' \in [Duty -> DutyOf(V)] /\ duty'[d].at = "ease"
      /\ \A e \in Duty : e # d => duty'[e] = duty[e]
  BY EasesBack DEF DeleteTask
<1>4. \A e \in Duty : (duty'[e].at \in Closing <=> duty[e].at \in Closing)
        /\ (duty[e].at \in Closing => duty'[e] = duty[e])
  BY <1>2, <1>3 DEF Closing
<1>5. \A n \in Nat : CountsScores(n) => CountsScores(n)'
  BY <1>1, UsableSame DEF CountsScores
<1>6. PICK q : q = duty[d].s
  OBVIOUS
<1>7. PICK i : i = duty[d].on
  OBVIOUS
<1>8. q \in Sitting /\ q # NoSitting /\ i \in Item
  BY <1>6, <1>7, <1>2, EstimateAssumption DEF DutiesAreOwn
<1>9. /\ missed' = (IF sitting[q].st # "open" THEN missed \cup {q} ELSE missed)
      /\ missed' \subseteq Sitting
  BY <1>6, <1>2 DEF DeleteTask, LateWrite, IsOpen, DutiesAreOwn, Writing, Shaped
<1>10. checklist' = [checklist EXCEPT ![i] = NotListed] /\ shuffled' = shuffled \cup {q} /\ NotListed \in ListedAs
  BY <1>7, <1>6 DEF DeleteTask, NotListed, ListedAs
<1>11. /\ checklist[i].of = q /\ checklist' \in [Item -> ListedAs]
       /\ shuffled' = shuffled \cup {q}
       /\ checklist'[i] = NotListed /\ \A j \in Item : j # i => checklist'[j] = checklist[j]
  BY <1>10, <1>7, <1>6, <1>8 DEF Shaped
<1>12. \A x \in Sitting : x # q => Listed(x)' = Listed(x) /\ Ticked(x)' = Ticked(x)
  BY <1>11, EstimateAssumption DEF Listed, Ticked, NotListed
<1>13. Shaped(V)'
  BY <1>1, <1>3, <1>8, <1>9, <1>11 DEF Shaped
<1>14. DutiesAreOwn'
  BY <1>3 DEF DutiesAreOwn, Writing
<1>15. PlacesFill'
  <2>1. ASSUME NEW j \in Item, checklist'[j].of = NoSitting
      PROVE  checklist'[j] = NotListed
    BY <2>1, <1>11 DEF PlacesFill
  <2>2. ASSUME NEW x \in Sitting \ shuffled'
      PROVE  Fills(x)'
    <3>1. Fills(x) /\ x \in Sitting
      BY <1>11 DEF PlacesFill
    <3>3. Listed(x)' = Listed(x)
      BY <1>11, <1>12
    <3>4. \A j \in Listed(x) : checklist'[j].place = checklist[j].place
      BY <1>11 DEF Listed
    <3>2. \A e \in Duty : duty'[e].at = "add" => duty'[e] = duty[e]
      BY <1>3
    <3> QED
      BY <3>1, <3>2, <3>3, <3>4 DEF Fills
  <2> QED
    BY <2>1, <2>2 DEF PlacesFill
<1>16. ~ mingled' => NothingYet'
  BY <1>1 DEF NothingYet, WhileAlone
<1>17. ~ mingled' => AloneInClosing'
  BY <1>1, <1>4 DEF AloneInClosing, WhileAlone
<1>18. ~ mingled' => CloserKnows'
  BY <1>1, <1>4, <1>9, <1>12
    DEF CloserKnows, KnowsBaseline, KnowsSession, WhileAlone, DutiesAreOwn
<1>19. ~ mingled' => RecallsScores'
  BY <1>1, <1>2, <1>3, <1>5 DEF RecallsScores, WhileAlone
<1>20. ~ mingled' /\ correction'.n > 0 => CountsScores(correction.n)'
  BY <1>1, <1>5 DEF WhileAlone, Shaped
<1>21. EstimateIsOfTheSession'
  BY <1>1, <1>4, <1>9, <1>12 DEF EstimateIsOfTheSession
<1> QED
  BY <1>13, <1>14, <1>15, <1>16, <1>17, <1>18, <1>19, <1>20, <1>21 DEF WhileAlone

LEMMA NotRemovedKeeps ==
    ASSUME NEW V, Shaped(V), EstimateHolds,
           NEW d \in Duty, DeleteTask(d), checklist[duty[d].on].of # duty[d].s
    PROVE  (\E W : Shaped(W)') /\ EstimateHolds'
<1> USE DEF EstimateHolds
<1>1. UNCHANGED <<sitting, readings, checklist, baseline, verdict, correction, mingled,
                  missed, shuffled>>
  BY DEF DeleteTask
<1>2. duty[d].at = "remove" /\ \A e \in Duty : duty[e].n \in Nat
  BY DutyTyped DEF DeleteTask, Doing
<1>3. /\ duty' \in [Duty -> DutyOf(V)] /\ duty'[d].at = "ease"
      /\ \A e \in Duty : e # d => duty'[e] = duty[e]
  BY EasesBack DEF DeleteTask
<1>4. \A e \in Duty : (duty'[e].at \in Closing <=> duty[e].at \in Closing)
        /\ (duty[e].at \in Closing => duty'[e] = duty[e])
  BY <1>2, <1>3 DEF Closing
<1>5. \A x : Listed(x)' = Listed(x) /\ Ticked(x)' = Ticked(x)
  BY <1>1, ChecklistSame
<1>6. \A n \in Nat : CountsScores(n) => CountsScores(n)'
  BY <1>1, UsableSame DEF CountsScores
<1>7. Shaped(V)'
  BY <1>1, <1>3 DEF Shaped
<1>8. DutiesAreOwn'
  BY <1>3 DEF DutiesAreOwn, Writing
<1>9. PlacesFill'
  BY <1>1, <1>3, PlacesSame
<1>10. ~ mingled' => NothingYet'
  BY <1>1 DEF NothingYet, WhileAlone
<1>11. ~ mingled' => AloneInClosing'
  BY <1>1, <1>4 DEF AloneInClosing, WhileAlone
<1>12. ~ mingled' => CloserKnows'
  BY <1>1, <1>4, <1>5 DEF CloserKnows, KnowsBaseline, KnowsSession, WhileAlone
<1>13. ~ mingled' => RecallsScores'
  BY <1>1, <1>2, <1>3, <1>6 DEF RecallsScores, WhileAlone
<1>14. ~ mingled' /\ correction'.n > 0 => CountsScores(correction.n)'
  BY <1>1, <1>6 DEF WhileAlone, Shaped
<1>15. EstimateIsOfTheSession'
  BY <1>1, <1>4, <1>5 DEF EstimateIsOfTheSession
<1> QED
  BY <1>7, <1>8, <1>9, <1>10, <1>11, <1>12, <1>13, <1>14, <1>15 DEF WhileAlone

\* A session starts; a close writes its end, and reads what it estimates from.
LEMMA StartSittingKeeps ==
    ASSUME NEW V, Shaped(V), EstimateHolds, NEW q \in Sitting, StartSitting(q)
    PROVE  (\E W : Shaped(W)') /\ EstimateHolds'
<1> USE DEF EstimateHolds
<1>1. UNCHANGED <<readings, checklist, baseline, verdict, correction, duty, mingled,
                  missed, shuffled>>
  BY DEF StartSitting, remembered
<1>2. \A e \in Duty : duty[e].n \in Nat
  BY DutyTyped
<1>3. /\ sitting[q].st = "new" /\ sitting' \in [Sitting -> SittingOf(V)]
      /\ sitting'[q].st = "open"
      /\ \A x \in Sitting : x # q => sitting'[x] = sitting[x]
      /\ \A x \in Sitting : sitting'[x].score = sitting[x].score
  BY DEF StartSitting, Shaped, SittingOf
<1>4. \A x : Listed(x)' = Listed(x) /\ Ticked(x)' = Ticked(x)
  BY <1>1, ChecklistSame
<1>5. \A n \in Nat : CountsScores(n) => CountsScores(n)'
  BY <1>1, <1>3, UsableGrows
<1>7. Shaped(V)'
  BY <1>1, <1>3 DEF Shaped
<1>8. DutiesAreOwn'
  BY <1>1 DEF DutiesAreOwn
<1>9. PlacesFill'
  BY <1>1, PlacesSame
<1>10. ~ mingled' => NothingYet'
  BY <1>1, <1>3 DEF NothingYet, WhileAlone
<1>11. ~ mingled' => AloneInClosing'
  BY <1>1 DEF AloneInClosing, WhileAlone
<1>12. ~ mingled' => CloserKnows'
  BY <1>1, <1>3, <1>4
    DEF CloserKnows, KnowsBaseline, KnowsSession, WhileAlone, DutiesAreOwn, Closing
<1>13. ~ mingled' => RecallsScores'
  BY <1>1, <1>2, <1>5 DEF RecallsScores, WhileAlone
<1>14. ~ mingled' /\ correction'.n > 0 => CountsScores(correction.n)'
  BY <1>1, <1>5 DEF WhileAlone, Shaped
<1>15. EstimateIsOfTheSession'
  BY <1>1, <1>3, <1>4 DEF EstimateIsOfTheSession
<1> QED
  BY <1>7, <1>8, <1>9, <1>10, <1>11, <1>12, <1>13, <1>14, <1>15 DEF WhileAlone

LEMMA WriteClosedKeeps ==
    ASSUME NEW V, Shaped(V), EstimateHolds, NEW d \in Duty, WriteClosed(d)
    PROVE  (\E W : Shaped(W)') /\ EstimateHolds'
<1> USE DEF EstimateHolds
<1>1. UNCHANGED <<readings, checklist, baseline, verdict, correction, mingled, missed,
                  shuffled>>
  BY DEF WriteClosed, remembered
<1>2. duty[d].at = "end" /\ \A e \in Duty : duty[e].n \in Nat
  BY DutyTyped DEF WriteClosed, Doing
<1>3. PICK q : q = duty[d].s
  OBVIOUS
<1>4. q \in Sitting /\ q # NoSitting
  BY <1>3, <1>2, EstimateAssumption DEF DutiesAreOwn
<1>5. PICK r : r = [duty[d] EXCEPT !.at = "look"]
  OBVIOUS
<1>6. duty' = [duty EXCEPT ![d] = r]
  BY <1>5 DEF WriteClosed
<1>7. duty[d] \in DutyOf(V)
  BY DutyTyped
<1>8. r \in DutyOf(V) /\ r.s = q /\ r.was = duty[d].was
      /\ r.at = "look"
  BY <1>5, <1>3, <1>7 DEF DutyOf, Closing
<1>9. /\ duty' \in [Duty -> DutyOf(V)] /\ duty'[d] = r
      /\ \A e \in Duty : e # d => duty'[e] = duty[e]
  BY <1>6, <1>8, Moved
<1>10. \A x : Listed(x)' = Listed(x) /\ Ticked(x)' = Ticked(x)
  BY <1>1, ChecklistSame
<1>11. /\ sitting' \in [Sitting -> SittingOf(V)] /\ sitting'[q].st = "ended"
       /\ \A x \in Sitting : x # q => sitting'[x] = sitting[x]
  BY <1>3, <1>4 DEF WriteClosed, Shaped, SittingOf
<1>12. \A x \in Sitting : sitting'[x].score = sitting[x].score
  BY DEF WriteClosed
<1>13. \A n \in Nat : CountsScores(n) => CountsScores(n)'
  BY <1>1, <1>12, UsableGrows
<1>14. Shaped(V)'
  BY <1>1, <1>9, <1>11 DEF Shaped
<1>15. DutiesAreOwn'
  BY <1>2, <1>3, <1>8, <1>9 DEF DutiesAreOwn, Writing
<1>16. PlacesFill'
  BY <1>1, <1>8, <1>9, PlacesSame
<1>17. ~ mingled' => NothingYet'
  BY <1>1, <1>11 DEF NothingYet, WhileAlone
<1>18. ~ mingled' => AloneInClosing'
  BY <1>1, <1>2, <1>9 DEF AloneInClosing, WhileAlone, Closing
<1>19. ~ mingled' => CloserKnows'
  <2> SUFFICES ASSUME ~ mingled, NEW e \in Duty, duty'[e].at \in Closing
               PROVE  KnowsBaseline(e)' /\ (duty'[e].s \notin missed' => KnowsSession(e)')
    BY <1>1 DEF CloserKnows
  <2>1. e = d
    BY <1>2, <1>9 DEF WhileAlone, AloneInClosing, Closing
  <2>2. KnowsBaseline(d) /\ (q \notin missed => KnowsSession(d)) /\ NothingYet
    BY <1>3, <1>2 DEF WhileAlone, CloserKnows, Closing
  <2>3. KnowsBaseline(e)'
    BY <2>1, <2>2, <1>1, <1>2, <1>3, <1>4, <1>8, <1>9, <1>11, <1>12 DEF KnowsBaseline
  <2>4. duty'[e].s \notin missed' => KnowsSession(e)'
    BY <2>1, <1>8, <1>9 DEF KnowsSession
  <2> QED
    BY <2>3, <2>4
<1>20. ~ mingled' => RecallsScores'
  BY <1>1, <1>2, <1>8, <1>9, <1>13 DEF RecallsScores, WhileAlone
<1>21. ~ mingled' /\ correction'.n > 0 => CountsScores(correction.n)'
  BY <1>1, <1>13 DEF WhileAlone, Shaped
<1>22. EstimateIsOfTheSession'
  BY <1>1, <1>3, <1>8, <1>9, <1>10, <1>11 DEF EstimateIsOfTheSession, Closing
<1> QED
  BY <1>14, <1>15, <1>16, <1>17, <1>18, <1>19, <1>20, <1>21, <1>22 DEF WhileAlone

LEMMA FindSamplesKeeps ==
    ASSUME NEW V, Shaped(V), EstimateHolds, NEW d \in Duty, FindSamples(d)
    PROVE  (\E W : Shaped(W)') /\ EstimateHolds'
<1> USE DEF EstimateHolds
<1>1. UNCHANGED <<sitting, readings, checklist, baseline, verdict, correction, mingled,
                  missed, shuffled>>
  BY DEF FindSamples, tables, remembered
<1>2. duty[d].at = "look" /\ \A e \in Duty : duty[e].n \in Nat
  BY DutyTyped DEF FindSamples, Doing
<1>3. PICK q : q = duty[d].s
  OBVIOUS
<1>4. q \in Sitting /\ q # NoSitting
  BY <1>3, <1>2, EstimateAssumption DEF DutiesAreOwn
<1>5. /\ readings[q].good \in Nat /\ readings[q].bad \in Nat /\ baseline \in [Sitting -> Nat]
      /\ correction.offset \in V /\ correction.n \in Nat
  BY <1>4 DEF Shaped
<1>6. PICK r : r = [duty[d] EXCEPT !.at = "list", !.good = readings[q].good, !.bad = readings[q].bad,
                    !.known = baseline, !.offset = correction.offset, !.n = correction.n]
  OBVIOUS
<1>7. duty' = [duty EXCEPT ![d] = r]
  BY <1>6, <1>3 DEF FindSamples
<1>8. duty[d] \in DutyOf(V)
  BY DutyTyped
<1>9. r \in DutyOf(V) /\ r.s = q /\ r.was = duty[d].was
      /\ r.at = "list" /\ r.good = readings[q].good /\ r.bad = readings[q].bad
      /\ r.known = baseline
  BY <1>6, <1>3, <1>8, <1>5 DEF DutyOf, Closing, Rating
<1>10. /\ duty' \in [Duty -> DutyOf(V)] /\ duty'[d] = r
       /\ \A e \in Duty : e # d => duty'[e] = duty[e]
  BY <1>7, <1>9, Moved
<1>11. \A x : Listed(x)' = Listed(x) /\ Ticked(x)' = Ticked(x)
  BY <1>1, ChecklistSame
<1>12. \A n \in Nat : CountsScores(n) => CountsScores(n)'
  BY <1>1, UsableSame DEF CountsScores
<1>13. Shaped(V)'
  BY <1>1, <1>10 DEF Shaped
<1>14. DutiesAreOwn'
  BY <1>2, <1>3, <1>9, <1>10 DEF DutiesAreOwn, Writing
<1>15. PlacesFill'
  BY <1>1, <1>9, <1>10, PlacesSame
<1>16. ~ mingled' => NothingYet'
  BY <1>1 DEF NothingYet, WhileAlone
<1>17. ~ mingled' => AloneInClosing'
  BY <1>1, <1>2, <1>10 DEF AloneInClosing, WhileAlone, Closing
<1>18. ~ mingled' => CloserKnows'
  <2> SUFFICES ASSUME ~ mingled, NEW e \in Duty, duty'[e].at \in Closing
               PROVE  KnowsBaseline(e)' /\ (duty'[e].s \notin missed' => KnowsSession(e)')
    BY <1>1 DEF CloserKnows
  <2>1. e = d
    BY <1>2, <1>10 DEF WhileAlone, AloneInClosing, Closing
  <2>2. KnowsBaseline(d) /\ (q \notin missed => KnowsSession(d)) /\ NothingYet
    BY <1>3, <1>2 DEF WhileAlone, CloserKnows, Closing
  <2>3. KnowsBaseline(e)'
    BY <2>1, <2>2, <1>1, <1>2, <1>3, <1>9, <1>10 DEF KnowsBaseline
  <2>4. duty'[e].s \notin missed' => KnowsSession(e)'
    BY <2>1, <1>1, <1>9, <1>10 DEF KnowsSession
  <2> QED
    BY <2>3, <2>4
<1>19. ~ mingled' => RecallsScores'
  BY <1>1, <1>2, <1>9, <1>10, <1>12 DEF RecallsScores, WhileAlone
<1>20. ~ mingled' /\ correction'.n > 0 => CountsScores(correction.n)'
  BY <1>1, <1>12 DEF WhileAlone, Shaped
<1>21. EstimateIsOfTheSession'
  BY <1>1, <1>3, <1>9, <1>10, <1>11 DEF EstimateIsOfTheSession, Closing
<1> QED
  BY <1>13, <1>14, <1>15, <1>16, <1>17, <1>18, <1>19, <1>20, <1>21 DEF WhileAlone

LEMMA FindTasksKeeps ==
    ASSUME NEW V, Shaped(V), EstimateHolds, NEW d \in Duty, FindTasks(d)
    PROVE  (\E W : Shaped(W)') /\ EstimateHolds'
<1> USE DEF EstimateHolds
<1>1. UNCHANGED <<sitting, readings, checklist, baseline, verdict, correction, mingled,
                  missed, shuffled>>
  BY DEF FindTasks, tables, remembered
<1>2. duty[d].at = "list" /\ \A e \in Duty : duty[e].n \in Nat
  BY DutyTyped DEF FindTasks, Doing
<1>3. PICK q : q = duty[d].s
  OBVIOUS
<1>5. Cardinality(Listed(q)) \in Nat /\ Cardinality(Ticked(q)) \in Nat
  BY CountsAreFinite
<1>6. PICK r : r = [duty[d] EXCEPT !.at = "score", !.total = Cardinality(Listed(q)), !.done = Cardinality(Ticked(q))]
  OBVIOUS
<1>7. duty' = [duty EXCEPT ![d] = r]
  BY <1>6, <1>3 DEF FindTasks
<1>8. duty[d] \in DutyOf(V)
  BY DutyTyped
<1>9. r \in DutyOf(V) /\ r.s = q /\ r.was = duty[d].was
      /\ r.at = "score" /\ r.total = Cardinality(Listed(q)) /\ r.done = Cardinality(Ticked(q))
      /\ r.good = duty[d].good /\ r.bad = duty[d].bad /\ r.known = duty[d].known
  BY <1>6, <1>3, <1>8, <1>5 DEF DutyOf, Closing, Rating
<1>10. /\ duty' \in [Duty -> DutyOf(V)] /\ duty'[d] = r
       /\ \A e \in Duty : e # d => duty'[e] = duty[e]
  BY <1>7, <1>9, Moved
<1>11. \A x : Listed(x)' = Listed(x) /\ Ticked(x)' = Ticked(x)
  BY <1>1, ChecklistSame
<1>12. \A n \in Nat : CountsScores(n) => CountsScores(n)'
  BY <1>1, UsableSame DEF CountsScores
<1>13. Shaped(V)'
  BY <1>1, <1>10 DEF Shaped
<1>14. DutiesAreOwn'
  BY <1>2, <1>3, <1>9, <1>10 DEF DutiesAreOwn, Writing
<1>15. PlacesFill'
  BY <1>1, <1>9, <1>10, PlacesSame
<1>16. ~ mingled' => NothingYet'
  BY <1>1 DEF NothingYet, WhileAlone
<1>17. ~ mingled' => AloneInClosing'
  BY <1>1, <1>2, <1>10 DEF AloneInClosing, WhileAlone, Closing
<1>18. ~ mingled' => CloserKnows'
  <2> SUFFICES ASSUME ~ mingled, NEW e \in Duty, duty'[e].at \in Closing
               PROVE  KnowsBaseline(e)' /\ (duty'[e].s \notin missed' => KnowsSession(e)')
    BY <1>1 DEF CloserKnows
  <2>1. e = d
    BY <1>2, <1>10 DEF WhileAlone, AloneInClosing, Closing
  <2>2. KnowsBaseline(d) /\ (q \notin missed => KnowsSession(d)) /\ NothingYet
    BY <1>3, <1>2 DEF WhileAlone, CloserKnows, Closing
  <2>3. KnowsBaseline(e)'
    BY <2>1, <2>2, <1>1, <1>2, <1>3, <1>9, <1>10 DEF KnowsBaseline
  <2>4. duty'[e].s \notin missed' => KnowsSession(e)'
    BY <2>1, <2>2, <1>1, <1>2, <1>3, <1>9, <1>10, <1>11 DEF KnowsSession
  <2> QED
    BY <2>3, <2>4
<1>19. ~ mingled' => RecallsScores'
  BY <1>1, <1>2, <1>9, <1>10, <1>12 DEF RecallsScores, WhileAlone
<1>20. ~ mingled' /\ correction'.n > 0 => CountsScores(correction.n)'
  BY <1>1, <1>12 DEF WhileAlone, Shaped
<1>21. EstimateIsOfTheSession'
  BY <1>1, <1>3, <1>9, <1>10, <1>11 DEF EstimateIsOfTheSession, Closing
<1> QED
  BY <1>13, <1>14, <1>15, <1>16, <1>17, <1>18, <1>19, <1>20, <1>21 DEF WhileAlone

\* Without a reading the session gets no score; with one it gets a score and its counts.
LEMMA NotMeasuredKeeps ==
    ASSUME NEW V, Shaped(V), EstimateHolds,
           NEW d \in Duty, UpdateSessionFocus(d), duty[d].good + duty[d].bad = 0
    PROVE  (\E W : Shaped(W)') /\ EstimateHolds'
<1> USE DEF EstimateHolds
<1>1. UNCHANGED <<readings, checklist, baseline, verdict, correction, mingled, missed,
                  shuffled>>
  BY DEF UpdateSessionFocus, remembered
<1>2. duty[d].at = "score" /\ \A e \in Duty : duty[e].n \in Nat
  BY DutyTyped DEF UpdateSessionFocus, Doing
<1>3. /\ duty' \in [Duty -> DutyOf(V)] /\ duty'[d].at = "ease"
      /\ \A e \in Duty : e # d => duty'[e] = duty[e]
  BY EasesBack DEF UpdateSessionFocus
<1>4. \A x : Listed(x)' = Listed(x) /\ Ticked(x)' = Ticked(x)
  BY <1>1, ChecklistSame
<1>5. PICK q : q = duty[d].s
  OBVIOUS
<1>6. q \in Sitting /\ q # NoSitting
  BY <1>5, <1>2, EstimateAssumption DEF DutiesAreOwn
<1>8. sitting' = [sitting EXCEPT ![q].score = NoScore]
  BY <1>5 DEF UpdateSessionFocus
<1>9. /\ sitting' \in [Sitting -> SittingOf(V)] /\ sitting'[q].st = sitting[q].st
      /\ sitting'[q].score = NoScore
      /\ \A x \in Sitting : x # q => sitting'[x] = sitting[x]
  BY <1>8, <1>6 DEF Shaped, SittingOf
<1>10. ~ mingled => KnowsBaseline(d) /\ (q \notin missed => KnowsSession(d))
  BY <1>2, <1>5 DEF WhileAlone, CloserKnows, Closing
<1>11. ~ mingled => \A x \in Sitting : sitting[x].score # NoScore => sitting'[x].score # NoScore
  BY <1>9, <1>10, <1>5, <1>2 DEF KnowsBaseline
<1>12. ~ mingled => \A n \in Nat : CountsScores(n) => CountsScores(n)'
  BY <1>1, <1>11, UsableGrows
<1>13. ~ mingled => \A e \in Duty : duty'[e].at \notin Closing
  BY <1>2, <1>3 DEF WhileAlone, AloneInClosing, Closing
<1>14. Shaped(V)'
  BY <1>1, <1>3, <1>9 DEF Shaped
<1>15. DutiesAreOwn'
  BY <1>3 DEF DutiesAreOwn, Writing
<1>16. PlacesFill'
  BY <1>1, <1>3, PlacesSame
<1>17. ~ mingled' => NothingYet'
  BY <1>1, <1>9 DEF NothingYet, WhileAlone
<1>18. ~ mingled' => AloneInClosing'
  BY <1>1, <1>13 DEF AloneInClosing
<1>19. ~ mingled' => CloserKnows'
  BY <1>1, <1>13 DEF CloserKnows
<1>20. ~ mingled' => RecallsScores'
  BY <1>1, <1>2, <1>3, <1>12 DEF RecallsScores, WhileAlone
<1>21. ~ mingled' /\ correction'.n > 0 => CountsScores(correction.n)'
  BY <1>1, <1>12 DEF WhileAlone, Shaped
<1>22. EstimateIsOfTheSession'
  BY <1>1, <1>2, <1>3, <1>4, <1>5, <1>9, <1>10
    DEF EstimateIsOfTheSession, KnowsBaseline, KnowsSession
<1> QED
  BY <1>14, <1>15, <1>16, <1>17, <1>18, <1>19, <1>20, <1>21, <1>22 DEF WhileAlone

LEMMA MeasuredKeeps ==
    ASSUME NEW V, Shaped(V), EstimateHolds,
           NEW d \in Duty, UpdateSessionFocus(d), duty[d].good + duty[d].bad > 0
    PROVE  (\E W : Shaped(W)') /\ EstimateHolds'
<1> USE DEF EstimateHolds
<1>1. UNCHANGED <<readings, checklist, baseline, verdict, correction, mingled, missed,
                  shuffled>>
  BY DEF UpdateSessionFocus, remembered
<1>2. duty[d].at = "score" /\ \A e \in Duty : duty[e].n \in Nat
  BY DutyTyped DEF UpdateSessionFocus, Doing
<1>3. PICK q : q = duty[d].s
  OBVIOUS
<1>4. q \in Sitting /\ q # NoSitting
  BY <1>3, <1>2, EstimateAssumption DEF DutiesAreOwn
<1>5. PICK c : sitting' = [sitting EXCEPT ![q] = [@ EXCEPT !.total = duty[d].total, !.done = duty[d].done, !.score = c]]
  BY <1>3 DEF UpdateSessionFocus
<1>6. PICK W : W = V \cup {c}
  OBVIOUS
<1>7. V \subseteq W /\ {0, NoScore} \subseteq W /\ c \in W
  BY <1>6 DEF Shaped
<1>8. PICK r : r = [duty[d] EXCEPT !.at = "fold"]
  OBVIOUS
<1>9. duty' = [duty EXCEPT ![d] = r]
  BY <1>8 DEF UpdateSessionFocus
<1>10. duty[d] \in DutyOf(V)
  BY DutyTyped
<1>11. r \in DutyOf(W) /\ r.s = q /\ r.was = duty[d].was
       /\ r.at = "fold" /\ r.good = duty[d].good /\ r.bad = duty[d].bad
       /\ r.known = duty[d].known /\ r.total = duty[d].total /\ r.done = duty[d].done
  BY <1>8, <1>3, <1>10, <1>6 DEF DutyOf, Closing
<1>12. /\ duty' \in [Duty -> DutyOf(W)] /\ duty'[d] = r
       /\ \A e \in Duty : e # d => duty'[e] = duty[e]
  BY <1>9, <1>11, <1>7, Moved
<1>13. \A x : Listed(x)' = Listed(x) /\ Ticked(x)' = Ticked(x)
  BY <1>1, ChecklistSame
<1>14. duty[d].total \in Nat /\ duty[d].done \in Nat
  BY DutyTyped
<1>15. /\ sitting'[q].st = sitting[q].st /\ sitting'[q].total = duty[d].total
       /\ sitting'[q].done = duty[d].done
       /\ \A x \in Sitting : x # q => sitting'[x] = sitting[x]
  BY <1>5, <1>4 DEF Shaped
<1>16. sitting' \in [Sitting -> SittingOf(W)] /\ correction \in [offset : W, n : Nat]
  BY <1>5, <1>4, <1>7, <1>14 DEF Shaped, SittingOf
<1>17. ~ mingled => KnowsBaseline(d) /\ (q \notin missed => KnowsSession(d))
  BY <1>2, <1>3 DEF WhileAlone, CloserKnows, Closing
<1>18. ~ mingled => \A x \in Sitting : sitting[x].score # NoScore => sitting'[x].score # NoScore
  BY <1>15, <1>17, <1>3, <1>2 DEF KnowsBaseline
<1>19. ~ mingled => \A n \in Nat : CountsScores(n) => CountsScores(n)'
  BY <1>1, <1>18, UsableGrows
<1>20. Shaped(W)'
  BY <1>1, <1>7, <1>12, <1>16 DEF Shaped
<1>21. DutiesAreOwn'
  BY <1>2, <1>3, <1>11, <1>12 DEF DutiesAreOwn, Writing
<1>22. PlacesFill'
  BY <1>1, <1>11, <1>12, PlacesSame
<1>23. ~ mingled' => NothingYet'
  BY <1>1, <1>2, <1>3, <1>15, <1>17 DEF NothingYet, WhileAlone, KnowsBaseline
<1>24. ~ mingled' => AloneInClosing'
  BY <1>1, <1>2, <1>12 DEF AloneInClosing, WhileAlone, Closing
<1>25. ~ mingled' => CloserKnows'
  <2> SUFFICES ASSUME ~ mingled, NEW e \in Duty, duty'[e].at \in Closing
               PROVE  KnowsBaseline(e)' /\ (duty'[e].s \notin missed' => KnowsSession(e)')
    BY <1>1 DEF CloserKnows
  <2>1. e = d
    BY <1>2, <1>12 DEF WhileAlone, AloneInClosing, Closing
  <2>2. KnowsBaseline(d) /\ (q \notin missed => KnowsSession(d)) /\ NothingYet
    BY <1>3, <1>2 DEF WhileAlone, CloserKnows, Closing
  <2>3. KnowsBaseline(e)'
    BY <2>1, <2>2, <1>1, <1>2, <1>3, <1>11, <1>12, <1>15 DEF KnowsBaseline
  <2>4. duty'[e].s \notin missed' => KnowsSession(e)'
    BY <2>1, <2>2, <1>1, <1>2, <1>3, <1>11, <1>12, <1>13, <1>15 DEF KnowsSession
  <2> QED
    BY <2>3, <2>4
<1>26. ~ mingled' => RecallsScores'
  BY <1>1, <1>2, <1>11, <1>12, <1>19 DEF RecallsScores, WhileAlone
<1>27. ~ mingled' /\ correction'.n > 0 => CountsScores(correction.n)'
  BY <1>1, <1>16, <1>19 DEF WhileAlone
<1>28. EstimateIsOfTheSession'
  BY <1>1, <1>3, <1>7, <1>11, <1>12, <1>13, <1>15, <1>16, <1>18, <1>19
    DEF EstimateIsOfTheSession, AloneInClosing, Closing, Shaped
<1> QED
  BY <1>20, <1>21, <1>22, <1>23, <1>24, <1>25, <1>26, <1>27, <1>28 DEF WhileAlone

\* The readings reach the baseline; a call fails.
LEMMA UpsertBaselineKeeps ==
    ASSUME NEW V, Shaped(V), EstimateHolds, NEW d \in Duty, UpsertBaseline(d)
    PROVE  (\E W : Shaped(W)') /\ EstimateHolds'
<1> USE DEF EstimateHolds
<1>1. UNCHANGED <<sitting, readings, checklist, verdict, correction, mingled, missed,
                  shuffled>>
  BY DEF UpsertBaseline, remembered
<1>2. duty[d].at = "fold" /\ \A e \in Duty : duty[e].n \in Nat
  BY DutyTyped DEF UpsertBaseline, Doing
<1>3. /\ duty' \in [Duty -> DutyOf(V)] /\ duty'[d].at = "ease"
      /\ \A e \in Duty : e # d => duty'[e] = duty[e]
  BY EasesBack DEF UpsertBaseline
<1>4. \A x : Listed(x)' = Listed(x) /\ Ticked(x)' = Ticked(x)
  BY <1>1, ChecklistSame
<1>5. \A n \in Nat : CountsScores(n) => CountsScores(n)'
  BY <1>1, UsableSame DEF CountsScores
<1>6. PICK q : q = duty[d].s
  OBVIOUS
<1>7. q \in Sitting /\ q # NoSitting
  BY <1>6, <1>2, EstimateAssumption DEF DutiesAreOwn
<1>8. duty[d].known \in [Sitting -> Nat] /\ duty[d].good \in Nat /\ duty[d].bad \in Nat
  BY DutyTyped
<1>9. /\ baseline' \in [Sitting -> Nat]
      /\ baseline'[q] = duty[d].known[q] + duty[d].good + duty[d].bad
      /\ \A x \in Sitting : x # q => baseline'[x] = duty[d].known[x]
  BY <1>8, <1>6, <1>7 DEF UpsertBaseline
<1>10. ~ mingled => KnowsBaseline(d) /\ (q \notin missed => KnowsSession(d))
  BY <1>2, <1>6 DEF WhileAlone, CloserKnows, Closing
<1>11. ~ mingled =>
         /\ sitting[q].st = "ended"
         /\ \A x \in Sitting : x # q => baseline'[x] = baseline[x]
         /\ q \notin missed => baseline'[q] = readings[q].good + readings[q].bad
  BY <1>10, <1>9, <1>6, <1>2, <1>7 DEF KnowsBaseline, KnowsSession, Shaped
<1>12. ~ mingled => \A e \in Duty : duty'[e].at \notin Closing
  BY <1>2, <1>3 DEF WhileAlone, AloneInClosing, Closing
<1>13. Shaped(V)'
  BY <1>1, <1>3, <1>9 DEF Shaped
<1>14. DutiesAreOwn'
  BY <1>3 DEF DutiesAreOwn, Writing
<1>15. PlacesFill'
  BY <1>1, <1>3, PlacesSame
<1>16. ~ mingled' => NothingYet'
  BY <1>1, <1>2, <1>6, <1>9, <1>10 DEF NothingYet, WhileAlone, KnowsBaseline
<1>17. ~ mingled' => AloneInClosing'
  BY <1>1, <1>12 DEF AloneInClosing
<1>18. ~ mingled' => CloserKnows'
  BY <1>1, <1>12 DEF CloserKnows
<1>19. ~ mingled' => RecallsScores'
  BY <1>1, <1>2, <1>3, <1>5 DEF RecallsScores, WhileAlone
<1>20. ~ mingled' /\ correction'.n > 0 => CountsScores(correction.n)'
  BY <1>1, <1>5 DEF WhileAlone, Shaped
<1>21. EstimateIsOfTheSession'
  BY <1>1, <1>2, <1>3, <1>4, <1>6, <1>9, <1>10, <1>11
    DEF EstimateIsOfTheSession, KnowsBaseline, KnowsSession
<1> QED
  BY <1>13, <1>14, <1>15, <1>16, <1>17, <1>18, <1>19, <1>20, <1>21 DEF WhileAlone

LEMMA EstimateFailsKeeps ==
    ASSUME NEW V, Shaped(V), EstimateHolds, NEW d \in Duty, EstimateFails(d)
    PROVE  (\E W : Shaped(W)') /\ EstimateHolds'
<1> USE DEF EstimateHolds
<1>1. UNCHANGED <<sitting, readings, checklist, baseline, verdict, correction, mingled,
                  shuffled>>
  BY DEF EstimateFails, tables
<1>2. duty[d].at \in (Closing \cup Rating) \ {"end"} /\ \A e \in Duty : duty[e].n \in Nat
  BY DutyTyped DEF EstimateFails
<1>3. /\ duty' \in [Duty -> DutyOf(V)] /\ duty'[d].at = "ease"
      /\ \A e \in Duty : e # d => duty'[e] = duty[e]
  BY EasesBack DEF EstimateFails
<1>4. \A x : Listed(x)' = Listed(x) /\ Ticked(x)' = Ticked(x)
  BY <1>1, ChecklistSame
<1>5. \A n \in Nat : CountsScores(n) => CountsScores(n)'
  BY <1>1, UsableSame DEF CountsScores
<1>6. /\ missed' = (IF duty[d].at \in Closing THEN missed \cup {duty[d].s} ELSE missed)
      /\ missed' \subseteq Sitting
  BY DEF EstimateFails, DutiesAreOwn, Closing, Shaped
<1>7. ~ mingled => \A e \in Duty : duty'[e].at \in Closing => duty'[e] = duty[e] /\ e # d /\ duty[d].at \notin Closing
  BY <1>3 DEF WhileAlone, AloneInClosing, Closing
<1>8. Shaped(V)'
  BY <1>1, <1>3, <1>6 DEF Shaped
<1>9. DutiesAreOwn'
  BY <1>3 DEF DutiesAreOwn, Writing
<1>10. PlacesFill'
  BY <1>1, <1>3, PlacesSame
<1>11. ~ mingled' => NothingYet'
  BY <1>1 DEF NothingYet, WhileAlone
<1>12. ~ mingled' => AloneInClosing'
  BY <1>1, <1>7 DEF AloneInClosing, WhileAlone
<1>13. ~ mingled' => CloserKnows'
  BY <1>1, <1>4, <1>6, <1>7 DEF CloserKnows, KnowsBaseline, KnowsSession, WhileAlone
<1>14. ~ mingled' => RecallsScores'
  BY <1>1, <1>2, <1>3, <1>5 DEF RecallsScores, WhileAlone
<1>15. ~ mingled' /\ correction'.n > 0 => CountsScores(correction.n)'
  BY <1>1, <1>5 DEF WhileAlone, Shaped
<1>16. EstimateIsOfTheSession'
  BY <1>1, <1>3, <1>4, <1>6 DEF EstimateIsOfTheSession
<1> QED
  BY <1>8, <1>9, <1>10, <1>11, <1>12, <1>13, <1>14, <1>15, <1>16 DEF WhileAlone

\* The correction is worked out from the verdicts there are.
LEMMA NotEnoughKeeps ==
    ASSUME NEW V, Shaped(V), EstimateHolds,
           NEW d \in Duty, FindRated(d), Cardinality(Usable) < MinRatings
    PROVE  (\E W : Shaped(W)') /\ EstimateHolds'
<1> USE DEF EstimateHolds
<1>1. UNCHANGED <<sitting, readings, checklist, baseline, verdict, correction, mingled,
                  missed, shuffled>>
  BY DEF FindRated, tables, remembered
<1>2. duty[d].at = "measure" /\ \A e \in Duty : duty[e].n \in Nat
  BY DutyTyped DEF FindRated, Doing
<1>3. /\ duty' \in [Duty -> DutyOf(V)] /\ duty'[d].at = "ease"
      /\ \A e \in Duty : e # d => duty'[e] = duty[e]
  BY EasesBack DEF FindRated
<1>4. \A e \in Duty : (duty'[e].at \in Closing <=> duty[e].at \in Closing)
        /\ (duty[e].at \in Closing => duty'[e] = duty[e])
  BY <1>2, <1>3 DEF Closing
<1>5. \A x : Listed(x)' = Listed(x) /\ Ticked(x)' = Ticked(x)
  BY <1>1, ChecklistSame
<1>6. \A n \in Nat : CountsScores(n) => CountsScores(n)'
  BY <1>1, UsableSame DEF CountsScores
<1>7. Shaped(V)'
  BY <1>1, <1>3 DEF Shaped
<1>8. DutiesAreOwn'
  BY <1>3 DEF DutiesAreOwn, Writing
<1>9. PlacesFill'
  BY <1>1, <1>3, PlacesSame
<1>10. ~ mingled' => NothingYet'
  BY <1>1 DEF NothingYet, WhileAlone
<1>11. ~ mingled' => AloneInClosing'
  BY <1>1, <1>4 DEF AloneInClosing, WhileAlone
<1>12. ~ mingled' => CloserKnows'
  BY <1>1, <1>4, <1>5 DEF CloserKnows, KnowsBaseline, KnowsSession, WhileAlone
<1>13. ~ mingled' => RecallsScores'
  BY <1>1, <1>2, <1>3, <1>6 DEF RecallsScores, WhileAlone
<1>14. ~ mingled' /\ correction'.n > 0 => CountsScores(correction.n)'
  BY <1>1, <1>6 DEF WhileAlone, Shaped
<1>15. EstimateIsOfTheSession'
  BY <1>1, <1>4, <1>5 DEF EstimateIsOfTheSession
<1> QED
  BY <1>7, <1>8, <1>9, <1>10, <1>11, <1>12, <1>13, <1>14, <1>15 DEF WhileAlone

LEMMA FindRatedKeeps ==
    ASSUME NEW V, Shaped(V), EstimateHolds,
           NEW d \in Duty, FindRated(d), ~ (Cardinality(Usable) < MinRatings)
    PROVE  (\E W : Shaped(W)') /\ EstimateHolds'
<1> USE DEF EstimateHolds
<1>1. UNCHANGED <<sitting, readings, checklist, baseline, verdict, correction, mingled,
                  missed, shuffled>>
  BY DEF FindRated, tables, remembered
<1>2. duty[d].at = "measure" /\ \A e \in Duty : duty[e].n \in Nat
  BY DutyTyped DEF FindRated, Doing
<1>3. PICK q : q = duty[d].s
  OBVIOUS
<1>5. PICK W : W = V \cup {Excess}
  OBVIOUS
<1>6. /\ V \subseteq W /\ {0, NoScore} \subseteq W /\ Excess \in W
      /\ Cardinality(Usable) \in Nat
      /\ sitting \in [Sitting -> SittingOf(W)] /\ correction \in [offset : W, n : Nat]
  BY <1>5, CountsAreFinite DEF Shaped, SittingOf
<1>7. PICK r : r = [duty[d] EXCEPT !.at = "recall", !.n = Cardinality(Usable), !.excess = Excess]
  OBVIOUS
<1>8. duty' = [duty EXCEPT ![d] = r]
  BY <1>7 DEF FindRated
<1>9. duty[d] \in DutyOf(V)
  BY DutyTyped
<1>10. r \in DutyOf(W) /\ r.s = q /\ r.was = duty[d].was
       /\ r.at = "recall" /\ r.n = Cardinality(Usable)
  BY <1>7, <1>3, <1>9, <1>5, <1>6 DEF DutyOf, Closing, Rating
<1>11. /\ duty' \in [Duty -> DutyOf(W)] /\ duty'[d] = r
       /\ \A e \in Duty : e # d => duty'[e] = duty[e]
  BY <1>8, <1>10, <1>6, Moved
<1>12. \A e \in Duty : (duty'[e].at \in Closing <=> duty[e].at \in Closing)
         /\ (duty[e].at \in Closing => duty'[e] = duty[e])
  BY <1>2, <1>11, <1>10 DEF Closing
<1>13. \A x : Listed(x)' = Listed(x) /\ Ticked(x)' = Ticked(x)
  BY <1>1, ChecklistSame
<1>14. \A n \in Nat : CountsScores(n) => CountsScores(n)'
  BY <1>1, UsableSame DEF CountsScores
<1>15. CountsScores(Cardinality(Usable))
  BY <1>6, ScoringAssumption DEF CountsScores
<1>16. Shaped(W)'
  BY <1>1, <1>6, <1>11 DEF Shaped
<1>17. DutiesAreOwn'
  BY <1>2, <1>3, <1>10, <1>11 DEF DutiesAreOwn, Writing
<1>18. PlacesFill'
  BY <1>1, <1>10, <1>11, PlacesSame
<1>19. ~ mingled' => NothingYet'
  BY <1>1 DEF NothingYet, WhileAlone
<1>20. ~ mingled' => AloneInClosing'
  BY <1>1, <1>12 DEF AloneInClosing, WhileAlone
<1>21. ~ mingled' => CloserKnows'
  BY <1>1, <1>12, <1>13 DEF CloserKnows, KnowsBaseline, KnowsSession, WhileAlone
<1>22. ~ mingled' => RecallsScores'
  BY <1>1, <1>2, <1>6, <1>10, <1>11, <1>14, <1>15 DEF RecallsScores, WhileAlone
<1>23. ~ mingled' /\ correction'.n > 0 => CountsScores(correction.n)'
  BY <1>1, <1>6, <1>14 DEF WhileAlone
<1>24. EstimateIsOfTheSession'
  BY <1>1, <1>12, <1>13 DEF EstimateIsOfTheSession
<1> QED
  BY <1>16, <1>17, <1>18, <1>19, <1>20, <1>21, <1>22, <1>23, <1>24 DEF WhileAlone

LEMMA FindCalibrationKeeps ==
    ASSUME NEW V, Shaped(V), EstimateHolds, NEW d \in Duty, FindCalibration(d)
    PROVE  (\E W : Shaped(W)') /\ EstimateHolds'
<1> USE DEF EstimateHolds
<1>1. UNCHANGED <<sitting, readings, checklist, baseline, verdict, correction, mingled,
                  missed, shuffled>>
  BY DEF FindCalibration, tables, remembered
<1>2. duty[d].at = "recall" /\ \A e \in Duty : duty[e].n \in Nat
  BY DutyTyped DEF FindCalibration, Doing
<1>3. PICK q : q = duty[d].s
  OBVIOUS
<1>5. correction.offset \in V
  BY DEF Shaped
<1>6. PICK r : r = [duty[d] EXCEPT !.at = "adjust", !.offset = correction.offset]
  OBVIOUS
<1>7. duty' = [duty EXCEPT ![d] = r]
  BY <1>6 DEF FindCalibration
<1>8. duty[d] \in DutyOf(V)
  BY DutyTyped
<1>9. r \in DutyOf(V) /\ r.s = q /\ r.was = duty[d].was
      /\ r.at = "adjust" /\ r.n = duty[d].n
  BY <1>6, <1>3, <1>8, <1>5 DEF DutyOf, Closing, Rating
<1>10. /\ duty' \in [Duty -> DutyOf(V)] /\ duty'[d] = r
       /\ \A e \in Duty : e # d => duty'[e] = duty[e]
  BY <1>7, <1>9, Moved
<1>11. \A e \in Duty : (duty'[e].at \in Closing <=> duty[e].at \in Closing)
         /\ (duty[e].at \in Closing => duty'[e] = duty[e])
  BY <1>2, <1>10, <1>9 DEF Closing
<1>12. \A x : Listed(x)' = Listed(x) /\ Ticked(x)' = Ticked(x)
  BY <1>1, ChecklistSame
<1>13. \A n \in Nat : CountsScores(n) => CountsScores(n)'
  BY <1>1, UsableSame DEF CountsScores
<1>14. Shaped(V)'
  BY <1>1, <1>10 DEF Shaped
<1>15. DutiesAreOwn'
  BY <1>2, <1>3, <1>9, <1>10 DEF DutiesAreOwn, Writing
<1>16. PlacesFill'
  BY <1>1, <1>9, <1>10, PlacesSame
<1>17. ~ mingled' => NothingYet'
  BY <1>1 DEF NothingYet, WhileAlone
<1>18. ~ mingled' => AloneInClosing'
  BY <1>1, <1>11 DEF AloneInClosing, WhileAlone
<1>19. ~ mingled' => CloserKnows'
  BY <1>1, <1>11, <1>12 DEF CloserKnows, KnowsBaseline, KnowsSession, WhileAlone
<1>20. ~ mingled' => RecallsScores'
  BY <1>1, <1>2, <1>9, <1>10, <1>13 DEF RecallsScores, WhileAlone
<1>21. ~ mingled' /\ correction'.n > 0 => CountsScores(correction.n)'
  BY <1>1, <1>13 DEF WhileAlone, Shaped
<1>22. EstimateIsOfTheSession'
  BY <1>1, <1>11, <1>12 DEF EstimateIsOfTheSession
<1> QED
  BY <1>14, <1>15, <1>16, <1>17, <1>18, <1>19, <1>20, <1>21, <1>22 DEF WhileAlone

LEMMA UpsertCalibrationKeeps ==
    ASSUME NEW V, Shaped(V), EstimateHolds, NEW d \in Duty, UpsertCalibration(d)
    PROVE  (\E W : Shaped(W)') /\ EstimateHolds'
<1> USE DEF EstimateHolds
<1>1. UNCHANGED <<sitting, readings, checklist, baseline, verdict, mingled, missed, shuffled>>
  BY DEF UpsertCalibration, remembered
<1>2. duty[d].at = "adjust" /\ \A e \in Duty : duty[e].n \in Nat
  BY DutyTyped DEF UpsertCalibration, Doing
<1>3. /\ duty' \in [Duty -> DutyOf(V)] /\ duty'[d].at = "ease"
      /\ \A e \in Duty : e # d => duty'[e] = duty[e]
  BY EasesBack DEF UpsertCalibration
<1>4. \A e \in Duty : (duty'[e].at \in Closing <=> duty[e].at \in Closing)
        /\ (duty[e].at \in Closing => duty'[e] = duty[e])
  BY <1>2, <1>3 DEF Closing
<1>5. \A x : Listed(x)' = Listed(x) /\ Ticked(x)' = Ticked(x)
  BY <1>1, ChecklistSame
<1>6. \A n \in Nat : CountsScores(n) => CountsScores(n)'
  BY <1>1, UsableSame DEF CountsScores
<1>7. PICK c : c = NextCalibrationOffset(duty[d].offset, duty[d].excess, duty[d].n)
  OBVIOUS
<1>8. PICK W : W = V \cup {c}
  OBVIOUS
<1>9. /\ V \subseteq W /\ {0, NoScore} \subseteq W /\ c \in W
      /\ sitting \in [Sitting -> SittingOf(W)]
  BY <1>8 DEF Shaped, SittingOf
<1>10. correction' = [offset |-> c, n |-> duty[d].n]
  BY <1>7 DEF UpsertCalibration
<1>11. correction' \in [offset : W, n : Nat] /\ correction'.n = duty[d].n
  BY <1>10, <1>9, <1>2
<1>12. DutyOf(V) \subseteq DutyOf(W)
  BY <1>9 DEF DutyOf
<1>13. Shaped(W)'
  BY <1>1, <1>3, <1>9, <1>11, <1>12 DEF Shaped
<1>14. DutiesAreOwn'
  BY <1>3 DEF DutiesAreOwn, Writing
<1>15. PlacesFill'
  BY <1>1, <1>3, PlacesSame
<1>16. ~ mingled' => NothingYet'
  BY <1>1 DEF NothingYet, WhileAlone
<1>17. ~ mingled' => AloneInClosing'
  BY <1>1, <1>4 DEF AloneInClosing, WhileAlone
<1>18. ~ mingled' => CloserKnows'
  BY <1>1, <1>4, <1>5 DEF CloserKnows, KnowsBaseline, KnowsSession, WhileAlone
<1>19. ~ mingled' => RecallsScores'
  BY <1>1, <1>2, <1>3, <1>6 DEF RecallsScores, WhileAlone
<1>20. ~ mingled' /\ correction'.n > 0 => CountsScores(correction.n)'
  BY <1>1, <1>2, <1>6, <1>11 DEF WhileAlone, RecallsScores
<1>21. EstimateIsOfTheSession'
  BY <1>1, <1>4, <1>5 DEF EstimateIsOfTheSession
<1> QED
  BY <1>13, <1>14, <1>15, <1>16, <1>17, <1>18, <1>19, <1>20, <1>21 DEF WhileAlone

LEMMA EstimateStart == EstimateInit => EstimateInv
<1> SUFFICES ASSUME EstimateInit PROVE EstimateInv
  OBVIOUS
<1>1. PICK V : V = {0, NoScore}
  OBVIOUS
<1>3. /\ AtEase \in DutyOf(V) /\ AtEase.at = "ease" /\ NewSitting \in SittingOf(V)
      /\ NewSitting.st = "new" /\ NewSitting.score = NoScore
      /\ NotListed \in ListedAs /\ NotListed.of = NoSitting
  BY <1>1 DEF AtEase, DutyOf, NewSitting, SittingOf, NotListed, ListedAs
<1>4. /\ \A d \in Duty : duty[d].at = "ease"
      /\ \A s \in Sitting : sitting[s].st = "new" /\ sitting[s].score = NoScore /\ baseline[s] = 0
      /\ \A i \in Item : checklist[i] = NotListed
      /\ correction.n = 0 /\ correction.offset = 0
  BY <1>3 DEF EstimateInit
<1>5. Shaped(V)
  <2>1. /\ sitting \in [Sitting -> SittingOf(V)] /\ checklist \in [Item -> ListedAs]
        /\ duty \in [Duty -> DutyOf(V)]
    BY <1>3 DEF EstimateInit
  <2>2. /\ readings \in [Sitting -> [good : Nat, bad : Nat]]
        /\ baseline \in [Sitting -> Nat] /\ verdict \in [Sitting -> 0 .. 5]
        /\ correction \in [offset : V, n : Nat]
    BY <1>1 DEF EstimateInit
  <2>3. mingled \in BOOLEAN /\ missed \subseteq Sitting /\ shuffled \subseteq Sitting
    BY DEF EstimateInit
  <2> QED
    BY <1>1, <2>1, <2>2, <2>3 DEF Shaped
<1>6. \A s \in Sitting : Listed(s) = {}
  BY <1>3, <1>4, EstimateAssumption DEF Listed
<1>7. DutiesAreOwn /\ PlacesFill
  BY <1>4, <1>6 DEF DutiesAreOwn, Writing, PlacesFill, Fills
<1>8. WhileAlone
  BY <1>4 DEF WhileAlone, NothingYet, AloneInClosing, CloserKnows, RecallsScores, Closing
<1>9. EstimateIsOfTheSession
  BY <1>4 DEF EstimateIsOfTheSession
<1> QED
  BY <1>5, <1>7, <1>8, <1>9 DEF EstimateInv, EstimateHolds

LEMMA EstimateStep ==
    ASSUME EstimateInv, [EstimateNext]_estimateVars
    PROVE  EstimateInv'
<1>1. PICK V : Shaped(V)
  BY DEF EstimateInv
<1>2. EstimateHolds
  BY DEF EstimateInv
<1>3. CASE \E s \in Sitting : StartSitting(s)
  BY <1>3, StartSittingKeeps DEF EstimateInv
<1>4. ASSUME NEW d \in Duty,
             \/ \E s \in Sitting : BeginIngest(d, s) \/ BeginAddTask(d, s) \/ BeginClose(d, s)
             \/ \E kind \in {"good", "bad"} : CreateSample(d, kind)
             \/ \E i \in Item : CreateTask(d, i)
             \/ \E i \in Item, at \in {"tick", "remove"} : BeginTick(d, i, at)
             \/ \E s \in Sitting, v \in Verdicts : Rate(d, s, v)
      PROVE  EstimateInv'
  BY <1>4, BeginIngestKeeps, BeginAddTaskKeeps, BeginCloseKeeps, CreateSampleKeeps,
     CreateTaskKeeps, BeginTickKeeps, RateKeeps DEF EstimateInv
<1>5. ASSUME NEW d \in Duty,
             SetTaskComplete(d) \/ DeleteTask(d) \/ WriteClosed(d) \/ FindSamples(d) \/ FindTasks(d)
      PROVE  EstimateInv'
  BY <1>5, TickedKeeps, NotTickedKeeps, RemovedKeeps, NotRemovedKeeps, WriteClosedKeeps,
     FindSamplesKeeps, FindTasksKeeps DEF EstimateInv
<1>6. ASSUME NEW d \in Duty, UpdateSessionFocus(d)
      PROVE  EstimateInv'
  <2>1. duty[d].good + duty[d].bad > 0 \/ duty[d].good + duty[d].bad = 0
    BY <1>1, DutyTyped
  <2> QED
    BY <1>6, <2>1, NotMeasuredKeeps, MeasuredKeeps DEF EstimateInv
<1>7. ASSUME NEW d \in Duty,
             \/ UpsertBaseline(d) \/ EstimateFails(d)
             \/ FindRated(d) \/ FindCalibration(d) \/ UpsertCalibration(d)
      PROVE  EstimateInv'
  BY <1>7, UpsertBaselineKeeps, EstimateFailsKeeps, NotEnoughKeeps, FindRatedKeeps,
     FindCalibrationKeeps, UpsertCalibrationKeeps DEF EstimateInv
<1>8. CASE UNCHANGED estimateVars
  <2>1. /\ UNCHANGED <<sitting, readings, checklist, baseline, verdict, correction, duty>>
        /\ UNCHANGED <<mingled, missed, shuffled>>
    BY <1>8 DEF estimateVars
  <2>2. Shaped(V)' /\ DutiesAreOwn' /\ PlacesFill'
    BY <1>1, <1>2, <2>1, PlacesSame DEF Shaped, EstimateHolds, DutiesAreOwn
  <2>3. Usable' = Usable /\ \A s : Listed(s)' = Listed(s) /\ Ticked(s)' = Ticked(s)
    BY <2>1, UsableSame, ChecklistSame
  <2>4. ~ mingled' => WhileAlone'
    BY <1>2, <2>1, <2>3
      DEF EstimateHolds, WhileAlone, NothingYet, AloneInClosing, CloserKnows,
          KnowsBaseline, KnowsSession, RecallsScores, CountsScores
  <2>5. EstimateIsOfTheSession'
    BY <1>2, <2>1, <2>3 DEF EstimateHolds, EstimateIsOfTheSession
  <2> QED
    BY <2>2, <2>4, <2>5 DEF EstimateInv, EstimateHolds
<1> QED
  BY <1>3, <1>4, <1>5, <1>6, <1>7, <1>8 DEF EstimateNext

\* What a request of the estimate knows of the tables, alone in closing.
THEOREM EstimateInvariant == EstimateSpec => []EstimateInv
<1>1. EstimateInv /\ [EstimateNext]_estimateVars => EstimateInv'
  BY EstimateStep
<1> QED
  BY EstimateStart, <1>1, PTL DEF EstimateSpec

\* A closed session's row counts its checklist and the baseline has its readings once;
\* items stand apart; a correction is of verdicts on scores.
THEOREM EstimateStaysKept == EstimateSpec => []EstimateIsKept
<1>1. EstimateInv => EstimateIsKept
  <2> SUFFICES ASSUME EstimateInv PROVE EstimateIsKept
    OBVIOUS
  <2>1. PICK V : Shaped(V)
    BY DEF EstimateInv
  <2>2. EstimateIsOfTheSession
    BY DEF EstimateInv, EstimateHolds
  <2>3. ItemsStandApart
    <3> SUFFICES ASSUME NEW i \in Item, NEW j \in Item, i # j, checklist[i] # NotListed,
                        checklist[i].of = checklist[j].of, checklist[i].of \notin shuffled
                 PROVE  checklist[i].place # checklist[j].place
      BY DEF ItemsStandApart
    <3>1. PICK q : q = checklist[i].of
      OBVIOUS
    <3>2. q # NoSitting /\ q \in Sitting
      BY <3>1 DEF EstimateInv, EstimateHolds, PlacesFill, Shaped, ListedAs
    <3>3. i \in Listed(q) /\ j \in Listed(q)
      BY <3>1 DEF Listed
    <3> QED
      BY <3>1, <3>2, <3>3 DEF EstimateInv, EstimateHolds, PlacesFill, Fills
  <2>4. CorrectionIsOfScores
    BY DEF EstimateInv, EstimateHolds, WhileAlone, CountsScores, CorrectionIsOfScores
  <2> QED
    BY <2>2, <2>3, <2>4 DEF EstimateIsKept
<1> QED
  BY EstimateInvariant, <1>1, PTL

-----------------------------------------------------------------------------
\* The score of a session (FocusScoring), for any session there is.

Proper == {f \in [n : Nat, d : Nat] : f.d > 0 /\ f.n <= f.d}
Reading == [at : Nat, motion : 0 .. Quality, inApp : BOOLEAN, hr : {NoHeartRate} \cup 0 .. Quality]
Facted == [samples : Seq(Reading), elapsed : Nat, planned : Nat, away : Nat, done : Nat, total : Nat]

-----------------------------------------------------------------------------
\* Arithmetic.
LEMMA Dividing ==
    ASSUME NEW a \in Nat, NEW b \in Nat, b > 0
    PROVE  a \div b \in Nat /\ a % b \in 0 .. (b - 1) /\ a = b * (a \div b) + (a % b)
OBVIOUS

LEMMA PointsAreNat == \A n \in 0 .. 100 : n \in Nat
OBVIOUS

LEMMA TimesGrows ==
    ASSUME NEW a \in Nat, NEW b \in Nat, a <= b, NEW c \in Nat
    PROVE  a * c <= b * c /\ a * c \in Nat /\ b * c \in Nat
<1>1. PICK k \in Nat : b = a + k
  <2>1. b - a \in Nat /\ b = a + (b - a)
    OBVIOUS
  <2> QED
    BY <2>1
<1>2. (a + k) * c = a * c + k * c /\ a * c \in Nat /\ k * c \in Nat
  OBVIOUS
<1> QED
  BY <1>1, <1>2

LEMMA DivGrows ==
    ASSUME NEW a \in Nat, NEW b \in Nat, a <= b, NEW c \in Nat, c > 0
    PROVE  a \div c \in Nat /\ a \div c <= b \div c
<1>1. PICK p \in Nat, q \in Nat, r \in 0 .. (c - 1), s \in 0 .. (c - 1) :
        p = a \div c /\ q = b \div c /\ a = c * p + r /\ b = c * q + s
  BY Dividing
<1>2. ASSUME q < p PROVE FALSE
  <2>1. PICK k \in Nat : p = q + 1 + k
    <3>1. p - q - 1 \in Nat /\ p = q + 1 + (p - q - 1)
      BY <1>2
    <3> QED
      BY <3>1
  <2>2. c * (q + 1 + k) = c * q + c + c * k /\ c * k \in Nat /\ c * q \in Nat
    OBVIOUS
  <2> QED
    BY <1>1, <2>1, <2>2
<1> QED
  BY <1>1, <1>2

\* Rounding: between 0 and 100, exact on what needs none, and never against the order.
LEMMA RoundedRange ==
    ASSUME NEW n \in Nat, NEW d \in Nat, d > 0
    PROVE  /\ Rounded(n, d) \in Nat
           /\ \A k \in Nat : n <= k * d => Rounded(n, d) <= k
           /\ \A k \in Nat : n = k * d => Rounded(n, d) = k
           /\ \A m \in Nat : n <= m => Rounded(n, d) <= Rounded(m, d)
<1>1. PICK q \in Nat, r \in Nat :
        q = Rounded(n, d) /\ r < 2 * d /\ 2 * n + d = (2 * d) * q + r
  BY Dividing DEF Rounded
<1>2. ASSUME NEW k \in Nat, n <= k * d PROVE q <= k
  <2> SUFFICES ASSUME k < q PROVE FALSE
    OBVIOUS
  <2>1. PICK j \in Nat : q = k + 1 + j
    <3>1. q - k - 1 \in Nat /\ q = k + 1 + (q - k - 1)
      OBVIOUS
    <3> QED
      BY <3>1
  <2>2. (2 * d) * (k + 1 + j) = 2 * (k * d) + 2 * d + 2 * (d * j) /\ d * j \in Nat /\ k * d \in Nat
    OBVIOUS
  <2> QED
    BY <1>1, <1>2, <2>1, <2>2
<1>3. ASSUME NEW k \in Nat, n = k * d PROVE q = k
  <2>1. q <= k
    BY <1>2, <1>3
  <2> SUFFICES ASSUME q < k PROVE FALSE
    BY <2>1
  <2>2. PICK j \in Nat : k = q + 1 + j
    <3>1. k - q - 1 \in Nat /\ k = q + 1 + (k - q - 1)
      OBVIOUS
    <3> QED
      BY <3>1
  <2>3. /\ 2 * ((q + 1 + j) * d) = (2 * d) * q + 2 * d + 2 * (d * j)
        /\ d * j \in Nat /\ (2 * d) * q \in Nat
    OBVIOUS
  <2> QED
    BY <1>1, <1>3, <2>2, <2>3
<1>4. ASSUME NEW m \in Nat, n <= m PROVE Rounded(n, d) <= Rounded(m, d)
  BY <1>4, DivGrows DEF Rounded
<1> QED
  BY <1>1, <1>2, <1>3, <1>4

LEMMA ClampIsProper ==
    ASSUME NEW n \in Nat, NEW d \in Nat, d > 0
    PROVE  /\ Clamp01(n, d) \in Proper /\ Clamp01(n, d).d = d
           /\ Clamp01(0, d).n = 0 /\ Clamp01(d, d).n = d
           /\ \A m \in Nat : n <= m => Clamp01(n, d).n <= Clamp01(m, d).n
BY DEF Clamp01, Fraction, Within, Proper

-----------------------------------------------------------------------------
\* One reading.
LEMMA SampleRange ==
    ASSUME NEW r \in Reading
    PROVE  /\ ScoreSample(r) \in 0 .. Whole
           /\ Perfect(r) \in Reading /\ ScoreSample(Perfect(r)) = Whole /\ Perfect(r).at = r.at
           /\ Whole \in Nat /\ Whole > 0
<1>0. Quality \in Nat /\ Quality > 0
  BY ScoringAssumption
<1>1. /\ r.at \in Nat /\ r.motion \in 0 .. Quality /\ r.inApp \in BOOLEAN
      /\ r.hr \in {NoHeartRate} \cup 0 .. Quality
  BY DEF Reading
<1>2. PICK p \in {0, Quality} : p = IF r.inApp THEN Quality ELSE 0
  OBVIOUS
<1>3. ScoreSample(r) = IF r.hr = NoHeartRate THEN 5 * (35 * r.motion + 45 * p)
                       ELSE 4 * ((35 * r.motion + 45 * p) + 20 * r.hr)
  BY <1>2 DEF ScoreSample, Weight
<1>4. PICK q : q = Perfect(r)
  OBVIOUS
<1>5. /\ q \in Reading /\ q.motion = Quality /\ q.inApp = TRUE /\ q.at = r.at
      /\ q.hr = IF r.hr = NoHeartRate THEN NoHeartRate ELSE Quality
  <2>1. r = [at |-> r.at, motion |-> r.motion, inApp |-> r.inApp, hr |-> r.hr]
    BY DEF Reading
  <2>2. PICK h : h = IF r.hr = NoHeartRate THEN NoHeartRate ELSE Quality
    OBVIOUS
  <2>3. q = [at |-> r.at, motion |-> Quality, inApp |-> TRUE, hr |-> h]
    BY <1>4, <2>1, <2>2 DEF Perfect
  <2>4. h \in {NoHeartRate} \cup 0 .. Quality /\ Quality \in 0 .. Quality
    BY <1>0, <2>2
  <2>5. q \in Reading
    BY <1>1, <2>3, <2>4 DEF Reading
  <2> QED
    BY <2>2, <2>3, <2>5
<1>6. NoHeartRate = -1 /\ Quality # -1
  BY <1>0 DEF NoHeartRate
<1>7. ScoreSample(q) = Whole
  BY <1>0, <1>5, <1>6 DEF ScoreSample, Weight, Whole
<1> QED
  BY <1>0, <1>1, <1>2, <1>3, <1>4, <1>5, <1>6, <1>7 DEF Whole

\* All of them.
Scores(samples) == [i \in DOMAIN samples |-> ScoreSample(samples[i])]
Together(samples) == SumOf(Scores(samples), DOMAIN samples)

LEMMA FoldIsTogether ==
    ASSUME NEW samples \in Seq(Reading)
    PROVE  FoldFunction(LAMBDA r, rest : ScoreSample(r) + rest, 0, samples) = Together(samples)
<1> DEFINE S == DOMAIN samples
           Raw(f) == f = [s \in SUBSET S |->
                            IF s = {} THEN 0
                            ELSE ScoreSample(samples[Anything(s)]) + f[s \ {Anything(s)}]]
<1>1. FoldFunction(LAMBDA r, rest : ScoreSample(r) + rest, 0, samples) = (CHOOSE f : Raw(f))[S]
  BY DEF FoldFunction, FoldFunctionOnSet, MapThenFoldSet, Anything
<1>2. IsFiniteSet(S)
  BY LenProperties, FS_Interval
<1>3. \A s \in SUBSET S : s # {} => Anything(s) \in S
  BY AnyIsIn
<1>4. \E f : Raw(f)
  <2>1. PICK f : IsSum(Scores(samples), S, f)
    BY <1>2, FoldExists
  <2>2. Raw(f)
    BY <1>3, <2>1 DEF IsSum, Scores
  <2> QED
    BY <2>2
<1>5. PICK f : f = (CHOOSE g : Raw(g))
  OBVIOUS
<1>6. Raw(f)
  BY <1>4, <1>5
<1>7. PICK e : e = Scores(samples)
  OBVIOUS
<1>8. \A s \in SUBSET S : s # {} => e[Anything(s)] = ScoreSample(samples[Anything(s)])
  BY <1>3, <1>7 DEF Scores
<1>9. \A s \in SUBSET S : f[s] = IF s = {} THEN 0
                                 ELSE ScoreSample(samples[Anything(s)]) + f[s \ {Anything(s)}]
  BY <1>6
<1>10. \A s \in SUBSET S : f[s] = IF s = {} THEN 0 ELSE e[Anything(s)] + f[s \ {Anything(s)}]
  BY <1>8, <1>9
<1> HIDE DEF Raw
<1>11. SumOf(e, S) = f[S]
  <2>1. AddsUp(e, S, f)
    BY <1>10 DEF AddsUp
  <2> HIDE DEF S
  <2> QED
    BY <1>2, <2>1, SumFound
<1> QED
  BY <1>1, <1>5, <1>7, <1>11 DEF Together

-----------------------------------------------------------------------------
LEMMA SamplesAre ==
    ASSUME NEW x \in Facted
    PROVE  /\ x.samples \in Seq(Reading) /\ IsFiniteSet(DOMAIN x.samples)
           /\ Cardinality(DOMAIN x.samples) = Len(x.samples) /\ Len(x.samples) \in Nat
           /\ x.samples # <<>> => Len(x.samples) > 0
           /\ \A i \in DOMAIN x.samples : x.samples[i] \in Reading
           /\ x.elapsed \in Nat /\ x.planned \in Nat /\ x.away \in Nat
           /\ x.done \in Nat /\ x.total \in Nat
<1> HIDE DEF Reading
<1>1. /\ x.samples \in Seq(Reading) /\ x.elapsed \in Nat /\ x.planned \in Nat /\ x.away \in Nat
      /\ x.done \in Nat /\ x.total \in Nat
  BY DEF Facted
<1>2. PICK s \in Seq(Reading) : s = x.samples
  BY <1>1
<1>3. DOMAIN s = 1 .. Len(s) /\ Len(s) \in Nat /\ \A i \in 1 .. Len(s) : s[i] \in Reading
  BY LenProperties, ElementOfSeq
<1>4. s # <<>> => Len(s) # 0
  BY EmptySeq
<1>5. IsFiniteSet(1 .. Len(s)) /\ Cardinality(1 .. Len(s)) = Len(s)
  <2>1. PICK n \in Nat : n = Len(s)
    BY <1>3
  <2>2. IsFiniteSet(1 .. n) /\ Cardinality(1 .. n) = IF 1 <= n THEN n - 1 + 1 ELSE 0
    BY FS_Interval
  <2> QED
    BY <2>1, <2>2
<1> QED
  BY <1>1, <1>2, <1>3, <1>4, <1>5

\* The sum of the readings lies between none and all of them at their best.
LEMMA TogetherRange ==
    ASSUME NEW x \in Facted
    PROVE  Together(x.samples) \in 0 .. Len(x.samples) * Whole
<1> DEFINE S == DOMAIN x.samples
<1>1. PICK e : e = Scores(x.samples)
  OBVIOUS
<1>2. \A i \in S : e[i] \in 0 .. Whole
  BY <1>1, SamplesAre, SampleRange DEF Scores
<1>3. IsFiniteSet(S) /\ Cardinality(S) = Len(x.samples) /\ Whole \in Nat
  BY SamplesAre, ScoringAssumption DEF Whole
<1>4. PICK best : best = [i \in S |-> Whole]
  OBVIOUS
<1> HIDE DEF S
<1>5. SumOf(e, S) \in Nat
  BY <1>2, <1>3, SumIsNat
<1>6. SumOf(e, S) <= SumOf(best, S)
  BY <1>2, <1>3, <1>4, SumGrows
<1>7. SumOf(best, S) = Cardinality(S) * Whole
  <2>1. PICK w \in Int : w = Whole
    BY <1>3
  <2>2. \A i \in S : best[i] = w
    BY <1>4, <2>1
  <2> QED
    BY <1>3, <2>1, <2>2, SumOfConstant
<1>8. Together(x.samples) = SumOf(e, S)
  BY <1>1 DEF Together, S
<1>9. Len(x.samples) * Whole \in Nat
  BY <1>3, SamplesAre
<1> QED
  BY <1>3, <1>5, <1>6, <1>7, <1>8, <1>9

Present(x) ==
    LET a == AwayFraction(x)
    IN  Fraction(Together(x.samples) * (a.d - a.n), Len(x.samples) * Whole * a.d)
Ticks(x) == IF x.total = 0 THEN Fraction(0, 1) ELSE Clamp01(x.done, x.total)

\* The weighted mean of three fractions.
Mean(p, c, t, weight) ==
    Rounded(100 * (70 * p.n * c.d * t.d + 15 * c.n * p.d * t.d + 15 * t.n * p.d * c.d),
            weight * p.d * c.d * t.d)
Weights(x) == IF x.total = 0 THEN 85 ELSE 100

LEMMA ScoreIsMean ==
    ASSUME NEW x \in Facted, x.samples # <<>>
    PROVE  ScoreSession(x) = Mean(Present(x), CompletionFactor(x), Ticks(x), Weights(x))
<1>1. x.samples \in Seq(Reading)
  BY SamplesAre
<1>2. FoldFunction(LAMBDA r, rest : ScoreSample(r) + rest, 0, x.samples) = Together(x.samples)
  BY <1>1, FoldIsTogether
<1>3. Weight.samples + Weight.completion + (IF x.total = 0 THEN 0 ELSE Weight.tasks) = Weights(x)
  BY DEF Weight, Weights
<1>4. Weight.samples = 70 /\ Weight.completion = 15 /\ Weight.tasks = 15
  BY DEF Weight
<1>5. PICK sum : sum = FoldFunction(LAMBDA r, rest : ScoreSample(r) + rest, 0, x.samples)
  OBVIOUS
<1> QED
  BY <1>2, <1>3, <1>4, <1>5 DEF ScoreSession, Mean, Present, Ticks

\* The three fractions are fractions.
LEMMA PartsAreProper ==
    ASSUME NEW x \in Facted
    PROVE  /\ AwayFraction(x) \in Proper
           /\ CompletionFactor(x) \in Proper
           /\ x.samples # <<>> => Present(x) \in Proper
           /\ x.done <= x.total => Ticks(x) \in Proper
<1>0. /\ x.elapsed \in Nat /\ x.planned \in Nat /\ x.away \in Nat
      /\ x.done \in Nat /\ x.total \in Nat /\ Len(x.samples) \in Nat
  BY SamplesAre
<1>1. Fraction(0, 1) \in Proper
  BY DEF Fraction, Proper
<1>2. PICK a : a = AwayFraction(x)
  OBVIOUS
<1>3. a \in Proper
  BY <1>0, <1>1, <1>2, ClampIsProper DEF AwayFraction
<1>4. CompletionFactor(x) \in Proper
  <2> DEFINE times == {x.samples[i].at : i \in DOMAIN x.samples}
  <2>1. CASE x.elapsed = 0
    BY <1>1, <2>1 DEF CompletionFactor
  <2>2. CASE x.elapsed > 0 /\ x.planned > 0
    BY <1>0, <2>2, ClampIsProper DEF CompletionFactor
  <2>3. CASE x.elapsed > 0 /\ x.planned = 0 /\ Len(x.samples) < 2
    BY <1>1, <2>3 DEF CompletionFactor
  <2>4. CASE x.elapsed > 0 /\ x.planned = 0 /\ ~ (Len(x.samples) < 2)
    <3>1. CompletionFactor(x) = Clamp01(Max(times) - Min(times), x.elapsed)
      BY <2>4 DEF CompletionFactor
    <3>2. times \subseteq Nat
      BY SamplesAre DEF Reading
    <3>3. IsFiniteSet(times)
      <4>1. IsFiniteSet(DOMAIN x.samples)
        BY SamplesAre
      <4>2. PICK D : D = DOMAIN x.samples
        OBVIOUS
      <4>3. [i \in D |-> x.samples[i].at] \in Surjection(D, times)
        BY <4>2 DEF Surjection
      <4> QED
        BY <4>1, <4>2, <4>3, FS_Surjection
    <3>4. times # {}
      <4>1. x.samples \in Seq(Reading)
        BY SamplesAre
      <4>2. 1 \in DOMAIN x.samples
        BY <1>0, <2>4, <4>1, LenProperties
      <4> QED
        BY <4>2
    <3> HIDE DEF times
    <3>5. \E n \in times : \A m \in times : n >= m
      <4>1. PICK n \in times : \A m \in times : m <= n
        BY <3>2, <3>3, <3>4, GreatestNat
      <4> QED
        BY <3>2, <4>1
    <3>6. \E n \in times : \A m \in times : n =< m
      BY <3>2, <3>4, LeastNat
    <3>7. Max(times) \in times /\ Min(times) \in times /\ Min(times) <= Max(times)
      BY <3>5, <3>6 DEF Max, Min
    <3>8. PICK n \in Nat : n = Max(times) - Min(times)
      <4>1. Max(times) \in Nat /\ Min(times) \in Nat
        BY <3>2, <3>7
      <4>2. Max(times) - Min(times) \in Nat
        BY <3>7, <4>1
      <4> QED
        BY <4>2
    <3> QED
      BY <1>0, <2>4, <3>1, <3>8, ClampIsProper
  <2> QED
    BY <1>0, <2>1, <2>2, <2>3, <2>4
<1>5. x.samples # <<>> => Present(x) \in Proper
  <2> SUFFICES ASSUME x.samples # <<>> PROVE Present(x) \in Proper
    OBVIOUS
  <2>1. PICK m \in Nat : m = Len(x.samples) * Whole /\ m > 0
    <3>1. Len(x.samples) > 0 /\ Whole \in Nat /\ Whole > 0
      BY SamplesAre, ScoringAssumption DEF Whole
    <3>2. PICK l \in Nat, w \in Nat : l = Len(x.samples) /\ w = Whole /\ l > 0 /\ w > 0
      BY <1>0, <3>1
    <3>3. l * w \in Nat /\ l * w > 0
      BY <3>2
    <3> QED
      BY <3>2, <3>3
  <2>2. PICK s \in Nat : s = Together(x.samples) /\ s <= m
    BY <2>1, TogetherRange
  <2>3. Present(x) = Fraction(s * (a.d - a.n), m * a.d)
    BY <1>2, <2>1, <2>2 DEF Present
  <2>4. PICK d \in Nat, k \in Nat : d = a.d /\ k = a.d - a.n /\ k <= d /\ d > 0
    BY <1>3 DEF Proper
  <2>5. /\ s * k \in Nat /\ m * d \in Nat /\ m * d > 0 /\ s * k <= m * d
    <3>1. s * k <= m * k /\ s * k \in Nat /\ m * k \in Nat
      BY <2>2, TimesGrows
    <3>2. k * m <= d * m /\ k * m = m * k /\ d * m = m * d /\ d * m \in Nat
      BY <2>4, TimesGrows
    <3>3. m * d > 0
      BY <2>1, <2>4
    <3> QED
      BY <3>1, <3>2, <3>3
  <2> QED
    BY <2>3, <2>4, <2>5 DEF Fraction, Proper
<1>6. x.done <= x.total => Ticks(x) \in Proper
  BY <1>0, <1>1, ClampIsProper DEF Ticks
<1> QED
  BY <1>2, <1>3, <1>4, <1>5, <1>6

\* The mean of fractions is between 0 and 100, 100 for three wholes, and grows with
\* each of them.
LEMMA MeanRange ==
    ASSUME NEW p \in Proper, NEW c \in Proper, NEW t \in Proper,
           NEW weight, weight = 100 \/ (weight = 85 /\ t.n = 0)
    PROVE  /\ Mean(p, c, t, weight) \in 0 .. 100
           /\ p.n = p.d /\ c.n = c.d /\ (weight = 85 \/ t.n = t.d) => Mean(p, c, t, weight) = 100
           /\ \A q \in Proper : q.d = p.d /\ p.n <= q.n =>
                Mean(p, c, t, weight) <= Mean(q, c, t, weight)
           /\ \A u \in Proper : u.d = t.d /\ t.n <= u.n /\ (weight = 100 \/ u.n = 0) =>
                Mean(p, c, t, weight) <= Mean(p, c, u, weight)
<1>1. PICK pn \in Nat, pd \in Nat, cn \in Nat, cd \in Nat, tn \in Nat, td \in Nat :
        /\ pn = p.n /\ pd = p.d /\ cn = c.n /\ cd = c.d /\ tn = t.n /\ td = t.d
        /\ pd > 0 /\ cd > 0 /\ td > 0 /\ pn <= pd /\ cn <= cd /\ tn <= td
  BY DEF Proper
<1>2. PICK m \in Nat : m = cd * td /\ m > 0
  <2>1. cd * td \in Nat /\ cd * td > 0
    BY <1>1
  <2> QED
    BY <2>1
<1>3. PICK k \in Nat : k = pd * td /\ k > 0
  <2>1. pd * td \in Nat /\ pd * td > 0
    BY <1>1
  <2> QED
    BY <2>1
<1>4. PICK l \in Nat : l = pd * cd /\ l > 0
  <2>1. pd * cd \in Nat /\ pd * cd > 0
    BY <1>1
  <2> QED
    BY <2>1
<1>5. PICK D \in Nat : D = pd * m /\ D > 0
  <2>1. pd * m \in Nat /\ pd * m > 0
    BY <1>1, <1>2
  <2> QED
    BY <2>1
<1>6. D = cd * k /\ D = td * l
  <2>1. pd * (cd * td) = cd * (pd * td) /\ pd * (cd * td) = td * (pd * cd)
    BY <1>1
  <2> QED
    BY <1>2, <1>3, <1>4, <1>5, <2>1
<1>7. /\ pn * m \in Nat /\ pn * m <= D /\ cn * k \in Nat /\ cn * k <= D
      /\ tn * l \in Nat /\ tn * l <= D
  BY <1>1, <1>2, <1>3, <1>4, <1>5, <1>6, TimesGrows
<1>8. ASSUME NEW a \in Nat, NEW b \in Nat
      PROVE  /\ 70 * a * cd * td = 70 * (a * m) /\ 15 * cn * pd * td = 15 * (cn * k)
             /\ 15 * b * pd * cd = 15 * (b * l) /\ weight * pd * cd * td = weight * D
  <2>1. 70 * a * cd * td = 70 * (a * (cd * td))
    BY <1>1
  <2>2. 15 * cn * pd * td = 15 * (cn * (pd * td))
    BY <1>1
  <2>3. 15 * b * pd * cd = 15 * (b * (pd * cd))
    BY <1>1
  <2>4. weight * pd * cd * td = weight * (pd * (cd * td))
    BY <1>1
  <2> QED
    BY <1>2, <1>3, <1>4, <1>5, <2>1, <2>2, <2>3, <2>4
<1> DEFINE N(a, b) == 100 * (70 * (a * m) + 15 * (cn * k) + 15 * (b * l))
<1>9. PICK E \in Nat : E = weight * D /\ E > 0
  <2>1. weight * D \in Nat /\ weight * D > 0
    BY <1>5
  <2> QED
    BY <2>1
<1>10. ASSUME NEW q \in Proper, q.d = p.d, NEW u \in Proper, u.d = t.d
       PROVE  Mean(q, c, u, weight) = Rounded(N(q.n, u.n), E)
  <2>1. q.n \in Nat /\ u.n \in Nat
    BY DEF Proper
  <2>2. PICK a \in Nat, b \in Nat : a = q.n /\ b = u.n
    BY <2>1
  <2> QED
    BY <1>1, <1>8, <1>9, <1>10, <2>2 DEF Mean
<1>11. \A a \in Nat, b \in Nat : N(a, b) \in Nat
  <2> TAKE a \in Nat, b \in Nat
  <2>1. a * m \in Nat /\ b * l \in Nat
    OBVIOUS
  <2> QED
    BY <1>7, <2>1
<1>12. N(pn, tn) <= 100 * E
  <2>1. CASE weight = 100
    BY <1>5, <1>7, <1>9, <2>1
  <2>2. CASE weight = 85 /\ tn = 0
    <3>1. tn * l = 0
      BY <1>4, <2>2
    <3> QED
      BY <1>5, <1>7, <1>9, <2>2, <3>1
  <2> QED
    BY <1>1, <2>1, <2>2
<1>13. ASSUME pn = pd, cn = cd, weight = 85 \/ tn = td PROVE N(pn, tn) = 100 * E
  <2>1. pn * m = D /\ cn * k = D
    BY <1>5, <1>6, <1>13
  <2>2. CASE weight = 100
    <3>1. tn * l = D
      BY <1>6, <1>13, <2>2
    <3> QED
      BY <1>9, <2>1, <2>2, <3>1
  <2>3. CASE weight = 85 /\ tn = 0
    BY <1>9, <2>1, <2>3
  <2> QED
    BY <1>1, <2>2, <2>3
<1>14. ASSUME NEW a \in Nat, NEW b \in Nat, a >= pn, b >= tn PROVE N(pn, tn) <= N(a, b)
  <2>1. pn * m <= a * m /\ tn * l <= b * l /\ a * m \in Nat /\ b * l \in Nat
    BY <1>14, TimesGrows
  <2> QED
    BY <1>7, <2>1
<1> HIDE DEF N
<1>15. Mean(p, c, t, weight) = Rounded(N(pn, tn), E)
  BY <1>1, <1>10
<1>16. PICK n \in Nat : n = N(pn, tn)
  BY <1>11
<1>17. /\ Mean(p, c, t, weight) \in 0 .. 100
       /\ pn = pd /\ cn = cd /\ (weight = 85 \/ tn = td) => Mean(p, c, t, weight) = 100
  <2>1. Rounded(n, E) \in Nat /\ (n <= 100 * E => Rounded(n, E) <= 100)
    BY <1>9, RoundedRange
  <2>2. n = 100 * E => Rounded(n, E) = 100
    BY <1>9, RoundedRange
  <2> QED
    BY <1>12, <1>13, <1>15, <1>16, <2>1, <2>2
<1>18. ASSUME NEW q \in Proper, q.d = p.d, p.n <= q.n,
              NEW u \in Proper, u.d = t.d, t.n <= u.n
       PROVE  Mean(p, c, t, weight) <= Mean(q, c, u, weight)
  <2>1. PICK a \in Nat, b \in Nat : a = q.n /\ b = u.n /\ a >= pn /\ b >= tn
    BY <1>1, <1>18 DEF Proper
  <2>2. PICK k2 \in Nat : k2 = N(a, b)
    BY <1>11
  <2>3. n <= k2
    BY <1>14, <1>16, <2>1, <2>2
  <2> QED
    BY <1>9, <1>10, <1>15, <1>16, <1>18, <2>1, <2>2, <2>3, RoundedRange
<1>19. t.n <= t.n /\ p.n <= p.n
  BY DEF Proper
<1> QED
  BY <1>1, <1>17, <1>18, <1>19

-----------------------------------------------------------------------------
\* A session as the code scores it, and the same with one thing improved.
LEMMA WeightsAre ==
    ASSUME NEW x \in Facted
    PROVE  /\ Weights(x) = 100 \/ (Weights(x) = 85 /\ Ticks(x).n = 0)
           /\ x.total = 0 => Weights(x) = 85 /\ Ticks(x) = Fraction(0, 1)
BY DEF Weights, Ticks, Fraction

\* Sessions that differ in their readings' qualities only.
LEMMA ReadingsGrow ==
    ASSUME NEW x \in Facted, NEW y \in Facted, x.samples # <<>>,
           y.elapsed = x.elapsed, y.planned = x.planned, y.away = x.away,
           Len(y.samples) = Len(x.samples), DOMAIN y.samples = DOMAIN x.samples,
           \A i \in DOMAIN x.samples :
              /\ y.samples[i].at = x.samples[i].at
              /\ ScoreSample(x.samples[i]) <= ScoreSample(y.samples[i])
    PROVE  /\ CompletionFactor(y) = CompletionFactor(x)
           /\ Present(y).d = Present(x).d /\ Present(x).n <= Present(y).n
<1>1. {y.samples[i].at : i \in DOMAIN y.samples} = {x.samples[i].at : i \in DOMAIN x.samples}
  OBVIOUS
<1>2. CompletionFactor(y) = CompletionFactor(x)
  <2>1. PICK T : T = {x.samples[i].at : i \in DOMAIN x.samples}
    OBVIOUS
  <2>2. CompletionFactor(x) = CASE x.elapsed = 0 -> Fraction(0, 1)
          [] x.elapsed > 0 /\ x.planned > 0 -> Clamp01(x.elapsed, x.planned)
          [] x.elapsed > 0 /\ x.planned = 0 /\ Len(x.samples) < 2 -> Fraction(0, 1)
          [] OTHER -> Clamp01(Max(T) - Min(T), x.elapsed)
    BY <2>1 DEF CompletionFactor
  <2>3. CompletionFactor(y) = CASE y.elapsed = 0 -> Fraction(0, 1)
          [] y.elapsed > 0 /\ y.planned > 0 -> Clamp01(y.elapsed, y.planned)
          [] y.elapsed > 0 /\ y.planned = 0 /\ Len(y.samples) < 2 -> Fraction(0, 1)
          [] OTHER -> Clamp01(Max(T) - Min(T), y.elapsed)
    BY <1>1, <2>1 DEF CompletionFactor
  <2> QED
    BY <2>2, <2>3
<1>3. PICK a : a = AwayFraction(x) /\ a = AwayFraction(y)
  BY DEF AwayFraction
<1>4. PICK e, f : e = Scores(x.samples) /\ f = Scores(y.samples)
  OBVIOUS
<1>5. PICK S : S = DOMAIN x.samples
  OBVIOUS
<1>6. \A i \in S : e[i] \in Int /\ f[i] \in Int /\ e[i] <= f[i]
  <2> SUFFICES ASSUME NEW i \in S PROVE e[i] \in Int /\ f[i] \in Int /\ e[i] <= f[i]
    OBVIOUS
  <2>1. x.samples[i] \in Reading /\ y.samples[i] \in Reading
    BY <1>5, SamplesAre
  <2>2. e[i] = ScoreSample(x.samples[i]) /\ f[i] = ScoreSample(y.samples[i])
    BY <1>4, <1>5 DEF Scores
  <2>3. ScoreSample(x.samples[i]) \in Nat /\ ScoreSample(y.samples[i]) \in Nat
    BY <2>1, SampleRange
  <2> QED
    BY <1>5, <2>2, <2>3
<1>7. PICK s \in Nat, t \in Nat : s = Together(x.samples) /\ t = Together(y.samples) /\ s <= t
  <2>1. Together(x.samples) \in Nat /\ Together(y.samples) \in Nat
    <3>1. Together(x.samples) \in 0 .. Len(x.samples) * Whole
      BY TogetherRange
    <3>2. Together(y.samples) \in 0 .. Len(y.samples) * Whole
      BY TogetherRange
    <3> QED
      BY <3>1, <3>2
  <2>2. IsFiniteSet(S)
    BY <1>5, SamplesAre
  <2>3. SumOf(e, S) <= SumOf(f, S)
    BY <1>6, <2>2, SumGrows
  <2> QED
    BY <1>4, <1>5, <2>1, <2>3 DEF Together
<1>8. PICK m : m = Len(x.samples) * Whole /\ m = Len(y.samples) * Whole
  OBVIOUS
<1>9. PICK k \in Nat : k = a.d - a.n
  <2>1. a \in Proper
    BY <1>3, PartsAreProper
  <2> QED
    BY <2>1 DEF Proper
<1>10. Present(x) = Fraction(s * k, m * a.d) /\ Present(y) = Fraction(t * k, m * a.d)
  BY <1>3, <1>7, <1>8, <1>9 DEF Present
<1>11. s * k <= t * k
  BY <1>7, TimesGrows
<1> QED
  BY <1>2, <1>10, <1>11 DEF Fraction

\* Raising the three fractions a score is made of raises the score.
LEMMA ScoreGrows ==
    ASSUME NEW x \in Facted, NEW y \in Facted, x.samples # <<>>, y.samples # <<>>,
           x.done <= x.total, y.done <= y.total, y.total = x.total,
           CompletionFactor(y) = CompletionFactor(x),
           Present(y).d = Present(x).d, Present(x).n <= Present(y).n, x.done <= y.done
    PROVE  ScoreSession(x) <= ScoreSession(y)
<1>0. PICK w \in Nat : w = Weights(x)
  BY DEF Weights
<1>1. PICK p \in Proper, q \in Proper, c \in Proper, t \in Proper, u \in Proper :
        /\ p = Present(x) /\ q = Present(y) /\ c = CompletionFactor(x) /\ t = Ticks(x)
        /\ u = Ticks(y) /\ w = Weights(x)
  BY <1>0, PartsAreProper
<1>2. Weights(y) = w
  BY <1>1 DEF Weights
<1>3. w = 100 \/ (w = 85 /\ t.n = 0 /\ u.n = 0)
  <2>1. w = 100 \/ (w = 85 /\ t.n = 0)
    BY <1>1, WeightsAre
  <2>2. w = 100 \/ (w = 85 /\ u.n = 0)
    BY <1>1, <1>2, WeightsAre
  <2> QED
    BY <2>1, <2>2
<1>4. u.d = t.d /\ t.n <= u.n
  <2>1. CASE x.total = 0
    BY <1>1, <2>1 DEF Ticks, Fraction
  <2>2. CASE x.total # 0
    <3>1. PICK D \in Nat, m \in Nat, n \in Nat :
            D = x.total /\ m = x.done /\ n = y.done /\ D > 0 /\ m <= n
      BY <2>2, SamplesAre
    <3>2. t = Clamp01(m, D) /\ u = Clamp01(n, D)
      BY <1>1, <2>2, <3>1 DEF Ticks
    <3> QED
      BY <3>1, <3>2, ClampIsProper
  <2> QED
    BY <2>1, <2>2
<1>5. Mean(p, c, t, w) <= Mean(q, c, t, w) /\ Mean(q, c, t, w) <= Mean(q, c, u, w)
  <2>1. Mean(p, c, t, w) <= Mean(q, c, t, w)
    BY <1>1, <1>3, MeanRange
  <2>2. Mean(q, c, t, w) <= Mean(q, c, u, w)
    BY <1>3, <1>4, MeanRange
  <2> QED
    BY <2>1, <2>2
<1>6. Mean(p, c, t, w) \in Nat /\ Mean(q, c, t, w) \in Nat /\ Mean(q, c, u, w) \in Nat
  <2>1. \A n \in 0 .. 100 : n \in Nat
    BY PointsAreNat
  <2>2. Mean(p, c, t, w) \in 0 .. 100
    BY <1>3, MeanRange
  <2>3. Mean(q, c, t, w) \in 0 .. 100
    BY <1>3, MeanRange
  <2>4. Mean(q, c, u, w) \in 0 .. 100
    BY <1>3, MeanRange
  <2> QED
    BY <2>1, <2>2, <2>3, <2>4, Zenon
<1>7. ScoreSession(x) = Mean(p, c, t, w) /\ ScoreSession(y) = Mean(q, c, u, w)
  BY <1>1, <1>2, ScoreIsMean
<1> QED
  BY <1>5, <1>6, <1>7

\* Ticking a task, and time away not spent.
LEMMA TickedIsFair ==
    ASSUME NEW x \in Facted, x.samples # <<>>, x.done < x.total
    PROVE  ScoreSession(x) <= ScoreSession([x EXCEPT !.done = @ + 1])
<1>1. PICK y : y = [x EXCEPT !.done = @ + 1]
  OBVIOUS
<1>2. y = [samples |-> x.samples, elapsed |-> x.elapsed, planned |-> x.planned, away |-> x.away,
           done |-> x.done + 1, total |-> x.total]
  <2>1. x = [samples |-> x.samples, elapsed |-> x.elapsed, planned |-> x.planned,
             away |-> x.away, done |-> x.done, total |-> x.total]
    BY DEF Facted
  <2> QED
    BY <1>1, <2>1
<1>3. x.done \in Nat /\ x.total \in Nat
  BY SamplesAre
<1>4. y \in Facted
  BY <1>2, <1>3 DEF Facted
<1>5. CompletionFactor(y) = CompletionFactor(x) /\ Present(y) = Present(x)
  BY <1>2 DEF CompletionFactor, Present, AwayFraction
<1>6. Present(x).n <= Present(y).n
  <2>1. Present(x) \in Proper
    BY PartsAreProper
  <2> QED
    BY <1>5, <2>1 DEF Proper
<1>7. x.done <= x.total /\ y.done <= y.total /\ x.done <= y.done
  BY <1>2, <1>3
<1> QED
  BY <1>1, <1>2, <1>4, <1>5, <1>6, <1>7, ScoreGrows

LEMMA StayedIsFair ==
    ASSUME NEW x \in Facted, x.samples # <<>>, x.done <= x.total
    PROVE  ScoreSession(x) <= ScoreSession([x EXCEPT !.away = 0])
<1>1. PICK y : y = [x EXCEPT !.away = 0]
  OBVIOUS
<1>2. y = [samples |-> x.samples, elapsed |-> x.elapsed, planned |-> x.planned, away |-> 0,
           done |-> x.done, total |-> x.total]
  <2>1. x = [samples |-> x.samples, elapsed |-> x.elapsed, planned |-> x.planned,
             away |-> x.away, done |-> x.done, total |-> x.total]
    BY DEF Facted
  <2> QED
    BY <1>1, <2>1
<1>3. x.done \in Nat /\ x.total \in Nat /\ x.elapsed \in Nat /\ x.away \in Nat
  BY SamplesAre
<1>4. y \in Facted
  BY <1>2 DEF Facted
<1>5. CompletionFactor(y) = CompletionFactor(x)
  BY <1>2 DEF CompletionFactor
<1>6. PICK a \in Proper, b \in Proper : a = AwayFraction(x) /\ b = AwayFraction(y)
  BY <1>4, PartsAreProper
<1>7. a.d = b.d /\ a.d - a.n <= b.d - b.n
  <2>1. CASE x.elapsed = 0
    BY <1>2, <1>6, <2>1 DEF AwayFraction, Fraction
  <2>2. CASE x.elapsed # 0
    <3>1. PICK e \in Nat, m \in Nat : e = x.elapsed /\ m = x.away /\ e > 0
      BY <1>3, <2>2
    <3>2. a = Clamp01(m, e) /\ b = Clamp01(0, e)
      BY <1>2, <1>6, <2>2, <3>1 DEF AwayFraction
    <3>3. a.d = e /\ b.d = e /\ b.n = 0
      BY <3>1, <3>2, ClampIsProper
    <3> QED
      BY <1>6, <3>3 DEF Proper
  <2> QED
    BY <2>1, <2>2
<1>8. PICK s \in Nat : s = Together(x.samples)
  <2>1. Together(x.samples) \in 0 .. Len(x.samples) * Whole
    BY TogetherRange
  <2> QED
    BY <2>1
<1>9. PICK m : m = Len(x.samples) * Whole
  OBVIOUS
<1>10. PICK i \in Nat, j \in Nat : i = a.d - a.n /\ j = b.d - b.n /\ i <= j
  BY <1>7 DEF Proper
<1>11. Present(x) = Fraction(s * i, m * a.d) /\ Present(y) = Fraction(s * j, m * a.d)
  BY <1>2, <1>6, <1>7, <1>8, <1>9, <1>10 DEF Present
<1>12. s * i <= s * j
  <2>1. i * s <= j * s /\ i * s = s * i /\ j * s = s * j
    BY <1>10, TimesGrows
  <2> QED
    BY <2>1
<1>13. Present(y).d = Present(x).d /\ Present(x).n <= Present(y).n
  BY <1>11, <1>12 DEF Fraction
<1>14. x.done <= y.done
  BY <1>2, <1>3
<1> QED
  BY <1>1, <1>2, <1>4, <1>5, <1>13, <1>14, ScoreGrows

\* A reading as good as it can be, and a session of such readings.
LEMMA BetterIsFair ==
    ASSUME NEW x \in Facted, x.samples # <<>>, x.done <= x.total
    PROVE  ScoreSession(x) <= ScoreSession([x EXCEPT !.samples[1] = Perfect(@)])
<1>1. PICK y : y = [x EXCEPT !.samples[1] = Perfect(@)]
  OBVIOUS
<1>2. PICK r \in Seq(Reading) : r = x.samples /\ r # <<>>
  BY SamplesAre
<1>3. 1 \in 1 .. Len(r)
  <2>1. Len(r) \in Nat \ {0}
    BY <1>2, EmptySeq
  <2> QED
    BY <2>1
<1>4. PICK one : one = r[1]
  OBVIOUS
<1>5. PICK better : better = Perfect(one)
  OBVIOUS
<1>6. /\ one \in Reading /\ better \in Reading /\ better.at = one.at
      /\ ScoreSample(one) <= ScoreSample(better)
  <2>1. one \in Reading
    BY <1>3, <1>4, ElementOfSeq
  <2>2. better \in Reading /\ ScoreSample(better) = Whole /\ better.at = one.at
    BY <1>5, <2>1, SampleRange
  <2>3. ScoreSample(one) \in 0 .. Whole /\ Whole \in Nat
    BY <2>1, SampleRange
  <2> QED
    BY <2>1, <2>2, <2>3
<1>7. PICK s : s = [r EXCEPT ![1] = better]
  OBVIOUS
<1> HIDE DEF Reading
<1>8. /\ s \in Seq(Reading) /\ Len(s) = Len(r)
      /\ \A j \in 1 .. Len(r) : s[j] = IF j = 1 THEN better ELSE r[j]
  BY <1>3, <1>6, <1>7, ExceptSeq
<1>9. y = [samples |-> s, elapsed |-> x.elapsed, planned |-> x.planned, away |-> x.away,
           done |-> x.done, total |-> x.total]
  <2>1. x = [samples |-> r, elapsed |-> x.elapsed, planned |-> x.planned,
             away |-> x.away, done |-> x.done, total |-> x.total]
    BY <1>2 DEF Facted
  <2> QED
    BY <1>1, <1>2, <1>4, <1>5, <1>7, <2>1
<1>10. /\ x.done \in Nat /\ x.total \in Nat /\ x.elapsed \in Nat /\ x.planned \in Nat
       /\ x.away \in Nat
  BY SamplesAre
<1>11. y \in Facted
  BY <1>8, <1>9, <1>10 DEF Facted
<1>12. DOMAIN r = 1 .. Len(r) /\ DOMAIN s = 1 .. Len(r)
  BY <1>8, LenProperties
<1>13. \A i \in DOMAIN r : s[i].at = r[i].at /\ ScoreSample(r[i]) <= ScoreSample(s[i])
  <2> SUFFICES ASSUME NEW i \in 1 .. Len(r)
               PROVE  s[i].at = r[i].at /\ ScoreSample(r[i]) <= ScoreSample(s[i])
    BY <1>12
  <2>1. CASE i = 1
    BY <1>4, <1>6, <1>8, <2>1
  <2>2. CASE i # 1
    <3>1. s[i] = r[i]
      BY <1>8, <2>2
    <3>2. ScoreSample(r[i]) \in 0 .. Whole /\ Whole \in Nat
      BY ElementOfSeq, SampleRange
    <3> QED
      BY <3>1, <3>2
  <2> QED
    BY <2>1, <2>2
<1>14. y.samples = s /\ y.samples # <<>>
  <2>1. Len(s) # 0
    BY <1>3, <1>8
  <2>2. Len(<<>>) = 0
    BY EmptySeq
  <2> QED
    BY <1>9, <2>1, <2>2
<1>15. /\ CompletionFactor(y) = CompletionFactor(x)
       /\ Present(y).d = Present(x).d /\ Present(x).n <= Present(y).n
  BY <1>2, <1>8, <1>9, <1>11, <1>12, <1>13, ReadingsGrow
<1>16. x.done <= y.done
  BY <1>9, <1>10
<1> QED
  BY <1>1, <1>9, <1>11, <1>14, <1>15, <1>16, ScoreGrows

LEMMA FaultlessIsWhole ==
    ASSUME NEW x \in Facted, x.samples # <<>>, x.done <= x.total
    PROVE  ScoreSession(Improved(x)) = 100
<1>1. PICK y : y = Improved(x)
  OBVIOUS
<1>2. PICK r \in Seq(Reading) : r = x.samples /\ r # <<>>
  BY SamplesAre
<1>3. DOMAIN r = 1 .. Len(r) /\ Len(r) \in Nat \ {0}
  BY <1>2, LenProperties, EmptySeq
<1>4. PICK s : s = [i \in DOMAIN r |-> Perfect(r[i])]
  OBVIOUS
<1>5. \A i \in 1 .. Len(r) : Perfect(r[i]) \in Reading /\ ScoreSample(Perfect(r[i])) = Whole
  <2> SUFFICES ASSUME NEW i \in 1 .. Len(r)
               PROVE  Perfect(r[i]) \in Reading /\ ScoreSample(Perfect(r[i])) = Whole
    OBVIOUS
  <2> HIDE DEF Reading
  <2>1. r[i] \in Reading
    BY ElementOfSeq
  <2> QED
    BY <2>1, SampleRange
<1>6. s \in [1 .. Len(r) -> Reading] /\ \A i \in 1 .. Len(r) : ScoreSample(s[i]) = Whole
  BY <1>3, <1>4, <1>5
<1>7. s \in Seq(Reading)
  BY <1>3, <1>6
<1> HIDE DEF Reading
<1>8. DOMAIN s = 1 .. Len(r)
  BY <1>6
<1>9. Len(s) = Len(r)
  <2>1. DOMAIN s = 1 .. Len(s) /\ Len(s) \in Nat
    BY <1>7, LenProperties
  <2> QED
    BY <1>3, <1>8, <2>1
<1>10. y = [samples |-> s, elapsed |-> 2, planned |-> 1, away |-> 0,
            done |-> x.total, total |-> x.total]
  <2>1. x = [samples |-> r, elapsed |-> x.elapsed, planned |-> x.planned,
             away |-> x.away, done |-> x.done, total |-> x.total]
    BY <1>2 DEF Facted
  <2>2. PICK e, p, a, d, t : e = x.elapsed /\ p = x.planned /\ a = x.away /\ d = x.done /\ t = x.total
    OBVIOUS
  <2>3. Improved(x) = [x EXCEPT !.samples = s, !.away = 0, !.elapsed = 2, !.planned = 1,
                                !.done = x.total]
    BY <1>2, <1>4 DEF Improved
  <2> QED
    BY <1>1, <2>1, <2>2, <2>3
<1>11. x.total \in Nat
  BY SamplesAre
<1>12. y \in Facted
  BY <1>7, <1>10, <1>11 DEF Facted
<1>13. y.samples # <<>>
  <2>1. Len(<<>>) = 0
    BY EmptySeq
  <2> QED
    BY <1>3, <1>9, <1>10, <2>1
<1>14. CompletionFactor(y).n = CompletionFactor(y).d
  <2>1. CompletionFactor(y) = Clamp01(2, 1)
    BY <1>10 DEF CompletionFactor
  <2>2. Clamp01(2, 1).n = 1 /\ Clamp01(2, 1).d = 1
    BY DEF Clamp01, Fraction, Within
  <2> QED
    BY <2>1, <2>2
<1>15. Weights(y) = 85 \/ Ticks(y).n = Ticks(y).d
  <2>1. CASE x.total = 0
    BY <1>10, <2>1 DEF Weights
  <2>2. CASE x.total # 0
    <3>1. PICK t \in Nat : t = x.total /\ t > 0
      BY <1>11, <2>2
    <3>2. Ticks(y) = Clamp01(t, t)
      BY <1>10, <2>2, <3>1 DEF Ticks
    <3> QED
      BY <3>1, <3>2, ClampIsProper
  <2> QED
    BY <2>1, <2>2
<1>16. Present(y).n = Present(y).d
  <2>1. PICK a \in Proper : a = AwayFraction(y)
    BY <1>12, PartsAreProper
  <2>2. a.n = 0
    <3>1. a = Clamp01(0, 2)
      BY <1>10, <2>1 DEF AwayFraction
    <3>2. Clamp01(0, 2).n = 0
      BY DEF Clamp01, Fraction, Within
    <3> QED
      BY <3>1, <3>2
  <2>3. PICK w \in Int : w = Whole
    BY <1>3, <1>7, SampleRange, ScoringAssumption DEF Whole
  <2>4. PICK e : e = Scores(s)
    OBVIOUS
  <2>5. PICK S : S = DOMAIN s
    OBVIOUS
  <2>6. IsFiniteSet(S) /\ Cardinality(S) = Len(s)
    BY <1>10, <1>12, <2>5, SamplesAre
  <2>7. \A i \in S : e[i] = w
    BY <1>6, <1>8, <2>3, <2>4, <2>5 DEF Scores
  <2>8. SumOf(e, S) = Cardinality(S) * w
    BY <2>6, <2>7, SumOfConstant
  <2>9. PICK sum : sum = Len(s) * Whole
    OBVIOUS
  <2>10. Together(s) = sum
    BY <2>3, <2>4, <2>5, <2>6, <2>8, <2>9 DEF Together
  <2>11. a.d - a.n = a.d
    BY <2>2 DEF Proper
  <2>12. Present(y) = Fraction(sum * a.d, sum * a.d)
    BY <1>10, <2>1, <2>9, <2>10, <2>11 DEF Present
  <2> QED
    BY <2>12 DEF Fraction
<1>a. PICK w \in Nat : w = Weights(y)
  BY DEF Weights
<1>17. PICK p \in Proper, c \in Proper, t \in Proper :
         /\ p = Present(y) /\ c = CompletionFactor(y) /\ t = Ticks(y) /\ w = Weights(y)
  <2>1. y.done <= y.total
    BY <1>10, <1>11
  <2> QED
    BY <1>12, <1>13, <1>a, <2>1, PartsAreProper
<1>18. w = 100 \/ (w = 85 /\ t.n = 0)
  BY <1>12, <1>17, WeightsAre
<1>19. Mean(p, c, t, w) = 100
  BY <1>14, <1>15, <1>16, <1>17, <1>18, MeanRange
<1>20. ScoreSession(y) = Mean(p, c, t, w)
  BY <1>12, <1>13, <1>17, ScoreIsMean
<1> QED
  BY <1>1, <1>19, <1>20

LEMMA ScoreRange ==
    ASSUME NEW x \in Facted, x.done <= x.total
    PROVE  /\ x.samples = <<>> => ScoreSession(x) = NoScore
           /\ x.samples # <<>> => ScoreSession(x) \in 0 .. 100
<1>1. x.samples = <<>> => ScoreSession(x) = NoScore
  BY DEF ScoreSession
<1>2. ASSUME x.samples # <<>> PROVE ScoreSession(x) \in 0 .. 100
  <2>0. PICK w \in Nat : w = Weights(x)
    BY DEF Weights
  <2>1. PICK p \in Proper, c \in Proper, t \in Proper :
          /\ p = Present(x) /\ c = CompletionFactor(x) /\ t = Ticks(x) /\ w = Weights(x)
    BY <1>2, <2>0, PartsAreProper
  <2>2. w = 100 \/ (w = 85 /\ t.n = 0)
    BY <2>1, WeightsAre
  <2>3. Mean(p, c, t, w) \in 0 .. 100
    BY <2>2, MeanRange
  <2> QED
    BY <1>2, <2>1, <2>3, ScoreIsMean
<1> QED
  BY <1>1, <1>2

\* The sessions the runs compare are among those the lemmas are about.
LEMMA ScoredAreFacted == Scored \subseteq Facted
<1>1. SampleReading \subseteq Reading
  BY ScoringAssumption DEF SampleReading, Reading, NoHeartRate
<1> SUFFICES ASSUME NEW x \in Scored PROVE x \in Facted
  OBVIOUS
<1>2. PICK s : s = x.samples
  OBVIOUS
<1>3. /\ x = [samples |-> s, elapsed |-> x.elapsed, planned |-> x.planned, away |-> x.away,
              done |-> x.done, total |-> x.total]
      /\ s = <<>> \/ (\E r \in SampleReading : s = <<r>>)
           \/ (\E q \in SampleReading, r \in SampleReading : s = <<q, r>>)
      /\ x.elapsed \in Nat /\ x.planned \in Nat /\ x.away \in Nat /\ x.done \in Nat
      /\ x.total \in Nat
  <2> HIDE DEF SampleReading
  <2> QED
    BY <1>2 DEF Scored
<1>4. s \in Seq(Reading)
  <2> HIDE DEF Reading, SampleReading
  <2>1. CASE s = <<>>
    BY <2>1
  <2>2. CASE \E r \in SampleReading : s = <<r>>
    BY <1>1, <2>2
  <2>3. CASE \E q \in SampleReading, r \in SampleReading : s = <<q, r>>
    BY <1>1, <2>3
  <2> QED
    BY <1>3, <2>1, <2>2, <2>3
<1> QED
  <2> HIDE DEF Reading
  <2> QED
    BY <1>3, <1>4 DEF Facted

\* What ScoringIsFair says of one session.
FairFor(x) ==
    IF x.samples = <<>> THEN ScoreSession(x) = NoScore
    ELSE /\ ScoreSession(x) \in 0 .. 100
         /\ x.done < x.total => ScoreSession(x) <= ScoreSession([x EXCEPT !.done = @ + 1])
         /\ x.away > 0 => ScoreSession(x) <= ScoreSession([x EXCEPT !.away = 0])
         /\ ScoreSession(x) <= ScoreSession([x EXCEPT !.samples[1] = Perfect(@)])
         /\ ScoreSession(Improved(x)) = 100

\* A score is of 0 .. 100, never falls for a ticked task, a better reading or less
\* time away, and is 100 for a session without a fault (scoreSession): for any number
\* of readings, of any quality, and any lengths and checklist.
THEOREM ScoringFair == \A x \in Facted : x.done <= x.total => FairFor(x)
<1> SUFFICES ASSUME NEW x \in Facted, x.done <= x.total PROVE FairFor(x)
  OBVIOUS
<1> QED
  BY ScoreRange, TickedIsFair, StayedIsFair, BetterIsFair, FaultlessIsWhole DEF FairFor

\* The sessions the run compares are some of those.
LEMMA ScoredAreFair == ScoringIsFair
<1>1. ASSUME NEW x \in Scored, x.done <= x.total PROVE FairFor(x)
  <2>1. x \in Facted
    BY ScoredAreFacted
  <2> QED
    BY <1>1, <2>1, ScoringFair
<1> QED
  BY <1>1 DEF ScoringIsFair, FairFor

-----------------------------------------------------------------------------
\* The fraction f is a / b.
Is(f, a, b) == f \in [n : Int, d : Nat \ {0}] /\ a \in Int /\ b \in Nat \ {0} /\ f.n * b = a * f.d

LEMMA Cancels ==
    ASSUME NEW x \in Int, NEW y \in Int, NEW k \in Nat, k > 0, x * k = y * k
    PROVE  x = y
<1>1. PICK z \in Int : z = x - y
  OBVIOUS
<1>2. z * k = 0
  <2>1. (x - y) * k = x * k - y * k
    OBVIOUS
  <2> QED
    BY <1>1, <2>1
<1>3. CASE z >= 1
  <2>1. PICK j \in Nat : z = j + 1
    BY <1>1, <1>3
  <2>2. (j + 1) * k = j * k + k /\ j * k >= 0
    OBVIOUS
  <2> QED
    BY <1>2, <2>1, <2>2
<1>4. CASE z <= -1
  <2>1. PICK j \in Nat : z = - (j + 1)
    <3>1. - z - 1 \in Nat /\ z = - ((- z - 1) + 1)
      BY <1>1, <1>4
    <3> QED
      BY <3>1
  <2>2. (- (j + 1)) * k = - (j * k + k) /\ j * k >= 0
    OBVIOUS
  <2> QED
    BY <1>2, <2>1, <2>2
<1>5. CASE z = 0
  BY <1>1, <1>5
<1> QED
  BY <1>1, <1>3, <1>4, <1>5

LEMMA IsWhole ==
    ASSUME NEW v \in Int, NEW k \in Nat \ {0}
    PROVE  Is(Fraction(v, k), v, k)
BY DEF Is, Fraction

LEMMA IsPlus ==
    ASSUME NEW f, NEW g, NEW a, NEW c, NEW b, Is(f, a, b), Is(g, c, b)
    PROVE  Is(Plus(f, g), a + c, b)
<1>1. PICK fn \in Int, fd \in Nat \ {0}, gn \in Int, gd \in Nat \ {0} :
        fn = f.n /\ fd = f.d /\ gn = g.n /\ gd = g.d
  BY DEF Is
<1>2. a \in Int /\ b \in Nat \ {0} /\ c \in Int /\ fn * b = a * fd /\ gn * b = c * gd
  BY <1>1 DEF Is
<1>3. Plus(f, g) = [n |-> fn * gd + gn * fd, d |-> fd * gd]
  BY <1>1 DEF Plus, Fraction
<1>4. fd * gd \in Nat /\ fd * gd > 0 /\ fn * gd \in Int /\ gn * fd \in Int
  BY <1>1
<1>5. (fn * gd + gn * fd) * b = (a + c) * (fd * gd)
  <2>1. (fn * gd + gn * fd) * b = (fn * b) * gd + (gn * b) * fd
    BY <1>2
  <2>2. (a * fd) * gd + (c * gd) * fd = (a + c) * (fd * gd)
    BY <1>2
  <2> QED
    BY <1>2, <2>1, <2>2
<1> QED
  BY <1>2, <1>3, <1>4, <1>5 DEF Is

LEMMA IsMinus ==
    ASSUME NEW f, NEW g, NEW a, NEW c, NEW b, Is(f, a, b), Is(g, c, b)
    PROVE  Is(Minus(f, g), a - c, b)
<1>1. PICK h : h = Fraction(- g.n, g.d)
  OBVIOUS
<1>2. Is(h, - c, b)
  <2>1. PICK gn \in Int, gd \in Nat \ {0} : gn = g.n /\ gd = g.d
    BY DEF Is
  <2>2. (- gn) * b = (- c) * gd
    <3>1. (- gn) * b = - (gn * b) /\ (- c) * gd = - (c * gd)
      BY DEF Is
    <3> QED
      BY <2>1, <3>1 DEF Is
  <2> QED
    BY <1>1, <2>1, <2>2 DEF Is, Fraction
<1>3. Is(Plus(f, h), a + (- c), b)
  BY <1>2, IsPlus
<1>4. a + (- c) = a - c
  BY DEF Is
<1> QED
  BY <1>1, <1>3, <1>4 DEF Minus

LEMMA IsTimes ==
    ASSUME NEW f, NEW g, NEW a, NEW b, NEW c, NEW e, Is(f, a, b), Is(g, c, e)
    PROVE  Is(Times(f, g), a * c, b * e)
<1>1. PICK fn \in Int, fd \in Nat \ {0}, gn \in Int, gd \in Nat \ {0} :
        fn = f.n /\ fd = f.d /\ gn = g.n /\ gd = g.d
  BY DEF Is
<1>2. /\ a \in Int /\ b \in Nat \ {0} /\ c \in Int /\ e \in Nat \ {0}
      /\ fn * b = a * fd /\ gn * e = c * gd
  BY <1>1 DEF Is
<1>3. Times(f, g) = [n |-> fn * gn, d |-> fd * gd]
  BY <1>1 DEF Times, Fraction
<1>4. fd * gd \in Nat /\ fd * gd > 0 /\ b * e \in Nat /\ b * e > 0
  BY <1>1, <1>2
<1>5. (fn * gn) * (b * e) = (a * c) * (fd * gd)
  <2>1. (fn * gn) * (b * e) = (fn * b) * (gn * e)
    BY <1>2
  <2>2. (a * fd) * (c * gd) = (a * c) * (fd * gd)
    BY <1>2
  <2> QED
    BY <1>2, <2>1, <2>2
<1> QED
  BY <1>2, <1>3, <1>4, <1>5 DEF Is

LEMMA IsGrown ==
    ASSUME NEW f, NEW a, NEW b, NEW k \in Nat, k > 0, Is(f, a, b)
    PROVE  Is(f, a * k, b * k)
<1>1. PICK n \in Int, d \in Nat \ {0} : n = f.n /\ d = f.d
  BY DEF Is
<1>2. a \in Int /\ b \in Nat \ {0} /\ n * b = a * d
  BY <1>1 DEF Is
<1>3. n * (b * k) = (n * b) * k /\ (a * k) * d = (a * d) * k
  BY <1>2
<1>4. b * k \in Nat /\ b * k > 0 /\ a * k \in Int
  BY <1>2
<1> QED
  BY <1>1, <1>2, <1>3, <1>4 DEF Is

LEMMA IsReduced ==
    ASSUME NEW f, NEW a \in Int, NEW b \in Nat, b > 0, NEW k \in Nat, k > 0, Is(f, a * k, b * k)
    PROVE  Is(f, a, b)
<1>1. PICK n \in Int, d \in Nat \ {0} : n = f.n /\ d = f.d
  BY DEF Is
<1>2. n * (b * k) = (a * k) * d
  BY <1>1 DEF Is
<1>3. PICK x \in Int, y \in Int : x = n * b /\ y = a * d
  <2>1. n * b \in Int /\ a * d \in Int
    BY <1>1
  <2> QED
    BY <2>1
<1>4. x * k = y * k
  <2>1. n * (b * k) = (n * b) * k /\ (a * k) * d = (a * d) * k
    BY <1>1
  <2> QED
    BY <1>2, <1>3, <2>1
<1>5. x = y
  BY <1>4, Cancels
<1> QED
  BY <1>1, <1>3, <1>5 DEF Is

-----------------------------------------------------------------------------
\* One reading more: the body of the fold of UpdateBaseline.
Reckoned(b, v) ==
    LET count == b.count + 1
        delta == Minus(Fraction(v, 1), b.mean)
        mean == Plus(b.mean, Times(delta, Fraction(1, count)))
    IN  [count |-> count, mean |-> mean,
         squares |-> Plus(b.squares, Times(delta, Minus(Fraction(v, 1), mean)))]

\* Of N readings with the sum S and the sum of squares Q: the mean is S / N, and the
\* squares of the distances from it come to Q - S^2 / N.
Kept(b, N, S, Q) ==
    /\ b.count = N /\ N \in Nat /\ S \in Int /\ Q \in Int
    /\ N = 0 => S = 0 /\ Q = 0
    /\ Is(b.mean, S, IF N = 0 THEN 1 ELSE N)
    /\ Is(b.squares, N * Q - S * S, IF N = 0 THEN 1 ELSE N)

LEMMA ReckonedKeeps ==
    ASSUME NEW b, NEW N, NEW S, NEW Q, Kept(b, N, S, Q), NEW v \in Int
    PROVE  Kept(Reckoned(b, v), N + 1, S + v, Q + v * v)
<1>1. N \in Nat /\ S \in Int /\ Q \in Int /\ b.count = N
  BY DEF Kept
<1>2. PICK c \in Nat : c = N + 1 /\ c > 0
  BY <1>1
<1>3. PICK delta : delta = Minus(Fraction(v, 1), b.mean)
  OBVIOUS
<1>4. PICK share : share = Times(delta, Fraction(1, c))
  OBVIOUS
<1>5. PICK mean : mean = Plus(b.mean, share)
  OBVIOUS
<1>6. PICK rest : rest = Minus(Fraction(v, 1), mean)
  OBVIOUS
<1>7. PICK square : square = Times(delta, rest)
  OBVIOUS
<1>8. PICK squares : squares = Plus(b.squares, square)
  OBVIOUS
<1>9. Reckoned(b, v) = [count |-> c, mean |-> mean, squares |-> squares]
  BY <1>1, <1>2, <1>3, <1>4, <1>5, <1>6, <1>7, <1>8 DEF Reckoned
<1>10. Is(Fraction(v, 1), v, 1) /\ Is(Fraction(1, c), 1, c)
  BY <1>2, IsWhole
<1>11. PICK V, C : V = Fraction(v, 1) /\ C = Fraction(1, c)
  OBVIOUS
<1>12. Is(V, v, 1) /\ Is(C, 1, c)
  BY <1>10, <1>11
<1>13. PICK m, q : m = b.mean /\ q = b.squares
  OBVIOUS
<1>14. PICK S2 \in Int, Q2 \in Int, T \in Int, U \in Int :
         /\ S2 = S + v /\ Q2 = Q + v * v /\ T = N * Q - S * S /\ U = c * Q2 - S2 * S2
  <2>1. v * v \in Int /\ N * Q \in Int /\ S * S \in Int
    BY <1>1
  <2>2. S + v \in Int /\ Q + v * v \in Int /\ N * Q - S * S \in Int
    BY <1>1, <2>1
  <2>3. PICK S2 \in Int, Q2 \in Int : S2 = S + v /\ Q2 = Q + v * v
    BY <2>2
  <2>4. c * Q2 - S2 * S2 \in Int
    OBVIOUS
  <2> QED
    BY <2>2, <2>3, <2>4
<1>15. CASE N = 0
  <2>1. S = 0 /\ Q = 0 /\ T = 0 /\ U = 0 /\ S2 = v /\ c = 1
    <3>1. S = 0 /\ Q = 0 /\ c = 1
      BY <1>2, <1>15 DEF Kept
    <3> QED
      BY <1>14, <1>15, <3>1
  <2>2. Is(m, 0, 1) /\ Is(q, 0, 1)
    <3>1. N * Q - S * S = 0
      BY <1>14, <2>1
    <3> QED
      BY <1>13, <1>15, <2>1, <3>1 DEF Kept
  <2>3. Is(delta, v, 1)
    <3>1. Is(Minus(V, m), v - 0, 1)
      BY <1>12, <2>2, IsMinus
    <3>2. v - 0 = v
      OBVIOUS
    <3> QED
      BY <1>3, <1>11, <1>13, <3>1, <3>2
  <2>4. Is(share, v, 1)
    <3>1. Is(Times(delta, C), v * 1, 1 * c)
      BY <1>12, <2>3, IsTimes
    <3>2. v * 1 = v /\ 1 * c = 1
      BY <2>1
    <3> QED
      BY <1>4, <1>11, <3>1, <3>2
  <2>5. Is(mean, v, 1)
    <3>1. Is(Plus(m, share), 0 + v, 1)
      BY <2>2, <2>4, IsPlus
    <3>2. 0 + v = v
      OBVIOUS
    <3> QED
      BY <1>5, <1>13, <3>1, <3>2
  <2>6. Is(rest, 0, 1)
    <3>1. Is(Minus(V, mean), v - v, 1)
      BY <1>12, <2>5, IsMinus
    <3>2. v - v = 0
      OBVIOUS
    <3> QED
      BY <1>6, <1>11, <3>1, <3>2
  <2>7. Is(square, 0, 1)
    <3>1. Is(Times(delta, rest), v * 0, 1 * 1)
      BY <2>3, <2>6, IsTimes
    <3>2. v * 0 = 0 /\ 1 * 1 = 1
      OBVIOUS
    <3> QED
      BY <1>7, <3>1, <3>2
  <2>8. Is(squares, 0, 1)
    <3>1. Is(Plus(q, square), 0 + 0, 1)
      BY <2>2, <2>7, IsPlus
    <3> QED
      BY <1>8, <1>13, <3>1
  <2>9. Kept([count |-> c, mean |-> mean, squares |-> squares], c, S2, Q2)
    BY <1>14, <2>1, <2>5, <2>8 DEF Kept
  <2> QED
    BY <1>2, <1>9, <1>14, <2>9
<1>16. CASE N # 0
  <2>0. N > 0 /\ Is(m, S, N) /\ Is(q, T, N)
    BY <1>1, <1>13, <1>14, <1>16 DEF Kept
  <2>1. PICK D \in Int, Nc \in Nat : D = v * N - S /\ Nc = N * c /\ Nc > 0
    <3>1. v * N \in Int /\ N * c \in Nat /\ N * c > 0
      BY <1>1, <1>2, <2>0
    <3> QED
      BY <1>1, <3>1
  <2>2. Is(delta, D, N)
    <3>1. Is(V, v * N, 1 * N)
      BY <1>1, <1>12, <2>0, IsGrown
    <3>2. 1 * N = N
      BY <1>1
    <3>3. PICK vN : vN = v * N
      OBVIOUS
    <3>4. Is(V, vN, N)
      BY <3>1, <3>2, <3>3
    <3>5. Is(Minus(V, m), vN - S, N)
      BY <2>0, <3>4, IsMinus
    <3> QED
      BY <1>3, <1>11, <1>13, <2>1, <3>3, <3>5
  <2>3. Is(share, D, Nc)
    <3>1. Is(Times(delta, C), D * 1, N * c)
      BY <1>12, <2>2, IsTimes
    <3>2. D * 1 = D
      OBVIOUS
    <3> QED
      BY <1>4, <1>11, <2>1, <3>1, <3>2
  <2>4. Is(mean, S2, c)
    <3>1. Is(m, S * c, N * c)
      BY <1>2, <2>0, IsGrown
    <3>2. PICK Sc \in Int : Sc = S * c
      BY <1>1
    <3>3. Is(m, Sc, Nc)
      BY <2>1, <3>1, <3>2
    <3>4. Is(Plus(m, share), Sc + D, Nc)
      BY <2>3, <3>3, IsPlus
    <3>5. Sc + D = S2 * N /\ Nc = c * N
      <4>1. S * (N + 1) + (v * N - S) = (S + v) * N
        BY <1>1
      <4>2. N * c = c * N
        BY <1>1
      <4> QED
        BY <1>2, <1>14, <2>1, <3>2, <4>1, <4>2
    <3>6. Is(mean, S2 * N, c * N)
      BY <1>5, <1>13, <3>4, <3>5
    <3> QED
      BY <1>1, <1>2, <2>0, <3>6, IsReduced
  <2>5. Is(rest, D, c)
    <3>1. Is(V, v * c, 1 * c)
      BY <1>2, <1>12, IsGrown
    <3>2. PICK vc \in Int : vc = v * c
      OBVIOUS
    <3>3. 1 * c = c
      OBVIOUS
    <3>4. Is(V, vc, c)
      BY <3>1, <3>2, <3>3
    <3>5. Is(Minus(V, mean), vc - S2, c)
      BY <2>4, <3>4, IsMinus
    <3>6. vc - S2 = D
      <4>1. v * (N + 1) - (S + v) = v * N - S
        BY <1>1
      <4> QED
        BY <1>2, <1>14, <2>1, <3>2, <4>1
    <3> QED
      BY <1>6, <1>11, <3>5, <3>6
  <2>6. PICK DD \in Int : DD = D * D
    OBVIOUS
  <2>7. Is(square, DD, Nc)
    <3>1. Is(Times(delta, rest), D * D, N * c)
      BY <2>2, <2>5, IsTimes
    <3> QED
      BY <1>7, <2>1, <2>6, <3>1
  <2>8. Is(squares, U, c)
    <3>1. Is(q, T * c, N * c)
      BY <1>2, <2>0, IsGrown
    <3>2. PICK Tc \in Int : Tc = T * c
      OBVIOUS
    <3>3. Is(q, Tc, Nc)
      BY <2>1, <3>1, <3>2
    <3>4. Is(Plus(q, square), Tc + DD, Nc)
      BY <2>7, <3>3, IsPlus
    <3>5. Tc + DD = U * N /\ Nc = c * N
      <4>1. (N * Q - S * S) * (N + 1) + (v * N - S) * (v * N - S)
              = ((N + 1) * (Q + v * v) - (S + v) * (S + v)) * N
        BY <1>1
      <4>2. N * c = c * N
        BY <1>1
      <4>3. Tc = (N * Q - S * S) * (N + 1) /\ DD = (v * N - S) * (v * N - S)
        BY <1>2, <1>14, <2>1, <2>6, <3>2
      <4>4. U = (N + 1) * (Q + v * v) - (S + v) * (S + v)
        BY <1>2, <1>14
      <4> QED
        BY <2>1, <4>1, <4>2, <4>3, <4>4
    <3>6. Is(squares, U * N, c * N)
      BY <1>8, <1>13, <3>4, <3>5
    <3> QED
      BY <1>1, <1>2, <2>0, <3>6, IsReduced
  <2>9. Kept([count |-> c, mean |-> mean, squares |-> squares], c, S2, Q2)
    <3>1. Is(mean, S2, c) /\ Is(squares, c * Q2 - S2 * S2, c)
      BY <1>14, <2>4, <2>8
    <3>2. PICK r : r = [count |-> c, mean |-> mean, squares |-> squares]
      OBVIOUS
    <3>3. r.count = c /\ r.mean = mean /\ r.squares = squares
      BY <3>2
    <3>4. (IF c = 0 THEN 1 ELSE c) = c /\ (c = 0 => S2 = 0 /\ Q2 = 0)
      BY <1>2
    <3>5. Kept(r, c, S2, Q2)
      BY <1>14, <3>1, <3>3, <3>4 DEF Kept
    <3> QED
      BY <3>2, <3>5
  <2> QED
    BY <1>2, <1>9, <1>14, <2>9
<1> QED
  BY <1>15, <1>16

-----------------------------------------------------------------------------
\* The fold of UpdateBaseline, a prefix of the readings at a time.
IsRun(base, values, f) ==
    f = [s \in SUBSET DOMAIN values |->
            IF s = {} THEN base ELSE Reckoned(f[s \ {Max(s)}], values[Max(s)])]

From(current) == [count |-> current.count, mean |-> current.mean,
                  squares |-> Times(current.variance, Fraction(current.count, 1))]

EndOf(current, values) == (CHOOSE f : IsRun(From(current), values, f))[DOMAIN values]
AsRow(end) ==
    [count |-> end.count, mean |-> end.mean,
     variance |-> IF end.count = 0 THEN Fraction(0, 1)
                                   ELSE Times(end.squares, Fraction(1, end.count))]

LEMMA UpdateIsRun ==
    ASSUME NEW current, NEW values
    PROVE  UpdateBaseline(current, values) = AsRow(EndOf(current, values))
BY DEF UpdateBaseline, FoldLeft, MapThenFoldSet, IsRun, From, Reckoned, EndOf, AsRow

LEMMA RunExists ==
    ASSUME NEW base, NEW values, IsFiniteSet(DOMAIN values), DOMAIN values \subseteq Nat
    PROVE  \E f : IsRun(base, values, f)
<1> DEFINE S == DOMAIN values
           Small(n) == {s \in SUBSET S : Cardinality(s) <= n}
           IsRunTo(n, f) ==
             f = [s \in Small(n) |->
                    IF s = {} THEN base ELSE Reckoned(f[s \ {Max(s)}], values[Max(s)])]
           bad == {n \in Nat : ~ \E f : IsRunTo(n, f)}
<1>0. \A s \in SUBSET S : IsFiniteSet(s) /\ Cardinality(s) \in Nat
  BY FS_Subset, FS_CardinalityType
<1>a. \A s \in SUBSET S : s # {} => Max(s) \in s
  BY <1>0, MaxIsIn
<1>1. bad = {}
  <2> SUFFICES ASSUME bad # {} PROVE FALSE
    OBVIOUS
  <2>1. PICK n \in bad : \A m \in bad : n <= m
    BY LeastNat
  <2>2. CASE n = 0
    <3> DEFINE f == [s \in Small(0) |-> base]
    <3>1. \A s \in Small(0) : s = {}
      BY <1>0, FS_EmptySet
    <3>2. IsRunTo(0, f)
      BY <3>1
    <3> QED
      BY <2>1, <2>2, <3>2
  <2>3. CASE n # 0
    <3>1. n - 1 \in Nat /\ n - 1 \notin bad
      <4>1. n \in Nat /\ n - 1 \in Nat
        BY <2>3
      <4> HIDE DEF bad
      <4> QED
        BY <2>1, <4>1
    <3>2. PICK g : IsRunTo(n - 1, g)
      BY <3>1
    <3> DEFINE f == [s \in Small(n) |->
                       IF s = {} THEN base ELSE Reckoned(g[s \ {Max(s)}], values[Max(s)])]
    <3>3. Small(n - 1) \subseteq Small(n)
      BY <1>0
    <3>4. \A s \in Small(n - 1) : f[s] = g[s]
      BY <3>2, <3>3
    <3>5. \A s \in Small(n) : s # {} => s \ {Max(s)} \in Small(n - 1)
      <4> SUFFICES ASSUME NEW s \in Small(n), s # {} PROVE s \ {Max(s)} \in Small(n - 1)
        OBVIOUS
      <4>1. Max(s) \in s
        BY <1>a
      <4>2. Cardinality(s \ {Max(s)}) = Cardinality(s) - 1
        BY <1>0, <4>1, FS_RemoveElement
      <4> QED
        BY <1>0, <4>2
    <3>6. IsRunTo(n, f)
      BY <3>4, <3>5
    <3> QED
      BY <2>1, <3>6
  <2> QED
    BY <2>2, <2>3
<1> DEFINE c == Cardinality(S)
<1>2. c \in Nat /\ Small(c) = SUBSET S
  BY <1>0, FS_Subset, FS_CardinalityType
<1>3. PICK f : IsRunTo(c, f)
  BY <1>1, <1>2
<1> QED
  BY <1>2, <1>3 DEF IsRun

Squares(values) == [i \in DOMAIN values |-> values[i] * values[i]]

\* The sums over a prefix of a sequence.
LEMMA SumOfPrefix ==
    ASSUME NEW n \in Nat, NEW e \in [1 .. n -> Int], NEW k \in Nat, k < n
    PROVE  /\ SumOf(e, 1 .. k) \in Int
           /\ SumOf(e, 1 .. (k + 1)) = SumOf(e, 1 .. k) + e[k + 1]
<1>1. PICK A : A = 1 .. (k + 1)
  OBVIOUS
<1>2. IsFiniteSet(A) /\ k + 1 \in A /\ A \ {k + 1} = 1 .. k /\ \A i \in A : e[i] \in Int
  BY <1>1, PrefixIs
<1>3. SumOf(e, A) = e[k + 1] + SumOf(e, A \ {k + 1})
  BY <1>2, SumWithout
<1>4. SumOf(e, A \ {k + 1}) \in Int
  <2>1. IsFiniteSet(A \ {k + 1}) /\ \A i \in A \ {k + 1} : e[i] \in Int
    BY <1>2, FS_Subset
  <2> QED
    BY <2>1, SumIsInt
<1>5. e[k + 1] \in Int
  BY <1>2
<1>6. PICK rest \in Int, last \in Int : rest = SumOf(e, 1 .. k) /\ last = e[k + 1]
  BY <1>2, <1>4, <1>5
<1>7. SumOf(e, A) = last + rest
  BY <1>2, <1>3, <1>6
<1>8. last + rest = rest + last
  OBVIOUS
<1> QED
  BY <1>1, <1>6, <1>7, <1>8

LEMMA RunKeeps ==
    ASSUME NEW values \in Seq(Int), NEW base, NEW N, NEW S, NEW Q, Kept(base, N, S, Q),
           NEW f, IsRun(base, values, f), NEW k \in 0 .. Len(values)
    PROVE  Kept(f[1 .. k], N + k, S + SumOf(values, 1 .. k), Q + SumOf(Squares(values), 1 .. k))
<1>1. PICK n \in Nat : n = Len(values)
  BY LenProperties
<1>2. DOMAIN values = 1 .. n /\ values \in [1 .. n -> Int]
  BY <1>1, LenProperties
<1>3. PICK d : d = Squares(values)
  OBVIOUS
<1>4. d \in [1 .. n -> Int] /\ \A i \in 1 .. n : d[i] = values[i] * values[i]
  BY <1>2, <1>3 DEF Squares
<1>5. N \in Nat /\ S \in Int /\ Q \in Int
  BY DEF Kept
<1>6. \A s \in SUBSET (1 .. n) :
        f[s] = IF s = {} THEN base ELSE Reckoned(f[s \ {Max(s)}], values[Max(s)])
  BY <1>2 DEF IsRun
<1> DEFINE Good(j) == Kept(f[1 .. j], N + j, S + SumOf(values, 1 .. j), Q + SumOf(d, 1 .. j))
           bad == {j \in 0 .. n : ~ Good(j)}
<1>7. SUFFICES ASSUME bad # {} PROVE FALSE
  BY <1>1, <1>3
<1>8. PICK j \in bad : \A i \in bad : j <= i
  <2>1. bad \subseteq Nat
    OBVIOUS
  <2> HIDE DEF bad
  <2> QED
    BY <1>7, <2>1, LeastNat
<1>9. CASE j = 0
  <2>1. 1 .. 0 = {} /\ {} \in SUBSET (1 .. n)
    OBVIOUS
  <2>2. f[1 .. 0] = base
    BY <1>6, <2>1
  <2>3. SumOf(values, 1 .. 0) = 0 /\ SumOf(d, 1 .. 0) = 0
    BY <2>1, SumOfNone
  <2>4. N + 0 = N /\ S + 0 = S /\ Q + 0 = Q
    BY <1>5
  <2>5. Good(0)
    BY <2>2, <2>3, <2>4
  <2> QED
    BY <1>8, <1>9, <2>5
<1>10. CASE j # 0
  <2>1. PICK i \in Nat : i + 1 = j /\ i < n
    <3>1. j - 1 \in Nat /\ (j - 1) + 1 = j /\ j - 1 < n
      BY <1>10
    <3> QED
      BY <3>1
  <2>2. Good(i)
    <3>1. i \notin bad /\ i \in 0 .. n
      <4>1. i \in 0 .. n /\ ~ (j <= i) /\ j \in Nat
        BY <2>1
      <4> HIDE DEF bad
      <4> QED
        BY <1>8, <4>1
    <3> QED
      BY <3>1
  <2>3. f[1 .. (i + 1)] = Reckoned(f[1 .. i], values[i + 1])
    BY <1>6, <2>1, PrefixIs
  <2>4. /\ SumOf(values, 1 .. i) \in Int /\ SumOf(d, 1 .. i) \in Int
        /\ SumOf(values, 1 .. (i + 1)) = SumOf(values, 1 .. i) + values[i + 1]
        /\ SumOf(d, 1 .. (i + 1)) = SumOf(d, 1 .. i) + d[i + 1]
    BY <1>2, <1>4, <2>1, SumOfPrefix
  <2>5. PICK v \in Int : v = values[i + 1] /\ d[i + 1] = v * v
    BY <1>2, <1>4, <2>1
  <2>6. PICK s \in Int, q \in Int : s = SumOf(values, 1 .. i) /\ q = SumOf(d, 1 .. i)
    BY <2>4
  <2>7. PICK b : b = f[1 .. i]
    OBVIOUS
  <2>8. PICK N2, S2, Q2 : N2 = N + i /\ S2 = S + s /\ Q2 = Q + q
    OBVIOUS
  <2>9. Kept(b, N2, S2, Q2)
    BY <2>2, <2>6, <2>7, <2>8
  <2> HIDE DEF Good, bad
  <2>10. Kept(Reckoned(b, v), N2 + 1, S2 + v, Q2 + v * v)
    BY <2>9, ReckonedKeeps
  <2>11. N2 + 1 = N + (i + 1) /\ S2 + v = S + (s + v) /\ Q2 + v * v = Q + (q + v * v)
    BY <1>5, <2>8
  <2>12. Good(i + 1)
    BY <2>3, <2>4, <2>5, <2>6, <2>7, <2>10, <2>11 DEF Good
  <2> QED
    BY <1>8, <2>1, <2>12 DEF bad
<1> QED
  BY <1>9, <1>10

\* A row of the baseline: the variance is (N * Q - S^2) / N^2.
BaselineRow(b, N, S, Q) ==
    /\ b.count = N /\ N \in Nat /\ S \in Int /\ Q \in Int
    /\ N = 0 => S = 0 /\ Q = 0
    /\ Is(b.mean, S, IF N = 0 THEN 1 ELSE N)
    /\ Is(b.variance, N * Q - S * S, IF N = 0 THEN 1 ELSE N * N)

LEMMA FromKeeps ==
    ASSUME NEW b, NEW N, NEW S, NEW Q, BaselineRow(b, N, S, Q)
    PROVE  Kept(From(b), N, S, Q)
<1>1. N \in Nat /\ S \in Int /\ Q \in Int /\ b.count = N
  BY DEF BaselineRow
<1>2. PICK T \in Int : T = N * Q - S * S
  <2>1. N * Q \in Int /\ S * S \in Int
    BY <1>1
  <2>2. N * Q - S * S \in Int
    BY <2>1
  <2> QED
    BY <2>2
<1>3. PICK v, C, q : v = b.variance /\ C = Fraction(N, 1) /\ q = Times(v, C)
  OBVIOUS
<1>4. Is(C, N, 1)
  BY <1>1, <1>3, IsWhole
<1>5. From(b).count = N /\ From(b).mean = b.mean /\ From(b).squares = q
  BY <1>1, <1>3 DEF From
<1>6. Is(q, T, IF N = 0 THEN 1 ELSE N)
  <2>1. CASE N = 0
    <3>1. Is(v, T, 1)
      BY <1>2, <1>3, <2>1 DEF BaselineRow
    <3>2. Is(q, T * N, 1 * 1)
      BY <1>3, <1>4, <3>1, IsTimes
    <3>3. T * N = 0 /\ 1 * 1 = 1
      BY <2>1
    <3>4. T = 0
      <4>1. S = 0 /\ Q = 0
        BY <2>1 DEF BaselineRow
      <4> QED
        BY <1>2, <2>1, <4>1
    <3> QED
      BY <2>1, <3>2, <3>3, <3>4
  <2>2. CASE N # 0
    <3>1. PICK M : M = N * N
      OBVIOUS
    <3>2. Is(v, T, M)
      BY <1>2, <1>3, <2>2, <3>1 DEF BaselineRow
    <3>3. Is(q, T * N, M * 1)
      BY <1>3, <1>4, <3>2, IsTimes
    <3>4. M * 1 = N * N
      <4>1. M \in Nat
        BY <1>1, <3>1
      <4> QED
        BY <3>1, <4>1
    <3>5. Is(q, T * N, N * N)
      BY <3>3, <3>4
    <3>6. N > 0
      BY <1>1, <2>2
    <3>7. Is(q, T, N)
      BY <1>1, <3>5, <3>6, IsReduced
    <3> QED
      BY <2>2, <3>7
  <2> QED
    BY <2>1, <2>2
<1> QED
  BY <1>1, <1>2, <1>5, <1>6 DEF Kept, BaselineRow

LEMMA UpdatedKeeps ==
    ASSUME NEW b, NEW N, NEW S, NEW Q, BaselineRow(b, N, S, Q), NEW values \in Seq(Int)
    PROVE  BaselineRow(UpdateBaseline(b, values), N + Len(values),
               S + SumOf(values, 1 .. Len(values)), Q + SumOf(Squares(values), 1 .. Len(values)))
<1>1. PICK n \in Nat : n = Len(values) /\ DOMAIN values = 1 .. n
  BY LenProperties
<1>2. IsFiniteSet(1 .. n) /\ 1 .. n \subseteq Nat /\ n \in 0 .. n
  BY FS_Interval
<1>3. PICK base : base = From(b)
  OBVIOUS
<1>4. Kept(base, N, S, Q)
  BY <1>3, FromKeeps
<1>5. PICK f : f = (CHOOSE g : IsRun(base, values, g))
  OBVIOUS
<1>6. IsRun(base, values, f)
  BY <1>1, <1>2, <1>5, RunExists
<1>7. PICK end : end = f[1 .. n]
  OBVIOUS
<1>8. PICK M, S2, Q2 : /\ M = N + n /\ S2 = S + SumOf(values, 1 .. n)
                       /\ Q2 = Q + SumOf(Squares(values), 1 .. n)
  OBVIOUS
<1>9. Kept(end, M, S2, Q2)
  BY <1>1, <1>2, <1>4, <1>6, <1>7, <1>8, RunKeeps
<1>10. PICK v : v = IF end.count = 0 THEN Fraction(0, 1)
                    ELSE Times(end.squares, Fraction(1, end.count))
  OBVIOUS
<1>11. UpdateBaseline(b, values) = [count |-> end.count, mean |-> end.mean, variance |-> v]
  <2>1. end = EndOf(b, values)
    BY <1>1, <1>3, <1>5, <1>7 DEF EndOf
  <2>2. UpdateBaseline(b, values) = AsRow(end)
    BY <2>1, UpdateIsRun
  <2> QED
    BY <1>10, <2>2 DEF AsRow
<1>12. M \in Nat /\ S2 \in Int /\ Q2 \in Int /\ end.count = M
  BY <1>9 DEF Kept
<1>13. PICK T \in Int : T = M * Q2 - S2 * S2
  <2>1. M * Q2 \in Int /\ S2 * S2 \in Int
    BY <1>12
  <2>2. M * Q2 - S2 * S2 \in Int
    BY <2>1
  <2> QED
    BY <2>2
<1>14. Is(v, T, IF M = 0 THEN 1 ELSE M * M)
  <2>1. CASE M = 0
    <3>1. v = Fraction(0, 1)
      BY <1>10, <1>12, <2>1
    <3>2. T = 0
      <4>1. S2 = 0 /\ Q2 = 0
        BY <1>9, <2>1 DEF Kept
      <4> QED
        BY <1>13, <2>1, <4>1
    <3> QED
      BY <2>1, <3>1, <3>2, IsWhole
  <2>2. CASE M # 0
    <3>1. PICK q, C : q = end.squares /\ C = Fraction(1, M)
      OBVIOUS
    <3>2. Is(q, T, M)
      BY <1>9, <1>13, <2>2, <3>1 DEF Kept
    <3>3. Is(C, 1, M)
      BY <1>12, <2>2, <3>1, IsWhole
    <3>4. Is(Times(q, C), T * 1, M * M)
      BY <3>2, <3>3, IsTimes
    <3>5. T * 1 = T
      OBVIOUS
    <3> QED
      BY <1>10, <1>12, <2>2, <3>1, <3>4, <3>5
  <2> QED
    BY <2>1, <2>2
<1>15. PICK u : u = UpdateBaseline(b, values)
  OBVIOUS
<1>16. u.count = M /\ u.mean = end.mean /\ u.variance = v
  BY <1>11, <1>12, <1>15
<1>17. BaselineRow(u, M, S2, Q2)
  BY <1>9, <1>12, <1>13, <1>14, <1>16 DEF BaselineRow, Kept
<1> QED
  BY <1>1, <1>8, <1>15, <1>17

-----------------------------------------------------------------------------
\* One list after another.
Joins(h, e, n, d, m) ==
    /\ n \in Nat /\ m \in Nat /\ e \in [1 .. n -> Int] /\ d \in [1 .. m -> Int]
    /\ h \in [1 .. (n + m) -> Int]
    /\ \A i \in 1 .. (n + m) : h[i] = IF i <= n THEN e[i] ELSE d[i - n]

LEMMA SumOfBoth ==
    ASSUME NEW h, NEW e, NEW n, NEW d, NEW m, Joins(h, e, n, d, m)
    PROVE  SumOf(h, 1 .. (n + m)) = SumOf(e, 1 .. n) + SumOf(d, 1 .. m)
<1> USE DEF Joins
<1> DEFINE Good(j) == SumOf(h, 1 .. (n + j)) = SumOf(e, 1 .. n) + SumOf(d, 1 .. j)
           bad == {j \in 0 .. m : ~ Good(j)}
<1>0. IsFiniteSet(1 .. n)
  BY FS_Interval
<1>1. SumOf(e, 1 .. n) \in Int
  BY <1>0, SumIsInt
<1>2. SUFFICES ASSUME bad # {} PROVE FALSE
  <2>1. m \in 0 .. m
    OBVIOUS
  <2>2. Good(m) => SumOf(h, 1 .. (n + m)) = SumOf(e, 1 .. n) + SumOf(d, 1 .. m)
    OBVIOUS
  <2> HIDE DEF Good
  <2> QED
    BY <2>1, <2>2
<1>3. PICK j \in bad : \A i \in bad : j <= i
  <2>1. bad \subseteq Nat
    OBVIOUS
  <2> HIDE DEF bad
  <2> QED
    BY <1>2, <2>1, LeastNat
<1>4. CASE j = 0
  <2>1. 1 .. 0 = {} /\ n + 0 = n
    OBVIOUS
  <2>2. SumOf(d, 1 .. 0) = 0
    BY <2>1, SumOfNone
  <2>3. \A i \in 1 .. n : h[i] = e[i]
    OBVIOUS
  <2>4. SumOf(h, 1 .. n) = SumOf(e, 1 .. n)
    BY <1>0, <2>3, SumOfSame
  <2>5. Good(0)
    BY <1>1, <2>1, <2>2, <2>4
  <2> QED
    BY <1>3, <1>4, <2>5
<1>5. CASE j # 0
  <2>1. PICK i \in Nat : i + 1 = j /\ i < m
    <3>1. j - 1 \in Nat /\ (j - 1) + 1 = j /\ j - 1 < m
      BY <1>5
    <3> QED
      BY <3>1
  <2>2. Good(i)
    <3>1. i \notin bad /\ i \in 0 .. m
      <4>1. i \in 0 .. m /\ ~ (j <= i) /\ j \in Nat
        BY <2>1
      <4> HIDE DEF bad
      <4> QED
        BY <1>3, <4>1
    <3> QED
      BY <3>1
  <2>3. PICK t \in Nat, w \in Nat : t = n + i /\ w = n + m /\ t < w /\ t + 1 = n + (i + 1)
    BY <2>1
  <2>4. SumOf(h, 1 .. t) \in Int /\ SumOf(h, 1 .. (t + 1)) = SumOf(h, 1 .. t) + h[t + 1]
    BY <2>3, SumOfPrefix
  <2>5. SumOf(d, 1 .. i) \in Int /\ SumOf(d, 1 .. (i + 1)) = SumOf(d, 1 .. i) + d[i + 1]
    BY <2>1, SumOfPrefix
  <2>6. PICK x \in Int : x = d[i + 1] /\ x = h[t + 1]
    <3>1. i + 1 \in 1 .. m /\ t + 1 \in 1 .. (n + m) /\ ~ (t + 1 <= n) /\ (t + 1) - n = i + 1
      BY <2>1, <2>3
    <3> QED
      BY <3>1
  <2>7. PICK a \in Int, b \in Int, c \in Int :
          a = SumOf(e, 1 .. n) /\ b = SumOf(d, 1 .. i) /\ c = SumOf(h, 1 .. t) /\ c = a + b
    BY <1>1, <2>2, <2>3, <2>4, <2>5
  <2>8. c + x = a + (b + x)
    BY <2>7
  <2>9. Good(i + 1)
    BY <2>3, <2>4, <2>5, <2>6, <2>7, <2>8
  <2> QED
    BY <1>3, <2>1, <2>9
<1> QED
  BY <1>4, <1>5

LEMMA FoldIsSum ==
    ASSUME NEW all \in Seq(Int)
    PROVE  /\ FoldFunction(LAMBDA v, rest : v + rest, 0, all) = SumOf(all, DOMAIN all)
           /\ FoldFunction(LAMBDA v, rest : v * v + rest, 0, all) = SumOf(Squares(all), DOMAIN all)
<1> DEFINE S == DOMAIN all
           Raw(f) == f = [s \in SUBSET S |->
                            IF s = {} THEN 0
                            ELSE all[Anything(s)] * all[Anything(s)] + f[s \ {Anything(s)}]]
<1>1. FoldFunction(LAMBDA v, rest : v + rest, 0, all) = SumOf(all, S)
  BY SumIsFold DEF FoldFunction, FoldFunctionOnSet, MapThenFoldSet, Anything, IsSum
<1>2. FoldFunction(LAMBDA v, rest : v * v + rest, 0, all) = (CHOOSE f : Raw(f))[S]
  BY DEF FoldFunction, FoldFunctionOnSet, MapThenFoldSet, Anything
<1>3. IsFiniteSet(S)
  BY LenProperties, FS_Interval
<1>4. \A s \in SUBSET S : s # {} => Anything(s) \in S
  BY AnyIsIn
<1>5. \E f : Raw(f)
  <2>1. PICK f : IsSum(Squares(all), S, f)
    BY <1>3, FoldExists
  <2>2. Raw(f)
    BY <1>4, <2>1 DEF IsSum, Squares
  <2> QED
    BY <2>2
<1>6. PICK f : f = (CHOOSE g : Raw(g))
  OBVIOUS
<1>7. Raw(f)
  BY <1>5, <1>6
<1>8. PICK e : e = Squares(all)
  OBVIOUS
<1>9. \A s \in SUBSET S : s # {} => e[Anything(s)] = all[Anything(s)] * all[Anything(s)]
  BY <1>4, <1>8 DEF Squares
<1>10. \A s \in SUBSET S : f[s] = IF s = {} THEN 0
              ELSE all[Anything(s)] * all[Anything(s)] + f[s \ {Anything(s)}]
  BY <1>7
<1>11. \A s \in SUBSET S : f[s] = IF s = {} THEN 0 ELSE e[Anything(s)] + f[s \ {Anything(s)}]
  BY <1>9, <1>10
<1> HIDE DEF Raw
<1>12. SumOf(e, S) = f[S]
  <2>1. AddsUp(e, S, f)
    BY <1>11 DEF AddsUp
  <2> HIDE DEF S
  <2> QED
    BY <1>3, <2>1, SumFound
<1> QED
  BY <1>1, <1>2, <1>6, <1>8, <1>12

LEMMA SquaresAre ==
    ASSUME NEW n \in Nat, NEW s \in [1 .. n -> Int]
    PROVE  Squares(s) \in [1 .. n -> Int] /\ \A i \in 1 .. n : Squares(s)[i] = s[i] * s[i]
<1>1. DOMAIN s = 1 .. n /\ \A i \in 1 .. n : s[i] * s[i] \in Int
  OBVIOUS
<1> QED
  BY <1>1 DEF Squares

\* Welford's update, one list of readings after another, gives the mean and the
\* population variance of all of them, for lists of any length (updateBaseline).
THEOREM BaselineOfAll ==
    ASSUME NEW first \in Seq(Int), NEW second \in Seq(Int), NEW all, all = first \o second,
           NEW sum, sum = SumOf(all, DOMAIN all),
           NEW squares, squares = SumOf(Squares(all), DOMAIN all),
           NEW b, b = UpdateBaseline(UpdateBaseline(NoBaseline, first), second)
    PROVE  /\ all \in Seq(Int) /\ b.count = Len(all)
           /\ Len(all) > 0 =>
                /\ Equal(b.mean, Fraction(sum, Len(all)))
                /\ Equal(b.variance, Fraction(Len(all) * squares - sum * sum,
                                              Len(all) * Len(all)))
<1>3. PICK n \in Nat, m \in Nat : n = Len(first) /\ m = Len(second)
  BY LenProperties
<1>4. /\ all \in Seq(Int) /\ Len(all) = n + m
      /\ \A i \in 1 .. (n + m) : all[i] = IF i <= n THEN first[i] ELSE second[i - n]
  BY <1>3, ConcatProperties
<1>5. /\ first \in [1 .. n -> Int] /\ second \in [1 .. m -> Int]
      /\ all \in [1 .. (n + m) -> Int] /\ DOMAIN all = 1 .. (n + m)
  BY <1>3, <1>4, LenProperties
<1>6. PICK e, d, h : e = Squares(first) /\ d = Squares(second) /\ h = Squares(all)
  OBVIOUS
<1>7. e \in [1 .. n -> Int] /\ d \in [1 .. m -> Int] /\ h \in [1 .. (n + m) -> Int]
  <2>1. e \in [1 .. n -> Int]
    BY <1>5, <1>6, SquaresAre
  <2>2. d \in [1 .. m -> Int]
    BY <1>5, <1>6, SquaresAre
  <2>3. PICK k \in Nat : k = n + m
    OBVIOUS
  <2>4. h \in [1 .. k -> Int]
    BY <1>5, <1>6, <2>3, SquaresAre
  <2> QED
    BY <2>1, <2>2, <2>3, <2>4
<1>8. \A i \in 1 .. (n + m) : h[i] = IF i <= n THEN e[i] ELSE d[i - n]
  <2> SUFFICES ASSUME NEW i \in 1 .. (n + m) PROVE h[i] = IF i <= n THEN e[i] ELSE d[i - n]
    OBVIOUS
  <2>1. CASE i <= n
    BY <1>4, <1>5, <1>6, <2>1 DEF Squares
  <2>2. CASE ~ (i <= n)
    <3>1. i - n \in 1 .. m
      BY <2>2
    <3> QED
      BY <1>4, <1>5, <1>6, <2>2, <3>1 DEF Squares
  <2> QED
    BY <2>1, <2>2
<1>9. PICK S1, S2, Q1, Q2 : /\ S1 = SumOf(first, 1 .. n) /\ S2 = SumOf(second, 1 .. m)
                            /\ Q1 = SumOf(e, 1 .. n) /\ Q2 = SumOf(d, 1 .. m)
  OBVIOUS
<1>10. S1 \in Int /\ S2 \in Int /\ Q1 \in Int /\ Q2 \in Int
  <2>1. IsFiniteSet(1 .. n) /\ IsFiniteSet(1 .. m)
    <3>1. \A k \in Nat : IsFiniteSet(1 .. k)
      BY FS_Interval
    <3> QED
      BY <3>1
  <2>2. /\ \A i \in 1 .. n : first[i] \in Int /\ e[i] \in Int
        /\ \A i \in 1 .. m : second[i] \in Int /\ d[i] \in Int
    BY <1>5, <1>7
  <2> QED
    BY <1>9, <2>1, <2>2, SumIsInt
<1>11. sum = S1 + S2 /\ squares = Q1 + Q2
  <2>1. sum = SumOf(all, 1 .. (n + m)) /\ squares = SumOf(h, 1 .. (n + m))
    BY <1>5, <1>6
  <2>2. SumOf(all, 1 .. (n + m)) = SumOf(first, 1 .. n) + SumOf(second, 1 .. m)
    <3>1. Joins(all, first, n, second, m)
      BY <1>4, <1>5 DEF Joins
    <3> QED
      BY <3>1, SumOfBoth
  <2>3. SumOf(h, 1 .. (n + m)) = SumOf(e, 1 .. n) + SumOf(d, 1 .. m)
    <3>1. Joins(h, e, n, d, m)
      BY <1>7, <1>8 DEF Joins
    <3> QED
      BY <3>1, SumOfBoth
  <2> QED
    BY <1>9, <2>1, <2>2, <2>3
<1>12. PICK f0, b0 : f0 = Fraction(0, 1) /\ b0 = NoBaseline
  OBVIOUS
<1>13. BaselineRow(b0, 0, 0, 0)
  <2>1. Is(f0, 0, 1)
    BY <1>12, IsWhole
  <2>2. b0.count = 0 /\ b0.mean = f0 /\ b0.variance = f0
    BY <1>12 DEF NoBaseline
  <2>3. 0 * 0 - 0 * 0 = 0
    OBVIOUS
  <2> QED
    BY <2>1, <2>2, <2>3 DEF BaselineRow
<1>14. PICK b1 : b1 = UpdateBaseline(b0, first)
  OBVIOUS
<1>15. BaselineRow(b1, n, S1, Q1)
  <2>1. BaselineRow(b1, 0 + n, 0 + S1, 0 + Q1)
    BY <1>3, <1>6, <1>9, <1>13, <1>14, UpdatedKeeps
  <2>2. 0 + n = n /\ 0 + S1 = S1 /\ 0 + Q1 = Q1
    BY <1>10
  <2> QED
    BY <2>1, <2>2
<1>16. BaselineRow(b, n + m, S1 + S2, Q1 + Q2)
  <2>1. b = UpdateBaseline(b1, second)
    BY <1>12, <1>14
  <2> QED
    BY <1>3, <1>6, <1>9, <1>15, <2>1, UpdatedKeeps
<1>17. PICK c \in Nat : c = n + m /\ c = Len(all)
  BY <1>4
<1>18. BaselineRow(b, c, sum, squares) /\ sum \in Int /\ squares \in Int
  BY <1>10, <1>11, <1>16, <1>17
<1>19. ASSUME c > 0
       PROVE  /\ Equal(b.mean, Fraction(sum, c))
              /\ Equal(b.variance, Fraction(c * squares - sum * sum, c * c))
  <2>1. Is(b.mean, sum, c) /\ Is(b.variance, c * squares - sum * sum, c * c)
    BY <1>18, <1>19 DEF BaselineRow
  <2>2. PICK f, g, T, M : f = b.mean /\ g = b.variance /\ T = c * squares - sum * sum /\ M = c * c
    OBVIOUS
  <2>3. f.n * c = sum * f.d /\ g.n * M = T * g.d
    BY <2>1, <2>2 DEF Is
  <2>4. Equal(f, Fraction(sum, c)) /\ Equal(g, Fraction(T, M))
    BY <2>3 DEF Equal, Fraction
  <2> QED
    BY <2>2, <2>4
<1>20. b.count = c
  BY <1>18 DEF BaselineRow
<1> QED
  BY <1>4, <1>17, <1>19, <1>20

LEMMA FewReadings ==
    ASSUME NEW s \in UNION {[1 .. n -> 0 .. 2] : n \in 0 .. 2}
    PROVE  s \in Seq(Int)
<1>1. PICK n \in 0 .. 2 : s \in [1 .. n -> 0 .. 2]
  OBVIOUS
<1>2. n \in Nat /\ s \in [1 .. n -> Int]
  BY <1>1
<1> QED
  BY <1>2

\* The readings the run compares are some of those.
LEMMA BaselineOfFew == BaselineIsOfAllReadings
<1> SUFFICES ASSUME NEW first \in UNION {[1 .. n -> 0 .. 2] : n \in 0 .. 2},
                    NEW second \in UNION {[1 .. n -> 0 .. 2] : n \in 0 .. 2}
             PROVE  LET all == first \o second
                        sum == FoldFunction(LAMBDA v, rest : v + rest, 0, all)
                        squares == FoldFunction(LAMBDA v, rest : v * v + rest, 0, all)
                        b == UpdateBaseline(UpdateBaseline(NoBaseline, first), second)
                    IN  /\ b.count = Len(all)
                        /\ Len(all) > 0 =>
                             /\ Equal(b.mean, Fraction(sum, Len(all)))
                             /\ Equal(b.variance, Fraction(Len(all) * squares - sum * sum,
                                                           Len(all) * Len(all)))
  BY DEF BaselineIsOfAllReadings
<1>1. first \in Seq(Int) /\ second \in Seq(Int)
  BY FewReadings
<1>2. PICK all, b : /\ all = first \o second
                    /\ b = UpdateBaseline(UpdateBaseline(NoBaseline, first), second)
  OBVIOUS
<1>3. PICK sum, squares : sum = SumOf(all, DOMAIN all) /\ squares = SumOf(Squares(all), DOMAIN all)
  OBVIOUS
<1>4. /\ all \in Seq(Int) /\ b.count = Len(all)
      /\ Len(all) > 0 =>
           /\ Equal(b.mean, Fraction(sum, Len(all)))
           /\ Equal(b.variance, Fraction(Len(all) * squares - sum * sum, Len(all) * Len(all)))
  BY <1>1, <1>2, <1>3, BaselineOfAll
<1>5. /\ FoldFunction(LAMBDA v, rest : v + rest, 0, all) = sum
      /\ FoldFunction(LAMBDA v, rest : v * v + rest, 0, all) = squares
  BY <1>3, <1>4, FoldIsSum
<1> QED
  BY <1>2, <1>4, <1>5

-----------------------------------------------------------------------------
\* The values of the focus estimate: scores, counts and offsets in their range.

Scale == {NoScore} \cup 0 .. 100
Offsets == -MaxOffset * Grain .. MaxOffset * Grain

\* What one sitting and one request hold.
SittingFits(r) == r.score \in Scale /\ r.done <= r.total
DutyFits(r) ==
    /\ r.done <= r.total /\ r.offset \in Offsets /\ r.excess \in Int
    /\ r.at \in {"recall", "adjust"} => r.n >= 1
ValuesFit ==
    /\ \A s \in Sitting :
         SittingFits(sitting[s]) /\ readings[s].good + readings[s].bad <= MaxReadings
    /\ correction.offset \in Offsets
    /\ \A d \in Duty : DutyFits(duty[d])

LEMMA OffsetsAre ==
    \E K \in Nat : K = MaxOffset * Grain /\ Offsets = - K .. K /\ 0 \in Offsets
<1>1. MaxOffset \in Nat /\ Grain \in Nat
  BY ScoringAssumption
<1>2. PICK M \in Nat, G \in Nat : M = MaxOffset /\ G = Grain
  BY <1>1
<1>3. PICK K \in Nat : K = M * G
  <2>1. M * G \in Nat
    OBVIOUS
  <2> QED
    BY <2>1
<1>4. - M * G = - K
  <2>1. (- M) * G = - (M * G)
    OBVIOUS
  <2> QED
    BY <1>3, <2>1
<1>5. - K .. K = Offsets
  BY <1>2, <1>3, <1>4 DEF Offsets
<1>6. 0 \in - K .. K
  OBVIOUS
<1> QED
  BY <1>2, <1>3, <1>5, <1>6

LEMMA CorrectedRange ==
    ASSUME NEW raw \in Scale, NEW offset \in Int, NEW ratings \in Nat
    PROVE  ApplyCalibration(raw, offset, ratings) \in Scale
<1>1. CASE raw = NoScore \/ ratings < MinRatings
  BY <1>1 DEF ApplyCalibration
<1>2. CASE ~ (raw = NoScore \/ ratings < MinRatings)
  <2>1. PICK G \in Nat : G = Grain /\ G > 0
    BY ScoringAssumption
  <2>2. PICK x \in Int : x = raw * Grain + offset
    <3>1. raw \in Int
      BY DEF Scale, NoScore
    <3>2. raw * Grain + offset \in Int
      BY <2>1, <3>1
    <3> QED
      BY <3>2
  <2>3. PICK n \in Nat : n = Within(0, x, 100 * Grain) /\ n <= 100 * G
    <3>1. Within(0, x, 100 * Grain) \in Nat /\ Within(0, x, 100 * Grain) <= 100 * G
      BY <2>1 DEF Within
    <3> QED
      BY <3>1
  <2>4. Rounded(n, G) \in Nat /\ Rounded(n, G) <= 100
    BY <2>1, <2>3, RoundedRange
  <2>5. ApplyCalibration(raw, offset, ratings) = Rounded(n, G)
    BY <1>2, <2>1, <2>2, <2>3 DEF ApplyCalibration
  <2> QED
    BY <2>4, <2>5 DEF Scale
<1> QED
  BY <1>1, <1>2

LEMMA NextOffsetRange ==
    ASSUME NEW offset \in Offsets, NEW excess \in Int, NEW n \in Nat, n >= 1
    PROVE  NextCalibrationOffset(offset, excess, n) \in Offsets
<1>1. PICK K \in Nat : K = MaxOffset * Grain /\ Offsets = - K .. K
  BY OffsetsAre
<1>2. PICK p \in Int : p = Grain * excess
  <2>1. Grain * excess \in Int
    BY ScoringAssumption
  <2> QED
    BY <2>1
<1>3. PICK k \in Nat : k = 2 * n /\ k > 0
  OBVIOUS
<1>4. PICK x \in Int : x = offset - (Grain * excess) \div (2 * n)
  <2>1. p \div k \in Int
    BY <1>3
  <2>2. offset \in Int
    BY <1>1
  <2>3. offset - p \div k \in Int
    BY <2>1, <2>2
  <2> QED
    BY <1>2, <1>3, <2>3
<1>5. -MaxOffset * Grain = - K
  <2>1. PICK M \in Nat, G \in Nat : M = MaxOffset /\ G = Grain
    BY ScoringAssumption
  <2>2. (- M) * G = - (M * G)
    OBVIOUS
  <2> QED
    BY <1>1, <2>1, <2>2
<1>6. Within(- K, x, K) \in - K .. K
  BY DEF Within
<1> QED
  BY <1>1, <1>4, <1>5, <1>6 DEF NextCalibrationOffset

\* What a close asks to have scored is a session of readings.
LEMMA FactsAreFacted ==
    ASSUME NEW V, Shaped(V), NEW d \in Duty, NEW elapsed \in 1 .. 2
    PROVE  Facts(d, elapsed) \in Facted
<1>1. PICK good \in Nat, n \in Nat :
        good = duty[d].good /\ n = duty[d].good + duty[d].bad
  <2>1. duty[d].good \in Nat /\ duty[d].bad \in Nat
    BY DutyTyped
  <2>2. duty[d].good + duty[d].bad \in Nat
    BY <2>1
  <2> QED
    BY <2>1, <2>2
<1>2. \A b \in BOOLEAN : Sample(b) \in Reading
  BY ScoringAssumption DEF Sample, Reading, NoHeartRate
<1>3. PICK samples : samples = [i \in 1 .. n |-> Sample(i <= good)]
  OBVIOUS
<1>4. samples \in Seq(Reading)
  <2> HIDE DEF Reading
  <2>1. \A i \in 1 .. n : (i <= good) \in BOOLEAN
    OBVIOUS
  <2>2. samples \in [1 .. n -> Reading]
    BY <1>2, <1>3, <2>1
  <2> QED
    BY <2>2
<1>5. duty[d].done \in Nat /\ duty[d].total \in Nat /\ elapsed \in Nat
  BY DutyTyped
<1>6. Facts(d, elapsed) = [samples |-> samples, elapsed |-> elapsed, planned |-> 2, away |-> 0,
                           done |-> duty[d].done, total |-> duty[d].total]
  BY <1>1, <1>3 DEF Facts
<1> HIDE DEF Reading
<1> QED
  BY <1>4, <1>5, <1>6 DEF Facted

\* What the scores are over the verdicts, together, is a whole number.
LEMMA ExcessIsInt ==
    ASSUME NEW V, Shaped(V), ValuesFit
    PROVE  Excess \in Int
<1> DEFINE S == Usable
           Raw(f) == f = [t \in SUBSET S |->
                IF t = {} THEN 0
                ELSE (sitting[Anything(t)].score - RatingToScore(verdict[Anything(t)]))
                       + f[t \ {Anything(t)}]]
<1>1. Excess = (CHOOSE f : Raw(f))[S]
  BY DEF Excess, MapThenSumSet, MapThenFoldSet, Anything
<1>2. IsFiniteSet(S)
  BY CountsAreFinite
<1>3. \A t \in SUBSET S : t # {} => Anything(t) \in S
  BY AnyIsIn
<1>4. PICK e : e = [s \in S |-> sitting[s].score - RatingToScore(verdict[s])]
  OBVIOUS
<1>5. \A t \in SUBSET S : t # {} =>
        e[Anything(t)] = sitting[Anything(t)].score - RatingToScore(verdict[Anything(t)])
  BY <1>3, <1>4
<1>6. \E f : Raw(f)
  <2>1. PICK f : IsSum(e, S, f)
    BY <1>2, FoldExists
  <2>2. Raw(f)
    BY <1>5, <2>1 DEF IsSum
  <2> QED
    BY <2>2
<1>7. PICK f : f = (CHOOSE g : Raw(g))
  OBVIOUS
<1>8. Raw(f)
  BY <1>6, <1>7
<1>9. \A t \in SUBSET S : f[t] = IF t = {} THEN 0
         ELSE (sitting[Anything(t)].score - RatingToScore(verdict[Anything(t)]))
                + f[t \ {Anything(t)}]
  BY <1>8
<1>10. \A t \in SUBSET S : f[t] = IF t = {} THEN 0 ELSE e[Anything(t)] + f[t \ {Anything(t)}]
  BY <1>5, <1>9
<1>11. \A s \in S : e[s] \in Int
  <2> SUFFICES ASSUME NEW s \in S PROVE e[s] \in Int
    OBVIOUS
  <2>1. s \in Sitting
    BY DEF Usable
  <2>2. sitting[s].score \in Int
    BY <2>1 DEF ValuesFit, SittingFits, Scale, NoScore
  <2>3. verdict[s] \in 0 .. 5
    BY <2>1 DEF Shaped
  <2> QED
    BY <1>4, <2>2, <2>3 DEF RatingToScore
<1> HIDE DEF Raw, S
<1>12. SumOf(e, S) = f[S]
  <2>1. AddsUp(e, S, f)
    BY <1>10 DEF AddsUp
  <2> QED
    BY <1>2, <2>1, SumFound
<1>13. SumOf(e, S) \in Int
  BY <1>2, <1>11, SumIsInt
<1> QED
  BY <1>1, <1>7, <1>12, <1>13

\* One request moves to something that fits.
LEMMA FitStays ==
    ASSUME NEW V, Shaped(V), ValuesFit, NEW d \in Duty, NEW r, DutyFits(r),
           duty' = [duty EXCEPT ![d] = r]
    PROVE  \A e \in Duty : DutyFits(duty'[e])
<1>1. duty'[d] = r /\ \A e \in Duty : e # d => duty'[e] = duty[e]
  BY DEF Shaped
<1>2. \A e \in Duty : DutyFits(duty[e])
  BY DEF ValuesFit
<1> QED
  BY <1>1, <1>2

\* Who comes, leaves or is let in.
LEMMA EasesFit ==
    ASSUME NEW V, Shaped(V), ValuesFit, NEW d \in Duty, Eases(d)
    PROVE  \A e \in Duty : DutyFits(duty'[e])
<1>1. PICK r : r = AtEase
  OBVIOUS
<1>2. r.done = 0 /\ r.total = 0 /\ r.offset = 0 /\ r.excess = 0 /\ r.at = "ease"
  BY <1>1 DEF AtEase
<1>3. DutyFits(r)
  BY <1>2, OffsetsAre DEF DutyFits
<1> QED
  BY <1>1, <1>3, FitStays DEF Eases

LEMMA EntersFit ==
    ASSUME NEW V, Shaped(V), ValuesFit, NEW d \in Duty, NEW r, NEW at,
           duty' = [duty EXCEPT ![d] = r], at \notin {"recall", "adjust"},
           r.at = at, r.done = 0, r.total = 0, r.offset = 0, r.excess = 0
    PROVE  \A e \in Duty : DutyFits(duty'[e])
<1>1. DutyFits(r)
  BY OffsetsAre DEF DutyFits
<1> QED
  BY <1>1, FitStays

LEMMA BeginningFits ==
    ASSUME NEW V, Shaped(V), ValuesFit, NEW d \in Duty,
           \/ \E s \in Sitting : BeginIngest(d, s) \/ BeginAddTask(d, s) \/ BeginClose(d, s)
           \/ \E i \in Item, at \in {"tick", "remove"} : BeginTick(d, i, at)
           \/ \E s \in Sitting, v \in Verdicts : Rate(d, s, v)
    PROVE  /\ UNCHANGED <<sitting, readings, correction>>
           /\ \A e \in Duty : DutyFits(duty'[e])
<1>1. UNCHANGED <<sitting, readings, correction>>
  BY DEF BeginIngest, BeginAddTask, BeginClose, BeginTick, Rate, tables
<1>2. ASSUME NEW at \in {"reading", "end", "measure"}, NEW s, Enters(d, at, s)
      PROVE  \A e \in Duty : DutyFits(duty'[e])
  <2>1. PICK r : r = [AtEase EXCEPT !.at = at, !.s = s, !.was = sitting[s].st]
    OBVIOUS
  <2>2. r.at = at /\ r.done = 0 /\ r.total = 0 /\ r.offset = 0 /\ r.excess = 0
    BY <2>1 DEF AtEase
  <2>3. duty' = [duty EXCEPT ![d] = r]
    BY <1>2, <2>1 DEF Enters
  <2> QED
    BY <2>2, <2>3, EntersFit
<1>3. ASSUME NEW s, BeginAddTask(d, s)
      PROVE  \A e \in Duty : DutyFits(duty'[e])
  <2>1. PICK r : r = [AtEase EXCEPT !.at = "add", !.s = s, !.place = Cardinality(Listed(s))]
    OBVIOUS
  <2>2. r.at = "add" /\ r.done = 0 /\ r.total = 0 /\ r.offset = 0 /\ r.excess = 0
    BY <2>1 DEF AtEase
  <2>3. duty' = [duty EXCEPT ![d] = r]
    BY <1>3, <2>1 DEF BeginAddTask
  <2> QED
    BY <2>2, <2>3, EntersFit
<1>4. ASSUME NEW i, NEW at \in {"tick", "remove"}, BeginTick(d, i, at)
      PROVE  \A e \in Duty : DutyFits(duty'[e])
  <2>1. PICK s : s = checklist[i].of
    OBVIOUS
  <2>2. PICK r : r = [AtEase EXCEPT !.at = at, !.s = s, !.on = i, !.was = sitting[s].st]
    OBVIOUS
  <2>3. r.at = at /\ r.done = 0 /\ r.total = 0 /\ r.offset = 0 /\ r.excess = 0
    BY <2>2 DEF AtEase
  <2>4. duty' = [duty EXCEPT ![d] = r]
    BY <1>4, <2>1, <2>2 DEF BeginTick
  <2> QED
    BY <2>3, <2>4, EntersFit
<1>5. \A s : BeginIngest(d, s) => Enters(d, "reading", s)
  BY DEF BeginIngest
<1>6. \A s : BeginClose(d, s) => Enters(d, "end", s)
  BY DEF BeginClose
<1>7. \A s, v : Rate(d, s, v) => Enters(d, "measure", s)
  BY DEF Rate
<1> QED
  BY <1>1, <1>2, <1>3, <1>4, <1>5, <1>6, <1>7

\* A step after which the request is done, and which writes no score.
LEMMA WritingFits ==
    ASSUME NEW V, Shaped(V), ValuesFit, NEW d \in Duty,
           \/ \E i \in Item : CreateTask(d, i)
           \/ SetTaskComplete(d) \/ DeleteTask(d) \/ UpsertBaseline(d) \/ EstimateFails(d)
    PROVE  /\ UNCHANGED <<sitting, readings, correction>>
           /\ \A e \in Duty : DutyFits(duty'[e])
<1>1. UNCHANGED <<sitting, readings, correction>> /\ Eases(d)
  BY DEF CreateTask, SetTaskComplete, DeleteTask, UpsertBaseline, EstimateFails, tables
<1> QED
  BY <1>1, EasesFit

LEMMA StartFits ==
    ASSUME NEW V, Shaped(V), ValuesFit, NEW s \in Sitting, StartSitting(s)
    PROVE  /\ UNCHANGED <<readings, correction, duty>>
           /\ \A q \in Sitting : SittingFits(sitting'[q])
<1>1. UNCHANGED <<readings, correction, duty>> /\ sitting' = [sitting EXCEPT ![s].st = "open"]
  BY DEF StartSitting
<1>2. \A q \in Sitting : /\ sitting'[q].score = sitting[q].score
                         /\ sitting'[q].done = sitting[q].done
                         /\ sitting'[q].total = sitting[q].total
  BY <1>1 DEF Shaped, SittingOf
<1>3. \A q \in Sitting : SittingFits(sitting[q])
  BY DEF ValuesFit
<1> QED
  BY <1>1, <1>2, <1>3 DEF SittingFits

LEMMA ReadingFits ==
    ASSUME NEW V, Shaped(V), ValuesFit, NEW d \in Duty, NEW kind \in {"good", "bad"},
           CreateSample(d, kind)
    PROVE  /\ UNCHANGED <<sitting, correction>>
           /\ \A q \in Sitting : readings'[q].good + readings'[q].bad <= MaxReadings
           /\ \A e \in Duty : DutyFits(duty'[e])
<1>1. UNCHANGED <<sitting, correction>> /\ Eases(d)
  BY DEF CreateSample
<1>2. PICK s : s = duty[d].s
  OBVIOUS
<1>3. readings[s].good + readings[s].bad < MaxReadings /\ readings' = [readings EXCEPT ![s][kind] = @ + 1]
  BY <1>2 DEF CreateSample
<1>4. readings \in [Sitting -> [good : Nat, bad : Nat]] /\ MaxReadings \in Nat
  BY EstimateAssumption DEF Shaped
<1>5. ASSUME NEW q \in Sitting
      PROVE  readings'[q].good + readings'[q].bad <= MaxReadings
  <2>1. readings[q].good \in Nat /\ readings[q].bad \in Nat
    BY <1>4
  <2>2. CASE q # s
    <3>1. readings'[q] = readings[q]
      BY <1>3, <1>4, <2>2
    <3> QED
      BY <3>1 DEF ValuesFit
  <2>3. CASE q = s /\ kind = "good"
    <3>1. readings'[q].good = readings[q].good + 1 /\ readings'[q].bad = readings[q].bad
      BY <1>3, <1>4, <2>3
    <3> QED
      BY <1>3, <1>4, <2>1, <2>3, <3>1
  <2>4. CASE q = s /\ kind = "bad"
    <3>1. readings'[q].bad = readings[q].bad + 1 /\ readings'[q].good = readings[q].good
      BY <1>3, <1>4, <2>4
    <3> QED
      BY <1>3, <1>4, <2>1, <2>4, <3>1
  <2> QED
    BY <2>2, <2>3, <2>4
<1> QED
  BY <1>1, <1>5, EasesFit

\* The close.
LEMMA ClosingFits ==
    ASSUME NEW V, Shaped(V), ValuesFit, NEW d \in Duty, WriteClosed(d)
    PROVE  /\ UNCHANGED <<readings, correction>>
           /\ \A q \in Sitting : SittingFits(sitting'[q])
           /\ \A e \in Duty : DutyFits(duty'[e])
<1>1. UNCHANGED <<readings, correction>> /\ sitting' = [sitting EXCEPT ![duty[d].s].st = "ended"]
  BY DEF WriteClosed
<1>2. \A q \in Sitting : /\ sitting'[q].score = sitting[q].score
                         /\ sitting'[q].done = sitting[q].done
                         /\ sitting'[q].total = sitting[q].total
  BY <1>1 DEF Shaped, SittingOf
<1>3. \A q \in Sitting : SittingFits(sitting[q])
  BY DEF ValuesFit
<1>4. PICK r : r = [duty[d] EXCEPT !.at = "look"]
  OBVIOUS
<1>5. DutyFits(duty[d]) /\ duty[d] \in DutyOf(V)
  BY DutyTyped DEF ValuesFit
<1>6. r.at = "look" /\ r.done = duty[d].done /\ r.total = duty[d].total
        /\ r.offset = duty[d].offset /\ r.excess = duty[d].excess
  BY <1>4, <1>5 DEF DutyOf
<1>7. DutyFits(r)
  BY <1>5, <1>6 DEF DutyFits
<1>8. duty' = [duty EXCEPT ![d] = r]
  BY <1>4 DEF WriteClosed
<1> QED
  BY <1>1, <1>2, <1>3, <1>7, <1>8, FitStays DEF SittingFits

LEMMA LookingFits ==
    ASSUME NEW V, Shaped(V), ValuesFit, NEW d \in Duty,
           FindSamples(d) \/ FindTasks(d) \/ FindCalibration(d)
    PROVE  /\ UNCHANGED <<sitting, readings, correction>>
           /\ \A e \in Duty : DutyFits(duty'[e])
<1>1. UNCHANGED <<sitting, readings, correction>>
  BY DEF FindSamples, FindTasks, FindCalibration, tables
<1>2. DutyFits(duty[d]) /\ duty[d] \in DutyOf(V) /\ correction.offset \in Offsets
  BY DutyTyped DEF ValuesFit
<1>3. CASE FindSamples(d)
  <2>1. PICK g, b, k : g = readings[duty[d].s].good /\ b = readings[duty[d].s].bad /\ k = baseline
    OBVIOUS
  <2>2. PICK r : r = [duty[d] EXCEPT !.at = "list", !.good = g, !.bad = b, !.known = k,
                                     !.offset = correction.offset, !.n = correction.n]
    OBVIOUS
  <2>3. r.at = "list" /\ r.done = duty[d].done /\ r.total = duty[d].total
          /\ r.offset = correction.offset /\ r.excess = duty[d].excess
    BY <1>2, <2>2 DEF DutyOf
  <2>4. DutyFits(r)
    BY <1>2, <2>3 DEF DutyFits
  <2>5. duty' = [duty EXCEPT ![d] = r]
    BY <1>3, <2>1, <2>2 DEF FindSamples
  <2> QED
    BY <1>1, <2>4, <2>5, FitStays
<1>4. CASE FindTasks(d)
  <2>1. PICK s : s = duty[d].s
    OBVIOUS
  <2>2. PICK t \in Nat, n \in Nat :
          t = Cardinality(Listed(s)) /\ n = Cardinality(Ticked(s)) /\ n <= t
    <3>1. IsFiniteSet(Listed(s)) /\ Cardinality(Listed(s)) \in Nat /\ Cardinality(Ticked(s)) \in Nat
      BY CountsAreFinite
    <3>2. Ticked(s) \subseteq Listed(s)
      BY DEF Ticked
    <3> QED
      BY <3>1, <3>2, FS_Subset
  <2>3. PICK r : r = [duty[d] EXCEPT !.at = "score", !.total = t, !.done = n]
    OBVIOUS
  <2>4. r.at = "score" /\ r.done = n /\ r.total = t
          /\ r.offset = duty[d].offset /\ r.excess = duty[d].excess
    BY <1>2, <2>3 DEF DutyOf
  <2>5. DutyFits(r)
    BY <1>2, <2>2, <2>4 DEF DutyFits
  <2>6. duty' = [duty EXCEPT ![d] = r]
    BY <1>4, <2>1, <2>2, <2>3 DEF FindTasks
  <2> QED
    BY <1>1, <2>5, <2>6, FitStays
<1>5. CASE FindCalibration(d)
  <2>1. PICK r : r = [duty[d] EXCEPT !.at = "adjust", !.offset = correction.offset]
    OBVIOUS
  <2>2. r.at = "adjust" /\ r.done = duty[d].done /\ r.total = duty[d].total
          /\ r.offset = correction.offset /\ r.excess = duty[d].excess /\ r.n = duty[d].n
    BY <1>2, <2>1 DEF DutyOf
  <2>3. duty[d].at = "recall"
    BY <1>5 DEF FindCalibration, Doing
  <2>4. DutyFits(r)
    BY <1>2, <2>2, <2>3 DEF DutyFits
  <2>5. duty' = [duty EXCEPT ![d] = r]
    BY <1>5, <2>1 DEF FindCalibration
  <2> QED
    BY <1>1, <2>4, <2>5, FitStays
<1> QED
  BY <1>3, <1>4, <1>5

LEMMA ScoringFits ==
    ASSUME NEW V, Shaped(V), ValuesFit, NEW d \in Duty, UpdateSessionFocus(d)
    PROVE  /\ UNCHANGED <<readings, correction>>
           /\ \A q \in Sitting : SittingFits(sitting'[q])
           /\ \A e \in Duty : DutyFits(duty'[e])
<1>1. UNCHANGED <<readings, correction>>
  BY DEF UpdateSessionFocus
<1>2. PICK s : s = duty[d].s
  OBVIOUS
<1>3. DutyFits(duty[d]) /\ duty[d] \in DutyOf(V) /\ \A q \in Sitting : SittingFits(sitting[q])
  BY DutyTyped DEF ValuesFit
<1>4. CASE duty[d].good + duty[d].bad > 0
  <2>1. PICK elapsed \in 1 .. 2 :
          sitting' = [sitting EXCEPT ![s] =
             [@ EXCEPT !.total = duty[d].total, !.done = duty[d].done,
                       !.score = ApplyCalibration(ScoreSession(Facts(d, elapsed)),
                                                  duty[d].offset, duty[d].n)]]
    BY <1>2, <1>4 DEF UpdateSessionFocus
  <2>2. PICK x : x = Facts(d, elapsed)
    OBVIOUS
  <2>3. x \in Facted /\ x.done = duty[d].done /\ x.total = duty[d].total
    BY <2>2, FactsAreFacted DEF Facts
  <2>4. PICK raw : raw = ScoreSession(x)
    OBVIOUS
  <2>5. raw \in Scale
    BY <1>3, <2>3, <2>4, ScoreRange DEF Scale, DutyFits
  <2>6. PICK offset \in Int, n \in Nat : offset = duty[d].offset /\ n = duty[d].n
    <3>1. duty[d].n \in Nat
      BY DutyTyped
    <3>2. duty[d].offset \in Int
      BY <1>3, OffsetsAre DEF DutyFits
    <3> QED
      BY <3>1, <3>2
  <2>7. PICK c : c = ApplyCalibration(raw, offset, n)
    OBVIOUS
  <2>8. c \in Scale
    BY <2>5, <2>7, CorrectedRange
  <2>9. sitting' = [sitting EXCEPT ![s] = [@ EXCEPT !.total = duty[d].total, !.done = duty[d].done,
                                                    !.score = c]]
    BY <2>1, <2>2, <2>4, <2>6, <2>7
  <2>10. ASSUME NEW q \in Sitting PROVE SittingFits(sitting'[q])
    <3>1. CASE q # s
      BY <1>3, <2>9, <3>1 DEF Shaped
    <3>2. CASE q = s
      <4>1. sitting'[q].score = c /\ sitting'[q].total = duty[d].total
              /\ sitting'[q].done = duty[d].done
        BY <2>9, <3>2 DEF Shaped, SittingOf
      <4> QED
        BY <1>3, <2>8, <4>1 DEF SittingFits, DutyFits
    <3> QED
      BY <3>1, <3>2
  <2>11. PICK r : r = [duty[d] EXCEPT !.at = "fold"]
    OBVIOUS
  <2>12. r.at = "fold" /\ r.done = duty[d].done /\ r.total = duty[d].total
           /\ r.offset = duty[d].offset /\ r.excess = duty[d].excess
    BY <1>3, <2>11 DEF DutyOf
  <2>13. DutyFits(r)
    BY <1>3, <2>12 DEF DutyFits
  <2>14. duty' = [duty EXCEPT ![d] = r]
    BY <1>4, <2>11 DEF UpdateSessionFocus
  <2> QED
    BY <1>1, <2>10, <2>13, <2>14, FitStays
<1>5. CASE ~ (duty[d].good + duty[d].bad > 0)
  <2>1. sitting' = [sitting EXCEPT ![s].score = NoScore] /\ Eases(d)
    BY <1>2, <1>5 DEF UpdateSessionFocus
  <2>2. ASSUME NEW q \in Sitting PROVE SittingFits(sitting'[q])
    <3>1. CASE q # s
      BY <1>3, <2>1, <3>1 DEF Shaped
    <3>2. CASE q = s
      <4>1. sitting'[q].score = NoScore /\ sitting'[q].total = sitting[q].total
              /\ sitting'[q].done = sitting[q].done
        BY <2>1, <3>2 DEF Shaped, SittingOf
      <4> QED
        BY <1>3, <4>1 DEF SittingFits, Scale
    <3> QED
      BY <3>1, <3>2
  <2> QED
    BY <1>1, <2>1, <2>2, EasesFit
<1> QED
  BY <1>4, <1>5

\* The rating.
LEMMA RecallingFits ==
    ASSUME NEW V, Shaped(V), ValuesFit, NEW d \in Duty, FindRated(d)
    PROVE  /\ UNCHANGED <<sitting, readings, correction>>
           /\ \A e \in Duty : DutyFits(duty'[e])
<1>1. UNCHANGED <<sitting, readings, correction>>
  BY DEF FindRated, tables
<1>2. DutyFits(duty[d]) /\ duty[d] \in DutyOf(V)
  BY DutyTyped DEF ValuesFit
<1>3. PICK n \in Nat, x \in Int : n = Cardinality(Usable) /\ x = Excess
  BY CountsAreFinite, ExcessIsInt
<1>4. CASE n < MinRatings
  BY <1>1, <1>3, <1>4, EasesFit DEF FindRated
<1>5. CASE ~ (n < MinRatings)
  <2>1. n >= 1
    BY <1>5, ScoringAssumption
  <2>2. PICK r : r = [duty[d] EXCEPT !.at = "recall", !.n = n, !.excess = x]
    OBVIOUS
  <2>3. r.at = "recall" /\ r.done = duty[d].done /\ r.total = duty[d].total
          /\ r.offset = duty[d].offset /\ r.excess = x /\ r.n = n
    BY <1>2, <2>2 DEF DutyOf
  <2>4. DutyFits(r)
    BY <1>2, <2>1, <2>3 DEF DutyFits
  <2>5. duty' = [duty EXCEPT ![d] = r]
    BY <1>3, <1>5, <2>2 DEF FindRated
  <2> QED
    BY <1>1, <2>4, <2>5, FitStays
<1> QED
  BY <1>4, <1>5

LEMMA AdjustingFits ==
    ASSUME NEW V, Shaped(V), ValuesFit, NEW d \in Duty, UpsertCalibration(d)
    PROVE  /\ UNCHANGED <<sitting, readings>> /\ correction'.offset \in Offsets
           /\ \A e \in Duty : DutyFits(duty'[e])
<1>1. UNCHANGED <<sitting, readings>> /\ Eases(d) /\ duty[d].at = "adjust"
  BY DEF UpsertCalibration, Doing
<1>2. DutyFits(duty[d]) /\ duty[d].n \in Nat
  BY DutyTyped DEF ValuesFit
<1>3. PICK offset \in Offsets, excess \in Int, n \in Nat :
        offset = duty[d].offset /\ excess = duty[d].excess /\ n = duty[d].n /\ n >= 1
  BY <1>1, <1>2 DEF DutyFits
<1>4. correction'.offset = NextCalibrationOffset(offset, excess, n)
  BY <1>3 DEF UpsertCalibration
<1> QED
  BY <1>1, <1>3, <1>4, EasesFit, NextOffsetRange

LEMMA ValuesStart == EstimateInit => ValuesFit
<1> SUFFICES ASSUME EstimateInit PROVE ValuesFit
  OBVIOUS
<1>1. PICK r : r = AtEase
  OBVIOUS
<1>2. r.done = 0 /\ r.total = 0 /\ r.offset = 0 /\ r.excess = 0 /\ r.at = "ease"
  BY <1>1 DEF AtEase
<1>3. DutyFits(r)
  BY <1>2, OffsetsAre DEF DutyFits
<1>4. \A d \in Duty : DutyFits(duty[d])
  BY <1>1, <1>3 DEF EstimateInit
<1>5. \A s \in Sitting : SittingFits(sitting[s])
  BY DEF EstimateInit, NewSitting, SittingFits, Scale
<1>6. \A s \in Sitting : readings[s].good + readings[s].bad <= MaxReadings
  BY EstimateAssumption DEF EstimateInit
<1>7. correction.offset \in Offsets
  BY OffsetsAre DEF EstimateInit
<1> QED
  BY <1>4, <1>5, <1>6, <1>7 DEF ValuesFit

LEMMA ValuesStep ==
    ASSUME NEW V, Shaped(V), ValuesFit, [EstimateNext]_estimateVars
    PROVE  ValuesFit'
<1> DEFINE SittingsFit == \A q \in Sitting : SittingFits(sitting'[q])
           DutiesFit == \A e \in Duty : DutyFits(duty'[e])
<1>1. UNCHANGED sitting => SittingsFit
  BY DEF ValuesFit
<1>2. UNCHANGED duty => DutiesFit
  BY DEF ValuesFit
<1>3. UNCHANGED readings =>
        \A q \in Sitting : readings'[q].good + readings'[q].bad <= MaxReadings
  BY DEF ValuesFit
<1>4. UNCHANGED correction => correction'.offset \in Offsets
  BY DEF ValuesFit
<1> DEFINE Fine ==
        /\ SittingsFit /\ DutiesFit /\ correction'.offset \in Offsets
        /\ \A q \in Sitting : readings'[q].good + readings'[q].bad <= MaxReadings
<1>5. SUFFICES Fine
  <2>1. Fine => ValuesFit'
    BY DEF ValuesFit, SittingFits, DutyFits
  <2> QED
    BY <2>1
<1>6. ASSUME UNCHANGED <<sitting, readings, correction>>, DutiesFit PROVE Fine
  BY <1>1, <1>3, <1>4, <1>6
<1>7. CASE UNCHANGED estimateVars
  BY <1>2, <1>6, <1>7 DEF estimateVars
<1> HIDE DEF SittingsFit, DutiesFit
<1>8. CASE \E s \in Sitting : StartSitting(s)
  BY <1>2, <1>3, <1>4, <1>8, StartFits DEF SittingsFit
<1>9. ASSUME NEW d \in Duty,
             \/ \E s \in Sitting : BeginIngest(d, s) \/ BeginAddTask(d, s) \/ BeginClose(d, s)
             \/ \E i \in Item, at \in {"tick", "remove"} : BeginTick(d, i, at)
             \/ \E s \in Sitting, v \in Verdicts : Rate(d, s, v)
      PROVE  Fine
  BY <1>6, <1>9, BeginningFits DEF DutiesFit
<1>10. ASSUME NEW d \in Duty,
              \/ \E i \in Item : CreateTask(d, i)
              \/ SetTaskComplete(d) \/ DeleteTask(d) \/ UpsertBaseline(d) \/ EstimateFails(d)
       PROVE  Fine
  BY <1>6, <1>10, WritingFits DEF DutiesFit
<1>11. ASSUME NEW d \in Duty, NEW kind \in {"good", "bad"}, CreateSample(d, kind)
       PROVE  Fine
  BY <1>1, <1>4, <1>11, ReadingFits DEF DutiesFit
<1>12. ASSUME NEW d \in Duty, WriteClosed(d)
       PROVE  Fine
  BY <1>3, <1>4, <1>12, ClosingFits DEF DutiesFit, SittingsFit
<1>13. ASSUME NEW d \in Duty, FindSamples(d) \/ FindTasks(d) \/ FindCalibration(d)
       PROVE  Fine
  BY <1>6, <1>13, LookingFits DEF DutiesFit
<1>14. ASSUME NEW d \in Duty, UpdateSessionFocus(d)
       PROVE  Fine
  BY <1>3, <1>4, <1>14, ScoringFits DEF DutiesFit, SittingsFit
<1>15. ASSUME NEW d \in Duty, FindRated(d)
       PROVE  Fine
  BY <1>6, <1>15, RecallingFits DEF DutiesFit
<1>16. ASSUME NEW d \in Duty, UpsertCalibration(d)
       PROVE  Fine
  BY <1>1, <1>3, <1>16, AdjustingFits DEF DutiesFit
<1> HIDE DEF Fine
<1> QED
  BY <1>7, <1>8, <1>9, <1>10, <1>11, <1>12, <1>13, <1>14, <1>15, <1>16 DEF EstimateNext

LEMMA EstimateTyped == EstimateInv /\ ValuesFit => EstimateTypeOK
<1> SUFFICES ASSUME EstimateInv, ValuesFit PROVE EstimateTypeOK
  OBVIOUS
<1>1. PICK V : Shaped(V)
  BY DEF EstimateInv
<1>2. ASSUME NEW s \in Sitting
      PROVE  /\ sitting[s].st \in {"new", "open", "ended"}
             /\ sitting[s].score \in {NoScore} \cup 0 .. 100
             /\ sitting[s].done <= sitting[s].total
             /\ readings[s].good + readings[s].bad <= MaxReadings
  BY <1>1 DEF Shaped, SittingOf, ValuesFit, SittingFits, Scale
<1>3. \A i \in Item : checklist[i].of \in Sitting \cup {NoSitting}
  BY <1>1 DEF Shaped, ListedAs
<1>4. correction.offset \in -MaxOffset * Grain .. MaxOffset * Grain
  BY DEF ValuesFit, Offsets
<1>5. missed \subseteq Sitting /\ shuffled \subseteq Sitting
  BY <1>1 DEF Shaped
<1> QED
  BY <1>2, <1>3, <1>4, <1>5 DEF EstimateTypeOK

\* A score stays between 0 and 100 whatever the correction, no session counts more
\* done than listed, an offset stays within MAX_CALIBRATION_OFFSET (applyCalibration,
\* nextCalibrationOffset, finaliseSessionFocus).
THEOREM EstimateTypeCorrect == EstimateSpec => []EstimateTypeOK
<1>1. EstimateInit => EstimateInv /\ ValuesFit
  BY EstimateStart, ValuesStart
<1>2. EstimateInv /\ ValuesFit /\ [EstimateNext]_estimateVars => (EstimateInv /\ ValuesFit)'
  <2> SUFFICES ASSUME EstimateInv, ValuesFit, [EstimateNext]_estimateVars
               PROVE  EstimateInv' /\ ValuesFit'
    OBVIOUS
  <2>1. PICK V : Shaped(V)
    BY DEF EstimateInv
  <2> QED
    BY <2>1, EstimateStep, ValuesStep
<1> QED
  BY <1>1, <1>2, EstimateTyped, PTL DEF EstimateSpec

\* The two parts run together are each what they are alone: what is proved of
\* TokensSpec and of EstimateSpec holds of a behaviour of both.
THEOREM RecordsAreTheirParts == Spec => TokensSpec /\ EstimateSpec
<1>1. Init => TokensInit /\ EstimateInit
  BY DEF Init
<1>2. [Next]_recordVars => [TokensNext]_tokenVars /\ [EstimateNext]_estimateVars
  BY DEF Next, In, recordVars
<1> QED
  BY <1>1, <1>2, PTL DEF Spec, TokensSpec, EstimateSpec

\* Every value of both parts keeps its type (token.service.js, focus.service.js).
THEOREM RecordsAreTyped == Spec => []TypeOK
<1> DEFINE Inv == TokensTypeOK /\ EstimateInv /\ ValuesFit
<1>1. Init => Inv
  BY InitIInv, EstimateStart, ValuesStart DEF Init, IInv
<1>2. Inv /\ [Next]_recordVars => Inv'
  <2> SUFFICES ASSUME Inv, [Next]_recordVars PROVE Inv'
    OBVIOUS
  <2>1. [TokensNext]_tokenVars /\ [EstimateNext]_estimateVars
    BY DEF Next, In, recordVars
  <2>2. TokensTypeOK'
    BY <2>1, TypeStep
  <2>3. EstimateInv'
    BY <2>1, EstimateStep
  <2>4. ValuesFit'
    <3>1. PICK V : Shaped(V)
      BY DEF EstimateInv
    <3> QED
      BY <2>1, <3>1, ValuesStep
  <2> QED
    BY <2>2, <2>3, <2>4
<1>3. Inv => TypeOK
  BY EstimateTyped DEF TypeOK
<1> QED
  BY <1>1, <1>2, <1>3, PTL DEF Spec

\* Both halves of the arithmetic, in every state of a run (focusScoring.js).
THEOREM ScoringSound == Spec => []ScoringIsSound
<1>1. ScoringIsSound
  BY ScoredAreFair, BaselineOfFew DEF ScoringIsSound
<1> QED
  BY <1>1, PTL
=============================================================================
