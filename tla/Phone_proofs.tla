----------------------------- MODULE Phone_proofs -----------------------------
(***************************************************************************)
(* Proofs about PhoneSession and FocusClient, for any number of tokens and *)
(* sessions and of times the app is killed, and about the two beside the   *)
(* server (MC_Live).  In both, what a property is about is spread over     *)
(* memory, the storage's pending writes and the requests in flight, so     *)
(* each invariant says who holds which token, or which session's id, at    *)
(* every moment.                                                           *)
(***************************************************************************)
EXTENDS MC_Live, SequenceTheorems, TLAPS

-----------------------------------------------------------------------------
\* The phone's sign-in.

\* What the store will hold once its writes are done.
StoreToBe == IF writes = <<>> THEN store ELSE writes[Len(writes)]

\* The token an answer on its way to the phone brings.
Brought(c) == IF c.answer = "ok" THEN {c.gets} ELSE {}

\* A request sends what its kind sends; only one that was answered has an answer.
WellFormed ==
    /\ call.kind # "refresh" /\ refresh.kind \in {"none", "refresh"}
    /\ call.kind = "login" => call.sends = NoToken
    /\ call.kind = "restore" => call.sends \in Token
    /\ refresh.kind = "refresh" => refresh.sends \in Token
    /\ \A c \in {call, refresh} : /\ c.kind = "none" => c = Quiet
                                  /\ c.answer = "ok" => c.gets \in Token

\* Nobody who is signed in signs in; a launch has nothing else under way.
OneAtATime ==
    /\ call.kind # "none" => session = NoToken
    /\ call.kind = "restore" => refresh = Quiet /\ farewells = {}

\* The store is on its way to what the session wants remembered, and to nothing
\* when there is none.
StoreFollows ==
    /\ session # NoToken => StoreToBe = IF remember THEN session ELSE NoToken
    /\ session = NoToken /\ call.kind # "restore" /\ ~ upset => StoreToBe = NoToken

\* Without a loss every request was sent a good token and none is refused.
AnswersAreGood ==
    /\ call.answer # "401" /\ refresh.answer # "401"
    /\ \A t \in Brought(call) \cup Brought(refresh) : tok[t] = "live"
    /\ call.kind = "restore" /\ call.answer = "none" => tok[call.sends] = "live"
    /\ refresh.kind = "refresh" /\ refresh.answer = "none" =>
         session = refresh.sends /\ tok[session] = "live"
    /\ session # NoToken =>
         \/ tok[session] = "live"
         \/ refresh.sends = session /\ refresh.answer = "ok"
    /\ refresh.answer = "ok" => tok[refresh.sends] = "revoked"

\* Without a loss a token has one holder: the session, an answer or a farewell.
HeldApart ==
    /\ farewells \cap ({session} \cup Brought(call) \cup Brought(refresh)) = {}
    /\ session \notin Brought(call) \cup Brought(refresh)
    /\ Brought(call) \cap Brought(refresh) = {}
    /\ \A t \in farewells : tok[t] # "absent"

\* Without a loss a good token has a holder.
NoneIsLost ==
    \A t \in Token : tok[t] = "live" =>
        \/ t = session \/ t \in farewells \cup Brought(call) \cup Brought(refresh)
        \/ call.kind = "restore" /\ call.answer = "none" /\ call.sends = t

\* Who holds what, at every moment.
PhoneInv ==
    /\ PhoneTypeOK /\ WellFormed /\ OneAtATime /\ StoreFollows
    /\ ~ upset => AnswersAreGood /\ HeldApart /\ NoneIsLost

-----------------------------------------------------------------------------
\* The type invariant, one variable at a time.
LEMMA Typed ==
    PhoneTypeOK <=> /\ tok \in [Token -> {"absent", "live", "revoked"}]
                    /\ session \in MaybeToken /\ store \in MaybeToken
                    /\ writes \in Seq(MaybeToken)
                    /\ call \in Calls /\ refresh \in Calls
                    /\ farewells \subseteq Token
                    /\ remember \in BOOLEAN /\ restored \in BOOLEAN /\ upset \in BOOLEAN
  BY DEF PhoneTypeOK

LEMMA QuietIsACall == Quiet \in Calls /\ Quiet.kind = "none" /\ Quiet.answer = "none"
  BY DEF Quiet, Calls, MaybeToken

\* A request that was served is a request with its answer.
LEMMA ServedIsACall ==
    ASSUME NEW c \in Calls, NEW t \in Token, Served(c, t)
    PROVE  /\ ServedAnswer(c, t) \in Calls
           /\ ServedAnswer(c, t).kind = c.kind /\ ServedAnswer(c, t).sends = c.sends
           /\ IF c.sends = NoToken \/ tok[c.sends] = "live"
                THEN ServedAnswer(c, t).answer = "ok" /\ ServedAnswer(c, t).gets = t
                ELSE ServedAnswer(c, t).answer = "401"
<1>1. CASE c.sends = NoToken \/ tok[c.sends] = "live"
  <2>1. ServedAnswer(c, t) = [kind |-> c.kind, sends |-> c.sends, gets |-> t, answer |-> "ok"]
    BY <1>1 DEF ServedAnswer, Calls
  <2> QED
    BY <1>1, <2>1 DEF Calls, MaybeToken
<1>2. CASE ~ (c.sends = NoToken \/ tok[c.sends] = "live")
  <2>1. ServedAnswer(c, t) = [kind |-> c.kind, sends |-> c.sends, gets |-> c.gets,
                              answer |-> "401"]
    BY <1>2 DEF ServedAnswer, Calls
  <2> QED
    BY <1>2, <2>1 DEF Calls, MaybeToken
<1> QED
  BY <1>1, <1>2

\* A write that is added is what the store will hold; one that is done changes
\* nothing about that.
LEMMA SettledMoves ==
    ASSUME PhoneTypeOK
    PROVE  /\ \A t \in MaybeToken : UNCHANGED store /\ writes' = Append(writes, t) =>
                writes' \in Seq(MaybeToken) /\ StoreToBe' = t
           /\ WriteStore => writes' \in Seq(MaybeToken) /\ StoreToBe' = StoreToBe
                            /\ store' \in MaybeToken
<1>1. writes \in Seq(MaybeToken)
  BY DEF PhoneTypeOK
<1>2. ASSUME NEW t \in MaybeToken, store' = store, writes' = Append(writes, t)
      PROVE  writes' \in Seq(MaybeToken) /\ StoreToBe' = t
  BY <1>1, <1>2 DEF StoreToBe
<1>3. ASSUME WriteStore
      PROVE  writes' \in Seq(MaybeToken) /\ StoreToBe' = StoreToBe /\ store' \in MaybeToken
  <2>1. writes # <<>> /\ store' = Head(writes) /\ writes' = Tail(writes)
    BY <1>3 DEF WriteStore
  <2>2. CASE Len(writes) = 1
    BY <1>1, <2>1, <2>2 DEF StoreToBe
  <2>3. CASE Len(writes) # 1
    <3>1. Len(writes) \in Nat /\ Len(writes) > 1
      <4>1. Len(writes) \in Nat
        BY <1>1, LenProperties
      <4>2. Len(writes) # 0
        BY <1>1, <2>1, EmptySeq
      <4>3. \A n \in Nat : n # 0 /\ n # 1 => n > 1
        OBVIOUS
      <4> QED
        BY <2>3, <4>1, <4>2, <4>3
    <3>2. /\ Tail(writes) # <<>> /\ Len(Tail(writes)) = Len(writes) - 1
          /\ Tail(writes)[Len(writes) - 1] = writes[Len(writes)]
          /\ Tail(writes) \in Seq(MaybeToken) /\ Head(writes) \in MaybeToken
      <4>1. /\ Head(writes) \in MaybeToken /\ Tail(writes) \in Seq(MaybeToken)
            /\ Len(Tail(writes)) = Len(writes) - 1
            /\ \A i \in 1 .. Len(Tail(writes)) : Tail(writes)[i] = writes[i + 1]
        BY <1>1, <2>1, HeadTailProperties
      <4>2. Tail(writes) # <<>>
        BY <3>1, <4>1
      <4>3. /\ Len(writes) - 1 \in 1 .. Len(Tail(writes))
            /\ (Len(writes) - 1) + 1 = Len(writes)
        BY <3>1, <4>1
      <4> QED
        BY <4>1, <4>2, <4>3
    <3> QED
      BY <2>1, <3>1, <3>2 DEF StoreToBe
  <2> QED
    BY <2>2, <2>3
<1> QED
  BY <1>2, <1>3

LEMMA PhoneStart == PhoneInit => PhoneInv
<1> SUFFICES ASSUME PhoneInit PROVE PhoneInv
  OBVIOUS
<1> USE DEF PhoneInit
<1>1. PhoneTypeOK
  <2>1. tok \in [Token -> {"absent", "live", "revoked"}] /\ writes \in Seq(MaybeToken)
    BY EmptySeq
  <2>2. session \in MaybeToken /\ store \in MaybeToken
    BY DEF MaybeToken
  <2> QED
    BY <2>1, <2>2, QuietIsACall DEF PhoneTypeOK
<1>2. WellFormed /\ OneAtATime
  BY QuietIsACall DEF WellFormed, OneAtATime
<1>3. StoreToBe = NoToken /\ Brought(call) = {} /\ Brought(refresh) = {}
  BY QuietIsACall DEF StoreToBe, Brought
<1>4. StoreFollows /\ AnswersAreGood /\ HeldApart /\ NoneIsLost
  BY <1>3, QuietIsACall DEF StoreFollows, AnswersAreGood, HeldApart, NoneIsLost
<1> QED
  BY <1>1, <1>2, <1>4 DEF PhoneInv

\* What the phone does by itself.
LEMMA SendLoginKeeps ==
    ASSUME PhoneAssumption, PhoneInv, NEW r \in BOOLEAN, SendLogin(r)
    PROVE  PhoneInv'
<1> USE DEF PhoneInv, SendLogin, Quiet, away
<1>1. PhoneTypeOK' /\ WellFormed'
  BY DEF PhoneTypeOK, WellFormed, Calls, MaybeToken
<1>2. StoreToBe' = StoreToBe /\ Brought(call)' = Brought(call) /\ Brought(refresh)' = Brought(refresh)
  BY DEF StoreToBe, Brought
<1>3. OneAtATime' /\ StoreFollows'
  BY <1>2 DEF OneAtATime, StoreFollows
<1>4. ~ upset => AnswersAreGood' /\ HeldApart' /\ NoneIsLost'
  BY <1>2 DEF AnswersAreGood, HeldApart, NoneIsLost
<1> QED
  BY <1>1, <1>3, <1>4

LEMMA SendRefreshKeeps ==
    ASSUME PhoneAssumption, PhoneInv, SendRefresh
    PROVE  PhoneInv'
<1> USE DEF PhoneInv
<1>1. /\ session \in Token /\ refresh = Quiet /\ call.kind = "none"
      /\ refresh' = [kind |-> "refresh", sends |-> session, gets |-> NoToken, answer |-> "none"]
      /\ UNCHANGED <<tok, session, remember, store, writes, restored, call, farewells, kills, upset>>
  BY Typed DEF SendRefresh, Quiet, away, MaybeToken, OneAtATime
<1>2. refresh' \in Calls
  BY <1>1 DEF Calls, MaybeToken
<1>3. PhoneTypeOK'
  BY <1>1, <1>2 DEF PhoneTypeOK
<1>4. /\ refresh'.kind = "refresh" /\ refresh'.sends = session /\ refresh'.answer = "none"
  BY <1>1
<1>5. WellFormed'
  BY <1>1, <1>4 DEF WellFormed
<1>6. StoreToBe' = StoreToBe /\ Brought(call)' = Brought(call) /\ Brought(refresh)' = Brought(refresh)
  BY <1>1, <1>4, QuietIsACall DEF StoreToBe, Brought
<1>7. OneAtATime' /\ StoreFollows'
  BY <1>1, <1>4, <1>6 DEF OneAtATime, StoreFollows
<1>8. ~ upset => AnswersAreGood' /\ HeldApart' /\ NoneIsLost'
  <2> SUFFICES ASSUME ~ upset PROVE AnswersAreGood' /\ HeldApart' /\ NoneIsLost'
    OBVIOUS
  <2>1. tok[session] = "live"
    BY <1>1, QuietIsACall, PhoneAssumption DEF AnswersAreGood
  <2>2. AnswersAreGood'
    BY <1>1, <1>4, <1>6, <2>1 DEF AnswersAreGood
  <2>3. HeldApart' /\ NoneIsLost'
    BY <1>1, <1>6 DEF HeldApart, NoneIsLost
  <2> QED
    BY <2>2, <2>3
<1> QED
  BY <1>1, <1>3, <1>5, <1>7, <1>8

\* The server answers: a new token for a good one, without a loss.
LEMMA ServeKeeps ==
    ASSUME PhoneAssumption, PhoneInv, NEW t \in Token, ServeCall(t) \/ ServeRefresh(t)
    PROVE  PhoneInv'
<1> USE DEF PhoneInv
<1>1. PhoneTypeOK' /\ WellFormed' /\ OneAtATime' /\ StoreFollows'
  <2>1. tok' \in [Token -> {"absent", "live", "revoked"}]
    <3>1. ASSUME NEW c \in Calls, Served(c, t)
          PROVE  tok' \in [Token -> {"absent", "live", "revoked"}]
      BY <3>1, Typed DEF Served, RevokeAll
    <3> QED
      BY <3>1, Typed DEF ServeCall, ServeRefresh
  <2>2. /\ UNCHANGED <<session, remember, store, writes, restored, farewells, kills, upset>>
        /\ StoreToBe' = StoreToBe
    BY DEF ServeCall, ServeRefresh, away, StoreToBe
  <2>3. CASE ServeCall(t)
    <3>1. /\ call' \in Calls /\ call'.kind = call.kind /\ call'.sends = call.sends
          /\ call'.answer = "ok" => call'.gets = t
          /\ refresh' = refresh /\ call.kind # "none"
      BY <2>3, ServedIsACall, Typed DEF ServeCall, Served
    <3>2. PhoneTypeOK'
      BY <2>1, <2>2, <3>1 DEF PhoneTypeOK
    <3>3. WellFormed'
      BY <3>1 DEF WellFormed
    <3> QED
      BY <2>2, <3>1, <3>2, <3>3 DEF OneAtATime, StoreFollows
  <2>4. CASE ServeRefresh(t)
    <3>1. /\ refresh' \in Calls /\ refresh'.kind = refresh.kind /\ refresh'.sends = refresh.sends
          /\ refresh'.answer = "ok" => refresh'.gets = t
          /\ call' = call /\ refresh.kind # "none"
      BY <2>4, ServedIsACall, Typed DEF ServeRefresh, Served
    <3>2. PhoneTypeOK'
      BY <2>1, <2>2, <3>1 DEF PhoneTypeOK
    <3>3. WellFormed'
      BY <3>1 DEF WellFormed
    <3>4. call.kind # "restore"
      BY <3>1, QuietIsACall DEF OneAtATime
    <3> QED
      BY <2>2, <3>1, <3>2, <3>3, <3>4 DEF OneAtATime, StoreFollows
  <2> QED
    BY <2>3, <2>4
<1>3. ASSUME ~ upset PROVE AnswersAreGood' /\ HeldApart' /\ NoneIsLost'
  <2>1. CASE ServeCall(t)
    <3>1. call.sends = NoToken \/ (call.sends \in Token /\ tok[call.sends] = "live")
      BY <1>3, <2>1 DEF ServeCall, Served, AnswersAreGood, WellFormed, PhoneTypeOK, Calls
    <3>2. /\ tok[t] = "absent" /\ tok'[t] = "live" /\ call.answer = "none"
          /\ call.sends # NoToken => tok'[call.sends] = "revoked"
          /\ \A u \in Token \ {t, call.sends} : tok'[u] = tok[u]
          /\ Brought(call)' = {t} /\ Brought(call) = {} /\ call'.answer = "ok"
          /\ call'.kind = call.kind /\ call'.sends = call.sends
      BY <2>1, <3>1 DEF ServeCall, Served, ServedAnswer, PhoneTypeOK, Calls, Brought
    <3>3. /\ session = NoToken /\ UNCHANGED <<session, refresh, farewells>>
          /\ Brought(refresh)' = Brought(refresh)
          /\ call.sends # NoToken => farewells = {} /\ refresh = Quiet
      BY <2>1 DEF ServeCall, Served, OneAtATime, WellFormed, PhoneTypeOK, Calls, Brought, away, Quiet
    <3>4. Brought(refresh) \subseteq Token /\ (refresh = Quiet => Brought(refresh) = {})
      BY DEF Brought, WellFormed, Quiet
    <3>5. AnswersAreGood'
      BY <1>3, <3>2, <3>3, <3>4 DEF AnswersAreGood, Brought, Quiet, WellFormed
    <3>6. HeldApart'
      BY <1>3, <3>2, <3>3, <3>4 DEF AnswersAreGood, HeldApart, PhoneTypeOK
    <3>7. NoneIsLost'
      BY <1>3, <3>2, <3>3 DEF NoneIsLost
    <3> QED
      BY <3>5, <3>6, <3>7
  <2>2. CASE ServeRefresh(t)
    <3>1. refresh.sends \in Token /\ tok[refresh.sends] = "live" /\ session = refresh.sends
      BY <1>3, <2>2 DEF ServeRefresh, Served, AnswersAreGood, WellFormed
    <3>2. /\ tok[t] = "absent" /\ tok'[t] = "live" /\ refresh.answer = "none"
          /\ tok'[session] = "revoked"
          /\ \A u \in Token \ {t, session} : tok'[u] = tok[u]
          /\ Brought(refresh)' = {t} /\ Brought(refresh) = {} /\ refresh'.answer = "ok"
          /\ refresh'.kind = refresh.kind /\ refresh'.sends = refresh.sends
      BY <2>2, <3>1 DEF ServeRefresh, Served, ServedAnswer, PhoneTypeOK, Calls, Brought
    <3>3. /\ call.kind = "none" /\ Brought(call) = {} /\ session # NoToken
          /\ UNCHANGED <<session, call, farewells>> /\ Brought(call)' = Brought(call)
      BY <2>2, <3>1 DEF ServeRefresh, OneAtATime, WellFormed, Brought, away, Quiet, PhoneAssumption
    <3>4. farewells \subseteq Token /\ session \notin farewells
      BY <1>3 DEF HeldApart, PhoneTypeOK
    <3>5. AnswersAreGood'
      BY <1>3, <3>1, <3>2, <3>3 DEF AnswersAreGood
    <3>6. HeldApart'
      BY <1>3, <3>1, <3>2, <3>3, <3>4 DEF HeldApart
    <3>7. NoneIsLost'
      BY <1>3, <3>1, <3>2, <3>3 DEF NoneIsLost
    <3> QED
      BY <3>5, <3>6, <3>7
  <2> QED
    BY <2>1, <2>2
<1>4. upset' = upset
  BY DEF ServeCall, ServeRefresh, away
<1> QED
  BY <1>1, <1>3, <1>4

\* What comes back to the phone.
LEMMA CallAnsweredKeeps ==
    ASSUME PhoneAssumption, PhoneInv, LoginAnswered \/ RestoreAnswered
    PROVE  PhoneInv'
<1> USE DEF PhoneInv
<1>1. /\ call.kind # "none" /\ call.answer # "none" /\ call' = Quiet /\ session = NoToken
      /\ UNCHANGED <<tok, store, refresh, farewells, kills, upset>>
  BY DEF LoginAnswered, RestoreAnswered, away, OneAtATime
<1>2. CASE call.answer = "ok"
  <2>1. /\ call.gets \in Token /\ session' = call.gets
        /\ writes' = Append(writes, IF remember' THEN session' ELSE NoToken)
        /\ remember' \in BOOLEAN /\ restored' \in BOOLEAN
    <3>1. call.gets \in Token
      BY <1>2 DEF WellFormed
    <3>2. CASE LoginAnswered
      BY <3>1, <3>2, Typed DEF LoginAnswered, SetSession
    <3>3. CASE RestoreAnswered
      BY <1>2, <3>1, <3>3 DEF RestoreAnswered, SetSession
    <3> QED
      BY <3>2, <3>3
  <2>2. /\ writes' \in Seq(MaybeToken)
        /\ StoreToBe' = IF remember' THEN session' ELSE NoToken
    BY <1>1, <2>1, SettledMoves DEF MaybeToken
  <2>3. PhoneTypeOK' /\ WellFormed' /\ OneAtATime' /\ StoreFollows'
    <3>1. session' \in MaybeToken /\ farewells' \subseteq Token /\ remember' \in BOOLEAN
      BY <1>1, <2>1, <2>2, Typed DEF MaybeToken
    <3>2. call' \in Calls /\ refresh' \in Calls /\ restored' \in BOOLEAN
      BY <1>1, <2>1, Typed, QuietIsACall
    <3>3. PhoneTypeOK'
      BY <1>1, <2>1, <2>2, <3>1, <3>2 DEF PhoneTypeOK
    <3>4. WellFormed' /\ OneAtATime'
      BY <1>1, <2>1, <2>2, QuietIsACall, PhoneAssumption DEF WellFormed, OneAtATime
    <3>5. StoreFollows'
      BY <1>1, <2>1, <2>2, QuietIsACall, PhoneAssumption DEF StoreFollows
    <3> QED
      BY <3>3, <3>4, <3>5
  <2>4. /\ Brought(call) = {session'} /\ Brought(call)' = {}
        /\ Brought(refresh)' = Brought(refresh)
    BY <1>1, <1>2, <2>1 DEF Brought, Quiet
  <2>5. ASSUME ~ upset PROVE AnswersAreGood' /\ HeldApart' /\ NoneIsLost'
    <3>1. AnswersAreGood'
      BY <1>1, <2>1, <2>4, <2>5 DEF AnswersAreGood, Quiet, WellFormed, PhoneAssumption
    <3>2. HeldApart'
      BY <1>1, <2>1, <2>4, <2>5 DEF HeldApart
    <3>3. NoneIsLost'
      BY <1>1, <1>2, <2>1, <2>4, <2>5 DEF NoneIsLost, PhoneAssumption
    <3> QED
      BY <3>1, <3>2, <3>3
  <2> QED
    BY <1>1, <2>3, <2>5
<1>3. CASE call.answer # "ok"
  <2>1. /\ call.kind = "restore" /\ call.answer = "401"
        /\ writes' = Append(writes, NoToken) /\ UNCHANGED <<session, remember>>
        /\ restored' = TRUE
    BY <1>1, <1>3 DEF LoginAnswered, RestoreAnswered, PhoneTypeOK, Calls
  <2>2. writes' \in Seq(MaybeToken) /\ StoreToBe' = NoToken
    BY <1>1, <2>1, SettledMoves DEF MaybeToken
  <2>3. PhoneTypeOK' /\ WellFormed' /\ OneAtATime' /\ StoreFollows'
    <3>1. session' \in MaybeToken /\ farewells' \subseteq Token /\ remember' \in BOOLEAN
      BY <1>1, <2>1, <2>2, Typed DEF MaybeToken
    <3>2. call' \in Calls /\ refresh' \in Calls /\ restored' \in BOOLEAN
      BY <1>1, <2>1, Typed, QuietIsACall
    <3>3. PhoneTypeOK'
      BY <1>1, <2>1, <2>2, <3>1, <3>2 DEF PhoneTypeOK
    <3>4. WellFormed' /\ OneAtATime'
      BY <1>1, <2>1, <2>2, QuietIsACall, PhoneAssumption DEF WellFormed, OneAtATime
    <3>5. StoreFollows'
      BY <1>1, <2>1, <2>2, QuietIsACall, PhoneAssumption DEF StoreFollows
    <3> QED
      BY <3>3, <3>4, <3>5
  <2>4. upset
    BY <2>1 DEF AnswersAreGood
  <2> QED
    BY <1>1, <2>3, <2>4
<1> QED
  BY <1>2, <1>3

LEMMA RefreshAnsweredKeeps ==
    ASSUME PhoneAssumption, PhoneInv, RefreshAnswered
    PROVE  PhoneInv'
<1> USE DEF PhoneInv
<1>1. /\ refresh.answer # "none" /\ refresh.kind = "refresh" /\ refresh.sends \in Token
      /\ refresh' = Quiet /\ UNCHANGED <<tok, store, restored, call, kills, upset>>
      /\ call.kind # "restore" /\ (call.kind # "none" => session = NoToken)
  BY DEF RefreshAnswered, WellFormed, Quiet, OneAtATime
<1>2. Brought(call)' = Brought(call) /\ Brought(refresh)' = {}
  BY <1>1 DEF Brought, Quiet
<1>3. CASE session = refresh.sends /\ refresh.answer = "ok"
  <2>1. /\ refresh.gets \in Token /\ session' = refresh.gets /\ session # NoToken
        /\ writes' = Append(writes, IF remember THEN session' ELSE NoToken)
        /\ UNCHANGED <<remember, farewells>>
    BY <1>1, <1>3 DEF RefreshAnswered, SetSession, WellFormed, PhoneAssumption
  <2>2. /\ writes' \in Seq(MaybeToken)
        /\ StoreToBe' = IF remember' THEN session' ELSE NoToken
    BY <1>1, <2>1, SettledMoves DEF MaybeToken
  <2>3. PhoneTypeOK' /\ WellFormed' /\ OneAtATime' /\ StoreFollows'
    <3>1. session' \in MaybeToken /\ farewells' \subseteq Token /\ remember' \in BOOLEAN
      BY <1>1, <2>1, <2>2, Typed DEF MaybeToken
    <3>2. call' \in Calls /\ refresh' \in Calls /\ restored' \in BOOLEAN
      BY <1>1, <2>1, Typed, QuietIsACall
    <3>3. PhoneTypeOK'
      BY <1>1, <2>1, <2>2, <3>1, <3>2 DEF PhoneTypeOK
    <3>4. WellFormed' /\ OneAtATime'
      BY <1>1, <2>1, <2>2, QuietIsACall, PhoneAssumption DEF WellFormed, OneAtATime
    <3>5. StoreFollows'
      BY <1>1, <2>1, <2>2, QuietIsACall, PhoneAssumption DEF StoreFollows
    <3> QED
      BY <3>3, <3>4, <3>5
  <2>4. Brought(refresh) = {session'} /\ Brought(call) = {}
    BY <1>1, <1>3, <2>1 DEF Brought, WellFormed, Quiet
  <2>5. ASSUME ~ upset PROVE AnswersAreGood' /\ HeldApart' /\ NoneIsLost'
    <3>1. AnswersAreGood'
      BY <1>1, <1>2, <2>1, <2>4, <2>5 DEF AnswersAreGood, Quiet
    <3>2. HeldApart'
      BY <1>1, <1>2, <2>1, <2>4, <2>5 DEF HeldApart
    <3>3. NoneIsLost'
      <4>1. tok[session] # "live"
        BY <1>3, <2>5 DEF AnswersAreGood
      <4> QED
        BY <1>1, <1>2, <1>3, <2>1, <2>4, <2>5, <4>1 DEF NoneIsLost
    <3> QED
      BY <3>1, <3>2, <3>3
  <2> QED
    BY <1>1, <2>3, <2>5
<1>4. CASE session = refresh.sends /\ refresh.answer # "ok"
  <2>1. /\ refresh.answer = "401" /\ session' = NoToken /\ remember' = FALSE
        /\ writes' = Append(writes, NoToken) /\ UNCHANGED farewells
    BY <1>1, <1>4 DEF RefreshAnswered, SetSession
  <2>2. writes' \in Seq(MaybeToken) /\ StoreToBe' = NoToken
    BY <1>1, <2>1, SettledMoves DEF MaybeToken
  <2>3. PhoneTypeOK' /\ WellFormed' /\ OneAtATime' /\ StoreFollows'
    <3>1. session' \in MaybeToken /\ farewells' \subseteq Token /\ remember' \in BOOLEAN
      BY <1>1, <2>1, <2>2, Typed DEF MaybeToken
    <3>2. call' \in Calls /\ refresh' \in Calls /\ restored' \in BOOLEAN
      BY <1>1, <2>1, Typed, QuietIsACall
    <3>3. PhoneTypeOK'
      BY <1>1, <2>1, <2>2, <3>1, <3>2 DEF PhoneTypeOK
    <3>4. WellFormed' /\ OneAtATime'
      BY <1>1, <2>1, <2>2, QuietIsACall, PhoneAssumption DEF WellFormed, OneAtATime
    <3>5. StoreFollows'
      BY <1>1, <2>1, <2>2, QuietIsACall, PhoneAssumption DEF StoreFollows
    <3> QED
      BY <3>3, <3>4, <3>5
  <2>4. upset
    BY <2>1 DEF AnswersAreGood
  <2> QED
    BY <1>1, <2>3, <2>4
<1>5. CASE session # refresh.sends
  <2>1. /\ UNCHANGED <<session, remember, writes>>
        /\ farewells' = farewells \cup Brought(refresh)
    BY <1>1, <1>5 DEF RefreshAnswered, SameSession, Brought
  <2>2. StoreToBe' = StoreToBe /\ Brought(refresh) \subseteq Token
    BY <1>1, <2>1 DEF StoreToBe, Brought, WellFormed
  <2>3. PhoneTypeOK' /\ WellFormed' /\ OneAtATime' /\ StoreFollows'
    <3>1. session' \in MaybeToken /\ farewells' \subseteq Token /\ remember' \in BOOLEAN
      BY <1>1, <2>1, <2>2, Typed DEF MaybeToken
    <3>2. call' \in Calls /\ refresh' \in Calls /\ restored' \in BOOLEAN
      BY <1>1, <2>1, Typed, QuietIsACall
    <3>3. PhoneTypeOK'
      BY <1>1, <2>1, <2>2, <3>1, <3>2 DEF PhoneTypeOK
    <3>4. WellFormed' /\ OneAtATime'
      BY <1>1, <2>1, <2>2, QuietIsACall, PhoneAssumption DEF WellFormed, OneAtATime
    <3>5. StoreFollows'
      BY <1>1, <2>1, <2>2, QuietIsACall, PhoneAssumption DEF StoreFollows
    <3> QED
      BY <3>3, <3>4, <3>5
  <2>4. ASSUME ~ upset PROVE AnswersAreGood' /\ HeldApart' /\ NoneIsLost'
    <3>1. AnswersAreGood'
      BY <1>1, <1>2, <1>5, <2>1, <2>4 DEF AnswersAreGood, Quiet
    <3>2. HeldApart'
      BY <1>1, <1>2, <2>1, <2>2, <2>4 DEF HeldApart, AnswersAreGood
    <3>3. NoneIsLost'
      BY <1>1, <1>2, <2>1, <2>4 DEF NoneIsLost
    <3> QED
      BY <3>1, <3>2, <3>3
  <2> QED
    BY <1>1, <2>3, <2>4
<1> QED
  BY <1>3, <1>4, <1>5

\* A request or an answer is lost.
LEMMA LostKeeps ==
    ASSUME PhoneAssumption, PhoneInv, CallLost \/ RefreshLost
    PROVE  PhoneInv'
<1> USE DEF PhoneInv
<1>1. /\ StoreToBe' = StoreToBe /\ UNCHANGED <<tok, session, remember, store, writes, farewells>>
      /\ call' \in {call, Quiet} /\ refresh' \in {refresh, Quiet}
      /\ (upset => upset') /\ restored' \in BOOLEAN /\ upset' \in BOOLEAN
      /\ call' = call \/ (upset' <=> (upset \/ call.answer = "ok" \/ call.kind = "restore"))
  BY Typed DEF CallLost, RefreshLost, StoreToBe
<1>2. PhoneTypeOK'
  <2>1. call' \in Calls /\ refresh' \in Calls
    BY <1>1, Typed, QuietIsACall
  <2> QED
    BY <1>1, <2>1 DEF PhoneTypeOK
<1>3. WellFormed' /\ OneAtATime'
  BY <1>1, QuietIsACall DEF WellFormed, OneAtATime
<1>4. StoreFollows'
  BY <1>1, QuietIsACall DEF StoreFollows
<1>5. ASSUME ~ upset' PROVE AnswersAreGood' /\ HeldApart' /\ NoneIsLost'
  <2>1. ~ upset
    BY <1>1, <1>5
  <2>2. Brought(call)' = Brought(call) /\ Brought(refresh)' = Brought(refresh)
    <3>1. call' = Quiet => call.answer # "ok"
      BY <1>5, QuietIsACall DEF CallLost, RefreshLost
    <3>2. refresh' = Quiet => refresh.answer # "ok"
      BY <1>5, QuietIsACall DEF CallLost, RefreshLost
    <3> QED
      BY <1>1, <3>1, <3>2, QuietIsACall DEF Brought
  <2>4. session # NoToken /\ tok[session] # "live" => refresh' = refresh
    BY <1>5, <2>1 DEF CallLost, RefreshLost, AnswersAreGood
  <2>5. AnswersAreGood'
    BY <1>1, <2>1, <2>2, <2>4, QuietIsACall DEF AnswersAreGood
  <2>6. HeldApart'
    BY <1>1, <2>1, <2>2 DEF HeldApart
  <2>7. call.kind = "restore" => call' = call
    BY <1>5 DEF CallLost, RefreshLost
  <2>8. NoneIsLost'
    BY <1>1, <2>1, <2>2, <2>7 DEF NoneIsLost
  <2> QED
    BY <2>5, <2>6, <2>8
<1> QED
  BY <1>2, <1>3, <1>4, <1>5

-----------------------------------------------------------------------------
LEMMA LogoutKeeps ==
    ASSUME PhoneAssumption, PhoneInv, Logout
    PROVE  PhoneInv'
<1> USE DEF PhoneInv
<1>1. /\ session \in Token /\ session' = NoToken /\ remember' = FALSE
      /\ writes' = Append(writes, NoToken) /\ farewells' = farewells \cup {session}
      /\ UNCHANGED <<tok, store, restored, call, refresh, kills>>
      /\ call.kind = "none" /\ call = Quiet /\ upset' \in BOOLEAN /\ (upset => upset')
  BY DEF Logout, SetSession, PhoneTypeOK, OneAtATime, WellFormed, MaybeToken
<1>2. writes' \in Seq(MaybeToken) /\ StoreToBe' = NoToken
  BY <1>1, SettledMoves DEF MaybeToken
<1>3. PhoneTypeOK' /\ WellFormed' /\ OneAtATime' /\ StoreFollows'
  BY <1>1, <1>2 DEF PhoneTypeOK, WellFormed, OneAtATime, StoreFollows, Calls, MaybeToken
<1>4. Brought(call)' = Brought(call) /\ Brought(refresh)' = Brought(refresh)
  BY <1>1 DEF Brought
<1>5. ASSUME ~ upset' PROVE AnswersAreGood' /\ HeldApart' /\ NoneIsLost'
  <2>1. ~ upset /\ (refresh = Quiet \/ refresh.answer # "none")
    BY <1>1, <1>5 DEF Logout
  <2>2. AnswersAreGood'
    BY <1>1, <1>4, <2>1 DEF AnswersAreGood, Quiet
  <2>3. tok[session] # "absent"
    BY <1>1, <2>1, PhoneAssumption DEF AnswersAreGood
  <2>4. NoToken \notin farewells' \cup Brought(call) \cup Brought(refresh)
    BY <1>1, PhoneAssumption DEF PhoneTypeOK, Brought, WellFormed
  <2>5. HeldApart'
    BY <1>1, <1>4, <2>1, <2>3, <2>4 DEF HeldApart
  <2>6. NoneIsLost'
    BY <1>1, <1>4, <2>1 DEF NoneIsLost
  <2> QED
    BY <2>2, <2>5, <2>6
<1> QED
  BY <1>3, <1>5

LEMMA FarewellKeeps ==
    ASSUME PhoneAssumption, PhoneInv, NEW t \in Token, ServeFarewell(t)
    PROVE  PhoneInv'
<1> USE DEF PhoneInv
<1>1. /\ t \in farewells /\ farewells' = farewells \ {t}
      /\ UNCHANGED <<session, remember, store, writes, restored, call, refresh, kills>>
      /\ upset' \in BOOLEAN /\ (upset => upset')
      /\ tok' \in {tok, [tok EXCEPT ![t] = "revoked"]}
  <2>1. /\ t \in farewells /\ farewells' = farewells \ {t}
        /\ UNCHANGED <<session, remember, store, writes, restored, call, refresh, kills>>
    BY DEF ServeFarewell
  <2>2. \/ upset' = upset /\ tok' = [tok EXCEPT ![t] = "revoked"]
        \/ upset' = TRUE /\ tok' = tok
    BY DEF ServeFarewell
  <2> QED
    BY <2>1, <2>2, Typed
<1>2. StoreToBe' = StoreToBe /\ Brought(call)' = Brought(call) /\ Brought(refresh)' = Brought(refresh)
  BY <1>1 DEF StoreToBe, Brought
<1>3. PhoneTypeOK' /\ WellFormed' /\ OneAtATime' /\ StoreFollows'
  <2>1. tok' \in [Token -> {"absent", "live", "revoked"}]
    BY <1>1, Typed
  <2>2. PhoneTypeOK'
    BY <1>1, <2>1 DEF PhoneTypeOK
  <2> QED
    BY <1>1, <1>2, <2>2 DEF WellFormed, OneAtATime, StoreFollows
<1>4. ASSUME ~ upset' PROVE AnswersAreGood' /\ HeldApart' /\ NoneIsLost'
  <2>1. /\ ~ upset /\ tok'[t] = "revoked" /\ \A u \in Token \ {t} : tok'[u] = tok[u]
    BY <1>1, <1>4 DEF ServeFarewell, PhoneTypeOK
  <2>2. /\ t \notin Brought(call) \cup Brought(refresh) /\ t # session
        /\ call.kind # "restore"
    BY <1>1, <2>1 DEF HeldApart, OneAtATime
  <2>3. session # NoToken => session \in Token
    BY DEF PhoneTypeOK, MaybeToken
  <2>4. Brought(call) \cup Brought(refresh) \subseteq Token
    BY DEF Brought, WellFormed
  <2>5. AnswersAreGood'
    BY <1>1, <1>2, <2>1, <2>2, <2>3, <2>4, QuietIsACall DEF AnswersAreGood, WellFormed,
       PhoneAssumption
  <2>6. HeldApart'
    BY <1>1, <1>2, <2>1, <2>2 DEF HeldApart, PhoneTypeOK
  <2>7. NoneIsLost'
    BY <1>1, <1>2, <2>1, <2>2 DEF NoneIsLost
  <2> QED
    BY <2>5, <2>6, <2>7
<1> QED
  BY <1>3, <1>4

LEMMA StoreAndElsewhereKeep ==
    ASSUME PhoneAssumption, PhoneInv, WriteStore \/ RevokedElsewhere
    PROVE  PhoneInv'
<1> USE DEF PhoneInv
<1>1. CASE WriteStore
  <2>1. UNCHANGED <<tok, session, remember, restored, call, refresh, farewells, kills, upset>>
    BY <1>1 DEF WriteStore, away
  <2>2. /\ StoreToBe' = StoreToBe /\ writes' \in Seq(MaybeToken) /\ store' \in MaybeToken
        /\ Brought(call)' = Brought(call) /\ Brought(refresh)' = Brought(refresh)
    BY <1>1, <2>1, SettledMoves DEF Brought
  <2>3. PhoneTypeOK' /\ WellFormed' /\ OneAtATime' /\ StoreFollows'
    BY <2>1, <2>2 DEF PhoneTypeOK, WellFormed, OneAtATime, StoreFollows
  <2> QED
    BY <2>1, <2>2, <2>3 DEF AnswersAreGood, HeldApart, NoneIsLost
<1>2. CASE RevokedElsewhere
  <2>1. /\ upset' = TRUE /\ tok' \in [Token -> {"absent", "live", "revoked"}]
        /\ UNCHANGED <<session, remember, store, writes, restored, call, refresh, farewells, kills>>
    BY <1>2 DEF RevokedElsewhere, RevokeAll, PhoneTypeOK
  <2>2. PhoneTypeOK' /\ WellFormed' /\ OneAtATime' /\ StoreFollows'
    BY <2>1 DEF PhoneTypeOK, WellFormed, OneAtATime, StoreFollows, StoreToBe
  <2> QED
    BY <2>1, <2>2
<1> QED
  BY <1>1, <1>2

\* A launch takes up what the store holds, which without a loss is the session.
LEMMA RelaunchKeeps ==
    ASSUME PhoneAssumption, PhoneInv, Relaunch
    PROVE  PhoneInv'
<1> USE DEF PhoneInv
<1>1. /\ session' = NoToken /\ remember' = FALSE /\ writes' = <<>> /\ farewells' = {}
      /\ refresh' = Quiet /\ UNCHANGED <<tok, store>> /\ (upset => upset')
      /\ restored' \in BOOLEAN /\ upset' \in BOOLEAN /\ store \in MaybeToken
      /\ store = NoToken => call' = Quiet
      /\ store # NoToken => call' = [kind |-> "restore", sends |-> store, gets |-> NoToken,
                                     answer |-> "none"]
  BY DEF Relaunch, PhoneTypeOK, Quiet
<1>2. PhoneTypeOK' /\ WellFormed' /\ OneAtATime'
  <2>1. /\ call' \in Calls /\ call'.kind \in {"none", "restore"} /\ call'.answer = "none"
        /\ call'.kind = "restore" => call'.sends \in Token
        /\ call'.kind = "none" => call' = Quiet
    <3>1. CASE store = NoToken
      BY <1>1, <3>1, QuietIsACall
    <3>2. CASE store # NoToken
      BY <1>1, <3>2 DEF Calls, MaybeToken
    <3> QED
      BY <3>1, <3>2
  <2>2. PhoneTypeOK'
    <3>1. writes' \in Seq(MaybeToken)
      BY <1>1, EmptySeq
    <3>2. session' \in MaybeToken
      BY <1>1 DEF MaybeToken
    <3> QED
      BY <1>1, <2>1, <3>1, <3>2, QuietIsACall DEF PhoneTypeOK
  <2> QED
    BY <1>1, <2>1, <2>2, QuietIsACall DEF WellFormed, OneAtATime
<1>3. StoreToBe' = store /\ Brought(call)' = {} /\ Brought(refresh)' = {}
  BY <1>1 DEF StoreToBe, Brought, Quiet
<1>4. StoreFollows'
  BY <1>1, <1>3 DEF StoreFollows
<1>5. ASSUME ~ upset' PROVE AnswersAreGood' /\ HeldApart' /\ NoneIsLost'
  <2>1. /\ ~ upset /\ writes = <<>> /\ farewells = {} /\ call = Quiet /\ refresh = Quiet
        /\ session # NoToken => remember
    BY <1>5 DEF Relaunch, PhoneTypeOK
  <2>2. StoreToBe = store /\ Brought(call) = {} /\ Brought(refresh) = {}
    BY <2>1 DEF StoreToBe, Brought, Quiet
  <2>3. store = session
    BY <2>1, <2>2 DEF StoreFollows, Quiet
  <2>4. store # NoToken => tok[store] = "live"
    BY <2>1, <2>3 DEF AnswersAreGood, Quiet
  <2>5. AnswersAreGood'
    BY <1>1, <1>3, <2>4 DEF AnswersAreGood, Quiet
  <2>6. HeldApart'
    BY <1>1, <1>3 DEF HeldApart
  <2>7. NoneIsLost'
    BY <1>1, <2>1, <2>2, <2>3, PhoneAssumption DEF NoneIsLost, Quiet
  <2> QED
    BY <2>5, <2>6, <2>7
<1> QED
  BY <1>2, <1>4, <1>5

\* Every step keeps the invariant.
LEMMA PhoneStep == PhoneInv /\ [PhoneNext]_phoneVars => PhoneInv'
<1> SUFFICES ASSUME PhoneInv, [PhoneNext]_phoneVars PROVE PhoneInv'
  OBVIOUS
<1>1. CASE UNCHANGED phoneVars
  BY <1>1 DEF phoneVars, PhoneInv, PhoneTypeOK, WellFormed, OneAtATime, StoreFollows,
              AnswersAreGood, HeldApart, NoneIsLost, StoreToBe, Brought
<1> QED
  BY <1>1, PhoneAssumption, SendLoginKeeps, SendRefreshKeeps, ServeKeeps, CallAnsweredKeeps,
     RefreshAnsweredKeeps, LostKeeps, LogoutKeeps, FarewellKeeps, StoreAndElsewhereKeep,
     RelaunchKeeps
  DEF PhoneNext

\* The inductive invariant: at every moment who holds which token, and what the
\* secure store will hold.
THEOREM PhoneInvariant == PhoneSpec => []PhoneInv
  BY PhoneStart, PhoneStep, PTL DEF PhoneSpec

\* Every variable of the sign-in keeps its type.
THEOREM PhoneTypeCorrect == PhoneSpec => []PhoneTypeOK
<1>1. PhoneInv => PhoneTypeOK
  BY DEF PhoneInv
<1> QED
  BY <1>1, PhoneInvariant, PTL

\* Without a loss the session's token is good or being exchanged, and the store
\* holds the session that is to be remembered, however the refresh, a sign-out, a
\* new sign-in and the store's writes overlap (auth.ts, sessionStore.ts).
THEOREM SessionStaysKept == PhoneSpec => []SessionIsKept
<1>1. PhoneInv => SessionIsKept
  BY DEF PhoneInv, SessionIsKept, SignedInIsGood, StoreHoldsTheSession, AnswersAreGood,
         StoreFollows, StoreToBe
<1> QED
  BY <1>1, PhoneInvariant, PTL

\* Without a loss a sign-out leaves no good token on the server but the one the
\* next launch restores (logout, refresh's hand-back).
THEOREM SignOutLeavesNothing == PhoneSpec => []NoTokenIsLeftBehind
<1>1. PhoneInv => NoTokenIsLeftBehind
  BY DEF PhoneInv, NoTokenIsLeftBehind, NoneIsLost, Brought, Quiet
<1> QED
  BY <1>1, PhoneInvariant, PTL

-----------------------------------------------------------------------------
\* The session the phone runs.

\* The session on the screen was given out, and while it runs its id is in the key or
\* on its way there, and nothing settles or starts beside it.
ScreenKnows ==
    /\ phase = "idle" => sid = NoFocus
    /\ sid # NoFocus => srv[sid] # "absent"
    /\ phase = "running" /\ sid # NoFocus =>
         settle.at = "none" /\ KeyToBe = sid /\ op.at \notin {"settle", "create"}

\* A request about a session is about the one on the screen, unless that was left;
\* its id is in the key or on its way there until the answer says it is closed.
OnSession == {"switch", "end", "read", "discard"}
RequestKnows ==
    /\ op.at \in OnSession =>
         /\ op.s # NoFocus /\ srv[op.s] # "absent" /\ sid \in {op.s, NoFocus}
         /\ KeyToBe = op.s /\ settle.at = "none"
         /\ op.at = "read" \/ op.answer \in {"ok", "gone", "over"} => srv[op.s] # "open"
    /\ op.at = "switch" => ~ timers
    /\ op.at = "create" =>
         /\ settle.at = "none"
         /\ op.answer = "ok" => op.s # NoFocus
         /\ op.s # NoFocus => srv[op.s] # "absent" /\ Open \subseteq {op.s}

\* While a leftover is settled no request is about another session, and the key stays
\* the leftover's until it is known to be closed.
SettlingKnows ==
    /\ settle.at # "none" => op.at \in {"none", "settle"} /\ sid \notin Open
    /\ settle.at = "abandon" =>
         /\ keyWrites = <<>> /\ key = settle.s /\ settle.s # NoFocus
         /\ settle.answer \in {"ok", "gone"} => settle.s \notin Open

ClientInv ==
    /\ ClientTypeOK
    /\ OpenSessionsAreHeld /\ RecapIsOver /\ TimersHaveASession
    /\ ScreenKnows /\ RequestKnows /\ SettlingKnows
-----------------------------------------------------------------------------
LEMMA FocusTyped ==
    ASSUME ClientTypeOK
    PROVE  /\ op.at \in {"none", "switch", "settle", "create", "end", "read", "discard"}
           /\ op.s \in MaybeFocus /\ op.answer \in Answers /\ op.tries \in 0 .. MaxTries
           /\ settle.at \in {"none", "look", "abandon", "clear"}
           /\ settle.s \in MaybeFocus /\ settle.answer \in Answers
           /\ KeyToBe \in MaybeFocus
           /\ phase \in {"idle", "running", "recap"}
           /\ sid # NoFocus => sid \in Focus
           /\ op.s # NoFocus => op.s \in Focus
<1>1. /\ op.at \in {"none", "switch", "settle", "create", "end", "read", "discard"}
      /\ op.s \in MaybeFocus /\ op.answer \in Answers /\ op.tries \in 0 .. MaxTries
  BY DEF ClientTypeOK, Op
<1>2. /\ settle.at \in {"none", "look", "abandon", "clear"}
      /\ settle.s \in MaybeFocus /\ settle.answer \in Answers
  BY DEF ClientTypeOK, Settle
<1>3. KeyToBe \in MaybeFocus
  <2>1. CASE keyWrites = <<>>
    BY DEF KeyToBe, ClientTypeOK
  <2>2. CASE keyWrites # <<>>
    <3>1. Len(keyWrites) \in 1 .. Len(keyWrites)
      BY <2>2
    <3>2. keyWrites[Len(keyWrites)] \in MaybeFocus
      BY <3>1 DEF ClientTypeOK
    <3> QED
      BY <2>2, <3>2 DEF KeyToBe
  <2> QED
    BY <2>1, <2>2
<1>4. phase \in {"idle", "running", "recap"} /\ sid \in MaybeFocus
  BY DEF ClientTypeOK
<1> QED
  BY <1>1, <1>2, <1>3, <1>4 DEF MaybeFocus

\* A write of the key is what the key will be once it is done, and doing the writes in
\* order changes nothing of that.
LEMMA KeyIsWritten ==
    ASSUME ClientTypeOK, NEW s \in MaybeFocus, keyWrites' = Append(keyWrites, s)
    PROVE  KeyToBe' = s /\ keyWrites' \in Seq(MaybeFocus) /\ keyWrites' # <<>>
<1>1. keyWrites \in Seq(MaybeFocus)
  BY DEF ClientTypeOK
<1>2. /\ keyWrites' \in Seq(MaybeFocus) /\ Len(keyWrites') = Len(keyWrites) + 1
      /\ keyWrites'[Len(keyWrites) + 1] = s
  BY <1>1
<1> QED
  BY <1>2 DEF KeyToBe

LEMMA KeyIsDone ==
    ASSUME ClientTypeOK, WriteKey
    PROVE  KeyToBe' = KeyToBe /\ key' \in MaybeFocus /\ keyWrites' \in Seq(MaybeFocus)
<1>1. keyWrites \in Seq(MaybeFocus) /\ keyWrites # <<>>
  BY DEF ClientTypeOK, WriteKey
<1>2. key' = Head(keyWrites) /\ keyWrites' = Tail(keyWrites)
  BY DEF WriteKey
<1>5. CASE Tail(keyWrites) = <<>>
  <2> QED
    BY <1>1, <1>2 DEF KeyToBe
<1>6. CASE Tail(keyWrites) # <<>>
  <2> QED
    BY <1>1, <1>2 DEF KeyToBe
<1> QED
  BY <1>5, <1>6

\* What a request and a settling are once they are begun, done or answered.
LEMMA Asked ==
    ASSUME NEW at \in {"switch", "settle", "create", "end", "read", "discard"},
           NEW s \in MaybeFocus, Ask(at, s)
    PROVE  op'.at = at /\ op'.s = s /\ op'.answer = "none" /\ op' \in Op
BY ClientAssumption DEF Ask, Op, Answers

LEMMA NotAsked ==
    /\ IdleCall.at = "none" /\ IdleCall \in Op
    /\ NotSettling.at = "none" /\ NotSettling \in Settle
BY ClientAssumption DEF IdleCall, NotSettling, Op, Settle, Answers, MaybeFocus

LEMMA AnsweredOp ==
    ASSUME ClientTypeOK, NEW answer \in Answers, op' = [op EXCEPT !.answer = answer]
    PROVE  op'.at = op.at /\ op'.s = op.s /\ op'.answer = answer /\ op' \in Op
BY DEF ClientTypeOK, Op

LEMMA AnsweredSettle ==
    ASSUME ClientTypeOK, NEW answer \in Answers, settle' = [settle EXCEPT !.answer = answer]
    PROVE  /\ settle'.at = settle.at /\ settle'.s = settle.s /\ settle'.answer = answer
           /\ settle' \in Settle
BY DEF ClientTypeOK, Settle

LEMMA SettlesAt ==
    ASSUME NEW at \in {"look", "clear"}, settle' = [NotSettling EXCEPT !.at = at]
    PROVE  settle'.at = at /\ settle' \in Settle
BY DEF NotSettling, Settle, Answers, MaybeFocus

LEMMA SettlingBegins ==
    ASSUME ClientTypeOK, BeginSettling
    PROVE  /\ settle'.at # "none" /\ settle' \in Settle
           /\ settle.at = "none" => settle'.at = "look"
           /\ settle.at # "none" => settle' = settle
<1>1. CASE settle.at = "none"
  BY <1>1, SettlesAt DEF BeginSettling
<1>2. CASE settle.at # "none"
  BY <1>2 DEF BeginSettling, ClientTypeOK
<1> QED
  BY <1>1, <1>2

LEMMA ClientStart == ClientInit => ClientInv
<1> SUFFICES ASSUME ClientInit PROVE ClientInv
  OBVIOUS
<1>1. IdleCall \in Op /\ NotSettling \in Settle
  BY NotAsked
<1>3. ClientTypeOK
  <2>1. 0 \in 0 .. MaxDeaths /\ FALSE \in BOOLEAN /\ {} \subseteq Focus /\ NoFocus \in MaybeFocus
    BY ClientAssumption DEF MaybeFocus
  <2>2. op \in Op /\ settle \in Settle /\ keyWrites \in Seq(MaybeFocus) /\ deaths \in 0 .. MaxDeaths
    BY <1>1, <2>1 DEF ClientInit
  <2>3. srv \in [Focus -> {"absent", "open", "ended", "deleted"}]
    BY DEF ClientInit
  <2>4. /\ phase \in {"idle", "running", "recap"} /\ ending \in {"none", "retrying", "failed"}
        /\ sid \in MaybeFocus /\ key \in MaybeFocus /\ tap \in MaybeFocus /\ timers \in BOOLEAN
        /\ unheard \subseteq Focus /\ misdated \subseteq Focus
    BY <2>1 DEF ClientInit
  <2> QED
    BY <2>2, <2>3, <2>4 DEF ClientTypeOK
<1>4. /\ srv = [s \in Focus |-> "absent"] /\ sid = NoFocus /\ phase = "idle" /\ ~ timers
      /\ op.at = "none" /\ settle.at = "none"
  BY NotAsked DEF ClientInit
<1> QED
  BY <1>3, <1>4
    DEF ClientInv, OpenSessionsAreHeld, RecapIsOver, TimersHaveASession, ScreenKnows,
        RequestKnows, SettlingKnows, OnSession, Open

\* A write of the key reaches the disk.
LEMMA WriteKeyKeeps ==
    ASSUME ClientInv, WriteKey
    PROVE  ClientInv'
<1> USE DEF ClientInv
<1>1. UNCHANGED <<srv, phase, sid, timers, ending, tap, op, settle, deaths, unheard,
                  misdated>>
  BY DEF WriteKey, screen, histories
<1>2. KeyToBe' = KeyToBe /\ key' \in MaybeFocus /\ keyWrites' \in Seq(MaybeFocus)
  BY KeyIsDone
<1>3. keyWrites # <<>>
  BY DEF WriteKey
<1>4. ClientTypeOK'
  BY <1>1, <1>2 DEF ClientTypeOK
<1>5. OpenSessionsAreHeld'
  BY <1>1, <1>2 DEF OpenSessionsAreHeld, Open, Held
<1>6. RecapIsOver' /\ TimersHaveASession'
  BY <1>1 DEF RecapIsOver, TimersHaveASession, Open
<1>7. ScreenKnows'
  BY <1>1, <1>2 DEF ScreenKnows
<1>8. RequestKnows'
  BY <1>1, <1>2 DEF RequestKnows, Open
<1>9. SettlingKnows'
  BY <1>1, <1>3 DEF SettlingKnows, Open
<1> QED
  BY <1>4, <1>5, <1>6, <1>7, <1>8, <1>9

LEMMA StartOrJoinKeeps ==
    ASSUME ClientInv, StartOrJoin
    PROVE  ClientInv'
<1> USE DEF ClientInv
<1>1. UNCHANGED <<srv, phase, sid, timers, ending, tap, key, keyWrites, deaths,
                  unheard, misdated>>
  BY DEF StartOrJoin, screen, storage, histories
<1>2. KeyToBe' = KeyToBe
  BY <1>1 DEF KeyToBe
<1>3. op.at = "none" /\ phase # "running"
  BY DEF StartOrJoin, Busy
<1>4. op'.at = "settle" /\ op'.s = NoFocus /\ op'.answer = "none" /\ op' \in Op
  BY Asked DEF StartOrJoin, MaybeFocus
<1>5. /\ settle'.at # "none" /\ settle' \in Settle
      /\ settle.at = "none" => settle'.at = "look"
      /\ settle.at # "none" => settle' = settle
  BY SettlingBegins DEF StartOrJoin
<1>6. ClientTypeOK'
  BY <1>1, <1>4, <1>5 DEF ClientTypeOK
<1>7. OpenSessionsAreHeld'
  BY <1>1, <1>2, <1>3 DEF OpenSessionsAreHeld, Open, Held
<1>8. RecapIsOver' /\ TimersHaveASession'
  BY <1>1 DEF RecapIsOver, TimersHaveASession, Open
<1>9. ScreenKnows'
  BY <1>1, <1>3 DEF ScreenKnows
<1>10. RequestKnows'
  BY <1>4 DEF RequestKnows, OnSession
<1>11. SettlingKnows'
  BY <1>1, <1>3, <1>4, <1>5, FocusTyped, ClientAssumption
    DEF SettlingKnows, ScreenKnows, RecapIsOver, Open
<1> QED
  BY <1>6, <1>7, <1>8, <1>9, <1>10, <1>11

LEMMA SwitchSessionKeeps ==
    ASSUME ClientInv, Switch, sid # NoFocus
    PROVE  ClientInv'
<1> USE DEF ClientInv
<1>1. UNCHANGED <<srv, phase, sid, ending, tap, key, keyWrites, settle, deaths,
                  unheard, misdated>> /\ timers' = FALSE
      /\ phase = "running" /\ op.at = "none" /\ Ask("switch", sid)
  BY DEF Switch, Busy, storage, histories
<1>2. KeyToBe' = KeyToBe
  BY <1>1 DEF KeyToBe
<1>3. op'.at = "switch" /\ op'.s = sid /\ op'.answer = "none" /\ op' \in Op
  BY <1>1, Asked DEF ClientTypeOK
<1>4. ClientTypeOK'
  BY <1>1, <1>2, <1>3, FocusTyped DEF ClientTypeOK
<1>5. OpenSessionsAreHeld'
  BY <1>1, <1>2 DEF OpenSessionsAreHeld, Open, Held
<1>6. RecapIsOver' /\ TimersHaveASession'
  BY <1>1 DEF RecapIsOver, TimersHaveASession
<1>7. ScreenKnows'
  BY <1>1, <1>2, <1>3 DEF ScreenKnows
<1>8. RequestKnows'
  BY <1>1, <1>2, <1>3 DEF RequestKnows, ScreenKnows
<1>9. SettlingKnows'
  BY <1>1 DEF SettlingKnows, ScreenKnows
<1> QED
  BY <1>4, <1>5, <1>6, <1>7, <1>8, <1>9

LEMMA SwitchNothingKeeps ==
    ASSUME ClientInv, Switch, sid = NoFocus
    PROVE  ClientInv'
<1> USE DEF ClientInv
<1>1. UNCHANGED <<srv, phase, sid, ending, tap, key, keyWrites, deaths, unheard,
                  misdated>> /\ ~ timers' /\ timers' \in BOOLEAN
      /\ phase = "running" /\ op.at = "none" /\ Ask("settle", NoFocus) /\ BeginSettling
  BY DEF Switch, Busy, storage, histories
<1>2. KeyToBe' = KeyToBe
  BY <1>1 DEF KeyToBe
<1>3. op'.at = "settle" /\ op'.s = NoFocus /\ op'.answer = "none" /\ op' \in Op
  BY <1>1, Asked DEF MaybeFocus
<1>4. /\ settle'.at # "none" /\ settle' \in Settle
      /\ settle.at = "none" => settle'.at = "look"
      /\ settle.at # "none" => settle' = settle
  BY <1>1, SettlingBegins
<1>5. ClientTypeOK'
  BY <1>1, <1>3, <1>4 DEF ClientTypeOK
<1>6. OpenSessionsAreHeld'
  BY <1>1, <1>2 DEF OpenSessionsAreHeld, Open, Held
<1>7. RecapIsOver' /\ TimersHaveASession'
  BY <1>1 DEF RecapIsOver, TimersHaveASession
<1>8. ScreenKnows'
  BY <1>1 DEF ScreenKnows
<1>9. RequestKnows'
  BY <1>3 DEF RequestKnows, OnSession
<1>10. SettlingKnows'
  BY <1>1, <1>3, <1>4, ClientAssumption DEF SettlingKnows, Open
<1> QED
  BY <1>5, <1>6, <1>7, <1>8, <1>9, <1>10

\* A switch whose end the server answered; one that failed.
LEMMA SwitchedKeeps ==
    ASSUME ClientInv, SwitchAnswered, op.answer = "ok"
    PROVE  ClientInv'
<1> USE DEF ClientInv
<1>1. /\ UNCHANGED <<srv, phase, key, timers, ending, tap, deaths, unheard, misdated>>
      /\ op.at = "switch" /\ sid' = NoFocus /\ keyWrites' = Append(keyWrites, NoFocus)
      /\ Ask("settle", NoFocus) /\ BeginSettling
  BY DEF SwitchAnswered, ClearRunning, histories
<1>2. NoFocus \in MaybeFocus
  BY DEF MaybeFocus
<1>4. op'.at = "settle" /\ op'.s = NoFocus /\ op'.answer = "none" /\ op' \in Op
  BY <1>1, <1>2, Asked
<1>5. /\ settle'.at # "none" /\ settle' \in Settle
      /\ settle.at = "none" => settle'.at = "look"
      /\ settle.at # "none" => settle' = settle
  BY <1>1, SettlingBegins
<1>6. ClientTypeOK'
  BY <1>1, <1>2, <1>4, <1>5 DEF ClientTypeOK
<1>7. OpenSessionsAreHeld'
  BY <1>1 DEF OpenSessionsAreHeld, Open, Held, RequestKnows, OnSession
<1>8. RecapIsOver' /\ TimersHaveASession'
  BY <1>1, ClientAssumption DEF RecapIsOver, TimersHaveASession, Open, RequestKnows
<1>9. ScreenKnows'
  BY <1>1 DEF ScreenKnows
<1>10. RequestKnows'
  BY <1>4 DEF RequestKnows, OnSession
<1>11. SettlingKnows'
  BY <1>1, <1>4, <1>5, ClientAssumption DEF SettlingKnows, Open
<1> QED
  BY <1>6, <1>7, <1>8, <1>9, <1>10, <1>11

LEMMA NotSwitchedKeeps ==
    ASSUME ClientInv, SwitchAnswered, op.answer # "ok"
    PROVE  ClientInv'
<1> USE DEF ClientInv
<1>1. /\ UNCHANGED <<srv, key, keyWrites, settle, timers, ending, tap, deaths, unheard,
                     misdated>>
      /\ op.at = "switch" /\ sid' = NoFocus /\ phase' = "idle" /\ op' = IdleCall
  BY DEF SwitchAnswered, histories
<1>2. KeyToBe' = KeyToBe
  BY <1>1 DEF KeyToBe
<1>3. op'.at = "none" /\ op' \in Op /\ NoFocus \in MaybeFocus
  BY <1>1, NotAsked DEF MaybeFocus
<1>4. ClientTypeOK'
  BY <1>1, <1>3 DEF ClientTypeOK
<1>5. OpenSessionsAreHeld'
  BY <1>1, <1>2, FocusTyped DEF OpenSessionsAreHeld, Open, Held, ScreenKnows, RecapIsOver
<1>6. RecapIsOver' /\ TimersHaveASession'
  BY <1>1 DEF RecapIsOver, TimersHaveASession, RequestKnows
<1>7. ScreenKnows'
  BY <1>1 DEF ScreenKnows
<1>8. RequestKnows'
  BY <1>3 DEF RequestKnows, OnSession
<1>9. SettlingKnows'
  BY <1>1 DEF SettlingKnows
<1> QED
  BY <1>4, <1>5, <1>6, <1>7, <1>8, <1>9

\* settleLeftover reads the key; its abandon is answered; the key is removed.
LEMMA LookAtKeyKeeps ==
    ASSUME ClientInv, LookAtKey
    PROVE  ClientInv'
<1> USE DEF ClientInv
<1>1. /\ UNCHANGED <<srv, phase, sid, timers, ending, tap, key, keyWrites, op, deaths,
                     unheard, misdated>>
      /\ settle.at = "look" /\ keyWrites = <<>>
  BY DEF LookAtKey, screen, storage, histories
<1>2. KeyToBe' = KeyToBe
  BY <1>1 DEF KeyToBe
<1>3. /\ settle' \in Settle
      /\ \/ settle'.at = "none"
         \/ /\ settle'.at = "abandon" /\ settle'.s = key /\ settle'.answer = "none"
            /\ key # NoFocus
  BY NotAsked DEF LookAtKey, Settle, Answers, ClientTypeOK
<1>4. ClientTypeOK'
  BY <1>1, <1>3 DEF ClientTypeOK
<1>5. OpenSessionsAreHeld'
  BY <1>1, <1>2 DEF OpenSessionsAreHeld, Open, Held
<1>6. RecapIsOver' /\ TimersHaveASession'
  BY <1>1 DEF RecapIsOver, TimersHaveASession, Open
<1>7. ScreenKnows'
  BY <1>1 DEF ScreenKnows
<1>8. RequestKnows'
  BY <1>1 DEF RequestKnows
<1>9. SettlingKnows'
  BY <1>1, <1>3 DEF SettlingKnows, Open
<1> QED
  BY <1>4, <1>5, <1>6, <1>7, <1>8, <1>9

LEMMA LeftoverClosedKeeps ==
    ASSUME ClientInv, SettleAnswered, settle.answer \in {"ok", "gone"}
    PROVE  ClientInv'
<1> USE DEF ClientInv
<1>1. /\ UNCHANGED <<srv, phase, sid, timers, ending, tap, key, op, deaths, unheard,
                     misdated>>
      /\ settle.at = "abandon" /\ keyWrites' = Append(keyWrites, NoFocus)
      /\ settle' = [NotSettling EXCEPT !.at = "clear"]
  BY DEF SettleAnswered, ClearRunning, screen, histories
<1>2. NoFocus \in MaybeFocus
  BY DEF MaybeFocus
<1>4. settle'.at = "clear" /\ settle' \in Settle
  BY <1>1, SettlesAt
<1>5. KeyToBe = settle.s /\ settle.s \notin Open
  BY <1>1 DEF SettlingKnows, KeyToBe
<1>6. ClientTypeOK'
  BY <1>1, <1>2, <1>4 DEF ClientTypeOK
<1>7. OpenSessionsAreHeld'
  BY <1>1, <1>5 DEF OpenSessionsAreHeld, Open, Held
<1>8. RecapIsOver' /\ TimersHaveASession'
  BY <1>1 DEF RecapIsOver, TimersHaveASession, Open
<1>9. ScreenKnows'
  BY <1>1 DEF ScreenKnows
<1>10. RequestKnows'
  BY <1>1 DEF RequestKnows
<1>11. SettlingKnows'
  BY <1>1 DEF SettlingKnows, Open
<1> QED
  BY <1>6, <1>7, <1>8, <1>9, <1>10, <1>11

LEMMA LeftoverStaysKeeps ==
    ASSUME ClientInv, SettleAnswered, settle.answer \notin {"ok", "gone"}
    PROVE  ClientInv'
<1> USE DEF ClientInv
<1>1. /\ UNCHANGED <<srv, phase, sid, timers, ending, tap, key, keyWrites, op, deaths,
                     unheard, misdated>>
      /\ settle' = NotSettling
  BY DEF SettleAnswered, screen, histories
<1>2. KeyToBe' = KeyToBe
  BY <1>1 DEF KeyToBe
<1>3. settle'.at = "none" /\ settle' \in Settle
  BY <1>1, NotAsked
<1>4. ClientTypeOK'
  BY <1>1, <1>3 DEF ClientTypeOK
<1>5. OpenSessionsAreHeld'
  BY <1>1, <1>2 DEF OpenSessionsAreHeld, Open, Held
<1>6. RecapIsOver' /\ TimersHaveASession'
  BY <1>1 DEF RecapIsOver, TimersHaveASession, Open
<1>7. ScreenKnows'
  BY <1>1, <1>2, <1>3 DEF ScreenKnows
<1>8. RequestKnows'
  BY <1>1, <1>2, <1>3 DEF RequestKnows, Open
<1>9. SettlingKnows'
  BY <1>3 DEF SettlingKnows
<1> QED
  BY <1>4, <1>5, <1>6, <1>7, <1>8, <1>9

LEMMA SettledUpKeeps ==
    ASSUME ClientInv, SettledUp
    PROVE  ClientInv'
<1> USE DEF ClientInv
<1>1. /\ UNCHANGED <<srv, phase, sid, timers, ending, tap, key, keyWrites, op, deaths,
                     unheard, misdated>>
      /\ settle' = NotSettling
  BY DEF SettledUp, screen, storage, histories
<1>2. KeyToBe' = KeyToBe
  BY <1>1 DEF KeyToBe
<1>3. settle'.at = "none" /\ settle' \in Settle
  BY <1>1, NotAsked
<1>4. ClientTypeOK'
  BY <1>1, <1>3 DEF ClientTypeOK
<1>5. OpenSessionsAreHeld'
  BY <1>1, <1>2 DEF OpenSessionsAreHeld, Open, Held
<1>6. RecapIsOver' /\ TimersHaveASession'
  BY <1>1 DEF RecapIsOver, TimersHaveASession, Open
<1>7. ScreenKnows'
  BY <1>1, <1>2, <1>3 DEF ScreenKnows
<1>8. RequestKnows'
  BY <1>1, <1>2, <1>3 DEF RequestKnows, Open
<1>9. SettlingKnows'
  BY <1>3 DEF SettlingKnows
<1> QED
  BY <1>4, <1>5, <1>6, <1>7, <1>8, <1>9

\* start and join send their request, and begin what the answer names.
LEMMA SendCreateKeeps ==
    ASSUME ClientInv, SendCreate
    PROVE  ClientInv'
<1> USE DEF ClientInv
<1>1. /\ UNCHANGED <<srv, phase, sid, timers, ending, tap, key, keyWrites, settle,
                     deaths, unheard, misdated>>
      /\ op.at = "settle" /\ settle.at = "none" /\ Ask("create", NoFocus)
  BY DEF SendCreate, screen, storage, histories
<1>2. KeyToBe' = KeyToBe
  BY <1>1 DEF KeyToBe
<1>3. op'.at = "create" /\ op'.s = NoFocus /\ op'.answer = "none" /\ op' \in Op
  BY <1>1, Asked DEF MaybeFocus
<1>4. ClientTypeOK'
  BY <1>1, <1>3 DEF ClientTypeOK
<1>5. OpenSessionsAreHeld'
  BY <1>1, <1>2 DEF OpenSessionsAreHeld, Open, Held
<1>6. RecapIsOver' /\ TimersHaveASession'
  BY <1>1 DEF RecapIsOver, TimersHaveASession, Open
<1>7. ScreenKnows'
  BY <1>1 DEF ScreenKnows
<1>8. RequestKnows'
  BY <1>1, <1>3 DEF RequestKnows, OnSession
<1>9. SettlingKnows'
  BY <1>1 DEF SettlingKnows
<1> QED
  BY <1>4, <1>5, <1>6, <1>7, <1>8, <1>9

LEMMA CreatedKeeps ==
    ASSUME ClientInv, CreateAnswered, op.answer = "ok"
    PROVE  ClientInv'
<1> USE DEF ClientInv
<1>1. /\ UNCHANGED <<srv, key, ending, tap, settle, deaths, unheard, misdated>>
      /\ op.at = "create" /\ op' = IdleCall /\ sid' = op.s /\ phase' = "running" /\ timers' = TRUE
      /\ keyWrites' = Append(keyWrites, op.s)
  BY DEF CreateAnswered
<1>2. op.s \in MaybeFocus
  BY FocusTyped
<1>3. KeyToBe' = op.s /\ keyWrites' \in Seq(MaybeFocus)
  BY <1>1, <1>2, KeyIsWritten
<1>4. op'.at = "none" /\ op' \in Op
  BY <1>1, NotAsked
<1>5. ClientTypeOK'
  BY <1>1, <1>2, <1>4 DEF ClientTypeOK
<1>6. OpenSessionsAreHeld'
  BY <1>1 DEF OpenSessionsAreHeld, Open, Held, RequestKnows
<1>7. RecapIsOver' /\ TimersHaveASession'
  BY <1>1 DEF RecapIsOver, TimersHaveASession, RequestKnows
<1>8. ScreenKnows'
  BY <1>1, <1>3, <1>4 DEF ScreenKnows, RequestKnows
<1>9. RequestKnows'
  BY <1>4 DEF RequestKnows, OnSession
<1>10. SettlingKnows'
  BY <1>1 DEF SettlingKnows
<1> QED
  BY <1>5, <1>6, <1>7, <1>8, <1>9, <1>10

LEMMA NotCreatedKeeps ==
    ASSUME ClientInv, CreateAnswered, op.answer # "ok"
    PROVE  ClientInv'
<1> USE DEF ClientInv
<1>1. /\ UNCHANGED <<srv, phase, sid, timers, ending, tap, key, keyWrites, settle,
                     deaths, misdated>>
      /\ op.at = "create" /\ op' = IdleCall /\ unheard' = unheard \cup ({op.s} \ {NoFocus})
  BY DEF CreateAnswered
<1>2. KeyToBe' = KeyToBe
  BY <1>1 DEF KeyToBe
<1>3. op'.at = "none" /\ op' \in Op
  BY <1>1, NotAsked
<1>4. unheard' \subseteq Focus
  BY <1>1, FocusTyped DEF ClientTypeOK
<1>5. ClientTypeOK'
  BY <1>1, <1>3, <1>4 DEF ClientTypeOK
<1>6. OpenSessionsAreHeld'
  BY <1>1, <1>2, ClientAssumption DEF OpenSessionsAreHeld, Open, Held
<1>7. RecapIsOver' /\ TimersHaveASession'
  BY <1>1 DEF RecapIsOver, TimersHaveASession, Open
<1>8. ScreenKnows'
  BY <1>1 DEF ScreenKnows
<1>9. RequestKnows'
  BY <1>3 DEF RequestKnows, OnSession
<1>10. SettlingKnows'
  BY <1>1 DEF SettlingKnows
<1> QED
  BY <1>5, <1>6, <1>7, <1>8, <1>9, <1>10

\* End is tapped; its answer is good, is read back, is tried again, or fails.
LEMMA EndKeeps ==
    ASSUME ClientInv, End
    PROVE  ClientInv'
<1> USE DEF ClientInv
<1>1. /\ UNCHANGED <<srv, phase, sid, ending, key, keyWrites, settle, deaths, unheard>>
      /\ op.at = "none" /\ phase = "running" /\ sid # NoFocus /\ Ask("end", sid)
  BY DEF End, Busy, storage
<1>2. KeyToBe' = KeyToBe
  BY <1>1 DEF KeyToBe
<1>3. op'.at = "end" /\ op'.s = sid /\ op'.answer = "none" /\ op' \in Op
  BY <1>1, Asked DEF ClientTypeOK
<1>4. /\ tap' \in MaybeFocus /\ timers' \in BOOLEAN /\ (timers' => timers)
      /\ misdated' \subseteq Focus
  BY <1>1 DEF End, ClientTypeOK, MaybeFocus
<1>5. ClientTypeOK'
  BY <1>1, <1>3, <1>4 DEF ClientTypeOK
<1>6. OpenSessionsAreHeld'
  BY <1>1, <1>2 DEF OpenSessionsAreHeld, Open, Held
<1>7. RecapIsOver' /\ TimersHaveASession'
  BY <1>1 DEF RecapIsOver, TimersHaveASession
<1>8. ScreenKnows'
  BY <1>1, <1>2, <1>3 DEF ScreenKnows
<1>9. RequestKnows'
  BY <1>1, <1>2, <1>3 DEF RequestKnows, ScreenKnows
<1>10. SettlingKnows'
  BY <1>1 DEF SettlingKnows, ScreenKnows
<1> QED
  BY <1>5, <1>6, <1>7, <1>8, <1>9, <1>10

LEMMA EndedKeeps ==
    ASSUME ClientInv, op.at \in {"end", "read"}, op.answer = "ok", Ended, UNCHANGED <<srv, sid, key, timers, settle, histories>>
    PROVE  ClientInv'
<1> USE DEF ClientInv
<1>1. /\ UNCHANGED <<srv, sid, key, timers, settle, deaths, unheard, misdated>>
      /\ ending' = "none" /\ tap' = NoFocus /\ phase' = "recap" /\ op' = IdleCall
      /\ keyWrites' = Append(keyWrites, NoFocus)
  BY DEF Ended, ClearRunning, histories
<1>2. NoFocus \in MaybeFocus
  BY DEF MaybeFocus
<1>4. op'.at = "none" /\ op' \in Op
  BY <1>1, NotAsked
<1>5. srv[op.s] # "open" /\ KeyToBe = op.s /\ sid \in {op.s, NoFocus}
  BY DEF RequestKnows, OnSession
<1>6. ClientTypeOK'
  BY <1>1, <1>2, <1>4 DEF ClientTypeOK
<1>7. OpenSessionsAreHeld'
  BY <1>1, <1>5 DEF OpenSessionsAreHeld, Open, Held
<1>8. RecapIsOver' /\ TimersHaveASession'
  BY <1>1, <1>5, ClientAssumption DEF RecapIsOver, TimersHaveASession, Open
<1>9. ScreenKnows'
  BY <1>1 DEF ScreenKnows
<1>10. RequestKnows'
  BY <1>4 DEF RequestKnows, OnSession
<1>11. SettlingKnows'
  BY DEF SettlingKnows
<1> QED
  BY <1>6, <1>7, <1>8, <1>9, <1>10, <1>11

LEMMA ReadBackKeeps ==
    ASSUME ClientInv, op.at = "end", op.answer = "over", Ask("read", op.s), UNCHANGED <<srv, screen, storage, settle, histories>>
    PROVE  ClientInv'
<1> USE DEF ClientInv
<1>1. UNCHANGED <<srv, phase, sid, timers, ending, tap, key, keyWrites, settle, deaths,
                  unheard, misdated>>
  BY DEF screen, storage, histories
<1>2. KeyToBe' = KeyToBe
  BY <1>1 DEF KeyToBe
<1>3. op'.at = "read" /\ op'.s = op.s /\ op'.answer = "none" /\ op' \in Op
  BY Asked, FocusTyped
<1>4. ClientTypeOK'
  BY <1>1, <1>3 DEF ClientTypeOK
<1>5. OpenSessionsAreHeld'
  BY <1>1, <1>2 DEF OpenSessionsAreHeld, Open, Held
<1>6. RecapIsOver' /\ TimersHaveASession'
  BY <1>1 DEF RecapIsOver, TimersHaveASession, Open
<1>7. ScreenKnows'
  BY <1>1, <1>2, <1>3 DEF ScreenKnows
<1>8. RequestKnows'
  BY <1>1, <1>2, <1>3 DEF RequestKnows, OnSession
<1>9. SettlingKnows'
  BY DEF SettlingKnows
<1> QED
  BY <1>4, <1>5, <1>6, <1>7, <1>8, <1>9

LEMMA RetryKeeps ==
    ASSUME ClientInv, op.at = "end", op.tries < MaxTries,
           op' = [op EXCEPT !.answer = "none", !.tries = @ + 1], ending' = "retrying",
           UNCHANGED <<srv, phase, sid, timers, tap, storage, settle, histories>>
    PROVE  ClientInv'
<1> USE DEF ClientInv
<1>1. UNCHANGED <<srv, phase, sid, timers, tap, key, keyWrites, settle, deaths,
                  unheard, misdated>> /\ ending' = "retrying"
  BY DEF storage, histories
<1>2. KeyToBe' = KeyToBe
  BY <1>1 DEF KeyToBe
<1>3. op.tries + 1 \in 0 .. MaxTries
  BY FocusTyped, ClientAssumption
<1>4. op'.at = op.at /\ op'.s = op.s /\ op'.answer = "none" /\ op' \in Op
  BY <1>3 DEF ClientTypeOK, Op, Answers
<1>5. ClientTypeOK'
  BY <1>1, <1>4 DEF ClientTypeOK
<1>6. OpenSessionsAreHeld'
  BY <1>1, <1>2 DEF OpenSessionsAreHeld, Open, Held
<1>7. RecapIsOver' /\ TimersHaveASession'
  BY DEF RecapIsOver, TimersHaveASession, Open
<1>8. ScreenKnows'
  BY <1>2 DEF ScreenKnows
<1>9. RequestKnows'
  BY <1>2 DEF RequestKnows
<1>10. SettlingKnows'
  BY DEF SettlingKnows
<1> QED
  BY <1>5, <1>6, <1>7, <1>8, <1>9, <1>10

LEMMA EndFailedKeeps ==
    ASSUME ClientInv, op.at \in {"end", "read"}, EndFailed, UNCHANGED <<srv, sid, key,
                                                                        timers, settle, histories>>
    PROVE  ClientInv'
<1> USE DEF ClientInv
<1>1. UNCHANGED <<srv, phase, sid, timers, tap, key, keyWrites, settle, deaths,
                  unheard, misdated>> /\ ending' = "failed" /\ op' = IdleCall
  BY DEF EndFailed, histories
<1>2. KeyToBe' = KeyToBe
  BY <1>1 DEF KeyToBe
<1>3. op'.at = "none" /\ op' \in Op
  BY <1>1, NotAsked
<1>4. ClientTypeOK'
  BY <1>1, <1>3 DEF ClientTypeOK
<1>5. OpenSessionsAreHeld'
  BY <1>1, <1>2 DEF OpenSessionsAreHeld, Open, Held
<1>6. RecapIsOver' /\ TimersHaveASession'
  BY <1>1 DEF RecapIsOver, TimersHaveASession, Open
<1>7. ScreenKnows'
  BY <1>1, <1>2, <1>3 DEF ScreenKnows
<1>8. RequestKnows'
  BY <1>3 DEF RequestKnows, OnSession
<1>9. SettlingKnows'
  BY DEF SettlingKnows
<1> QED
  BY <1>4, <1>5, <1>6, <1>7, <1>8, <1>9

LEMMA EndAnsweredKeeps ==
    ASSUME ClientInv, EndAnswered
    PROVE  ClientInv'
<1>1. op.at \in {"end", "read"} /\ UNCHANGED <<srv, sid, key, timers, settle, histories>>
  BY DEF EndAnswered
<1>2. CASE op.answer = "ok" /\ Ended
  BY <1>1, <1>2, EndedKeeps
<1>3. CASE /\ op.at = "end" /\ op.answer = "over" /\ Ask("read", op.s)
           /\ UNCHANGED <<keyWrites, ending, tap, phase>>
  BY <1>1, <1>3, ReadBackKeeps DEF screen, storage
<1>4. CASE /\ op.at = "end" /\ op.tries < MaxTries /\ ending' = "retrying"
           /\ op' = [op EXCEPT !.answer = "none", !.tries = @ + 1]
           /\ UNCHANGED <<keyWrites, tap, phase>>
  BY <1>1, <1>4, RetryKeeps DEF storage
<1>5. CASE EndFailed
  BY <1>1, <1>5, EndFailedKeeps
<1> QED
  BY <1>2, <1>3, <1>4, <1>5 DEF EndAnswered

\* A session is left, its recap is left, or it is discarded.
LEMMA LeaveKeeps ==
    ASSUME ClientInv, Leave \/ LeaveRecap
    PROVE  ClientInv'
<1> USE DEF ClientInv
<1>1. /\ UNCHANGED <<srv, key, keyWrites, op, settle, deaths, unheard, misdated>>
      /\ timers' = FALSE /\ sid' = NoFocus /\ tap' = NoFocus /\ ending' = "none" /\ phase' = "idle"
      /\ phase \in {"running", "recap"}
  BY DEF Leave, LeaveRecap, Reset, storage, histories
<1>2. KeyToBe' = KeyToBe
  BY <1>1 DEF KeyToBe
<1>3. NoFocus \in MaybeFocus
  BY DEF MaybeFocus
<1>4. ClientTypeOK'
  BY <1>1, <1>2, <1>3, FocusTyped DEF ClientTypeOK
<1>5. OpenSessionsAreHeld'
  BY <1>1, <1>2 DEF OpenSessionsAreHeld, Open, Held, ScreenKnows, RecapIsOver
<1>6. RecapIsOver' /\ TimersHaveASession'
  BY <1>1 DEF RecapIsOver, TimersHaveASession
<1>7. ScreenKnows'
  BY <1>1 DEF ScreenKnows
<1>8. RequestKnows'
  BY <1>1, <1>2 DEF RequestKnows, Open
<1>9. SettlingKnows'
  BY <1>1, ClientAssumption DEF SettlingKnows, Open
<1> QED
  BY <1>4, <1>5, <1>6, <1>7, <1>8, <1>9

LEMMA DiscardSessionKeeps ==
    ASSUME ClientInv, DiscardSession
    PROVE  ClientInv'
<1> USE DEF ClientInv
<1>1. /\ UNCHANGED <<srv, phase, sid, timers, ending, tap, key, keyWrites, settle,
                     deaths, unheard, misdated>>
      /\ op.at = "none" /\ phase = "running" /\ sid # NoFocus /\ Ask("discard", sid)
  BY DEF DiscardSession, Busy, screen, storage, histories
<1>2. KeyToBe' = KeyToBe
  BY <1>1 DEF KeyToBe
<1>3. op'.at = "discard" /\ op'.s = sid /\ op'.answer = "none" /\ op' \in Op
  BY <1>1, Asked DEF ClientTypeOK
<1>4. ClientTypeOK'
  BY <1>1, <1>3 DEF ClientTypeOK
<1>5. OpenSessionsAreHeld'
  BY <1>1, <1>2 DEF OpenSessionsAreHeld, Open, Held
<1>6. RecapIsOver' /\ TimersHaveASession'
  BY <1>1 DEF RecapIsOver, TimersHaveASession
<1>7. ScreenKnows'
  BY <1>1, <1>2, <1>3 DEF ScreenKnows
<1>8. RequestKnows'
  BY <1>1, <1>2, <1>3 DEF RequestKnows, ScreenKnows
<1>9. SettlingKnows'
  BY <1>1 DEF SettlingKnows, ScreenKnows
<1> QED
  BY <1>4, <1>5, <1>6, <1>7, <1>8, <1>9

LEMMA DiscardedKeeps ==
    ASSUME ClientInv, DiscardAnswered, op.answer \in {"ok", "gone"}
    PROVE  ClientInv'
<1> USE DEF ClientInv
<1>1. /\ UNCHANGED <<srv, key, settle, deaths, unheard, misdated>>
      /\ op.at = "discard" /\ op' = IdleCall /\ keyWrites' = Append(keyWrites, NoFocus)
      /\ timers' = FALSE /\ sid' = NoFocus /\ tap' = NoFocus /\ ending' = "none" /\ phase' = "idle"
  BY DEF DiscardAnswered, Reset, ClearRunning, histories
<1>2. NoFocus \in MaybeFocus
  BY DEF MaybeFocus
<1>3. KeyToBe' = NoFocus /\ keyWrites' \in Seq(MaybeFocus)
  BY <1>1, <1>2, KeyIsWritten
<1>4. op'.at = "none" /\ op' \in Op
  BY <1>1, NotAsked
<1>5. srv[op.s] # "open" /\ KeyToBe = op.s /\ sid \in {op.s, NoFocus}
  BY <1>1 DEF RequestKnows, OnSession
<1>6. ClientTypeOK'
  BY <1>1, <1>2, <1>3, <1>4, <1>5, FocusTyped DEF ClientTypeOK
<1>7. OpenSessionsAreHeld'
  BY <1>1, <1>5 DEF OpenSessionsAreHeld, Open, Held
<1>8. RecapIsOver' /\ TimersHaveASession'
  BY <1>1 DEF RecapIsOver, TimersHaveASession
<1>9. ScreenKnows'
  BY <1>1 DEF ScreenKnows
<1>10. RequestKnows'
  BY <1>4 DEF RequestKnows, OnSession
<1>11. SettlingKnows'
  BY <1>1 DEF SettlingKnows
<1> QED
  BY <1>6, <1>7, <1>8, <1>9, <1>10, <1>11

LEMMA NotDiscardedKeeps ==
    ASSUME ClientInv, DiscardAnswered, op.answer \notin {"ok", "gone"}
    PROVE  ClientInv'
<1> USE DEF ClientInv
<1>1. /\ UNCHANGED <<srv, phase, sid, timers, ending, tap, key, keyWrites, settle,
                     deaths, unheard, misdated>>
      /\ op.at = "discard" /\ op' = IdleCall
  BY DEF DiscardAnswered, screen, histories
<1>2. KeyToBe' = KeyToBe
  BY <1>1 DEF KeyToBe
<1>3. op'.at = "none" /\ op' \in Op
  BY <1>1, NotAsked
<1>4. ClientTypeOK'
  BY <1>1, <1>3 DEF ClientTypeOK
<1>5. OpenSessionsAreHeld'
  BY <1>1, <1>2 DEF OpenSessionsAreHeld, Open, Held
<1>6. RecapIsOver' /\ TimersHaveASession'
  BY <1>1 DEF RecapIsOver, TimersHaveASession, Open
<1>7. ScreenKnows'
  BY <1>1, <1>2, <1>3 DEF ScreenKnows
<1>8. RequestKnows'
  BY <1>3 DEF RequestKnows, OnSession
<1>9. SettlingKnows'
  BY <1>1 DEF SettlingKnows
<1> QED
  BY <1>4, <1>5, <1>6, <1>7, <1>8, <1>9

\* The server serves a request about a session: it says closed only of what it closed.
LEMMA ServeCloseKeeps ==
    ASSUME ClientInv, op.at \in OnSession, NEW answer \in Answers, op' = [op EXCEPT !.answer = answer],
           srv' \in [Focus -> {"absent", "open", "ended", "deleted"}],
           \A x \in Focus : x # op.s => srv'[x] = srv[x],
           srv'[op.s] # "absent", srv'[op.s] = "open" => srv[op.s] = "open",
           op.at = "read" \/ answer \in {"ok", "gone", "over"} => srv'[op.s] # "open",
           UNCHANGED <<screen, storage, settle, histories>>
    PROVE  ClientInv'
<1> USE DEF ClientInv
<1>1. UNCHANGED <<phase, sid, timers, ending, tap, key, keyWrites, settle, deaths,
                  unheard, misdated>>
  BY DEF screen, storage, histories
<1>2. KeyToBe' = KeyToBe
  BY <1>1 DEF KeyToBe
<1>3. op'.at = op.at /\ op'.s = op.s /\ op'.answer = answer /\ op' \in Op
  BY AnsweredOp
<1>5. ClientTypeOK'
  BY <1>1, <1>3 DEF ClientTypeOK
<1>6. OpenSessionsAreHeld'
  BY <1>1, <1>2 DEF OpenSessionsAreHeld, Open, Held
<1>7. RecapIsOver' /\ TimersHaveASession'
  BY <1>1 DEF RecapIsOver, TimersHaveASession, Open
<1>8. ScreenKnows'
  BY <1>1, <1>2, FocusTyped DEF ScreenKnows
<1>9. RequestKnows'
  BY <1>1, <1>2 DEF RequestKnows, OnSession
<1>10. SettlingKnows'
  BY DEF SettlingKnows, RequestKnows
<1> QED
  BY <1>5, <1>6, <1>7, <1>8, <1>9, <1>10

LEMMA ServeEndKeeps ==
    ASSUME ClientInv, ServeEnd, UNCHANGED <<screen, storage, settle, histories>>
    PROVE  ClientInv'
<1>1. op.at \in OnSession /\ op.s \in Focus /\ srv \in [Focus -> {"absent", "open", "ended", "deleted"}]
      /\ srv[op.s] # "absent"
  BY FocusTyped DEF ServeEnd, OnSession, ClientInv, RequestKnows, ClientTypeOK
<1>2. CASE srv[op.s] = "open"
  <2>1. srv' = [srv EXCEPT ![op.s] = "ended"] /\ op' = [op EXCEPT !.answer = "ok"]
    BY <1>2 DEF ServeEnd, Outcome
  <2>2. "ok" \in Answers
    BY DEF Answers
  <2> QED
    BY <1>1, <2>1, <2>2, ServeCloseKeeps
<1>3. CASE srv[op.s] = "ended"
  <2>1. srv' = srv /\ op' = [op EXCEPT !.answer = "over"]
    BY <1>3 DEF ServeEnd, Outcome
  <2>2. "over" \in Answers
    BY DEF Answers
  <2> QED
    BY <1>1, <1>3, <2>1, <2>2, ServeCloseKeeps
<1>4. CASE srv[op.s] = "deleted"
  <2>1. srv' = srv /\ op' = [op EXCEPT !.answer = "gone"]
    BY <1>4 DEF ServeEnd, Outcome
  <2>2. "gone" \in Answers
    BY DEF Answers
  <2> QED
    BY <1>1, <1>4, <2>1, <2>2, ServeCloseKeeps
<1> QED
  BY <1>1, <1>2, <1>3, <1>4

LEMMA ServeDeleteKeeps ==
    ASSUME ClientInv, ServeDelete, UNCHANGED <<screen, storage, settle, histories>>
    PROVE  ClientInv'
<1>1. op.at \in OnSession /\ op.s \in Focus /\ srv \in [Focus -> {"absent", "open", "ended", "deleted"}]
      /\ srv[op.s] # "absent"
  BY FocusTyped DEF ServeDelete, OnSession, ClientInv, RequestKnows, ClientTypeOK
<1>2. "ok" \in Answers /\ "gone" \in Answers
  BY DEF Answers
<1>3. CASE srv[op.s] = "deleted"
  <2>1. srv' = srv /\ op' = [op EXCEPT !.answer = "gone"]
    BY <1>3 DEF ServeDelete, Outcome
  <2> QED
    BY <1>1, <1>2, <1>3, <2>1, ServeCloseKeeps
<1>4. CASE srv[op.s] # "deleted"
  <2>1. srv' = [srv EXCEPT ![op.s] = "deleted"] /\ op' = [op EXCEPT !.answer = "ok"]
    BY <1>4 DEF ServeDelete, Outcome
  <2> QED
    BY <1>1, <1>2, <2>1, ServeCloseKeeps
<1> QED
  BY <1>3, <1>4

LEMMA ServeReadKeeps ==
    ASSUME ClientInv, ServeRead, UNCHANGED <<screen, storage, settle, histories>>
    PROVE  ClientInv'
<1>1. op.at = "read" /\ op.at \in OnSession /\ op.s \in Focus
      /\ srv \in [Focus -> {"absent", "open", "ended", "deleted"}] /\ srv[op.s] # "absent"
  BY FocusTyped DEF ServeRead, OnSession, ClientInv, RequestKnows, ClientTypeOK
<1>2. srv[op.s] # "open"
  BY <1>1 DEF ClientInv, RequestKnows
<1>3. "ok" \in Answers /\ "gone" \in Answers
  BY DEF Answers
<1>4. CASE srv[op.s] = "deleted"
  <2>1. srv' = srv /\ op' = [op EXCEPT !.answer = "gone"]
    BY <1>4 DEF ServeRead, Outcome
  <2> QED
    BY <1>1, <1>2, <1>3, <2>1, ServeCloseKeeps
<1>5. CASE srv[op.s] # "deleted"
  <2>1. srv' = srv /\ op' = [op EXCEPT !.answer = "ok"]
    BY <1>5 DEF ServeRead, Outcome
  <2> QED
    BY <1>1, <1>2, <1>3, <2>1, ServeCloseKeeps
<1> QED
  BY <1>4, <1>5

\* A start or a join is refused; one is granted, with no session open before it.
LEMMA ServeRefusedKeeps ==
    ASSUME ClientInv, op.at = "create", srv' = srv, NEW answer \in Answers \ {"ok"}, op' = [op EXCEPT !.answer = answer],
           UNCHANGED <<screen, storage, settle, histories>>
    PROVE  ClientInv'
<1> USE DEF ClientInv
<1>1. UNCHANGED <<srv, phase, sid, timers, ending, tap, key, keyWrites, settle, deaths,
                  unheard, misdated>>
  BY DEF screen, storage, histories
<1>2. KeyToBe' = KeyToBe
  BY <1>1 DEF KeyToBe
<1>3. op'.at = op.at /\ op'.s = op.s /\ op'.answer = answer /\ answer # "ok" /\ op' \in Op
  BY AnsweredOp
<1>4. ClientTypeOK'
  BY <1>1, <1>3 DEF ClientTypeOK
<1>5. OpenSessionsAreHeld'
  BY <1>1, <1>2 DEF OpenSessionsAreHeld, Open, Held
<1>6. RecapIsOver' /\ TimersHaveASession'
  BY <1>1 DEF RecapIsOver, TimersHaveASession, Open
<1>7. ScreenKnows'
  BY <1>1 DEF ScreenKnows
<1>8. RequestKnows'
  BY DEF RequestKnows, OnSession, Open
<1>9. SettlingKnows'
  BY DEF SettlingKnows
<1> QED
  BY <1>4, <1>5, <1>6, <1>7, <1>8, <1>9

LEMMA ServeGrantedKeeps ==
    ASSUME ClientInv, op.at = "create", NEW s \in Focus, Open = {}, srv[s] = "absent",
           srv' = [srv EXCEPT ![s] = "open"], op' = [op EXCEPT !.answer = "ok", !.s = s],
           UNCHANGED <<screen, storage, settle, histories>>
    PROVE  ClientInv'
<1> USE DEF ClientInv
<1>1. UNCHANGED <<phase, sid, timers, ending, tap, key, keyWrites, settle, deaths,
                  unheard, misdated>>
  BY DEF screen, storage, histories
<1>3. op'.at = "create" /\ op'.s = s /\ op'.answer = "ok" /\ op' \in Op
  BY DEF ClientTypeOK, Op, Answers, MaybeFocus
<1>4. s # NoFocus /\ Open' = {s}
  BY ClientAssumption DEF Open, ClientTypeOK
<1>6. srv' \in [Focus -> {"absent", "open", "ended", "deleted"}] /\ srv'[s] # "absent"
  BY DEF ClientTypeOK
<1>7. ClientTypeOK'
  BY <1>1, <1>3 DEF ClientTypeOK
<1>8. OpenSessionsAreHeld'
  BY <1>4 DEF OpenSessionsAreHeld, Held
<1>9. RecapIsOver' /\ TimersHaveASession'
  BY <1>1, <1>4 DEF RecapIsOver, TimersHaveASession, ScreenKnows
<1>10. ScreenKnows'
  BY <1>1 DEF ScreenKnows
<1>11. RequestKnows'
  BY <1>4, <1>6 DEF RequestKnows, OnSession
<1>12. SettlingKnows'
  BY DEF SettlingKnows
<1> QED
  BY <1>7, <1>8, <1>9, <1>10, <1>11, <1>12

LEMMA ServeCallsKeep ==
    ASSUME ClientInv, ServeCalls
    PROVE  ClientInv'
<1>1. UNCHANGED <<screen, storage, settle, histories>>
  BY DEF ServeCalls
<1>2. CASE ServeEnd
  BY <1>1, <1>2, ServeEndKeeps
<1>3. CASE ServeRead
  BY <1>1, <1>3, ServeReadKeeps
<1>4. CASE ServeDelete
  BY <1>1, <1>4, ServeDeleteKeeps
<1>5. CASE ServeCreate
  <2>1. "refused" \in Answers \ {"ok"} /\ "taken" \in Answers \ {"ok"}
    BY DEF Answers
  <2>2. op.at = "create"
    BY <1>5 DEF ServeCreate
  <2>3. CASE Outcome(srv, "refused")
    BY <1>1, <2>1, <2>2, <2>3, ServeRefusedKeeps DEF Outcome
  <2>4. CASE Outcome(srv, "taken")
    BY <1>1, <2>1, <2>2, <2>4, ServeRefusedKeeps DEF Outcome
  <2>5. CASE /\ Open = {}
             /\ \E s \in Focus : /\ srv[s] = "absent" /\ srv' = [srv EXCEPT ![s] = "open"]
                                 /\ op' = [op EXCEPT !.answer = "ok", !.s = s]
    <3>1. PICK s \in Focus : /\ srv[s] = "absent" /\ srv' = [srv EXCEPT ![s] = "open"]
                             /\ op' = [op EXCEPT !.answer = "ok", !.s = s]
      BY <2>5
    <3> QED
      BY <1>1, <2>2, <2>5, ServeGrantedKeeps
  <2> QED
    BY <1>5, <2>3, <2>4, <2>5 DEF ServeCreate
<1> QED
  BY <1>2, <1>3, <1>4, <1>5 DEF ServeCalls

\* A request or an answer is lost, the person's or that of settling.
LEMMA LoseKeeps ==
    ASSUME ClientInv, Lose
    PROVE  ClientInv'
<1> USE DEF ClientInv
<1>1. UNCHANGED <<srv, phase, sid, timers, ending, tap, key, keyWrites, settle, deaths,
                  unheard, misdated>>
  BY DEF Lose, screen, storage, histories
<1>2. KeyToBe' = KeyToBe
  BY <1>1 DEF KeyToBe
<1>3. "lost" \in Answers
  BY DEF Answers
<1>4. op' = [op EXCEPT !.answer = "lost"]
  BY DEF Lose
<1>5. op'.at = op.at /\ op'.s = op.s /\ op'.answer = "lost" /\ op' \in Op
  BY <1>3, <1>4, AnsweredOp
<1>6. ClientTypeOK'
  BY <1>1, <1>5 DEF ClientTypeOK
<1>7. OpenSessionsAreHeld'
  BY <1>1, <1>2, <1>4 DEF OpenSessionsAreHeld, Open, Held
<1>8. RecapIsOver' /\ TimersHaveASession'
  BY <1>1 DEF RecapIsOver, TimersHaveASession, Open
<1>9. ScreenKnows'
  BY <1>1, <1>2, <1>4 DEF ScreenKnows
<1>10. RequestKnows'
  BY <1>1, <1>2, <1>4 DEF RequestKnows, Open
<1>11. SettlingKnows'
  BY <1>1, <1>4 DEF SettlingKnows, Open
<1> QED
  BY <1>6, <1>7, <1>8, <1>9, <1>10, <1>11

LEMMA LoseAbandonKeeps ==
    ASSUME ClientInv, LoseAbandon
    PROVE  ClientInv'
<1> USE DEF ClientInv
<1>1. UNCHANGED <<srv, phase, sid, timers, ending, tap, key, keyWrites, op, deaths,
                  unheard, misdated>>
  BY DEF LoseAbandon, screen, storage, histories
<1>2. KeyToBe' = KeyToBe
  BY <1>1 DEF KeyToBe
<1>3. "lost" \in Answers
  BY DEF Answers
<1>4. settle' = [settle EXCEPT !.answer = "lost"]
  BY DEF LoseAbandon
<1>5. settle'.at = settle.at /\ settle'.s = settle.s /\ settle'.answer = "lost" /\ settle' \in Settle
  BY <1>3, <1>4, AnsweredSettle
<1>6. ClientTypeOK'
  BY <1>1, <1>5 DEF ClientTypeOK
<1>7. OpenSessionsAreHeld'
  BY <1>1, <1>2 DEF OpenSessionsAreHeld, Open, Held
<1>8. RecapIsOver' /\ TimersHaveASession'
  BY <1>1 DEF RecapIsOver, TimersHaveASession, Open
<1>9. ScreenKnows'
  BY <1>1, <1>2, <1>4 DEF ScreenKnows
<1>10. RequestKnows'
  BY <1>1, <1>2, <1>4 DEF RequestKnows, Open
<1>11. SettlingKnows'
  BY <1>1, <1>4 DEF SettlingKnows, Open
<1> QED
  BY <1>6, <1>7, <1>8, <1>9, <1>10, <1>11

\* The server closes the leftover, or a session that went silent.
LEMMA ServeAbandonKeeps ==
    ASSUME ClientInv, ServeAbandon
    PROVE  ClientInv'
<1> USE DEF ClientInv
<1>1. UNCHANGED <<phase, sid, timers, ending, tap, key, keyWrites, op, deaths, unheard,
                  misdated>>
  BY DEF ServeAbandon, screen, storage, histories
<1>2. KeyToBe' = KeyToBe
  BY <1>1 DEF KeyToBe
<1>3. settle.at = "abandon" /\ settle.s \in Focus /\ srv \in [Focus -> {"absent", "open", "ended", "deleted"}]
  BY DEF ServeAbandon, SettlingKnows, MaybeFocus, ClientTypeOK
<1>4. /\ srv' = IF srv[settle.s] = "open" THEN [srv EXCEPT ![settle.s] = "ended"] ELSE srv
      /\ settle' = [settle EXCEPT !.answer = IF srv[settle.s] = "deleted" THEN "gone" ELSE "ok"]
  BY DEF ServeAbandon
<1>5. settle'.at = settle.at /\ settle'.s = settle.s /\ settle' \in Settle
  BY <1>4, AnsweredSettle DEF Answers
<1>6. /\ srv' \in [Focus -> {"absent", "open", "ended", "deleted"}] /\ srv'[settle.s] # "open"
      /\ \A x \in Focus : srv'[x] = "open" => srv[x] = "open"
      /\ \A x \in Focus : srv[x] # "absent" => srv'[x] # "absent"
  BY <1>3, <1>4
<1>7. ClientTypeOK'
  BY <1>1, <1>5, <1>6 DEF ClientTypeOK
<1>8. OpenSessionsAreHeld'
  BY <1>1, <1>2, <1>6 DEF OpenSessionsAreHeld, Open, Held
<1>9. RecapIsOver' /\ TimersHaveASession'
  BY <1>1, <1>6 DEF RecapIsOver, TimersHaveASession, Open
<1>10. ScreenKnows'
  BY <1>1, <1>3, <1>6, FocusTyped DEF ScreenKnows
<1>11. RequestKnows'
  BY <1>1, <1>3 DEF RequestKnows
<1>12. SettlingKnows'
  BY <1>1, <1>5, <1>6 DEF SettlingKnows, Open
<1> QED
  BY <1>7, <1>8, <1>9, <1>10, <1>11, <1>12

LEMMA CloseSilentKeeps ==
    ASSUME ClientInv, NEW s \in Focus, CloseSilent(s)
    PROVE  ClientInv'
<1> USE DEF ClientInv
<1>1. UNCHANGED <<phase, sid, timers, ending, tap, key, keyWrites, op, settle, deaths,
                  unheard, misdated>>
  BY DEF CloseSilent, screen, storage, histories
<1>2. KeyToBe' = KeyToBe
  BY <1>1 DEF KeyToBe
<1>3. srv' = [srv EXCEPT ![s] = "ended"] /\ srv[s] = "open"
  BY DEF CloseSilent
<1>4. /\ srv' \in [Focus -> {"absent", "open", "ended", "deleted"}]
      /\ \A x \in Focus : srv'[x] = "open" => srv[x] = "open"
      /\ \A x \in Focus : srv[x] # "absent" => srv'[x] # "absent"
  BY <1>3 DEF ClientTypeOK
<1>5. ClientTypeOK'
  BY <1>1, <1>4 DEF ClientTypeOK
<1>6. OpenSessionsAreHeld'
  BY <1>1, <1>2, <1>4 DEF OpenSessionsAreHeld, Open, Held
<1>7. RecapIsOver' /\ TimersHaveASession'
  BY <1>1, <1>4 DEF RecapIsOver, TimersHaveASession, Open
<1>8. ScreenKnows'
  BY <1>1, <1>2, <1>4, FocusTyped DEF ScreenKnows
<1>9. RequestKnows'
  BY <1>1, <1>2, <1>4, FocusTyped DEF RequestKnows, Open
<1>10. SettlingKnows'
  BY <1>1, <1>4 DEF SettlingKnows, Open
<1> QED
  BY <1>5, <1>6, <1>7, <1>8, <1>9, <1>10

\* The app dies: what was remembered stays so, the rest is a leftover nobody heard of.
LEMMA KillKeeps ==
    ASSUME ClientInv, Kill
    PROVE  ClientInv'
<1> USE DEF ClientInv
<1>1. /\ UNCHANGED <<srv, key, misdated>> /\ deaths < MaxDeaths /\ deaths' = deaths + 1
      /\ phase' = "idle" /\ sid' = NoFocus /\ timers' = FALSE /\ ending' = "none" /\ tap' = NoFocus
      /\ keyWrites' = <<>> /\ op' = IdleCall
  BY DEF Kill
<1>2. op'.at = "none" /\ op' \in Op
  BY <1>1, NotAsked
<1>3. settle'.at = "look" /\ settle' \in Settle
  BY SettlesAt DEF Kill
<1>4. keyWrites' \in Seq(MaybeFocus) /\ NoFocus \in MaybeFocus
  BY <1>1 DEF MaybeFocus
<1>5. unheard' \subseteq Focus
  BY DEF Kill, ClientTypeOK
<1>6. KeyToBe' = key
  BY <1>1 DEF KeyToBe
<1>7. deaths' \in 0 .. MaxDeaths
  BY <1>1, ClientAssumption DEF ClientTypeOK
<1>8. KeyToBe = key \/ KeyToBe \in unheard' \/ KeyToBe = NoFocus
  <2>1. CASE keyWrites = <<>>
    BY <2>1 DEF KeyToBe
  <2>2. CASE keyWrites # <<>>
    <3>1. Len(keyWrites) \in DOMAIN keyWrites
      BY <2>2
    <3>2. KeyToBe = keyWrites[Len(keyWrites)]
      BY <2>2 DEF KeyToBe
    <3>3. KeyToBe \in Focus \cup {NoFocus}
      BY FocusTyped DEF MaybeFocus
    <3> QED
      BY <3>1, <3>2, <3>3 DEF Kill
  <2> QED
    BY <2>1, <2>2
<1>9. unheard \subseteq unheard' /\ (op.at = "create" /\ op.s \in Focus => op.s \in unheard')
  BY DEF Kill
<1>10. ClientTypeOK'
  BY <1>1, <1>2, <1>3, <1>4, <1>5, <1>6, <1>7, <1>8, <1>9, FocusTyped DEF ClientTypeOK
<1>11. OpenSessionsAreHeld'
  BY <1>1, <1>6, <1>8, <1>9, FocusTyped
    DEF OpenSessionsAreHeld, Open, Held, ScreenKnows, RecapIsOver
<1>12. RecapIsOver' /\ TimersHaveASession'
  BY <1>1 DEF RecapIsOver, TimersHaveASession
<1>13. ScreenKnows'
  BY <1>1 DEF ScreenKnows
<1>14. RequestKnows'
  BY <1>2 DEF RequestKnows, OnSession
<1>15. SettlingKnows'
  BY <1>1, <1>2, <1>3, ClientAssumption DEF SettlingKnows, Open
<1> QED
  BY <1>10, <1>11, <1>12, <1>13, <1>14, <1>15

LEMMA ClientStep ==
    ASSUME ClientInv, [ClientNext]_clientVars
    PROVE  ClientInv'
<1>1. CASE StartOrJoin
  BY <1>1, StartOrJoinKeeps
<1>2. CASE Switch
  BY <1>2, SwitchSessionKeeps, SwitchNothingKeeps
<1>3. CASE End
  BY <1>3, EndKeeps
<1>4. CASE Leave \/ LeaveRecap
  BY <1>4, LeaveKeeps
<1>5. CASE DiscardSession
  BY <1>5, DiscardSessionKeeps
<1>6. CASE Answered
  <2>1. CASE SwitchAnswered
    BY <2>1, SwitchedKeeps, NotSwitchedKeeps
  <2>2. CASE SettleAnswered
    BY <2>2, LeftoverClosedKeeps, LeftoverStaysKeeps
  <2>3. CASE CreateAnswered
    BY <2>3, CreatedKeeps, NotCreatedKeeps
  <2>4. CASE EndAnswered
    BY <2>4, EndAnsweredKeeps
  <2>5. CASE DiscardAnswered
    BY <2>5, DiscardedKeeps, NotDiscardedKeeps
  <2> QED
    BY <1>6, <2>1, <2>2, <2>3, <2>4, <2>5 DEF Answered
<1>7. CASE Proceeds
  BY <1>7, LookAtKeyKeeps, SettledUpKeeps, SendCreateKeeps DEF Proceeds
<1>8. CASE WriteKey
  BY <1>8, WriteKeyKeeps
<1>9. CASE World
  BY <1>9, ServeCallsKeep, LoseKeeps, ServeAbandonKeeps, LoseAbandonKeeps DEF World
<1>10. CASE \E s \in Focus : CloseSilent(s)
  BY <1>10, CloseSilentKeeps
<1>11. CASE Kill
  BY <1>11, KillKeeps
<1>12. CASE UNCHANGED clientVars
  BY <1>12
    DEF clientVars, ClientInv, ClientTypeOK, OpenSessionsAreHeld, RecapIsOver,
        TimersHaveASession, ScreenKnows, RequestKnows, SettlingKnows, Open, Held,
        KeyToBe
<1> QED
  BY <1>1, <1>2, <1>3, <1>4, <1>5, <1>6, <1>7, <1>8, <1>9, <1>10, <1>11, <1>12
    DEF ClientNext

\* The session of the phone and of the server, whatever the requests and the app do.
THEOREM ClientInvariant == ClientSpec => []ClientInv
<1>1. ClientInv /\ [ClientNext]_clientVars => ClientInv'
  BY ClientStep
<1> QED
  BY ClientStart, <1>1, PTL DEF ClientSpec

\* Every variable of the phone's session keeps its type.
THEOREM ClientTypeCorrect == ClientSpec => []ClientTypeOK
<1>1. ClientInv => ClientTypeOK
  BY DEF ClientInv
<1> QED
  BY ClientInvariant, <1>1, PTL

\* A session the server has open is on the screen, or its id is in the key or on its
\* way there; the recap is shown of a session that is over; a timer has its session.
THEOREM ScreenStaysSound == ClientSpec => []ScreenIsSound
<1>1. ClientInv => ScreenIsSound
  BY DEF ClientInv, ScreenIsSound
<1> QED
  BY ClientInvariant, <1>1, PTL

-----------------------------------------------------------------------------
\* The phone as a whole.

\* In every behaviour of the sessions, the sign-in and the session screen, each
\* variable of the app keeps its type: a step of the whole is a step of the sign-in
\* or leaves it alone, and the same of the screen, so both invariants are kept.
THEOREM AppTypeCorrect == LiveSpec => []AppTypeOK
<1>1. LiveInit => PhoneInv /\ ClientInv
  BY PhoneStart, ClientStart DEF LiveInit
<1>2. [LiveNext]_liveVars => [PhoneNext]_phoneVars /\ [ClientNext]_clientVars
  BY DEF LiveNext, In, liveVars, phoneVars, clientVars
<1>3. PhoneInv /\ ClientInv /\ [LiveNext]_liveVars => (PhoneInv /\ ClientInv)'
  BY <1>2, PhoneStep, ClientStep
<1>4. PhoneInv /\ ClientInv => AppTypeOK
  BY DEF PhoneInv, ClientInv, AppTypeOK
<1> QED
  BY <1>1, <1>3, <1>4, PTL DEF LiveSpec
=============================================================================
