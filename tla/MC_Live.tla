------------------------------ MODULE MC_Live ------------------------------
(***************************************************************************)
(* TLC's instance of what must happen in the end: a session left open, the *)
(* app's own session screen, and its sign-in.  They share no variable, so  *)
(* a behaviour is a behaviour of one of them, the one `part' names, with   *)
(* the others where they begin; each keeps the fairness of its own         *)
(* specification.                                                          *)
(***************************************************************************)
EXTENDS StudySessions, PhoneSession, FocusClient, TLC

VARIABLE part

liveVars == <<part, vars, phoneVars, clientVars>>

LiveInit ==
    /\ part \in {"sessions", "phone", "focus"}
    /\ Init /\ PhoneInit /\ ClientInit

In(p, A) == part = p /\ A

LiveNext ==
    \/ In("sessions", Next) /\ UNCHANGED <<part, phoneVars, clientVars>>
    \/ In("phone", PhoneNext) /\ UNCHANGED <<part, vars, clientVars>>
    \/ In("focus", ClientNext) /\ UNCHANGED <<part, vars, phoneVars>>

\* FairSpec, PhoneFairness and ClientFairness, each for the part it is about.
LiveSpec ==
    /\ LiveInit /\ [][LiveNext]_liveVars
    /\ WF_vars(In("sessions", Tick))
    /\ \A r \in Request : /\ WF_vars(In("sessions", Proceed(r)))
                          /\ WF_vars(In("sessions", BeginSweep(r, TRUE)))
    /\ WF_phoneVars(In("phone", RestoreAnswered \/ LoginAnswered \/ CallLost))
    /\ WF_clientVars(In("focus", ServeCalls \/ Lose))
    /\ WF_clientVars(In("focus", ServeAbandon \/ LoseAbandon))
    /\ WF_clientVars(In("focus", Answered))
    /\ WF_clientVars(In("focus", Proceeds))
    /\ WF_clientVars(In("focus", WriteKey))

\* Every variable of the app keeps its type.
AppTypeOK == PhoneTypeOK /\ ClientTypeOK

\* LeftOpenIsClosed of the sessions.
LeftOpenEnds == part = "sessions" => LeftOpenIsClosed

\* LaunchEnds of the sign-in and BusyEnds of the session screen: neither the splash
\* screen nor a button's spinner stays for ever.
Spinning == (part = "phone" /\ ~ restored) \/ (part = "focus" /\ Busy)
SpinnersEnd == Spinning ~> ~ Spinning
=============================================================================
