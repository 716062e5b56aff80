----------------------------- MODULE MC_Account -----------------------------
(***************************************************************************)
(* TLC's instance of the parts of one person's account: the streak, the    *)
(* goals, the password reset, the subscription and the notifications.      *)
(* They share no variable, so a behaviour is a behaviour of one of them,   *)
(* the one `part' names, with the others where they begin.                 *)
(***************************************************************************)
EXTENDS StudyStreak, StudyGoals, PasswordReset, Subscriptions, LiveInbox, TLC

VARIABLE part

accountVars == <<part, streakVars, goalVars, resetVars, subscriptionVars, inboxVars>>

Init ==
    /\ part \in {"streak", "goals", "reset", "subscription", "inbox"}
    /\ StreakInit /\ GoalsInit /\ ResetInit /\ SubscriptionsInit /\ InboxInit
    /\ part # "subscription" => row = NoSubscription   \* one beginning for the others

In(p, A) == part = p /\ A

Next ==
    \/ In("streak", StreakNext) /\ UNCHANGED <<part, goalVars, resetVars, subscriptionVars, inboxVars>>
    \/ In("goals", GoalsNext) /\ UNCHANGED <<part, streakVars, resetVars, subscriptionVars, inboxVars>>
    \/ In("reset", ResetNext) /\ UNCHANGED <<part, streakVars, goalVars, subscriptionVars, inboxVars>>
    \/ In("subscription", SubscriptionsNext) /\ UNCHANGED <<part, streakVars, goalVars, resetVars, inboxVars>>
    \/ In("inbox", InboxNext) /\ UNCHANGED <<part, streakVars, goalVars, resetVars, subscriptionVars>>

Spec == Init /\ [][Next]_accountVars

\* Every variable of every part keeps its type.
TypeOK ==
    /\ part = "streak" => StreakTypeOK
    /\ part = "goals" => GoalsTypeOK
    /\ part = "reset" => ResetTypeOK
    /\ part = "subscription" => SubscriptionsTypeOK
    /\ part = "inbox" => InboxTypeOK

\* AnnouncedOnce and ReachedIsAnnounced: reaching a goal is told, and told once
\* (notifyGoalsReached).
GoalsAreToldOnce == AnnouncedOnce /\ ReachedIsAnnounced

\* The requests of every part are the same two values, and so are its ids.
Symmetry == Permutations(Visit) \cup Permutations(Device)
=============================================================================
