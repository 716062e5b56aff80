---------------------------- MODULE OneTimeReset ----------------------------
(***************************************************************************)
(* What a forgotten password's reset promises, whatever its requests do:   *)
(* a code opens for one holder, the holder's token sets the password once, *)
(* and a code that was withdrawn is good for nothing.  PasswordReset       *)
(* implements it.                                                          *)
(***************************************************************************)
CONSTANTS
    Code,
    Holder,         \* who can be handed a code's reset token
    Nobody,
    FirstPassword   \* the one the account had before any reset

VARIABLES
    stage,          \* of every code
    holder,         \* to whom it was granted
    setBy           \* the code that set the password now in force

promised == <<stage, holder, setBy>>

Begun ==
    /\ stage = [c \in Code |-> "none"]
    /\ holder = [c \in Code |-> Nobody]
    /\ setBy = FirstPassword

\* A code is mailed, and the ones named withdrawn.
Mail(c, withdrawn) ==
    /\ stage[c] = "none"
    /\ \A d \in withdrawn : stage[d] \in {"open", "held"}
    /\ stage' = [d \in Code |-> IF d = c THEN "open"
                                ELSE IF d \in withdrawn THEN "void" ELSE stage[d]]
    /\ UNCHANGED <<holder, setBy>>

Grant(c, h) ==
    /\ stage[c] = "open"
    /\ stage' = [stage EXCEPT ![c] = "held"]
    /\ holder' = [holder EXCEPT ![c] = h]
    /\ UNCHANGED setBy

Redeem(c) ==
    /\ stage[c] = "held"
    /\ stage' = [stage EXCEPT ![c] = "used"]
    /\ setBy' = c
    /\ UNCHANGED holder

Step ==
    \E c \in Code :
        \/ \E withdrawn \in SUBSET Code : Mail(c, withdrawn)
        \/ \E h \in Holder : Grant(c, h)
        \/ Redeem(c)

Promise == Begun /\ [][Step]_promised
=============================================================================
