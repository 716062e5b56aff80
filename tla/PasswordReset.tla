---------------------------- MODULE PasswordReset ----------------------------
(***************************************************************************)
(* One account's forgotten password: passwordReset.service.js, and what a  *)
(* reset does to the account's logins (auth.service.js, token.service.js). *)
(*                                                                         *)
(* A request for a code deletes the codes there are and inserts its own in *)
(* one transaction; verifying and resetting each read a row, do something      *)
(* slow, and then write it with a compare-and-set.  A transaction's delete *)
(* sees what was committed when it began, and locks it until the commit.   *)
(* A login compares the password before it inserts a token, and a refresh  *)
(* revokes the old token before it inserts the new one.                    *)
(***************************************************************************)
EXTENDS Integers, Sequences

CONSTANTS
    Code,           \* codes, each mailed at most once
    Visit,          \* requests to the three reset endpoints
    Device,         \* the account's logins
    Nobody,
    FirstPassword,
    MaxAttempts     \* RESET_CODE_MAX_ATTEMPTS

ASSUME ResetAssumption ==
    /\ MaxAttempts \in Nat /\ Nobody \notin Visit
    /\ FirstPassword \notin Code /\ Code # {}

VARIABLES
    codeRow,    \* passwordResetCode, by code
    asked,      \* the codes in the order their transactions began (createdAt)
    password,   \* the code that set it
    dev,        \* the logins
    late,       \* history: the devices in the middle of something at a reset
    visit       \* the requests in flight

resetVars == <<codeRow, asked, password, dev, late, visit>>

CodeRow == [st : {"none", "open", "verified", "consumed"}, there : BOOLEAN,
        expired : BOOLEAN, attempts : 0 .. MaxAttempts, by : Visit \cup {Nobody}]
NoCodeRow == [st |-> "none", there |-> FALSE, expired |-> FALSE, attempts |-> 0,
          by |-> Nobody]
Password == Code \cup {FirstPassword}

SomeCode == CHOOSE c \in Code : TRUE
Free == [at |-> "free", code |-> SomeCode, gone |-> {}]
Work == [at : {"free", "insert", "count", "grant", "hash"}, code : Code,
         gone : SUBSET Code]

Device0 == [st |-> "out", with |-> FirstPassword]

ResetInit ==
    /\ codeRow = [c \in Code |-> NoCodeRow] /\ asked = <<>>
    /\ password = FirstPassword
    /\ dev = [d \in Device |-> Device0] /\ late = {}
    /\ visit = [q \in Visit |-> Free]

-----------------------------------------------------------------------------
Goes(q, at, c) == visit' = [visit EXCEPT ![q] = [at |-> at, code |-> c, gone |-> {}]]
Finish(q) == visit' = [visit EXCEPT ![q] = Free]
logins == <<password, dev, late>>

\* Not written by another transaction, which holds the row until it commits.
Unlocked(c) == \A q \in Visit : c \notin visit[q].gone

\* requestPasswordReset: the transaction's delete.
BeginMail(q, c) ==
    /\ visit[q].at = "free"
    /\ codeRow[c].st = "none" /\ \A i \in DOMAIN asked : asked[i] # c
    /\ asked' = Append(asked, c)
    /\ visit' = [visit EXCEPT ![q] = [at |-> "insert", code |-> c,
                                    gone |-> {d \in Code : codeRow[d].there}]]
    /\ UNCHANGED <<codeRow, logins>>

\* ... its insert, and the commit.
CommitMail(q) ==
    /\ visit[q].at = "insert"
    /\ codeRow' = [c \in Code |->
                 IF c = visit[q].code
                   THEN [codeRow[c] EXCEPT !.st = "open", !.there = TRUE]
                 ELSE IF c \in visit[q].gone
                   THEN [codeRow[c] EXCEPT !.there = FALSE]
                 ELSE codeRow[c]]
    /\ Finish(q)
    /\ UNCHANGED <<asked, logins>>

Fresh(c) == codeRow[c].there /\ codeRow[c].st = "open" /\ ~ codeRow[c].expired

\* findFirst, newest first.
Newest(c) ==
    /\ Fresh(c)
    /\ \E i \in DOMAIN asked :
          asked[i] = c /\ \A j \in DOMAIN asked : j > i => ~ Fresh(asked[j])

\* verifyResetCode's read, and whether the guess matches it.
BeginVerify(q, c, right) ==
    /\ visit[q].at = "free"
    /\ Newest(c) /\ codeRow[c].attempts < MaxAttempts
    /\ Goes(q, IF right THEN "grant" ELSE "count", c)
    /\ UNCHANGED <<codeRow, asked, logins>>

\* A wrong guess is counted, whatever became of the row meanwhile; past the cap
\* the count makes no difference and is left alone.
CountGuess(q) ==
    LET c == visit[q].code IN
    /\ visit[q].at = "count"
    /\ Unlocked(c)
    /\ codeRow' = IF codeRow[c].there /\ codeRow[c].attempts < MaxAttempts
                THEN [codeRow EXCEPT ![c] = [codeRow[c] EXCEPT !.attempts = codeRow[c].attempts + 1]] ELSE codeRow
    /\ Finish(q)
    /\ UNCHANGED <<asked, logins>>

\* Slip: the update asks for the id alone.
GrantCodeAgain(q) ==
    LET c == visit[q].code IN
    /\ visit[q].at = "grant"
    /\ Unlocked(c)
    /\ codeRow' = IF codeRow[c].there
                THEN [codeRow EXCEPT ![c] = [codeRow[c] EXCEPT !.st = "verified", !.by = q,
                                                  !.expired = FALSE]]
                ELSE codeRow
    /\ Finish(q)
    /\ UNCHANGED <<asked, logins>>

\* The compare-and-set that hands one request the reset token.
GrantCode(q) ==
    LET c == visit[q].code IN
    /\ visit[q].at = "grant"
    /\ Unlocked(c)
    /\ codeRow' = IF /\ codeRow[c].there /\ codeRow[c].st = "open"
                 /\ codeRow[c].attempts < MaxAttempts
                THEN [codeRow EXCEPT ![c] = [codeRow[c] EXCEPT !.st = "verified", !.by = q,
                                                  !.expired = FALSE]]
                ELSE codeRow
    /\ Finish(q)
    /\ UNCHANGED <<asked, logins>>

\* resetPassword with the token of code c: its read, and the hashing.
BeginReset(q, c) ==
    /\ visit[q].at = "free"
    /\ codeRow[c].there /\ codeRow[c].st = "verified" /\ ~ codeRow[c].expired
    /\ Goes(q, "hash", c)
    /\ UNCHANGED <<codeRow, asked, logins>>

Redeemable(c) == codeRow[c].there /\ codeRow[c].st # "consumed" /\ ~ codeRow[c].expired

\* Slip: the sessions are left for a later call.
SetPasswordOnly(q) ==
    LET c == visit[q].code IN
    /\ visit[q].at = "hash"
    /\ Unlocked(c)
    /\ IF Redeemable(c)
         THEN /\ codeRow' = [codeRow EXCEPT ![c] = [codeRow[c] EXCEPT !.st = "consumed"]]
              /\ password' = c
              /\ UNCHANGED <<dev, late>>
         ELSE UNCHANGED <<codeRow, logins>>
    /\ Finish(q)
    /\ UNCHANGED asked

\* The transaction: consume the token, write the password, revoke every session.
SetPassword(q) ==
    LET c == visit[q].code IN
    /\ visit[q].at = "hash"
    /\ Unlocked(c)
    /\ IF Redeemable(c)
         THEN /\ codeRow' = [codeRow EXCEPT ![c] = [codeRow[c] EXCEPT !.st = "consumed"]]
              /\ password' = c
              /\ dev' = [d \in Device |->
                           IF dev[d].st = "in" THEN [dev[d] EXCEPT !.st = "out"]
                                               ELSE dev[d]]
              /\ late' = late \cup {d \in Device : dev[d].st \in {"login", "refresh"}}
         ELSE UNCHANGED <<codeRow, logins>>
    /\ Finish(q)
    /\ UNCHANGED asked

\* A code's ten minutes, or a token's fifteen, run out.
Expires(c) ==
    /\ codeRow[c].there /\ ~ codeRow[c].expired
    /\ codeRow' = [codeRow EXCEPT ![c] = [codeRow[c] EXCEPT !.expired = TRUE]]
    /\ UNCHANGED <<asked, logins, visit>>

\* login: the comparison with the password there is.
LoginAnew(d) ==
    /\ dev[d].st = "out"
    /\ dev' = [dev EXCEPT ![d] = [st |-> "login", with |-> password]]
    /\ late' = late \ {d}
    /\ UNCHANGED <<codeRow, asked, password, visit>>

\* rotateRefreshToken: the update that revokes the old token.
Refresh(d) ==
    /\ dev[d].st = "in"
    /\ dev' = [dev EXCEPT ![d].st = "refresh"]
    /\ UNCHANGED <<codeRow, asked, password, late, visit>>

\* issueRefreshToken, for either.
IssueToken(d) ==
    /\ dev[d].st \in {"login", "refresh"}
    /\ dev' = [dev EXCEPT ![d].st = "in"]
    /\ UNCHANGED <<codeRow, asked, password, late, visit>>

ResetNext ==
    \/ \E q \in Visit :
          \/ \E c \in Code : BeginMail(q, c) \/ BeginReset(q, c)
          \/ \E c \in Code, right \in BOOLEAN : BeginVerify(q, c, right)
          \/ CommitMail(q) \/ CountGuess(q) \/ GrantCode(q) \/ SetPassword(q)
    \/ \E c \in Code : Expires(c)
    \/ \E d \in Device : LoginAnew(d) \/ Refresh(d) \/ IssueToken(d)

ResetSpec == ResetInit /\ [][ResetNext]_resetVars

-----------------------------------------------------------------------------
ResetTypeOK ==
    /\ codeRow \in [Code -> CodeRow]
    /\ asked \in Seq(Code)
    /\ password \in Password
    /\ dev \in [Device -> [st : {"out", "in", "login", "refresh"}, with : Password]]
    /\ late \in SUBSET Device
    /\ visit \in [Visit -> Work]

\* Someone who resets a password is "often doing it because somebody else got
\* in, and their sessions must not outlive the old password": a session logged
\* in under another password was in the middle of its login or of a refresh
\* when the password changed.
OldSessionsEnd ==
    \A d \in Device : dev[d].st = "in" /\ dev[d].with # password => d \in late

\* What the rows amount to.
StageOf(c) ==
    CASE codeRow[c].st = "none" -> "none"
      [] codeRow[c].st = "consumed" -> "used"
      [] codeRow[c].st = "open" -> IF codeRow[c].there THEN "open" ELSE "void"
      [] codeRow[c].st = "verified" -> IF codeRow[c].there THEN "held" ELSE "void"

OneTime == INSTANCE OneTimeReset
    WITH Holder <- Visit,
         stage <- [c \in Code |-> StageOf(c)],
         holder <- [c \in Code |-> codeRow[c].by],
         setBy <- password

\* However the requests overlap, and whichever of them expire: a code's token
\* goes to one of them, sets one password, and nothing brings back a code that
\* was withdrawn.
ResetIsOneTime == OneTime!Promise
=============================================================================
