---------------------------- MODULE Subscriptions ----------------------------
(***************************************************************************)
(* One user's premium subscription: subscription.service.js of apps/api    *)
(* between Stripe, which decides, and the one row the app reads.           *)
(*                                                                         *)
(* A checkout creates a Stripe customer and a session and writes no row.   *)
(* Stripe announces every change of a subscription at least once and in    *)
(* any order; the webhook takes only the id from the announcement, asks    *)
(* Stripe for the subscription, and writes the row two reads later.  A     *)
(* cancellation writes the row from Stripe's answer.  Stripe itself is     *)
(* external, modelled from how the service uses it.                        *)
(***************************************************************************)
EXTENDS Integers

CONSTANTS
    Sub,            \* subscriptions Stripe may come to hold for this user
    Customer,       \* Stripe customers it may come to hold for this user
    Worker,         \* requests and webhook deliveries in flight
    None,
    MaxDays,        \* bound: paid periods that end
    MaxRepeats      \* bound: deliveries repeated or died half-way

ASSUME SubscriptionsAssumption ==
    /\ None \notin Sub \cup Customer
    /\ MaxDays \in Nat /\ MaxRepeats \in Nat

VARIABLES
    day,
    stripe,     \* Stripe's subscriptions
    events,     \* how many announcements of each are undelivered
    created,    \* Stripe's customers
    customer,   \* users.stripeCustomerId
    row,        \* the subscriptions row
    stale,      \* a cached GET /me predates the row
    work,
    repeats,
    overlapped, \* history: two handlers that write the row ran together
    doubled     \* history: two subscriptions of this user ran at once

subscriptionVars == <<day, stripe, events, created, customer, row, stale, work,
                      repeats, overlapped, doubled>>

StripeStates == {"none", "offered", "incomplete", "active", "cancelling", "canceled"}
Running == {"active", "cancelling"}
Statuses == {"none", "ACTIVE", "CANCELLED", "EXPIRED"}
Stages == {"idle", "customer", "create", "store", "session", "cancel",
           "retrieve", "find", "write", "bump"}
Resting == [pc |-> "idle", sub |-> None, cust |-> None, status |-> "none", until |-> 0]
NoSubscription == [status |-> "none", ref |-> None, until |-> 0]

\* A row the old stub left behind has a reference Stripe does not know.
StubRow == [status |-> "ACTIVE", ref |-> None, until |-> 1]

SubscriptionsInit ==
    /\ day = 0
    /\ stripe = [s \in Sub |-> [st |-> "none", cust |-> None, until |-> 0]]
    /\ events = [s \in Sub |-> 0]
    /\ created = {} /\ customer = None
    /\ row \in {NoSubscription, StubRow}
    /\ stale = FALSE
    /\ work = [w \in Worker |-> Resting]
    /\ repeats = 0 /\ overlapped = FALSE /\ doubled = FALSE

-----------------------------------------------------------------------------
Stage(w, pc) == work[w].pc = pc
To(w, pc) == work' = [work EXCEPT ![w].pc = pc]
Rest(w) == work' = [work EXCEPT ![w] = Resting]
Writing == {w \in Worker : work[w].pc \in {"cancel", "retrieve", "find", "write"}}

\* Slip: the last paid day counts as over.
LapsedEarly == row.until <= day + 1

\* isExpired and toLocalStatus; a status the app does not act on is "none".
Lapsed == row.until <= day
LocalStatus(st) == CASE st = "active" -> "ACTIVE"
                     [] st = "cancelling" -> "CANCELLED"
                     [] st = "canceled" -> "EXPIRED"
                     [] OTHER -> "none"
Premium == row.status \in {"ACTIVE", "CANCELLED"} /\ ~ Lapsed

\* Stripe changes one subscription and announces it.
Moves(s, st) ==
    /\ stripe' = [stripe EXCEPT ![s].st = st,
                    ![s].until = IF st = "active" THEN day + 1 ELSE @]
    /\ events' = [events EXCEPT ![s] = @ + 1]
    /\ doubled' = (doubled \/ (st = "active" /\
                     \E other \in Sub \ {s} : stripe[other].st \in Running))

Pay(s) ==
    /\ stripe[s].st \in {"offered", "incomplete"}
    /\ \/ Moves(s, "active")
       \/ stripe[s].st = "offered" /\ Moves(s, "incomplete")
       \/ stripe[s].st = "incomplete" /\ Moves(s, "canceled")
    /\ UNCHANGED <<day, created, customer, row, stale, work, repeats, overlapped>>

\* Periods end together: Stripe renews what runs and ends what was cancelled.
PeriodEnds ==
    /\ day < MaxDays
    /\ day' = day + 1
    /\ stripe' = [s \in Sub |->
         CASE stripe[s].st = "active" -> [stripe[s] EXCEPT !.until = day + 2]
           [] stripe[s].st = "cancelling" -> [stripe[s] EXCEPT !.st = "canceled"]
           [] OTHER -> stripe[s]]
    /\ events' = [s \in Sub |-> IF stripe[s].st \in Running THEN events[s] + 1
                                                             ELSE events[s]]
    /\ UNCHANGED <<created, customer, row, stale, work, repeats, overlapped, doubled>>

-----------------------------------------------------------------------------
\* createCheckoutSession: 409 while premium; then getOrCreateStripeCustomer.
BeginCheckout(w) ==
    /\ Stage(w, "idle")
    /\ ~ Premium
    /\ To(w, "customer")
    /\ UNCHANGED <<day, stripe, events, created, customer, row, stale, repeats,
                   overlapped, doubled>>

FindCustomer(w) ==
    /\ Stage(w, "customer")
    /\ work' = [work EXCEPT ![w].pc = IF customer = None THEN "create" ELSE "session",
                            ![w].cust = customer]
    /\ UNCHANGED <<day, stripe, events, created, customer, row, stale, repeats,
                   overlapped, doubled>>

CreateCustomer(w) ==
    /\ Stage(w, "create")
    /\ \E c \in Customer \ created :
         /\ created' = created \cup {c}
         /\ work' = [work EXCEPT ![w].pc = "store", ![w].cust = c]
    /\ UNCHANGED <<day, stripe, events, customer, row, stale, repeats, overlapped,
                   doubled>>

\* setStripeCustomerId updates the row by user id alone.
StoreCustomer(w) ==
    /\ Stage(w, "store")
    /\ customer' = work[w].cust
    /\ To(w, "session")
    /\ UNCHANGED <<day, stripe, events, created, row, stale, repeats, overlapped,
                   doubled>>

OpenSession(w, s) ==
    /\ Stage(w, "session")
    /\ stripe[s].st = "none"
    /\ stripe' = [stripe EXCEPT ![s] = [st |-> "offered", cust |-> work[w].cust,
                                        until |-> 0]]
    /\ Rest(w)
    /\ UNCHANGED <<day, events, created, customer, row, stale, repeats, overlapped,
                   doubled>>

-----------------------------------------------------------------------------
\* cancelSubscription: only an ACTIVE row; a stub row changes without Stripe.
BeginCancel(w) ==
    /\ Stage(w, "idle")
    /\ row.status = "ACTIVE"
    /\ work' = [work EXCEPT ![w].pc = "cancel", ![w].sub = row.ref]
    /\ overlapped' = (overlapped \/ Writing # {})
    /\ UNCHANGED <<day, stripe, events, created, customer, row, stale, repeats, doubled>>

CancelStub(w) ==
    /\ Stage(w, "cancel") /\ work[w].sub = None
    /\ row' = [row EXCEPT !.status = "CANCELLED"]
    /\ stale' = TRUE
    /\ To(w, "bump")
    /\ UNCHANGED <<day, stripe, events, created, customer, repeats, overlapped, doubled>>

CancelAtStripe(w) ==
    /\ Stage(w, "cancel") /\ work[w].sub # None
    /\ LET s == work[w].sub IN
         IF stripe[s].st \in Running
           THEN /\ Moves(s, "cancelling")
                /\ work' = [work EXCEPT ![w].pc = "write", ![w].status = "CANCELLED",
                                        ![w].until = stripe[s].until]
           ELSE Rest(w) /\ UNCHANGED <<stripe, events, doubled>>
    /\ UNCHANGED <<day, created, customer, row, stale, repeats, overlapped>>

-----------------------------------------------------------------------------
\* handleStripeWebhook takes an announcement.
Receive(w, s) ==
    /\ Stage(w, "idle")
    /\ events[s] > 0
    /\ events' = [events EXCEPT ![s] = @ - 1]
    /\ work' = [work EXCEPT ![w].pc = "retrieve", ![w].sub = s]
    /\ overlapped' = (overlapped \/ Writing # {})
    /\ UNCHANGED <<day, stripe, created, customer, row, stale, repeats, doubled>>

\* syncFromStripe: what Stripe says now; nothing to do for a customer no user
\* has, or for a status the app does not act on.
Retrieve(w) ==
    /\ Stage(w, "retrieve")
    /\ LET s == work[w].sub
           status == LocalStatus(stripe[s].st) IN
         IF stripe[s].cust # customer \/ status = "none"
           THEN Rest(w)
           ELSE work' = [work EXCEPT ![w].pc = "find", ![w].status = status,
                                     ![w].until = stripe[s].until]
    /\ UNCHANGED <<day, stripe, events, created, customer, row, stale, repeats,
                   overlapped, doubled>>

\* The end of a subscription the row does not track any more is dropped.
FindRow(w) ==
    /\ Stage(w, "find")
    /\ IF /\ row.status # "none" /\ row.ref # work[w].sub
          /\ work[w].status = "EXPIRED"
         THEN Rest(w)
         ELSE To(w, "write")
    /\ UNCHANGED <<day, stripe, events, created, customer, row, stale, repeats,
                   overlapped, doubled>>

\* Slip: the cached GET /me is left alone.
WriteRowQuietly(w) ==
    /\ Stage(w, "write")
    /\ row' = [status |-> work[w].status, ref |-> work[w].sub, until |-> work[w].until]
    /\ stale' = TRUE
    /\ Rest(w)
    /\ UNCHANGED <<day, stripe, events, created, customer, repeats, overlapped, doubled>>

\* upsertSubscription, from the webhook or from the cancellation.
WriteRow(w) ==
    /\ Stage(w, "write")
    /\ row' = [status |-> work[w].status, ref |-> work[w].sub, until |-> work[w].until]
    /\ stale' = TRUE
    /\ To(w, "bump")
    /\ UNCHANGED <<day, stripe, events, created, customer, repeats, overlapped, doubled>>

InvalidateSubscription(w) ==
    /\ Stage(w, "bump")
    /\ stale' = FALSE
    /\ Rest(w)
    /\ UNCHANGED <<day, stripe, events, created, customer, row, repeats, overlapped,
                   doubled>>

\* A handler dies half-way, or not; Stripe announces the subscription once more.
Repeat(w) ==
    /\ work[w].pc \in {"retrieve", "find", "write", "bump"}
    /\ work[w].sub # None
    /\ repeats < MaxRepeats
    /\ repeats' = repeats + 1
    /\ events' = [events EXCEPT ![work[w].sub] = @ + 1]
    /\ Rest(w) \/ UNCHANGED work
    /\ UNCHANGED <<day, stripe, created, customer, row, stale, overlapped, doubled>>

SubscriptionsNext ==
    \/ PeriodEnds
    \/ \E s \in Sub : Pay(s)
    \/ \E w \in Worker :
         \/ BeginCheckout(w) \/ FindCustomer(w) \/ CreateCustomer(w) \/ StoreCustomer(w)
         \/ \E s \in Sub : OpenSession(w, s) \/ Receive(w, s)
         \/ BeginCancel(w) \/ CancelStub(w) \/ CancelAtStripe(w)
         \/ Retrieve(w) \/ FindRow(w) \/ WriteRow(w) \/ InvalidateSubscription(w)
         \/ Repeat(w)

SubscriptionsSpec == SubscriptionsInit /\ [][SubscriptionsNext]_subscriptionVars

-----------------------------------------------------------------------------
\* Every variable keeps its type.
SubscriptionsTypeOK ==
    /\ day \in 0..MaxDays /\ repeats \in 0..MaxRepeats
    /\ stripe \in [Sub -> [st : StripeStates, cust : Customer \cup {None}, until : Nat]]
    /\ events \in [Sub -> Nat]
    /\ created \subseteq Customer /\ customer \in created \cup {None}
    /\ row \in [status : Statuses, ref : Sub \cup {None}, until : Nat]
    /\ work \in [Worker -> [pc : Stages, sub : Sub \cup {None},
                            cust : Customer \cup {None}, status : Statuses, until : Nat]]
    /\ {stale, overlapped, doubled} \subseteq BOOLEAN

Settled == (\A s \in Sub : events[s] = 0) /\ (\A w \in Worker : Stage(w, "idle"))

\* The row names a subscription of the customer the app knows the user by.
Tracked == row.ref # None /\ stripe[row.ref].cust = customer

\* Once every announcement is handled and no two handlers ran together, the row
\* says what Stripe says of the subscription it names, to the date, and no older row
\* is left in the cache.
RowFollowsStripe ==
    Settled /\ ~ overlapped /\ Tracked =>
        /\ row.status = LocalStatus(stripe[row.ref].st)
        /\ row.until = stripe[row.ref].until
        /\ ~ stale

\* A user whose only running subscription is paid for is premium: no late or
\* repeated announcement of an earlier one takes that away.
PayerIsPremium ==
    Settled /\ ~ overlapped /\ ~ doubled =>
        \A s \in Sub : stripe[s].st \in Running /\ stripe[s].cust = customer => Premium

\* RowFollowsStripe and PayerIsPremium: the row settles on what Stripe says of the
\* subscription, and who pays is premium (handleWebhookEvent, isPremium).
SubscriptionSettles == RowFollowsStripe /\ PayerIsPremium

\* Two checkouts that race end up with one customer, "the correct answer for
\* both requests" (subscription.service.js:156-159).
CheckoutsShareACustomer ==
    \A s \in Sub : stripe[s].st # "none" => stripe[s].cust = customer
=============================================================================
