------------------------------ MODULE LiveInbox ------------------------------
(***************************************************************************)
(* One user's notifications, in the table and on the phone:                *)
(* notification.service.js, notificationBus.js and notificationSocket.js   *)
(* of apps/api with notificationStore.ts, notificationApi.ts,              *)
(* useNotifications.ts and notificationSocket.ts of apps/mobile.           *)
(*                                                                         *)
(* A handler writes, then publishes; the socket carries changes, not       *)
(* state.  The phone applies them to what it read over REST, a list and a  *)
(* count by two requests, and to the changes the person makes on it, which *)
(* it applies before it asks the server and takes back if that fails.      *)
(***************************************************************************)
EXTENDS Integers, Sequences, FiniteSets

CONSTANTS
    Note,           \* notifications, each created at most once
    Load            \* loadNotifications calls in flight

ASSUME InboxAssumption == Note # {} /\ IsFiniteSet(Note)

VARIABLES
    rows,       \* the notifications table
    emitted,    \* those created so far
    unpublished,\* changes committed, not published yet, in no order
    connected,         \* a socket of this user is registered
    counting,   \* it is registered and its "ready" has not been sent
    frames,     \* what the socket carries
    items, unread,  \* notificationStore
    load,       \* REST reads in flight
    ask,        \* the request behind an optimistic change, with its snapshot
    crossed     \* history: a read or a snapshot was overtaken by a change,
                \* or a read failed

tableVars == <<rows, emitted>>
pipeVars == <<unpublished, connected, counting, frames>>
storeVars == <<items, unread>>
inboxVars == <<tableVars, pipeVars, storeVars, load, ask, crossed>>

NoteStates == {"absent", "unread", "read"}
Change == [type : {"created", "deleted", "read"}, n : Note]
            \cup [type : {"cleared", "read-all"}]
NoList == <<>>      NoCount == -1
NotLoading == [on |-> FALSE, list |-> NoList, count |-> NoCount]
NotAsking == [pc |-> "none", op |-> [type |-> "cleared"], items |-> NoList, unread |-> 0]
Empty == [n \in Note |-> "absent"]

InboxInit ==
    /\ rows = Empty /\ emitted = {}
    /\ unpublished = {} /\ connected = FALSE /\ counting = FALSE /\ frames = <<>>
    /\ items = Empty /\ unread = 0
    /\ load = [l \in Load |-> NotLoading]
    /\ ask = NotAsking
    /\ crossed = FALSE

-----------------------------------------------------------------------------
CountUnread(list) == Cardinality({n \in Note : list[n] = "unread"})

\* What a change makes of a list, in the table as on the phone.
Applied(list, op) ==
    [n \in Note |->
        CASE op.type = "cleared" -> "absent"
          [] op.type = "read-all" -> IF list[n] = "unread" THEN "read" ELSE list[n]
          [] op.type = "created" /\ op.n = n -> IF list[n] = "absent" THEN "unread" ELSE list[n]
          [] op.type = "deleted" /\ op.n = n -> "absent"
          [] op.type = "read" /\ op.n = n -> IF list[n] = "unread" THEN "read" ELSE list[n]
          [] OTHER -> list[n]]

\* add, remove, markRead, clear and markAllRead keep the count beside the list.
StoreApplies(op) ==
    LET after == Applied(items, op) IN
      /\ items' = after
      /\ unread' = IF op.type \in {"cleared", "read-all"} THEN 0
                   ELSE LET d == unread + CountUnread(after) - CountUnread(items)
                        IN IF d < 0 THEN 0 ELSE d

\* A change of the whole list that the phone has yet to hear of.
Sweeping == \E op \in unpublished \cup {frames[i] : i \in DOMAIN frames} :
               op.type \in {"cleared", "read-all"}

Reading == \E l \in Load : load[l].list # NoList \/ load[l].count # NoCount

\* A handler's write that changes something is published; any other is quiet.
Commit(op) ==
    /\ rows' = Applied(rows, op)
    /\ unpublished' = IF rows' = rows THEN unpublished ELSE unpublished \cup {op}
    /\ crossed' = (crossed \/ (rows' # rows /\
                     (Reading \/ counting \/ unpublished # {} \/ ask.pc # "none")))
    /\ UNCHANGED <<connected, counting, frames>>

-----------------------------------------------------------------------------
\* emitNotification.
EmitNotification(n) ==
    /\ n \notin emitted
    /\ emitted' = emitted \cup {n}
    /\ Commit([type |-> "created", n |-> n])
    /\ UNCHANGED <<storeVars, load, ask>>

\* markRead, markAllRead, dismissNotification and clearMyNotifications, asked
\* for on another device.
OtherDevice(op) ==
    /\ op.type # "created" /\ rows # Applied(rows, op)
    /\ Commit(op)
    /\ UNCHANGED <<emitted, storeVars, load, ask>>

\* publishNotificationEvent, after the bump of the caches.
Publish(op) ==
    /\ op \in unpublished
    /\ unpublished' = unpublished \ {op}
    /\ frames' = IF connected THEN Append(frames, op) ELSE frames
    /\ UNCHANGED <<tableVars, connected, counting, storeVars, load, ask, crossed>>

-----------------------------------------------------------------------------
\* The socket is authenticated and registered; events flow from here on.
Connect ==
    /\ ~ connected
    /\ connected' = TRUE /\ counting' = TRUE
    /\ UNCHANGED <<tableVars, unpublished, frames, storeVars, load, ask, crossed>>

\* getUnreadCount, and the "ready" message with it.
SayReady ==
    /\ counting
    /\ counting' = FALSE
    /\ frames' = Append(frames, [type |-> "ready", unread |-> CountUnread(rows)])
    /\ UNCHANGED <<tableVars, unpublished, connected, storeVars, load, ask, crossed>>

\* The connection is lost, or the app goes to the background.
Disconnect ==
    /\ connected
    /\ connected' = FALSE /\ counting' = FALSE /\ frames' = <<>>
    /\ UNCHANGED <<tableVars, unpublished, storeVars, load, ask, crossed>>

\* Slip: the count is taken from "ready" and the list is not read again.
ApplyReadyCount ==
    /\ frames # <<>> /\ Head(frames).type = "ready"
    /\ frames' = Tail(frames)
    /\ unread' = Head(frames).unread
    /\ UNCHANGED <<tableVars, unpublished, connected, counting, items, load, ask, crossed>>

\* apply, "ready": the count at once, and both lists read again.
ApplyReady ==
    /\ frames # <<>> /\ Head(frames).type = "ready"
    /\ frames' = Tail(frames)
    /\ unread' = Head(frames).unread
    /\ \E l \in Load : /\ ~ load[l].on
                       /\ load' = [load EXCEPT ![l].on = TRUE]
    /\ UNCHANGED <<tableVars, unpublished, connected, counting, items, ask, crossed>>

ApplyEvent ==
    /\ frames # <<>> /\ Head(frames).type # "ready"
    /\ frames' = Tail(frames)
    /\ StoreApplies(Head(frames))
    /\ UNCHANGED <<tableVars, unpublished, connected, counting, load, ask, crossed>>

\* The two requests of loadNotifications.
ServeList(l) ==
    /\ load[l].on /\ load[l].list = NoList
    /\ load' = [load EXCEPT ![l].list = rows]
    /\ crossed' = (crossed \/ Sweeping)
    /\ UNCHANGED <<tableVars, pipeVars, storeVars, ask>>

ServeCount(l) ==
    /\ load[l].on /\ load[l].count = NoCount
    /\ load' = [load EXCEPT ![l].count = CountUnread(rows)]
    /\ UNCHANGED <<tableVars, pipeVars, storeVars, ask, crossed>>

\* setAll.
LandLoad(l) ==
    /\ load[l].list # NoList /\ load[l].count # NoCount
    /\ items' = load[l].list /\ unread' = load[l].count
    /\ load' = [load EXCEPT ![l] = NotLoading]
    /\ crossed' = (crossed \/ ask.pc # "none")
    /\ UNCHANGED <<tableVars, pipeVars, ask>>

\* Either request failed: nothing is put in the store.
LoseLoad(l) ==
    /\ load[l].on
    /\ load' = [load EXCEPT ![l] = NotLoading]
    /\ crossed' = TRUE
    /\ UNCHANGED <<tableVars, pipeVars, storeVars, ask>>

\* reload, on first use or when the person asks.
Reload(l) ==
    /\ ~ load[l].on
    /\ load' = [load EXCEPT ![l].on = TRUE]
    /\ UNCHANGED <<tableVars, pipeVars, storeVars, ask, crossed>>

-----------------------------------------------------------------------------
\* useNotifications: remove, clearAll and markAllRead change the phone at once.
AskFor(op) ==
    /\ ask.pc = "none"
    /\ op.type \in {"deleted", "cleared", "read-all"}
    /\ items # Applied(items, op)
    /\ ask' = [pc |-> "sent", op |-> op, items |-> items, unread |-> unread]
    /\ StoreApplies(op)
    /\ crossed' = (crossed \/ unpublished # {} \/ frames # <<>> \/ counting
                     \/ \E l \in Load : load[l].on)
    /\ UNCHANGED <<tableVars, pipeVars, load>>

DoAsked ==
    /\ ask.pc = "sent"
    /\ rows' = Applied(rows, ask.op)
    /\ unpublished' = IF rows' = rows THEN unpublished ELSE unpublished \cup {ask.op}
    /\ crossed' = (crossed \/ Reading \/ counting \/ unpublished # {})
    /\ ask' = [ask EXCEPT !.pc = "done"]
    /\ UNCHANGED <<emitted, connected, counting, frames, storeVars, load>>

\* The answer, a 404 for what is already gone included.
CallAnswered ==
    /\ ask.pc = "done"
    /\ ask' = NotAsking
    /\ UNCHANGED <<tableVars, pipeVars, storeVars, load, crossed>>

\* restore: the server refused, or was never reached.
Refused ==
    /\ ask.pc = "sent"
    /\ items' = ask.items /\ unread' = ask.unread
    /\ crossed' = (crossed \/ \E l \in Load : load[l].on)
    /\ ask' = NotAsking
    /\ UNCHANGED <<tableVars, pipeVars, load>>

\* restore, for a change that was made and whose answer was lost.
AnswerLost ==
    /\ ask.pc = "done"
    /\ items' = ask.items /\ unread' = ask.unread
    /\ crossed' = TRUE
    /\ ask' = NotAsking
    /\ UNCHANGED <<tableVars, pipeVars, load>>

\* Bound: a behaviour is followed until a read or a snapshot is overtaken
\* or a read fails.
InboxNext ==
    /\ ~ crossed
    /\ \/ \E n \in Note : EmitNotification(n)
       \/ \E op \in Change : OtherDevice(op) \/ Publish(op) \/ AskFor(op)
       \/ Connect \/ SayReady \/ Disconnect \/ ApplyReady \/ ApplyEvent
       \/ \E l \in Load : Reload(l) \/ ServeList(l) \/ ServeCount(l) \/ LandLoad(l) \/ LoseLoad(l)
       \/ DoAsked \/ CallAnswered \/ Refused \/ AnswerLost

InboxSpec == InboxInit /\ [][InboxNext]_inboxVars

-----------------------------------------------------------------------------
\* Every variable keeps its type.
InboxTypeOK ==
    /\ rows \in [Note -> NoteStates] /\ items \in [Note -> NoteStates]
    /\ emitted \subseteq Note
    /\ unpublished \subseteq Change
    /\ unread \in Nat
    /\ ask.pc \in {"none", "sent", "done"}
    /\ counting => connected
    /\ {connected, crossed} \subseteq BOOLEAN

InboxSettled ==
    /\ connected /\ ~ counting /\ frames = <<>> /\ unpublished = {} /\ ask.pc = "none"
    /\ \A l \in Load : ~ load[l].on

\* With nothing on its way, the phone shows the table and the badge its count,
\* whatever was lost with a socket, and whether a change came by the socket, by a
\* page, or by both: unless a read failed, or a read or a snapshot was overtaken by
\* a change.
InboxAgrees ==
    InboxSettled /\ ~ crossed => items = rows /\ unread = CountUnread(rows)
=============================================================================
