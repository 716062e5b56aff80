------------------------------ MODULE ChatThread ------------------------------
(***************************************************************************)
(* One chat on one phone: messageStore.ts and useChat.ts of apps/mobile,   *)
(* the socket of notificationSocket.ts, and the part of                    *)
(* conversation.service.js that answers them.                              *)
(*                                                                         *)
(* A message the person sends is drawn at once as a placeholder.  The      *)
(* stored message then comes back up to three ways, in any order: as the   *)
(* socket's copy, as the answer to the POST, and in a page of history read *)
(* before or after either.  The chat is held newest first.                 *)
(***************************************************************************)
EXTENDS Integers, SequencesExt

CONSTANTS
    Body,           \* what a message says
    Reader,         \* reads of the history in flight
    MaxSends,       \* bound: messages the person types
    MaxStored       \* bound: messages of the chat

ASSUME ChatAssumption == MaxSends \in Nat /\ MaxStored \in Nat

VARIABLES
    stored,     \* the messages table, oldest first; a message's id is its place
    unannounced,\* ids stored whose announceMessage has not run yet
    said,       \* the bodies the person sent, by send
    posting,    \* the POST of each send: none, sent, or the id it stored
    chat,       \* state.chats[user].messages, newest first
    loaded,     \* state.chats has this chat
    up,         \* the socket is open and ready
    events,     \* message:created events on their way
    reader,     \* loadHistory calls: idle, asked, or the number of messages read
    discarded,  \* history: sends the person threw away
    reached,    \* history: ids of which a copy reached the phone
    late        \* history: a page landed that predates one of them

server == <<stored, unannounced>>
wire == <<up, events, reader>>
history == <<discarded, reached, late>>
chatVars == <<server, said, posting, chat, loaded, wire, history>>

Send == 1..MaxSends
Local(n) == -n              \* nextLocalId
Nothing == 0  Sent == -1    \* of a POST; otherwise the id it stored
Unread == -1  Asked == -2   \* of a read; otherwise how much it read

\* A placeholder has a status; localId is "key", the id a bubble is drawn by.
Bubble(id, body, st) == [id |-> id, key |-> id, body |-> body, st |-> st]

ChatInit ==
    /\ stored = <<>> /\ unannounced = {}
    /\ said = <<>> /\ posting = [n \in Send |-> Nothing]
    /\ chat = <<>> /\ loaded = FALSE
    /\ up = TRUE /\ events = <<>>
    /\ reader = [r \in Reader |-> Unread]
    /\ discarded = {} /\ reached = {} /\ late = FALSE

-----------------------------------------------------------------------------
Ids(bubbles) == {b.id : b \in ToSet(bubbles)}
FromServer(id) == Bubble(id, stored[id].body, "none")
SetStatus(id, st) ==
    [i \in DOMAIN chat |-> IF chat[i].id = id THEN [chat[i] EXCEPT !.st = st] ELSE chat[i]]
\* Array.filter: the bubbles of S, in their order.
Only(bubbles, S) ==
    FoldLeft(LAMBDA kept, b : IF b \in S THEN Append(kept, b) ELSE kept, <<>>, bubbles)
Failed(n) == \E b \in ToSet(chat) : b.id = Local(n) /\ b.st = "failed"

\* useChat has read the chat since it was opened.
Opened == loaded \/ \E r \in Reader : reader[r] # Unread

\* addPending, and the POST of deliver.
SendMessage(body) ==
    /\ Opened /\ Len(said) < MaxSends
    /\ said' = Append(said, body)
    /\ chat' = <<Bubble(Local(Len(said) + 1), body, "sending")>> \o chat
    /\ loaded' = TRUE
    /\ posting' = [posting EXCEPT ![Len(said) + 1] = Sent]
    /\ UNCHANGED <<server, wire, history>>

\* retry and markSending: a failed message is sent again, as a new one.
RetrySend(n) ==
    /\ Failed(n) /\ posting[n] = Nothing
    /\ chat' = SetStatus(Local(n), "sending")
    /\ posting' = [posting EXCEPT ![n] = Sent]
    /\ UNCHANGED <<server, said, loaded, wire, history>>

\* discardMessage, offered for a message that failed.
Discard(n) ==
    /\ Failed(n)
    /\ chat' = Only(chat, {b \in ToSet(chat) : b.key # Local(n) /\ b.id # Local(n)})
    /\ discarded' = discarded \cup {n}
    /\ UNCHANGED <<server, said, posting, loaded, wire, reached, late>>

-----------------------------------------------------------------------------
\* createMessage commits; by is the send, 0 for the other person.
Store(by, body) ==
    /\ Len(stored) < MaxStored
    /\ stored' = Append(stored, [by |-> by, body |-> body])
    /\ unannounced' = unannounced \cup {Len(stored) + 1}

StoreMine(n) ==
    /\ posting[n] = Sent
    /\ Store(n, said[n])
    /\ posting' = [posting EXCEPT ![n] = Len(stored) + 1]
    /\ UNCHANGED <<said, chat, loaded, wire, history>>

StoreTheirs(body) ==
    /\ Store(0, body)
    /\ UNCHANGED <<said, posting, chat, loaded, wire, history>>

\* announceMessage, of whichever handler comes first.
Announce(id) ==
    /\ id \in unannounced
    /\ unannounced' = unannounced \ {id}
    /\ events' = IF up THEN Append(events, id) ELSE events
    /\ UNCHANGED <<stored, said, posting, chat, loaded, up, reader, history>>

\* A bubble becomes the stored message and keeps the key it was drawn by.
BubbleBecomes(i, id) == [chat EXCEPT ![i] = [FromServer(id) EXCEPT !.key = chat[i].id]]
BubbleAt(id) == CHOOSE i \in DOMAIN chat : chat[i].id = id

\* Slip: a copy that came another way is not looked for.
ResolveChatBlind(n, id) ==
    IF Local(n) \in Ids(chat) THEN BubbleBecomes(BubbleAt(Local(n)), id) ELSE chat

\* resolvePending: the placeholder becomes the message, or goes if it is there.
ResolveChat(n, id) ==
    IF id \in Ids(chat)
      THEN Only(chat, {b \in ToSet(chat) : b.id # Local(n)})
      ELSE IF Local(n) \in Ids(chat) THEN BubbleBecomes(BubbleAt(Local(n)), id) ELSE chat

\* The handler answers after announcing.
ResolvePending(n) ==
    /\ posting[n] > 0 /\ posting[n] \notin unannounced
    /\ chat' = ResolveChat(n, posting[n])
    /\ posting' = [posting EXCEPT ![n] = Nothing]
    /\ reached' = reached \cup {posting[n]}
    /\ UNCHANGED <<server, said, loaded, wire, discarded, late>>

\* failPending: the request was refused or lost, or its answer was.
FailPending(n) ==
    /\ posting[n] # Nothing
    /\ chat' = SetStatus(Local(n), "failed")
    /\ posting' = [posting EXCEPT ![n] = Nothing]
    /\ UNCHANGED <<server, said, loaded, wire, history>>

-----------------------------------------------------------------------------
\* The oldest placeholder still sending this text (findLastIndex).
Sending(body) == {i \in DOMAIN chat : chat[i].st = "sending" /\ chat[i].body = body}
Oldest(S) == CHOOSE i \in S : \A j \in S : j <= i

\* receive: the socket's copy takes the place of a placeholder with its text.
ReceiveChat(id) ==
    LET match == IF stored[id].by # 0 THEN Sending(stored[id].body) ELSE {} IN
      CASE id \in Ids(chat) -> chat
        [] id \notin Ids(chat) /\ match # {} -> BubbleBecomes(Oldest(match), id)
        [] OTHER -> <<FromServer(id)>> \o chat

Receive ==
    /\ events # <<>>
    /\ events' = Tail(events)
    /\ chat' = IF loaded THEN ReceiveChat(Head(events)) ELSE chat
    /\ reached' = reached \cup {Head(events)}
    /\ UNCHANGED <<server, said, posting, loaded, up, reader, discarded, late>>

\* The socket dies with what it carried.
Drop ==
    /\ up
    /\ up' = FALSE /\ events' = <<>>
    /\ UNCHANGED <<server, said, posting, chat, loaded, reader, history>>

\* A new socket is registered and says "ready": the chat on screen is read again.
Ready(r) ==
    /\ ~ up /\ reader[r] = Unread
    /\ up' = TRUE
    /\ reader' = [reader EXCEPT ![r] = Asked]
    /\ UNCHANGED <<server, said, posting, chat, loaded, events, history>>

\* useChat reads the chat when it is opened, and when the person reloads it.
Reload(r) ==
    /\ reader[r] = Unread
    /\ reader' = [reader EXCEPT ![r] = Asked]
    /\ UNCHANGED <<server, said, posting, chat, loaded, up, events, history>>

\* getHistory reads the table; the page then travels.
Serve(r) ==
    /\ reader[r] = Asked
    /\ reader' = [reader EXCEPT ![r] = Len(stored)]
    /\ UNCHANGED <<server, said, posting, chat, loaded, up, events, history>>

\* Slip: the page replaces everything.
PageChatOnly(k) == Reverse([i \in 1..k |-> FromServer(i)])

\* setHistory, page one: under what is still sending or failed, the page, each
\* message with the key it was drawn by.
PageChat(k) ==
    Only(chat, {b \in ToSet(chat) : b.st # "none"})
      \o Reverse([i \in 1..k |-> [FromServer(i) EXCEPT !.key =
                                    IF i \in Ids(chat) THEN chat[BubbleAt(i)].key ELSE i]])

Land(r) ==
    /\ reader[r] >= 0
    /\ chat' = PageChat(reader[r])
    /\ loaded' = TRUE
    /\ late' = (late \/ \E id \in reached : id > reader[r])
    /\ reached' = reached \cup 1..reader[r]
    /\ reader' = [reader EXCEPT ![r] = Unread]
    /\ UNCHANGED <<server, said, posting, up, events, discarded>>

ChatNext ==
    \/ \E body \in Body : SendMessage(body) \/ StoreTheirs(body)
    \/ \E n \in Send : RetrySend(n) \/ Discard(n) \/ StoreMine(n)
                       \/ ResolvePending(n) \/ FailPending(n)
    \/ \E id \in 1..MaxStored : Announce(id)
    \/ Receive \/ Drop
    \/ \E r \in Reader : Ready(r) \/ Reload(r) \/ Serve(r) \/ Land(r)

ChatSpec == ChatInit /\ [][ChatNext]_chatVars

-----------------------------------------------------------------------------
\* Every variable keeps its type.
ChatTypeOK ==
    /\ \A m \in ToSet(stored) : m \in [by : {0} \cup Send, body : Body]
    /\ unannounced \subseteq DOMAIN stored
    /\ posting \in [Send -> {Nothing, Sent} \cup DOMAIN stored]
    /\ \A b \in ToSet(chat) : /\ b.id \in DOMAIN stored \cup {Local(n) : n \in Send}
                              /\ b.st \in {"none", "sending", "failed"}
                              /\ b.id > 0 <=> b.st = "none"
    /\ {loaded, up, late} \subseteq BOOLEAN
    /\ ToSet(events) \subseteq DOMAIN stored
    /\ reader \in [Reader -> {Unread, Asked} \cup 0..Len(stored)]

\* No message is on screen twice, and no two bubbles are drawn by one key,
\* whichever of the answer, the socket and the page comes first.
BubblesAreDistinct ==
    \A i, j \in DOMAIN chat :
        i # j => chat[i].id # chat[j].id /\ chat[i].key # chat[j].key

Settled ==
    /\ loaded /\ up /\ events = <<>> /\ unannounced = {}
    /\ \A n \in Send : posting[n] = Nothing
    /\ \A r \in Reader : reader[r] = Unread

\* With nothing on its way, the screen shows every stored message, and nothing is
\* still sending, however often the socket dropped: unless a page came too late.
SettledChatIsComplete ==
    Settled /\ ~ late =>
        /\ DOMAIN stored \subseteq Ids(chat)
        /\ \A b \in ToSet(chat) : b.st # "sending"

\* What the person typed and did not discard is on screen or stored, if they did
\* not type the same twice.
TypedIsKept ==
    \A n \in DOMAIN said :
        (\A m \in DOMAIN said : said[m] = said[n] => m = n) =>
            \/ n \in discarded
            \/ Local(n) \in Ids(chat)
            \/ \E id \in DOMAIN stored : stored[id].by = n
=============================================================================
