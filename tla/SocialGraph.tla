----------------------------- MODULE SocialGraph -----------------------------
(***************************************************************************)
(* Who follows, blocks and messages whom: follow.service.js,               *)
(* block.service.js and conversation.service.js of apps/api over their     *)
(* repositories.                                                           *)
(*                                                                         *)
(* Every handler checks first and writes later, with other handlers in     *)
(* between: a follow or a message looks for a block and then inserts, a    *)
(* block is inserted and then severs the follow edges in two deletes.      *)
(* Every write is followed by one more call that bumps the version         *)
(* counters of the people whose cached lists it changed.                   *)
(***************************************************************************)
EXTENDS Integers, FiniteSets

CONSTANTS
    User, Call,         \* people; handlers in flight
    MaxMessages,        \* bound: unread messages of one person from another
    MaxLost             \* bound: handlers that die half-way

ASSUME SocialAssumption == User # {} /\ MaxMessages \in Nat /\ MaxLost \in Nat

VARIABLES
    follow,     \* the follows table, pairs <<follower, followed>>
    block,      \* the blocks table, pairs <<blocker, blocked>>
    unread,     \* conversation_members: unread[u][v], what u has not read of v
    call,       \* the handlers in flight
    lag,        \* counters of lists that changed and were not bumped since
    slipped,    \* history: edges inserted or left standing across a block
    unseen,     \* history: counters whose bump was lost or never planned
    lost        \* how many handlers died

socialVars == <<follow, block, unread, call, lag, slipped, unseen, lost>>

Pair == User \X User
Rev(p) == <<p[2], p[1]>>
People(p) == {p[1], p[2]}

\* followUserVersionKey and blockUserVersionKey.
Counter == {"follow", "block"} \X User
FollowLists(p) == {"follow"} \X People(p)
BlockList(u) == <<"block", u>>

Steps == {"idle", "find", "insert", "bump", "delete all", "block", "sever",
          "sever bump", "sever back", "write"}
Anyone == CHOOSE u \in User : TRUE
Quiet == [pc |-> "idle", pair |-> <<Anyone, Anyone>>, owes |-> {}, overtaken |-> FALSE]

SocialInit ==
    /\ follow = {} /\ block = {}
    /\ unread = [u \in User |-> [v \in User |-> 0]]
    /\ call = [c \in Call |-> Quiet]
    /\ lag = {} /\ slipped = {} /\ unseen = {} /\ lost = 0

-----------------------------------------------------------------------------
At(c, pc) == call[c].pc = pc
Go(c, pc, owes) == call' = [call EXCEPT ![c].pc = pc, ![c].owes = owes]
Done(c) == call' = [call EXCEPT ![c] = Quiet]
Begin(c, pc, p) ==
    /\ At(c, "idle") /\ p[1] # p[2]
    /\ call' = [call EXCEPT ![c] = [Quiet EXCEPT !.pc = pc, !.pair = p]]

\* Slip: only the caller's own block is looked for.
OwnBlock(p) == p \in block

\* findBlockBetween: whichever of the two blocked the other.
BlockBetween(p) == p \in block \/ Rev(p) \in block

\* deleteFollow, and whom its caller must bump: nobody if there was no edge.
DeleteFollow(p) ==
    /\ follow' = follow \ {p}
    /\ slipped' = slipped \ {p}
    /\ lag' = IF p \in follow THEN lag \cup FollowLists(p) ELSE lag

-----------------------------------------------------------------------------
\* followUser up to its look for a block, refused when there is one.
BeginFollow(c, p) ==
    /\ ~ BlockBetween(p)
    /\ Begin(c, "find", p)
    /\ UNCHANGED <<follow, block, unread, lag, slipped, unseen, lost>>

\* An edge that is there already is the answer.
FindFollow(c) ==
    /\ At(c, "find")
    /\ IF call[c].pair \in follow THEN Done(c) ELSE Go(c, "insert", {})
    /\ UNCHANGED <<follow, block, unread, lag, slipped, unseen, lost>>

\* createFollow.  Another request may have inserted the edge since: the unique
\* violation is answered with that edge, and with the same bumps.
CreateFollow(c) ==
    /\ At(c, "insert")
    /\ LET p == call[c].pair IN
         /\ follow' = follow \cup {p}
         /\ lag' = IF p \in follow THEN lag ELSE lag \cup FollowLists(p)
         /\ slipped' = IF call[c].overtaken THEN slipped \cup {p} ELSE slipped
         /\ Go(c, "bump", FollowLists(p))
    /\ UNCHANGED <<block, unread, unseen, lost>>

\* bumpVersions, after the write it is for.
BumpPeople(c) ==
    /\ call[c].pc \in {"bump", "sever bump"}
    /\ lag' = lag \ call[c].owes
    /\ unseen' = unseen \ call[c].owes
    /\ IF At(c, "bump") THEN Done(c) ELSE Go(c, "sever back", {})
    /\ UNCHANGED <<follow, block, unread, slipped, lost>>

\* unfollowUser, and removeFollower with the pair the other way round.
Unfollow(c, p) ==
    /\ At(c, "idle") /\ p \in follow
    /\ DeleteFollow(p)
    /\ Go(c, "bump", FollowLists(p))
    /\ UNCHANGED <<block, unread, unseen, lost>>

\* deleteMyFollows reads whom it must bump before it deletes.
BeginDeleteMyFollows(c, u) ==
    /\ At(c, "idle")
    /\ call' = [call EXCEPT ![c] = [Quiet EXCEPT !.pc = "delete all",
                  !.pair = <<u, u>>,
                  !.owes = {"follow"} \X ({u} \cup {v \in User : <<u, v>> \in follow})]]
    /\ UNCHANGED <<follow, block, unread, lag, slipped, unseen, lost>>

\* A person followed since that read is deleted and not bumped.
DeleteMyFollows(c) ==
    /\ At(c, "delete all")
    /\ LET mine == {p \in follow : p[1] = call[c].pair[1]}
           changed == UNION {FollowLists(p) : p \in mine}
           late == {p \in mine : <<"follow", p[2]>> \notin call[c].owes}
       IN  /\ follow' = follow \ mine
           /\ slipped' = slipped \ mine
           /\ lag' = lag \cup changed
           /\ unseen' = unseen \cup {<<"follow", p[2]>> : p \in late}
           /\ IF mine = {} THEN Done(c) ELSE Go(c, "bump", call[c].owes)
    /\ UNCHANGED <<block, unread, lost>>

-----------------------------------------------------------------------------
\* blockUser: a block that exists is answered as it is, without severing.
BeginBlock(c, p) ==
    /\ p \notin block
    /\ Begin(c, "block", p)
    /\ UNCHANGED <<follow, block, unread, lag, slipped, unseen, lost>>

\* createBlock, or the row another request inserted since.  Handlers whose
\* check is behind them do not notice the block.
CreateBlock(c) ==
    /\ At(c, "block")
    /\ LET p == call[c].pair IN
         /\ block' = block \cup {p}
         /\ lag' = IF p \in block THEN lag ELSE lag \cup {BlockList(p[1])}
         /\ call' = [d \in Call |->
              IF d = c THEN [call[c] EXCEPT !.pc = "sever"]
              ELSE [call[d] EXCEPT !.overtaken = @ \/
                      /\ call[d].pc \in {"find", "insert", "write"}
                      /\ People(call[d].pair) = People(p)]]
    /\ UNCHANGED <<follow, unread, slipped, unseen, lost>>

\* Slip: only the edge of the blocked person goes.
SeverOneWay(c) ==
    /\ At(c, "sever")
    /\ Go(c, "sever back", {})
    /\ UNCHANGED <<follow, block, unread, lag, slipped, unseen, lost>>

\* severFollowEdges: unfollowUser for both directions, each bumping the edge it
\* deleted; invalidateBlock shares the last bump.
Sever(c) ==
    /\ At(c, "sever")
    /\ LET p == call[c].pair IN
         /\ DeleteFollow(p)
         /\ IF p \in follow THEN Go(c, "sever bump", FollowLists(p))
                            ELSE Go(c, "sever back", {})
    /\ UNCHANGED <<block, unread, unseen, lost>>

SeverBack(c) ==
    /\ At(c, "sever back")
    /\ LET p == call[c].pair IN
         /\ DeleteFollow(Rev(p))
         /\ Go(c, "bump", {BlockList(p[1])} \cup
                          IF Rev(p) \in follow THEN FollowLists(p) ELSE {})
    /\ UNCHANGED <<block, unread, unseen, lost>>

\* unblockUser and deleteMyBlocks; severed edges do not come back.
Unblock(c, u, gone) ==
    /\ At(c, "idle")
    /\ gone # {} /\ gone \subseteq block /\ \A p \in gone : p[1] = u
    /\ Cardinality(gone) = 1 \/ gone = {p \in block : p[1] = u}
    /\ block' = block \ gone
    /\ lag' = lag \cup {BlockList(u)}
    /\ Go(c, "bump", {BlockList(u)})
    /\ UNCHANGED <<follow, unread, slipped, unseen, lost>>

-----------------------------------------------------------------------------
\* sendMessage up to its look for a block.
BeginMessage(c, p) ==
    /\ ~ BlockBetween(p)
    /\ Begin(c, "write", p)
    /\ UNCHANGED <<follow, block, unread, lag, slipped, unseen, lost>>

\* createMessage, one transaction: the recipient's count goes up and the
\* sender's is cleared, since answering is reading.
CreateMessage(c) ==
    /\ At(c, "write")
    /\ LET from == call[c].pair[1]
           to == call[c].pair[2]
       IN  /\ unread[to][from] < MaxMessages
           /\ unread' = [unread EXCEPT ![to][from] = @ + 1, ![from][to] = 0]
    /\ Done(c)
    /\ UNCHANGED <<follow, block, lag, slipped, unseen, lost>>

\* markConversationRead.
ReadConversation(u, v) ==
    /\ unread[u][v] > 0
    /\ unread' = [unread EXCEPT ![u][v] = 0]
    /\ UNCHANGED <<follow, block, call, lag, slipped, unseen, lost>>

\* The process dies: what the handler still had to do is not done.
Die(c) ==
    /\ ~ At(c, "idle") /\ lost < MaxLost
    /\ LET p == call[c].pair IN
         /\ unseen' = unseen \cup call[c].owes \cup
              IF call[c].pc \in {"sever", "sever bump", "sever back"}
                THEN {BlockList(p[1])} ELSE {}
         /\ slipped' = slipped \cup
              IF call[c].pc \in {"sever", "sever bump", "sever back"}
                THEN {p, Rev(p)} \cap follow ELSE {}
    /\ Done(c)
    /\ lost' = lost + 1
    /\ UNCHANGED <<follow, block, unread, lag>>

SocialNext ==
    \/ \E c \in Call :
         \/ \E p \in Pair : BeginFollow(c, p) \/ Unfollow(c, p)
                            \/ BeginBlock(c, p) \/ BeginMessage(c, p)
         \/ \E u \in User : BeginDeleteMyFollows(c, u)
         \/ \E u \in User, gone \in SUBSET block : Unblock(c, u, gone)
         \/ FindFollow(c) \/ CreateFollow(c) \/ BumpPeople(c)
         \/ DeleteMyFollows(c) \/ CreateBlock(c) \/ Sever(c) \/ SeverBack(c)
         \/ CreateMessage(c) \/ Die(c)
    \/ \E u, v \in User : ReadConversation(u, v)

SocialSpec == SocialInit /\ [][SocialNext]_socialVars

-----------------------------------------------------------------------------
\* Every variable keeps its type.
SocialTypeOK ==
    /\ follow \subseteq Pair /\ block \subseteq Pair /\ slipped \subseteq follow
    /\ unread \in [User -> [User -> 0..MaxMessages]]
    /\ call \in [Call -> [pc : Steps, pair : Pair, owes : SUBSET Counter,
                          overtaken : BOOLEAN]]
    /\ lag \subseteq Counter /\ unseen \subseteq Counter /\ lost \in 0..MaxLost

\* Two people with a block between them.
Severed(p) == {p, Rev(p)} \cap block # {}

\* An edge across a block was inserted by a follow the block overtook, or left
\* by a block that died, or is about to be severed; no other order of follows,
\* blocks and unblocks leaves one (block.service.js, severFollowEdges).
BlockedAreApart ==
    \A p \in follow : Severed(p) =>
        \/ p \in slipped
        \/ \E c \in Call : /\ People(call[c].pair) = People(p)
                           /\ \/ call[c].pc \in {"sever", "sever bump"}
                              \/ At(c, "sever back") /\ p = Rev(call[c].pair)

\* A list that changed is bumped, or about to be: the lists of the two ends of
\* an edge and of a blocker never stay stale, unless a handler died or an edge
\* was made while its owner was deleting all of them (invalidateFollow).
ListsAreBumped ==
    \A k \in lag \ unseen :
        \E c \in Call :
            \/ k \in call[c].owes /\ call[c].pc \in {"bump", "sever bump"}
            \/ /\ call[c].pc \in {"sever", "sever bump", "sever back"}
               /\ k = BlockList(call[c].pair[1])

\* Only a check that the block overtook lets a message through a block
\* (sendMessage).
MessagesRespectBlocks ==
    [][\A u, v \in User : unread'[u][v] > unread[u][v] /\ Severed(<<u, v>>) =>
         \E c \in Call : At(c, "write") /\ call[c].overtaken]_socialVars
=============================================================================
