---------------------------- MODULE Social_proofs ----------------------------
(***************************************************************************)
(* Proofs about the parts where people meet in shared rows and lists:      *)
(* follows, blocks and messages (SocialGraph), posts and their marks       *)
(* (CommunityPosts), and the pages sessions show in (SessionPages).  Each  *)
(* has a specification of its own and shares no variable with the others.  *)
(***************************************************************************)
EXTENDS SocialGraph, CommunityPosts, SessionPages, TLAPS

(***************************************************************************)
(* SocialGraph, for any people, any number of handlers in flight and any   *)
(* number that die: which edges and messages cross a block, and that a     *)
(* list which changed is bumped.                                           *)
(***************************************************************************)

CallState == [pc : Steps, pair : Pair, owes : SUBSET Counter, overtaken : BOOLEAN]

\* A follow or a message whose check is behind it was overtaken if there is a
\* block by now; two people are two.
ChecksStand(c) ==
    call[c].pc \in {"find", "insert", "write"} =>
        /\ call[c].pair[1] # call[c].pair[2]
        /\ Severed(call[c].pair) => call[c].overtaken

\* deleteMyFollows means to bump at least whose follows they are.
OwnListIsOwed(c) ==
    call[c].pc = "delete all" => <<"follow", call[c].pair[1]>> \in call[c].owes

\* The edges a block still has to sever: both, then the one back.
Severing(c, p) ==
    \/ call[c].pc = "sever" /\ p \in {call[c].pair, Rev(call[c].pair)}
    \/ call[c].pc \in {"sever bump", "sever back"} /\ p = Rev(call[c].pair)

EdgesAreApart ==
    \A p \in follow : Severed(p) => p \in slipped \/ \E c \in Call : Severing(c, p)

\* Whose bump a handler still has before it.
CallBumps(c, k) ==
    \/ k \in call[c].owes /\ call[c].pc \in {"bump", "sever bump"}
    \/ call[c].pc \in {"sever", "sever bump", "sever back"} /\ k = BlockList(call[c].pair[1])

ListsAreOwed == \A k \in lag \ unseen : \E c \in Call : CallBumps(c, k)

SocialInv ==
    /\ SocialTypeOK
    /\ \A c \in Call : ChecksStand(c) /\ OwnListIsOwed(c)
    /\ EdgesAreApart /\ ListsAreOwed

-----------------------------------------------------------------------------
\* The lists of a pair are counters, and the pair turned round is a pair.
LEMMA PairFacts ==
    ASSUME NEW p \in Pair
    PROVE  /\ p[1] \in User /\ p[2] \in User /\ Rev(p) \in Pair /\ Rev(Rev(p)) = p
           /\ FollowLists(p) \subseteq Counter /\ BlockList(p[1]) \in Counter
           /\ People(Rev(p)) = People(p)
BY DEF Pair, Rev, FollowLists, BlockList, Counter, People

LEMMA QuietIsHandler == Quiet \in CallState
<1>1. Anyone \in User
  BY SocialAssumption DEF Anyone
<1> QED
  BY <1>1 DEF Quiet, CallState, Steps, Pair

\* How one handler moves, and that the others stand still.
LEMMA GoMoves ==
    ASSUME SocialTypeOK, NEW c \in Call, NEW pc \in Steps, NEW owes \in SUBSET Counter,
           Go(c, pc, owes)
    PROVE  /\ call' \in [Call -> CallState]
           /\ call'[c].pc = pc /\ call'[c].owes = owes /\ call'[c].pair = call[c].pair
           /\ call'[c].overtaken = call[c].overtaken
           /\ \A d \in Call : d # c => call'[d] = call[d]
<1>1. call \in [Call -> CallState]
  BY DEF SocialTypeOK, CallState
<1>2. call[c] \in CallState
  BY <1>1
<1>3. call' = [call EXCEPT ![c] = [[call[c] EXCEPT !.pc = pc] EXCEPT !.owes = owes]]
  BY <1>1 DEF Go
<1>4. [[call[c] EXCEPT !.pc = pc] EXCEPT !.owes = owes]
        = [pc |-> pc, pair |-> call[c].pair, owes |-> owes, overtaken |-> call[c].overtaken]
  <2>1. [call[c] EXCEPT !.pc = pc] = [pc |-> pc, pair |-> call[c].pair,
                                      owes |-> call[c].owes, overtaken |-> call[c].overtaken]
    BY <1>2 DEF CallState
  <2>2. [[pc |-> pc, pair |-> call[c].pair, owes |-> call[c].owes,
          overtaken |-> call[c].overtaken] EXCEPT !.owes = owes]
          = [pc |-> pc, pair |-> call[c].pair, owes |-> owes, overtaken |-> call[c].overtaken]
    OBVIOUS
  <2> QED
    BY <2>1, <2>2
<1>5. [pc |-> pc, pair |-> call[c].pair, owes |-> owes, overtaken |-> call[c].overtaken]
        \in CallState
  BY <1>2 DEF CallState
<1>6. call'[c] = [pc |-> pc, pair |-> call[c].pair, owes |-> owes,
                  overtaken |-> call[c].overtaken]
  BY <1>1, <1>3, <1>4
<1>7. call' \in [Call -> CallState] /\ \A d \in Call : d # c => call'[d] = call[d]
  BY <1>1, <1>3, <1>4, <1>5
<1> QED
  BY <1>6, <1>7

LEMMA DoneMoves ==
    ASSUME SocialTypeOK, NEW c \in Call, Done(c)
    PROVE  /\ call' \in [Call -> CallState] /\ call'[c].pc = "idle"
           /\ \A d \in Call : d # c => call'[d] = call[d]
<1>1. call \in [Call -> CallState]
  BY DEF SocialTypeOK, CallState
<1>2. call'[c] = Quiet
  BY <1>1 DEF Done
<1> QED
  BY <1>1, <1>2, QuietIsHandler DEF Done, Quiet

LEMMA BeginMoves ==
    ASSUME SocialTypeOK, NEW c \in Call, NEW pc \in Steps, NEW p \in Pair, Begin(c, pc, p)
    PROVE  /\ call' \in [Call -> CallState] /\ call[c].pc = "idle" /\ p[1] # p[2]
           /\ call'[c].pc = pc /\ call'[c].pair = p
           /\ \A d \in Call : d # c => call'[d] = call[d]
<1>1. call \in [Call -> CallState]
  BY DEF SocialTypeOK, CallState
<1>2. call'[c] = [pc |-> pc, pair |-> p, owes |-> {}, overtaken |-> FALSE]
  BY <1>1 DEF Begin, Quiet
<1>3. call'[c] \in CallState
  BY <1>2 DEF CallState
<1>4. call' = [call EXCEPT ![c] = call'[c]]
  BY <1>1 DEF Begin
<1> QED
  BY <1>1, <1>2, <1>3, <1>4 DEF Begin, At

-----------------------------------------------------------------------------
\* The parts of the invariant that rest on the other handlers, for a step of one
\* handler that makes no block.
LEMMA OthersStand ==
    ASSUME SocialInv, NEW c \in Call, block' \subseteq block,
           \A d \in Call : d # c => call'[d] = call[d]
    PROVE  \A d \in Call : d # c => ChecksStand(d)' /\ OwnListIsOwed(d)'
<1> SUFFICES ASSUME NEW d \in Call, d # c PROVE ChecksStand(d)' /\ OwnListIsOwed(d)'
  OBVIOUS
<1>1. call'[d] = call[d] /\ ChecksStand(d) /\ OwnListIsOwed(d)
  BY DEF SocialInv
<1>2. OwnListIsOwed(d)'
  BY <1>1 DEF OwnListIsOwed
<1>3. \A p : {p, Rev(p)} \cap block' # {} => {p, Rev(p)} \cap block # {}
  OBVIOUS
<1>4. ChecksStand(d)'
  BY <1>1, <1>3 DEF ChecksStand, Severed
<1> QED
  BY <1>2, <1>4

LEMMA EdgesStayApart ==
    ASSUME SocialInv, NEW c \in Call, block' \subseteq block, follow' \subseteq follow,
           slipped \cap follow' \subseteq slipped',
           \A d \in Call : d # c => call'[d] = call[d],
           \A p \in follow' : Severing(c, p) => Severing(c, p)' \/ p \in slipped'
    PROVE  EdgesAreApart'
<1> SUFFICES ASSUME NEW p \in follow', {p, Rev(p)} \cap block' # {}
             PROVE  p \in slipped' \/ \E d \in Call : Severing(d, p)'
  BY DEF EdgesAreApart, Severed
<1>1. p \in slipped \/ \E d \in Call : Severing(d, p)
  BY DEF SocialInv, EdgesAreApart, Severed
<1>2. \A d \in Call : d # c /\ Severing(d, p) => Severing(d, p)'
  BY DEF Severing
<1> QED
  BY <1>1, <1>2

LEMMA ListsStayOwed ==
    ASSUME SocialInv, NEW c \in Call, \A d \in Call : d # c => call'[d] = call[d],
           \A k \in lag' \ unseen' :
             CallBumps(c, k)' \/ (k \in lag \ unseen /\ ~ CallBumps(c, k))
    PROVE  ListsAreOwed'
<1> SUFFICES ASSUME NEW k \in lag' \ unseen' PROVE \E d \in Call : CallBumps(d, k)'
  BY DEF ListsAreOwed
<1>1. CASE CallBumps(c, k)'
  BY <1>1
<1>2. CASE k \in lag \ unseen /\ ~ CallBumps(c, k)
  <2>1. PICK d \in Call : CallBumps(d, k)
    BY <1>2 DEF SocialInv, ListsAreOwed
  <2>2. d # c
    BY <1>2, <2>1
  <2> QED
    BY <2>1, <2>2 DEF CallBumps
<1> QED
  BY <1>1, <1>2

LEMMA SocialStart == SocialInit => SocialInv
<1> SUFFICES ASSUME SocialInit PROVE SocialInv
  OBVIOUS
<1>1. SocialTypeOK
  BY QuietIsHandler, SocialAssumption DEF SocialInit, SocialTypeOK, CallState
<1>2. \A c \in Call : call[c].pc = "idle"
  BY DEF SocialInit, Quiet
<1>3. \A c \in Call : ChecksStand(c) /\ OwnListIsOwed(c)
  BY <1>2 DEF ChecksStand, OwnListIsOwed
<1> QED
  BY <1>1, <1>3 DEF SocialInit, SocialInv, EdgesAreApart, ListsAreOwed

-----------------------------------------------------------------------------
\* A check that passes saw no block.
LEMMA BeginCheckStep ==
    ASSUME SocialInv, NEW c \in Call, NEW p \in Pair, BeginFollow(c, p) \/ BeginMessage(c, p)
    PROVE  SocialInv'
<1>1. PICK pc \in {"find", "write"} : Begin(c, pc, p)
  BY DEF BeginFollow, BeginMessage
<1>2. /\ UNCHANGED <<follow, block, unread, lag, slipped, unseen, lost>>
      /\ p \notin block /\ Rev(p) \notin block
  BY DEF BeginFollow, BeginMessage, BlockBetween
<1>3. /\ call' \in [Call -> CallState] /\ call[c].pc = "idle" /\ p[1] # p[2]
      /\ call'[c].pc \in {"find", "write"} /\ call'[c].pair = p
      /\ \A d \in Call : d # c => call'[d] = call[d]
  <2>1. SocialTypeOK /\ pc \in Steps
    BY <1>1 DEF SocialInv, Steps
  <2> QED
    BY <1>1, <2>1, BeginMoves
<1>4. SocialTypeOK'
  BY <1>2, <1>3 DEF SocialInv, SocialTypeOK, CallState
<1>5. ChecksStand(c)' /\ OwnListIsOwed(c)'
  BY <1>2, <1>3 DEF ChecksStand, OwnListIsOwed, Severed
<1>6. \A d \in Call : ChecksStand(d)' /\ OwnListIsOwed(d)'
  BY <1>2, <1>3, <1>5, OthersStand
<1>7. EdgesAreApart'
  BY <1>2, <1>3, EdgesStayApart DEF Severing
<1>8. ListsAreOwed'
  BY <1>2, <1>3, ListsStayOwed DEF CallBumps
<1> QED
  BY <1>4, <1>6, <1>7, <1>8 DEF SocialInv

LEMMA BeginBlockStep ==
    ASSUME SocialInv, NEW c \in Call, NEW p \in Pair, BeginBlock(c, p)
    PROVE  SocialInv'
<1>1. UNCHANGED <<follow, block, unread, lag, slipped, unseen, lost>>
  BY DEF BeginBlock
<1>2. /\ call' \in [Call -> CallState] /\ call[c].pc = "idle" /\ call'[c].pc = "block"
      /\ \A d \in Call : d # c => call'[d] = call[d]
  BY BeginMoves DEF BeginBlock, SocialInv, Steps
<1>3. SocialTypeOK'
  BY <1>1, <1>2 DEF SocialInv, SocialTypeOK, CallState
<1>4. ChecksStand(c)' /\ OwnListIsOwed(c)'
  BY <1>2 DEF ChecksStand, OwnListIsOwed
<1>5. \A d \in Call : ChecksStand(d)' /\ OwnListIsOwed(d)'
  BY <1>1, <1>2, <1>4, OthersStand
<1>6. EdgesAreApart'
  BY <1>1, <1>2, EdgesStayApart DEF Severing
<1>7. ListsAreOwed'
  BY <1>1, <1>2, ListsStayOwed DEF CallBumps
<1> QED
  BY <1>3, <1>5, <1>6, <1>7 DEF SocialInv

LEMMA FindFollowStep ==
    ASSUME SocialInv, NEW c \in Call, FindFollow(c)
    PROVE  SocialInv'
<1>1. /\ UNCHANGED <<follow, block, unread, lag, slipped, unseen, lost>>
      /\ call[c].pc = "find"
  BY DEF FindFollow, At
<1>2. /\ call' \in [Call -> CallState]
      /\ \/ call'[c].pc = "idle"
         \/ /\ call'[c].pc = "insert" /\ call'[c].pair = call[c].pair
            /\ call'[c].overtaken = call[c].overtaken
      /\ \A d \in Call : d # c => call'[d] = call[d]
  <2>1. SocialTypeOK /\ "insert" \in Steps /\ {} \in SUBSET Counter
    BY DEF SocialInv, Steps
  <2>2. Done(c) \/ Go(c, "insert", {})
    BY DEF FindFollow
  <2>3. CASE Done(c)
    BY <2>1, <2>3, DoneMoves
  <2>4. CASE Go(c, "insert", {})
    BY <2>1, <2>4, GoMoves
  <2> QED
    BY <2>2, <2>3, <2>4
<1>3. SocialTypeOK'
  BY <1>1, <1>2 DEF SocialInv, SocialTypeOK, CallState
<1>4. ChecksStand(c)' /\ OwnListIsOwed(c)'
  BY <1>1, <1>2 DEF SocialInv, ChecksStand, OwnListIsOwed, Severed
<1>5. \A d \in Call : ChecksStand(d)' /\ OwnListIsOwed(d)'
  BY <1>1, <1>2, <1>4, OthersStand
<1>6. EdgesAreApart'
  BY <1>1, <1>2, EdgesStayApart DEF Severing
<1>7. ListsAreOwed'
  BY <1>1, <1>2, ListsStayOwed DEF CallBumps
<1> QED
  BY <1>3, <1>5, <1>6, <1>7 DEF SocialInv

\* createFollow: across a block only when the block overtook it.
LEMMA CreateFollowStep ==
    ASSUME SocialInv, NEW c \in Call, CreateFollow(c)
    PROVE  SocialInv'
<1> DEFINE p == call[c].pair
<1>1. p \in Pair /\ call[c] \in CallState
  BY DEF SocialInv, SocialTypeOK, CallState
<1>2. /\ call[c].pc = "insert" /\ follow' = follow \cup {p}
      /\ lag' \subseteq lag \cup FollowLists(p)
      /\ slipped' = IF call[c].overtaken THEN slipped \cup {p} ELSE slipped
      /\ UNCHANGED <<block, unread, unseen, lost>>
  BY DEF CreateFollow, At
<1>3. /\ call' \in [Call -> CallState] /\ call'[c].pc = "bump"
      /\ call'[c].owes = FollowLists(p)
      /\ \A d \in Call : d # c => call'[d] = call[d]
  <2>1. SocialTypeOK /\ "bump" \in Steps /\ FollowLists(p) \in SUBSET Counter
    BY <1>1, PairFacts DEF SocialInv, Steps
  <2>2. Go(c, "bump", FollowLists(p))
    BY DEF CreateFollow
  <2> QED
    BY <2>1, <2>2, GoMoves
<1>4. SocialTypeOK'
  BY <1>1, <1>2, <1>3, PairFacts DEF SocialInv, SocialTypeOK, CallState
<1>5. ChecksStand(c)' /\ OwnListIsOwed(c)'
  BY <1>3 DEF ChecksStand, OwnListIsOwed
<1>6. \A d \in Call : ChecksStand(d)' /\ OwnListIsOwed(d)'
  BY <1>2, <1>3, <1>5, OthersStand
<1>7. EdgesAreApart'
  <2> SUFFICES ASSUME NEW q \in follow', {q, Rev(q)} \cap block # {}
               PROVE  q \in slipped' \/ \E d \in Call : Severing(d, q)'
    BY <1>2 DEF EdgesAreApart, Severed
  <2>1. CASE q \in follow
    <3>1. q \in slipped \/ \E d \in Call : Severing(d, q)
      BY <2>1 DEF SocialInv, EdgesAreApart, Severed
    <3>2. \A d \in Call : Severing(d, q) => d # c /\ Severing(d, q)'
      BY <1>2, <1>3 DEF Severing
    <3> QED
      BY <1>2, <3>1, <3>2
  <2>2. CASE q = p
    <3>1. call[c].overtaken
      BY <1>2, <2>2 DEF SocialInv, ChecksStand, Severed
    <3> QED
      BY <1>2, <2>2, <3>1
  <2> QED
    BY <1>2, <2>1, <2>2
<1>8. ListsAreOwed'
  <2>1. \A k : ~ CallBumps(c, k)
    BY <1>2 DEF CallBumps
  <2>2. \A k \in FollowLists(p) : CallBumps(c, k)'
    BY <1>3 DEF CallBumps
  <2> QED
    BY <1>2, <1>3, <2>1, <2>2, ListsStayOwed
<1> QED
  BY <1>4, <1>6, <1>7, <1>8 DEF SocialInv

LEMMA BumpPeopleStep ==
    ASSUME SocialInv, NEW c \in Call, BumpPeople(c)
    PROVE  SocialInv'
<1>1. /\ call[c].pc \in {"bump", "sever bump"}
      /\ lag' = lag \ call[c].owes /\ unseen' = unseen \ call[c].owes
      /\ UNCHANGED <<follow, block, unread, slipped, lost>>
  BY DEF BumpPeople
<1>2. /\ call' \in [Call -> CallState]
      /\ \/ call[c].pc = "bump" /\ call'[c].pc = "idle"
         \/ /\ call[c].pc = "sever bump" /\ call'[c].pc = "sever back"
            /\ call'[c].pair = call[c].pair
      /\ \A d \in Call : d # c => call'[d] = call[d]
  <2>1. SocialTypeOK /\ "sever back" \in Steps /\ {} \in SUBSET Counter
    BY DEF SocialInv, Steps
  <2>2. \/ call[c].pc = "bump" /\ Done(c)
        \/ call[c].pc = "sever bump" /\ Go(c, "sever back", {})
    BY <1>1 DEF BumpPeople, At
  <2>3. CASE call[c].pc = "bump" /\ Done(c)
    BY <2>1, <2>3, DoneMoves
  <2>4. CASE call[c].pc = "sever bump" /\ Go(c, "sever back", {})
    BY <2>1, <2>4, GoMoves
  <2> QED
    BY <2>2, <2>3, <2>4
<1>3. SocialTypeOK'
  BY <1>1, <1>2 DEF SocialInv, SocialTypeOK, CallState
<1>4. ChecksStand(c)' /\ OwnListIsOwed(c)'
  BY <1>2 DEF ChecksStand, OwnListIsOwed
<1>5. \A d \in Call : ChecksStand(d)' /\ OwnListIsOwed(d)'
  BY <1>1, <1>2, <1>4, OthersStand
<1>6. EdgesAreApart'
  BY <1>1, <1>2, EdgesStayApart DEF Severing
<1>7. ListsAreOwed'
  BY <1>1, <1>2, ListsStayOwed DEF CallBumps
<1> QED
  BY <1>3, <1>5, <1>6, <1>7 DEF SocialInv

LEMMA UnfollowStep ==
    ASSUME SocialInv, NEW c \in Call, NEW p \in Pair, Unfollow(c, p)
    PROVE  SocialInv'
<1>1. /\ call[c].pc = "idle" /\ follow' = follow \ {p} /\ slipped' = slipped \ {p}
      /\ lag' = lag \cup FollowLists(p) /\ FollowLists(p) \subseteq Counter
      /\ UNCHANGED <<block, unread, unseen, lost>>
  BY PairFacts DEF Unfollow, DeleteFollow, At
<1>2. /\ call' \in [Call -> CallState] /\ call'[c].pc = "bump"
      /\ call'[c].owes = FollowLists(p)
      /\ \A d \in Call : d # c => call'[d] = call[d]
  <2>1. SocialTypeOK /\ "bump" \in Steps /\ FollowLists(p) \in SUBSET Counter
    BY <1>1 DEF SocialInv, Steps
  <2>2. Go(c, "bump", FollowLists(p))
    BY DEF Unfollow
  <2> QED
    BY <2>1, <2>2, GoMoves
<1>3. SocialTypeOK'
  BY <1>1, <1>2 DEF SocialInv, SocialTypeOK, CallState
<1>4. ChecksStand(c)' /\ OwnListIsOwed(c)'
  BY <1>2 DEF ChecksStand, OwnListIsOwed
<1>5. \A d \in Call : ChecksStand(d)' /\ OwnListIsOwed(d)'
  BY <1>1, <1>2, <1>4, OthersStand
<1>6. EdgesAreApart'
  BY <1>1, <1>2, EdgesStayApart DEF Severing
<1>7. ListsAreOwed'
  <2>1. \A k : ~ CallBumps(c, k)
    BY <1>1 DEF CallBumps
  <2>2. \A k \in FollowLists(p) : CallBumps(c, k)'
    BY <1>2 DEF CallBumps
  <2> QED
    BY <1>1, <1>2, <2>1, <2>2, ListsStayOwed
<1> QED
  BY <1>3, <1>5, <1>6, <1>7 DEF SocialInv

LEMMA BeginDeleteStep ==
    ASSUME SocialInv, NEW c \in Call, NEW u \in User, BeginDeleteMyFollows(c, u)
    PROVE  SocialInv'
<1>1. /\ call[c].pc = "idle" /\ UNCHANGED <<follow, block, unread, lag, slipped, unseen, lost>>
      /\ call \in [Call -> CallState]
  BY DEF BeginDeleteMyFollows, At, SocialInv, SocialTypeOK, CallState
<1>2. PICK pc \in Steps, p \in Pair, mine \in SUBSET Counter :
         /\ pc = "delete all" /\ p[1] = u /\ <<"follow", u>> \in mine
         /\ call' = [call EXCEPT ![c] = [Quiet EXCEPT !.pc = pc, !.pair = p, !.owes = mine]]
  <2>1. <<u, u>> \in Pair /\ <<u, u>>[1] = u /\ "delete all" \in Steps
    BY DEF Pair, Steps
  <2> QED
    BY <2>1 DEF BeginDeleteMyFollows, Counter
<1>3. /\ call'[c] = [pc |-> pc, pair |-> p, owes |-> mine, overtaken |-> FALSE]
      /\ pc \in Steps /\ p \in Pair /\ mine \in SUBSET Counter
  BY <1>1, <1>2 DEF Quiet
<1>4. call'[c] \in CallState
  BY <1>3 DEF CallState
<1>5. call'[c].pc = pc /\ call'[c].pair = p /\ call'[c].owes = mine
  BY <1>3
<1>6. call' \in [Call -> CallState] /\ \A d \in Call : d # c => call'[d] = call[d]
  BY <1>1, <1>2, <1>3, <1>4
<1>7. SocialTypeOK'
  BY <1>1, <1>6 DEF SocialInv, SocialTypeOK, CallState
<1>8. ChecksStand(c)' /\ OwnListIsOwed(c)'
  BY <1>2, <1>5 DEF ChecksStand, OwnListIsOwed
<1>9. \A d \in Call : ChecksStand(d)' /\ OwnListIsOwed(d)'
  BY <1>1, <1>6, <1>8, OthersStand
<1>10. EdgesAreApart'
  BY <1>1, <1>6, EdgesStayApart DEF Severing
<1>11. ListsAreOwed'
  BY <1>1, <1>6, ListsStayOwed DEF CallBumps
<1> QED
  BY <1>7, <1>9, <1>10, <1>11 DEF SocialInv

\* deleteMyFollows: every list it changed is owed, but for those of the people
\* followed too late, which are unseen.
LEMMA DeleteAllStep ==
    ASSUME SocialInv, NEW c \in Call, DeleteMyFollows(c)
    PROVE  SocialInv'
<1> DEFINE u == call[c].pair[1]
           mine == {p \in follow : p[1] = u}
           changed == UNION {FollowLists(p) : p \in mine}
           late == {p \in mine : <<"follow", p[2]>> \notin call[c].owes}
           unbumped == {<<"follow", p[2]>> : p \in late}
<1>1. /\ call[c].pc = "delete all" /\ call[c] \in CallState /\ follow \subseteq Pair
      /\ <<"follow", u>> \in call[c].owes
  BY DEF DeleteMyFollows, At, SocialInv, SocialTypeOK, CallState, OwnListIsOwed
<1>2. /\ follow' = follow \ mine /\ slipped' = slipped \ mine
      /\ lag' = lag \cup changed /\ unseen' = unseen \cup unbumped
      /\ UNCHANGED <<block, unread, lost>>
  BY DEF DeleteMyFollows
<1>3. /\ call' \in [Call -> CallState]
      /\ \/ mine = {} /\ call'[c].pc = "idle"
         \/ call'[c].pc = "bump" /\ call'[c].owes = call[c].owes
      /\ \A d \in Call : d # c => call'[d] = call[d]
  <2>1. SocialTypeOK /\ "bump" \in Steps /\ call[c].owes \in SUBSET Counter
    BY <1>1 DEF SocialInv, Steps, CallState
  <2>2. (mine = {} /\ Done(c)) \/ Go(c, "bump", call[c].owes)
    BY DEF DeleteMyFollows
  <2>3. CASE mine = {} /\ Done(c)
    BY <2>1, <2>3, DoneMoves
  <2>4. CASE Go(c, "bump", call[c].owes)
    BY <2>1, <2>4, GoMoves
  <2> QED
    BY <2>2, <2>3, <2>4
<1>4. changed \subseteq call[c].owes \cup unbumped
  <2> SUFFICES ASSUME NEW p \in mine, NEW k \in FollowLists(p)
               PROVE  k \in call[c].owes \cup unbumped
    OBVIOUS
  <2>1. k = <<"follow", u>> \/ k = <<"follow", p[2]>>
    BY DEF FollowLists, People
  <2> QED
    BY <1>1, <2>1
<1>5. changed \subseteq Counter /\ unbumped \subseteq Counter
  <2>1. \A p \in mine : FollowLists(p) \subseteq Counter /\ <<"follow", p[2]>> \in Counter
    BY <1>1, PairFacts DEF Counter
  <2> QED
    BY <2>1
<1>6. SocialTypeOK'
  BY <1>2, <1>3, <1>5 DEF SocialInv, SocialTypeOK, CallState
<1>7. ChecksStand(c)' /\ OwnListIsOwed(c)'
  BY <1>3 DEF ChecksStand, OwnListIsOwed
<1>8. \A d \in Call : ChecksStand(d)' /\ OwnListIsOwed(d)'
  BY <1>2, <1>3, <1>7, OthersStand
<1>9. EdgesAreApart'
  BY <1>1, <1>2, <1>3, EdgesStayApart DEF Severing
<1>10. ListsAreOwed'
  <2>1. \A k : ~ CallBumps(c, k)
    BY <1>1 DEF CallBumps
  <2>2. \A k \in changed \ unbumped : CallBumps(c, k)'
    <3>1. CASE mine = {}
      BY <3>1
    <3>2. CASE call'[c].pc = "bump" /\ call'[c].owes = call[c].owes
      BY <1>4, <3>2 DEF CallBumps
    <3> QED
      BY <1>3, <3>1, <3>2
  <2>3. \A k \in lag' \ unseen' : k \in lag \ unseen \/ k \in changed \ unbumped
    BY <1>2
  <2>4. \A k \in lag' \ unseen' : CallBumps(c, k)' \/ (k \in lag \ unseen /\ ~ CallBumps(c, k))
    BY <2>1, <2>2, <2>3
  <2> QED
    BY <1>3, <2>4, ListsStayOwed
<1> QED
  BY <1>6, <1>8, <1>9, <1>10 DEF SocialInv

-----------------------------------------------------------------------------
\* createBlock: whatever stands between the two is about to be severed, and every
\* check that saw no block is overtaken.
LEMMA CreateBlockStep ==
    ASSUME SocialInv, NEW c \in Call, CreateBlock(c)
    PROVE  SocialInv'
<1> DEFINE p == call[c].pair
           meets(d) == /\ call[d].pc \in {"find", "insert", "write"}
                       /\ People(call[d].pair) = People(p)
<1>1. /\ p \in Pair /\ call[c].pc = "block" /\ call \in [Call -> CallState]
      /\ block' = block \cup {p} /\ lag' \subseteq lag \cup {BlockList(p[1])}
      /\ UNCHANGED <<follow, unread, slipped, unseen, lost>>
  BY DEF CreateBlock, At, SocialInv, SocialTypeOK, CallState
<1>2. call'[c] = [call[c] EXCEPT !.pc = "sever"]
  BY DEF CreateBlock
<1>3. /\ call'[c] \in CallState /\ call'[c].pc = "sever" /\ call'[c].pair = p
  BY <1>1, <1>2 DEF CallState, Steps
<1>4. ASSUME NEW d \in Call, d # c
      PROVE  /\ call'[d] \in CallState /\ call'[d].pc = call[d].pc
             /\ call'[d].pair = call[d].pair /\ call'[d].owes = call[d].owes
             /\ call'[d].overtaken = (call[d].overtaken \/ meets(d))
  <2>1. call[d] \in CallState /\ (call[d].overtaken \/ meets(d)) \in BOOLEAN
    BY <1>1 DEF CallState
  <2>2. call'[d] = [call[d] EXCEPT !.overtaken = (call[d].overtaken \/ meets(d))]
    BY <1>4 DEF CreateBlock
  <2> QED
    BY <2>1, <2>2 DEF CallState
<1>5. call' \in [Call -> CallState]
  <2>1. call' = [d \in Call |-> call'[d]]
    BY DEF CreateBlock
  <2> QED
    BY <1>3, <1>4, <2>1
<1>6. SocialTypeOK'
  BY <1>1, <1>5, PairFacts DEF SocialInv, SocialTypeOK, CallState
<1>7. ASSUME NEW d \in Call PROVE ChecksStand(d)' /\ OwnListIsOwed(d)'
  <2>1. CASE d = c
    BY <1>3, <2>1 DEF ChecksStand, OwnListIsOwed
  <2>2. CASE d # c
    <3>1. OwnListIsOwed(d)'
      BY <1>4, <2>2 DEF SocialInv, OwnListIsOwed
    <3>2. ASSUME call[d].pc \in {"find", "insert", "write"}, Severed(call[d].pair)'
          PROVE  call'[d].overtaken
      <4>1. CASE {call[d].pair, Rev(call[d].pair)} \cap block # {}
        BY <1>4, <2>2, <3>2, <4>1 DEF SocialInv, ChecksStand, Severed
      <4>2. CASE call[d].pair = p \/ Rev(call[d].pair) = p
        <5>1. call[d].pair \in Pair
          BY <1>1 DEF CallState
        <5>2. meets(d)
          BY <3>2, <4>2, <5>1, PairFacts
        <5> QED
          BY <1>4, <2>2, <5>2
      <4> QED
        BY <1>1, <1>4, <2>2, <3>2, <4>1, <4>2 DEF Severed
    <3> QED
      BY <1>4, <2>2, <3>1, <3>2 DEF SocialInv, ChecksStand
  <2> QED
    BY <2>1, <2>2
<1>8. EdgesAreApart'
  <2> SUFFICES ASSUME NEW q \in follow, {q, Rev(q)} \cap (block \cup {p}) # {}
               PROVE  q \in slipped \/ \E d \in Call : Severing(d, q)'
    BY <1>1 DEF EdgesAreApart, Severed
  <2>1. CASE {q, Rev(q)} \cap block # {}
    <3>1. q \in slipped \/ \E d \in Call : Severing(d, q)
      BY <2>1 DEF SocialInv, EdgesAreApart, Severed
    <3>2. \A d \in Call : Severing(d, q) => d # c
      BY <1>1 DEF Severing
    <3>3. \A d \in Call : d # c /\ Severing(d, q) => Severing(d, q)'
      BY <1>4 DEF Severing
    <3> QED
      BY <3>1, <3>2, <3>3
  <2>2. CASE q = p \/ Rev(q) = p
    <3>1. q \in Pair
      BY DEF SocialInv, SocialTypeOK
    <3>2. q = p \/ q = Rev(p)
      BY <2>2, <3>1, PairFacts
    <3> QED
      BY <1>3, <3>2 DEF Severing
  <2> QED
    BY <2>1, <2>2
<1>9. ListsAreOwed'
  <2> SUFFICES ASSUME NEW k \in lag' \ unseen PROVE \E d \in Call : CallBumps(d, k)'
    BY <1>1 DEF ListsAreOwed
  <2>1. CASE k = BlockList(p[1])
    BY <1>3, <2>1 DEF CallBumps
  <2>2. CASE k \in lag
    <3>1. PICK d \in Call : CallBumps(d, k)
      BY <2>2 DEF SocialInv, ListsAreOwed
    <3>2. d # c
      BY <1>1, <3>1 DEF CallBumps
    <3> QED
      BY <1>4, <3>1, <3>2 DEF CallBumps
  <2> QED
    BY <1>1, <2>1, <2>2
<1> QED
  BY <1>6, <1>7, <1>8, <1>9 DEF SocialInv

\* The first deletion of severFollowEdges leaves the edge back, which is next.
LEMMA SeverStep ==
    ASSUME SocialInv, NEW c \in Call, Sever(c)
    PROVE  SocialInv'
<1> DEFINE p == call[c].pair
<1>1. /\ call[c].pc = "sever" /\ p \in Pair /\ follow' = follow \ {p}
      /\ slipped' = slipped \ {p} /\ UNCHANGED <<block, unread, unseen, lost>>
  BY DEF Sever, DeleteFollow, At, SocialInv, SocialTypeOK, CallState
<1>2. /\ call' \in [Call -> CallState] /\ call'[c].pair = p
      /\ \/ /\ call'[c].pc = "sever bump" /\ call'[c].owes = FollowLists(p)
            /\ lag' = lag \cup FollowLists(p)
         \/ call'[c].pc = "sever back" /\ lag' = lag
      /\ \A d \in Call : d # c => call'[d] = call[d]
  <2>1. /\ SocialTypeOK /\ "sever bump" \in Steps /\ "sever back" \in Steps
        /\ FollowLists(p) \in SUBSET Counter /\ {} \in SUBSET Counter
    BY <1>1, PairFacts DEF SocialInv, Steps
  <2>2. CASE p \in follow
    <3>1. Go(c, "sever bump", FollowLists(p)) /\ lag' = lag \cup FollowLists(p)
      BY <2>2 DEF Sever, DeleteFollow
    <3> QED
      BY <2>1, <3>1, GoMoves
  <2>3. CASE p \notin follow
    <3>1. Go(c, "sever back", {}) /\ lag' = lag
      BY <2>3 DEF Sever, DeleteFollow
    <3> QED
      BY <2>1, <3>1, GoMoves
  <2> QED
    BY <2>2, <2>3
<1>3. SocialTypeOK'
  BY <1>1, <1>2, PairFacts DEF SocialInv, SocialTypeOK, CallState
<1>4. ChecksStand(c)' /\ OwnListIsOwed(c)'
  BY <1>2 DEF ChecksStand, OwnListIsOwed
<1>5. \A d \in Call : ChecksStand(d)' /\ OwnListIsOwed(d)'
  BY <1>1, <1>2, <1>4, OthersStand
<1>6. EdgesAreApart'
  <2>1. \A q \in follow' : Severing(c, q) => Severing(c, q)'
    BY <1>1, <1>2 DEF Severing
  <2> QED
    BY <1>1, <1>2, <2>1, EdgesStayApart
<1>7. ListsAreOwed'
  <2>1. \A k : CallBumps(c, k) => CallBumps(c, k)'
    BY <1>1, <1>2 DEF CallBumps
  <2>2. \A k \in lag' \ unseen' : k \in lag \ unseen \/ CallBumps(c, k)'
    BY <1>1, <1>2 DEF CallBumps
  <2>3. \A k \in lag' \ unseen' : CallBumps(c, k)' \/ (k \in lag \ unseen /\ ~ CallBumps(c, k))
    BY <2>1, <2>2
  <2> QED
    BY <1>2, <2>3, ListsStayOwed
<1> QED
  BY <1>3, <1>5, <1>6, <1>7 DEF SocialInv

LEMMA SeverBackStep ==
    ASSUME SocialInv, NEW c \in Call, SeverBack(c)
    PROVE  SocialInv'
<1> DEFINE p == call[c].pair
           owes == {BlockList(p[1])} \cup IF Rev(p) \in follow THEN FollowLists(p) ELSE {}
<1>1. /\ call[c].pc = "sever back" /\ p \in Pair /\ follow' = follow \ {Rev(p)}
      /\ slipped' = slipped \ {Rev(p)} /\ UNCHANGED <<block, unread, unseen, lost>>
      /\ lag' = IF Rev(p) \in follow THEN lag \cup FollowLists(Rev(p)) ELSE lag
  BY DEF SeverBack, DeleteFollow, At, SocialInv, SocialTypeOK, CallState
<1>2. FollowLists(Rev(p)) = FollowLists(p)
  BY <1>1, PairFacts DEF FollowLists
<1>3. /\ call' \in [Call -> CallState] /\ call'[c].pc = "bump" /\ call'[c].owes = owes
      /\ \A d \in Call : d # c => call'[d] = call[d]
  <2>1. SocialTypeOK /\ "bump" \in Steps /\ owes \in SUBSET Counter
    BY <1>1, PairFacts DEF SocialInv, Steps
  <2>2. Go(c, "bump", owes)
    BY DEF SeverBack
  <2> QED
    BY <2>1, <2>2, GoMoves
<1>4. SocialTypeOK'
  BY <1>1, <1>2, <1>3, PairFacts DEF SocialInv, SocialTypeOK, CallState
<1>5. ChecksStand(c)' /\ OwnListIsOwed(c)'
  BY <1>3 DEF ChecksStand, OwnListIsOwed
<1>6. \A d \in Call : ChecksStand(d)' /\ OwnListIsOwed(d)'
  BY <1>1, <1>3, <1>5, OthersStand
<1>7. EdgesAreApart'
  <2>1. \A q \in follow' : ~ Severing(c, q)
    BY <1>1 DEF Severing
  <2> QED
    BY <1>1, <1>3, <2>1, EdgesStayApart
<1>8. ListsAreOwed'
  <2>1. \A k : CallBumps(c, k) => k = BlockList(p[1])
    BY <1>1 DEF CallBumps
  <2>2. \A k \in owes : CallBumps(c, k)'
    BY <1>3 DEF CallBumps
  <2>3. \A k \in lag' : k \in lag \/ k \in owes
    BY <1>1, <1>2
  <2>4. \A k \in lag' \ unseen' : CallBumps(c, k)' \/ (k \in lag \ unseen /\ ~ CallBumps(c, k))
    BY <1>1, <2>1, <2>2, <2>3
  <2> QED
    BY <1>3, <2>4, ListsStayOwed
<1> QED
  BY <1>4, <1>6, <1>7, <1>8 DEF SocialInv

LEMMA UnblockStep ==
    ASSUME SocialInv, NEW c \in Call, NEW u \in User, NEW gone \in SUBSET block, Unblock(c, u, gone)
    PROVE  SocialInv'
<1>1. /\ call[c].pc = "idle" /\ block' \subseteq block /\ lag' = lag \cup {BlockList(u)}
      /\ UNCHANGED <<follow, unread, slipped, unseen, lost>>
      /\ BlockList(u) \in Counter
  BY DEF Unblock, At, BlockList, Counter
<1>2. /\ call' \in [Call -> CallState] /\ call'[c].pc = "bump" /\ call'[c].owes = {BlockList(u)}
      /\ \A d \in Call : d # c => call'[d] = call[d]
  <2>1. SocialTypeOK /\ "bump" \in Steps /\ {BlockList(u)} \in SUBSET Counter
    BY <1>1 DEF SocialInv, Steps
  <2>2. Go(c, "bump", {BlockList(u)})
    BY DEF Unblock
  <2> QED
    BY <2>1, <2>2, GoMoves
<1>3. SocialTypeOK'
  BY <1>1, <1>2 DEF SocialInv, SocialTypeOK, CallState
<1>4. ChecksStand(c)' /\ OwnListIsOwed(c)'
  BY <1>2 DEF ChecksStand, OwnListIsOwed
<1>5. \A d \in Call : ChecksStand(d)' /\ OwnListIsOwed(d)'
  BY <1>1, <1>2, <1>4, OthersStand
<1>6. EdgesAreApart'
  BY <1>1, <1>2, EdgesStayApart DEF Severing
<1>7. ListsAreOwed'
  <2>1. \A k : ~ CallBumps(c, k)
    BY <1>1 DEF CallBumps
  <2>2. CallBumps(c, BlockList(u))'
    BY <1>2 DEF CallBumps
  <2> QED
    BY <1>1, <1>2, <2>1, <2>2, ListsStayOwed
<1> QED
  BY <1>3, <1>5, <1>6, <1>7 DEF SocialInv

-----------------------------------------------------------------------------
LEMMA CreateMessageStep ==
    ASSUME SocialInv, NEW c \in Call, CreateMessage(c)
    PROVE  SocialInv'
<1> DEFINE from == call[c].pair[1]
           to == call[c].pair[2]
<1>1. /\ call[c].pc = "write" /\ from \in User /\ to \in User
      /\ unread \in [User -> [User -> 0..MaxMessages]]
      /\ UNCHANGED <<follow, block, lag, slipped, unseen, lost>> /\ Done(c)
      /\ unread[to][from] < MaxMessages
  BY PairFacts DEF CreateMessage, At, SocialInv, SocialTypeOK, CallState
<1>2. unread' \in [User -> [User -> 0..MaxMessages]]
  <2>1. unread[to] \in [User -> 0..MaxMessages] /\ unread[to][from] \in 0..MaxMessages
    BY <1>1
  <2>2. unread[to][from] + 1 \in 0..MaxMessages /\ 0 \in 0..MaxMessages
    BY <1>1, <2>1, SocialAssumption
  <2>3. [unread EXCEPT ![to][from] = unread[to][from] + 1]
          \in [User -> [User -> 0..MaxMessages]]
    BY <1>1, <2>1, <2>2
  <2>4. unread' = [[unread EXCEPT ![to][from] = unread[to][from] + 1] EXCEPT ![from][to] = 0]
    BY DEF CreateMessage
  <2> QED
    BY <1>1, <2>2, <2>3, <2>4
<1>3. /\ call' \in [Call -> CallState] /\ call'[c].pc = "idle"
      /\ \A d \in Call : d # c => call'[d] = call[d]
  BY <1>1, DoneMoves DEF SocialInv
<1>4. SocialTypeOK'
  BY <1>1, <1>2, <1>3 DEF SocialInv, SocialTypeOK, CallState
<1>5. ChecksStand(c)' /\ OwnListIsOwed(c)'
  BY <1>3 DEF ChecksStand, OwnListIsOwed
<1>6. \A d \in Call : ChecksStand(d)' /\ OwnListIsOwed(d)'
  BY <1>1, <1>3, <1>5, OthersStand
<1>7. EdgesAreApart'
  BY <1>1, <1>3, EdgesStayApart DEF Severing
<1>8. ListsAreOwed'
  BY <1>1, <1>3, ListsStayOwed DEF CallBumps
<1> QED
  BY <1>4, <1>6, <1>7, <1>8 DEF SocialInv

LEMMA ReadStep ==
    ASSUME SocialInv, NEW u \in User, NEW v \in User, ReadConversation(u, v)
    PROVE  SocialInv'
<1>1. /\ UNCHANGED <<follow, block, call, lag, slipped, unseen, lost>>
      /\ unread' = [unread EXCEPT ![u][v] = 0]
      /\ unread \in [User -> [User -> 0..MaxMessages]]
  BY DEF ReadConversation, SocialInv, SocialTypeOK
<1>2. unread' \in [User -> [User -> 0..MaxMessages]]
  BY <1>1, SocialAssumption
<1>3. SocialTypeOK'
  BY <1>1, <1>2 DEF SocialInv, SocialTypeOK
<1> QED
  BY <1>1, <1>3 DEF SocialInv, ChecksStand, OwnListIsOwed, EdgesAreApart, ListsAreOwed, Severed,
     Severing, CallBumps

\* A handler that dies: the edges and the lists it leaves behind are the ones the
\* histories name.
LEMMA DieStep ==
    ASSUME SocialInv, NEW c \in Call, Die(c)
    PROVE  SocialInv'
<1> DEFINE p == call[c].pair
           severs == call[c].pc \in {"sever", "sever bump", "sever back"}
<1>1. /\ call[c] \in CallState /\ p \in Pair /\ Done(c)
      /\ unseen' = unseen \cup call[c].owes \cup IF severs THEN {BlockList(p[1])} ELSE {}
      /\ slipped' = slipped \cup IF severs THEN {p, Rev(p)} \cap follow ELSE {}
      /\ lost' = lost + 1 /\ lost < MaxLost /\ UNCHANGED <<follow, block, unread, lag>>
  BY DEF Die, SocialInv, SocialTypeOK, CallState
<1>2. /\ call' \in [Call -> CallState] /\ call'[c].pc = "idle"
      /\ \A d \in Call : d # c => call'[d] = call[d]
  BY <1>1, DoneMoves DEF SocialInv
<1>3. SocialTypeOK'
  <2>1. unseen' \subseteq Counter
    BY <1>1, PairFacts DEF SocialInv, SocialTypeOK, CallState
  <2>2. slipped' \subseteq follow
    BY <1>1 DEF SocialInv, SocialTypeOK
  <2>3. lost' \in 0..MaxLost
    <3>1. lost \in 0..MaxLost
      BY DEF SocialInv, SocialTypeOK
    <3>2. lost' = lost + 1 /\ lost < MaxLost
      BY DEF Die
    <3>3. MaxLost \in Nat
      BY SocialAssumption
    <3> QED
      BY <3>1, <3>2, <3>3
  <2> QED
    BY <1>1, <1>2, <2>1, <2>2, <2>3 DEF SocialInv, SocialTypeOK, CallState
<1>4. ChecksStand(c)' /\ OwnListIsOwed(c)'
  BY <1>2 DEF ChecksStand, OwnListIsOwed
<1>5. \A d \in Call : ChecksStand(d)' /\ OwnListIsOwed(d)'
  BY <1>1, <1>2, <1>4, OthersStand
<1>6. EdgesAreApart'
  <2>1. \A q \in follow' : Severing(c, q) => q \in slipped'
    BY <1>1 DEF Severing
  <2> QED
    BY <1>1, <1>2, <2>1, EdgesStayApart
<1>7. ListsAreOwed'
  <2>1. \A k : CallBumps(c, k) => k \in unseen'
    BY <1>1 DEF CallBumps
  <2>2. \A k \in lag' \ unseen' : k \in lag \ unseen /\ ~ CallBumps(c, k)
    BY <1>1, <2>1
  <2> QED
    BY <1>2, <2>2, ListsStayOwed
<1> QED
  BY <1>3, <1>5, <1>6, <1>7 DEF SocialInv

-----------------------------------------------------------------------------
LEMMA SocialInductive == SocialInv /\ [SocialNext]_socialVars => SocialInv'
<1> SUFFICES ASSUME SocialInv, [SocialNext]_socialVars PROVE SocialInv'
  OBVIOUS
<1>1. CASE UNCHANGED socialVars
  BY <1>1 DEF socialVars, SocialInv, SocialTypeOK, ChecksStand, OwnListIsOwed, EdgesAreApart,
     ListsAreOwed, Severed, Severing, CallBumps
<1>2. ASSUME NEW c \in Call, NEW p \in Pair,
             BeginFollow(c, p) \/ Unfollow(c, p) \/ BeginBlock(c, p) \/ BeginMessage(c, p)
      PROVE  SocialInv'
  BY <1>2, BeginCheckStep, UnfollowStep, BeginBlockStep
<1>3. ASSUME NEW c \in Call, NEW u \in User,
             \/ BeginDeleteMyFollows(c, u)
             \/ \E gone \in SUBSET block : Unblock(c, u, gone)
      PROVE  SocialInv'
  BY <1>3, BeginDeleteStep, UnblockStep
<1>4. ASSUME NEW c \in Call,
             \/ FindFollow(c) \/ CreateFollow(c) \/ BumpPeople(c)
             \/ DeleteMyFollows(c) \/ CreateBlock(c)
      PROVE  SocialInv'
  BY <1>4, FindFollowStep, CreateFollowStep, BumpPeopleStep, DeleteAllStep, CreateBlockStep
<1>5. ASSUME NEW c \in Call, Sever(c) \/ SeverBack(c) \/ CreateMessage(c) \/ Die(c)
      PROVE  SocialInv'
  BY <1>5, SeverStep, SeverBackStep, CreateMessageStep, DieStep
<1>6. ASSUME NEW u \in User, NEW v \in User, ReadConversation(u, v)
      PROVE  SocialInv'
  BY <1>6, ReadStep
<1> QED
  BY <1>1, <1>2, <1>3, <1>4, <1>5, <1>6 DEF SocialNext

LEMMA SocialInvariance == SocialSpec => []SocialInv
<1>1. SocialInit => SocialInv
  BY SocialStart
<1>2. SocialInv /\ [SocialNext]_socialVars => SocialInv'
  BY SocialInductive
<1> QED
  BY <1>1, <1>2, PTL DEF SocialSpec

\* Whatever the people, the tables, the counts and the handlers keep their types.
THEOREM SocialTypeCorrect == SocialSpec => []SocialTypeOK
<1>1. SocialInv => SocialTypeOK
  BY DEF SocialInv
<1> QED
  BY <1>1, SocialInvariance, PTL

\* A follow edge across a block was inserted by a follow that the block overtook,
\* or left by a block that died half-way, or is about to be severed: whatever the
\* order of the follows, blocks and unblocks, and however many of them (followUser,
\* blockUser, severFollowEdges).
THEOREM BlocksPartPeople == SocialSpec => []BlockedAreApart
<1>1. SocialInv => BlockedAreApart
  <2>1. SocialInv => \A c \in Call, p \in follow :
          Severing(c, p) => /\ People(call[c].pair) = People(p)
                            /\ \/ call[c].pc \in {"sever", "sever bump"}
                               \/ At(c, "sever back") /\ p = Rev(call[c].pair)
    <3> SUFFICES ASSUME SocialInv, NEW c \in Call, NEW p \in follow, Severing(c, p)
                 PROVE  /\ People(call[c].pair) = People(p)
                        /\ \/ call[c].pc \in {"sever", "sever bump"}
                           \/ At(c, "sever back") /\ p = Rev(call[c].pair)
      OBVIOUS
    <3>1. call[c].pair \in Pair /\ p \in {call[c].pair, Rev(call[c].pair)}
      BY DEF SocialInv, SocialTypeOK, Severing
    <3>2. People(call[c].pair) = People(p)
      BY <3>1, PairFacts
    <3> QED
      BY <3>2 DEF Severing, At
  <2> QED
    BY <2>1 DEF SocialInv, EdgesAreApart, BlockedAreApart
<1> QED
  BY <1>1, SocialInvariance, PTL

\* A message that goes through a block was checked before there was one
\* (sendMessage).
THEOREM NoMessageThroughABlock == SocialSpec => MessagesRespectBlocks
<1> DEFINE Respected ==
      \A u, v \in User : unread'[u][v] > unread[u][v] /\ Severed(<<u, v>>) =>
         \E c \in Call : At(c, "write") /\ call[c].overtaken
<1>1. SocialInv /\ [SocialNext]_socialVars => [Respected]_socialVars
  <2> SUFFICES ASSUME SocialInv, SocialNext, NEW u \in User, NEW v \in User,
                      unread'[u][v] > unread[u][v], Severed(<<u, v>>)
               PROVE  \E c \in Call : At(c, "write") /\ call[c].overtaken
    OBVIOUS
  <2>1. unread[u][v] \in Int /\ unread \in [User -> [User -> 0..MaxMessages]]
    BY DEF SocialInv, SocialTypeOK
  <2>2. unread' # unread
    BY <2>1
  <2>3. CASE \E a, b \in User : ReadConversation(a, b)
    BY <2>1, <2>3 DEF ReadConversation
  <2>4. CASE \E c \in Call : CreateMessage(c)
    <3>1. PICK c \in Call : CreateMessage(c)
      BY <2>4
    <3> DEFINE from == call[c].pair[1]
               to == call[c].pair[2]
    <3>2. /\ call[c].pc = "write" /\ call[c].pair \in Pair /\ from # to
          /\ Severed(call[c].pair) => call[c].overtaken
      BY <3>1 DEF CreateMessage, At, SocialInv, ChecksStand, SocialTypeOK, CallState
    <3>3. unread' = [unread EXCEPT ![to][from] = unread[to][from] + 1, ![from][to] = 0]
      BY <3>1 DEF CreateMessage
    <3>4. u = to /\ v = from
      BY <2>1, <3>2, <3>3, PairFacts
    <3>5. call[c].pair = <<v, u>>
      BY <3>2, <3>4 DEF Pair
    <3>6. Severed(call[c].pair)
      BY <3>5 DEF Severed, Rev
    <3> QED
      BY <3>2, <3>6 DEF At
  <2> QED
    BY <2>2, <2>3, <2>4 DEF SocialNext, BeginFollow, Unfollow, BeginBlock, BeginMessage,
       BeginDeleteMyFollows, Unblock, FindFollow, CreateFollow, BumpPeople, DeleteMyFollows,
       CreateBlock, Sever, SeverBack, Die
<1> QED
  BY <1>1, SocialInvariance, PTL DEF SocialSpec, MessagesRespectBlocks

\* A list that changed and is not bumped has a handler about to bump it, or its
\* bump was lost with a handler, or never planned for an edge made while its owner
\* was deleting all of them (invalidateFollow, invalidateBlock).
THEOREM ChangedListsAreBumped == SocialSpec => []ListsAreBumped
<1>1. SocialInv => ListsAreBumped
  BY DEF SocialInv, ListsAreOwed, CallBumps, ListsAreBumped
<1> QED
  BY <1>1, SocialInvariance, PTL

(***************************************************************************)
(* CommunityPosts, for any people, posts and handlers in flight: a page    *)
(* that shows a post, a mark or a name is bumped once that has changed.    *)
(***************************************************************************)

HandlerSteps == {"idle", "insert", "remove mine", "fan out", "collect", "bump"}
HandlerState ==
    [pc : HandlerSteps, who : Person \cup {Nobody},
     mark : Kinds \X (Person \cup {Nobody}) \X (Person \cup Post \cup {Nobody}),
     owes : SUBSET Pages]

\* What a handler is at goes with what it is about.
HandlersKnow ==
    \A h \in Handler :
      /\ handler[h].pc = "insert" => handler[h].mark \in Marks
      /\ handler[h].pc \in {"collect", "remove mine"} => handler[h].who \in Person

\* A post that is up has an author.
PostsAreSigned == \A p \in Post : Up(p) => post[p].author \in Person

PostsInv ==
    /\ PostsTypeOK /\ handler \in [Handler -> HandlerState]
    /\ HandlersKnow /\ PostsAreSigned /\ PagesAreBumped

PostRow == [st : {"new", "up", "deleted"}, author : Person \cup {Nobody}, text : Nat]

\* A mark that a step leaves as it was.
Kept(x) == (x \in mark' <=> x \in mark) /\ (x \in edited' <=> x \in edited)

LEMMA MarkIsTriple ==
    ASSUME NEW m \in Marks
    PROVE  /\ m = <<m[1], m[2], m[3]>>
           /\ m[1] \in Kinds /\ m[2] \in Person /\ m[3] \in Person \cup Post
           /\ m[3] \in Post \/ (m[1] = "report" /\ m[3] \in Person)
BY DEF Marks, Kinds

LEMMA PagesOfTyped ==
    ASSUME NEW m \in Marks
    PROVE  PagesOf(m) \subseteq Pages
<1>1. /\ m[1] \in Kinds /\ m[2] \in Person
      /\ m[1] # "report" => m[3] \in Post
  BY MarkIsTriple
<1> QED
  BY <1>1 DEF PagesOf, Pages, PostPages, PersonPages, CommentPages, Kinds

LEMMA VersionKeysTyped ==
    ASSUME NEW u \in Person, mark \subseteq Marks
    PROVE  VersionKeys(u) \subseteq Pages
<1>1. \A m \in By(u, "comment") \cup By(u, "like") : m[3] \in Post
  BY MarkIsTriple DEF By
<1>2. \A m \in On(u, "report") : m[2] \in Person
  BY MarkIsTriple DEF On
<1> QED
  BY <1>1, <1>2 DEF VersionKeys, Pages, PostPages, PersonPages

LEMMA RowsSame ==
    ASSUME NEW u, NEW kind,
           \A x \in mark \cup mark' : x[1] = kind /\ x[2] = u =>
              Kept(x) /\ Shown(x[3])' = Shown(x[3])
    PROVE  Rows(u, kind)' = Rows(u, kind)
<1>1. By(u, kind)' = By(u, kind)
  BY DEF By, Kept
<1>2. ASSUME NEW x \in By(u, kind)
      PROVE  (x \in edited') = (x \in edited) /\ Shown(x[3])' = Shown(x[3])
  BY DEF By, Kept
<1>3. {<<m, m \in edited', Shown(m[3])'>> : m \in By(u, kind)}
      = {<<m, m \in edited, Shown(m[3])>> : m \in By(u, kind)}
  BY <1>2
<1>4. Rows(u, kind)' = {<<m, m \in edited', Shown(m[3])'>> : m \in By(u, kind)'}
  BY DEF Rows
<1> QED
  BY <1>1, <1>3, <1>4 DEF Rows

LEMMA RowsOnSame ==
    ASSUME NEW p, NEW kind, Up(p)' <=> Up(p),
           \A x \in mark \cup mark' : x[1] = kind /\ x[3] = p =>
              Kept(x) /\ name'[x[2]] = name[x[2]]
    PROVE  RowsOn(p, kind)' = RowsOn(p, kind)
<1>1. On(p, kind)' = On(p, kind)
  BY DEF On, Kept
<1>2. ASSUME NEW x \in On(p, kind)
      PROVE  (x \in edited') = (x \in edited) /\ name'[x[2]] = name[x[2]]
  BY DEF On, Kept
<1>3. {<<m, m \in edited', name'[m[2]]>> : m \in On(p, kind)}
      = {<<m, m \in edited, name[m[2]]>> : m \in On(p, kind)}
  BY <1>2
<1>4. RowsOn(p, kind)' = {<<p, Up(p)'>>} \cup {<<m, m \in edited', name'[m[2]]>> : m \in On(p, kind)'}
  BY DEF RowsOn
<1>5. (Up(p)') = Up(p)
  BY DEF Up
<1> QED
  BY <1>1, <1>3, <1>4, <1>5 DEF RowsOn

LEMMA CommentSame ==
    ASSUME NEW u, NEW p, Kept(<<"comment", u, p>>), name'[u] = name[u]
    PROVE  Page(<<"comment", u, p>>)' = Page(<<"comment", u, p>>)
<1> DEFINE c == <<"comment", u, p>>
<1>1. Page(c) = {<<m, m \in edited, name[m[2]]>> : m \in mark \cap {c}}
  BY DEF Page
<1>2. Page(c)' = {<<m, m \in edited', name'[m[2]]>> : m \in mark' \cap {c}}
  BY DEF Page
<1>3. mark' \cap {c} = mark \cap {c} /\ (c \in edited') = (c \in edited) /\ name'[c[2]] = name[c[2]]
  BY DEF Kept
<1>4. {<<m, m \in edited', name'[m[2]]>> : m \in mark' \cap {c}}
      = {<<m, m \in edited, name[m[2]]>> : m \in mark \cap {c}}
  BY <1>3
<1> QED
  BY <1>1, <1>2, <1>4

\* The list of one person's marks of a kind.
ListOf(kind) ==
    CASE kind = "like" -> "likes" [] kind = "comment" -> "comments"
      [] kind = "save" -> "saved" [] kind = "report" -> "reports"

LEMMA ListPage ==
    ASSUME NEW kind \in Kinds, NEW u
    PROVE  /\ Page(<<ListOf(kind), u>>) = Rows(u, kind)
           /\ Page(<<ListOf(kind), u>>)' = Rows(u, kind)'
           /\ Served(<<ListOf(kind), u>>)
           /\ \A t : <<ListOf(kind), u>> \in PagesOf(<<kind, u, t>>)
<1>1. \A t : <<ListOf(kind), u>> \in PagesOf(<<kind, u, t>>)
  BY DEF PagesOf, ListOf, Kinds
<1>2. Page(<<ListOf(kind), u>>) = Rows(u, kind)
  BY DEF Page, ListOf, Kinds
<1>3. Page(<<ListOf(kind), u>>)' = Rows(u, kind)'
  BY DEF Page, ListOf, Kinds
<1>4. Served(<<ListOf(kind), u>>)
  BY DEF Served, ListOf, Kinds
<1> QED
  BY <1>1, <1>2, <1>3, <1>4

LEMMA PageIs ==
    ASSUME NEW k \in Pages
    PROVE  \/ \E p \in Post : k = <<"post", p>> \/ k = <<"thread", p>> \/ k = <<"likers", p>>
           \/ \E u \in Person : \/ k = <<"posts", u>> \/ k = <<"profile", u>>
                                \/ \E kind \in Kinds : k = <<ListOf(kind), u>>
           \/ \E u \in Person, p \in Post : k = <<"comment", u, p>>
<1>1. CASE k \in PostPages
  BY <1>1 DEF PostPages
<1>2. CASE k \in PersonPages
  <2>1. PICK d \in {"posts", "comments", "likes", "saved", "reports", "profile"}, u \in Person :
          k = <<d, u>>
    BY <1>2 DEF PersonPages
  <2>2. d \in {"posts", "profile"} \/ \E kind \in Kinds : d = ListOf(kind)
    <3>1. ListOf("like") = "likes" /\ ListOf("comment") = "comments" /\ ListOf("save") = "saved"
          /\ ListOf("report") = "reports"
      BY DEF ListOf
    <3> QED
      BY <3>1 DEF Kinds
  <2> QED
    BY <2>1, <2>2
<1>3. CASE k \in CommentPages
  BY <1>3 DEF CommentPages
<1> QED
  BY <1>1, <1>2, <1>3 DEF Pages

\* A write of one mark changes the pages of that mark alone (invalidateLike and the
\* others bump no more).
LEMMA OneMarkChanges ==
    ASSUME mark \subseteq Marks, mark' \subseteq Marks, NEW m \in Marks,
           \A x \in Marks : x # m => Kept(x), UNCHANGED <<post, name>>
    PROVE  Changed \subseteq PagesOf(m)
<1> SUFFICES ASSUME NEW k \in Pages, Page(k)' # Page(k), k \notin PagesOf(m)
             PROVE  FALSE
  BY DEF Changed
<1>1. m = <<m[1], m[2], m[3]>>
  BY MarkIsTriple
<1>2. \A x \in mark \cup mark' : x # m => Kept(x)
  OBVIOUS
<1>3. \A t : Shown(t)' = Shown(t) /\ Up(t)' = Up(t)
  BY DEF Shown, Up
<1>4. ASSUME NEW p \in Post, k = <<"post", p>> PROVE FALSE
  BY <1>4 DEF Page
<1>5. ASSUME NEW p \in Post, k = <<"thread", p>> PROVE FALSE
  <2>1. ~ (m[1] = "comment" /\ m[3] = p)
    BY <1>1, <1>5 DEF PagesOf
  <2>2. RowsOn(p, "comment")' = RowsOn(p, "comment")
    BY <1>2, <1>3, <2>1, RowsOnSame
  <2>3. Page(k) = RowsOn(p, "comment")
    BY <1>5 DEF Page
  <2>4. Page(k)' = RowsOn(p, "comment")'
    BY <1>5 DEF Page
  <2> QED
    BY <2>2, <2>3, <2>4
<1>6. ASSUME NEW p \in Post, k = <<"likers", p>> PROVE FALSE
  <2>1. ~ (m[1] = "like" /\ m[3] = p)
    BY <1>1, <1>6 DEF PagesOf
  <2>2. RowsOn(p, "like")' = RowsOn(p, "like")
    BY <1>2, <1>3, <2>1, RowsOnSame
  <2>3. Page(k) = RowsOn(p, "like")
    BY <1>6 DEF Page
  <2>4. Page(k)' = RowsOn(p, "like")'
    BY <1>6 DEF Page
  <2> QED
    BY <2>2, <2>3, <2>4
<1>7. ASSUME NEW u \in Person, k = <<"posts", u>> PROVE FALSE
  BY <1>7 DEF Page, Up
<1>8. ASSUME NEW u \in Person, k = <<"profile", u>> PROVE FALSE
  BY <1>8 DEF Page
<1>9. ASSUME NEW u \in Person, NEW kind \in Kinds, k = <<ListOf(kind), u>> PROVE FALSE
  <2>1. ~ (m[1] = kind /\ m[2] = u)
    BY <1>1, <1>9, ListPage
  <2>2. Rows(u, kind)' = Rows(u, kind)
    BY <1>2, <1>3, <2>1, RowsSame
  <2> QED
    BY <1>9, <2>2, ListPage
<1>10. ASSUME NEW u \in Person, NEW p \in Post, k = <<"comment", u, p>> PROVE FALSE
  <2>1. k # m
    <3>1. ASSUME k = m PROVE k \in PagesOf(m)
      <4>1. m[1] = "comment" /\ m[2] = u /\ m[3] = p
        BY <1>10, <3>1
      <4> QED
        BY <1>10, <4>1 DEF PagesOf
    <3> QED
      BY <3>1
  <2>2. <<"comment", u, p>> \in Marks
    BY DEF Marks, Kinds
  <2> QED
    BY <1>10, <2>1, <2>2, CommentSame
<1> QED
  BY <1>4, <1>5, <1>6, <1>7, <1>8, <1>9, <1>10, PageIs

\* A mark that a step takes away changes all its pages.
LEMMA GoneMarkChanges ==
    ASSUME mark \subseteq Marks, NEW m \in mark \ mark', m[3] \in Post => Up(m[3])
    PROVE  PagesOf(m) \subseteq Changed
<1> SUFFICES ASSUME NEW k \in PagesOf(m) PROVE k \in Changed
  OBVIOUS
<1>1. /\ m = <<m[1], m[2], m[3]>>
      /\ m[1] \in Kinds /\ m[2] \in Person
      /\ m[1] # "report" => m[3] \in Post
  BY MarkIsTriple
<1>2. k \in Pages
  BY PagesOfTyped
<1>3. CASE k = <<ListOf(m[1]), m[2]>>
  <2>1. PICK kind \in Kinds, u \in Person : kind = m[1] /\ u = m[2]
    BY <1>1
  <2>2. m \in By(u, kind) /\ m \notin By(u, kind)'
    BY <2>1 DEF By
  <2>3. <<m, m \in edited, Shown(m[3])>> \in Rows(u, kind)
    BY <2>2 DEF Rows
  <2>4. <<m, m \in edited, Shown(m[3])>> \notin Rows(u, kind)'
    BY <2>2 DEF Rows
  <2>5. k = <<ListOf(kind), u>>
    BY <1>3, <2>1
  <2>6. Page(k) = Rows(u, kind) /\ Page(k)' = Rows(u, kind)' /\ Served(k)
    BY <2>5, ListPage
  <2> QED
    BY <1>2, <2>3, <2>4, <2>6 DEF Changed
<1>4. ASSUME NEW d \in {"thread", "likers"}, k = <<d, m[3]>>,
             m[1] = IF d = "thread" THEN "comment" ELSE "like"
      PROVE  k \in Changed
  <2>1. m[3] \in Post /\ Up(m[3])
    BY <1>1, <1>4
  <2>2. m \in On(m[3], m[1]) /\ m \notin On(m[3], m[1])'
    BY DEF On
  <2>3. <<m, m \in edited, name[m[2]]>> \in RowsOn(m[3], m[1])
    BY <2>2 DEF RowsOn
  <2>4. <<m, m \in edited, name[m[2]]>> \notin RowsOn(m[3], m[1])'
    BY <2>2 DEF RowsOn
  <2>5. Page(k) = RowsOn(m[3], m[1])
    BY <1>4 DEF Page
  <2>6. Page(k)' = RowsOn(m[3], m[1])'
    BY <1>4 DEF Page
  <2>7. Served(k)
    BY <1>4, <2>1 DEF Served
  <2> QED
    BY <1>2, <2>3, <2>4, <2>5, <2>6, <2>7 DEF Changed
<1>5. CASE m[1] = "comment" /\ k = <<"comment", m[2], m[3]>>
  <2>1. k = m
    BY <1>1, <1>5
  <2>2. Page(k) = {<<x, x \in edited, name[x[2]]>> : x \in mark \cap {k}}
    BY <1>5 DEF Page
  <2>3. Page(k)' = {<<x, x \in edited', name'[x[2]]>> : x \in mark' \cap {k}}
    BY <1>5 DEF Page
  <2>4. Served(k)
    BY <1>5, <2>1 DEF Served
  <2>5. mark \cap {k} = {k} /\ mark' \cap {k} = {}
    BY <2>1
  <2>6. <<k, k \in edited, name[k[2]]>> \in Page(k)
    BY <2>2, <2>5
  <2>7. Page(k)' = {}
    BY <2>3, <2>5
  <2> QED
    BY <1>2, <2>4, <2>6, <2>7 DEF Changed
<1> QED
  BY <1>1, <1>3, <1>4, <1>5 DEF PagesOf, ListOf, Kinds

\* Handler g is on its way to bump page k.
Covers(g, k) ==
    \/ k \in handler[g].owes /\ handler[g].pc \in {"bump", "fan out"}
    \/ k \in MarkersOf(g) /\ AtStep(g, "fan out")
    \/ k \in VersionKeys(handler[g].who) /\ AtStep(g, "collect")

\* A handler that a step leaves alone still covers a page, unless the page is of a
\* mark the step takes away.
LEMMA StillCovers ==
    ASSUME NEW g \in Handler, handler'[g] = handler[g], NEW k, Covers(g, k),
           \A m \in mark \ mark' : k \notin PagesOf(m)
    PROVE  Covers(g, k)'
<1>1. CASE k \in handler[g].owes /\ handler[g].pc \in {"bump", "fan out"}
  BY <1>1 DEF Covers
<1>2. CASE k \in MarkersOf(g) /\ AtStep(g, "fan out")
  <2>1. PICK x \in mark : <<"post", x[3]>> \in handler[g].owes /\ k \in PagesOf(x) \cap PersonPages
    BY <1>2 DEF MarkersOf
  <2>2. x \in mark'
    BY <2>1
  <2>3. k \in MarkersOf(g)'
    BY <2>1, <2>2 DEF MarkersOf
  <2> QED
    BY <1>2, <2>3 DEF Covers, AtStep
<1>3. CASE k \in VersionKeys(handler[g].who) /\ AtStep(g, "collect")
  <2>1. PICK u : u = handler[g].who
    OBVIOUS
  <2>2. CASE k \in {"profile", "comments", "likes", "saved", "reports"} \X {u}
    <3>1. k \in VersionKeys(u)'
      BY <2>2 DEF VersionKeys
    <3> QED
      BY <1>3, <2>1, <3>1 DEF Covers, AtStep
  <2>3. CASE \E m \in By(u, "comment") : k = <<"thread", m[3]>>
    <3>1. PICK m \in mark : m[1] = "comment" /\ m[2] = u /\ k = <<"thread", m[3]>>
      BY <2>3 DEF By
    <3>2. k \in PagesOf(m)
      BY <3>1 DEF PagesOf
    <3>3. k \in VersionKeys(u)'
      BY <3>1, <3>2 DEF VersionKeys, By
    <3> QED
      BY <1>3, <2>1, <3>3 DEF Covers, AtStep
  <2>4. CASE \E m \in By(u, "like") : k = <<"likers", m[3]>>
    <3>1. PICK m \in mark : m[1] = "like" /\ m[2] = u /\ k = <<"likers", m[3]>>
      BY <2>4 DEF By
    <3>2. k \in PagesOf(m)
      BY <3>1 DEF PagesOf
    <3>3. k \in VersionKeys(u)'
      BY <3>1, <3>2 DEF VersionKeys, By
    <3> QED
      BY <1>3, <2>1, <3>3 DEF Covers, AtStep
  <2>5. CASE \E m \in On(u, "report") : k = <<"reports", m[2]>>
    <3>1. PICK m \in mark : m[1] = "report" /\ m[3] = u /\ k = <<"reports", m[2]>>
      BY <2>5 DEF On
    <3>2. k \in PagesOf(m)
      BY <3>1 DEF PagesOf
    <3>3. k \in VersionKeys(u)'
      BY <3>1, <3>2 DEF VersionKeys, On
    <3> QED
      BY <1>3, <2>1, <3>3 DEF Covers, AtStep
  <2> QED
    BY <1>3, <2>1, <2>2, <2>3, <2>4, <2>5 DEF VersionKeys
<1> QED
  BY <1>1, <1>2, <1>3 DEF Covers

LEMMA TurnsSets ==
    ASSUME handler \in [Handler -> HandlerState], NEW h \in Handler, NEW pc \in HandlerSteps,
           NEW owes \in SUBSET Pages, Turns(h, pc, owes)
    PROVE  /\ handler' \in [Handler -> HandlerState]
           /\ handler'[h].pc = pc /\ handler'[h].owes = owes
           /\ \A g \in Handler : g # h => handler'[g] = handler[g]
<1>1. PICK d \in HandlerState : d = [Free EXCEPT !.pc = pc, !.owes = owes]
  BY DEF HandlerState, Free, Kinds
<1>2. d.pc = pc /\ d.owes = owes
  BY <1>1 DEF Free
<1>3. handler' = [handler EXCEPT ![h] = d]
  BY <1>1 DEF Turns
<1> QED
  BY <1>2, <1>3

\* What another handler looks up stays, but for marks that are gone; their pages have
\* changed, so the one who took them away owes them or forgets them.
LEMMA WriteCovers ==
    ASSUME PostsInv, NEW h \in Handler, NEW pc \in {"bump", "fan out"}, NEW owes \in SUBSET Pages,
           handler[h].pc \in {"idle", "insert", "remove mine"}, Turns(h, pc, owes),
           forgotten \subseteq forgotten',
           \A k \in Changed \ forgotten' : k \in owes \/ (pc = "fan out" /\ k \in MarkersOf(h)'),
           \A m \in mark \ mark' : PagesOf(m) \subseteq owes \cup forgotten'
    PROVE  PagesAreBumped'
<1>1. handler \in [Handler -> HandlerState] /\ PagesAreBumped
  BY DEF PostsInv
<1>2. pc \in HandlerSteps
  BY DEF HandlerSteps
<1>3. /\ handler'[h].pc = pc /\ handler'[h].owes = owes
      /\ \A g \in Handler : g # h => handler'[g] = handler[g]
  BY <1>1, <1>2, TurnsSets
<1> SUFFICES ASSUME NEW k \in owed' \ forgotten' PROVE \E g \in Handler : Covers(g, k)'
  BY DEF PagesAreBumped, Covers
<1>4. CASE k \in Changed
  BY <1>3, <1>4 DEF Covers, AtStep
<1>5. CASE k \in owed \ forgotten
  <2>1. PICK g \in Handler : Covers(g, k)
    BY <1>1, <1>5 DEF PagesAreBumped, Covers
  <2>2. handler'[g] = handler[g]
    <3>1. handler[g].pc \notin {"idle", "insert", "remove mine"}
      BY <2>1 DEF Covers, AtStep
    <3> QED
      BY <1>3, <3>1
  <2>3. CASE \A m \in mark \ mark' : k \notin PagesOf(m)
    BY <2>1, <2>2, <2>3, StillCovers
  <2>4. CASE \E m \in mark \ mark' : k \in PagesOf(m)
    BY <1>3, <2>4 DEF Covers
  <2> QED
    BY <2>3, <2>4
<1> QED
  BY <1>4, <1>5 DEF Turns

\* What is left to show of a write: the tables keep their types.
Tables ==
    /\ post \in [Post -> PostRow]
    /\ mark \subseteq Marks /\ edited \subseteq mark
    /\ \A m \in mark : m[3] \in Post => Up(m[3])
    /\ name \in [Person -> Nat]

LEMMA TablesTyped == PostsTypeOK <=> Tables /\ owed \subseteq Pages /\ forgotten \subseteq Pages
BY DEF PostsTypeOK, Tables, PostRow

LEMMA OthersKnowTheirs ==
    ASSUME HandlersKnow, NEW h \in Handler, \A g \in Handler : g # h => handler'[g] = handler[g],
           handler'[h].pc = "insert" => handler'[h].mark \in Marks,
           handler'[h].pc \in {"collect", "remove mine"} => handler'[h].who \in Person
    PROVE  HandlersKnow'
BY DEF HandlersKnow

LEMMA PostsWriteKeeps ==
    ASSUME PostsInv, NEW h \in Handler, NEW pc \in {"bump", "fan out"}, NEW owes \in SUBSET Pages,
           handler[h].pc \in {"idle", "insert", "remove mine"}, Turns(h, pc, owes),
           forgotten \subseteq forgotten', forgotten' \subseteq forgotten \cup Changed,
           \A k \in Changed \ forgotten' : k \in owes \/ (pc = "fan out" /\ k \in MarkersOf(h)'),
           \A m \in mark \ mark' : PagesOf(m) \subseteq owes \cup forgotten',
           Tables', PostsAreSigned'
    PROVE  PostsInv'
<1>1. PostsTypeOK /\ handler \in [Handler -> HandlerState] /\ HandlersKnow
  BY DEF PostsInv
<1>2. pc \in HandlerSteps
  BY DEF HandlerSteps
<1>3. /\ handler' \in [Handler -> HandlerState]
      /\ handler'[h].pc = pc /\ handler'[h].owes = owes
      /\ \A g \in Handler : g # h => handler'[g] = handler[g]
  BY <1>1, <1>2, TurnsSets
<1>4. HandlersKnow'
  BY <1>1, <1>3, OthersKnowTheirs
<1>5. owed' = owed \cup Changed
  BY DEF Turns
<1>6. Changed \subseteq Pages /\ owed \subseteq Pages /\ forgotten \subseteq Pages
  BY <1>1, TablesTyped DEF Changed
<1>7. owed' \subseteq Pages /\ forgotten' \subseteq Pages
  BY <1>5, <1>6
<1>8. PostsTypeOK'
  BY <1>7 DEF PostsTypeOK, Tables, PostRow, Pages, PostPages, PersonPages, CommentPages
<1>9. PagesAreBumped'
  BY WriteCovers
<1> QED
  BY <1>3, <1>4, <1>8, <1>9 DEF PostsInv

\* A step of a handler that writes nothing and covered nothing.
LEMMA QuietKeeps ==
    ASSUME PostsInv, NEW h \in Handler, NEW d \in HandlerState,
           handler' = [handler EXCEPT ![h] = d],
           handler[h].pc \in {"idle", "insert", "remove mine"},
           d.pc = "insert" => d.mark \in Marks,
           d.pc \in {"collect", "remove mine"} => d.who \in Person,
           UNCHANGED <<post, mark, edited, name, owed, forgotten>>
    PROVE  PostsInv'
<1>1. PostsTypeOK /\ handler \in [Handler -> HandlerState] /\ HandlersKnow /\ PagesAreBumped
  BY DEF PostsInv
<1>2. /\ handler' \in [Handler -> HandlerState] /\ handler'[h] = d
      /\ \A g \in Handler : g # h => handler'[g] = handler[g]
  BY <1>1
<1>3. HandlersKnow'
  BY <1>1, <1>2, OthersKnowTheirs
<1>4. PostsTypeOK'
  BY <1>1 DEF PostsTypeOK, Up, Pages, PostPages, PersonPages, CommentPages
<1>5. PagesAreBumped'
  <2> SUFFICES ASSUME NEW k \in owed' \ forgotten' PROVE \E g \in Handler : Covers(g, k)'
    BY DEF PagesAreBumped, Covers
  <2>1. PICK g \in Handler : Covers(g, k)
    BY <1>1 DEF PagesAreBumped, Covers
  <2>2. g # h
    BY <2>1 DEF Covers, AtStep
  <2> QED
    BY <1>2, <2>1, <2>2, StillCovers
<1>6. PostsAreSigned'
  BY DEF PostsInv, PostsAreSigned, Up
<1> QED
  BY <1>2, <1>3, <1>4, <1>5, <1>6 DEF PostsInv

LEMMA FreeTyped == Free \in HandlerState /\ Free.pc = "idle" /\ Free.owes = {}
BY DEF Free, HandlerState, HandlerSteps, Kinds

LEMMA BeginMarkKeeps ==
    ASSUME PostsInv, NEW h \in Handler, NEW m \in Marks, BeginMark(h, m)
    PROVE  PostsInv'
<1>1. /\ m[1] \in Kinds /\ m[2] \in Person /\ m[3] \in Person \cup Post
      /\ m = <<m[1], m[2], m[3]>>
  BY MarkIsTriple
<1>2. PICK d : d = [pc |-> "insert", who |-> m[2], mark |-> m, owes |-> {}]
  OBVIOUS
<1>3. d \in HandlerState
  BY <1>1, <1>2 DEF HandlerState, HandlerSteps
<1>4. d.pc = "insert" /\ d.mark = m
  BY <1>2
<1> QED
  BY <1>2, <1>3, <1>4, QuietKeeps DEF BeginMark, Start, AtStep

\* A write that leaves every other mark alone owes the pages of that mark.
LEMMA OneMarkKeeps ==
    ASSUME PostsInv, NEW h \in Handler, NEW m \in Marks,
           handler[h].pc \in {"idle", "insert"},
           mark' \in {mark, mark \cup {m}, mark \ {m}}, edited' \subseteq mark',
           \A x \in Marks : x # m => (x \in edited' <=> x \in edited),
           m \in mark' /\ m[3] \in Post => Up(m[3]),
           UNCHANGED <<post, name>>, Turns(h, "bump", PagesOf(m)), UNCHANGED forgotten
    PROVE  PostsInv'
<1>1. Tables
  BY TablesTyped DEF PostsInv
<1>2. mark \subseteq Marks /\ mark' \subseteq Marks
  BY <1>1 DEF Tables
<1>3. \A x \in Marks : x # m => Kept(x)
  BY DEF Kept
<1>4. Changed \subseteq PagesOf(m)
  BY <1>2, <1>3, OneMarkChanges
<1>5. PagesOf(m) \in SUBSET Pages
  BY PagesOfTyped
<1>6. \A x \in mark \ mark' : PagesOf(x) \subseteq PagesOf(m) \cup forgotten'
  OBVIOUS
<1>7. \A x \in mark' : x[3] \in Post => Up(x[3])'
  BY <1>1 DEF Tables, Up
<1>8. Tables'
  BY <1>1, <1>2, <1>7 DEF Tables, PostRow
<1>9. PostsAreSigned'
  BY DEF PostsInv, PostsAreSigned, Up
<1> QED
  BY <1>4, <1>5, <1>6, <1>8, <1>9, PostsWriteKeeps

LEMMA InsertMarkKeeps ==
    ASSUME PostsInv, NEW h \in Handler, InsertMark(h)
    PROVE  PostsInv'
<1>1. PICK m \in Marks : m = handler[h].mark
  BY DEF PostsInv, HandlersKnow, InsertMark, AtStep
<1>2. handler[h].pc = "insert" /\ edited \subseteq mark /\ UNCHANGED forgotten
  BY DEF InsertMark, AtStep, PostsInv, PostsTypeOK
<1>3. CASE /\ m[3] \in Post => Up(m[3])
           /\ mark' = mark \cup {m} /\ edited' = edited \ {m}
           /\ UNCHANGED <<post, name>> /\ Turns(h, "bump", PagesOf(m))
  BY <1>2, <1>3, OneMarkKeeps
<1>4. CASE Finish(h) /\ UNCHANGED <<post, mark, edited, name, owed>>
  BY <1>2, <1>4, FreeTyped, QuietKeeps DEF Finish
<1> QED
  BY <1>1, <1>3, <1>4 DEF InsertMark

LEMMA EditOrRemoveKeeps ==
    ASSUME PostsInv, NEW h \in Handler, NEW m \in Marks, EditMark(h, m) \/ RemoveMark(h, m)
    PROVE  PostsInv'
<1>1. /\ edited \subseteq mark /\ m \in mark
      /\ m[3] \in Post => Up(m[3])
  BY DEF EditMark, RemoveMark, PostsInv, PostsTypeOK
<1>2. handler[h].pc = "idle" /\ UNCHANGED <<post, name>> /\ UNCHANGED forgotten
      /\ Turns(h, "bump", PagesOf(m))
  BY DEF EditMark, RemoveMark, AtStep
<1>3. \/ mark' = mark /\ edited' = edited \cup {m}
      \/ mark' = mark \ {m} /\ edited' = edited \ {m}
  BY DEF EditMark, RemoveMark
<1> QED
  BY <1>1, <1>2, <1>3, OneMarkKeeps

LEMMA BeginRemoveMineKeeps ==
    ASSUME PostsInv, NEW h \in Handler, NEW u \in Person, NEW kind \in Kinds,
           BeginRemoveMine(h, u, kind)
    PROVE  PostsInv'
<1>1. UNION {PagesOf(m) : m \in By(u, kind)} \in SUBSET Pages
  BY PagesOfTyped DEF By, PostsInv, PostsTypeOK
<1>2. PICK owes \in SUBSET Pages : owes = UNION {PagesOf(m) : m \in By(u, kind)}
  BY <1>1
<1>3. PICK d : d = [pc |-> "remove mine", who |-> u, mark |-> <<kind, u, u>>, owes |-> owes]
  OBVIOUS
<1>4. d \in HandlerState
  BY <1>3 DEF HandlerState, HandlerSteps
<1>5. d.pc = "remove mine" /\ d.who = u
  BY <1>3
<1> QED
  BY <1>2, <1>3, <1>4, <1>5, QuietKeeps DEF BeginRemoveMine, AtStep

LEMMA RemoveMineKeeps ==
    ASSUME PostsInv, NEW h \in Handler, RemoveMine(h)
    PROVE  PostsInv'
<1>1. PICK kind, gone : kind = handler[h].mark[1] /\ gone = By(handler[h].who, kind)
  OBVIOUS
<1>2. /\ handler[h].pc = "remove mine" /\ UNCHANGED <<post, name>>
      /\ mark' = mark \ gone /\ edited' = edited \ gone
  BY <1>1 DEF RemoveMine, AtStep
<1>3. Tables
  BY TablesTyped DEF PostsInv
<1>4. CASE gone = {} /\ kind # "like"
  <2>1. Finish(h) /\ UNCHANGED <<owed, forgotten>>
    BY <1>1, <1>4 DEF RemoveMine
  <2>2. UNCHANGED <<mark, edited>>
    BY <1>2, <1>4
  <2> QED
    BY <1>2, <2>1, <2>2, FreeTyped, QuietKeeps DEF Finish
<1>5. CASE ~ (gone = {} /\ kind # "like")
  <2>1. PICK owes \in SUBSET Pages : owes = handler[h].owes
    BY DEF PostsInv, HandlerState
  <2>2. Turns(h, "bump", owes) /\ forgotten' = forgotten \cup (Changed \ owes)
    BY <1>1, <1>5, <2>1 DEF RemoveMine
  <2>3. ASSUME NEW m \in mark \ mark' PROVE PagesOf(m) \subseteq Changed
    BY <1>3, GoneMarkChanges DEF Tables
  <2>4. \A m \in mark \ mark' : PagesOf(m) \subseteq owes \cup forgotten'
    BY <2>2, <2>3
  <2>5. Tables'
    BY <1>2, <1>3 DEF Tables, Up
  <2>6. PostsAreSigned'
    BY <1>2 DEF PostsInv, PostsAreSigned, Up
  <2> QED
    BY <1>2, <2>2, <2>4, <2>5, <2>6, PostsWriteKeeps
<1> QED
  BY <1>4, <1>5

\* A list of marks shows the texts of posts and the names of the reported; nothing of a
\* post that is new or of a post that changes its state alone.
LEMMA CreatePostKeeps ==
    ASSUME PostsInv, NEW h \in Handler, NEW u \in Person, NEW p \in Post, CreatePost(h, u, p)
    PROVE  PostsInv'
<1>1. Tables
  BY TablesTyped DEF PostsInv
<1>2. /\ handler[h].pc = "idle" /\ post[p].st = "new" /\ UNCHANGED <<mark, edited, name>>
      /\ Turns(h, "bump", {<<"posts", u>>}) /\ UNCHANGED forgotten
      /\ post' = [post EXCEPT ![p] = [st |-> "up", author |-> u, text |-> 0]]
  BY DEF CreatePost, AtStep
<1>3. /\ post' \in [Post -> PostRow]
      /\ post'[p].st = "up" /\ post'[p].author = u
      /\ \A q \in Post : q # p => post'[q] = post[q]
  BY <1>1, <1>2 DEF Tables, PostRow
<1>4. \A m \in mark : m[3] # p
  BY <1>1, <1>2 DEF Tables, Up
<1>5. \A m \in mark : Shown(m[3])' = Shown(m[3])
  BY <1>2, <1>3, <1>4 DEF Shown
<1>6. \A m \in mark \cup mark' : Kept(m) /\ Shown(m[3])' = Shown(m[3]) /\ name'[m[2]] = name[m[2]]
  BY <1>2, <1>5 DEF Kept
<1>7. ASSUME NEW k \in Changed, k # <<"posts", u>> PROVE FALSE
  <2>1. k \in Pages /\ Served(k) /\ Page(k)' # Page(k)
    BY <1>7 DEF Changed
  <2>2. ASSUME NEW q \in Post, k = <<"post", q>> PROVE FALSE
    <3>1. Up(q)
      BY <2>1, <2>2 DEF Served
    <3>2. q # p
      BY <1>2, <3>1 DEF Up
    <3> QED
      BY <1>3, <2>1, <2>2, <3>2 DEF Page
  <2>3. ASSUME NEW q \in Post, NEW d \in {"thread", "likers"}, k = <<d, q>> PROVE FALSE
    <3>1. Up(q)
      BY <2>1, <2>3 DEF Served
    <3>2. Up(q)' <=> Up(q)
      BY <1>2, <1>3, <3>1 DEF Up
    <3>3. PICK kind \in Kinds : kind = IF d = "thread" THEN "comment" ELSE "like"
      BY DEF Kinds
    <3>4. RowsOn(q, kind)' = RowsOn(q, kind)
      BY <1>6, <3>2, RowsOnSame
    <3>5. Page(k) = RowsOn(q, kind)
      BY <2>3, <3>3 DEF Page
    <3>6. Page(k)' = RowsOn(q, kind)'
      BY <2>3, <3>3 DEF Page
    <3> QED
      BY <2>1, <3>4, <3>5, <3>6
  <2>4. ASSUME NEW v \in Person, k = <<"posts", v>> PROVE FALSE
    <3>1. v # u
      BY <1>7, <2>4
    <3>2. {q \in Post : Up(q) /\ post[q].author = v}'
          = {q \in Post : Up(q) /\ post[q].author = v}
      BY <1>2, <1>3, <3>1 DEF Up
    <3>3. \A q \in {x \in Post : Up(x) /\ post[x].author = v} : post'[q] = post[q]
      BY <1>2, <1>3 DEF Up
    <3>4. Page(k) = {<<q, post[q].text>> : q \in {x \in Post : Up(x) /\ post[x].author = v}}
      BY <2>4 DEF Page
    <3>5. Page(k)' = {<<q, post'[q].text>> : q \in {x \in Post : Up(x) /\ post[x].author = v}'}
      BY <2>4 DEF Page
    <3>6. {<<q, post'[q].text>> : q \in {x \in Post : Up(x) /\ post[x].author = v}}
          = {<<q, post[q].text>> : q \in {x \in Post : Up(x) /\ post[x].author = v}}
      BY <3>3
    <3> QED
      BY <2>1, <3>2, <3>4, <3>5, <3>6
  <2>5. ASSUME NEW v \in Person, k = <<"profile", v>> PROVE FALSE
    BY <1>2, <2>1, <2>5 DEF Page
  <2>6. ASSUME NEW v \in Person, NEW kind \in Kinds, k = <<ListOf(kind), v>> PROVE FALSE
    <3>1. Rows(v, kind)' = Rows(v, kind)
      BY <1>6, RowsSame
    <3> QED
      BY <2>1, <2>6, <3>1, ListPage
  <2>7. ASSUME NEW v \in Person, NEW q \in Post, k = <<"comment", v, q>> PROVE FALSE
    <3>1. Kept(<<"comment", v, q>>) /\ name'[v] = name[v]
      BY <1>2 DEF Kept
    <3> QED
      BY <2>1, <2>7, <3>1, CommentSame
  <2> QED
    BY <2>1, <2>2, <2>3, <2>4, <2>5, <2>6, <2>7, PageIs
<1>8. {<<"posts", u>>} \in SUBSET Pages
  BY DEF Pages, PersonPages
<1>9. Tables'
  BY <1>1, <1>2, <1>3, <1>4 DEF Tables, Up
<1>10. /\ forgotten \subseteq forgotten' /\ forgotten' \subseteq forgotten \cup Changed
       /\ \A k \in Changed \ forgotten' : k \in {<<"posts", u>>}
       /\ \A m \in mark \ mark' : PagesOf(m) \subseteq {<<"posts", u>>} \cup forgotten'
  BY <1>2, <1>7
<1>11. PostsAreSigned'
  BY <1>2, <1>3 DEF PostsInv, PostsAreSigned, Up
<1> QED
  BY <1>2, <1>8, <1>9, <1>10, <1>11, PostsWriteKeeps

LEMMA UpdatePostKeeps ==
    ASSUME PostsInv, NEW h \in Handler, NEW p \in Post, UpdatePost(h, p)
    PROVE  PostsInv'
<1>1. Tables
  BY TablesTyped DEF PostsInv
<1>2. PICK u : u = post[p].author
  OBVIOUS
<1>3. PICK own : own = {<<"post", p>>, <<"posts", u>>}
  OBVIOUS
<1>4. /\ handler[h].pc = "idle" /\ Up(p) /\ UNCHANGED <<mark, edited, name>>
      /\ Turns(h, "fan out", own) /\ UNCHANGED forgotten
      /\ post' = [post EXCEPT ![p].text = @ + 1]
  BY <1>2, <1>3 DEF UpdatePost, AtStep
<1>5. /\ post' \in [Post -> PostRow]
      /\ \A q \in Post : post'[q].st = post[q].st /\ post'[q].author = post[q].author
      /\ \A q \in Post : q # p => post'[q] = post[q]
  <2>1. PICK r : r = [post[p] EXCEPT !.text = @ + 1]
    OBVIOUS
  <2>2. post[p] \in PostRow
    BY <1>1 DEF Tables
  <2>3. r \in PostRow /\ r.st = post[p].st /\ r.author = post[p].author
    BY <2>1, <2>2 DEF PostRow
  <2>4. post' = [post EXCEPT ![p] = r]
    BY <1>4, <2>1
  <2> QED
    BY <1>1, <2>3, <2>4 DEF Tables
<1>6. handler'[h].owes = own
  BY <1>4 DEF Turns, PostsInv, Free
<1>7. \A q \in Post : Up(q)' <=> Up(q)
  BY <1>5 DEF Up
<1>8. \A m \in mark \cup mark' : Kept(m) /\ name'[m[2]] = name[m[2]]
  BY <1>4 DEF Kept
<1>9. \A m \in mark : m[3] # p => Shown(m[3])' = Shown(m[3])
  BY <1>4, <1>5 DEF Shown
<1>10. ASSUME NEW k \in Changed, k \notin own, k \notin MarkersOf(h)' PROVE FALSE
  <2>1. k \in Pages /\ Page(k)' # Page(k)
    BY <1>10 DEF Changed
  <2>2. ASSUME NEW q \in Post, k = <<"post", q>> PROVE FALSE
    <3>1. q # p
      BY <1>3, <1>10, <2>2
    <3> QED
      BY <1>5, <2>1, <2>2, <3>1 DEF Page
  <2>3. ASSUME NEW q \in Post, NEW d \in {"thread", "likers"}, k = <<d, q>> PROVE FALSE
    <3>1. PICK kind \in Kinds : kind = IF d = "thread" THEN "comment" ELSE "like"
      BY DEF Kinds
    <3>2. RowsOn(q, kind)' = RowsOn(q, kind)
      BY <1>7, <1>8, RowsOnSame
    <3>3. Page(k) = RowsOn(q, kind)
      BY <2>3, <3>1 DEF Page
    <3>4. Page(k)' = RowsOn(q, kind)'
      BY <2>3, <3>1 DEF Page
    <3> QED
      BY <2>1, <3>2, <3>3, <3>4
  <2>4. ASSUME NEW v \in Person, k = <<"posts", v>> PROVE FALSE
    <3>1. v # u
      BY <1>3, <1>10, <2>4
    <3>2. {x \in Post : Up(x) /\ post[x].author = v}'
          = {x \in Post : Up(x) /\ post[x].author = v}
      BY <1>5, <1>7
    <3>3. \A q \in {x \in Post : Up(x) /\ post[x].author = v} : post'[q] = post[q]
      BY <1>2, <1>5, <3>1
    <3>4. Page(k) = {<<q, post[q].text>> : q \in {x \in Post : Up(x) /\ post[x].author = v}}
      BY <2>4 DEF Page
    <3>5. Page(k)' = {<<q, post'[q].text>> : q \in {x \in Post : Up(x) /\ post[x].author = v}'}
      BY <2>4 DEF Page
    <3>6. {<<q, post'[q].text>> : q \in {x \in Post : Up(x) /\ post[x].author = v}}
          = {<<q, post[q].text>> : q \in {x \in Post : Up(x) /\ post[x].author = v}}
      BY <3>3
    <3> QED
      BY <2>1, <3>2, <3>4, <3>5, <3>6
  <2>5. ASSUME NEW v \in Person, k = <<"profile", v>> PROVE FALSE
    BY <1>4, <2>1, <2>5 DEF Page
  <2>6. ASSUME NEW v \in Person, NEW kind \in Kinds, k = <<ListOf(kind), v>> PROVE FALSE
    <3>1. PICK m \in mark : m[1] = kind /\ m[2] = v /\ m[3] = p
      <4>1. CASE \A m \in mark : m[1] = kind /\ m[2] = v => m[3] # p
        <5>1. Rows(v, kind)' = Rows(v, kind)
          BY <1>4, <1>8, <1>9, <4>1, RowsSame
        <5> QED
          BY <2>1, <2>6, <5>1, ListPage
      <4> QED
        BY <4>1
    <3>2. m \in mark' /\ <<"post", m[3]>> \in handler'[h].owes
      BY <1>3, <1>4, <1>6, <3>1
    <3>3. m = <<kind, v, p>>
      BY <1>1, <3>1, MarkIsTriple DEF Tables
    <3>4. k \in PagesOf(m)
      BY <2>6, <3>3, ListPage
    <3>5. k \in PersonPages
      BY <2>6 DEF PersonPages, ListOf, Kinds
    <3> QED
      BY <1>10, <3>2, <3>4, <3>5 DEF MarkersOf
  <2>7. ASSUME NEW v \in Person, NEW q \in Post, k = <<"comment", v, q>> PROVE FALSE
    <3>1. Kept(<<"comment", v, q>>) /\ name'[v] = name[v]
      BY <1>4 DEF Kept
    <3> QED
      BY <2>1, <2>7, <3>1, CommentSame
  <2> QED
    BY <2>1, <2>2, <2>3, <2>4, <2>5, <2>6, <2>7, PageIs
<1>11. Tables'
  BY <1>1, <1>4, <1>5, <1>7 DEF Tables
<1>12. /\ forgotten \subseteq forgotten' /\ forgotten' \subseteq forgotten \cup Changed
       /\ \A k \in Changed \ forgotten' : k \in own \/ k \in MarkersOf(h)'
       /\ \A m \in mark \ mark' : PagesOf(m) \subseteq own \cup forgotten'
  BY <1>4, <1>10
<1>13. own \in SUBSET Pages
  <2>1. u \in Person
    BY <1>2, <1>4 DEF PostsInv, PostsAreSigned
  <2> QED
    BY <1>3, <2>1 DEF Pages, PostPages, PersonPages
<1>14. PostsAreSigned'
  BY <1>5, <1>7 DEF PostsInv, PostsAreSigned
<1> QED
  BY <1>4, <1>11, <1>12, <1>13, <1>14, PostsWriteKeeps

LEMMA DeletePostsKeeps ==
    ASSUME PostsInv, NEW h \in Handler, NEW u \in Person, NEW gone \in SUBSET Post,
           DeletePosts(h, u, gone)
    PROVE  PostsInv'
<1>1. Tables
  BY TablesTyped DEF PostsInv
<1>2. PICK own : own = {<<"post", p>> : p \in gone} \cup {<<"posts", u>>}
  OBVIOUS
<1>3. /\ handler[h].pc = "idle" /\ UNCHANGED name
      /\ mark' = {m \in mark : m[3] \notin gone} /\ edited' = edited \cap mark'
      /\ Turns(h, "fan out", own) /\ forgotten' = forgotten \cup (Changed \ own)
  BY <1>2 DEF DeletePosts, AtStep
<1>4. post' = [p \in Post |-> IF p \in gone THEN [post[p] EXCEPT !.st = "deleted"] ELSE post[p]]
  BY DEF DeletePosts
<1>5. /\ post' \in [Post -> PostRow]
      /\ \A q \in Post : q \notin gone => post'[q] = post[q]
      /\ \A q \in gone : post'[q].st = "deleted"
  <2>1. \A q \in Post : /\ [post[q] EXCEPT !.st = "deleted"] \in PostRow
                       /\ [post[q] EXCEPT !.st = "deleted"].st = "deleted"
    BY <1>1 DEF Tables, PostRow
  <2>2. \A q \in Post : post[q] \in PostRow
    BY <1>1 DEF Tables
  <2> QED
    BY <1>4, <2>1, <2>2
<1>6. own \in SUBSET Pages
  BY <1>2 DEF Pages, PostPages, PersonPages
<1>7. ASSUME NEW m \in mark \ mark' PROVE PagesOf(m) \subseteq own \cup forgotten'
  BY <1>1, <1>3, GoneMarkChanges DEF Tables
<1>8. Tables'
  <2>1. \A m \in mark' : m[3] \in Post => Up(m[3])'
    BY <1>1, <1>3, <1>5 DEF Tables, Up
  <2> QED
    BY <1>1, <1>3, <1>5, <2>1 DEF Tables
<1>9. PostsAreSigned'
  BY <1>5 DEF PostsInv, PostsAreSigned, Up
<1>10. /\ forgotten \subseteq forgotten' /\ forgotten' \subseteq forgotten \cup Changed
       /\ \A k \in Changed \ forgotten' : k \in own
  BY <1>3
<1> QED
  BY <1>3, <1>6, <1>7, <1>8, <1>9, <1>10, PostsWriteKeeps

\* A new name shows in one's own pages, on the posts one commented on or liked and in
\* the lists of who reported one; a single comment's page is not bumped.
LEMMA RenameChanges ==
    ASSUME Tables, NEW u \in Person, UNCHANGED <<post, mark, edited>>,
           \A v \in Person : v # u => name'[v] = name[v]
    PROVE  Changed \subseteq VersionKeys(u) \cup CommentPages
<1> SUFFICES ASSUME NEW k \in Pages, Page(k)' # Page(k), k \notin VersionKeys(u),
                    k \notin CommentPages
             PROVE  FALSE
  BY DEF Changed
<1>1. \A x \in mark \cup mark' : Kept(x) /\ x \in Marks
  BY DEF Kept, Tables
<1>2. ASSUME NEW q \in Post, k = <<"post", q>> PROVE FALSE
  BY <1>2 DEF Page
<1>3. ASSUME NEW q \in Post, NEW d \in {"thread", "likers"}, k = <<d, q>> PROVE FALSE
  <2>1. PICK kind \in Kinds : kind = IF d = "thread" THEN "comment" ELSE "like"
    BY DEF Kinds
  <2>2. \A x \in mark : x[1] = kind /\ x[3] = q => x[2] # u
    BY <1>3, <2>1 DEF VersionKeys, By
  <2>3. \A x \in mark \cup mark' : x[1] = kind /\ x[3] = q => Kept(x) /\ name'[x[2]] = name[x[2]]
    BY <1>1, <2>2, MarkIsTriple
  <2>4. Up(q)' <=> Up(q)
    BY DEF Up
  <2>5. RowsOn(q, kind)' = RowsOn(q, kind)
    BY <2>3, <2>4, RowsOnSame
  <2>6. Page(k) = RowsOn(q, kind)
    BY <1>3, <2>1 DEF Page
  <2>7. Page(k)' = RowsOn(q, kind)'
    BY <1>3, <2>1 DEF Page
  <2> QED
    BY <2>5, <2>6, <2>7
<1>4. ASSUME NEW v \in Person, k = <<"posts", v>> PROVE FALSE
  BY <1>4 DEF Page, Up
<1>5. ASSUME NEW v \in Person, k = <<"profile", v>> PROVE FALSE
  <2>1. v # u
    BY <1>5 DEF VersionKeys
  <2> QED
    BY <1>5, <2>1 DEF Page
<1>6. ASSUME NEW v \in Person, NEW kind \in Kinds, k = <<ListOf(kind), v>> PROVE FALSE
  <2>1. ASSUME NEW x \in mark, x[1] = kind, x[2] = v, Shown(x[3])' # Shown(x[3]) PROVE FALSE
    <3>1. x \in Marks /\ x[3] \notin Post
      BY <1>1, <2>1 DEF Shown
    <3>2. x[1] = "report" /\ x[3] \in Person
      BY <3>1, MarkIsTriple
    <3>3. x[3] = u
      BY <2>1, <3>1, <3>2 DEF Shown
    <3>4. k = <<"reports", x[2]>>
      BY <1>6, <2>1, <3>2 DEF ListOf
    <3> QED
      BY <3>2, <3>3, <3>4 DEF VersionKeys, On
  <2>2. \A x \in mark \cup mark' : x[1] = kind /\ x[2] = v =>
          Kept(x) /\ Shown(x[3])' = Shown(x[3])
    BY <1>1, <2>1
  <2>3. Rows(v, kind)' = Rows(v, kind)
    BY <2>2, RowsSame
  <2> QED
    BY <1>6, <2>3, ListPage
<1>7. ASSUME NEW v \in Person, NEW q \in Post, k = <<"comment", v, q>> PROVE FALSE
  BY <1>7 DEF CommentPages
<1> QED
  BY <1>2, <1>3, <1>4, <1>5, <1>6, <1>7, PageIs

LEMMA RenameKeeps ==
    ASSUME PostsInv, NEW h \in Handler, NEW u \in Person, Rename(h, u)
    PROVE  PostsInv'
<1>1. Tables /\ handler \in [Handler -> HandlerState] /\ HandlersKnow /\ PostsAreSigned
      /\ PagesAreBumped /\ owed \subseteq Pages /\ forgotten \subseteq Pages
  BY TablesTyped DEF PostsInv
<1>2. /\ handler[h].pc = "idle" /\ UNCHANGED <<post, mark, edited>>
      /\ name' = [name EXCEPT ![u] = @ + 1]
      /\ owed' = owed \cup Changed
      /\ forgotten' = forgotten \cup (Changed \cap CommentPages)
  BY DEF Rename, AtStep
<1>3. name' \in [Person -> Nat] /\ \A v \in Person : v # u => name'[v] = name[v]
  BY <1>1, <1>2 DEF Tables
<1>4. PICK d \in HandlerState : d = [handler[h] EXCEPT !.pc = "collect", !.who = u]
  BY <1>1 DEF HandlerState, HandlerSteps
<1>5. d.pc = "collect" /\ d.who = u
  BY <1>1, <1>4 DEF HandlerState
<1>6. handler' = [handler EXCEPT ![h] = d]
  BY <1>1, <1>4 DEF Rename
<1>7. /\ handler' \in [Handler -> HandlerState] /\ handler'[h] = d
      /\ \A g \in Handler : g # h => handler'[g] = handler[g]
  BY <1>1, <1>6
<1>8. HandlersKnow'
  BY <1>1, <1>5, <1>7, OthersKnowTheirs
<1>9. Tables' /\ PostsAreSigned'
  BY <1>1, <1>2, <1>3 DEF Tables, Up, PostsAreSigned
<1>10. owed' \subseteq Pages /\ forgotten' \subseteq Pages
  BY <1>1, <1>2 DEF Changed
<1>11. PostsTypeOK'
  BY <1>9, <1>10 DEF PostsTypeOK, Tables, PostRow, Pages, PostPages, PersonPages, CommentPages
<1>12. PagesAreBumped'
  <2> SUFFICES ASSUME NEW k \in owed' \ forgotten' PROVE \E g \in Handler : Covers(g, k)'
    BY DEF PagesAreBumped, Covers
  <2>1. CASE k \in Changed
    <3>1. k \in VersionKeys(u)
      BY <1>1, <1>2, <1>3, <2>1, RenameChanges
    <3>2. VersionKeys(u)' = VersionKeys(u)
      BY <1>2 DEF VersionKeys, By, On
    <3>3. Covers(h, k)'
      BY <1>5, <1>7, <3>1, <3>2 DEF Covers, AtStep
    <3> QED
      BY <3>3
  <2>2. CASE k \in owed \ forgotten
    <3>1. PICK g \in Handler : Covers(g, k)
      BY <1>1, <2>2 DEF PagesAreBumped, Covers
    <3>2. g # h
      BY <1>2, <3>1 DEF Covers, AtStep
    <3>3. \A m \in mark \ mark' : k \notin PagesOf(m)
      BY <1>2
    <3> QED
      BY <1>7, <3>1, <3>2, <3>3, StillCovers
  <2> QED
    BY <1>2, <2>1, <2>2
<1> QED
  BY <1>7, <1>8, <1>9, <1>11, <1>12 DEF PostsInv

\* A look-up takes over what it has looked up.
LEMMA LookUpKeeps ==
    ASSUME PostsInv, NEW h \in Handler, NEW d \in HandlerState,
           handler' = [handler EXCEPT ![h] = d], d.pc = "bump",
           \A k : Covers(h, k) => k \in d.owes,
           UNCHANGED <<post, mark, edited, name, owed, forgotten>>
    PROVE  PostsInv'
<1>1. PostsTypeOK /\ handler \in [Handler -> HandlerState] /\ HandlersKnow /\ PagesAreBumped
  BY DEF PostsInv
<1>2. /\ handler' \in [Handler -> HandlerState] /\ handler'[h] = d
      /\ \A g \in Handler : g # h => handler'[g] = handler[g]
  BY <1>1
<1>3. HandlersKnow'
  BY <1>1, <1>2, OthersKnowTheirs
<1>4. PostsTypeOK' /\ PostsAreSigned'
  BY <1>1 DEF PostsInv, PostsTypeOK, PostsAreSigned, Up, Pages, PostPages, PersonPages, CommentPages
<1>5. PagesAreBumped'
  <2> SUFFICES ASSUME NEW k \in owed' \ forgotten' PROVE \E g \in Handler : Covers(g, k)'
    BY DEF PagesAreBumped, Covers
  <2>1. PICK g \in Handler : Covers(g, k)
    BY <1>1 DEF PagesAreBumped, Covers
  <2>2. CASE g = h
    BY <1>2, <2>1, <2>2 DEF Covers
  <2>3. CASE g # h
    BY <1>2, <2>1, <2>3, StillCovers
  <2> QED
    BY <2>2, <2>3
<1> QED
  BY <1>2, <1>3, <1>4, <1>5 DEF PostsInv

LEMMA FanOutKeeps ==
    ASSUME PostsInv, NEW h \in Handler, FanOut(h)
    PROVE  PostsInv'
<1>1. handler \in [Handler -> HandlerState] /\ mark \subseteq Marks
  BY DEF PostsInv, PostsTypeOK
<1>2. MarkersOf(h) \subseteq Pages
  BY DEF MarkersOf, Pages
<1>3. PICK all : all = handler[h].owes \cup MarkersOf(h)
  OBVIOUS
<1>4. all \in SUBSET Pages
  BY <1>1, <1>2, <1>3 DEF HandlerState
<1>5. PICK d : d = [handler[h] EXCEPT !.pc = "bump", !.owes = all]
  OBVIOUS
<1>6. d \in HandlerState
  <2>1. handler[h] \in HandlerState
    BY <1>1
  <2>2. d = [pc |-> "bump", who |-> handler[h].who, mark |-> handler[h].mark, owes |-> all]
    BY <1>5, <2>1 DEF HandlerState
  <2> QED
    BY <1>4, <2>1, <2>2 DEF HandlerState, HandlerSteps
<1>7. d.pc = "bump" /\ d.owes = all
  BY <1>1, <1>5 DEF HandlerState
<1>8. handler' = [handler EXCEPT ![h] = d]
  BY <1>1, <1>3, <1>5 DEF FanOut
<1>9. \A k : Covers(h, k) => k \in all
  BY <1>3 DEF FanOut, AtStep, Covers
<1> QED
  BY <1>6, <1>7, <1>8, <1>9, LookUpKeeps DEF FanOut

LEMMA CollectKeeps ==
    ASSUME PostsInv, NEW h \in Handler, CollectUserVersionKeys(h)
    PROVE  PostsInv'
<1>1. handler[h].pc = "collect" /\ mark \subseteq Marks
  BY DEF PostsInv, PostsTypeOK, CollectUserVersionKeys, AtStep
<1>2. PICK u \in Person : u = handler[h].who
  BY <1>1 DEF PostsInv, HandlersKnow
<1>3. PICK keys \in SUBSET Pages : keys = VersionKeys(u)
  BY <1>1, VersionKeysTyped
<1>4. PICK d : d = [Free EXCEPT !.pc = "bump", !.owes = keys]
  OBVIOUS
<1>5. d \in HandlerState /\ d.pc = "bump" /\ d.owes = keys
  BY <1>4 DEF Free, HandlerState, HandlerSteps, Kinds
<1>6. handler' = [handler EXCEPT ![h] = d]
  BY <1>2, <1>3, <1>4 DEF CollectUserVersionKeys
<1>7. \A k : Covers(h, k) => k \in keys
  BY <1>1, <1>2, <1>3 DEF AtStep, Covers
<1> QED
  BY <1>5, <1>6, <1>7, LookUpKeeps DEF CollectUserVersionKeys

LEMMA BumpPagesKeeps ==
    ASSUME PostsInv, NEW h \in Handler, BumpPages(h)
    PROVE  PostsInv'
<1>1. PostsTypeOK /\ handler \in [Handler -> HandlerState] /\ HandlersKnow /\ PagesAreBumped
  BY DEF PostsInv
<1>2. /\ handler[h].pc = "bump" /\ UNCHANGED <<post, mark, edited, name>>
      /\ owed' = owed \ handler[h].owes /\ forgotten' = forgotten \ handler[h].owes
      /\ handler' = [handler EXCEPT ![h] = Free]
  BY DEF BumpPages, AtStep, Finish
<1>3. /\ handler' \in [Handler -> HandlerState] /\ handler'[h] = Free
      /\ \A g \in Handler : g # h => handler'[g] = handler[g]
  BY <1>1, <1>2, FreeTyped
<1>4. HandlersKnow'
  BY <1>1, <1>3, FreeTyped, OthersKnowTheirs
<1>5. PostsTypeOK' /\ PostsAreSigned'
  BY <1>1, <1>2
    DEF PostsInv, PostsTypeOK, PostsAreSigned, Up, Pages, PostPages, PersonPages, CommentPages
<1>6. PagesAreBumped'
  <2> SUFFICES ASSUME NEW k \in owed' \ forgotten' PROVE \E g \in Handler : Covers(g, k)'
    BY DEF PagesAreBumped, Covers
  <2>1. k \in owed \ forgotten /\ k \notin handler[h].owes
    BY <1>2
  <2>2. PICK g \in Handler : Covers(g, k)
    BY <1>1, <2>1 DEF PagesAreBumped, Covers
  <2>3. g # h
    BY <1>2, <2>1, <2>2 DEF Covers, AtStep
  <2>4. \A m \in mark \ mark' : k \notin PagesOf(m)
    BY <1>2
  <2> QED
    BY <1>3, <2>2, <2>3, <2>4, StillCovers
<1> QED
  BY <1>3, <1>4, <1>5, <1>6 DEF PostsInv

LEMMA PostsStart == PostsInit => PostsInv
<1> SUFFICES ASSUME PostsInit PROVE PostsInv
  OBVIOUS
<1>1. PostsTypeOK
  BY DEF PostsInit, PostsTypeOK
<1>2. handler \in [Handler -> HandlerState] /\ \A h \in Handler : handler[h].pc = "idle"
  BY FreeTyped DEF PostsInit
<1>3. HandlersKnow /\ PostsAreSigned /\ PagesAreBumped
  BY <1>2 DEF PostsInit, HandlersKnow, PostsAreSigned, Up, PagesAreBumped
<1> QED
  BY <1>1, <1>2, <1>3 DEF PostsInv

LEMMA PostsStep == PostsInv /\ [PostsNext]_postsVars => PostsInv'
<1> SUFFICES ASSUME PostsInv, [PostsNext]_postsVars PROVE PostsInv'
  OBVIOUS
<1>1. ASSUME NEW h \in Handler, NEW m \in Marks,
             BeginMark(h, m) \/ EditMark(h, m) \/ RemoveMark(h, m)
      PROVE  PostsInv'
  BY <1>1, BeginMarkKeeps, EditOrRemoveKeeps
<1>2. ASSUME NEW h \in Handler, NEW u \in Person, NEW kind \in Kinds, BeginRemoveMine(h, u, kind)
      PROVE  PostsInv'
  BY <1>2, BeginRemoveMineKeeps
<1>3. ASSUME NEW h \in Handler, NEW u \in Person, NEW p \in Post, CreatePost(h, u, p)
      PROVE  PostsInv'
  BY <1>3, CreatePostKeeps
<1>4. ASSUME NEW h \in Handler, NEW u \in Person, NEW gone \in SUBSET Post, DeletePosts(h, u, gone)
      PROVE  PostsInv'
  BY <1>4, DeletePostsKeeps
<1>5. ASSUME NEW h \in Handler, NEW p \in Post, UpdatePost(h, p)
      PROVE  PostsInv'
  BY <1>5, UpdatePostKeeps
<1>6. ASSUME NEW h \in Handler, NEW u \in Person, Rename(h, u)
      PROVE  PostsInv'
  BY <1>6, RenameKeeps
<1>7. ASSUME NEW h \in Handler,
             \/ InsertMark(h) \/ RemoveMine(h) \/ FanOut(h)
             \/ CollectUserVersionKeys(h) \/ BumpPages(h)
      PROVE  PostsInv'
  BY <1>7, InsertMarkKeeps, RemoveMineKeeps, FanOutKeeps, CollectKeeps, BumpPagesKeeps
<1>8. CASE UNCHANGED postsVars
  <2>1. UNCHANGED <<post, mark, edited, name, handler, owed, forgotten>>
    BY <1>8 DEF postsVars
  <2>2. PostsTypeOK'
    BY <2>1 DEF PostsInv, PostsTypeOK, Up, Pages, PostPages, PersonPages, CommentPages
  <2>3. HandlersKnow' /\ PostsAreSigned'
    BY <2>1 DEF PostsInv, HandlersKnow, PostsAreSigned, Up
  <2>4. PagesAreBumped'
    <3> SUFFICES ASSUME NEW k \in owed' \ forgotten' PROVE \E g \in Handler : Covers(g, k)'
      BY DEF PagesAreBumped, Covers
    <3>1. PICK g \in Handler : Covers(g, k)
      BY <2>1 DEF PostsInv, PagesAreBumped, Covers
    <3> QED
      BY <2>1, <3>1, StillCovers
  <2> QED
    BY <2>1, <2>2, <2>3, <2>4 DEF PostsInv
<1> QED
  BY <1>1, <1>2, <1>3, <1>4, <1>5, <1>6, <1>7, <1>8 DEF PostsNext

LEMMA PostsInvariance == PostsSpec => []PostsInv
<1> QED
  BY PostsStart, PostsStep, PTL DEF PostsSpec

\* Every variable of the posts keeps its type.
THEOREM PostsTypeCorrect == PostsSpec => []PostsTypeOK
<1>1. PostsInv => PostsTypeOK
  BY DEF PostsInv
<1> QED
  BY PostsInvariance, <1>1, PTL

\* A feed, profile or page of comments that no longer shows what is in the tables has
\* a handler about to move its counter, however writes, deletions of accounts and
\* bumps overlap, unless the bump was never planned (invalidatePost and its like).
THEOREM PostPagesBumped == PostsSpec => []PagesAreBumped
<1>1. PostsInv => PagesAreBumped
  BY DEF PostsInv
<1> QED
  BY PostsInvariance, <1>1, PTL

(***************************************************************************)
(* SessionPages, for any learners, studies, clubs and handlers in flight:  *)
(* a page that shows sessions is bumped once what it shows has changed.    *)
(***************************************************************************)

ClerkSteps == {"idle", "close", "score", "closed", "credit", "break", "delete", "disband", "bump"}
PageCounter == ({"session"} \X Study) \cup ({"owner", "goal", "streak"} \X (Learner \cup {NoLearner}))
ClerkState == [pc : ClerkSteps, of : Study \cup Club \cup {NoStudy}, owes : SUBSET PageCounter,
               refs : SUBSET Study]

\* What a handler is at goes with what it names, and with whether it owes counters.
ClerksKnow ==
    \A h \in Clerk :
      /\ clerk[h].pc \in {"close", "score", "closed", "credit", "break", "delete"} =>
           clerk[h].of \in Study
      /\ clerk[h].pc = "disband" => clerk[h].of \in Club
      /\ clerk[h].pc \in {"score", "closed", "credit"} => sitting[clerk[h].of].st # "new"
      /\ clerk[h].pc \notin {"score", "closed", "bump"} => clerk[h].owes = {}
      /\ clerk[h].pc = "score" =>
           clerk[h].owes = {<<"session", clerk[h].of>>, <<"owner", sitting[clerk[h].of].owner>>}

\* A session that was begun has its owner for good.
SittingsAreOwned == \A s \in Study : sitting[s].st # "new" => sitting[s].owner \in Learner

PagesInv ==
    /\ PagesTypeOK /\ clerk \in [Clerk -> ClerkState]
    /\ ClerksKnow /\ SittingsAreOwned /\ SessionPagesAreBumped

\* What the pages of a person show of the sessions: the rows, and which have ended.
KeepsRows(u) == \A s \in OwnedBy(u) \cup OwnedBy(u)' : sitting'[s] = sitting[s]
KeepsEnds(u) ==
    \A s \in OwnedBy(u) \cup OwnedBy(u)' :
        sitting'[s].st = sitting[s].st /\ sitting'[s].owner = sitting[s].owner

SittingRow ==
    [st : {"new", "open", "ended", "gone"}, owner : Learner \cup {NoLearner},
     club : Club \cup {NoClub}, host : Study \cup {NoStudy},
     scored : BOOLEAN, broken : BOOLEAN, rated : BOOLEAN]

LEMMA SessionsOfSame ==
    ASSUME NEW u \in Learner, KeepsEnds(u)
    PROVE  OwnedBy(u)' = OwnedBy(u) /\ EndedOf(u)' = EndedOf(u)
<1>1. ASSUME NEW s \in Study PROVE s \in OwnedBy(u)' <=> s \in OwnedBy(u)
  BY DEF KeepsEnds, OwnedBy, Live
<1>2. OwnedBy(u)' = OwnedBy(u)
  BY <1>1 DEF OwnedBy
<1>3. ASSUME NEW s \in OwnedBy(u) PROVE sitting'[s].st = sitting[s].st
  BY DEF KeepsEnds
<1> QED
  BY <1>2, <1>3 DEF EndedOf

LEMMA HistorySame ==
    ASSUME NEW u \in Learner, KeepsRows(u), \A c \in Club : club'[c].renamed = club[c].renamed,
           PagesTypeOK
    PROVE  Sheet(<<"history", u>>)' = Sheet(<<"history", u>>)
<1>1. KeepsEnds(u)
  BY DEF KeepsRows, KeepsEnds
<1>2. OwnedBy(u)' = OwnedBy(u)
  BY <1>1, SessionsOfSame
<1>3. ASSUME NEW s \in OwnedBy(u)
      PROVE  <<s, sitting'[s], IF sitting'[s].club = NoClub THEN 0 ELSE club'[sitting'[s].club].renamed>>
             = <<s, sitting[s], IF sitting[s].club = NoClub THEN 0 ELSE club[sitting[s].club].renamed>>
  <2>1. sitting'[s] = sitting[s]
    BY DEF KeepsRows
  <2>2. s \in Study
    BY DEF OwnedBy
  <2>3. sitting[s].club \in Club \cup {NoClub}
    BY <2>2 DEF PagesTypeOK
  <2> QED
    BY <2>1, <2>3
<1>4. Sheet(<<"history", u>>)
      = {<<s, sitting[s], IF sitting[s].club = NoClub THEN 0
             ELSE club[sitting[s].club].renamed>> : s \in OwnedBy(u)}
  BY DEF Sheet
<1>5. Sheet(<<"history", u>>)'
      = {<<s, sitting'[s], IF sitting'[s].club = NoClub THEN 0
             ELSE club'[sitting'[s].club].renamed>> : s \in OwnedBy(u)'}
  BY DEF Sheet
<1>6. {<<s, sitting'[s], IF sitting'[s].club = NoClub THEN 0
             ELSE club'[sitting'[s].club].renamed>> : s \in OwnedBy(u)}
      = {<<s, sitting[s], IF sitting[s].club = NoClub THEN 0
             ELSE club[sitting[s].club].renamed>> : s \in OwnedBy(u)}
  BY <1>3
<1> QED
  BY <1>2, <1>4, <1>5, <1>6

LEMMA AnalyticsSame ==
    ASSUME NEW u \in Learner, KeepsRows(u), u \in target' <=> u \in target,
           u \in studied' <=> u \in studied
    PROVE  Sheet(<<"analytics", u>>)' = Sheet(<<"analytics", u>>)
<1>1. KeepsEnds(u)
  BY DEF KeepsRows, KeepsEnds
<1>2. EndedOf(u)' = EndedOf(u)
  BY <1>1, SessionsOfSame
<1>3. ASSUME NEW s \in EndedOf(u) PROVE sitting'[s] = sitting[s]
  BY DEF KeepsRows, EndedOf
<1>4. {<<s, sitting[s].scored, sitting[s].club, sitting[s].broken>> : s \in EndedOf(u)}'
      = {<<s, sitting[s].scored, sitting[s].club, sitting[s].broken>> : s \in EndedOf(u)}
  BY <1>2, <1>3
<1>5. Sheet(<<"analytics", u>>) = <<u \in target, u \in studied,
        {<<s, sitting[s].scored, sitting[s].club, sitting[s].broken>> : s \in EndedOf(u)}>>
  BY DEF Sheet
<1>6. Sheet(<<"analytics", u>>)' = <<u \in target', u \in studied',
        {<<s, sitting[s].scored, sitting[s].club, sitting[s].broken>> : s \in EndedOf(u)}'>>
  BY DEF Sheet
<1>7. (u \in target') = (u \in target) /\ (u \in studied') = (u \in studied)
  OBVIOUS
<1> QED
  BY <1>4, <1>5, <1>6, <1>7

LEMMA ProgressSame ==
    ASSUME NEW u \in Learner, KeepsEnds(u), u \in target' <=> u \in target
    PROVE  Sheet(<<"progress", u>>)' = Sheet(<<"progress", u>>)
<1>1. EndedOf(u)' = EndedOf(u)
  BY SessionsOfSame
<1>2. Sheet(<<"progress", u>>) = IF u \in target THEN EndedOf(u) ELSE {}
  BY DEF Sheet
<1>3. Sheet(<<"progress", u>>)' = IF u \in target' THEN EndedOf(u)' ELSE {}
  BY DEF Sheet
<1> QED
  BY <1>1, <1>2, <1>3

\* What a write must move for the pages it changes: a counter of the owner where a row
\* changed, of the goal and of the streak, and of the session itself.
LEMMA TurnedAreStamped ==
    ASSUME PagesTypeOK, NEW owes, NEW left,
           \A c \in Club : club'[c].renamed = club[c].renamed,
           \A u \in Learner : <<"owner", u>> \notin owes =>
              /\ KeepsEnds(u)
              /\ KeepsRows(u) \/ {<<"history", u>>, <<"analytics", u>>} \subseteq left,
           \A u \in Learner : <<"goal", u>> \notin owes => (u \in target' <=> u \in target),
           \A u \in Learner : <<"streak", u>> \notin owes => (u \in studied' <=> u \in studied),
           \A s \in Study : <<"session", s>> \notin owes /\ Live(s) =>
              \/ [sitting'[s] EXCEPT !.rated = FALSE] = [sitting[s] EXCEPT !.rated = FALSE]
              \/ <<"session", s>> \in left
    PROVE  \A k \in Turned \ left : Stamps(k) \cap owes # {}
<1> SUFFICES ASSUME NEW k \in Turned, k \notin left, Stamps(k) \cap owes = {}
             PROVE  FALSE
  OBVIOUS
<1>1. Sheet(k)' # Sheet(k)
  BY DEF Turned
<1>2. CASE k \in SessionPage
  <2>1. PICK s \in Study : k = <<"session", s>>
    BY <1>2 DEF SessionPage
  <2>2. Live(s)
    <3>1. k[2] = s /\ k \notin LearnerPage
      BY <2>1 DEF LearnerPage
    <3> QED
      BY <3>1 DEF Turned
  <2>3. <<"session", s>> \notin owes
    BY <2>1 DEF Stamps
  <2>4. [sitting'[s] EXCEPT !.rated = FALSE] = [sitting[s] EXCEPT !.rated = FALSE]
    BY <2>1, <2>2, <2>3
  <2>5. Sheet(k) = {[sitting[s] EXCEPT !.rated = FALSE]}
    BY <2>1 DEF Sheet
  <2>6. Sheet(k)' = {[sitting'[s] EXCEPT !.rated = FALSE]}
    BY <2>1 DEF Sheet
  <2> QED
    BY <1>1, <2>4, <2>5, <2>6
<1>3. CASE k \in LearnerPage
  <2>1. PICK d \in {"history", "goals", "progress", "streak", "analytics"}, u \in Learner :
          k = <<d, u>>
    BY <1>3 DEF LearnerPage
  <2>2. CASE d = "history"
    <3>1. <<"owner", u>> \notin owes
      BY <2>1, <2>2 DEF Stamps
    <3> QED
      BY <1>1, <2>1, <2>2, <3>1, HistorySame
  <2>3. CASE d = "goals"
    <3>1. <<"goal", u>> \notin owes
      BY <2>1, <2>3 DEF Stamps
    <3>2. Sheet(k) = {u} \cap target
      BY <2>1, <2>3 DEF Sheet
    <3>3. Sheet(k)' = {u} \cap target'
      BY <2>1, <2>3 DEF Sheet
    <3> QED
      BY <1>1, <3>1, <3>2, <3>3
  <2>4. CASE d = "progress"
    <3>1. <<"owner", u>> \notin owes /\ <<"goal", u>> \notin owes
      BY <2>1, <2>4 DEF Stamps
    <3> QED
      BY <1>1, <2>1, <2>4, <3>1, ProgressSame
  <2>5. CASE d = "streak"
    <3>1. <<"streak", u>> \notin owes
      BY <2>1, <2>5 DEF Stamps
    <3>2. Sheet(k) = {u} \cap studied
      BY <2>1, <2>5 DEF Sheet
    <3>3. Sheet(k)' = {u} \cap studied'
      BY <2>1, <2>5 DEF Sheet
    <3> QED
      BY <1>1, <3>1, <3>2, <3>3
  <2>6. CASE d = "analytics"
    <3>1. <<"owner", u>> \notin owes /\ <<"goal", u>> \notin owes /\ <<"streak", u>> \notin owes
      BY <2>1, <2>6 DEF Stamps
    <3> QED
      BY <1>1, <2>1, <2>6, <3>1, AnalyticsSame
  <2> QED
    BY <2>1, <2>2, <2>3, <2>4, <2>5, <2>6
<1> QED
  BY <1>2, <1>3 DEF Turned

\* What a handler that goes on to a step leaves of it, and of the others.
LEMMA ServesSets ==
    ASSUME clerk \in [Clerk -> ClerkState], NEW h \in Clerk, NEW pc \in ClerkSteps,
           NEW s \in Study \cup Club \cup {NoStudy}, NEW owes \in SUBSET PageCounter,
           Serves(h, pc, s, owes)
    PROVE  /\ clerk' \in [Clerk -> ClerkState]
           /\ clerk'[h].pc = pc /\ clerk'[h].of = s /\ clerk'[h].owes = owes
           /\ \A g \in Clerk : g # h => clerk'[g] = clerk[g]
<1> DEFINE d == [pc |-> pc, of |-> s, owes |-> owes, refs |-> {}]
<1>1. d \in ClerkState
  BY DEF ClerkState
<1>2. clerk' = [clerk EXCEPT ![h] = d]
  BY DEF Serves
<1>3. d.pc = pc /\ d.of = s /\ d.owes = owes
  OBVIOUS
<1> HIDE DEF d
<1>4. clerk' \in [Clerk -> ClerkState] /\ clerk'[h] = d
      /\ \A g \in Clerk : g # h => clerk'[g] = clerk[g]
  BY <1>1, <1>2
<1> QED
  BY <1>3, <1>4

LEMMA LeavesSets ==
    ASSUME clerk \in [Clerk -> ClerkState], NEW h \in Clerk, Leaves(h)
    PROVE  /\ clerk' \in [Clerk -> ClerkState]
           /\ clerk'[h].pc = "idle" /\ clerk'[h].of = NoStudy /\ clerk'[h].owes = {}
           /\ \A g \in Clerk : g # h => clerk'[g] = clerk[g]
<1>1. Serves(h, "idle", NoStudy, {})
  BY DEF Leaves, Serves, AtEase
<1> QED
  BY <1>1, ServesSets DEF ClerkSteps

\* A write that owes a counter of every page it changes, and forgets none it owed.
LEMMA WriteBumps ==
    ASSUME clerk \in [Clerk -> ClerkState], SessionPagesAreBumped, NEW h \in Clerk,
           NEW pc \in ClerkSteps, NEW s \in Study \cup Club \cup {NoStudy},
           NEW owes \in SUBSET PageCounter, NEW left, clerk[h].owes \subseteq owes,
           WritesBut(h, pc, s, owes, left),
           \A k \in Turned \ left : Stamps(k) \cap owes # {}
    PROVE  SessionPagesAreBumped'
<1>1. /\ clerk'[h].owes = owes
      /\ \A g \in Clerk : g # h => clerk'[g] = clerk[g]
  BY ServesSets DEF WritesBut
<1>2. aged' = aged \cup (Turned \ left)
  BY DEF WritesBut
<1> SUFFICES ASSUME NEW k \in aged' PROVE \E g \in Clerk : Stamps(k) \cap clerk'[g].owes # {}
  BY DEF SessionPagesAreBumped, Stamps
<1>3. CASE k \in aged
  <2>1. PICK g \in Clerk : Stamps(k) \cap clerk[g].owes # {}
    BY <1>3 DEF SessionPagesAreBumped
  <2>2. clerk[g].owes \subseteq clerk'[g].owes
    BY <1>1
  <2> QED
    BY <2>1, <2>2
<1>4. CASE k \in Turned \ left
  BY <1>1, <1>4
<1> QED
  BY <1>2, <1>3, <1>4

\* Nothing is written: the handler owed nothing.
LEMMA ReadBumps ==
    ASSUME clerk \in [Clerk -> ClerkState], SessionPagesAreBumped, NEW h \in Clerk,
           clerk[h].owes = {}, aged' = aged, \A g \in Clerk : g # h => clerk'[g] = clerk[g]
    PROVE  SessionPagesAreBumped'
<1> SUFFICES ASSUME NEW k \in aged' PROVE \E g \in Clerk : Stamps(k) \cap clerk'[g].owes # {}
  BY DEF SessionPagesAreBumped, Stamps
<1>1. PICK g \in Clerk : Stamps(k) \cap clerk[g].owes # {}
  BY DEF SessionPagesAreBumped
<1>2. g # h
  BY <1>1
<1> QED
  BY <1>1, <1>2

LEMMA OneSessionsCounters ==
    ASSUME NEW s
    PROVE  SessionCounters({s}) = {<<"session", s>>, <<"owner", sitting[s].owner>>}
BY DEF SessionCounters

LEMMA CountersTyped ==
    ASSUME PagesTypeOK, NEW refs \in SUBSET Study
    PROVE  SessionCounters(refs) \in SUBSET PageCounter
<1>1. \A s \in refs : sitting[s].owner \in Learner \cup {NoLearner}
  BY DEF PagesTypeOK
<1> QED
  BY <1>1 DEF SessionCounters, PageCounter

LEMMA AgedTyped ==
    ASSUME PagesTypeOK, NEW left, aged' = aged \cup (Turned \ left)
    PROVE  aged' \subseteq SessionPage \cup LearnerPage
BY DEF PagesTypeOK, Turned

\* What the others know stays so where no session they name becomes new or changes hands.
LEMMA OthersKnow ==
    ASSUME ClerksKnow, PagesTypeOK, clerk \in [Clerk -> ClerkState], NEW h \in Clerk,
           \A g \in Clerk : g # h => clerk'[g] = clerk[g],
           \A x \in Study : sitting[x].st # "new" =>
              sitting'[x].st # "new" /\ sitting'[x].owner = sitting[x].owner,
           clerk'[h].pc \in {"close", "score", "closed", "credit", "break", "delete"} =>
             clerk'[h].of \in Study,
           clerk'[h].pc = "disband" => clerk'[h].of \in Club,
           clerk'[h].pc \in {"score", "closed", "credit"} => sitting'[clerk'[h].of].st # "new",
           clerk'[h].pc \notin {"score", "closed", "bump"} => clerk'[h].owes = {},
           clerk'[h].pc = "score" => clerk'[h].owes =
             {<<"session", clerk'[h].of>>, <<"owner", sitting'[clerk'[h].of].owner>>}
    PROVE  ClerksKnow'
<1> SUFFICES ASSUME NEW g \in Clerk
             PROVE  /\ clerk'[g].pc \in {"close", "score", "closed", "credit", "break", "delete"} =>
                         clerk'[g].of \in Study
                    /\ clerk'[g].pc = "disband" => clerk'[g].of \in Club
                    /\ clerk'[g].pc \in {"score", "closed", "credit"} =>
                         sitting'[clerk'[g].of].st # "new"
                    /\ clerk'[g].pc \notin {"score", "closed", "bump"} => clerk'[g].owes = {}
                    /\ clerk'[g].pc = "score" => clerk'[g].owes =
                         {<<"session", clerk'[g].of>>, <<"owner", sitting'[clerk'[g].of].owner>>}
  BY DEF ClerksKnow
<1>1. CASE g = h
  BY <1>1
<1>2. CASE g # h
  <2>1. clerk'[g] = clerk[g]
    BY <1>2
  <2>2. clerk[g].pc \in {"close", "score", "closed", "credit", "break", "delete"} =>
          clerk[g].of \in Study
    BY DEF ClerksKnow
  <2>3. clerk[g].pc = "disband" => clerk[g].of \in Club
    BY DEF ClerksKnow
  <2>4. clerk[g].pc \in {"score", "closed", "credit"} => sitting[clerk[g].of].st # "new"
    BY DEF ClerksKnow
  <2>5. clerk[g].pc \notin {"score", "closed", "bump"} => clerk[g].owes = {}
    BY DEF ClerksKnow
  <2>6. clerk[g].pc = "score" => clerk[g].owes =
          {<<"session", clerk[g].of>>, <<"owner", sitting[clerk[g].of].owner>>}
    BY DEF ClerksKnow
  <2>7. clerk[g].pc = "score" => sitting'[clerk[g].of].owner = sitting[clerk[g].of].owner
    BY <2>2, <2>4
  <2>8. clerk'[g].pc = "score" => clerk'[g].owes =
          {<<"session", clerk'[g].of>>, <<"owner", sitting'[clerk'[g].of].owner>>}
    BY <2>1, <2>6, <2>7
  <2>9. clerk'[g].pc \in {"score", "closed", "credit"} => sitting'[clerk'[g].of].st # "new"
    BY <2>1, <2>2, <2>4
  <2> QED
    BY <2>1, <2>2, <2>3, <2>5, <2>8, <2>9
<1> QED
  BY <1>1, <1>2

LEMMA OneRowChanges ==
    ASSUME NEW s \in Study, NEW owes, \A x \in Study : x # s => sitting'[x] = sitting[x],
           Live(s) => <<"owner", sitting[s].owner>> \in owes,
           sitting'[s].st \in {"open", "ended"} => <<"owner", sitting'[s].owner>> \in owes,
           NEW u \in Learner, <<"owner", u>> \notin owes
    PROVE  KeepsEnds(u) /\ KeepsRows(u)
<1> SUFFICES ASSUME NEW x \in OwnedBy(u) \cup OwnedBy(u)'
             PROVE  sitting'[x] = sitting[x]
  BY DEF KeepsEnds, KeepsRows
<1>1. x \in Study
  BY DEF OwnedBy
<1>2. x # s
  BY DEF OwnedBy, Live
<1> QED
  BY <1>1, <1>2

\* A write of one session's row whose owner's counter is owed, and the session's own
\* where somebody can have read it.
LEMMA RowWriteKeeps ==
    ASSUME PagesInv, NEW h \in Clerk, NEW s \in Study, NEW r \in SittingRow,
           sitting' = [sitting EXCEPT ![s] = r], UNCHANGED <<club, target, studied>>,
           NEW pc \in {"score", "closed", "bump"}, NEW of \in Study \cup {NoStudy},
           NEW owes \in SUBSET PageCounter, clerk[h].owes \subseteq owes, Writes(h, pc, of, owes),
           r.st # "new" => r.owner \in Learner,
           sitting[s].st # "new" => r.st # "new" /\ r.owner = sitting[s].owner,
           Live(s) => <<"owner", sitting[s].owner>> \in owes,
           r.st \in {"open", "ended"} => <<"owner", r.owner>> \in owes,
           Live(s) /\ <<"session", s>> \notin owes =>
             [r EXCEPT !.rated = FALSE] = [sitting[s] EXCEPT !.rated = FALSE],
           pc # "bump" => of = s /\ r.st # "new",
           pc = "score" => owes = {<<"session", s>>, <<"owner", r.owner>>}
    PROVE  PagesInv'
<1>1. PagesTypeOK /\ clerk \in [Clerk -> ClerkState] /\ ClerksKnow /\ SittingsAreOwned
      /\ SessionPagesAreBumped
  BY DEF PagesInv
<1>2. sitting \in [Study -> SittingRow]
  BY <1>1 DEF PagesTypeOK, SittingRow
<1>3. sitting' \in [Study -> SittingRow] /\ sitting'[s] = r
      /\ \A x \in Study : x # s => sitting'[x] = sitting[x]
  BY <1>2
<1>4. pc \in ClerkSteps /\ WritesBut(h, pc, of, owes, {})
  BY DEF ClerkSteps, Writes
<1>5. /\ clerk' \in [Clerk -> ClerkState]
      /\ clerk'[h].pc = pc /\ clerk'[h].of = of /\ clerk'[h].owes = owes
      /\ \A g \in Clerk : g # h => clerk'[g] = clerk[g]
  BY <1>1, <1>4, ServesSets DEF WritesBut
<1>6. aged' \subseteq SessionPage \cup LearnerPage
  BY <1>1, <1>4, AgedTyped DEF WritesBut
<1>7. PagesTypeOK'
  BY <1>1, <1>3, <1>6 DEF PagesTypeOK, SittingRow, SessionPage, LearnerPage
<1>8. \A x \in Study : sitting[x].st # "new" =>
        sitting'[x].st # "new" /\ sitting'[x].owner = sitting[x].owner
  BY <1>3
<1>9. ClerksKnow'
  BY <1>1, <1>3, <1>5, <1>8, OthersKnow
<1>10. SittingsAreOwned'
  BY <1>1, <1>3 DEF SittingsAreOwned
<1>11. \A k \in Turned \ {} : Stamps(k) \cap owes # {}
  <2>1. \A u \in Learner : <<"owner", u>> \notin owes => KeepsEnds(u) /\ KeepsRows(u)
    BY <1>3, OneRowChanges
  <2>2. \A x \in Study : <<"session", x>> \notin owes /\ Live(x) =>
          [sitting'[x] EXCEPT !.rated = FALSE] = [sitting[x] EXCEPT !.rated = FALSE]
    BY <1>3
  <2> QED
    BY <1>1, <2>1, <2>2, TurnedAreStamped
<1>12. SessionPagesAreBumped'
  BY <1>1, <1>4, <1>11, WriteBumps
<1> QED
  BY <1>5, <1>7, <1>9, <1>10, <1>12 DEF PagesInv

LEMMA StartStudyKeeps ==
    ASSUME PagesInv, NEW h \in Clerk, NEW u \in Learner, NEW s \in Study,
           NEW c \in Club \cup {NoClub}, StartStudy(h, u, s, c)
    PROVE  PagesInv'
<1>1. sitting \in [Study -> SittingRow]
  BY DEF PagesInv, PagesTypeOK, SittingRow
<1>2. PICK r \in SittingRow : r = [sitting[s] EXCEPT !.st = "open", !.owner = u, !.club = c]
  BY <1>1 DEF SittingRow
<1>3. r.st = "open" /\ r.owner = u
  BY <1>1, <1>2 DEF SittingRow
<1>4. sitting[s].st = "new" /\ ~ Live(s)
  BY DEF StartStudy, Live
<1>5. /\ sitting' = [sitting EXCEPT ![s] = r] /\ UNCHANGED <<club, target, studied>>
      /\ Writes(h, "bump", NoStudy, {<<"owner", u>>})
  BY <1>2 DEF StartStudy
<1>6. clerk[h].owes = {}
  BY DEF StartStudy, Waits, PagesInv, ClerksKnow
<1>7. {<<"owner", u>>} \in SUBSET PageCounter
  BY DEF PageCounter
<1> QED
  BY <1>3, <1>4, <1>5, <1>6, <1>7, RowWriteKeeps

LEMMA JoinStudyKeeps ==
    ASSUME PagesInv, NEW h \in Clerk, NEW u \in Learner, NEW s \in Study, NEW found \in Study,
           JoinStudy(h, u, s, found)
    PROVE  PagesInv'
<1>1. sitting \in [Study -> SittingRow]
  BY DEF PagesInv, PagesTypeOK, SittingRow
<1>2. PICK host \in Study : sitting' = [sitting EXCEPT ![s] =
        [@ EXCEPT !.st = "open", !.owner = u, !.club = sitting[found].club, !.host = host]]
  BY DEF JoinStudy, Live
<1>3. PICK r \in SittingRow :
        r = [sitting[s] EXCEPT !.st = "open", !.owner = u, !.club = sitting[found].club,
                               !.host = host]
  <2>1. sitting[s] \in SittingRow /\ sitting[found].club \in Club \cup {NoClub}
    BY <1>1 DEF SittingRow
  <2>2. PICK c \in Club \cup {NoClub} : c = sitting[found].club
    BY <2>1
  <2>3. [sitting[s] EXCEPT !.st = "open", !.owner = u, !.club = c, !.host = host] \in SittingRow
    BY <2>1 DEF SittingRow
  <2> QED
    BY <2>2, <2>3
<1>4. r.st = "open" /\ r.owner = u
  BY <1>1, <1>3 DEF SittingRow
<1>5. sitting[s].st = "new" /\ ~ Live(s)
  BY DEF JoinStudy, Live
<1>6. /\ sitting' = [sitting EXCEPT ![s] = r] /\ UNCHANGED <<club, target, studied>>
      /\ Writes(h, "bump", NoStudy, {<<"owner", u>>})
  BY <1>2, <1>3 DEF JoinStudy
<1>7. clerk[h].owes = {}
  BY DEF JoinStudy, Waits, PagesInv, ClerksKnow
<1>8. {<<"owner", u>>} \in SUBSET PageCounter
  BY DEF PageCounter
<1> QED
  BY <1>4, <1>5, <1>6, <1>7, <1>8, RowWriteKeeps

\* A handler that reads, or that finds nothing to write, leaves the pages alone.
LEMMA ReadKeeps ==
    ASSUME PagesInv, NEW h \in Clerk, NEW d \in ClerkState, clerk' = [clerk EXCEPT ![h] = d],
           UNCHANGED <<sitting, club, target, studied, aged>>,
           clerk[h].owes = {}, d.owes = {},
           d.pc \in {"idle", "close", "break", "delete", "disband"},
           d.pc \in {"close", "break", "delete"} => d.of \in Study,
           d.pc = "disband" => d.of \in Club
    PROVE  PagesInv'
<1>1. PagesTypeOK /\ clerk \in [Clerk -> ClerkState] /\ ClerksKnow /\ SittingsAreOwned
      /\ SessionPagesAreBumped
  BY DEF PagesInv
<1>2. clerk' \in [Clerk -> ClerkState] /\ clerk'[h] = d
      /\ \A g \in Clerk : g # h => clerk'[g] = clerk[g]
  BY <1>1
<1>3. PagesTypeOK' /\ SittingsAreOwned'
  BY <1>1 DEF PagesTypeOK, SittingsAreOwned
<1>4. ClerksKnow'
  BY <1>1, <1>2, OthersKnow
<1>5. SessionPagesAreBumped'
  BY <1>1, <1>2, ReadBumps
<1> QED
  BY <1>2, <1>3, <1>4, <1>5 DEF PagesInv

LEMMA LeavesKeeps ==
    ASSUME PagesInv, NEW h \in Clerk, Leaves(h), clerk[h].owes = {},
           UNCHANGED <<sitting, club, target, studied, aged>>
    PROVE  PagesInv'
<1>1. AtEase \in ClerkState /\ AtEase.owes = {} /\ AtEase.pc = "idle"
  BY DEF AtEase, ClerkState, ClerkSteps
<1> QED
  BY <1>1, ReadKeeps DEF Leaves

LEMMA BeginsKeep ==
    ASSUME PagesInv, NEW h \in Clerk, NEW s \in Study,
           BeginClose(h, s) \/ BeginBreak(h, s) \/ BeginDeleteStudy(h, s)
    PROVE  PagesInv'
<1>1. clerk[h].owes = {} /\ UNCHANGED <<sitting, club, target, studied, aged>>
  BY DEF BeginClose, BeginBreak, BeginDeleteStudy, Waits, PagesInv, ClerksKnow
<1>2. PICK pc \in {"close", "break", "delete"}, refs \in SUBSET Study :
        clerk' = [clerk EXCEPT ![h] = [pc |-> pc, of |-> s, owes |-> {}, refs |-> refs]]
  BY DEF BeginClose, BeginBreak, BeginDeleteStudy, Serves
<1>3. PICK d \in ClerkState : d = [pc |-> pc, of |-> s, owes |-> {}, refs |-> refs]
  BY DEF ClerkState, ClerkSteps
<1>4. d.pc = pc /\ d.of = s /\ d.owes = {}
  BY <1>3
<1> QED
  BY <1>1, <1>2, <1>3, <1>4, ReadKeeps

LEMMA BeginDisbandKeeps ==
    ASSUME PagesInv, NEW h \in Clerk, NEW c \in Club, BeginDisband(h, c)
    PROVE  PagesInv'
<1>1. clerk[h].owes = {} /\ UNCHANGED <<sitting, club, target, studied, aged>>
  BY DEF BeginDisband, Waits, PagesInv, ClerksKnow
<1>2. PICK refs \in SUBSET Study :
        clerk' = [clerk EXCEPT ![h] = [pc |-> "disband", of |-> c, owes |-> {}, refs |-> refs]]
  BY DEF BeginDisband
<1>3. PICK d \in ClerkState : d = [pc |-> "disband", of |-> c, owes |-> {}, refs |-> refs]
  BY DEF ClerkState, ClerkSteps
<1>4. d.pc = "disband" /\ d.of = c /\ d.owes = {}
  BY <1>3
<1> QED
  BY <1>1, <1>2, <1>3, <1>4, ReadKeeps

LEMMA WriteCloseKeeps ==
    ASSUME PagesInv, NEW h \in Clerk, WriteClose(h)
    PROVE  PagesInv'
<1>1. PICK s \in Study : s = clerk[h].of
  BY DEF WriteClose, PagesInv, ClerksKnow
<1>2. clerk[h].owes = {} /\ UNCHANGED <<club, target, studied>>
  BY DEF WriteClose, PagesInv, ClerksKnow
<1>3. CASE Live(s)
  <2>1. sitting \in [Study -> SittingRow]
    BY DEF PagesInv, PagesTypeOK, SittingRow
  <2>2. PICK r \in SittingRow : r = [sitting[s] EXCEPT !.st = "ended"]
    BY <2>1 DEF SittingRow
  <2>3. r.st = "ended" /\ r.owner = sitting[s].owner
    BY <2>1, <2>2 DEF SittingRow
  <2>4. sitting' = [sitting EXCEPT ![s] = r] /\ Writes(h, "score", s, SessionCounters({s}))
    BY <1>1, <1>3, <2>2 DEF WriteClose
  <2>5. sitting[s].st # "new" /\ sitting[s].owner \in Learner
    BY <1>3 DEF Live, PagesInv, SittingsAreOwned
  <2>6. SessionCounters({s}) \in SUBSET PageCounter
    BY CountersTyped DEF PagesInv
  <2>7. SessionCounters({s}) = {<<"session", s>>, <<"owner", sitting[s].owner>>}
    BY OneSessionsCounters
  <2> QED
    BY <1>2, <1>3, <2>3, <2>4, <2>5, <2>6, <2>7, RowWriteKeeps
<1>4. CASE ~ Live(s)
  <2>1. Leaves(h) /\ UNCHANGED <<sitting, aged>>
    BY <1>1, <1>4 DEF WriteClose
  <2> QED
    BY <1>2, <2>1, LeavesKeeps
<1> QED
  BY <1>3, <1>4

LEMMA ScoreStudyKeeps ==
    ASSUME PagesInv, NEW h \in Clerk, ScoreStudy(h)
    PROVE  PagesInv'
<1>1. PICK s \in Study : s = clerk[h].of
  BY DEF ScoreStudy, PagesInv, ClerksKnow
<1>2. UNCHANGED <<club, target, studied>> /\ Writes(h, "closed", s, clerk[h].owes)
      /\ clerk[h].owes \in SUBSET PageCounter
  BY <1>1 DEF ScoreStudy, PagesInv, ClerkState
<1>3. sitting \in [Study -> SittingRow]
  BY DEF PagesInv, PagesTypeOK, SittingRow
<1>4. PICK r \in SittingRow : r = [sitting[s] EXCEPT !.scored = @ \/ Live(s)]
  BY <1>3 DEF SittingRow
<1>5. r.st = sitting[s].st /\ r.owner = sitting[s].owner
  BY <1>3, <1>4 DEF SittingRow
<1>6. sitting' = [sitting EXCEPT ![s] = r]
  BY <1>1, <1>4 DEF ScoreStudy
<1>7. sitting[s].st # "new" /\ sitting[s].owner \in Learner
  BY <1>1 DEF ScoreStudy, PagesInv, ClerksKnow, SittingsAreOwned
<1>8. clerk[h].owes = {<<"session", s>>, <<"owner", sitting[s].owner>>}
  BY <1>1 DEF ScoreStudy, PagesInv, ClerksKnow
<1> QED
  BY <1>1, <1>2, <1>5, <1>6, <1>7, <1>8, RowWriteKeeps

LEMMA AddInterruptionKeeps ==
    ASSUME PagesInv, NEW h \in Clerk, AddInterruption(h)
    PROVE  PagesInv'
<1>1. PICK s \in Study : s = clerk[h].of
  BY DEF AddInterruption, PagesInv, ClerksKnow
<1>2. clerk[h].owes = {} /\ UNCHANGED <<club, target, studied>>
  BY DEF AddInterruption, PagesInv, ClerksKnow
<1>3. CASE Live(s) /\ Touch
  <2>1. sitting \in [Study -> SittingRow]
    BY DEF PagesInv, PagesTypeOK, SittingRow
  <2>2. PICK r \in SittingRow : r = [sitting[s] EXCEPT !.broken = TRUE]
    BY <2>1 DEF SittingRow
  <2>3. r.st = sitting[s].st /\ r.owner = sitting[s].owner
    BY <2>1, <2>2 DEF SittingRow
  <2>4. sitting' = [sitting EXCEPT ![s] = r] /\ Writes(h, "bump", NoStudy, SessionCounters({s}))
    BY <1>1, <1>3, <2>2 DEF AddInterruption
  <2>5. sitting[s].st # "new" /\ sitting[s].owner \in Learner
    BY <1>3 DEF Live, PagesInv, SittingsAreOwned
  <2>6. SessionCounters({s}) \in SUBSET PageCounter
    BY CountersTyped DEF PagesInv
  <2>7. SessionCounters({s}) = {<<"session", s>>, <<"owner", sitting[s].owner>>}
    BY OneSessionsCounters
  <2> QED
    BY <1>2, <1>3, <2>3, <2>4, <2>5, <2>6, <2>7, RowWriteKeeps
<1>4. CASE ~ (Live(s) /\ Touch)
  <2>1. Leaves(h) /\ UNCHANGED <<sitting, aged>>
    BY <1>1, <1>4 DEF AddInterruption
  <2> QED
    BY <1>2, <2>1, LeavesKeeps
<1> QED
  BY <1>3, <1>4

LEMMA RateStudyKeeps ==
    ASSUME PagesInv, NEW h \in Clerk, NEW s \in Study, RateStudy(h, s)
    PROVE  PagesInv'
<1>1. Live(s) /\ clerk[h].owes = {} /\ UNCHANGED <<club, target, studied>>
      /\ Writes(h, "bump", NoStudy, {<<"owner", sitting[s].owner>>})
  BY DEF RateStudy, Waits, PagesInv, ClerksKnow
<1>2. sitting \in [Study -> SittingRow]
  BY DEF PagesInv, PagesTypeOK, SittingRow
<1>3. PICK r \in SittingRow : r = [sitting[s] EXCEPT !.rated = TRUE]
  BY <1>2 DEF SittingRow
<1>4. r.st = sitting[s].st /\ r.owner = sitting[s].owner
      /\ [r EXCEPT !.rated = FALSE] = [sitting[s] EXCEPT !.rated = FALSE]
  BY <1>2, <1>3 DEF SittingRow
<1>5. sitting' = [sitting EXCEPT ![s] = r]
  BY <1>3 DEF RateStudy
<1>6. sitting[s].st # "new" /\ sitting[s].owner \in Learner
  BY <1>1 DEF Live, PagesInv, SittingsAreOwned
<1>7. {<<"owner", sitting[s].owner>>} \in SUBSET PageCounter
  BY <1>6 DEF PageCounter
<1> QED
  BY <1>1, <1>4, <1>5, <1>6, <1>7, RowWriteKeeps

\* A write of a goal or of a streak's day: no session is touched.
LEMMA ListWriteKeeps ==
    ASSUME PagesInv, NEW h \in Clerk, NEW u \in Learner, NEW d \in {"goal", "streak"},
           clerk[h].owes = {}, UNCHANGED <<sitting, club>>,
           target' \subseteq Learner, studied' \subseteq Learner,
           \A v \in Learner : v # u \/ d # "goal" => (v \in target' <=> v \in target),
           \A v \in Learner : v # u \/ d # "streak" => (v \in studied' <=> v \in studied),
           Writes(h, "bump", NoStudy, {<<d, u>>})
    PROVE  PagesInv'
<1>1. PagesTypeOK /\ clerk \in [Clerk -> ClerkState] /\ ClerksKnow /\ SittingsAreOwned
      /\ SessionPagesAreBumped
  BY DEF PagesInv
<1>2. "bump" \in ClerkSteps /\ {<<d, u>>} \in SUBSET PageCounter
      /\ WritesBut(h, "bump", NoStudy, {<<d, u>>}, {})
  BY DEF ClerkSteps, Writes, PageCounter
<1>3. /\ clerk' \in [Clerk -> ClerkState]
      /\ clerk'[h].pc = "bump" /\ clerk'[h].of = NoStudy /\ clerk'[h].owes = {<<d, u>>}
      /\ \A g \in Clerk : g # h => clerk'[g] = clerk[g]
  BY <1>1, <1>2, ServesSets DEF WritesBut
<1>4. aged' \subseteq SessionPage \cup LearnerPage
  BY <1>1, <1>2, AgedTyped DEF WritesBut
<1>5. PagesTypeOK' /\ SittingsAreOwned'
  BY <1>1, <1>4 DEF PagesTypeOK, SittingsAreOwned, SessionPage, LearnerPage
<1>6. ClerksKnow'
  BY <1>1, <1>3, OthersKnow
<1>7. \A k \in Turned \ {} : Stamps(k) \cap {<<d, u>>} # {}
  <2>1. \A v \in Learner : KeepsEnds(v) /\ KeepsRows(v)
    BY DEF KeepsEnds, KeepsRows
  <2>2. \A v \in Learner : <<"goal", v>> \notin {<<d, u>>} => (v \in target' <=> v \in target)
    OBVIOUS
  <2>3. \A v \in Learner : <<"streak", v>> \notin {<<d, u>>} => (v \in studied' <=> v \in studied)
    OBVIOUS
  <2> QED
    BY <1>1, <2>1, <2>2, <2>3, TurnedAreStamped
<1>8. SessionPagesAreBumped'
  BY <1>1, <1>2, <1>7, WriteBumps
<1> QED
  BY <1>3, <1>5, <1>6, <1>8 DEF PagesInv

LEMMA CreditDayKeeps ==
    ASSUME PagesInv, NEW h \in Clerk, CreditDay(h)
    PROVE  PagesInv'
<1>1. PICK u \in Learner : u = sitting[clerk[h].of].owner
  BY DEF CreditDay, PagesInv, ClerksKnow, SittingsAreOwned
<1>2. clerk[h].owes = {} /\ UNCHANGED <<sitting, club, target>>
  BY DEF CreditDay, PagesInv, ClerksKnow
<1>3. CASE u \in studied
  <2>1. Leaves(h) /\ UNCHANGED <<studied, aged>>
    BY <1>1, <1>3 DEF CreditDay
  <2> QED
    BY <1>2, <2>1, LeavesKeeps
<1>4. CASE u \notin studied
  <2>1. studied' = studied \cup {u} /\ Writes(h, "bump", NoStudy, {<<"streak", u>>})
    BY <1>1, <1>4 DEF CreditDay
  <2>2. target \subseteq Learner /\ studied \subseteq Learner
    BY DEF PagesInv, PagesTypeOK
  <2> QED
    BY <1>2, <2>1, <2>2, ListWriteKeeps
<1> QED
  BY <1>3, <1>4

LEMMA WriteGoalKeeps ==
    ASSUME PagesInv, NEW h \in Clerk, NEW u \in Learner, WriteGoal(h, u)
    PROVE  PagesInv'
<1>1. clerk[h].owes = {} /\ UNCHANGED <<sitting, club, studied>>
      /\ Writes(h, "bump", NoStudy, {<<"goal", u>>})
  BY DEF WriteGoal, Waits, PagesInv, ClerksKnow
<1>2. target' = target \cup {u} \/ target' = target \ {u}
  BY DEF WriteGoal
<1>3. target \subseteq Learner /\ studied \subseteq Learner
  BY DEF PagesInv, PagesTypeOK
<1> QED
  BY <1>1, <1>2, <1>3, ListWriteKeeps

\* A deletion: rows the handler has listed lose a link, and so do rows it has not,
\* which it leaves to expire; what has ended and who owns it stays, but for what goes.
Detaches(refs, late) ==
    /\ sitting' \in [Study -> SittingRow]
    /\ club' \in [Club -> [there : BOOLEAN, renamed : 0..1]]
    /\ \A c \in Club : club'[c].renamed = club[c].renamed
    /\ \A x \in Study : sitting[x].st # "new" =>
          sitting'[x].st # "new" /\ sitting'[x].owner = sitting[x].owner
    /\ \A x \in Study : sitting[x].st = "new" => sitting'[x].st = "new"
    /\ \A x \in Study : sitting'[x].st \in {"open", "ended"} => Live(x)
    /\ \A x \in Study \ refs : Live(x) => sitting'[x].st = sitting[x].st
    /\ \A x \in Study \ (refs \cup late) : Live(x) => sitting'[x] = sitting[x]

LEMMA DetachKeeps ==
    ASSUME PagesInv, NEW h \in Clerk, NEW refs \in SUBSET Study, NEW late \in SUBSET Study,
           clerk[h].owes = {}, Detaches(refs, late), UNCHANGED <<target, studied>>,
           WritesBut(h, "bump", NoStudy, SessionCounters(refs), Unseen(late))
    PROVE  PagesInv'
<1> PICK owes, left : owes = SessionCounters(refs) /\ left = Unseen(late)
  OBVIOUS
<1>0. WritesBut(h, "bump", NoStudy, owes, left)
  OBVIOUS
<1>1. PagesTypeOK /\ clerk \in [Clerk -> ClerkState] /\ ClerksKnow /\ SittingsAreOwned
      /\ SessionPagesAreBumped
  BY DEF PagesInv
<1>2. "bump" \in ClerkSteps /\ owes \in SUBSET PageCounter
      /\ NoStudy \in Study \cup Club \cup {NoStudy}
  BY <1>1, CountersTyped DEF ClerkSteps
<1>3. /\ clerk' \in [Clerk -> ClerkState]
      /\ clerk'[h].pc = "bump" /\ clerk'[h].of = NoStudy /\ clerk'[h].owes = owes
      /\ \A g \in Clerk : g # h => clerk'[g] = clerk[g]
  <2>1. Serves(h, "bump", NoStudy, owes)
    BY <1>0 DEF WritesBut
  <2> QED
    BY <1>1, <1>2, <2>1, ServesSets
<1>4. aged' \subseteq SessionPage \cup LearnerPage
  BY <1>0, <1>1, AgedTyped DEF WritesBut
<1>5. PagesTypeOK'
  BY <1>1, <1>4 DEF Detaches, PagesTypeOK, SittingRow, SessionPage, LearnerPage
<1>6. SittingsAreOwned'
  BY <1>1 DEF Detaches, SittingsAreOwned
<1>7. ClerksKnow'
  BY <1>1, <1>3, OthersKnow DEF Detaches
<1>8. \A s \in refs : <<"session", s>> \in owes /\ <<"owner", sitting[s].owner>> \in owes
  BY DEF SessionCounters
<1>9. ASSUME NEW u \in Learner, <<"owner", u>> \notin owes
      PROVE  /\ KeepsEnds(u)
             /\ KeepsRows(u) \/ {<<"history", u>>, <<"analytics", u>>} \subseteq left
  <2>1. ASSUME NEW x \in OwnedBy(u) \cup OwnedBy(u)'
        PROVE  x \in Study \ refs /\ Live(x) /\ sitting[x].owner = u
    <3>1. x \in Study
      BY DEF OwnedBy
    <3>2. Live(x)
      BY <3>1 DEF Detaches, OwnedBy, Live
    <3>3. sitting[x].owner = u
      BY <3>1, <3>2 DEF Detaches, OwnedBy, Live
    <3> QED
      BY <1>8, <1>9, <3>1, <3>2, <3>3
  <2>2. KeepsEnds(u)
    <3> SUFFICES ASSUME NEW x \in OwnedBy(u) \cup OwnedBy(u)'
                 PROVE  sitting'[x].st = sitting[x].st /\ sitting'[x].owner = sitting[x].owner
      BY DEF KeepsEnds
    <3>1. x \in Study \ refs /\ Live(x) /\ sitting[x].st # "new"
      BY <2>1 DEF Live
    <3> QED
      BY <3>1 DEF Detaches
  <2>3. CASE \A x \in late : sitting[x].owner # u
    <3>1. KeepsRows(u)
      BY <2>1, <2>3 DEF Detaches, KeepsRows
    <3> QED
      BY <2>2, <3>1
  <2>4. CASE \E x \in late : sitting[x].owner = u
    <3>1. {<<"history", u>>, <<"analytics", u>>} \subseteq left
      BY <2>4 DEF Unseen
    <3> QED
      BY <2>2, <3>1
  <2> QED
    BY <2>3, <2>4
<1>10. ASSUME NEW s \in Study, <<"session", s>> \notin owes, Live(s)
       PROVE  \/ [sitting'[s] EXCEPT !.rated = FALSE] = [sitting[s] EXCEPT !.rated = FALSE]
              \/ <<"session", s>> \in left
  <2>1. s \notin refs
    BY <1>8, <1>10
  <2>2. CASE s \in late
    BY <2>2 DEF Unseen
  <2>3. CASE s \notin late
    BY <1>10, <2>1, <2>3 DEF Detaches
  <2> QED
    BY <2>2, <2>3
<1>11. \A k \in Turned \ left : Stamps(k) \cap owes # {}
  BY <1>1, <1>9, <1>10, TurnedAreStamped DEF Detaches
<1>12. clerk[h].owes \subseteq owes
  OBVIOUS
<1>13. SessionPagesAreBumped'
  BY <1>0, <1>1, <1>2, <1>11, <1>12, WriteBumps
<1> QED
  BY <1>3, <1>5, <1>6, <1>7, <1>13 DEF PagesInv

LEMMA DeleteStudyKeeps ==
    ASSUME PagesInv, NEW h \in Clerk, DeleteStudy(h)
    PROVE  PagesInv'
<1>1. PICK s \in Study : s = clerk[h].of
  BY DEF DeleteStudy, PagesInv, ClerksKnow
<1>2. clerk[h].owes = {} /\ UNCHANGED <<club, target, studied>>
  BY DEF DeleteStudy, PagesInv, ClerksKnow
<1>3. PICK refs \in SUBSET Study : refs = {s} \cup clerk[h].refs
  BY DEF PagesInv, ClerkState
<1>4. PICK late \in SUBSET Study :
        late = {x \in Study : Live(x) /\ sitting[x].host = s} \ clerk[h].refs
  OBVIOUS
<1>5. CASE ~ Live(s)
  <2>1. Leaves(h) /\ UNCHANGED <<sitting, aged>>
    BY <1>1, <1>5 DEF DeleteStudy
  <2> QED
    BY <1>2, <2>1, LeavesKeeps
<1>6. CASE Live(s)
  <2>1. sitting \in [Study -> SittingRow] /\ club \in [Club -> [there : BOOLEAN, renamed : 0..1]]
    BY DEF PagesInv, PagesTypeOK, SittingRow
  <2>2. PICK r \in SittingRow : r = [NewSitting EXCEPT !.st = "gone", !.owner = sitting[s].owner]
    BY <2>1 DEF SittingRow, NewSitting
  <2>3. r.st = "gone" /\ r.owner = sitting[s].owner
    BY <2>2 DEF NewSitting
  <2>4. sitting' = [x \in Study |->
          IF x = s THEN r
          ELSE IF sitting[x].host = s THEN [sitting[x] EXCEPT !.host = NoStudy] ELSE sitting[x]]
    BY <1>1, <1>6, <2>2 DEF DeleteStudy
  <2>5. \A x \in Study : [sitting[x] EXCEPT !.host = NoStudy] \in SittingRow
    BY <2>1 DEF SittingRow
  <2>6. \A x \in Study : [sitting[x] EXCEPT !.host = NoStudy].st = sitting[x].st
                        /\ [sitting[x] EXCEPT !.host = NoStudy].owner = sitting[x].owner
    BY <2>1 DEF SittingRow
  <2>7. sitting' \in [Study -> SittingRow]
    BY <2>1, <2>4, <2>5
  <2>8. \A x \in Study : x # s => sitting'[x].st = sitting[x].st
                                 /\ sitting'[x].owner = sitting[x].owner
    BY <2>4, <2>6
  <2>9. sitting'[s] = r
    BY <2>4
  <2>10. sitting[s].st # "new"
    BY <1>6 DEF Live
  <2>11. \A x \in Study \ (refs \cup late) : Live(x) => sitting'[x] = sitting[x]
    BY <1>3, <1>4, <2>4
  <2>12. WritesBut(h, "bump", NoStudy, SessionCounters(refs), Unseen(late))
    BY <1>1, <1>3, <1>4, <1>6 DEF DeleteStudy
  <2>13. \A x \in Study : sitting'[x].st \in {"open", "ended"} => Live(x)
    BY <2>3, <2>8, <2>9 DEF Live
  <2>14. \A x \in Study \ refs : Live(x) => sitting'[x].st = sitting[x].st
    BY <1>3, <2>8
  <2>15. /\ \A x \in Study : sitting[x].st # "new" =>
               sitting'[x].st # "new" /\ sitting'[x].owner = sitting[x].owner
         /\ \A x \in Study : sitting[x].st = "new" => sitting'[x].st = "new"
    BY <2>3, <2>8, <2>9, <2>10
  <2> QED
    BY <1>2, <2>1, <2>7, <2>11, <2>12, <2>13, <2>14, <2>15, DetachKeeps DEF Detaches
<1> QED
  BY <1>5, <1>6

LEMMA DisbandKeeps ==
    ASSUME PagesInv, NEW h \in Clerk, Disband(h)
    PROVE  PagesInv'
<1>1. PICK c \in Club : c = clerk[h].of
  BY DEF Disband, PagesInv, ClerksKnow
<1>2. clerk[h].owes = {} /\ UNCHANGED <<target, studied>>
  BY DEF Disband, PagesInv, ClerksKnow
<1>3. PICK refs \in SUBSET Study : refs = clerk[h].refs
  BY DEF PagesInv, ClerkState
<1>4. PICK late \in SUBSET Study :
        late = {x \in Study : Live(x) /\ sitting[x].club = c} \ clerk[h].refs
  OBVIOUS
<1>5. CASE ~ club[c].there
  <2>1. Leaves(h) /\ UNCHANGED <<sitting, club, aged>>
    BY <1>1, <1>5 DEF Disband
  <2> QED
    BY <1>2, <2>1, LeavesKeeps
<1>6. CASE club[c].there
  <2>1. sitting \in [Study -> SittingRow] /\ club \in [Club -> [there : BOOLEAN, renamed : 0..1]]
    BY DEF PagesInv, PagesTypeOK, SittingRow
  <2>2. sitting' = [x \in Study |->
          IF sitting[x].club = c THEN [sitting[x] EXCEPT !.club = NoClub] ELSE sitting[x]]
    BY <1>1, <1>6 DEF Disband
  <2>3. club' = [club EXCEPT ![c].there = FALSE]
    BY <1>1, <1>6 DEF Disband
  <2>4. \A x \in Study : [sitting[x] EXCEPT !.club = NoClub] \in SittingRow
    BY <2>1 DEF SittingRow
  <2>5. \A x \in Study : [sitting[x] EXCEPT !.club = NoClub].st = sitting[x].st
                        /\ [sitting[x] EXCEPT !.club = NoClub].owner = sitting[x].owner
    BY <2>1 DEF SittingRow
  <2>6. sitting' \in [Study -> SittingRow]
    BY <2>1, <2>2, <2>4
  <2>7. \A x \in Study : sitting'[x].st = sitting[x].st /\ sitting'[x].owner = sitting[x].owner
    BY <2>2, <2>5
  <2>8. \A x \in Study \ (refs \cup late) : Live(x) => sitting'[x] = sitting[x]
    BY <1>3, <1>4, <2>2
  <2>9. WritesBut(h, "bump", NoStudy, SessionCounters(refs), Unseen(late))
    BY <1>1, <1>3, <1>4, <1>6 DEF Disband
  <2>10. club' \in [Club -> [there : BOOLEAN, renamed : 0..1]]
         /\ \A e \in Club : club'[e].renamed = club[e].renamed
    BY <2>1, <2>3
  <2>11. \A x \in Study : sitting'[x].st \in {"open", "ended"} => Live(x)
    BY <2>7 DEF Live
  <2> QED
    BY <1>2, <2>6, <2>7, <2>8, <2>9, <2>10, <2>11, DetachKeeps DEF Detaches
<1> QED
  BY <1>5, <1>6

LEMMA RenameClubKeeps ==
    ASSUME PagesInv, NEW c \in Club, RenameClub(c)
    PROVE  PagesInv'
<1>1. club \in [Club -> [there : BOOLEAN, renamed : 0..1]]
  BY DEF PagesInv, PagesTypeOK
<1>2. club' \in [Club -> [there : BOOLEAN, renamed : 0..1]]
  BY <1>1 DEF RenameClub
<1>3. UNCHANGED <<sitting, target, studied, clerk, aged>>
  BY DEF RenameClub
<1> QED
  BY <1>2, <1>3
    DEF PagesInv, PagesTypeOK, ClerksKnow, SittingsAreOwned, SessionPagesAreBumped, Stamps,
        SessionPage, LearnerPage

LEMMA BumpCountersKeeps ==
    ASSUME PagesInv, NEW h \in Clerk, BumpCounters(h)
    PROVE  PagesInv'
<1>1. PagesTypeOK /\ clerk \in [Clerk -> ClerkState] /\ ClerksKnow /\ SittingsAreOwned
      /\ SessionPagesAreBumped
  BY DEF PagesInv
<1>2. /\ clerk' \in [Clerk -> ClerkState] /\ clerk'[h].owes = {}
      /\ \/ clerk'[h].pc = "idle"
         \/ /\ clerk[h].pc = "closed" /\ clerk'[h].pc = "credit"
            /\ clerk'[h].of = clerk[h].of
      /\ \A g \in Clerk : g # h => clerk'[g] = clerk[g]
  <2>1. CASE clerk[h].pc = "closed"
    <3>1. PICK s \in Study : s = clerk[h].of
      BY <1>1, <2>1 DEF ClerksKnow
    <3>2. Serves(h, "credit", s, {})
      BY <2>1, <3>1 DEF BumpCounters
    <3>3. "credit" \in ClerkSteps
      BY DEF ClerkSteps
    <3> QED
      BY <1>1, <2>1, <3>1, <3>2, <3>3, ServesSets
  <2>2. CASE clerk[h].pc # "closed"
    <3>1. Leaves(h)
      BY <2>2 DEF BumpCounters
    <3> QED
      BY <1>1, <3>1, LeavesSets
  <2> QED
    BY <2>1, <2>2
<1>3. UNCHANGED <<sitting, club, target, studied>>
      /\ aged' = {k \in aged : Stamps(k) \cap clerk[h].owes = {}}
  BY DEF BumpCounters
<1>4. PagesTypeOK' /\ SittingsAreOwned'
  BY <1>1, <1>3 DEF PagesTypeOK, SittingsAreOwned, SessionPage, LearnerPage
<1>5. ClerksKnow'
  <2>1. clerk[h].pc = "closed" => clerk[h].of \in Study /\ sitting[clerk[h].of].st # "new"
    BY <1>1 DEF ClerksKnow
  <2> QED
    BY <1>1, <1>2, <1>3, <2>1, OthersKnow
<1>6. SessionPagesAreBumped'
  <2> SUFFICES ASSUME NEW k \in aged' PROVE \E g \in Clerk : Stamps(k) \cap clerk'[g].owes # {}
    BY DEF SessionPagesAreBumped, Stamps
  <2>1. k \in aged /\ Stamps(k) \cap clerk[h].owes = {}
    BY <1>3
  <2>2. PICK g \in Clerk : Stamps(k) \cap clerk[g].owes # {}
    BY <1>1, <2>1 DEF SessionPagesAreBumped
  <2>3. clerk'[g] = clerk[g]
    BY <1>2, <2>1, <2>2
  <2> QED
    BY <2>2, <2>3
<1> QED
  BY <1>2, <1>4, <1>5, <1>6 DEF PagesInv

LEMMA PagesStart == PagesInit => PagesInv
<1> SUFFICES ASSUME PagesInit PROVE PagesInv
  OBVIOUS
<1>1. PagesTypeOK
  BY DEF PagesInit, PagesTypeOK, NewSitting
<1>2. AtEase \in ClerkState /\ AtEase.pc = "idle" /\ AtEase.owes = {}
  BY DEF AtEase, ClerkState, ClerkSteps
<1>3. clerk \in [Clerk -> ClerkState] /\ \A h \in Clerk : clerk[h] = AtEase
  BY <1>2 DEF PagesInit
<1>4. ClerksKnow
  BY <1>2, <1>3 DEF ClerksKnow
<1>5. SittingsAreOwned /\ SessionPagesAreBumped
  BY DEF PagesInit, NewSitting, SittingsAreOwned, SessionPagesAreBumped
<1> QED
  BY <1>1, <1>3, <1>4, <1>5 DEF PagesInv

LEMMA PagesStep == PagesInv /\ [PagesNext]_pagesVars => PagesInv'
<1> SUFFICES ASSUME PagesInv, [PagesNext]_pagesVars PROVE PagesInv'
  OBVIOUS
<1>1. ASSUME NEW h \in Clerk, NEW u \in Learner, NEW s \in Study,
             \/ \E c \in Club \cup {NoClub} : StartStudy(h, u, s, c)
             \/ \E found \in Study : JoinStudy(h, u, s, found)
      PROVE  PagesInv'
  BY <1>1, StartStudyKeeps, JoinStudyKeeps
<1>2. ASSUME NEW h \in Clerk, NEW s \in Study,
             BeginClose(h, s) \/ BeginBreak(h, s) \/ RateStudy(h, s) \/ BeginDeleteStudy(h, s)
      PROVE  PagesInv'
  BY <1>2, BeginsKeep, RateStudyKeeps
<1>3. ASSUME NEW h \in Clerk, NEW u \in Learner, WriteGoal(h, u)
      PROVE  PagesInv'
  BY <1>3, WriteGoalKeeps
<1>4. ASSUME NEW h \in Clerk, NEW c \in Club, BeginDisband(h, c)
      PROVE  PagesInv'
  BY <1>4, BeginDisbandKeeps
<1>5. ASSUME NEW h \in Clerk,
             \/ WriteClose(h) \/ ScoreStudy(h) \/ CreditDay(h) \/ AddInterruption(h)
             \/ DeleteStudy(h) \/ Disband(h) \/ BumpCounters(h)
      PROVE  PagesInv'
  BY <1>5, WriteCloseKeeps, ScoreStudyKeeps, CreditDayKeeps, AddInterruptionKeeps,
     DeleteStudyKeeps, DisbandKeeps, BumpCountersKeeps
<1>6. ASSUME NEW c \in Club, RenameClub(c)
      PROVE  PagesInv'
  BY <1>6, RenameClubKeeps
<1>7. CASE UNCHANGED pagesVars
  BY <1>7
    DEF pagesVars, PagesInv, PagesTypeOK, ClerksKnow, SittingsAreOwned, SessionPagesAreBumped,
        Stamps, SessionPage, LearnerPage
<1> QED
  BY <1>1, <1>2, <1>3, <1>4, <1>5, <1>6, <1>7 DEF PagesNext

LEMMA SessionPagesInvariance == PagesSpec => []PagesInv
<1> QED
  BY PagesStart, PagesStep, PTL DEF PagesSpec

\* Every variable of the session pages keeps its type.
THEOREM PagesTypeCorrect == PagesSpec => []PagesTypeOK
<1>1. PagesInv => PagesTypeOK
  BY DEF PagesInv
<1> QED
  BY SessionPagesInvariance, <1>1, PTL

\* A page that no longer shows what is in the tables has a handler about to move a
\* counter of its key, whichever domain wrote and however the handlers overlap.
THEOREM SessionPagesBumped == PagesSpec => []SessionPagesAreBumped
<1>1. PagesInv => SessionPagesAreBumped
  BY DEF PagesInv
<1> QED
  BY SessionPagesInvariance, <1>1, PTL
=============================================================================
