---------------------------- MODULE MC_Community ----------------------------
(***************************************************************************)
(* TLC's instance of the parts people meet in: follows and blocks, posts,  *)
(* groups, routines, the chat and the cached pages sessions show in.  They *)
(* share no variable, so a behaviour is a behaviour of one of them, the    *)
(* one `part' names, with the others where they begin.                     *)
(***************************************************************************)
EXTENDS SocialGraph, CommunityPosts, StudyGroups, StudyRoutines, ChatThread, SessionPages,
        TLC

VARIABLE part

communityVars == <<part, socialVars, postsVars, groupVars, routineVars, chatVars, pagesVars>>

Init ==
    /\ part \in {"social", "posts", "groups", "routines", "chat", "pages"}
    /\ SocialInit /\ PostsInit /\ GroupsInit /\ RoutinesInit /\ ChatInit /\ PagesInit

In(p, A) == part = p /\ A

Next ==
    \/ In("social", SocialNext)
       /\ UNCHANGED <<part, postsVars, groupVars, routineVars, chatVars, pagesVars>>
    \/ In("posts", PostsNext)
       /\ UNCHANGED <<part, socialVars, groupVars, routineVars, chatVars, pagesVars>>
    \/ In("groups", GroupsNext)
       /\ UNCHANGED <<part, socialVars, postsVars, routineVars, chatVars, pagesVars>>
    \/ In("routines", RoutinesNext)
       /\ UNCHANGED <<part, socialVars, postsVars, groupVars, chatVars, pagesVars>>
    \/ In("chat", ChatNext)
       /\ UNCHANGED <<part, socialVars, postsVars, groupVars, routineVars, pagesVars>>
    \/ In("pages", PagesNext)
       /\ UNCHANGED <<part, socialVars, postsVars, groupVars, routineVars, chatVars>>

Spec == Init /\ [][Next]_communityVars

\* Every variable of every part keeps its type.
TypeOK ==
    /\ part = "social" => SocialTypeOK
    /\ part = "posts" => PostsTypeOK
    /\ part = "groups" => GroupsTypeOK
    /\ part = "routines" => RoutinesTypeOK
    /\ part = "chat" => ChatTypeOK
    /\ part = "pages" => PagesTypeOK

\* With nothing in flight, nothing cached is out of date but what was bumped:
\* every list, post, group, routine and session page that a write changed has had its
\* version counter moved on (the invalidate... function of each service).
PagesAreCurrent ==
    /\ part = "social" => ListsAreBumped
    /\ part = "posts" => PagesAreBumped
    /\ part = "groups" => GroupPagesAreBumped
    /\ part = "routines" => RoutinePagesAreBumped
    /\ part = "pages" => SessionPagesAreBumped

\* BubblesAreDistinct, SettledChatIsComplete and TypedIsKept: each message is on the
\* screen once, all of them once everything has landed, and none that was typed is
\* lost (messageStore.ts).
ChatIsWhole == BubblesAreDistinct /\ SettledChatIsComplete /\ TypedIsKept

\* The requests of every part are the same two values, and so are its ids.
Symmetry == Permutations(Call) \cup Permutations(Person)
=============================================================================
