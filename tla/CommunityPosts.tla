---------------------------- MODULE CommunityPosts ----------------------------
(***************************************************************************)
(* Posts and what hangs from them - likes, comments, bookmarks, reports -  *)
(* with the cached pages that show them: post, like, comment, bookmark,    *)
(* report and user services of apps/api over their repositories.           *)
(*                                                                         *)
(* A cached page is stamped with one version counter, so a page and its    *)
(* counter have one name here.  What a page shows is an operator on the    *)
(* tables (Page); a write changes tables, and a later call bumps the       *)
(* counters the handler has worked out.  owed holds the pages whose tables *)
(* have changed since their last bump: what a reader may still be shown.   *)
(***************************************************************************)
EXTENDS Integers, FiniteSets, FiniteSetsExt

CONSTANTS
    Person, Post,
    Nobody,
    Handler,            \* requests in flight
    MaxMarks,           \* bound: likes, comments, bookmarks and reports at once
    MaxChanges          \* bound: edits of posts and renames of people

ASSUME PostsAssumption ==
    /\ Person \cap Post = {} /\ Nobody \notin Person
    /\ MaxMarks \in Nat /\ MaxChanges \in Nat

VARIABLES
    post,       \* the posts table: state, author and text of each
    mark,       \* likes, comments, bookmarks, reports: <<kind, person, target>>
    edited,     \* the comments edited, the reports withdrawn
    name,       \* users: how often they were renamed
    handler,    \* the requests in flight
    owed,       \* pages that may be served as they were before a write
    forgotten   \* history: pages a handler changed and does not bump

postsVars == <<post, mark, edited, name, handler, owed, forgotten>>

Kinds == {"like", "comment", "save", "report"}
Marks == (Kinds \X Person \X Post) \cup ({"report"} \X Person \X Person)
Free == [pc |-> "idle", who |-> Nobody, mark |-> <<"like", Nobody, Nobody>>, owes |-> {}]

PostsInit ==
    /\ post = [p \in Post |-> [st |-> "new", author |-> Nobody, text |-> 0]]
    /\ mark = {} /\ edited = {}
    /\ name = [u \in Person |-> 0]
    /\ handler = [h \in Handler |-> Free]
    /\ owed = {} /\ forgotten = {}

-----------------------------------------------------------------------------
\* The pages, named after the counter in their key.
PostPages == {"post", "thread", "likers"} \X Post
PersonPages == {"posts", "comments", "likes", "saved", "reports", "profile"} \X Person
CommentPages == {"comment"} \X Person \X Post
Pages == PostPages \cup PersonPages \cup CommentPages

Up(p) == post[p].st = "up"
By(u, kind) == {m \in mark : m[1] = kind /\ m[2] = u}
On(p, kind) == {m \in mark : m[1] = kind /\ m[3] = p}
Shown(target) == IF target \in Post THEN post[target].text ELSE name[target]

\* A list of one person's marks, each row with the post or person it is on.
Rows(u, kind) == {<<m, m \in edited, Shown(m[3])>> : m \in By(u, kind)}

\* A list of the marks on a post, each row with its author's name; 404 once the
\* post is gone.
RowsOn(p, kind) == {<<p, Up(p)>>} \cup
                   {<<m, m \in edited, name[m[2]]>> : m \in On(p, kind)}

\* What the handler behind each cached route would answer now.
Page(k) ==
    CASE k[1] = "post"     -> {<<post[k[2]].st, post[k[2]].text>>}
      [] k[1] = "posts"    -> {<<p, post[p].text>> :
                                 p \in {q \in Post : Up(q) /\ post[q].author = k[2]}}
      [] k[1] = "thread"   -> RowsOn(k[2], "comment")
      [] k[1] = "likers"   -> RowsOn(k[2], "like")
      [] k[1] = "comments" -> Rows(k[2], "comment")
      [] k[1] = "likes"    -> Rows(k[2], "like")
      [] k[1] = "saved"    -> Rows(k[2], "save")
      [] k[1] = "reports"  -> Rows(k[2], "report")
      [] k[1] = "profile"  -> {name[k[2]]}
      [] k[1] = "comment"  -> {<<m, m \in edited, name[m[2]]>> :
                                 m \in mark \cap {<<"comment", k[2], k[3]>>}}

\* A 404 is not cached.
Served(k) ==
    /\ k[1] \in {"post", "thread", "likers"} => Up(k[2])
    /\ k[1] = "comment" => k \in mark

\* The pages somebody may have been served that a step changes.
Changed == {k \in Pages : Served(k) /\ Page(k)' # Page(k)}

\* A write of handler h: it goes on to pc owing these bumps, and the pages it
\* changes owed until then.
Turns(h, pc, owes) ==
    /\ handler' = [handler EXCEPT ![h] = [Free EXCEPT !.pc = pc, !.owes = owes]]
    /\ owed' = owed \cup Changed

\* Edits and renames so far, for the bound.
Changes == MapThenSumSet(LAMBDA p : post[p].text, Post)
           + MapThenSumSet(LAMBDA u : name[u], Person)

AtStep(h, pc) == handler[h].pc = pc
Start(h, pc, u, m) ==
    /\ AtStep(h, "idle")
    /\ handler' = [handler EXCEPT ![h] = [pc |-> pc, who |-> u, mark |-> m, owes |-> {}]]
Finish(h) == handler' = [handler EXCEPT ![h] = Free]

-----------------------------------------------------------------------------
\* invalidateLike, invalidateComment, invalidateBookmark, invalidateReport: the
\* pages of one mark.
PagesOf(m) ==
    CASE m[1] = "like"    -> {<<"likers", m[3]>>, <<"likes", m[2]>>}
      [] m[1] = "comment" -> {<<"thread", m[3]>>, <<"comments", m[2]>>,
                              <<"comment", m[2], m[3]>>}
      [] m[1] = "save"    -> {<<"saved", m[2]>>}
      [] m[1] = "report"  -> {<<"reports", m[2]>>}

\* The target exists; nobody reports themselves or their own post.
MayMark(m) ==
    /\ m[3] \in Post => Up(m[3])
    /\ m[1] = "report" => m[2] # m[3] /\ (m[3] \in Post => post[m[3]].author # m[2])

\* likePost, createComment, saveBookmark and fileReport up to their insert: the
\* checks.  What exists already is the answer; a withdrawn report is reopened.
BeginMark(h, m) ==
    /\ MayMark(m)
    /\ m \in mark => m \in edited /\ m[1] = "report"
    /\ Start(h, "insert", m[2], m)
    /\ UNCHANGED <<post, mark, edited, name, owed, forgotten>>

\* Slip: the foreign key does not hold the row to a post that exists.
InsertMarkUnchecked(h) ==
    /\ AtStep(h, "insert")
    /\ LET m == handler[h].mark IN
         /\ Cardinality(mark \cup {m}) <= MaxMarks
         /\ mark' = mark \cup {m}
         /\ edited' = edited \ {m}
         /\ UNCHANGED <<post, name>>
         /\ Turns(h, "bump", PagesOf(m))
    /\ UNCHANGED forgotten

\* The insert.  A duplicate is answered with the row that is there; the target
\* may be gone by now, and the foreign key refuses it.
InsertMark(h) ==
    /\ AtStep(h, "insert")
    /\ LET m == handler[h].mark IN
         \/ /\ Cardinality(mark \cup {m}) <= MaxMarks
            /\ m[3] \in Post => Up(m[3])
            /\ mark' = mark \cup {m}
            /\ edited' = edited \ {m}
            /\ UNCHANGED <<post, name>>
            /\ Turns(h, "bump", PagesOf(m))
         \/ /\ m[3] \in Post /\ ~ Up(m[3])
            /\ Finish(h)
            /\ UNCHANGED <<post, mark, edited, name, owed>>
    /\ UNCHANGED forgotten

\* updateComment and updateMyReport.
EditMark(h, m) ==
    /\ AtStep(h, "idle")
    /\ m \in mark \ edited /\ m[1] \in {"comment", "report"}
    /\ edited' = edited \cup {m}
    /\ UNCHANGED <<post, mark, name>>
    /\ Turns(h, "bump", PagesOf(m))
    /\ UNCHANGED forgotten

\* unlikePost, deleteComment (also by the post's author), unsaveBookmark,
\* deleteMyReport.
RemoveMark(h, m) ==
    /\ AtStep(h, "idle")
    /\ m \in mark
    /\ mark' = mark \ {m} /\ edited' = edited \ {m}
    /\ UNCHANGED <<post, name>>
    /\ Turns(h, "bump", PagesOf(m))
    /\ UNCHANGED forgotten

\* deleteMyLikes, deleteMyComments, deleteMyBookmarks, deleteMyReports read what
\* they must bump, and then delete all there is by then.
BeginRemoveMine(h, u, kind) ==
    /\ AtStep(h, "idle")
    /\ By(u, kind) # {}
    /\ handler' = [handler EXCEPT ![h] =
         [pc |-> "remove mine", who |-> u, mark |-> <<kind, u, u>>,
          owes |-> UNION {PagesOf(m) : m \in By(u, kind)}]]
    /\ UNCHANGED <<post, mark, edited, name, owed, forgotten>>

\* With nothing left to delete only deleteMyLikes still bumps.
RemoveMine(h) ==
    /\ AtStep(h, "remove mine")
    /\ LET kind == handler[h].mark[1]
           gone == By(handler[h].who, kind)
       IN  /\ mark' = mark \ gone /\ edited' = edited \ gone
           /\ UNCHANGED <<post, name>>
           /\ IF gone = {} /\ kind # "like"
                THEN Finish(h) /\ UNCHANGED <<owed, forgotten>>
                ELSE /\ Turns(h, "bump", handler[h].owes)
                     /\ forgotten' = forgotten \cup (Changed \ handler[h].owes)

-----------------------------------------------------------------------------
\* createPost: a new post has nothing hanging from it.
CreatePost(h, u, p) ==
    /\ AtStep(h, "idle")
    /\ post[p].st = "new"
    /\ post' = [post EXCEPT ![p] = [st |-> "up", author |-> u, text |-> 0]]
    /\ UNCHANGED <<mark, edited, name>>
    /\ Turns(h, "bump", {<<"posts", u>>})
    /\ UNCHANGED forgotten

\* updatePost's write; whom else to bump is looked up after it.
UpdatePost(h, p) ==
    /\ AtStep(h, "idle")
    /\ Up(p) /\ Changes < MaxChanges
    /\ post' = [post EXCEPT ![p].text = @ + 1]
    /\ UNCHANGED <<mark, edited, name>>
    /\ Turns(h, "fan out", {<<"post", p>>, <<"posts", post[p].author>>})
    /\ UNCHANGED forgotten

\* deletePost and deleteMyPosts.  What hung from the posts goes with them, so
\* the look-up that follows finds nobody to bump: their pages are forgotten.
DeletePosts(h, u, gone) ==
    /\ AtStep(h, "idle")
    /\ gone # {}
    /\ \A p \in gone : Up(p) /\ post[p].author = u
    /\ Cardinality(gone) = 1 \/ gone = {p \in Post : Up(p) /\ post[p].author = u}
    /\ post' = [p \in Post |-> IF p \in gone THEN [post[p] EXCEPT !.st = "deleted"] ELSE post[p]]
    /\ mark' = {m \in mark : m[3] \notin gone}
    /\ edited' = edited \cap mark'
    /\ UNCHANGED name
    /\ LET own == {<<"post", p>> : p \in gone} \cup {<<"posts", u>>} IN
         /\ Turns(h, "fan out", own)
         /\ forgotten' = forgotten \cup (Changed \ own)

\* Whose pages invalidatePostFanout bumps for the posts of h: the people who
\* commented on, liked, saved or reported them, as they are now.
MarkersOf(h) ==
    UNION {PagesOf(m) \cap PersonPages :
             m \in {x \in mark : <<"post", x[3]>> \in handler[h].owes}}

FanOut(h) ==
    /\ AtStep(h, "fan out")
    /\ handler' = [handler EXCEPT ![h].pc = "bump", ![h].owes = @ \cup MarkersOf(h)]
    /\ UNCHANGED <<post, mark, edited, name, owed, forgotten>>

-----------------------------------------------------------------------------
\* updateUser's write.
Rename(h, u) ==
    /\ AtStep(h, "idle")
    /\ Changes < MaxChanges
    /\ name' = [name EXCEPT ![u] = @ + 1]
    /\ UNCHANGED <<post, mark, edited>>
    /\ handler' = [handler EXCEPT ![h].pc = "collect", ![h].who = u]
    /\ owed' = owed \cup Changed
    /\ forgotten' = forgotten \cup (Changed \cap CommentPages)

\* Slip: a liker's name is thought to show in nobody's page but their own.
VersionKeysNoLikers(u) ==
    ({"profile", "comments", "likes", "saved", "reports"} \X {u})
      \cup {<<"thread", m[3]>> : m \in By(u, "comment")}
      \cup {<<"reports", m[2]>> : m \in On(u, "report")}

\* collectUserVersionKeys: one's own pages, the posts one commented on or liked,
\* and whoever reported one; the page of a single comment is not among them.
VersionKeys(u) ==
    ({"profile", "comments", "likes", "saved", "reports"} \X {u})
      \cup {<<"thread", m[3]>> : m \in By(u, "comment")}
      \cup {<<"likers", m[3]>> : m \in By(u, "like")}
      \cup {<<"reports", m[2]>> : m \in On(u, "report")}

CollectUserVersionKeys(h) ==
    /\ AtStep(h, "collect")
    /\ handler' = [handler EXCEPT ![h] =
                   [Free EXCEPT !.pc = "bump", !.owes = VersionKeys(handler[h].who)]]
    /\ UNCHANGED <<post, mark, edited, name, owed, forgotten>>

\* bumpVersions.
BumpPages(h) ==
    /\ AtStep(h, "bump")
    /\ owed' = owed \ handler[h].owes
    /\ forgotten' = forgotten \ handler[h].owes
    /\ Finish(h)
    /\ UNCHANGED <<post, mark, edited, name>>

PostsNext ==
    \E h \in Handler :
        \/ \E m \in Marks : BeginMark(h, m) \/ EditMark(h, m) \/ RemoveMark(h, m)
        \/ \E u \in Person, kind \in Kinds : BeginRemoveMine(h, u, kind)
        \/ \E u \in Person, p \in Post : CreatePost(h, u, p)
        \/ \E u \in Person, gone \in SUBSET Post : DeletePosts(h, u, gone)
        \/ \E p \in Post : UpdatePost(h, p)
        \/ \E u \in Person : Rename(h, u)
        \/ InsertMark(h) \/ RemoveMine(h) \/ FanOut(h)
        \/ CollectUserVersionKeys(h) \/ BumpPages(h)

PostsSpec == PostsInit /\ [][PostsNext]_postsVars

-----------------------------------------------------------------------------
\* The tables keep their types, and nothing hangs from a post that is not up.
PostsTypeOK ==
    /\ post \in [Post -> [st : {"new", "up", "deleted"}, author : Person \cup {Nobody}, text : Nat]]
    /\ mark \subseteq Marks /\ edited \subseteq mark
    /\ \A m \in mark : m[3] \in Post => Up(m[3])
    /\ name \in [Person -> Nat]
    /\ owed \subseteq Pages /\ forgotten \subseteq Pages

\* A page that no longer shows what is in the tables has a handler on its way
\* to bump it, whichever handlers overlap (invalidatePostFanout,
\* collectUserVersionKeys, invalidateLike).  Forgotten pages are those
\* of a deleted post, of a renamed person's single comments, and of
\* what a person adds while deleting all of its kind.
PagesAreBumped ==
    \A k \in owed \ forgotten : \E h \in Handler :
        \/ k \in handler[h].owes /\ handler[h].pc \in {"bump", "fan out"}
        \/ k \in MarkersOf(h) /\ AtStep(h, "fan out")
        \/ k \in VersionKeys(handler[h].who) /\ AtStep(h, "collect")

\* The lists of those who had marked a deleted post are bumped too: "an edited
\* caption or a deleted post leaves those cached responses wrong for everyone
\* who commented on, liked, saved or reported it" (post.service.js:113-117).
DeletedPostsLeaveTheLists ==
    \A k \in owed :
        k[1] \in {"comments", "likes", "saved", "reports"} =>
            \E h \in Handler : ~ AtStep(h, "idle")
=============================================================================
