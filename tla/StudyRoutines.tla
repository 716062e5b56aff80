---------------------------- MODULE StudyRoutines ----------------------------
(***************************************************************************)
(* Routines and their to-do items: studyRoutine.service.js of apps/api     *)
(* over its repository.  An item's place is a number the handler works out *)
(* in one call and writes in another; a clone is a routine and then its    *)
(* items; deleting a routine detaches the clones it was the source of.     *)
(***************************************************************************)
EXTENDS Integers, FiniteSets, FiniteSetsExt

CONSTANTS
    Author, Routine, Item, Errand,  \* people, routines, items; requests in flight
    NoRoutine,
    MaxPlace            \* bound: the places items are added at

ASSUME RoutinesAssumption ==
    /\ Author # {} /\ NoRoutine \notin Routine /\ IsFiniteSet(Item)
    /\ MaxPlace \in Nat

VARIABLES
    routine,    \* study_routines: state, owner and source of each
    item,       \* todo_items: the routine, the place and the tick of each
    errand,     \* the requests in flight
    dusty,      \* pages that changed and were not bumped since
    tied,       \* history: a request in the middle of its work was overtaken
    unbumped    \* history: pages of clones read half made, or detached unseen

routineVars == <<routine, item, errand, dusty, tied, unbumped>>

SomeAuthor == CHOOSE a \in Author : TRUE
NoItem == [in |-> NoRoutine, place |-> 0, done |-> FALSE]
Resting == [pc |-> "idle", of |-> NoRoutine, order |-> <<>>, next |-> 0, owes |-> {}]

RoutinesInit ==
    /\ routine = [r \in Routine |-> [st |-> "new", owner |-> SomeAuthor, source |-> NoRoutine]]
    /\ item = [i \in Item |-> NoItem]
    /\ errand = [e \in Errand |-> Resting]
    /\ dusty = {} /\ tied = {} /\ unbumped = {}

-----------------------------------------------------------------------------
There(r) == r \in Routine /\ routine[r].st = "there"
ItemsOf(r) == {i \in Item : item[i].in = r}
Unused == {i \in Item : item[i].in = NoRoutine}

\* The two cached pages: a routine with its items, and a person's list of
\* routines with their counts.
OneRoutine(r) == <<routine[r].source, {<<i, item[i].place, item[i].done>> : i \in ItemsOf(r)}>>
RoutineList(a) == {<<r, Cardinality(ItemsOf(r)), Cardinality({i \in ItemsOf(r) : item[i].done})>> :
                     r \in {q \in Routine : There(q) /\ routine[q].owner = a}}
Content(r) == <<"one", r>>
Listed(r) == <<"list", routine[r].owner>>
Stirred ==
    {<<"one", r>> : r \in {q \in Routine : There(q) /\ OneRoutine(q)' # OneRoutine(q)}}
    \cup {<<"list", a>> : a \in {b \in Author : RoutineList(b)' # RoutineList(b)}}

Rest(e) == errand' = [errand EXCEPT ![e] = Resting]
Become(e, pc, r, order, next, owes) ==
    errand' = [errand EXCEPT ![e] =
      [pc |-> pc, of |-> r, order |-> order, next |-> next, owes |-> owes]]

\* A write: its bumps are owed, the pages it changes are dusty until then, and a
\* request that has read the items of r but not yet written is overtaken.
Wrote(e, r, owes) ==
    /\ Become(e, "bump", r, <<>>, 0, owes)
    /\ dusty' = dusty \cup Stirred

Overtaken(e, r) ==
    tied' = tied \cup
      {r : d \in {f \in Errand \ {e} : errand[f].pc \in {"add", "reorder", "copy"}
                                       /\ errand[f].of = r}}

-----------------------------------------------------------------------------
\* createRoutine.
CreateRoutine(e, a, r) ==
    /\ errand[e].pc = "idle" /\ routine[r].st = "new"
    /\ routine' = [routine EXCEPT ![r] = [st |-> "there", owner |-> a, source |-> NoRoutine]]
    /\ UNCHANGED <<item, tied, unbumped>>
    /\ Wrote(e, r, {<<"list", a>>})

\* cloneRoutine, once it knows no block is between the two people: the routine
\* with a note of its source, and then its items in one call, as they were read.
CloneRoutine(e, a, source, r) ==
    /\ errand[e].pc = "idle" /\ There(source) /\ routine[r].st = "new"
    /\ routine' = [routine EXCEPT ![r] = [st |-> "there", owner |-> a, source |-> source]]
    /\ UNCHANGED <<item, tied, unbumped>>
    /\ dusty' = dusty \cup Stirred
    /\ Become(e, "copy", r, <<>>, Cardinality(ItemsOf(source)), {<<"list", a>>})

\* createTodoItems numbers the copies from 0.  Only the list is bumped after it:
\* whoever has opened the clone by then keeps it empty.
CreateTodoItems(e, copies) ==
    /\ errand[e].pc = "copy"
    /\ LET r == errand[e].of n == errand[e].next IN
         IF ~ There(r) THEN Rest(e) /\ UNCHANGED <<item, dusty, tied, unbumped>>
         ELSE /\ copies \subseteq Unused /\ Cardinality(copies) = n
              /\ \E place \in [copies -> 0..n - 1] :
                   /\ \A i, j \in copies : place[i] = place[j] => i = j
                   /\ item' = [i \in Item |->
                        IF i \in copies THEN [in |-> r, place |-> place[i], done |-> FALSE]
                        ELSE item[i]]
              /\ UNCHANGED routine
              /\ Wrote(e, r, errand[e].owes)
              /\ unbumped' = unbumped \cup (Stirred \ errand[e].owes)
              /\ Overtaken(e, r)
    /\ UNCHANGED routine

\* Slip: the number of items is taken for the next place.
NextTodoPositionByCount(r) == Cardinality(ItemsOf(r))

\* findNextTodoPosition: after the last one there is.
NextTodoPosition(r) ==
    IF ItemsOf(r) = {} THEN 0 ELSE 1 + Max({item[i].place : i \in ItemsOf(r)})

BeginAddTodo(e, r) ==
    /\ errand[e].pc = "idle" /\ There(r) /\ NextTodoPosition(r) <= MaxPlace
    /\ Become(e, "add", r, <<>>, NextTodoPosition(r), {})
    /\ UNCHANGED <<routine, item, dusty, tied, unbumped>>

\* createTodoItem, at the place read before.
CreateTodoItem(e, i) ==
    /\ errand[e].pc = "add"
    /\ LET r == errand[e].of IN
         IF ~ There(r) THEN Rest(e) /\ UNCHANGED <<routine, item, dusty, tied>>
         ELSE /\ i \in Unused
              /\ item' = [item EXCEPT ![i] = [in |-> r, place |-> errand[e].next, done |-> FALSE]]
              /\ UNCHANGED routine
              /\ Wrote(e, r, {Content(r), Listed(r)})
              /\ Overtaken(e, r)
    /\ UNCHANGED unbumped

\* updateTodoItem with a tick: the list shows how many are done.
TickTodo(e, i) ==
    /\ errand[e].pc = "idle" /\ i \notin Unused
    /\ item' = [item EXCEPT ![i].done = ~ @]
    /\ UNCHANGED <<routine, tied, unbumped>>
    /\ Wrote(e, item[i].in, {Content(item[i].in), Listed(item[i].in)})

\* deleteTodoItem: the others keep their places.
DeleteTodoItem(e, i) ==
    /\ errand[e].pc = "idle" /\ i \notin Unused
    /\ item' = [item EXCEPT ![i] = NoItem]
    /\ UNCHANGED <<routine, tied, unbumped>>
    /\ Wrote(e, item[i].in, {Content(item[i].in), Listed(item[i].in)})

\* resetRoutine: nothing is bumped when nothing was ticked.
ResetRoutine(e, r) ==
    /\ errand[e].pc = "idle"
    /\ \E i \in ItemsOf(r) : item[i].done
    /\ item' = [i \in Item |-> IF item[i].in = r THEN [item[i] EXCEPT !.done = FALSE] ELSE item[i]]
    /\ UNCHANGED <<routine, tied, unbumped>>
    /\ Wrote(e, r, {Content(r), Listed(r)})

\* reorderTodoItems: the order names every item there is when it is checked.
BeginReorder(e, r, order) ==
    /\ errand[e].pc = "idle" /\ There(r)
    /\ order \in [1..Cardinality(ItemsOf(r)) -> ItemsOf(r)]
    /\ \A m, n \in DOMAIN order : order[m] = order[n] => m = n
    /\ Become(e, "reorder", r, order, 0, {})
    /\ UNCHANGED <<routine, item, dusty, tied, unbumped>>

\* setTodoPositions, one transaction over the items that are still there.
SetTodoPositions(e) ==
    /\ errand[e].pc = "reorder"
    /\ LET r == errand[e].of
           order == errand[e].order
       IN  /\ item' = [i \in Item |->
                IF item[i].in = r /\ \E n \in DOMAIN order : order[n] = i
                  THEN [item[i] EXCEPT !.place = (CHOOSE n \in DOMAIN order : order[n] = i) - 1]
                  ELSE item[i]]
           /\ UNCHANGED routine
           /\ Wrote(e, r, {Content(r)})
           /\ Overtaken(e, r)
    /\ UNCHANGED unbumped

\* deleteRoutine reads the clones it will detach, and then deletes; items go
\* with it and clones lose their source.
BeginDeleteRoutine(e, r) ==
    /\ errand[e].pc = "idle" /\ There(r)
    /\ LET clones == {c \in Routine : There(c) /\ routine[c].source = r} IN
         Become(e, "delete", r, <<>>, 0,
                {Content(r), Listed(r)} \cup {Content(c) : c \in clones}
                                        \cup {Listed(c) : c \in clones})
    /\ UNCHANGED <<routine, item, dusty, tied, unbumped>>

DeleteRoutine(e) ==
    /\ errand[e].pc = "delete"
    /\ LET r == errand[e].of IN
         IF ~ There(r) THEN Rest(e) /\ UNCHANGED <<routine, item, dusty, unbumped>>
         ELSE /\ routine' = [q \in Routine |->
                   IF q = r THEN [routine[q] EXCEPT !.st = "gone"]
                   ELSE IF routine[q].source = r THEN [routine[q] EXCEPT !.source = NoRoutine]
                   ELSE routine[q]]
              /\ item' = [i \in Item |-> IF item[i].in = r THEN NoItem ELSE item[i]]
              /\ Wrote(e, r, errand[e].owes)
              /\ unbumped' = unbumped \cup {k \in Stirred \ errand[e].owes : k[1] = "one"}
    /\ UNCHANGED tied

BumpRoutine(e) ==
    /\ errand[e].pc = "bump"
    /\ dusty' = dusty \ errand[e].owes
    /\ unbumped' = unbumped \ errand[e].owes
    /\ Rest(e)
    /\ UNCHANGED <<routine, item, tied>>

RoutinesNext ==
    \E e \in Errand :
        \/ \E a \in Author, r \in Routine :
             CreateRoutine(e, a, r) \/ \E s \in Routine : CloneRoutine(e, a, s, r)
        \/ \E copies \in SUBSET Unused : CreateTodoItems(e, copies)
        \/ \E r \in Routine :
             \/ BeginAddTodo(e, r) \/ ResetRoutine(e, r) \/ BeginDeleteRoutine(e, r)
             \/ \E order \in [1..Cardinality(ItemsOf(r)) -> ItemsOf(r)] : BeginReorder(e, r, order)
        \/ \E i \in Item : CreateTodoItem(e, i) \/ TickTodo(e, i) \/ DeleteTodoItem(e, i)
        \/ SetTodoPositions(e) \/ DeleteRoutine(e) \/ BumpRoutine(e)

RoutinesSpec == RoutinesInit /\ [][RoutinesNext]_routineVars

-----------------------------------------------------------------------------
\* Every variable keeps its type.
RoutinesTypeOK ==
    /\ routine \in [Routine -> [st : {"new", "there", "gone"}, owner : Author,
                                source : Routine \cup {NoRoutine}]]
    /\ item \in [Item -> [in : Routine \cup {NoRoutine}, place : Nat, done : BOOLEAN]]
    /\ tied \subseteq Routine

\* Two items of one routine share a place only after two requests that place
\* items overlapped (findNextTodoPosition, reorderTodoItems): deletions, clones
\* and reorders in turn never bring two together.
PlacesAreDistinct ==
    \A i, j \in Item : item[i].in = item[j].in /\ item[i].place = item[j].place
        => i = j \/ item[i].in \in tied \cup {NoRoutine}

\* A routine's page and its owner's list are bumped after whatever changes them,
\* by the routine's owner or by whoever deletes the routine it was cloned from
\* (invalidateRoutine).
RoutinePagesAreBumped ==
    \A k \in dusty \ unbumped : \E e \in Errand :
        errand[e].pc \in {"bump", "copy"} /\ k \in errand[e].owes
=============================================================================
