--------------------------- MODULE Community_proofs ---------------------------
(***************************************************************************)
(* Proofs about three more parts MC_Community checks, a group              *)
(* (StudyGroups), routines with their items (StudyRoutines) and a chat on  *)
(* a phone (ChatThread), and about all the parts together.  Each has a     *)
(* specification of its own and shares no variable with the others.        *)
(***************************************************************************)
EXTENDS MC_Community, Social_proofs, Sums_proofs, SequenceTheorems, FiniteSetTheorems

(***************************************************************************)
(* StudyGroups, for any people and any number of requests in flight: a     *)
(* group's owner is a member, and a changed page is bumped.                *)
(***************************************************************************)

GroupPages == {"content", "members"}
Request == [pc : {"idle", "write", "bump"}, op : Operations,
            by : Student \cup {NoStudent}, to : Student \cup {NoStudent},
            arg : Roles, owes : SUBSET GroupPages, overtaken : BOOLEAN]
VisitType == visit \in [Visit -> Request]

\* A request before its write concerns a person, and was let in by a group that
\* was there, so no group can be created beside it.
Writing(v) == visit[v].pc = "write"
WritesAreOfPeople ==
    \A v \in Visit : Writing(v) =>
        /\ visit[v].to \in Student /\ past
        /\ visit[v].op = "role" => visit[v].arg # "none"
ExistsOnce == Exists => past

\* What a request may still believe when nothing was written since its check.
BeliefHolds(v) ==
    Writing(v) /\ ~ visit[v].overtaken =>
        /\ visit[v].op = "transfer" => Member(visit[v].to)
        /\ visit[v].op \in {"leave", "kick"} => visit[v].to # owner

\* The request that is creating the group is about to make its owner a member.
OwnerIsOrBecomesMember ==
    Exists /\ ~ orphaned =>
        Member(owner) \/ \E v \in Visit : IsAt(v, "write", "create") /\ visit[v].to = owner

GroupsInv ==
    /\ GroupsTypeOK /\ VisitType /\ WritesAreOfPeople /\ ExistsOnce
    /\ (\A v \in Visit : BeliefHolds(v)) /\ OwnerIsOrBecomesMember /\ GroupPagesAreBumped

-----------------------------------------------------------------------------
\* After a write the writer bumps or is done, and the others only learn that they
\* have been overtaken.
LEMMA OwingKeepsOthers ==
    ASSUME VisitType, NEW v \in Visit, NEW counters \in SUBSET GroupPages, Owing(v, counters)
    PROVE  /\ VisitType'
           /\ \A w \in Visit : w # v =>
                /\ visit'[w].pc = visit[w].pc /\ visit'[w].op = visit[w].op
                /\ visit'[w].to = visit[w].to /\ visit'[w].arg = visit[w].arg
                /\ visit'[w].owes = visit[w].owes
                /\ Writing(w) => visit'[w].overtaken
           /\ visit'[v].pc # "write"
           /\ counters # {} => visit'[v].pc = "bump" /\ visit'[v].owes = counters
<1>1. /\ \A w \in Visit : w # v =>
             visit'[w] = [visit[w] EXCEPT !.overtaken = @ \/ visit[w].pc = "write"]
      /\ visit'[v] = [Away EXCEPT !.pc = IF counters = {} THEN "idle" ELSE "bump",
                                  !.owes = counters]
      /\ visit' = [w \in Visit |-> visit'[w]]
  BY DEF Owing
<1>2. Away \in Request
  BY DEF Away, Request, Operations, Roles
<1>3. visit'[v] \in Request
  BY <1>1, <1>2 DEF Request
<1>4. ASSUME NEW w \in Visit, w # v PROVE visit'[w] \in Request
  <2>1. visit[w] \in Request
    BY DEF VisitType
  <2>2. (visit[w].overtaken \/ visit[w].pc = "write") \in BOOLEAN
    BY <2>1 DEF Request
  <2>3. [visit[w] EXCEPT !.overtaken = @ \/ visit[w].pc = "write"] \in Request
    BY <2>1, <2>2 DEF Request
  <2> QED
    BY <1>1, <1>4, <2>3
<1>5. VisitType'
  BY <1>1, <1>3, <1>4 DEF VisitType
<1> QED
  BY <1>1, <1>2, <1>5 DEF VisitType, Request, Writing

\* The others' part of the invariant survives a write.
LEMMA WriteKeepsBeliefs ==
    ASSUME GroupsInv, NEW v \in Visit, NEW counters \in SUBSET GroupPages, Owing(v, counters),
           UNCHANGED past
    PROVE  VisitType' /\ WritesAreOfPeople' /\ \A w \in Visit : BeliefHolds(w)'
<1>1. VisitType'
  BY OwingKeepsOthers DEF GroupsInv
<1>2. WritesAreOfPeople'
  BY OwingKeepsOthers DEF GroupsInv, WritesAreOfPeople, Writing
<1>3. \A w \in Visit : BeliefHolds(w)'
  BY OwingKeepsOthers DEF GroupsInv, BeliefHolds, Writing
<1> QED
  BY <1>1, <1>2, <1>3

\* A changed page is owed by the writer, or still by whom it was.
LEMMA WriteKeepsPages ==
    ASSUME GroupsInv, NEW v \in Visit, NEW counters \in SUBSET GroupPages, Owing(v, counters),
           visit[v].pc = "write", behind' \subseteq behind \cup counters
    PROVE  GroupPagesAreBumped'
<1> SUFFICES ASSUME NEW k \in behind'
             PROVE  \E w \in Visit : visit'[w].pc = "bump" /\ k \in visit'[w].owes
  BY DEF GroupPagesAreBumped
<1>1. CASE k \in counters
  BY <1>1, OwingKeepsOthers DEF GroupsInv
<1>2. CASE k \in behind
  <2>1. PICK w \in Visit : visit[w].pc = "bump" /\ k \in visit[w].owes
    BY <1>2 DEF GroupsInv, GroupPagesAreBumped
  <2> QED
    BY <2>1, OwingKeepsOthers DEF GroupsInv
<1> QED
  BY <1>1, <1>2

LEMMA GroupsStart == GroupsInit => GroupsInv
<1> SUFFICES ASSUME GroupsInit PROVE GroupsInv
  OBVIOUS
<1>1. GroupsTypeOK
  BY GroupsAssumption DEF GroupsInit, GroupsTypeOK, Roles, Exists, Member
<1>2. VisitType
  BY DEF GroupsInit, VisitType, Request, Away, Operations, Roles
<1> QED
  BY <1>1, <1>2 DEF GroupsInit, GroupsInv, WritesAreOfPeople, ExistsOnce, Exists, Writing, Away,
     BeliefHolds, OwnerIsOrBecomesMember, GroupPagesAreBumped

\* A check moves one request before its write, with what it has just seen.
LEMMA EnterStep ==
    ASSUME GroupsInv, NEW v \in Visit, NEW op \in Operations, NEW by \in Student, NEW to \in Student,
           NEW arg \in Roles, Enter(v, op, by, to, arg), Exists, op # "create",
           op = "role" => arg # "none", op = "transfer" => Member(to),
           op \in {"leave", "kick"} => to # owner
    PROVE  GroupsInv'
<1>1. /\ UNCHANGED <<owner, open, role, behind, orphaned, past>> /\ visit[v].pc = "idle"
      /\ \A w \in Visit : w # v => visit'[w] = visit[w]
      /\ visit'[v] = [pc |-> "write", op |-> op, by |-> by, to |-> to, arg |-> arg,
                      owes |-> {}, overtaken |-> FALSE]
      /\ visit' \in [Visit -> Request]
  <2>1. visit'[v] = [[pc |-> "idle", op |-> "update", by |-> NoStudent, to |-> NoStudent,
                      arg |-> "none", owes |-> {}, overtaken |-> FALSE]
                     EXCEPT !.pc = "write", !.op = op, !.by = by, !.to = to, !.arg = arg]
    BY DEF Enter, GroupsInv, VisitType, Away
  <2>3. visit'[v] = [pc |-> "write", op |-> op, by |-> by, to |-> to, arg |-> arg,
                     owes |-> {}, overtaken |-> FALSE]
    BY <2>1
  <2>2. [pc |-> "write", op |-> op, by |-> by, to |-> to, arg |-> arg,
         owes |-> {}, overtaken |-> FALSE] \in Request
    BY DEF Request
  <2> QED
    BY <2>2, <2>3 DEF Enter, GroupsInv, VisitType
<1>2. GroupsTypeOK' /\ VisitType' /\ ExistsOnce'
  BY <1>1 DEF GroupsInv, GroupsTypeOK, VisitType, ExistsOnce, Exists, Member
<1>3. WritesAreOfPeople'
  BY <1>1 DEF GroupsInv, WritesAreOfPeople, Writing, ExistsOnce
<1>4. \A w \in Visit : BeliefHolds(w)'
  BY <1>1 DEF GroupsInv, BeliefHolds, Writing, Member
<1>5. OwnerIsOrBecomesMember'
  BY <1>1 DEF GroupsInv, OwnerIsOrBecomesMember, IsAt, Exists, Member
<1>6. GroupPagesAreBumped'
  BY <1>1 DEF GroupsInv, GroupPagesAreBumped
<1> QED
  BY <1>2, <1>3, <1>4, <1>5, <1>6 DEF GroupsInv

LEMMA ChecksStep ==
    ASSUME GroupsInv, NEW v \in Visit, NEW by \in Student,
           \/ CheckUpdate(v, by) \/ CheckDelete(v, by) \/ CheckLeave(v, by)
           \/ \E knowsCode \in BOOLEAN : CheckJoin(v, by, knowsCode)
           \/ \E to \in Student : \/ CheckTransfer(v, by, to) \/ CheckKick(v, by, to)
                                  \/ \E r \in Roles : CheckRole(v, by, to, r)
    PROVE  GroupsInv'
<1> USE DEF Operations, Roles
<1>1. CASE CheckUpdate(v, by) \/ CheckDelete(v, by) \/ CheckLeave(v, by)
  BY <1>1, EnterStep DEF CheckUpdate, CheckDelete, CheckLeave
<1>2. CASE \E knowsCode \in BOOLEAN : CheckJoin(v, by, knowsCode)
  BY <1>2, EnterStep DEF CheckJoin
<1>3. ASSUME NEW to \in Student, CheckTransfer(v, by, to) PROVE GroupsInv'
  BY <1>3, EnterStep DEF CheckTransfer
<1>4. ASSUME NEW to \in Student, CheckKick(v, by, to) PROVE GroupsInv'
  BY <1>4, EnterStep DEF CheckKick
<1>5. ASSUME NEW to \in Student, NEW r \in Roles, CheckRole(v, by, to, r) PROVE GroupsInv'
  BY <1>5, EnterStep DEF CheckRole
<1> QED
  BY <1>1, <1>2, <1>3, <1>4, <1>5

\* createGroup: nothing else was under way, and its own next call makes the member.
LEMMA CreateStep ==
    ASSUME GroupsInv, NEW v \in Visit, NEW by \in Student, CreateGroup(v, by)
    PROVE  GroupsInv'
<1>1. /\ UNCHANGED <<role, behind, orphaned>> /\ owner' = by /\ open' \in BOOLEAN
      /\ past' = TRUE /\ ~ past /\ visit[v].pc = "idle"
      /\ \A w \in Visit : w # v => visit'[w] = visit[w]
      /\ visit'[v] = [Away EXCEPT !.pc = "write", !.op = "create", !.by = by, !.to = by]
      /\ visit' \in [Visit -> Request]
  <2>1. [Away EXCEPT !.pc = "write", !.op = "create", !.by = by, !.to = by] \in Request
    BY DEF Away, Request, Operations, Roles
  <2> QED
    BY <2>1 DEF CreateGroup, GroupsInv, VisitType
<1>2. \A w \in Visit : ~ Writing(w)
  BY <1>1 DEF GroupsInv, WritesAreOfPeople
<1>3. GroupsTypeOK' /\ VisitType' /\ ExistsOnce'
  BY <1>1, GroupsAssumption DEF GroupsInv, GroupsTypeOK, VisitType, ExistsOnce, Exists, Member
<1>4. WritesAreOfPeople' /\ \A w \in Visit : BeliefHolds(w)'
  <2>1. visit'[v].to \in Student /\ visit'[v].op = "create"
    BY <1>1 DEF Away
  <2>2. \A w \in Visit : w # v => visit'[w].pc # "write"
    BY <1>1, <1>2 DEF Writing
  <2>3. WritesAreOfPeople'
    BY <1>1, <2>1, <2>2 DEF WritesAreOfPeople, Writing
  <2> QED
    BY <2>1, <2>2, <2>3 DEF BeliefHolds, Writing
<1>5. OwnerIsOrBecomesMember'
  BY <1>1 DEF OwnerIsOrBecomesMember, IsAt, Away
<1>6. GroupPagesAreBumped'
  BY <1>1 DEF GroupsInv, GroupPagesAreBumped
<1> QED
  BY <1>3, <1>4, <1>5, <1>6 DEF GroupsInv

-----------------------------------------------------------------------------
\* createMembership, deleteMembership and setMembershipRole.  A request that was
\* overtaken may leave the owner no membership, and that is what orphaned says.
LEMMA MembershipTypes ==
    ASSUME GroupsInv, NEW v \in Visit, WriteMembership(v)
    PROVE  /\ visit[v].to \in Student /\ role' \in [Student -> Roles]
           /\ UNCHANGED <<owner, open, past>>
           /\ (~ Exists => \A s \in Student : role'[s] = "none")
           /\ \A s \in Student : s # visit[v].to => role'[s] = role[s]
<1>1. visit[v].to \in Student /\ visit[v].arg \in Roles
  BY DEF WriteMembership, GroupsInv, WritesAreOfPeople, Writing, VisitType, Request
<1>2. role \in [Student -> Roles] /\ (~ Exists => \A s \in Student : role[s] = "none")
  BY DEF GroupsInv, GroupsTypeOK, Member
<1>3. \/ role' = [role EXCEPT ![visit[v].to] = "MEMBER"] /\ Exists
      \/ role' = [role EXCEPT ![visit[v].to] = "none"]
      \/ role' = [role EXCEPT ![visit[v].to] = visit[v].arg] /\ role[visit[v].to] # "none"
  BY DEF WriteMembership, RemoveMember, Member
<1> QED
  BY <1>1, <1>2, <1>3 DEF WriteMembership, Roles

LEMMA MembershipKeepsOwner ==
    ASSUME GroupsInv, NEW v \in Visit, NEW counters \in SUBSET GroupPages, WriteMembership(v),
           Owing(v, counters), Exists, ~ orphaned'
    PROVE  \/ role'[owner] # "none"
           \/ \E w \in Visit : visit'[w].pc = "write" /\ visit'[w].op = "create"
                               /\ visit'[w].to = owner
<1> DEFINE s == visit[v].to
<1> USE MembershipTypes
<1>1. owner \in Student /\ role \in [Student -> Roles]
  BY DEF GroupsInv, GroupsTypeOK, Exists
<1>2. ASSUME NEW w \in Visit, w # v, visit[w].pc = "write", visit[w].op = "create",
             visit[w].to = owner
      PROVE  visit'[w].pc = "write" /\ visit'[w].op = "create" /\ visit'[w].to = owner
  BY <1>2, OwingKeepsOthers DEF GroupsInv
<1>3. ~ orphaned => \/ role[owner] # "none"
                    \/ \E w \in Visit : visit[w].pc = "write" /\ visit[w].op = "create"
                                        /\ visit[w].to = owner
  BY DEF GroupsInv, OwnerIsOrBecomesMember, Member, IsAt
<1>4. CASE /\ visit[v].op \in {"join", "create"}
           /\ role' = [role EXCEPT ![s] = "MEMBER"]
           /\ orphaned' = (orphaned /\ s # owner)
  <2>1. CASE s = owner
    BY <1>1, <1>4, <2>1
  <2>2. CASE s # owner
    BY <1>1, <1>2, <1>3, <1>4, <2>2
  <2> QED
    BY <2>1, <2>2
<1>5. CASE visit[v].op \in {"leave", "kick"} /\ RemoveMember(v, s)
  <2>1. ~ orphaned /\ s # owner
    BY <1>5 DEF RemoveMember, GroupsInv, BeliefHolds, Writing, WriteMembership
  <2>2. visit[v].op # "create"
    BY <1>5
  <2> QED
    BY <1>1, <1>2, <1>3, <2>1, <2>2
<1>6. CASE /\ visit[v].op = "role" /\ role' = [role EXCEPT ![s] = visit[v].arg]
           /\ UNCHANGED orphaned
  <2>1. visit[v].arg # "none"
    BY <1>6 DEF GroupsInv, WritesAreOfPeople, Writing, WriteMembership
  <2> QED
    BY <1>1, <1>2, <1>3, <1>6, <2>1
<1> QED
  BY <1>4, <1>5, <1>6 DEF WriteMembership

LEMMA MembershipStep ==
    ASSUME GroupsInv, NEW v \in Visit, WriteMembership(v)
    PROVE  GroupsInv'
<1>1. PICK counters \in SUBSET GroupPages :
         Owing(v, counters) /\ behind' \subseteq behind \cup counters
  <2>1. UNCHANGED <<owner, open>>
    BY DEF WriteMembership
  <2>2. Moved \subseteq {"members"}
    BY <2>1 DEF Moved, Group
  <2>3. \/ Owing(v, {}) /\ UNCHANGED behind
        \/ Owing(v, {"members"}) /\ behind' = behind \cup Moved
    BY DEF WriteMembership
  <2> QED
    BY <2>2, <2>3 DEF GroupPages
<1>2. VisitType' /\ WritesAreOfPeople' /\ \A w \in Visit : BeliefHolds(w)'
  BY <1>1, MembershipTypes, WriteKeepsBeliefs
<1>3. GroupPagesAreBumped'
  BY <1>1, WriteKeepsPages DEF WriteMembership
<1>4. GroupsTypeOK'
  BY <1>1, MembershipTypes DEF GroupsInv, GroupsTypeOK, Exists, Member, GroupPages
<1>5. ExistsOnce'
  BY MembershipTypes DEF GroupsInv, ExistsOnce, Exists
<1>6. OwnerIsOrBecomesMember'
  BY <1>1, MembershipTypes, MembershipKeepsOwner
     DEF OwnerIsOrBecomesMember, Exists, Member, IsAt
<1> QED
  BY <1>2, <1>3, <1>4, <1>5, <1>6 DEF GroupsInv

\* transferOwnership's write: who was a member when it was checked still is,
\* unless something else was written since.
LEMMA OwnerStep ==
    ASSUME GroupsInv, NEW v \in Visit, WriteOwner(v)
    PROVE  GroupsInv'
<1>1. /\ visit[v].to \in Student /\ owner' = visit[v].to /\ UNCHANGED <<open, role, past>>
      /\ visit[v].pc = "write" /\ visit[v].op = "transfer" /\ Exists
      /\ orphaned' = (role[visit[v].to] = "none" /\ visit[v].overtaken)
      /\ Owing(v, {"content"}) /\ behind' = behind \cup Moved
  BY DEF WriteOwner, IsAt, Member, GroupsInv, WritesAreOfPeople, Writing
<1>2. behind' \subseteq behind \cup {"content"} /\ {"content"} \in SUBSET GroupPages
  BY <1>1 DEF Moved, Members, GroupPages
<1>3. VisitType' /\ WritesAreOfPeople' /\ \A w \in Visit : BeliefHolds(w)'
  BY <1>1, <1>2, WriteKeepsBeliefs
<1>4. GroupPagesAreBumped'
  BY <1>1, <1>2, WriteKeepsPages
<1>5. GroupsTypeOK'
  BY <1>1, <1>2, GroupsAssumption DEF GroupsInv, GroupsTypeOK, Exists, Member, GroupPages
<1>6. ExistsOnce'
  BY <1>1 DEF GroupsInv, ExistsOnce, Exists
<1>7. ~ orphaned' => role[visit[v].to] # "none"
  BY <1>1 DEF GroupsInv, BeliefHolds, Writing, Member
<1>8. OwnerIsOrBecomesMember'
  BY <1>1, <1>7 DEF OwnerIsOrBecomesMember, Member
<1> QED
  BY <1>3, <1>4, <1>5, <1>6, <1>8 DEF GroupsInv

LEMMA UpdateStep ==
    ASSUME GroupsInv, NEW v \in Visit, WriteUpdate(v)
    PROVE  GroupsInv'
<1>1. /\ open' \in BOOLEAN /\ UNCHANGED <<owner, role, orphaned, past>>
      /\ visit[v].pc = "write" /\ visit[v].op = "update"
      /\ Owing(v, {"content"}) /\ behind' = behind \cup Moved
  BY DEF WriteUpdate, IsAt
<1>2. behind' \subseteq behind \cup {"content"} /\ {"content"} \in SUBSET GroupPages
  BY <1>1 DEF Moved, Members, GroupPages
<1>3. VisitType' /\ WritesAreOfPeople' /\ \A w \in Visit : BeliefHolds(w)'
  BY <1>1, <1>2, WriteKeepsBeliefs
<1>4. GroupPagesAreBumped'
  BY <1>1, <1>2, WriteKeepsPages
<1>5. GroupsTypeOK' /\ ExistsOnce'
  BY <1>1, <1>2 DEF GroupsInv, GroupsTypeOK, ExistsOnce, Exists, Member, GroupPages
<1>6. ASSUME NEW w \in Visit, visit[w].pc = "write", visit[w].op = "create",
             visit[w].to = owner
      PROVE  visit'[w].pc = "write" /\ visit'[w].op = "create" /\ visit'[w].to = owner
  BY <1>1, <1>2, <1>6, OwingKeepsOthers DEF GroupsInv
<1>7. OwnerIsOrBecomesMember'
  BY <1>1, <1>6 DEF GroupsInv, OwnerIsOrBecomesMember, IsAt, Exists, Member
<1> QED
  BY <1>3, <1>4, <1>5, <1>7 DEF GroupsInv

LEMMA DeleteStep ==
    ASSUME GroupsInv, NEW v \in Visit, WriteDelete(v)
    PROVE  GroupsInv'
<1>1. /\ owner' = NoStudent /\ role' = [s \in Student |-> "none"] /\ UNCHANGED <<open, past>>
      /\ visit[v].pc = "write"
      /\ Owing(v, GroupPages) /\ behind' = behind \cup Moved
  BY DEF WriteDelete, IsAt, GroupPages
<1>2. behind' \subseteq behind \cup GroupPages /\ GroupPages \in SUBSET GroupPages
  BY <1>1 DEF Moved, GroupPages
<1>3. VisitType' /\ WritesAreOfPeople' /\ \A w \in Visit : BeliefHolds(w)'
  BY <1>1, <1>2, WriteKeepsBeliefs
<1>4. GroupPagesAreBumped'
  BY <1>1, <1>2, WriteKeepsPages
<1>5. GroupsTypeOK'
  BY <1>1, <1>2 DEF GroupsInv, GroupsTypeOK, Exists, Member, GroupPages, Roles
<1>6. ExistsOnce' /\ OwnerIsOrBecomesMember'
  BY <1>1 DEF ExistsOnce, OwnerIsOrBecomesMember, Exists
<1> QED
  BY <1>3, <1>4, <1>5, <1>6 DEF GroupsInv

\* A request that ends, refused or after its bump, takes nothing with it that the
\* others rely on.
LEMMA LeaveStep ==
    ASSUME GroupsInv, NEW v \in Visit, Refused(v) \/ BumpGroup(v)
    PROVE  GroupsInv'
<1>1. /\ UNCHANGED <<owner, open, role, orphaned, past>> /\ behind' \subseteq behind
      /\ \A w \in Visit : w # v => visit'[w] = visit[w]
      /\ visit'[v] = Away /\ visit' \in [Visit -> Request]
  <2>1. Away \in Request
    BY DEF Away, Request, Operations, Roles
  <2> QED
    BY <2>1 DEF Refused, BumpGroup, Leave, GroupsInv, VisitType
<1>2. visit'[v].pc = "idle"
  BY <1>1 DEF Away
<1>3. GroupsTypeOK' /\ VisitType' /\ ExistsOnce'
  BY <1>1 DEF GroupsInv, GroupsTypeOK, VisitType, ExistsOnce, Exists, Member
<1>4. WritesAreOfPeople'
  BY <1>1, <1>2 DEF GroupsInv, WritesAreOfPeople, Writing
<1>5. \A w \in Visit : BeliefHolds(w)'
  BY <1>1, <1>2 DEF GroupsInv, BeliefHolds, Writing, Member
<1>6. OwnerIsOrBecomesMember'
  <2> SUFFICES ASSUME Exists, ~ orphaned, ~ Member(owner)
               PROVE  \E w \in Visit : /\ visit'[w].pc = "write" /\ visit'[w].op = "create"
                                       /\ visit'[w].to = owner
    BY <1>1 DEF OwnerIsOrBecomesMember, Exists, Member, IsAt
  <2>1. PICK w \in Visit : /\ visit[w].pc = "write" /\ visit[w].op = "create"
                           /\ visit[w].to = owner
    BY DEF GroupsInv, OwnerIsOrBecomesMember, IsAt
  <2>2. w # v
    BY <2>1 DEF Refused, BumpGroup
  <2> QED
    BY <1>1, <2>1, <2>2
<1>7. GroupPagesAreBumped'
  <2>1. CASE Refused(v)
    BY <1>1, <2>1 DEF GroupsInv, GroupPagesAreBumped, Refused
  <2>2. CASE BumpGroup(v)
    BY <1>1, <2>2 DEF GroupsInv, GroupPagesAreBumped, BumpGroup
  <2> QED
    BY <2>1, <2>2
<1> QED
  BY <1>3, <1>4, <1>5, <1>6, <1>7 DEF GroupsInv

-----------------------------------------------------------------------------
LEMMA GroupsInductive == GroupsInv /\ [GroupsNext]_groupVars => GroupsInv'
<1> SUFFICES ASSUME GroupsInv, [GroupsNext]_groupVars PROVE GroupsInv'
  OBVIOUS
<1>1. CASE UNCHANGED groupVars
  BY <1>1 DEF groupVars, GroupsInv, GroupsTypeOK, VisitType, WritesAreOfPeople, ExistsOnce, Exists,
     Member, Writing, BeliefHolds, OwnerIsOrBecomesMember, IsAt, GroupPagesAreBumped
<1>2. ASSUME NEW v \in Visit, NEW by \in Student, CreateGroup(v, by) PROVE GroupsInv'
  BY <1>2, CreateStep
<1>3. ASSUME NEW v \in Visit, NEW by \in Student,
             \/ CheckUpdate(v, by) \/ CheckDelete(v, by) \/ CheckLeave(v, by)
             \/ \E knowsCode \in BOOLEAN : CheckJoin(v, by, knowsCode)
             \/ \E to \in Student : \/ CheckTransfer(v, by, to) \/ CheckKick(v, by, to)
                                    \/ \E r \in Roles : CheckRole(v, by, to, r)
      PROVE  GroupsInv'
  BY <1>3, ChecksStep
<1>4. ASSUME NEW v \in Visit,
             \/ WriteMembership(v) \/ WriteOwner(v) \/ WriteUpdate(v) \/ WriteDelete(v)
             \/ Refused(v) \/ BumpGroup(v)
      PROVE  GroupsInv'
  BY <1>4, MembershipStep, OwnerStep, UpdateStep, DeleteStep, LeaveStep
<1> QED
  BY <1>1, <1>2, <1>3, <1>4 DEF GroupsNext

LEMMA GroupsInvariance == GroupsSpec => []GroupsInv
<1>1. GroupsInit => GroupsInv
  BY GroupsStart
<1>2. GroupsInv /\ [GroupsNext]_groupVars => GroupsInv'
  BY GroupsInductive
<1> QED
  BY <1>1, <1>2, PTL DEF GroupsSpec

\* Whatever the people and however many requests are in flight, the group's
\* variables keep their types, and a group that is gone has no members.
THEOREM GroupsTypeCorrect == GroupsSpec => []GroupsTypeOK
<1>1. GroupsInv => GroupsTypeOK
  BY DEF GroupsInv
<1> QED
  BY <1>1, GroupsInvariance, PTL

\* The owner is a member unless a request overtaken between its check and its
\* write took the membership or passed on the ownership, or createGroup is between
\* its two calls: no other path through the handlers loses the owner
\* (transferOwnership, leaveGroup, kickMember, setMemberRole, joinGroup).
THEOREM OwnerStaysMember == GroupsSpec => []OwnerIsMember
<1>1. GroupsInv => OwnerIsMember
  BY DEF GroupsInv, OwnerIsOrBecomesMember, OwnerIsMember
<1> QED
  BY <1>1, GroupsInvariance, PTL

\* Every page of a group that changed has a request about to bump its counter,
\* for any number of overlapping requests (invalidateGroup).
THEOREM GroupPagesBumped == GroupsSpec => []GroupPagesAreBumped
<1>1. GroupsInv => GroupPagesAreBumped
  BY DEF GroupsInv
<1> QED
  BY <1>1, GroupsInvariance, PTL

-------------------------------------------------------------------------------
(***************************************************************************)
(* StudyRoutines, for any people, routines and requests in flight and any  *)
(* finite number of items.                                                 *)
(***************************************************************************)

\* A request in the middle of its work is about a routine that was created, and
\* carries a place or an order of places.
ErrandsTyped ==
    /\ errand = [e \in Errand |-> errand[e]]
    /\ \A e \in Errand :
         /\ errand[e].pc # "idle" => errand[e].of \in Routine
         /\ errand[e].next \in Nat
         /\ errand[e].pc = "reorder" => DOMAIN errand[e].order \subseteq Nat \ {0}

\* Items belong to routines that are there.
ItemsAreThere == \A i \in Item : item[i].in # NoRoutine => There(item[i].in)

\* What a request relies on when it writes, as long as nobody overtook it: its place
\* is after the others, its order names every item, its clone is still empty.
Foresees(e) ==
    errand[e].of \notin tied =>
        /\ errand[e].pc = "add" =>
             \A i \in ItemsOf(errand[e].of) : item[i].place < errand[e].next
        /\ errand[e].pc = "reorder" =>
             \A i \in ItemsOf(errand[e].of) :
                \E n \in DOMAIN errand[e].order : errand[e].order[n] = i
        /\ errand[e].pc = "copy" => ItemsOf(errand[e].of) = {}

\* What a request that fills a clone or deletes a routine means to bump.
KnowsItsPages(e) ==
    /\ errand[e].pc \in {"copy", "delete"} => routine[errand[e].of].st # "new"
    /\ errand[e].pc = "copy" => errand[e].owes = {Listed(errand[e].of)}
    /\ errand[e].pc = "delete" =>
         {Content(errand[e].of), Listed(errand[e].of)} \subseteq errand[e].owes

\* A request that bumps k for sure: it is about to, or it will when its clone, which
\* is still there, has its items.
VisitBumps(e, k) ==
    /\ k \in errand[e].owes
    /\ errand[e].pc = "bump" \/ (errand[e].pc = "copy" /\ There(errand[e].of))
DustIsOwed == \A k \in dusty \ unbumped : \E e \in Errand : VisitBumps(e, k)

RoutinesInv ==
    /\ RoutinesTypeOK /\ ErrandsTyped
    /\ ItemsAreThere /\ PlacesAreDistinct /\ (\A e \in Errand : Foresees(e))
    /\ (\A e \in Errand : KnowsItsPages(e)) /\ DustIsOwed

-----------------------------------------------------------------------------
\* findNextTodoPosition answers a place after every item's.
LEMMA NextPlaceIsFree ==
    ASSUME RoutinesTypeOK, NEW r
    PROVE  /\ NextTodoPosition(r) \in Nat
           /\ \A i \in ItemsOf(r) : item[i].place < NextTodoPosition(r)
<1>1. CASE ItemsOf(r) = {}
  BY <1>1 DEF NextTodoPosition
<1>2. CASE ItemsOf(r) # {}
  <2> DEFINE S == ItemsOf(r)
             After(i) == {j \in S : item[j].place > item[i].place}
             places == {item[j].place : j \in S}
  <2>1. IsFiniteSet(S) /\ S \in SUBSET Item
    <3>1. S \in SUBSET Item
      BY DEF ItemsOf
    <3> QED
      BY <3>1, RoutinesAssumption, FS_Subset
  <2>2. \A j \in S : item[j].place \in Nat
    BY DEF RoutinesTypeOK, ItemsOf
  <2>3. IsWellFoundedOn(StrictSubsetOrdering(S), SUBSET S)
    BY <2>1, FS_StrictSubsetOrderingWellFounded, FS_FiniteSubsetsOfFinite
  <2>4. PICK i \in S : \A j \in S : ~ (<<After(j), After(i)>> \in StrictSubsetOrdering(S))
    <3> DEFINE T == {After(j) : j \in S}
    <3>1. T \subseteq SUBSET S /\ T # {}
      BY <1>2
    <3>2. \E x \in T : \A y \in T : ~ (<<y, x>> \in StrictSubsetOrdering(S))
      <4> HIDE DEF T, S
      <4> QED
        BY <2>3, <3>1, WFMin
    <3> QED
      BY <3>2
  <2>5. ASSUME NEW j \in S, item[j].place > item[i].place PROVE FALSE
    <3>1. After(j) \subseteq After(i)
      BY <2>2, <2>5
    <3>2. j \in After(i) /\ j \notin After(j)
      BY <2>2, <2>5
    <3>3. <<After(j), After(i)>> \in StrictSubsetOrdering(S)
      BY <3>1, <3>2 DEF StrictSubsetOrdering
    <3> QED
      BY <2>4, <3>3
  <2>6. item[i].place \in places /\ \A y \in places : item[i].place >= y
    BY <2>2, <2>5
  <2>7. Max(places) \in places /\ \A y \in places : Max(places) >= y
    <3> HIDE DEF places
    <3> QED
      BY <2>6 DEF Max
  <2>8. NextTodoPosition(r) = 1 + Max(places)
    BY <1>2 DEF NextTodoPosition
  <2>9. Max(places) \in Nat
    BY <2>2, <2>7
  <2>10. ASSUME NEW j \in ItemsOf(r) PROVE item[j].place < NextTodoPosition(r)
    <3>1. Max(places) >= item[j].place
      BY <2>7
    <3> HIDE DEF places
    <3> QED
      BY <2>2, <2>8, <2>9, <3>1
  <2> HIDE DEF places
  <2> QED
    BY <2>8, <2>9, <2>10
<1> QED
  BY <1>1, <1>2

\* An order of as many different items as a routine has names each of them.
LEMMA OrderNamesAll ==
    ASSUME NEW S, IsFiniteSet(S), NEW order \in [1..Cardinality(S) -> S],
           \A m, n \in DOMAIN order : order[m] = order[n] => m = n
    PROVE  \A i \in S : \E n \in DOMAIN order : order[n] = i
<1>1. Cardinality(S) \in Nat
  BY FS_CardinalityType
<1>2. Cardinality(1..Cardinality(S)) = Cardinality(S)
  BY <1>1, FS_Interval
<1>3. order \in Injection(1..Cardinality(S), S)
  BY DEF Injection, IsInjective
<1>4. order \in Surjection(1..Cardinality(S), S)
  BY <1>2, <1>3, FS_Injection
<1> QED
  BY <1>4 DEF Surjection

-----------------------------------------------------------------------------
\* What a request becomes; the others stay what they are.
LEMMA ErrandMoves ==
    ASSUME ErrandsTyped, NEW e \in Errand, NEW x, errand' = [errand EXCEPT ![e] = x],
           x.pc # "idle" => x.of \in Routine, x.next \in Nat,
           x.pc = "reorder" => DOMAIN x.order \subseteq Nat \ {0}
    PROVE  /\ ErrandsTyped'
           /\ errand'[e] = x
           /\ \A f \in Errand : f # e => errand'[f] = errand[f]
<1>1. /\ errand'[e] = x
      /\ \A f \in Errand : f # e => errand'[f] = errand[f]
      /\ errand' = [f \in Errand |-> errand'[f]]
  BY DEF ErrandsTyped
<1>2. ASSUME NEW f \in Errand
      PROVE  /\ errand'[f].pc # "idle" => errand'[f].of \in Routine
             /\ errand'[f].next \in Nat
             /\ errand'[f].pc = "reorder" => DOMAIN errand'[f].order \subseteq Nat \ {0}
  <2>1. CASE f = e
    BY <1>1, <2>1
  <2>2. CASE f # e
    BY <1>1, <2>2 DEF ErrandsTyped
  <2> QED
    BY <2>1, <2>2
<1> QED
  BY <1>1, <1>2 DEF ErrandsTyped

LEMMA Becomes ==
    ASSUME ErrandsTyped, NEW e \in Errand, NEW pc, NEW r \in Routine, NEW order,
           NEW next \in Nat, NEW owes, Become(e, pc, r, order, next, owes),
           pc = "reorder" => DOMAIN order \subseteq Nat \ {0}
    PROVE  /\ ErrandsTyped'
           /\ errand'[e].pc = pc /\ errand'[e].of = r /\ errand'[e].order = order
           /\ errand'[e].next = next /\ errand'[e].owes = owes
           /\ \A f \in Errand : f # e => errand'[f] = errand[f]
<1>1. PICK x : x = [pc |-> pc, of |-> r, order |-> order, next |-> next, owes |-> owes]
  OBVIOUS
<1>2. errand' = [errand EXCEPT ![e] = x]
  BY <1>1 DEF Become
<1>3. /\ x.pc = pc /\ x.of = r /\ x.order = order /\ x.next = next /\ x.owes = owes
  BY <1>1
<1>4. /\ ErrandsTyped' /\ errand'[e] = x
      /\ \A f \in Errand : f # e => errand'[f] = errand[f]
  BY <1>2, <1>3, ErrandMoves
<1> QED
  BY <1>3, <1>4

LEMMA Rests ==
    ASSUME ErrandsTyped, NEW e \in Errand, Rest(e)
    PROVE  /\ ErrandsTyped' /\ errand'[e].pc = "idle"
           /\ \A f \in Errand : f # e => errand'[f] = errand[f]
<1>1. PICK x : x = Resting
  OBVIOUS
<1>2. errand' = [errand EXCEPT ![e] = x]
  BY <1>1 DEF Rest
<1>3. x.pc = "idle" /\ x.next \in Nat
  BY <1>1 DEF Resting
<1> QED
  BY <1>2, <1>3, ErrandMoves

LEMMA RoutinesStart == RoutinesInit => RoutinesInv
<1> SUFFICES ASSUME RoutinesInit PROVE RoutinesInv
  OBVIOUS
<1>1. SomeAuthor \in Author
  BY RoutinesAssumption DEF SomeAuthor
<1>2. RoutinesTypeOK
  BY <1>1 DEF RoutinesInit, RoutinesTypeOK, NoItem
<1>3. \A e \in Errand : errand[e] = Resting
  BY DEF RoutinesInit
<1>4. ErrandsTyped
  BY <1>3 DEF RoutinesInit, ErrandsTyped, Resting
<1>5. ItemsAreThere /\ PlacesAreDistinct /\ DustIsOwed
  BY DEF RoutinesInit, ItemsAreThere, PlacesAreDistinct, DustIsOwed, NoItem
<1>6. \A e \in Errand : Foresees(e) /\ KnowsItsPages(e)
  BY <1>3 DEF Foresees, KnowsItsPages, Resting
<1> QED
  BY <1>2, <1>4, <1>5, <1>6 DEF RoutinesInv

-----------------------------------------------------------------------------
\* A step that only changes what a request is about to do, and lets nothing it owed
\* go unpaid, keeps the invariant if the request knows what it should.
LEMMA PlanKeeps ==
    ASSUME RoutinesInv, NEW e \in Errand, UNCHANGED <<routine, item, tied>>,
           ErrandsTyped', \A f \in Errand : f # e => errand'[f] = errand[f],
           Foresees(e)', KnowsItsPages(e)', DustIsOwed'
    PROVE  RoutinesInv'
<1>1. RoutinesTypeOK' /\ ItemsAreThere' /\ PlacesAreDistinct'
  BY DEF RoutinesInv, RoutinesTypeOK, ItemsAreThere, There, PlacesAreDistinct
<1>2. ASSUME NEW f \in Errand PROVE Foresees(f)'
  BY DEF RoutinesInv, Foresees, ItemsOf
<1>3. ASSUME NEW f \in Errand PROVE KnowsItsPages(f)'
  BY DEF RoutinesInv, KnowsItsPages, Content, Listed
<1> QED
  BY <1>1, <1>2, <1>3 DEF RoutinesInv

\* As long as it owed nothing, what it becomes does not matter to the pages.
LEMMA OthersStillOwe ==
    ASSUME RoutinesInv, NEW e \in Errand, UNCHANGED <<routine, dusty, unbumped>>,
           \A f \in Errand : f # e => errand'[f] = errand[f],
           \A k : ~ VisitBumps(e, k)
    PROVE  DustIsOwed'
<1> SUFFICES ASSUME NEW k \in dusty \ unbumped
             PROVE  \E f \in Errand : VisitBumps(f, k)'
  BY DEF DustIsOwed
<1>1. PICK f \in Errand : VisitBumps(f, k)
  BY DEF RoutinesInv, DustIsOwed
<1>2. f # e
  BY <1>1
<1> QED
  BY <1>1, <1>2 DEF VisitBumps, There

\* The checks: a place, an order, the clones that a delete detaches.
LEMMA ChecksKeep ==
    ASSUME RoutinesInv, NEW e \in Errand, NEW r \in Routine,
           \/ BeginAddTodo(e, r) \/ BeginDeleteRoutine(e, r)
           \/ \E order \in [1..Cardinality(ItemsOf(r)) -> ItemsOf(r)] : BeginReorder(e, r, order)
    PROVE  RoutinesInv'
<1> USE DEF RoutinesInv
<1>0. /\ UNCHANGED <<routine, item, dusty, tied, unbumped>>
      /\ errand[e].pc = "idle" /\ There(r)
  BY DEF BeginAddTodo, BeginDeleteRoutine, BeginReorder
<1>1. \A k : ~ VisitBumps(e, k)
  BY <1>0 DEF VisitBumps
<1>2. CASE BeginAddTodo(e, r)
  <2>1. PICK n, owes : n = NextTodoPosition(r) /\ owes = {}
    OBVIOUS
  <2>2. n \in Nat /\ \A i \in ItemsOf(r) : item[i].place < n
    BY <2>1, NextPlaceIsFree
  <2>3. /\ ErrandsTyped' /\ errand'[e].pc = "add" /\ errand'[e].of = r
        /\ errand'[e].next = n
        /\ \A f \in Errand : f # e => errand'[f] = errand[f]
    <3>1. ErrandsTyped /\ Become(e, "add", r, <<>>, n, owes)
      BY <1>2, <2>1 DEF BeginAddTodo
    <3> QED
      BY <2>2, <3>1, Becomes
  <2>5. Foresees(e)' /\ KnowsItsPages(e)'
    BY <1>0, <2>2, <2>3 DEF Foresees, KnowsItsPages, ItemsOf
  <2>6. DustIsOwed'
    BY <1>0, <1>1, <2>3, OthersStillOwe
  <2> QED
    BY <1>0, <2>3, <2>5, <2>6, PlanKeeps
<1>3. CASE BeginDeleteRoutine(e, r)
  <2>1. PICK owes : /\ {Content(r), Listed(r)} \subseteq owes
                    /\ Become(e, "delete", r, <<>>, 0, owes)
    BY <1>3 DEF BeginDeleteRoutine
  <2>2. /\ ErrandsTyped' /\ errand'[e].pc = "delete" /\ errand'[e].of = r
        /\ errand'[e].owes = owes
        /\ \A f \in Errand : f # e => errand'[f] = errand[f]
    BY <2>1, Becomes
  <2>4. Foresees(e)' /\ KnowsItsPages(e)'
    BY <1>0, <2>1, <2>2 DEF Foresees, KnowsItsPages, There, Content, Listed
  <2>5. DustIsOwed'
    BY <1>0, <1>1, <2>2, OthersStillOwe
  <2> QED
    BY <1>0, <2>2, <2>4, <2>5, PlanKeeps
<1>4. ASSUME NEW order \in [1..Cardinality(ItemsOf(r)) -> ItemsOf(r)],
             BeginReorder(e, r, order)
      PROVE  RoutinesInv'
  <2>0. PICK owes : owes = {}
    OBVIOUS
  <2>1. /\ Become(e, "reorder", r, order, 0, owes)
        /\ \A m, n \in DOMAIN order : order[m] = order[n] => m = n
    BY <1>4, <2>0 DEF BeginReorder
  <2>2. IsFiniteSet(ItemsOf(r))
    <3>1. ItemsOf(r) \in SUBSET Item
      BY DEF ItemsOf
    <3> QED
      BY <3>1, RoutinesAssumption, FS_Subset
  <2>3. \A i \in ItemsOf(r) : \E n \in DOMAIN order : order[n] = i
    BY <2>1, <2>2, OrderNamesAll
  <2>4. DOMAIN order \subseteq Nat \ {0}
    <3>1. Cardinality(ItemsOf(r)) \in Nat
      BY <2>2, FS_CardinalityType
    <3> QED
      BY <3>1
  <2>5. /\ ErrandsTyped' /\ errand'[e].pc = "reorder" /\ errand'[e].of = r
        /\ errand'[e].order = order
        /\ \A f \in Errand : f # e => errand'[f] = errand[f]
    <3>1. ErrandsTyped /\ Become(e, "reorder", r, order, 0, owes) /\ 0 \in Nat
      BY <2>1
    <3> QED
      BY <2>4, <3>1, Becomes
  <2>7. Foresees(e)' /\ KnowsItsPages(e)'
    BY <1>0, <2>3, <2>5 DEF Foresees, KnowsItsPages, ItemsOf
  <2>8. DustIsOwed'
    BY <1>0, <1>1, <2>5, OthersStillOwe
  <2> QED
    BY <1>0, <2>5, <2>7, <2>8, PlanKeeps
<1> QED
  BY <1>2, <1>3, <1>4

\* A request that finds its routine gone ends, and owed nobody anything.
LEMMA GoneKeeps ==
    ASSUME RoutinesInv, NEW e \in Errand, Rest(e), UNCHANGED <<routine, item, dusty, tied, unbumped>>,
           errand[e].pc # "bump", ~ There(errand[e].of)
    PROVE  RoutinesInv'
<1>1. /\ ErrandsTyped' /\ errand'[e].pc = "idle"
      /\ \A f \in Errand : f # e => errand'[f] = errand[f]
  BY Rests DEF RoutinesInv
<1>2. Foresees(e)' /\ KnowsItsPages(e)'
  BY <1>1 DEF Foresees, KnowsItsPages
<1>3. \A k : ~ VisitBumps(e, k)
  BY DEF VisitBumps
<1>4. DustIsOwed'
  BY <1>1, <1>3, OthersStillOwe
<1> QED
  BY <1>1, <1>2, <1>4, PlanKeeps

LEMMA BumpRoutineKeeps ==
    ASSUME RoutinesInv, NEW e \in Errand, BumpRoutine(e)
    PROVE  RoutinesInv'
<1>1. /\ UNCHANGED <<routine, item, tied>>
      /\ dusty' = dusty \ errand[e].owes /\ unbumped' = unbumped \ errand[e].owes
  BY DEF BumpRoutine
<1>2. /\ ErrandsTyped' /\ errand'[e].pc = "idle"
      /\ \A f \in Errand : f # e => errand'[f] = errand[f]
  BY Rests DEF RoutinesInv, BumpRoutine
<1>3. Foresees(e)' /\ KnowsItsPages(e)'
  BY <1>2 DEF Foresees, KnowsItsPages
<1>4. DustIsOwed'
  <2> SUFFICES ASSUME NEW k \in dusty' \ unbumped'
               PROVE  \E f \in Errand : VisitBumps(f, k)'
    BY DEF DustIsOwed
  <2>1. k \in dusty \ unbumped /\ k \notin errand[e].owes
    BY <1>1
  <2>2. PICK f \in Errand : VisitBumps(f, k)
    BY <2>1 DEF RoutinesInv, DustIsOwed
  <2>3. f # e
    BY <2>1, <2>2 DEF VisitBumps
  <2> QED
    BY <1>1, <1>2, <2>2, <2>3 DEF VisitBumps, There
<1> QED
  BY <1>1, <1>2, <1>3, <1>4, PlanKeeps

-----------------------------------------------------------------------------
\* A change of one routine's items shows on its page and on its owner's list.
LEMMA OneRoutineStirs ==
    ASSUME RoutinesTypeOK, RoutinesTypeOK', NEW r \in Routine, UNCHANGED routine,
           \A i \in Item : \/ item'[i] = item[i]
                           \/ /\ item[i].in \in {r, NoRoutine}
                              /\ item'[i].in \in {r, NoRoutine}
    PROVE  /\ Stirred \subseteq {Content(r), Listed(r)}
           /\ (\A i \in Item : item'[i].in = item[i].in /\ item'[i].done = item[i].done)
                => Stirred \subseteq {Content(r)}
<1>1. ASSUME NEW q \in Routine, q # r PROVE ItemsOf(q)' = ItemsOf(q)
  BY <1>1, RoutinesAssumption DEF ItemsOf, RoutinesTypeOK
<1>2. ASSUME NEW q \in Routine, q # r, NEW i \in ItemsOf(q) PROVE item'[i] = item[i]
  BY <1>2, RoutinesAssumption DEF ItemsOf
<1>3. ASSUME NEW q \in Routine, q # r PROVE OneRoutine(q)' = OneRoutine(q)
  <2>1. ItemsOf(q)' = ItemsOf(q) /\ \A i \in ItemsOf(q) : item'[i] = item[i]
    BY <1>1, <1>2, <1>3
  <2>2. {<<i, item'[i].place, item'[i].done>> : i \in ItemsOf(q)'}
          = {<<i, item[i].place, item[i].done>> : i \in ItemsOf(q)}
    BY <2>1
  <2> QED
    BY <2>2 DEF OneRoutine
<1>4. ASSUME NEW a \in Author,
             a # routine[r].owner \/ \A i \in Item : item'[i].in = item[i].in
                                                     /\ item'[i].done = item[i].done
      PROVE  RoutineList(a)' = RoutineList(a)
  <2> DEFINE Own == {q \in Routine : There(q) /\ routine[q].owner = a}
             Ticked(q) == {i \in ItemsOf(q) : item[i].done}
  <2>1. Own' = Own
    BY DEF There
  <2>2. ASSUME NEW q \in Own PROVE ItemsOf(q)' = ItemsOf(q) /\ Ticked(q)' = Ticked(q)
    <3>1. CASE q # r
      BY <1>1, <1>2, <3>1
    <3>2. CASE q = r
      BY <1>4, <2>2, <3>2 DEF ItemsOf
    <3> QED
      BY <3>1, <3>2
  <2>3. {<<q, Cardinality(ItemsOf(q)'), Cardinality(Ticked(q)')>> : q \in Own'}
          = {<<q, Cardinality(ItemsOf(q)), Cardinality(Ticked(q))>> : q \in Own}
    <3> HIDE DEF Own, Ticked
    <3> QED
      BY <2>1, <2>2
  <2> QED
    BY <2>3 DEF RoutineList
<1>5. ASSUME NEW k \in Stirred PROVE k = Content(r) \/ k = Listed(r)
  BY <1>3, <1>4 DEF Stirred, Content, Listed
<1>6. ASSUME NEW k \in Stirred,
             \A i \in Item : item'[i].in = item[i].in /\ item'[i].done = item[i].done
      PROVE  k = Content(r)
  BY <1>3, <1>4, <1>6 DEF Stirred, Content
<1> QED
  BY <1>5, <1>6

\* A write of one routine's items, after which its bumps are owed, keeps the
\* invariant if it leaves the places apart, or is known to have been overtaken.
LEMMA WriteKeeps ==
    ASSUME RoutinesInv, NEW e \in Errand, NEW r \in Routine, NEW owes,
           UNCHANGED routine, RoutinesTypeOK', Wrote(e, r, owes),
           \A i \in Item : \/ item'[i] = item[i]
                           \/ /\ item[i].in \in {r, NoRoutine}
                              /\ item'[i].in \in {r, NoRoutine}
                              /\ item'[i].in = r => There(r),
           tied \subseteq tied', unbumped \subseteq unbumped',
           Stirred \subseteq owes \cup unbumped',
           \A k : VisitBumps(e, k) => k \in owes,
           r \notin tied' =>
             /\ \A i, j \in Item : item'[i].in = r /\ item'[j].in = r
                                   /\ item'[i].place = item'[j].place => i = j
             /\ \A f \in Errand \ {e} : errand[f].of = r => Foresees(f)'
    PROVE  RoutinesInv'
<1> USE DEF RoutinesInv
<1>1. Become(e, "bump", r, <<>>, 0, owes) /\ dusty' = dusty \cup Stirred
  BY DEF Wrote
<1>2. /\ ErrandsTyped'
      /\ \A f \in Errand : f # e => errand'[f] = errand[f]
  BY <1>1, Becomes
<1>3. errand'[e].pc = "bump" /\ errand'[e].of = r /\ errand'[e].owes = owes
  BY <1>1, Becomes
<1>4. ItemsAreThere'
  BY DEF ItemsAreThere, There
<1>5. PlacesAreDistinct'
  <2> SUFFICES ASSUME NEW i \in Item, NEW j \in Item, item'[i].in = item'[j].in,
                      item'[i].place = item'[j].place,
                      item'[i].in \notin tied', item'[i].in # NoRoutine
               PROVE  i = j
    BY DEF PlacesAreDistinct
  <2>1. CASE item'[i].in = r
    BY <2>1
  <2>2. CASE item'[i].in # r
    <3>1. item'[i] = item[i] /\ item'[j] = item[j]
      BY <2>2
    <3> QED
      BY <3>1 DEF PlacesAreDistinct
  <2> QED
    BY <2>1, <2>2
<1>6. ASSUME NEW f \in Errand PROVE Foresees(f)'
  <2>1. CASE f = e
    BY <1>3, <2>1 DEF Foresees
  <2>2. CASE f # e /\ errand[f].of = r
    BY <1>2, <2>2 DEF Foresees
  <2>3. CASE f # e /\ errand[f].of # r
    <3>0. PICK q : q = errand[f].of
      OBVIOUS
    <3>1. errand'[f] = errand[f]
      BY <1>2, <2>3
    <3>2. CASE errand[f].pc = "idle"
      BY <3>1, <3>2 DEF Foresees
    <3>3. CASE errand[f].pc # "idle"
      <4>1. q \in Routine /\ q # r /\ q # NoRoutine
        BY <2>3, <3>0, <3>3, RoutinesAssumption DEF ErrandsTyped
      <4>2. ItemsOf(q)' = ItemsOf(q) /\ \A i \in ItemsOf(q) : item'[i] = item[i]
        BY <4>1 DEF ItemsOf
      <4>3. Foresees(f) /\ (q \notin tied' => q \notin tied)
        OBVIOUS
      <4> QED
        BY <3>0, <3>1, <4>2, <4>3 DEF Foresees
    <3> QED
      BY <3>2, <3>3
  <2> QED
    BY <2>1, <2>2, <2>3
<1>7. ASSUME NEW f \in Errand PROVE KnowsItsPages(f)'
  <2>1. CASE f = e
    BY <1>3, <2>1 DEF KnowsItsPages
  <2>2. CASE f # e
    BY <1>2, <2>2 DEF KnowsItsPages, Content, Listed
  <2> QED
    BY <2>1, <2>2
<1>8. DustIsOwed'
  <2> SUFFICES ASSUME NEW k \in dusty' \ unbumped'
               PROVE  \E f \in Errand : VisitBumps(f, k)'
    BY DEF DustIsOwed
  <2>1. CASE k \in owes
    BY <1>3, <2>1 DEF VisitBumps
  <2>2. CASE k \notin owes
    <3>1. k \in dusty \ unbumped
      BY <1>1, <2>2
    <3>2. PICK f \in Errand : VisitBumps(f, k)
      BY <3>1 DEF DustIsOwed
    <3>3. f # e
      BY <2>2, <3>2
    <3> QED
      BY <1>2, <3>2, <3>3 DEF VisitBumps, There
  <2> QED
    BY <2>1, <2>2
<1> QED
  BY <1>2, <1>4, <1>5, <1>6, <1>7, <1>8
-----------------------------------------------------------------------------
\* createTodoItem writes at the place it was told.
LEMMA CreateTodoItemKeeps ==
    ASSUME RoutinesInv, NEW e \in Errand, NEW i \in Item, CreateTodoItem(e, i)
    PROVE  RoutinesInv'
<1> USE DEF RoutinesInv
<1>1. PICK r : r = errand[e].of
  OBVIOUS
<1>2. CASE ~ There(r)
  <2>1. Rest(e) /\ UNCHANGED <<routine, item, dusty, tied, unbumped>> /\ errand[e].pc = "add"
    BY <1>1, <1>2 DEF CreateTodoItem
  <2> QED
    BY <1>1, <1>2, <2>1, GoneKeeps
<1>3. CASE There(r)
  <2>1. PICK n : n = errand[e].next
    OBVIOUS
  <2>2. PICK x : x = [in |-> r, place |-> n, done |-> FALSE]
    OBVIOUS
  <2>3. /\ errand[e].pc = "add" /\ i \in Unused /\ item' = [item EXCEPT ![i] = x]
        /\ UNCHANGED <<routine, unbumped>> /\ Overtaken(e, r)
        /\ Wrote(e, r, {Content(r), Listed(r)})
    BY <1>1, <1>3, <2>1, <2>2 DEF CreateTodoItem
  <2>4. /\ r \in Routine /\ n \in Nat /\ item[i].in = NoRoutine
        /\ x \in [in : Routine \cup {NoRoutine}, place : Nat, done : BOOLEAN]
        /\ x.in = r /\ x.place = n
    BY <1>3, <2>1, <2>2, <2>3 DEF There, ErrandsTyped, Unused
  <2>5. /\ item'[i] = x /\ \A j \in Item : j # i => item'[j] = item[j]
        /\ item' \in [Item -> [in : Routine \cup {NoRoutine}, place : Nat, done : BOOLEAN]]
    BY <2>3, <2>4 DEF RoutinesTypeOK
  <2>6. tied \subseteq tied' /\ tied' \subseteq tied \cup {r}
    BY <2>3 DEF Overtaken
  <2>7. RoutinesTypeOK'
    BY <2>3, <2>4, <2>5, <2>6 DEF RoutinesTypeOK
  <2>8. Stirred \subseteq {Content(r), Listed(r)} \cup unbumped'
    BY <2>3, <2>4, <2>5, <2>7, OneRoutineStirs
  <2>9. \A k : ~ VisitBumps(e, k)
    BY <2>3 DEF VisitBumps
  <2>10. ASSUME r \notin tied'
         PROVE  /\ \A j, k \in Item : item'[j].in = r /\ item'[k].in = r
                                      /\ item'[j].place = item'[k].place => j = k
                /\ \A f \in Errand \ {e} : errand[f].of = r => Foresees(f)'
    <3>1. r \notin tied /\ r # NoRoutine
      BY <2>4, <2>6, <2>10, RoutinesAssumption
    <3>2. \A j \in Item : item[j].in = r => item[j].place < n
      BY <1>1, <2>1, <2>3, <3>1 DEF Foresees, ItemsOf
    <3>3. ASSUME NEW j \in Item, NEW k \in Item, item'[j].in = r, item'[k].in = r,
                 item'[j].place = item'[k].place
          PROVE  j = k
      <4>1. CASE j # i /\ k # i
        BY <2>5, <3>1, <3>3, <4>1 DEF PlacesAreDistinct
      <4>2. CASE j = i /\ k # i
        <5>1. item[k].place < n /\ item[k].place \in Nat
          BY <2>5, <3>2, <3>3, <4>2 DEF RoutinesTypeOK
        <5> QED
          BY <2>4, <2>5, <3>3, <4>2, <5>1
      <4>3. CASE j # i /\ k = i
        <5>1. item[j].place < n /\ item[j].place \in Nat
          BY <2>5, <3>2, <3>3, <4>3 DEF RoutinesTypeOK
        <5> QED
          BY <2>4, <2>5, <3>3, <4>3, <5>1
      <4> QED
        BY <4>1, <4>2, <4>3
    <3>4. ASSUME NEW f \in Errand \ {e}, errand[f].of = r PROVE Foresees(f)'
      <4>1. errand[f].pc \notin {"add", "reorder", "copy"}
        BY <2>3, <2>10, <3>4 DEF Overtaken
      <4>2. errand'[f] = errand[f]
        BY <2>3, <2>4, <3>4, Becomes DEF Wrote
      <4> QED
        BY <4>1, <4>2 DEF Foresees
    <3> QED
      BY <3>3, <3>4
  <2> QED
    BY <2>3, <2>4, <2>5, <2>6, <2>7, <2>8, <2>9, <2>10, <1>3, WriteKeeps
<1> QED
  BY <1>2, <1>3

\* createTodoItems writes places 0 to n - 1 into a clone that is still empty.
LEMMA CreateTodoItemsKeeps ==
    ASSUME RoutinesInv, NEW e \in Errand, NEW copies \in SUBSET Unused,
           CreateTodoItems(e, copies)
    PROVE  RoutinesInv'
<1> USE DEF RoutinesInv
<1>1. PICK r : r = errand[e].of
  OBVIOUS
<1>2. CASE ~ There(r)
  <2>1. Rest(e) /\ UNCHANGED <<routine, item, dusty, tied, unbumped>> /\ errand[e].pc = "copy"
    BY <1>1, <1>2 DEF CreateTodoItems
  <2> QED
    BY <1>1, <1>2, <2>1, GoneKeeps
<1>3. CASE There(r)
  <2>1. PICK n : n = errand[e].next
    OBVIOUS
  <2>2. PICK owes : owes = errand[e].owes
    OBVIOUS
  <2>3. PICK place \in [copies -> 0..n - 1] :
           /\ \A i, j \in copies : place[i] = place[j] => i = j
           /\ item' = [i \in Item |->
                IF i \in copies THEN [in |-> r, place |-> place[i], done |-> FALSE]
                ELSE item[i]]
    BY <1>1, <1>3, <2>1 DEF CreateTodoItems
  <2>4. /\ errand[e].pc = "copy" /\ UNCHANGED routine /\ Overtaken(e, r)
        /\ Wrote(e, r, owes) /\ unbumped' = unbumped \cup (Stirred \ owes)
    BY <1>1, <1>3, <2>2 DEF CreateTodoItems
  <2>5. r \in Routine /\ n \in Nat /\ \A i \in copies : i \in Item /\ item[i].in = NoRoutine
    BY <1>3, <2>1 DEF There, ErrandsTyped, Unused
  <2>6. \A i \in copies : /\ item'[i] \in [in : Routine \cup {NoRoutine}, place : Nat, done : BOOLEAN]
                          /\ item'[i].in = r /\ item'[i].place = place[i]
    <3> SUFFICES ASSUME NEW i \in copies
                 PROVE  /\ item'[i] \in [in : Routine \cup {NoRoutine}, place : Nat, done : BOOLEAN]
                        /\ item'[i].in = r /\ item'[i].place = place[i]
      OBVIOUS
    <3>1. item'[i] = [in |-> r, place |-> place[i], done |-> FALSE]
      BY <2>3, <2>5
    <3>2. place[i] \in Nat
      BY <2>3, <2>5
    <3> QED
      BY <2>5, <3>1, <3>2
  <2>7. \A i \in Item : i \notin copies => item'[i] = item[i]
    BY <2>3
  <2>8. item' \in [Item -> [in : Routine \cup {NoRoutine}, place : Nat, done : BOOLEAN]]
    <3>1. item' = [i \in Item |-> item'[i]]
      BY <2>3
    <3>2. \A i \in Item : item'[i] \in [in : Routine \cup {NoRoutine}, place : Nat, done : BOOLEAN]
      BY <2>6, <2>7 DEF RoutinesTypeOK
    <3> QED
      BY <3>1, <3>2
  <2>9. tied \subseteq tied' /\ tied' \subseteq tied \cup {r}
    BY <2>4 DEF Overtaken
  <2>10. RoutinesTypeOK'
    BY <2>4, <2>5, <2>8, <2>9 DEF RoutinesTypeOK
  <2>11. \A i \in Item : \/ item'[i] = item[i]
                         \/ /\ item[i].in \in {r, NoRoutine}
                            /\ item'[i].in \in {r, NoRoutine}
                            /\ item'[i].in = r => There(r)
    BY <1>3, <2>5, <2>6, <2>7
  <2>12. \A k : VisitBumps(e, k) => k \in owes
    BY <2>2 DEF VisitBumps
  <2>13. ASSUME r \notin tied'
         PROVE  /\ \A j, k \in Item : item'[j].in = r /\ item'[k].in = r
                                      /\ item'[j].place = item'[k].place => j = k
                /\ \A f \in Errand \ {e} : errand[f].of = r => Foresees(f)'
    <3>1. r \notin tied
      BY <2>9, <2>13
    <3>2. \A j \in Item : item[j].in # r
      BY <1>1, <2>4, <3>1 DEF Foresees, ItemsOf
    <3>3. ASSUME NEW j \in Item, NEW k \in Item, item'[j].in = r, item'[k].in = r,
                 item'[j].place = item'[k].place
          PROVE  j = k
      <4>1. j \in copies /\ k \in copies
        BY <2>7, <3>2, <3>3
      <4> QED
        BY <2>3, <2>6, <3>3, <4>1
    <3>4. ASSUME NEW f \in Errand \ {e}, errand[f].of = r PROVE Foresees(f)'
      <4>1. errand[f].pc \notin {"add", "reorder", "copy"}
        BY <2>4, <2>13, <3>4 DEF Overtaken
      <4>2. errand'[f] = errand[f]
        BY <2>4, <2>5, <3>4, Becomes DEF Wrote
      <4> QED
        BY <4>1, <4>2 DEF Foresees
    <3> QED
      BY <3>3, <3>4
  <2>14. Stirred \subseteq owes \cup unbumped' /\ unbumped \subseteq unbumped'
    BY <2>4
  <2> QED
    BY <2>4, <2>5, <2>9, <2>10, <2>11, <2>12, <2>13, <2>14, WriteKeeps
<1> QED
  BY <1>2, <1>3

\* setTodoPositions gives every item its place in the order.
LEMMA SetTodoPositionsKeeps ==
    ASSUME RoutinesInv, NEW e \in Errand, SetTodoPositions(e)
    PROVE  RoutinesInv'
<1> USE DEF RoutinesInv
<1>1. PICK r : r = errand[e].of
  OBVIOUS
<1>2. PICK order : order = errand[e].order
  OBVIOUS
<1> DEFINE Spot(i) == CHOOSE n \in DOMAIN order : order[n] = i
           Named(i) == item[i].in = r /\ \E n \in DOMAIN order : order[n] = i
<1>3. /\ errand[e].pc = "reorder" /\ UNCHANGED <<routine, unbumped>> /\ Overtaken(e, r)
      /\ Wrote(e, r, {Content(r)})
      /\ item' = [i \in Item |-> IF Named(i) THEN [item[i] EXCEPT !.place = Spot(i) - 1]
                                             ELSE item[i]]
  BY <1>1, <1>2 DEF SetTodoPositions
<1>4. r \in Routine /\ DOMAIN order \subseteq Nat \ {0} /\ r # NoRoutine
  BY <1>1, <1>2, <1>3, RoutinesAssumption DEF ErrandsTyped
<1>5. \A i \in Item : Named(i) => Spot(i) \in Nat \ {0} /\ order[Spot(i)] = i
  <2> SUFFICES ASSUME NEW i \in Item, \E n \in DOMAIN order : order[n] = i
               PROVE  Spot(i) \in DOMAIN order /\ order[Spot(i)] = i
    BY <1>4
  <2> QED
    OBVIOUS
<1> DEFINE ItemType == [in : Routine \cup {NoRoutine}, place : Nat, done : BOOLEAN]
<1>6. ASSUME NEW i \in Item
      PROVE  /\ item'[i] \in ItemType
             /\ item'[i].in = item[i].in /\ item'[i].done = item[i].done
             /\ Named(i) => item'[i].place = Spot(i) - 1
             /\ ~ Named(i) => item'[i] = item[i]
  <2>1. item[i] \in ItemType
    BY DEF RoutinesTypeOK
  <2>2. CASE Named(i)
    <3>1. Spot(i) \in Nat \ {0}
      BY <1>5, <2>2
    <3>2. item'[i] = [item[i] EXCEPT !.place = Spot(i) - 1]
      BY <1>3, <2>2
    <3> HIDE DEF Spot, Named
    <3>3. Spot(i) - 1 \in Nat
      BY <3>1
    <3> QED
      BY <2>1, <2>2, <3>2, <3>3
  <2>3. CASE ~ Named(i)
    <3>1. item'[i] = item[i]
      BY <1>3, <2>3
    <3> QED
      BY <2>1, <2>3, <3>1
  <2> QED
    BY <2>2, <2>3
<1>7. item' \in [Item -> ItemType]
  <2>1. item' = [i \in Item |-> item'[i]]
    BY <1>3
  <2> HIDE DEF ItemType
  <2> QED
    BY <1>6, <2>1
<1>8. tied \subseteq tied' /\ tied' \subseteq tied \cup {r}
  BY <1>3 DEF Overtaken
<1>9. RoutinesTypeOK'
  BY <1>3, <1>4, <1>7, <1>8 DEF RoutinesTypeOK
<1>10. \A i \in Item : \/ item'[i] = item[i]
                       \/ /\ item[i].in \in {r, NoRoutine}
                          /\ item'[i].in \in {r, NoRoutine}
                          /\ item'[i].in = r => There(r)
  <2> SUFFICES ASSUME NEW i \in Item, item[i].in = r
               PROVE  item'[i].in = r /\ There(r)
    BY <1>6
  <2> QED
    BY <1>4, <1>6 DEF ItemsAreThere
<1>11. Stirred \subseteq {Content(r)}
  <2>1. \A i \in Item : item'[i].in = item[i].in /\ item'[i].done = item[i].done
    BY <1>6
  <2> QED
    BY <1>3, <1>4, <1>9, <1>10, <2>1, OneRoutineStirs
<1>12. \A k : ~ VisitBumps(e, k)
  BY <1>3 DEF VisitBumps
<1>13. ASSUME r \notin tied'
       PROVE  /\ \A j, k \in Item : item'[j].in = r /\ item'[k].in = r
                                    /\ item'[j].place = item'[k].place => j = k
              /\ \A f \in Errand \ {e} : errand[f].of = r => Foresees(f)'
  <2>1. r \notin tied
    BY <1>8, <1>13
  <2>2. \A j \in Item : item[j].in = r => Named(j)
    BY <1>1, <1>2, <1>3, <2>1 DEF Foresees, ItemsOf
  <2>3. ASSUME NEW j \in Item, NEW k \in Item, item'[j].in = r, item'[k].in = r,
               item'[j].place = item'[k].place
        PROVE  j = k
    <3>1. Named(j) /\ Named(k)
      BY <1>6, <2>2, <2>3
    <3>2. /\ Spot(j) \in Nat /\ order[Spot(j)] = j /\ item'[j].place = Spot(j) - 1
          /\ Spot(k) \in Nat /\ order[Spot(k)] = k /\ item'[k].place = Spot(k) - 1
      BY <1>5, <1>6, <3>1
    <3>3. PICK m : m = Spot(j)
      OBVIOUS
    <3>4. PICK n : n = Spot(k)
      OBVIOUS
    <3> HIDE DEF Spot, Named
    <3>5. m \in Nat /\ n \in Nat /\ m - 1 = n - 1
      BY <2>3, <3>2, <3>3, <3>4
    <3>6. m = n
      BY <3>5
    <3> QED
      BY <3>2, <3>3, <3>4, <3>6
  <2>4. ASSUME NEW f \in Errand \ {e}, errand[f].of = r PROVE Foresees(f)'
    <3>1. errand[f].pc \notin {"add", "reorder", "copy"}
      BY <1>3, <1>13, <2>4 DEF Overtaken
    <3>2. errand'[f] = errand[f]
      BY <1>3, <1>4, <2>4, Becomes DEF Wrote
    <3> QED
      BY <3>1, <3>2 DEF Foresees
  <2> QED
    BY <2>3, <2>4
<1>14. unbumped \subseteq unbumped' /\ Stirred \subseteq {Content(r)} \cup unbumped'
  BY <1>3, <1>11
<1> QED
  <2> HIDE DEF Named, Spot, ItemType
  <2> QED
    BY <1>3, <1>4, <1>8, <1>9, <1>10, <1>12, <1>13, <1>14, WriteKeeps

\* Ticks, resets and removals move no item and add none.
LEMMA NothingMoves ==
    ASSUME RoutinesInv, NEW e \in Errand, NEW r \in Routine,
           errand[e].pc = "idle", UNCHANGED <<routine, tied, unbumped>>,
           Wrote(e, r, {Content(r), Listed(r)}),
           item' \in [Item -> [in : Routine \cup {NoRoutine}, place : Nat, done : BOOLEAN]],
           \A i \in Item : \/ item'[i] = item[i]
                           \/ item[i].in = r /\ item'[i] = NoItem
                           \/ item[i].in = r /\ item'[i].in = r /\ item'[i].place = item[i].place
    PROVE  RoutinesInv'
<1> USE DEF RoutinesInv
<1>1. RoutinesTypeOK'
  BY DEF RoutinesTypeOK
<1>2. r # NoRoutine /\ NoItem.in = NoRoutine
  BY RoutinesAssumption DEF NoItem
<1>3. \A i \in Item : item'[i].in = r => item[i].in = r /\ item'[i].place = item[i].place
  BY <1>2
<1>4. \A i \in Item : \/ item'[i] = item[i]
                      \/ /\ item[i].in \in {r, NoRoutine}
                         /\ item'[i].in \in {r, NoRoutine}
                         /\ item'[i].in = r => There(r)
  BY <1>2 DEF ItemsAreThere
<1>5. Stirred \subseteq {Content(r), Listed(r)} \cup unbumped'
  BY <1>1, <1>4, OneRoutineStirs
<1>6. \A k : ~ VisitBumps(e, k)
  BY DEF VisitBumps
<1>7. ASSUME r \notin tied'
      PROVE  /\ \A j, k \in Item : item'[j].in = r /\ item'[k].in = r
                                   /\ item'[j].place = item'[k].place => j = k
             /\ \A f \in Errand \ {e} : errand[f].of = r => Foresees(f)'
  <2>1. ASSUME NEW j \in Item, NEW k \in Item, item'[j].in = r, item'[k].in = r,
               item'[j].place = item'[k].place
        PROVE  j = k
    BY <1>2, <1>3, <1>7, <2>1 DEF PlacesAreDistinct
  <2>2. ASSUME NEW f \in Errand \ {e}, errand[f].of = r PROVE Foresees(f)'
    <3>1. errand'[f] = errand[f]
      BY <2>2, Becomes DEF Wrote
    <3>2. \A i \in Item : item'[i].in = r => item[i].in = r /\ item'[i].place = item[i].place
      BY <1>3
    <3>3. Foresees(f)
      OBVIOUS
    <3> QED
      BY <1>7, <2>2, <3>1, <3>2, <3>3 DEF Foresees, ItemsOf
  <2> QED
    BY <2>1, <2>2
<1> QED
  BY <1>1, <1>4, <1>5, <1>6, <1>7, WriteKeeps

LEMMA TicksKeep ==
    ASSUME RoutinesInv, NEW e \in Errand,
           \/ \E i \in Item : TickTodo(e, i) \/ DeleteTodoItem(e, i)
           \/ \E r \in Routine : ResetRoutine(e, r)
    PROVE  RoutinesInv'
<1> DEFINE ItemType == [in : Routine \cup {NoRoutine}, place : Nat, done : BOOLEAN]
<1>0. item \in [Item -> ItemType] /\ NoItem \in ItemType
  BY DEF RoutinesInv, RoutinesTypeOK, NoItem
<1>1. ASSUME NEW i \in Item, TickTodo(e, i) PROVE RoutinesInv'
  <2>1. PICK r : r = item[i].in
    OBVIOUS
  <2>2. /\ errand[e].pc = "idle" /\ i \notin Unused /\ UNCHANGED <<routine, tied, unbumped>>
        /\ Wrote(e, r, {Content(r), Listed(r)})
    BY <1>1, <2>1 DEF TickTodo
  <2>3. r \in Routine
    BY <1>0, <2>1, <2>2 DEF Unused
  <2>4. PICK x : x = [item[i] EXCEPT !.done = ~ item[i].done]
    OBVIOUS
  <2>5. x \in ItemType /\ x.in = r /\ x.place = item[i].place
    BY <1>0, <2>1, <2>4
  <2>6. item' = [item EXCEPT ![i] = x]
    BY <1>1, <2>4 DEF TickTodo
  <2>7. item' \in [Item -> ItemType] /\ item'[i] = x /\ \A j \in Item : j # i => item'[j] = item[j]
    <3> HIDE DEF ItemType
    <3> QED
      BY <1>0, <2>5, <2>6
  <2> QED
    BY <2>1, <2>2, <2>3, <2>5, <2>7, NothingMoves
<1>2. ASSUME NEW i \in Item, DeleteTodoItem(e, i) PROVE RoutinesInv'
  <2>1. PICK r : r = item[i].in
    OBVIOUS
  <2>2. /\ errand[e].pc = "idle" /\ i \notin Unused /\ UNCHANGED <<routine, tied, unbumped>>
        /\ Wrote(e, r, {Content(r), Listed(r)}) /\ item' = [item EXCEPT ![i] = NoItem]
    BY <1>2, <2>1 DEF DeleteTodoItem
  <2>3. r \in Routine
    BY <1>0, <2>1, <2>2 DEF Unused
  <2>4. /\ item' \in [Item -> ItemType] /\ item'[i] = NoItem
        /\ \A j \in Item : j # i => item'[j] = item[j]
    <3> HIDE DEF ItemType
    <3> QED
      BY <1>0, <2>2
  <2> QED
    BY <2>1, <2>2, <2>3, <2>4, NothingMoves
<1>3. ASSUME NEW r \in Routine, ResetRoutine(e, r) PROVE RoutinesInv'
  <2>1. /\ errand[e].pc = "idle" /\ UNCHANGED <<routine, tied, unbumped>>
        /\ Wrote(e, r, {Content(r), Listed(r)})
        /\ item' = [i \in Item |-> IF item[i].in = r THEN [item[i] EXCEPT !.done = FALSE]
                                                     ELSE item[i]]
    BY <1>3 DEF ResetRoutine
  <2>2. ASSUME NEW i \in Item
        PROVE  /\ item'[i] \in ItemType
               /\ \/ item'[i] = item[i]
                  \/ item[i].in = r /\ item'[i].in = r /\ item'[i].place = item[i].place
    <3>1. CASE item[i].in = r
      <4>1. item'[i] = [item[i] EXCEPT !.done = FALSE]
        BY <2>1, <3>1
      <4> QED
        BY <1>0, <3>1, <4>1
    <3>2. CASE item[i].in # r
      BY <1>0, <2>1, <3>2
    <3> QED
      BY <3>1, <3>2
  <2>3. item' \in [Item -> ItemType]
    <3>1. item' = [i \in Item |-> item'[i]]
      BY <2>1
    <3> HIDE DEF ItemType
    <3> QED
      BY <2>2, <3>1
  <2> QED
    BY <2>1, <2>2, <2>3, NothingMoves
<1> QED
  BY <1>1, <1>2, <1>3
-----------------------------------------------------------------------------
\* A routine that begins shows on its owner's list and on no page of another.
LEMMA NewRoutineStirs ==
    ASSUME RoutinesInv, NEW r \in Routine, NEW a \in Author, routine[r].st = "new",
           UNCHANGED item, RoutinesTypeOK',
           routine'[r].owner = a, \A q \in Routine : q # r => routine'[q] = routine[q]
    PROVE  Stirred \subseteq {<<"list", a>>}
<1>1. \A q \in Routine : ItemsOf(q)' = ItemsOf(q)
  BY DEF ItemsOf
<1>2. ASSUME NEW q \in Routine, There(q) PROVE OneRoutine(q)' = OneRoutine(q)
  <2>1. routine'[q] = routine[q]
    BY <1>2 DEF There
  <2> QED
    BY <2>1 DEF OneRoutine, ItemsOf
<1>3. ASSUME NEW b \in Author, b # a PROVE RoutineList(b)' = RoutineList(b)
  <2>1. {q \in Routine : There(q) /\ routine[q].owner = b}'
        = {q \in Routine : There(q) /\ routine[q].owner = b}
    BY <1>3 DEF There
  <2> DEFINE Own == {q \in Routine : There(q) /\ routine[q].owner = b}
             Ticked(q) == {i \in ItemsOf(q) : item[i].done}
  <2>2. \A q \in Routine : ItemsOf(q)' = ItemsOf(q) /\ Ticked(q)' = Ticked(q)
    BY DEF ItemsOf
  <2>3. {<<q, Cardinality(ItemsOf(q)'), Cardinality(Ticked(q)')>> : q \in Own'}
        = {<<q, Cardinality(ItemsOf(q)), Cardinality(Ticked(q))>> : q \in Own}
    <3>1. Own' = Own /\ Own \subseteq Routine
      BY <2>1
    <3> HIDE DEF Own, Ticked
    <3> QED
      BY <2>2, <3>1
  <2> QED
    BY <2>3 DEF RoutineList
<1> QED
  BY <1>2, <1>3 DEF Stirred

\* A routine that begins is empty, so nothing is known of it that could be wrong.
LEMMA NewRoutineKeeps ==
    ASSUME RoutinesInv, NEW e \in Errand, NEW r \in Routine, NEW a \in Author,
           NEW source \in Routine \cup {NoRoutine}, NEW pc \in {"bump", "copy"}, NEW n \in Nat,
           errand[e].pc = "idle", routine[r].st = "new",
           routine' = [routine EXCEPT ![r] = [st |-> "there", owner |-> a, source |-> source]],
           UNCHANGED <<item, tied, unbumped>>, dusty' = dusty \cup Stirred,
           Become(e, pc, r, <<>>, n, {<<"list", a>>})
    PROVE  RoutinesInv'
<1> USE DEF RoutinesInv
<1>1. PICK x : x = [st |-> "there", owner |-> a, source |-> source]
  OBVIOUS
<1>2. routine' = [routine EXCEPT ![r] = x]
  BY <1>1
<1> DEFINE Row == [st : {"new", "there", "gone"}, owner : Author,
                   source : Routine \cup {NoRoutine}]
<1>3. x \in Row /\ x.st = "there" /\ x.owner = a
  BY <1>1
<1>4. /\ routine' \in [Routine -> Row] /\ routine'[r] = x
      /\ \A q \in Routine : q # r => routine'[q] = routine[q]
  <2>1. routine \in [Routine -> Row]
    BY DEF RoutinesTypeOK
  <2> HIDE DEF Row
  <2> QED
    BY <1>2, <1>3, <2>1
<1>5. RoutinesTypeOK'
  BY <1>4 DEF RoutinesTypeOK
<1>6. Stirred \subseteq {<<"list", a>>}
  BY <1>3, <1>4, <1>5, NewRoutineStirs
<1>7. /\ ErrandsTyped'
      /\ errand'[e].pc = pc /\ errand'[e].of = r /\ errand'[e].owes = {<<"list", a>>}
      /\ \A f \in Errand : f # e => errand'[f] = errand[f]
  <2>1. PICK owes : owes = {<<"list", a>>}
    OBVIOUS
  <2>2. ErrandsTyped /\ Become(e, pc, r, <<>>, n, owes) /\ pc # "reorder"
    BY <2>1
  <2>3. /\ ErrandsTyped'
        /\ errand'[e].pc = pc /\ errand'[e].of = r /\ errand'[e].owes = owes
        /\ \A f \in Errand : f # e => errand'[f] = errand[f]
    BY <2>2, Becomes
  <2> QED
    BY <2>1, <2>3
<1>8. \A i \in Item : item[i].in # r
  BY RoutinesAssumption DEF ItemsAreThere, There
<1>9. ItemsAreThere' /\ PlacesAreDistinct'
  BY <1>3, <1>4, <1>8 DEF ItemsAreThere, There, PlacesAreDistinct
<1>10. ASSUME NEW f \in Errand PROVE Foresees(f)'
  <2>1. CASE f = e
    BY <1>7, <1>8, <2>1 DEF Foresees, ItemsOf
  <2>2. CASE f # e
    BY <1>7, <2>2 DEF Foresees, ItemsOf
  <2> QED
    BY <2>1, <2>2
<1>11. ASSUME NEW f \in Errand PROVE KnowsItsPages(f)'
  <2>1. CASE f = e
    BY <1>3, <1>4, <1>7, <2>1 DEF KnowsItsPages, Listed
  <2>2. CASE f # e
    <3>1. errand'[f] = errand[f]
      BY <1>7, <2>2
    <3>2. CASE errand[f].pc \in {"copy", "delete"}
      <4>1. errand[f].of # r /\ errand[f].of \in Routine
        BY <3>2 DEF KnowsItsPages, ErrandsTyped
      <4>2. routine'[errand[f].of] = routine[errand[f].of]
        BY <1>4, <4>1
      <4> QED
        BY <3>1, <4>2 DEF KnowsItsPages, Listed, Content
    <3>3. CASE errand[f].pc \notin {"copy", "delete"}
      BY <3>1, <3>3 DEF KnowsItsPages
    <3> QED
      BY <3>2, <3>3
  <2> QED
    BY <2>1, <2>2
<1>12. DustIsOwed'
  <2> SUFFICES ASSUME NEW k \in dusty' \ unbumped'
               PROVE  \E f \in Errand : VisitBumps(f, k)'
    BY DEF DustIsOwed
  <2>1. CASE k \in Stirred
    BY <1>3, <1>4, <1>6, <1>7, <2>1 DEF VisitBumps, There
  <2>2. CASE k \notin Stirred
    <3>1. k \in dusty \ unbumped
      BY <2>2
    <3>2. PICK f \in Errand : VisitBumps(f, k)
      BY <3>1 DEF DustIsOwed
    <3>3. f # e
      BY <3>2 DEF VisitBumps
    <3>4. errand'[f] = errand[f]
      BY <1>7, <3>3
    <3>5. There(errand[f].of) => There(errand[f].of)'
      BY <1>3, <1>4, <3>4 DEF There
    <3> QED
      BY <3>2, <3>4, <3>5 DEF VisitBumps
  <2> QED
    BY <2>1, <2>2
<1> QED
  BY <1>5, <1>7, <1>9, <1>10, <1>11, <1>12

LEMMA CreateRoutineKeeps ==
    ASSUME RoutinesInv, NEW e \in Errand, NEW a \in Author, NEW r \in Routine,
           CreateRoutine(e, a, r)
    PROVE  RoutinesInv'
<1>1. /\ errand[e].pc = "idle" /\ routine[r].st = "new"
      /\ routine' = [routine EXCEPT ![r] = [st |-> "there", owner |-> a, source |-> NoRoutine]]
      /\ UNCHANGED <<item, tied, unbumped>> /\ dusty' = dusty \cup Stirred
      /\ Become(e, "bump", r, <<>>, 0, {<<"list", a>>})
  BY DEF CreateRoutine, Wrote
<1>2. NoRoutine \in Routine \cup {NoRoutine} /\ "bump" \in {"bump", "copy"} /\ 0 \in Nat
  OBVIOUS
<1> QED
  BY <1>1, <1>2, NewRoutineKeeps

LEMMA CloneRoutineKeeps ==
    ASSUME RoutinesInv, NEW e \in Errand, NEW a \in Author, NEW s \in Routine,
           NEW r \in Routine, CloneRoutine(e, a, s, r)
    PROVE  RoutinesInv'
<1>1. PICK n : n = Cardinality(ItemsOf(s))
  OBVIOUS
<1>2. /\ errand[e].pc = "idle" /\ routine[r].st = "new"
      /\ routine' = [routine EXCEPT ![r] = [st |-> "there", owner |-> a, source |-> s]]
      /\ UNCHANGED <<item, tied, unbumped>> /\ dusty' = dusty \cup Stirred
      /\ Become(e, "copy", r, <<>>, n, {<<"list", a>>})
  BY <1>1 DEF CloneRoutine
<1>3. n \in Nat
  <2>1. ItemsOf(s) \in SUBSET Item
    BY DEF ItemsOf
  <2> QED
    BY <1>1, <2>1, RoutinesAssumption, FS_Subset, FS_CardinalityType
<1>4. s \in Routine \cup {NoRoutine} /\ "copy" \in {"bump", "copy"}
  OBVIOUS
<1> QED
  BY <1>2, <1>3, <1>4, NewRoutineKeeps

-----------------------------------------------------------------------------
\* A delete takes the items along, and the list of the owner it counted on is one it
\* means to bump; the pages of clones it missed are in unbumped.
LEMMA DeleteRoutineKeeps ==
    ASSUME RoutinesInv, NEW e \in Errand, DeleteRoutine(e)
    PROVE  RoutinesInv'
<1> USE DEF RoutinesInv
<1>1. PICK r : r = errand[e].of
  OBVIOUS
<1>2. PICK owes : owes = errand[e].owes
  OBVIOUS
<1>3. CASE ~ There(r)
  <2>1. Rest(e) /\ UNCHANGED <<routine, item, dusty, tied, unbumped>> /\ errand[e].pc = "delete"
    BY <1>1, <1>3 DEF DeleteRoutine
  <2> QED
    BY <1>1, <1>3, <2>1, GoneKeeps
<1>4. CASE There(r)
  <2>1. /\ errand[e].pc = "delete" /\ UNCHANGED tied /\ Wrote(e, r, owes)
        /\ routine' = [q \in Routine |->
              IF q = r THEN [routine[q] EXCEPT !.st = "gone"]
              ELSE IF routine[q].source = r THEN [routine[q] EXCEPT !.source = NoRoutine]
              ELSE routine[q]]
    BY <1>1, <1>2, <1>4 DEF DeleteRoutine
  <2>2. /\ item' = [i \in Item |-> IF item[i].in = r THEN NoItem ELSE item[i]]
        /\ unbumped' = unbumped \cup {k \in Stirred \ owes : k[1] = "one"}
    BY <1>1, <1>2, <1>4 DEF DeleteRoutine
  <2>3. r \in Routine /\ r # NoRoutine /\ Content(r) \in owes /\ Listed(r) \in owes
    BY <1>1, <1>2, <1>4, <2>1, RoutinesAssumption DEF There, KnowsItsPages
  <2> DEFINE Row == [st : {"new", "there", "gone"}, owner : Author,
                     source : Routine \cup {NoRoutine}]
             ItemType == [in : Routine \cup {NoRoutine}, place : Nat, done : BOOLEAN]
  <2>4. ASSUME NEW q \in Routine
        PROVE  /\ routine'[q] \in Row
               /\ routine'[q].owner = routine[q].owner
               /\ routine'[q].st = IF q = r THEN "gone" ELSE routine[q].st
    <3>1. routine[q] \in Row
      BY DEF RoutinesTypeOK
    <3>2. CASE q = r
      <4>1. routine'[q] = [routine[q] EXCEPT !.st = "gone"]
        BY <2>1, <3>2
      <4> QED
        BY <3>1, <3>2, <4>1
    <3>3. CASE q # r /\ routine[q].source = r
      <4>1. routine'[q] = [routine[q] EXCEPT !.source = NoRoutine]
        BY <2>1, <3>3
      <4> QED
        BY <3>1, <3>3, <4>1
    <3>4. CASE q # r /\ routine[q].source # r
      BY <2>1, <3>1, <3>4
    <3> QED
      BY <3>2, <3>3, <3>4
  <2>5. routine' \in [Routine -> Row]
    <3>1. routine' = [q \in Routine |-> routine'[q]]
      BY <2>1
    <3> HIDE DEF Row
    <3> QED
      BY <2>4, <3>1
  <2>6. NoItem \in ItemType /\ NoItem.in = NoRoutine
    BY DEF NoItem
  <2>7. /\ item' \in [Item -> ItemType]
        /\ \A i \in Item : item'[i].in # r
        /\ \A i \in Item : item'[i].in # NoRoutine => item'[i] = item[i]
        /\ \A i \in Item : item[i].in # r => item'[i] = item[i]
    <3>1. item \in [Item -> ItemType]
      BY DEF RoutinesTypeOK
    <3> HIDE DEF ItemType
    <3> QED
      BY <2>2, <2>3, <2>6, <3>1
  <2>8. RoutinesTypeOK'
    BY <2>1, <2>5, <2>7 DEF RoutinesTypeOK
  <2>9. ItemsAreThere'
    <3> SUFFICES ASSUME NEW i \in Item, item'[i].in # NoRoutine PROVE There(item[i].in)'
      BY <2>7 DEF ItemsAreThere
    <3>1. There(item[i].in) /\ item[i].in # r
      BY <2>7 DEF ItemsAreThere
    <3> QED
      BY <2>4, <2>7, <3>1 DEF There
  <2>10. PlacesAreDistinct'
    BY <2>1, <2>7 DEF PlacesAreDistinct
  <2>11. /\ ErrandsTyped'
         /\ errand'[e].pc = "bump" /\ errand'[e].of = r /\ errand'[e].owes = owes
         /\ \A f \in Errand : f # e => errand'[f] = errand[f]
    BY <2>1, <2>3, Becomes DEF Wrote
  <2>12. ASSUME NEW f \in Errand PROVE Foresees(f)'
    <3>1. CASE f = e
      BY <2>11, <3>1 DEF Foresees
    <3>2. CASE f # e /\ errand[f].pc = "idle"
      BY <2>11, <3>2 DEF Foresees
    <3>3. CASE f # e /\ errand[f].pc # "idle"
      <4>1. errand'[f] = errand[f] /\ errand[f].of # NoRoutine
        BY <2>11, <3>3, RoutinesAssumption DEF ErrandsTyped
      <4>2. \A i \in Item : item'[i].in = errand[f].of => item'[i] = item[i]
        BY <2>7, <4>1
      <4>3. Foresees(f)
        OBVIOUS
      <4> QED
        BY <2>1, <4>1, <4>2, <4>3 DEF Foresees, ItemsOf
    <3> QED
      BY <3>1, <3>2, <3>3
  <2>13. ASSUME NEW f \in Errand PROVE KnowsItsPages(f)'
    <3>1. CASE f = e
      BY <2>11, <3>1 DEF KnowsItsPages
    <3>2. CASE f # e
      <4>1. errand'[f] = errand[f]
        BY <2>11, <3>2
      <4>2. CASE errand[f].pc \in {"copy", "delete"}
        <5>1. errand[f].of \in Routine
          BY <4>2 DEF ErrandsTyped
        <5>2. /\ routine'[errand[f].of].owner = routine[errand[f].of].owner
              /\ routine[errand[f].of].st # "new" => routine'[errand[f].of].st # "new"
          BY <2>4, <5>1
        <5> QED
          BY <4>1, <5>2 DEF KnowsItsPages, Listed, Content
      <4>3. CASE errand[f].pc \notin {"copy", "delete"}
        BY <4>1, <4>3 DEF KnowsItsPages
      <4> QED
        BY <4>2, <4>3
    <3> QED
      BY <3>1, <3>2
  <2>14. ASSUME NEW a \in Author, a # routine[r].owner PROVE RoutineList(a)' = RoutineList(a)
    <3> DEFINE Own == {q \in Routine : There(q) /\ routine[q].owner = a}
               Ticked(q) == {i \in ItemsOf(q) : item[i].done}
    <3>1. Own' = Own
      BY <2>4, <2>14 DEF There
    <3>2. ASSUME NEW q \in Own PROVE ItemsOf(q)' = ItemsOf(q) /\ Ticked(q)' = Ticked(q)
      <4>1. q # r /\ q # NoRoutine
        BY <2>14, <3>2, RoutinesAssumption
      <4>2. ItemsOf(q)' = ItemsOf(q) /\ \A i \in ItemsOf(q) : item'[i] = item[i]
        BY <2>7, <4>1 DEF ItemsOf
      <4> QED
        BY <4>2
    <3>3. {<<q, Cardinality(ItemsOf(q)'), Cardinality(Ticked(q)')>> : q \in Own'}
          = {<<q, Cardinality(ItemsOf(q)), Cardinality(Ticked(q))>> : q \in Own}
      <4> HIDE DEF Own, Ticked
      <4> QED
        BY <3>1, <3>2
    <3> QED
      BY <3>3 DEF RoutineList
  <2>15. Stirred \subseteq owes \cup unbumped'
    <3> SUFFICES ASSUME NEW k \in Stirred, k \notin owes PROVE k \in unbumped'
      OBVIOUS
    <3>1. CASE \E q \in Routine : k = <<"one", q>>
      BY <2>2, <3>1
    <3>2. CASE \E a \in Author : k = <<"list", a>> /\ RoutineList(a)' # RoutineList(a)
      BY <2>3, <2>14, <3>2 DEF Listed
    <3> QED
      BY <3>1, <3>2 DEF Stirred
  <2>16. DustIsOwed'
    <3> SUFFICES ASSUME NEW k \in dusty' \ unbumped'
                 PROVE  \E f \in Errand : VisitBumps(f, k)'
      BY DEF DustIsOwed
    <3>1. CASE k \in owes
      BY <2>11, <3>1 DEF VisitBumps
    <3>2. CASE k \notin owes
      <4>1. k \in dusty \ unbumped
        BY <2>1, <2>2, <2>15, <3>2 DEF Wrote
      <4>2. PICK f \in Errand : VisitBumps(f, k)
        BY <4>1 DEF DustIsOwed
      <4>3. f # e
        BY <2>1, <4>2 DEF VisitBumps
      <4>4. errand'[f] = errand[f]
        BY <2>11, <4>3
      <4>5. CASE errand[f].pc = "bump"
        BY <4>2, <4>4, <4>5 DEF VisitBumps
      <4>6. CASE errand[f].pc = "copy"
        <5>1. There(errand[f].of) /\ k = Listed(errand[f].of)
          BY <4>2, <4>6 DEF VisitBumps, KnowsItsPages
        <5>2. errand[f].of # r
          BY <2>3, <3>2, <5>1
        <5>3. There(errand[f].of)'
          BY <2>4, <4>4, <5>1, <5>2 DEF There
        <5> QED
          BY <4>2, <4>4, <4>6, <5>3 DEF VisitBumps
      <4> QED
        BY <4>2, <4>5, <4>6 DEF VisitBumps
    <3> QED
      BY <3>1, <3>2
  <2> QED
    BY <2>8, <2>9, <2>10, <2>11, <2>12, <2>13, <2>16
<1> QED
  BY <1>3, <1>4

-----------------------------------------------------------------------------
LEMMA RoutinesStep == RoutinesInv /\ [RoutinesNext]_routineVars => RoutinesInv'
<1> SUFFICES ASSUME RoutinesInv, [RoutinesNext]_routineVars PROVE RoutinesInv'
  OBVIOUS
<1>1. CASE UNCHANGED routineVars
  <2> USE <1>1 DEF routineVars, RoutinesInv
  <2>1. RoutinesTypeOK' /\ ErrandsTyped' /\ ItemsAreThere' /\ PlacesAreDistinct'
    BY DEF RoutinesTypeOK, ErrandsTyped, ItemsAreThere, There, PlacesAreDistinct
  <2>2. ASSUME NEW e \in Errand PROVE Foresees(e)'
    BY DEF Foresees, ItemsOf
  <2>3. ASSUME NEW e \in Errand PROVE KnowsItsPages(e)'
    BY DEF KnowsItsPages, Content, Listed
  <2>4. DustIsOwed'
    BY DEF DustIsOwed, VisitBumps, There
  <2> QED
    BY <2>1, <2>2, <2>3, <2>4
<1>2. ASSUME NEW e \in Errand, NEW a \in Author, NEW r \in Routine,
             CreateRoutine(e, a, r) \/ \E s \in Routine : CloneRoutine(e, a, s, r)
      PROVE  RoutinesInv'
  BY <1>2, CreateRoutineKeeps, CloneRoutineKeeps
<1>3. ASSUME NEW e \in Errand, NEW copies \in SUBSET Unused, CreateTodoItems(e, copies)
      PROVE  RoutinesInv'
  BY <1>3, CreateTodoItemsKeeps
<1>4. ASSUME NEW e \in Errand, NEW r \in Routine,
             \/ BeginAddTodo(e, r) \/ BeginDeleteRoutine(e, r)
             \/ \E order \in [1..Cardinality(ItemsOf(r)) -> ItemsOf(r)] : BeginReorder(e, r, order)
      PROVE  RoutinesInv'
  BY <1>4, ChecksKeep
<1>5. ASSUME NEW e \in Errand,
             \/ \E i \in Item : TickTodo(e, i) \/ DeleteTodoItem(e, i)
             \/ \E r \in Routine : ResetRoutine(e, r)
      PROVE  RoutinesInv'
  BY <1>5, TicksKeep
<1>6. ASSUME NEW e \in Errand, NEW i \in Item, CreateTodoItem(e, i) PROVE RoutinesInv'
  BY <1>6, CreateTodoItemKeeps
<1>7. ASSUME NEW e \in Errand, SetTodoPositions(e) \/ DeleteRoutine(e) \/ BumpRoutine(e)
      PROVE  RoutinesInv'
  BY <1>7, SetTodoPositionsKeeps, DeleteRoutineKeeps, BumpRoutineKeeps
<1> QED
  BY <1>1, <1>2, <1>3, <1>4, <1>5, <1>6, <1>7 DEF RoutinesNext

LEMMA RoutinesAlways == RoutinesSpec => []RoutinesInv
<1> QED
  BY RoutinesStart, RoutinesStep, PTL DEF RoutinesSpec

\* Every variable of StudyRoutines keeps its type.
THEOREM RoutinesTypeCorrect == RoutinesSpec => []RoutinesTypeOK
<1>1. RoutinesInv => RoutinesTypeOK
  BY DEF RoutinesInv
<1> QED
  BY <1>1, RoutinesAlways, PTL

\* Additions, removals, clones and reorders of any number of items leave no two of a
\* routine at one place, unless two requests that place items overlapped
\* (findNextTodoPosition, setTodoPositions).
THEOREM PlacesStayDistinct == RoutinesSpec => []PlacesAreDistinct
<1>1. RoutinesInv => PlacesAreDistinct
  BY DEF RoutinesInv
<1> QED
  BY <1>1, RoutinesAlways, PTL

\* A routine's page and its owner's list, once changed, have a request about to bump
\* them, but for clones read half made or detached unseen (invalidateRoutine).
THEOREM RoutinePagesBumped == RoutinesSpec => []RoutinePagesAreBumped
<1>1. RoutinesInv => RoutinePagesAreBumped
  BY DEF RoutinesInv, DustIsOwed, VisitBumps, RoutinePagesAreBumped
<1> QED
  BY <1>1, RoutinesAlways, PTL

(***************************************************************************)
(* ChatThread, for any texts, any number of sends, of stored messages and  *)
(* of reads in flight: the chat is whole.                                  *)
(***************************************************************************)

\* The chat as a set of bubbles.
LEMMA SetOf ==
    ASSUME NEW T, NEW s \in Seq(T)
    PROVE  /\ ToSet(s) \subseteq T
           /\ \A x : x \in ToSet(s) <=> \E i \in 1 .. Len(s) : s[i] = x
           /\ \A i \in DOMAIN s : s[i] \in ToSet(s)
           /\ ToSet(s) = {s[i] : i \in 1 .. Len(s)}
<1>1. Len(s) \in Nat /\ s \in [1 .. Len(s) -> T] /\ DOMAIN s = 1 .. Len(s)
  BY LenProperties
<1> QED
  BY <1>1 DEF ToSet

\* One bubble more, at the end.
LEMMA Appended ==
    ASSUME NEW T, NEW s \in Seq(T), NEW x \in T
    PROVE  /\ Append(s, x) \in Seq(T)
           /\ ToSet(Append(s, x)) = ToSet(s) \cup {x}
           /\ IsInjective(s) /\ x \notin ToSet(s) => IsInjective(Append(s, x))
<1>0. PICK t : t = Append(s, x)
  OBVIOUS
<1>1. PICK n \in Nat : n = Len(s) /\ t = Append(s, x)
  BY <1>0, LenProperties
<1>2. /\ t \in Seq(T) /\ Len(t) = n + 1
      /\ \A i \in 1 .. n : t[i] = s[i]
      /\ t[n + 1] = x
  BY <1>1, AppendProperties
<1>3. DOMAIN t = 1 .. (n + 1) /\ DOMAIN s = 1 .. n
  BY <1>1, <1>2, LenProperties
<1>4. ToSet(t) = ToSet(s) \cup {x}
  <2>1. \A i \in 1 .. (n + 1) : i \in 1 .. n \/ i = n + 1
    BY <1>1
  <2>2. \A i \in 1 .. n : i \in 1 .. (n + 1)
    BY <1>1
  <2>3. n + 1 \in 1 .. (n + 1)
    BY <1>1
  <2> QED
    BY <1>2, <1>3, <2>1, <2>2, <2>3 DEF ToSet
<1>5. ASSUME IsInjective(s), x \notin ToSet(s) PROVE IsInjective(t)
  <2> SUFFICES ASSUME NEW i \in 1 .. (n + 1), NEW j \in 1 .. (n + 1), t[i] = t[j] PROVE i = j
    BY <1>3 DEF IsInjective
  <2>1. (i \in 1 .. n \/ i = n + 1) /\ (j \in 1 .. n \/ j = n + 1)
    BY <1>1
  <2>2. \A k \in 1 .. n : t[k] \in ToSet(s)
    BY <1>2, <1>3 DEF ToSet
  <2> QED
    BY <1>2, <1>3, <1>5, <2>1, <2>2 DEF IsInjective
<1> QED
  BY <1>1, <1>2, <1>4, <1>5

\* One list of bubbles above another.
LEMMA Stacked ==
    ASSUME NEW T, NEW s \in Seq(T), NEW u \in Seq(T)
    PROVE  /\ s \o u \in Seq(T)
           /\ ToSet(s \o u) = ToSet(s) \cup ToSet(u)
           /\ IsInjective(s) /\ IsInjective(u) /\ ToSet(s) \cap ToSet(u) = {} => IsInjective(s \o u)
<1>0. PICK t : t = s \o u
  OBVIOUS
<1>1. PICK n \in Nat, m \in Nat : n = Len(s) /\ m = Len(u) /\ t = s \o u
  <2>1. Len(s) \in Nat /\ Len(u) \in Nat
    BY LenProperties
  <2> QED
    BY <1>0, <2>1
<1>2. /\ t \in Seq(T) /\ Len(t) = n + m
      /\ \A i \in 1 .. (n + m) : t[i] = IF i <= n THEN s[i] ELSE u[i - n]
  BY <1>1, ConcatProperties
<1>3. DOMAIN t = 1 .. (n + m) /\ DOMAIN s = 1 .. n /\ DOMAIN u = 1 .. m
  BY <1>1, <1>2, LenProperties
<1>4. \A i \in 1 .. (n + m) : \/ i <= n /\ i \in 1 .. n /\ t[i] = s[i]
                              \/ ~ (i <= n) /\ i - n \in 1 .. m /\ t[i] = u[i - n]
  BY <1>1, <1>2
<1>5. ToSet(t) = ToSet(s) \cup ToSet(u)
  <2>1. ASSUME NEW y \in ToSet(t) PROVE y \in ToSet(s) \cup ToSet(u)
    BY <1>3, <1>4 DEF ToSet
  <2>2. ASSUME NEW y \in ToSet(s) PROVE y \in ToSet(t)
    <3>1. PICK i \in 1 .. n : s[i] = y
      BY <1>3 DEF ToSet
    <3>2. i \in 1 .. (n + m) /\ i <= n
      BY <1>1
    <3> QED
      BY <1>2, <1>3, <3>1, <3>2 DEF ToSet
  <2>3. ASSUME NEW y \in ToSet(u) PROVE y \in ToSet(t)
    <3>1. PICK i \in 1 .. m : u[i] = y
      BY <1>3 DEF ToSet
    <3>2. i + n \in 1 .. (n + m) /\ ~ (i + n <= n) /\ (i + n) - n = i
      BY <1>1
    <3> QED
      BY <1>2, <1>3, <3>1, <3>2 DEF ToSet
  <2> QED
    BY <2>1, <2>2, <2>3
<1>6. ASSUME IsInjective(s), IsInjective(u), ToSet(s) \cap ToSet(u) = {} PROVE IsInjective(t)
  <2> SUFFICES ASSUME NEW i \in 1 .. (n + m), NEW j \in 1 .. (n + m), t[i] = t[j] PROVE i = j
    BY <1>3 DEF IsInjective
  <2>1. \A k \in 1 .. n : s[k] \in ToSet(s)
    BY <1>3 DEF ToSet
  <2>2. \A k \in 1 .. m : u[k] \in ToSet(u)
    BY <1>3 DEF ToSet
  <2>3. CASE i <= n /\ j <= n
    BY <1>3, <1>4, <1>6, <2>3 DEF IsInjective
  <2>4. CASE ~ (i <= n) /\ ~ (j <= n)
    <3>1. i - n = j - n
      BY <1>3, <1>4, <1>6, <2>4 DEF IsInjective
    <3> QED
      BY <1>1, <3>1
  <2>5. CASE (i <= n) # (j <= n)
    <3>1. t[i] \in ToSet(s) \cap ToSet(u)
      BY <1>4, <2>1, <2>2, <2>5
    <3> QED
      BY <1>6, <3>1
  <2> QED
    BY <2>3, <2>4, <2>5
<1> QED
  BY <1>1, <1>2, <1>5, <1>6

LEMMA Reversed ==
    ASSUME NEW T, NEW n \in Nat, NEW g \in [1 .. n -> T]
    PROVE  /\ Reverse(g) \in Seq(T) /\ ToSet(Reverse(g)) = {g[i] : i \in 1 .. n}
           /\ IsInjective(g) => IsInjective(Reverse(g))
<1>1. g \in Seq(T) /\ Len(g) = n
  OBVIOUS
<1>2. PICK t : t = Reverse(g)
  OBVIOUS
<1>3. t = [i \in 1 .. n |-> g[(n - i) + 1]] /\ DOMAIN t = 1 .. n
  BY <1>1, <1>2 DEF Reverse
<1>4. \A i \in 1 .. n : (n - i) + 1 \in 1 .. n /\ (n - ((n - i) + 1)) + 1 = i
  OBVIOUS
<1>5. t \in [1 .. n -> T]
  BY <1>3, <1>4
<1>6. t \in Seq(T)
  BY <1>5
<1>7. ToSet(t) = {g[i] : i \in 1 .. n}
  <2>1. ASSUME NEW i \in 1 .. n PROVE g[i] \in ToSet(t)
    <3>1. PICK j \in 1 .. n : (n - j) + 1 = i
      BY <1>4
    <3> QED
      BY <1>3, <3>1 DEF ToSet
  <2>2. ASSUME NEW i \in 1 .. n PROVE t[i] \in {g[k] : k \in 1 .. n}
    BY <1>3, <1>4
  <2> QED
    BY <1>3, <2>1, <2>2 DEF ToSet
<1>8. ASSUME IsInjective(g) PROVE IsInjective(t)
  <2> SUFFICES ASSUME NEW i \in 1 .. n, NEW j \in 1 .. n, t[i] = t[j] PROVE i = j
    BY <1>3 DEF IsInjective
  <2>1. (n - i) + 1 = (n - j) + 1
    BY <1>3, <1>4, <1>8 DEF IsInjective
  <2> QED
    BY <2>1
<1> QED
  BY <1>2, <1>6, <1>7, <1>8

-----------------------------------------------------------------------------
\* Only takes the bubbles one by one.
Takes(kept, x, S) == IF x \in S THEN Append(kept, x) ELSE kept

IsSifting(s, S, f) ==
    f = [a \in SUBSET DOMAIN s |->
            IF a = {} THEN <<>> ELSE Takes(f[a \ {Max(a)}], s[Max(a)], S)]

SiftingOf(s, S) == (CHOOSE f : IsSifting(s, S, f))[DOMAIN s]

LEMMA OnlyIsSifting ==
    ASSUME NEW s, NEW S
    PROVE  Only(s, S) = SiftingOf(s, S)
BY DEF Only, FoldLeft, MapThenFoldSet, IsSifting, Takes, SiftingOf

LEMMA SiftingExists ==
    ASSUME NEW s, NEW S, IsFiniteSet(DOMAIN s), DOMAIN s \subseteq Nat
    PROVE  \E f : IsSifting(s, S, f)
<1> DEFINE D == DOMAIN s
           Small(n) == {a \in SUBSET D : Cardinality(a) <= n}
           IsSiftingTo(n, f) ==
             f = [a \in Small(n) |->
                    IF a = {} THEN <<>> ELSE Takes(f[a \ {Max(a)}], s[Max(a)], S)]
           bad == {n \in Nat : ~ \E f : IsSiftingTo(n, f)}
<1>0. \A a \in SUBSET D : IsFiniteSet(a) /\ Cardinality(a) \in Nat
  BY FS_Subset, FS_CardinalityType
<1>a. \A a \in SUBSET D : a # {} => Max(a) \in a
  BY <1>0, MaxIsIn
<1>1. bad = {}
  <2> SUFFICES ASSUME bad # {} PROVE FALSE
    OBVIOUS
  <2>1. PICK n \in bad : \A m \in bad : n <= m
    BY LeastNat
  <2>2. CASE n = 0
    <3> DEFINE f == [a \in Small(0) |-> <<>>]
    <3>1. \A a \in Small(0) : a = {}
      BY <1>0, FS_EmptySet
    <3>2. IsSiftingTo(0, f)
      BY <3>1
    <3> QED
      BY <2>1, <2>2, <3>2
  <2>3. CASE n # 0
    <3>1. n - 1 \in Nat /\ n - 1 \notin bad
      <4>1. n \in Nat /\ n - 1 \in Nat
        BY <2>3
      <4> HIDE DEF bad
      <4> QED
        BY <2>1, <4>1
    <3>2. PICK g : IsSiftingTo(n - 1, g)
      BY <3>1
    <3> DEFINE f == [a \in Small(n) |->
                       IF a = {} THEN <<>> ELSE Takes(g[a \ {Max(a)}], s[Max(a)], S)]
    <3>3. Small(n - 1) \subseteq Small(n)
      BY <1>0
    <3>4. \A a \in Small(n - 1) : f[a] = g[a]
      BY <3>2, <3>3
    <3>5. \A a \in Small(n) : a # {} => a \ {Max(a)} \in Small(n - 1)
      <4> SUFFICES ASSUME NEW a \in Small(n), a # {} PROVE a \ {Max(a)} \in Small(n - 1)
        OBVIOUS
      <4>1. Max(a) \in a
        BY <1>a
      <4>2. Cardinality(a \ {Max(a)}) = Cardinality(a) - 1
        BY <1>0, <4>1, FS_RemoveElement
      <4> QED
        BY <1>0, <4>2
    <3>6. IsSiftingTo(n, f)
      BY <3>4, <3>5
    <3> QED
      BY <2>1, <3>6
  <2> QED
    BY <2>2, <2>3
<1> DEFINE c == Cardinality(D)
<1>2. c \in Nat /\ Small(c) = SUBSET D
  BY <1>0, FS_Subset, FS_CardinalityType
<1>3. PICK f : IsSiftingTo(c, f)
  BY <1>1, <1>2
<1> QED
  BY <1>2, <1>3 DEF IsSifting

\* What Only has kept of the first bubbles.
Sifted(kept, s, S, T, i) ==
    /\ kept \in Seq(T)
    /\ ToSet(kept) = {s[j] : j \in 1 .. i} \cap S
    /\ IsInjective(s) => IsInjective(kept)

LEMMA TakesKeeps ==
    ASSUME NEW T, NEW s \in Seq(T), NEW S, NEW i \in Nat, i < Len(s), NEW kept,
           Sifted(kept, s, S, T, i)
    PROVE  Sifted(Takes(kept, s[i + 1], S), s, S, T, i + 1)
<1>1. PICK n \in Nat : n = Len(s) /\ DOMAIN s = 1 .. n
  BY LenProperties
<1>2. PICK x \in T : x = s[i + 1] /\ i + 1 \in 1 .. n /\ i < n
  <2>1. i + 1 \in 1 .. n
    BY <1>1
  <2> QED
    BY <1>1, <2>1, ElementOfSeq
<1>3. \A j : j \in 1 .. (i + 1) <=> j \in 1 .. i \/ j = i + 1
  OBVIOUS
<1>4. {s[j] : j \in 1 .. (i + 1)} = {s[j] : j \in 1 .. i} \cup {x}
  BY <1>2, <1>3
<1>5. CASE x \in S
  <2>1. PICK t : t = Append(kept, x)
    OBVIOUS
  <2>2. t \in Seq(T) /\ ToSet(t) = ToSet(kept) \cup {x}
    BY <2>1, Appended DEF Sifted
  <2>3. ASSUME IsInjective(s) PROVE IsInjective(t)
    <3>1. x \notin {s[j] : j \in 1 .. i}
      <4> SUFFICES ASSUME NEW j \in 1 .. i, s[j] = x PROVE FALSE
        OBVIOUS
      <4>1. j \in 1 .. n /\ j # i + 1
        BY <1>2
      <4> QED
        BY <1>1, <1>2, <2>3, <4>1 DEF IsInjective
    <3>2. x \notin ToSet(kept)
      BY <3>1 DEF Sifted
    <3> QED
      BY <2>1, <2>3, <3>2, Appended DEF Sifted
  <2>4. ToSet(t) = {s[j] : j \in 1 .. (i + 1)} \cap S
    BY <1>4, <1>5, <2>2 DEF Sifted
  <2> QED
    BY <1>2, <1>5, <2>1, <2>2, <2>3, <2>4 DEF Sifted, Takes
<1>6. CASE x \notin S
  <2>1. {s[j] : j \in 1 .. (i + 1)} \cap S = {s[j] : j \in 1 .. i} \cap S
    BY <1>4, <1>6
  <2> QED
    BY <1>2, <1>6, <2>1 DEF Sifted, Takes
<1> QED
  BY <1>5, <1>6

LEMMA SiftingKeeps ==
    ASSUME NEW T, NEW s \in Seq(T), NEW S, NEW f, IsSifting(s, S, f), NEW k \in 0 .. Len(s)
    PROVE  Sifted(f[1 .. k], s, S, T, k)
<1>1. PICK n \in Nat : n = Len(s) /\ DOMAIN s = 1 .. n
  BY LenProperties
<1>2. \A a \in SUBSET (1 .. n) :
        f[a] = IF a = {} THEN <<>> ELSE Takes(f[a \ {Max(a)}], s[Max(a)], S)
  BY <1>1 DEF IsSifting
<1> DEFINE Good(j) == Sifted(f[1 .. j], s, S, T, j)
           bad == {j \in 0 .. n : ~ Good(j)}
<1>3. SUFFICES ASSUME bad # {} PROVE FALSE
  BY <1>1
<1>4. PICK j \in bad : \A i \in bad : j <= i
  <2>1. bad \subseteq Nat
    OBVIOUS
  <2> HIDE DEF bad
  <2> QED
    BY <1>3, <2>1, LeastNat
<1>5. CASE j = 0
  <2>1. 1 .. 0 = {} /\ {} \in SUBSET (1 .. n)
    OBVIOUS
  <2>2. f[1 .. 0] = <<>>
    BY <1>2, <2>1
  <2>3. <<>> \in Seq(T) /\ ToSet(<<>>) = {} /\ IsInjective(<<>>)
    <3>1. <<>> \in Seq(T) /\ DOMAIN <<>> = {}
      BY EmptySeq, LenProperties
    <3> QED
      BY <3>1 DEF ToSet, IsInjective
  <2>4. {s[i] : i \in 1 .. 0} \cap S = {}
    BY <2>1
  <2>5. Good(0)
    BY <2>2, <2>3, <2>4 DEF Sifted
  <2> QED
    BY <1>4, <1>5, <2>5
<1>6. CASE j # 0
  <2>1. PICK i \in Nat : i + 1 = j /\ i < n
    <3>1. j - 1 \in Nat /\ (j - 1) + 1 = j /\ j - 1 < n
      BY <1>6
    <3> QED
      BY <3>1
  <2>2. Good(i)
    <3>1. i \notin bad /\ i \in 0 .. n
      <4>1. i \in 0 .. n /\ ~ (j <= i) /\ j \in Nat
        BY <2>1
      <4> HIDE DEF bad
      <4> QED
        BY <1>4, <4>1
    <3> QED
      BY <3>1
  <2>3. f[1 .. (i + 1)] = Takes(f[1 .. i], s[i + 1], S)
    BY <1>2, <2>1, PrefixIs
  <2>4. PICK kept : kept = f[1 .. i]
    OBVIOUS
  <2>5. Sifted(kept, s, S, T, i)
    BY <2>2, <2>4
  <2> HIDE DEF Good, bad
  <2>6. Sifted(Takes(kept, s[i + 1], S), s, S, T, i + 1)
    BY <1>1, <2>1, <2>5, TakesKeeps
  <2>7. Good(i + 1)
    BY <2>3, <2>4, <2>6 DEF Good
  <2> QED
    BY <1>4, <2>1, <2>7 DEF bad
<1> QED
  BY <1>5, <1>6

\* Array.filter: what is kept are the bubbles of S, each once.
LEMMA OnlyKeeps ==
    ASSUME NEW T, NEW s \in Seq(T), NEW S
    PROVE  /\ Only(s, S) \in Seq(T) /\ ToSet(Only(s, S)) = ToSet(s) \cap S
           /\ IsInjective(s) => IsInjective(Only(s, S))
<1>1. PICK n \in Nat : n = Len(s) /\ DOMAIN s = 1 .. n
  BY LenProperties
<1>2. IsFiniteSet(1 .. n) /\ 1 .. n \subseteq Nat /\ n \in 0 .. n
  BY FS_Interval
<1>3. PICK f : f = (CHOOSE g : IsSifting(s, S, g))
  OBVIOUS
<1>4. IsSifting(s, S, f)
  BY <1>1, <1>2, <1>3, SiftingExists
<1>5. Only(s, S) = f[1 .. n]
  <2>1. SiftingOf(s, S) = f[1 .. n]
    BY <1>1, <1>3 DEF SiftingOf
  <2> QED
    BY <2>1, OnlyIsSifting
<1>6. Sifted(f[1 .. n], s, S, T, n)
  BY <1>1, <1>2, <1>4, SiftingKeeps
<1> QED
  BY <1>1, <1>5, <1>6 DEF Sifted, ToSet

-----------------------------------------------------------------------------
OneBubble == [id : Int, key : Int, body : Body, st : {"none", "sending", "failed"}]
ChatTyped ==
    /\ stored \in Seq([by : {0} \cup Send, body : Body])
    /\ unannounced \subseteq DOMAIN stored
    /\ said \in Seq(Body) /\ Len(said) <= MaxSends
    /\ posting \in [Send -> {Nothing, Sent} \cup DOMAIN stored]
    /\ chat \in Seq(OneBubble)
    /\ loaded \in BOOLEAN /\ up \in BOOLEAN /\ late \in BOOLEAN
    /\ events \in Seq(DOMAIN stored)
    /\ reader \in [Reader -> {Unread, Asked} \cup 0..Len(stored)]
    /\ reached \subseteq DOMAIN stored

\* A bubble is a stored message, drawn by its own id or by the placeholder it took
\* the place of, or the placeholder of a send, which shows what became of its POST.
IsStored(b) ==
    /\ b.st = "none" /\ b.id \in reached
    /\ b.key = b.id \/ \E n \in DOMAIN said : b.key = Local(n)
IsPlaceholder(b) ==
    \E n \in DOMAIN said :
        /\ b.id = Local(n) /\ b.key = Local(n) /\ b.body = said[n]
        /\ b.st = IF posting[n] = Nothing THEN "failed" ELSE "sending"
BubblesFit == \A b \in ToSet(chat) : IsStored(b) \/ IsPlaceholder(b)

Apart(bubbles) == \A b, c \in bubbles : b # c => b.id # c.id /\ b.key # c.key
BubblesApart == IsInjective(chat) /\ Apart(ToSet(chat))

\* A POST is of something said, and so is a message of this person.
PostsAreSaid ==
    \A n \in Send :
        /\ posting[n] # Nothing => n \in DOMAIN said
        /\ posting[n] > 0 => stored[posting[n]].by = n
StoredAreSaid ==
    \A id \in DOMAIN stored :
        stored[id].by # 0 => /\ stored[id].by \in DOMAIN said
                             /\ stored[id].body = said[stored[id].by]

\* Why a stored message may not be on screen yet.  The last reason is for one that came
\* before the chat was there: the page being read shows it, or is too late.
OnItsWay(id) ==
    \/ id \in unannounced \/ id \in ToSet(events) \/ ~ up \/ ~ Opened
    \/ \E r \in Reader : \/ reader[r] = Asked \/ reader[r] >= id
                         \/ reader[r] # Unread /\ id \in reached
Arrives(id) == id \in Ids(chat) \/ OnItsWay(id)
AllArrive == late \/ \A id \in DOMAIN stored : Arrives(id)

ChatInv ==
    /\ ChatTyped /\ BubblesFit /\ BubblesApart
    /\ PostsAreSaid /\ StoredAreSaid /\ AllArrive /\ TypedIsKept

LEMMA ChatStarts == ChatInit => ChatInv
<1> SUFFICES ASSUME ChatInit PROVE ChatInv
  OBVIOUS
<1>1. MaxSends \in Nat /\ MaxStored \in Nat
  BY ChatAssumption
<1>2. \A T : <<>> \in Seq(T) /\ Len(<<>>) = 0
  BY EmptySeq
<1>3. DOMAIN <<>> = {}
  OBVIOUS
<1>4. ToSet(<<>>) = {} /\ IsInjective(<<>>)
  BY <1>3 DEF ToSet, IsInjective
<1>5. ChatTyped
  <2>1. chat \in Seq(OneBubble) /\ events \in Seq(DOMAIN stored)
        /\ stored \in Seq([by : {0} \cup Send, body : Body]) /\ said \in Seq(Body) /\ Len(said) <= MaxSends
    BY <1>1, <1>2 DEF ChatInit
  <2>2. posting \in [Send -> {Nothing, Sent} \cup DOMAIN stored]
        /\ reader \in [Reader -> {Unread, Asked} \cup 0..Len(stored)]
    BY DEF ChatInit
  <2> QED
    BY <2>1, <2>2 DEF ChatInit, ChatTyped
<1>6. BubblesFit /\ BubblesApart
  BY <1>4 DEF ChatInit, BubblesFit, BubblesApart, Apart
<1>7. PostsAreSaid
  BY DEF ChatInit, PostsAreSaid, Nothing
<1>8. StoredAreSaid /\ AllArrive /\ TypedIsKept
  BY <1>3 DEF ChatInit, StoredAreSaid, AllArrive, TypedIsKept
<1> QED
  BY <1>5, <1>6, <1>7, <1>8 DEF ChatInv

\* What the invariant says of positions, numbers and ids.
LEMMA ChatFacts ==
    ASSUME ChatInv
    PROVE  /\ Len(stored) \in Nat /\ DOMAIN stored = 1 .. Len(stored)
           /\ Len(said) \in Nat /\ DOMAIN said = 1 .. Len(said)
           /\ \A n \in DOMAIN said : n \in Send /\ n \in Nat /\ n > 0 /\ said[n] \in Body
           /\ \A i \in DOMAIN chat : chat[i] \in ToSet(chat)
           /\ \A b \in ToSet(chat) : b \in OneBubble /\ \E i \in DOMAIN chat : chat[i] = b
           /\ \A i, j \in DOMAIN chat : chat[i].id = chat[j].id => i = j
           /\ \A b, c \in ToSet(chat) : b.id = c.id \/ b.key = c.key => b = c
           /\ \A b \in ToSet(chat) : b.st = "none" => IsStored(b) /\ b.id \in DOMAIN stored
           /\ \A b \in ToSet(chat) : b.st # "none" => IsPlaceholder(b) /\ b.id < 0
           /\ \A id \in DOMAIN stored : id \in Nat /\ id > 0
<1> USE DEF ChatInv
<1>1. Len(stored) \in Nat /\ DOMAIN stored = 1 .. Len(stored)
  BY LenProperties DEF ChatTyped
<1>2. Len(said) \in Nat /\ DOMAIN said = 1 .. Len(said) /\ \A n \in DOMAIN said : said[n] \in Body
  BY LenProperties DEF ChatTyped
<1>3. \A n \in DOMAIN said : n \in Send /\ n \in Nat /\ n > 0
  BY <1>2, ChatAssumption DEF ChatTyped, Send
<1>4. /\ \A i \in DOMAIN chat : chat[i] \in ToSet(chat)
      /\ \A b \in ToSet(chat) : \E i \in DOMAIN chat : chat[i] = b
  BY DEF ToSet
<1>5. \A b \in ToSet(chat) : b \in OneBubble
  BY SetOf DEF ChatTyped
<1>6. \A b, c \in ToSet(chat) : b.id = c.id \/ b.key = c.key => b = c
  BY DEF BubblesApart, Apart
<1>7. \A i, j \in DOMAIN chat : chat[i].id = chat[j].id => i = j
  BY <1>4, <1>6 DEF BubblesApart, IsInjective
<1>8. \A id \in DOMAIN stored : id \in Nat /\ id > 0
  BY <1>1
<1>9. ASSUME NEW b \in ToSet(chat), b.st = "none"
      PROVE  IsStored(b) /\ b.id \in DOMAIN stored
  <2>1. ~ IsPlaceholder(b)
    BY <1>9 DEF IsPlaceholder
  <2>2. IsStored(b)
    BY <1>9, <2>1 DEF BubblesFit
  <2> QED
    BY <2>2 DEF IsStored, ChatTyped
<1>10. ASSUME NEW b \in ToSet(chat), b.st # "none"
       PROVE  IsPlaceholder(b) /\ b.id < 0
  <2>1. IsPlaceholder(b)
    BY <1>10 DEF BubblesFit, IsStored
  <2> QED
    BY <2>1, <1>3 DEF IsPlaceholder, Local
<1> QED
  BY <1>1, <1>2, <1>3, <1>4, <1>5, <1>6, <1>7, <1>8, <1>9, <1>10

LEMMA StoredBody ==
    ASSUME ChatInv, NEW id \in DOMAIN stored
    PROVE  stored[id].body \in Body
<1>1. PICK s, T : s = stored /\ T = [by : {0} \cup Send, body : Body]
  OBVIOUS
<1>2. s \in Seq(T) /\ id \in 1 .. Len(s)
  BY <1>1, ChatFacts DEF ChatInv, ChatTyped
<1>3. s[id] \in T
  BY <1>2, ElementOfSeq
<1> QED
  BY <1>1, <1>3

\* A step that leaves the chat alone, and every POST under way under way.
LEMMA ChatRests ==
    ASSUME ChatInv, UNCHANGED <<chat, said>>, reached \subseteq reached',
           \A n \in Send : posting'[n] = Nothing <=> posting[n] = Nothing
    PROVE  BubblesFit' /\ BubblesApart'
<1>1. BubblesApart'
  BY DEF ChatInv, BubblesApart
<1>2. ASSUME NEW b \in ToSet(chat) PROVE IsStored(b)' \/ IsPlaceholder(b)'
  <2>1. CASE IsStored(b)
    BY <2>1 DEF IsStored
  <2>2. CASE IsPlaceholder(b)
    <3>1. PICK n \in DOMAIN said :
             /\ b.id = Local(n) /\ b.key = Local(n) /\ b.body = said[n]
             /\ b.st = IF posting[n] = Nothing THEN "failed" ELSE "sending"
      BY <2>2 DEF IsPlaceholder
    <3>2. n \in Send
      BY ChatFacts
    <3> QED
      BY <3>1, <3>2 DEF IsPlaceholder
  <2> QED
    BY <2>1, <2>2 DEF ChatInv, BubblesFit
<1> QED
  BY <1>1, <1>2 DEF BubblesFit

\* A message that was on its way still is, when nothing it waits for is over.
LEMMA StillOnItsWay ==
    ASSUME NEW id, OnItsWay(id), reached \subseteq reached', Opened' => Opened,
           id \in unannounced => OnItsWay(id)', id \in ToSet(events) => OnItsWay(id)',
           ~ up => OnItsWay(id)', UNCHANGED reader
    PROVE  OnItsWay(id)'
BY DEF OnItsWay

LEMMA TypedStays ==
    ASSUME ChatInv, UNCHANGED said, discarded \subseteq discarded', Ids(chat) \cap Int \subseteq Ids(chat'),
           DOMAIN stored \subseteq DOMAIN stored',
           \A id \in DOMAIN stored : stored'[id].by = stored[id].by
    PROVE  TypedIsKept'
<1>1. \A n \in DOMAIN said : Local(n) \in Int
  BY ChatFacts DEF Local
<1> QED
  BY <1>1 DEF ChatInv, TypedIsKept, Ids

LEMMA LocalOnce ==
    ASSUME NEW n \in Nat, NEW m \in Nat, Local(n) = Local(m)
    PROVE  n = m
BY DEF Local

\* What is failed is nothing's POST.
LEMMA FailedOnce ==
    ASSUME ChatInv, NEW n \in Send, Failed(n)
    PROVE  /\ posting[n] = Nothing /\ n \in DOMAIN said
           /\ \A b \in ToSet(chat) : b.key = Local(n) \/ b.id = Local(n) =>
                b.id = Local(n) /\ b.st # "none"
<1>1. PICK b \in ToSet(chat) : b.id = Local(n) /\ b.st = "failed"
  BY DEF Failed
<1>2. PICK m \in DOMAIN said :
         /\ b.id = Local(m) /\ b.key = Local(m) /\ b.body = said[m]
         /\ b.st = IF posting[m] = Nothing THEN "failed" ELSE "sending"
  BY <1>1, ChatFacts DEF IsPlaceholder
<1>3. n \in Nat /\ m \in Nat
  BY ChatFacts, ChatAssumption DEF Send
<1>4. n = m
  BY <1>1, <1>2, <1>3, LocalOnce
<1>5. \A c \in ToSet(chat) : c.key = Local(n) \/ c.id = Local(n) => c = b
  BY <1>1, <1>2, <1>4, ChatFacts
<1> QED
  BY <1>1, <1>2, <1>4, <1>5

\* markSending and failPending: one placeholder, if it is there, gets a status.
Marked(b, id, st) == IF b.id = id THEN [b EXCEPT !.st = st] ELSE b

LEMMA StatusIs ==
    ASSUME ChatInv, NEW id, NEW st \in {"none", "sending", "failed"}
    PROVE  /\ SetStatus(id, st) \in Seq(OneBubble)
           /\ ToSet(SetStatus(id, st)) = {Marked(b, id, st) : b \in ToSet(chat)}
           /\ IsInjective(SetStatus(id, st))
           /\ \A b \in ToSet(chat) : /\ Marked(b, id, st).id = b.id
                                     /\ Marked(b, id, st).key = b.key
                                     /\ Marked(b, id, st).body = b.body
                                     /\ Marked(b, id, st).st = IF b.id = id THEN st ELSE b.st
<1>1. PICK n \in Nat : n = Len(chat) /\ DOMAIN chat = 1 .. n
  BY LenProperties DEF ChatInv, ChatTyped
<1>2. ASSUME NEW b \in ToSet(chat)
      PROVE  /\ Marked(b, id, st).id = b.id /\ Marked(b, id, st).key = b.key
             /\ Marked(b, id, st).body = b.body
             /\ Marked(b, id, st).st = IF b.id = id THEN st ELSE b.st
             /\ Marked(b, id, st) \in OneBubble
  <2>1. b \in OneBubble
    BY ChatFacts
  <2> QED
    BY <2>1 DEF Marked, OneBubble
<1>3. PICK t : t = SetStatus(id, st)
  OBVIOUS
<1>4. t = [i \in 1 .. n |-> Marked(chat[i], id, st)]
  BY <1>1, <1>3 DEF SetStatus, Marked
<1>5. \A i \in 1 .. n : chat[i] \in ToSet(chat) /\ t[i] = Marked(chat[i], id, st)
  BY <1>1, <1>4, ChatFacts
<1>6. t \in [1 .. n -> OneBubble]
  BY <1>2, <1>4, <1>5
<1>7. t \in Seq(OneBubble) /\ DOMAIN t = 1 .. n
  BY <1>6
<1>8. ToSet(t) = {Marked(b, id, st) : b \in ToSet(chat)}
  BY <1>1, <1>5, <1>7 DEF ToSet
<1>9. IsInjective(t)
  <2> SUFFICES ASSUME NEW i \in 1 .. n, NEW j \in 1 .. n, t[i] = t[j] PROVE i = j
    BY <1>7 DEF IsInjective
  <2>1. chat[i].id = chat[j].id
    BY <1>2, <1>5
  <2> QED
    BY <1>1, <2>1, ChatFacts
<1> QED
  BY <1>2, <1>3, <1>7, <1>8, <1>9

LEMMA StatusKeeps ==
    ASSUME ChatInv, NEW n \in Send, NEW p \in {Nothing, Sent},
           chat' = SetStatus(Local(n), IF p = Nothing THEN "failed" ELSE "sending"),
           posting' = [posting EXCEPT ![n] = p], p # Nothing => n \in DOMAIN said,
           UNCHANGED <<server, said, loaded, wire, history>>
    PROVE  ChatInv'
<1>1. PICK st \in {"sending", "failed"} : st = IF p = Nothing THEN "failed" ELSE "sending"
  OBVIOUS
<1>2. UNCHANGED <<stored, unannounced, up, events, reader, discarded, reached, late, said, loaded>>
  BY DEF server, wire, history
<1>3. chat' = SetStatus(Local(n), st)
  BY <1>1
<1>4. /\ chat' \in Seq(OneBubble) /\ IsInjective(chat')
      /\ ToSet(chat') = {Marked(b, Local(n), st) : b \in ToSet(chat)}
      /\ \A b \in ToSet(chat) : /\ Marked(b, Local(n), st).id = b.id
                                /\ Marked(b, Local(n), st).key = b.key
                                /\ Marked(b, Local(n), st).body = b.body
                                /\ Marked(b, Local(n), st).st = IF b.id = Local(n) THEN st ELSE b.st
  BY <1>3, StatusIs
<1>5. posting \in [Send -> {Nothing, Sent} \cup DOMAIN stored]
  BY DEF ChatInv, ChatTyped
<1>6. ChatTyped'
  <2>1. posting' \in [Send -> {Nothing, Sent} \cup DOMAIN stored]
    BY <1>5
  <2> QED
    BY <1>2, <1>4, <2>1 DEF ChatInv, ChatTyped
<1>7. BubblesFit'
  <2> SUFFICES ASSUME NEW b \in ToSet(chat), NEW c, c = Marked(b, Local(n), st)
               PROVE  IsStored(c)' \/ IsPlaceholder(c)'
    BY <1>4 DEF BubblesFit
  <2>1. c.id = b.id /\ c.key = b.key /\ c.body = b.body /\ c.st = IF b.id = Local(n) THEN st ELSE b.st
    BY <1>4
  <2>2. CASE b.st = "none"
    <3>1. IsStored(b) /\ b.id > 0
      BY <2>2, ChatFacts
    <3>2. b.id # Local(n)
      <4>1. Local(n) < 0
        BY ChatAssumption DEF Send, Local
      <4>2. b.id \in Int
        BY ChatFacts DEF OneBubble
      <4> QED
        BY <3>1, <4>1, <4>2
    <3> QED
      BY <1>2, <2>1, <3>1, <3>2 DEF IsStored
  <2>3. CASE b.st # "none"
    <3>1. PICK m \in DOMAIN said :
             /\ b.id = Local(m) /\ b.key = Local(m) /\ b.body = said[m]
             /\ b.st = IF posting[m] = Nothing THEN "failed" ELSE "sending"
      BY <2>3, ChatFacts DEF IsPlaceholder
    <3>2. m \in Send /\ m \in Nat /\ n \in Nat
      BY ChatFacts, ChatAssumption DEF Send
    <3>3. b.id = Local(n) <=> m = n
      BY <3>1, <3>2, LocalOnce
    <3>4. c.st = IF posting'[m] = Nothing THEN "failed" ELSE "sending"
      BY <1>1, <1>5, <2>1, <3>1, <3>2, <3>3
    <3> QED
      BY <1>2, <2>1, <3>1, <3>4 DEF IsPlaceholder
  <2> QED
    BY <2>2, <2>3
<1>8. BubblesApart'
  <2> SUFFICES ASSUME NEW b \in ToSet(chat), NEW c \in ToSet(chat), NEW d, NEW e,
                      d = Marked(b, Local(n), st), e = Marked(c, Local(n), st), d # e
               PROVE  d.id # e.id /\ d.key # e.key
    BY <1>4 DEF BubblesApart, Apart
  <2>1. b # c
    OBVIOUS
  <2>2. d.id = b.id /\ d.key = b.key /\ e.id = c.id /\ e.key = c.key
    BY <1>4
  <2> QED
    BY <2>1, <2>2, ChatFacts
<1>9. PostsAreSaid'
  BY <1>2, <1>5 DEF ChatInv, PostsAreSaid, Nothing, Sent
<1>10. StoredAreSaid'
  BY <1>2 DEF ChatInv, StoredAreSaid
<1>11. Ids(chat') = Ids(chat)
  BY <1>4 DEF Ids
<1>12. AllArrive'
  BY <1>2, <1>11 DEF ChatInv, AllArrive, Arrives, OnItsWay, Opened
<1>13. TypedIsKept'
  BY <1>2, <1>11 DEF ChatInv, TypedIsKept
<1> QED
  BY <1>6, <1>7, <1>8, <1>9, <1>10, <1>12, <1>13 DEF ChatInv

LEMMA RetryKeeps ==
    ASSUME ChatInv, NEW n \in Send, RetrySend(n)
    PROVE  ChatInv'
<1>1. n \in DOMAIN said
  BY FailedOnce DEF RetrySend
<1>2. Sent # Nothing
  BY DEF Sent, Nothing
<1> QED
  BY <1>1, <1>2, StatusKeeps DEF RetrySend

LEMMA FailKeeps ==
    ASSUME ChatInv, NEW n \in Send, FailPending(n)
    PROVE  ChatInv'
BY StatusKeeps DEF FailPending

LEMMA DiscardKeeps ==
    ASSUME ChatInv, NEW n \in Send, Discard(n)
    PROVE  ChatInv'
<1>1. UNCHANGED <<stored, unannounced, up, events, reader, reached, late, said, loaded, posting>>
      /\ discarded' = discarded \cup {n}
  BY DEF Discard, server, wire
<1>2. PICK S : S = {b \in ToSet(chat) : b.key # Local(n) /\ b.id # Local(n)}
  OBVIOUS
<1>3. chat' = Only(chat, S) /\ chat \in Seq(OneBubble)
  BY <1>2 DEF Discard, ChatInv, ChatTyped
<1>4. chat' \in Seq(OneBubble) /\ ToSet(chat') = ToSet(chat) \cap S /\ IsInjective(chat')
  BY <1>3, OnlyKeeps DEF ChatInv, BubblesApart
<1>5. \A b \in ToSet(chat) \ S : b.id = Local(n) /\ b.st # "none"
  BY <1>2, FailedOnce DEF Discard
<1>6. ChatTyped'
  BY <1>1, <1>4 DEF ChatInv, ChatTyped
<1>7. BubblesFit'
  BY <1>1, <1>4 DEF ChatInv, BubblesFit, IsStored, IsPlaceholder
<1>8. BubblesApart'
  BY <1>4 DEF ChatInv, BubblesApart, Apart
<1>9. PostsAreSaid' /\ StoredAreSaid'
  BY <1>1 DEF ChatInv, PostsAreSaid, StoredAreSaid
<1>10. \A id \in Ids(chat) : id # Local(n) => id \in Ids(chat')
  BY <1>4, <1>5 DEF Ids
<1>11. \A id \in DOMAIN stored : id # Local(n)
  <2>1. Local(n) < 0
    BY ChatAssumption DEF Send, Local
  <2> QED
    BY <2>1, ChatFacts
<1>12. AllArrive'
  BY <1>1, <1>10, <1>11 DEF ChatInv, AllArrive, Arrives, OnItsWay, Opened
<1>13. TypedIsKept'
  <2>1. \A m \in DOMAIN said : m # n => Local(m) # Local(n)
    <3>1. n \in Nat
      BY ChatAssumption DEF Send
    <3> QED
      BY <3>1, ChatFacts, LocalOnce
  <2> QED
    BY <1>1, <1>10, <2>1 DEF ChatInv, TypedIsKept
<1> QED
  BY <1>6, <1>7, <1>8, <1>9, <1>12, <1>13 DEF ChatInv

\* A new bubble on top.
LEMMA OnTop ==
    ASSUME ChatInv, NEW b \in OneBubble, NEW new, new = <<b>> \o chat,
           \A c \in ToSet(chat) : c.id # b.id /\ c.key # b.key
    PROVE  /\ new \in Seq(OneBubble) /\ ToSet(new) = {b} \cup ToSet(chat)
           /\ IsInjective(new) /\ Apart(ToSet(new))
<1>1. chat \in Seq(OneBubble)
  BY DEF ChatInv, ChatTyped
<1>2. PICK one : one = <<b>>
  OBVIOUS
<1>3. one \in Seq(OneBubble) /\ DOMAIN one = 1 .. 1 /\ one[1] = b
  BY <1>2
<1>4. ToSet(one) = {b} /\ IsInjective(one)
  BY <1>3 DEF ToSet, IsInjective
<1>5. b \notin ToSet(chat)
  OBVIOUS
<1>6. ToSet(one) \cap ToSet(chat) = {} /\ IsInjective(chat)
  BY <1>4, <1>5 DEF ChatInv, BubblesApart
<1>7. new \in Seq(OneBubble) /\ ToSet(new) = {b} \cup ToSet(chat) /\ IsInjective(new)
  <2>1. PICK old, T : old = chat /\ T = OneBubble
    OBVIOUS
  <2>2. one \in Seq(T) /\ old \in Seq(T) /\ new = one \o old
    BY <1>1, <1>2, <1>3, <2>1
  <2>3. /\ one \o old \in Seq(T) /\ ToSet(one \o old) = ToSet(one) \cup ToSet(old)
        /\ (IsInjective(one) /\ IsInjective(old) /\ ToSet(one) \cap ToSet(old) = {} =>
               IsInjective(one \o old))
    BY <2>2, Stacked
  <2>4. new \in Seq(OneBubble) /\ ToSet(new) = ToSet(one) \cup ToSet(old) /\ IsInjective(new)
    BY <1>4, <1>6, <2>1, <2>2, <2>3
  <2> QED
    BY <1>4, <2>1, <2>4
<1>8. Apart(ToSet(new))
  BY <1>7 DEF ChatInv, BubblesApart, Apart
<1> QED
  BY <1>7, <1>8

LEMMA SendKeeps ==
    ASSUME ChatInv, NEW body \in Body, SendMessage(body)
    PROVE  ChatInv'
<1>1. PICK n \in Nat : n = Len(said) + 1
  BY ChatFacts
<1>2. /\ UNCHANGED <<stored, unannounced, up, events, reader, discarded, reached, late>>
      /\ Opened /\ loaded' = TRUE /\ n <= MaxSends
      /\ said' = Append(said, body) /\ posting' = [posting EXCEPT ![n] = Sent]
  BY <1>1, ChatFacts, ChatAssumption DEF SendMessage, server, wire, history
<1>3. said' \in Seq(Body) /\ Len(said') = n /\ DOMAIN said' = 1 .. n
      /\ said'[n] = body /\ \A m \in DOMAIN said : said'[m] = said[m]
  <2>1. said \in Seq(Body)
    BY DEF ChatInv, ChatTyped
  <2>2. said' \in Seq(Body) /\ Len(said') = n
    BY <1>1, <1>2, <2>1, AppendProperties
  <2> QED
    BY <1>1, <1>2, <2>1, <2>2, AppendProperties, LenProperties, ChatFacts
<1>4. n \in DOMAIN said' /\ n \in Send /\ DOMAIN said' = DOMAIN said \cup {n} /\ n \notin DOMAIN said
  BY <1>1, <1>2, <1>3, ChatFacts DEF Send
<1>5. PICK b : b = Bubble(Local(n), body, "sending")
  OBVIOUS
<1>6. /\ b \in OneBubble /\ b.id = Local(n) /\ b.key = Local(n) /\ b.body = body
      /\ b.st = "sending"
  BY <1>5 DEF Bubble, OneBubble, Local
<1>7. \A c \in ToSet(chat) : c.id # b.id /\ c.key # b.key
  <2> SUFFICES ASSUME NEW c \in ToSet(chat) PROVE c.id # b.id /\ c.key # b.key
    OBVIOUS
  <2>1. Local(n) < 0
    BY <1>1, ChatFacts DEF Local
  <2>2. \A m \in DOMAIN said : Local(m) # Local(n)
    BY <1>4, LocalOnce, ChatFacts
  <2>3. CASE c.st = "none"
    <3>1. IsStored(c) /\ c.id > 0 /\ c.id \in Int
      BY <2>3, ChatFacts DEF OneBubble
    <3> QED
      BY <1>6, <2>1, <2>2, <3>1 DEF IsStored
  <2>4. CASE c.st # "none"
    BY <1>6, <2>2, <2>4, ChatFacts DEF IsPlaceholder
  <2> QED
    BY <2>3, <2>4
<1>8. chat' = <<b>> \o chat
  BY <1>1, <1>5 DEF SendMessage
<1>9. /\ chat' \in Seq(OneBubble) /\ ToSet(chat') = {b} \cup ToSet(chat)
      /\ IsInjective(chat') /\ Apart(ToSet(chat'))
  BY <1>6, <1>7, <1>8, OnTop
<1>10. posting \in [Send -> {Nothing, Sent} \cup DOMAIN stored]
  BY DEF ChatInv, ChatTyped
<1>11. ChatTyped'
  <2>1. posting' \in [Send -> {Nothing, Sent} \cup DOMAIN stored]
    BY <1>2, <1>10
  <2> QED
    BY <1>2, <1>3, <1>9, <2>1 DEF ChatInv, ChatTyped
<1>12. BubblesFit'
  <2>1. IsPlaceholder(b)'
    <3>1. posting'[n] # Nothing
      BY <1>2, <1>4, <1>10 DEF Sent, Nothing
    <3> QED
      BY <1>3, <1>4, <1>6, <3>1 DEF IsPlaceholder
  <2>2. ASSUME NEW c \in ToSet(chat) PROVE IsStored(c)' \/ IsPlaceholder(c)'
    <3>1. CASE IsStored(c)
      BY <1>2, <1>4, <3>1 DEF IsStored
    <3>2. CASE IsPlaceholder(c)
      <4>1. PICK m \in DOMAIN said :
               /\ c.id = Local(m) /\ c.key = Local(m) /\ c.body = said[m]
               /\ c.st = IF posting[m] = Nothing THEN "failed" ELSE "sending"
        BY <3>2 DEF IsPlaceholder
      <4>2. m # n /\ m \in Send /\ posting'[m] = posting[m]
        BY <1>2, <1>4, <1>10, ChatFacts
      <4> QED
        BY <1>3, <1>4, <4>1, <4>2 DEF IsPlaceholder
    <3> QED
      BY <3>1, <3>2 DEF ChatInv, BubblesFit
  <2> QED
    BY <1>9, <2>1, <2>2 DEF BubblesFit
<1>13. BubblesApart'
  BY <1>9 DEF BubblesApart
<1>14. PostsAreSaid'
  <2> SUFFICES ASSUME NEW m \in Send
               PROVE  /\ posting'[m] # Nothing => m \in DOMAIN said'
                      /\ posting'[m] > 0 => stored[posting'[m]].by = m
    BY <1>2 DEF PostsAreSaid
  <2>1. CASE m = n
    BY <1>2, <1>4, <1>10, <2>1 DEF Sent
  <2>2. CASE m # n
    BY <1>2, <1>4, <1>10, <2>2 DEF ChatInv, PostsAreSaid
  <2> QED
    BY <2>1, <2>2
<1>15. StoredAreSaid'
  BY <1>2, <1>3, <1>4 DEF ChatInv, StoredAreSaid
<1>16. Ids(chat) \subseteq Ids(chat') /\ Local(n) \in Ids(chat')
  BY <1>6, <1>9 DEF Ids
<1>17. AllArrive'
  BY <1>2, <1>16 DEF ChatInv, AllArrive, Arrives, OnItsWay, Opened
<1>18. TypedIsKept'
  <2> SUFFICES ASSUME NEW m \in DOMAIN said', \A k \in DOMAIN said' : said'[k] = said'[m] => k = m
               PROVE  \/ m \in discarded \/ Local(m) \in Ids(chat')
                      \/ \E id \in DOMAIN stored : stored[id].by = m
    BY <1>2 DEF TypedIsKept
  <2>1. CASE m = n
    BY <1>16, <2>1
  <2>2. CASE m # n
    <3>1. m \in DOMAIN said /\ \A k \in DOMAIN said : said[k] = said[m] => k = m
      BY <1>3, <1>4, <2>2
    <3> QED
      BY <1>16, <3>1 DEF ChatInv, TypedIsKept
  <2> QED
    BY <2>1, <2>2
<1> QED
  BY <1>11, <1>12, <1>13, <1>14, <1>15, <1>17, <1>18 DEF ChatInv

\* createMessage: a row more, which is to be announced.
LEMMA StoreKeeps ==
    ASSUME ChatInv, NEW by \in {0} \cup Send, NEW body \in Body, Store(by, body),
           by # 0 => by \in DOMAIN said /\ said[by] = body,
           UNCHANGED <<said, chat, loaded, wire, history>>,
           posting' \in [Send -> {Nothing, Sent} \cup 1 .. (Len(stored) + 1)],
           \A n \in Send : \/ posting'[n] = posting[n]
                           \/ posting'[n] = Len(stored) + 1 /\ posting[n] = Sent /\ by = n
    PROVE  ChatInv'
<1>1. PICK k \in Nat : k = Len(stored) /\ DOMAIN stored = 1 .. k
  BY ChatFacts
<1>2. /\ stored' = Append(stored, [by |-> by, body |-> body])
      /\ unannounced' = unannounced \cup {k + 1}
      /\ UNCHANGED <<said, chat, loaded, up, events, reader, discarded, reached, late>>
  BY <1>1 DEF Store, wire, history
<1>3. /\ stored' \in Seq([by : {0} \cup Send, body : Body]) /\ Len(stored') = k + 1
      /\ DOMAIN stored' = 1 .. (k + 1) /\ stored'[k + 1] = [by |-> by, body |-> body]
      /\ \A id \in DOMAIN stored : stored'[id] = stored[id]
  <2>1. stored \in Seq([by : {0} \cup Send, body : Body])
    BY DEF ChatInv, ChatTyped
  <2>2. stored' \in Seq([by : {0} \cup Send, body : Body]) /\ Len(stored') = k + 1
    BY <1>1, <1>2, <2>1, AppendProperties
  <2> QED
    BY <1>1, <1>2, <2>1, <2>2, AppendProperties, LenProperties
<1>4. /\ DOMAIN stored' = DOMAIN stored \cup {k + 1} /\ k + 1 \notin DOMAIN stored
      /\ 0 .. k \subseteq 0 .. (k + 1)
  BY <1>1, <1>3
<1>5. \A n \in Send : posting'[n] = Nothing <=> posting[n] = Nothing
  BY <1>1 DEF Nothing, Sent
<1>6. ChatTyped'
  <2>1. events \in Seq(DOMAIN stored')
    BY <1>4, SeqMonotonic DEF ChatInv, ChatTyped
  <2>2. reader \in [Reader -> {Unread, Asked} \cup 0 .. (k + 1)]
    BY <1>1, <1>4 DEF ChatInv, ChatTyped
  <2>3. posting' \in [Send -> {Nothing, Sent} \cup DOMAIN stored']
    BY <1>1, <1>3
  <2> QED
    BY <1>1, <1>2, <1>3, <1>4, <2>1, <2>2, <2>3 DEF ChatInv, ChatTyped
<1>7. BubblesFit' /\ BubblesApart'
  BY <1>2, <1>5, ChatRests
<1>8. PostsAreSaid'
  <2> SUFFICES ASSUME NEW n \in Send
               PROVE  /\ posting'[n] # Nothing => n \in DOMAIN said
                      /\ posting'[n] > 0 => stored'[posting'[n]].by = n
    BY <1>2 DEF PostsAreSaid
  <2>1. posting[n] # Nothing => n \in DOMAIN said
    BY DEF ChatInv, PostsAreSaid
  <2>2. CASE posting'[n] = posting[n]
    <3>1. posting[n] > 0 => posting[n] \in DOMAIN stored
      BY DEF ChatInv, ChatTyped, Nothing, Sent
    <3> QED
      BY <1>3, <2>1, <2>2, <3>1 DEF ChatInv, PostsAreSaid
  <2>3. CASE posting'[n] = k + 1 /\ posting[n] = Sent /\ by = n
    BY <1>3, <2>1, <2>3 DEF Sent, Nothing
  <2> QED
    BY <1>1, <2>2, <2>3
<1>9. StoredAreSaid'
  <2> SUFFICES ASSUME NEW id \in DOMAIN stored', stored'[id].by # 0
               PROVE  stored'[id].by \in DOMAIN said /\ stored'[id].body = said[stored'[id].by]
    BY <1>2 DEF StoredAreSaid
  <2>1. CASE id = k + 1
    BY <1>3, <2>1
  <2>2. CASE id # k + 1
    BY <1>3, <1>4, <2>2 DEF ChatInv, StoredAreSaid
  <2> QED
    BY <2>1, <2>2
<1>10. AllArrive'
  <2> SUFFICES ASSUME ~ late, NEW id \in DOMAIN stored' PROVE Arrives(id)'
    BY <1>2 DEF AllArrive
  <2>1. CASE id = k + 1
    BY <1>2, <2>1 DEF Arrives, OnItsWay
  <2>2. CASE id # k + 1
    <3>1. Arrives(id)
      BY <1>4, <2>2 DEF ChatInv, AllArrive
    <3> QED
      BY <1>2, <3>1 DEF Arrives, OnItsWay, Opened
  <2> QED
    BY <2>1, <2>2
<1>11. TypedIsKept'
  <2>1. \A id \in DOMAIN stored : stored'[id].by = stored[id].by
    BY <1>3
  <2> QED
    BY <1>2, <1>4, <2>1, TypedStays
<1> QED
  BY <1>6, <1>7, <1>8, <1>9, <1>10, <1>11 DEF ChatInv

LEMMA StoreMineKeeps ==
    ASSUME ChatInv, NEW n \in Send, StoreMine(n)
    PROVE  ChatInv'
<1>1. posting \in [Send -> {Nothing, Sent} \cup DOMAIN stored] /\ posting[n] = Sent
      /\ posting' = [posting EXCEPT ![n] = Len(stored) + 1]
  BY DEF ChatInv, ChatTyped, StoreMine
<1>2. n \in DOMAIN said
  BY <1>1 DEF ChatInv, PostsAreSaid, Sent, Nothing
<1>3. PICK body \in Body : body = said[n]
  BY <1>2, ChatFacts
<1>4. Store(n, body) /\ UNCHANGED <<said, chat, loaded, wire, history>>
  BY <1>3 DEF StoreMine
<1>5. PICK k \in Nat : k = Len(stored) /\ DOMAIN stored = 1 .. k
  BY ChatFacts
<1>6. posting' \in [Send -> {Nothing, Sent} \cup 1 .. (Len(stored) + 1)]
  <2>1. DOMAIN stored \subseteq 1 .. (k + 1) /\ k + 1 \in 1 .. (k + 1)
    BY <1>5
  <2> QED
    BY <1>1, <1>5, <2>1
<1>7. \A m \in Send : \/ posting'[m] = posting[m]
                      \/ posting'[m] = Len(stored) + 1 /\ posting[m] = Sent /\ n = m
  BY <1>1
<1> QED
  BY <1>2, <1>3, <1>4, <1>6, <1>7, StoreKeeps

LEMMA StoreTheirsKeeps ==
    ASSUME ChatInv, NEW body \in Body, StoreTheirs(body)
    PROVE  ChatInv'
<1>1. posting' = posting /\ posting \in [Send -> {Nothing, Sent} \cup DOMAIN stored]
  BY DEF ChatInv, ChatTyped, StoreTheirs
<1>2. PICK k \in Nat : k = Len(stored) /\ DOMAIN stored = 1 .. k
  BY ChatFacts
<1>3. DOMAIN stored \subseteq 1 .. (k + 1)
  BY <1>2
<1>4. posting' \in [Send -> {Nothing, Sent} \cup 1 .. (Len(stored) + 1)]
  BY <1>1, <1>2, <1>3
<1>5. PICK by \in {0} \cup Send : by = 0
  OBVIOUS
<1> QED
  BY <1>1, <1>4, <1>5, StoreKeeps DEF StoreTheirs

\* announceMessage: the socket carries it, or there is none.
LEMMA AnnounceKeeps ==
    ASSUME ChatInv, NEW id, Announce(id)
    PROVE  ChatInv'
<1>1. /\ id \in unannounced /\ unannounced' = unannounced \ {id}
      /\ events' = IF up THEN Append(events, id) ELSE events
      /\ UNCHANGED <<stored, said, posting, chat, loaded, up, reader, discarded, reached, late>>
  BY DEF Announce, history
<1>2. events \in Seq(DOMAIN stored) /\ id \in DOMAIN stored
  BY <1>1 DEF ChatInv, ChatTyped
<1>3. events' \in Seq(DOMAIN stored) /\ ToSet(events) \subseteq ToSet(events')
      /\ (up => id \in ToSet(events'))
  <2>1. PICK old, T : old = events /\ T = DOMAIN stored
    OBVIOUS
  <2>2. old \in Seq(T) /\ id \in T
    BY <1>2, <2>1
  <2>3. Append(old, id) \in Seq(T) /\ ToSet(Append(old, id)) = ToSet(old) \cup {id}
    BY <2>2, Appended
  <2> QED
    BY <1>1, <1>2, <2>1, <2>3
<1>4. ChatTyped'
  BY <1>1, <1>3 DEF ChatInv, ChatTyped
<1>5. BubblesFit' /\ BubblesApart'
  BY <1>1, ChatRests
<1>6. PostsAreSaid' /\ StoredAreSaid' /\ TypedIsKept'
  BY <1>1 DEF ChatInv, PostsAreSaid, StoredAreSaid, TypedIsKept
<1>7. AllArrive'
  BY <1>1, <1>3 DEF ChatInv, AllArrive, Arrives, OnItsWay, Opened
<1> QED
  BY <1>4, <1>5, <1>6, <1>7 DEF ChatInv

\* The socket dies with what it carried; a page will be read when it is back.
LEMMA DropKeeps ==
    ASSUME ChatInv, Drop
    PROVE  ChatInv'
<1>1. UNCHANGED <<stored, unannounced, said, posting, chat, loaded, reader, discarded, reached, late>>
      /\ up' = FALSE /\ events' = <<>>
  BY DEF Drop, server, history
<1>2. ChatTyped'
  BY <1>1, EmptySeq DEF ChatInv, ChatTyped
<1>3. BubblesFit' /\ BubblesApart'
  BY <1>1, ChatRests
<1>4. PostsAreSaid' /\ StoredAreSaid' /\ TypedIsKept'
  BY <1>1 DEF ChatInv, PostsAreSaid, StoredAreSaid, TypedIsKept
<1>5. AllArrive'
  BY <1>1 DEF AllArrive, Arrives, OnItsWay
<1> QED
  BY <1>2, <1>3, <1>4, <1>5 DEF ChatInv

\* The socket comes back, or the history is asked for or read.
LEMMA WireKeeps ==
    ASSUME ChatInv, NEW r \in Reader, Ready(r) \/ Reload(r) \/ Serve(r)
    PROVE  ChatInv'
<1>1. UNCHANGED <<stored, unannounced, said, posting, chat, loaded, discarded, reached, late>>
  BY DEF Ready, Reload, Serve, server, history
<1>2. reader \in [Reader -> {Unread, Asked} \cup 0 .. Len(stored)] /\ events \in Seq(DOMAIN stored)
      /\ Len(stored) \in 0 .. Len(stored)
  BY ChatFacts DEF ChatInv, ChatTyped
<1>3. ChatTyped'
  <2>1. up' \in BOOLEAN
    BY DEF Ready, Reload, Serve, ChatInv, ChatTyped
  <2>2. events' \in Seq(DOMAIN stored)
    BY <1>2, EmptySeq DEF Ready, Reload, Serve
  <2>3. reader' \in [Reader -> {Unread, Asked} \cup 0 .. Len(stored)]
    BY <1>2 DEF Ready, Reload, Serve
  <2> QED
    BY <1>1, <2>1, <2>2, <2>3 DEF ChatInv, ChatTyped
<1>4. BubblesFit' /\ BubblesApart'
  BY <1>1, ChatRests
<1>5. PostsAreSaid' /\ StoredAreSaid' /\ TypedIsKept'
  BY <1>1 DEF ChatInv, PostsAreSaid, StoredAreSaid, TypedIsKept
<1>6. AllArrive'
  <2> SUFFICES ASSUME ~ late, NEW id \in DOMAIN stored PROVE Arrives(id)'
    BY <1>1 DEF AllArrive
  <2>1. Arrives(id) /\ id \in Nat /\ id > 0 /\ id <= Len(stored)
    BY ChatFacts DEF ChatInv, AllArrive
  <2>2. CASE id \in Ids(chat)
    BY <1>1, <2>2 DEF Arrives
  <2>3. CASE Ready(r) \/ Reload(r)
    <3>1. reader'[r] = Asked
      BY <1>2, <2>3 DEF Ready, Reload
    <3> QED
      BY <3>1 DEF Arrives, OnItsWay
  <2>4. CASE Serve(r)
    <3>1. reader'[r] = Len(stored)
      BY <1>2, <2>4 DEF Serve
    <3> QED
      BY <2>1, <3>1 DEF Arrives, OnItsWay
  <2> QED
    BY <2>3, <2>4
<1> QED
  BY <1>3, <1>4, <1>5, <1>6 DEF ChatInv

-----------------------------------------------------------------------------
\* The bubbles after a copy came: those that were there, or new stored ones, and no
\* placeholder of a POST that has its answer.
LEMMA FitKeeps ==
    ASSUME ChatInv, UNCHANGED said, reached \subseteq reached',
           \A b \in ToSet(chat') : b \in ToSet(chat) \/ IsStored(b)',
           \A m \in Send : \/ posting'[m] = Nothing <=> posting[m] = Nothing
                           \/ Local(m) \notin Ids(chat')
    PROVE  BubblesFit'
<1> SUFFICES ASSUME NEW b \in ToSet(chat'), b \in ToSet(chat) PROVE IsStored(b)' \/ IsPlaceholder(b)'
  BY DEF BubblesFit
<1>1. CASE IsStored(b)
  BY <1>1 DEF IsStored
<1>2. CASE IsPlaceholder(b)
  <2>1. PICK n \in DOMAIN said :
           /\ b.id = Local(n) /\ b.key = Local(n) /\ b.body = said[n]
           /\ b.st = IF posting[n] = Nothing THEN "failed" ELSE "sending"
    BY <1>2 DEF IsPlaceholder
  <2>2. n \in Send /\ Local(n) \in Ids(chat')
    BY <2>1, ChatFacts DEF Ids
  <2> QED
    BY <2>1, <2>2 DEF IsPlaceholder
<1> QED
  BY <1>1, <1>2 DEF ChatInv, BubblesFit

\* A placeholder becomes a stored message that is not there yet.
CanBecome(i, id) ==
    /\ i \in DOMAIN chat /\ chat[i].st # "none"
    /\ id \in DOMAIN stored /\ id \notin Ids(chat)
HasBecome(i, id, new) ==
    /\ new \in Seq(OneBubble) /\ IsInjective(new) /\ Apart(ToSet(new))
    /\ \E b \in OneBubble : /\ b.id = id /\ b.key = chat[i].id /\ b.st = "none"
                           /\ ToSet(new) = (ToSet(chat) \ {chat[i]}) \cup {b}

LEMMA PlaceholderBecomes ==
    ASSUME ChatInv, NEW i, NEW id, CanBecome(i, id), NEW new, new = BubbleBecomes(i, id)
    PROVE  HasBecome(i, id, new)
<1>0. PICK b : /\ i \in DOMAIN chat /\ chat[i].st # "none" /\ id \in DOMAIN stored
               /\ id \notin Ids(chat) /\ b = [FromServer(id) EXCEPT !.key = chat[i].id]
  BY DEF CanBecome
<1>1. PICK n \in Nat : n = Len(chat) /\ DOMAIN chat = 1 .. n /\ i \in 1 .. n
  BY <1>0, LenProperties DEF ChatInv, ChatTyped
<1>2. PICK body \in Body : body = stored[id].body
  BY <1>0, StoredBody
<1>3. PICK old \in OneBubble : old = chat[i] /\ old \in ToSet(chat) /\ old.key = old.id
  BY <1>0, ChatFacts DEF IsPlaceholder
<1>4. PICK oid : oid = old.id
  OBVIOUS
<1>16. b = [id |-> id, key |-> oid, body |-> body, st |-> "none"]
  BY <1>0, <1>2, <1>3, <1>4 DEF FromServer, Bubble
<1>5. id \in Int /\ oid \in Int
  BY <1>0, <1>3, <1>4, ChatFacts DEF OneBubble
<1>6. b \in OneBubble /\ b.id = id /\ b.key = oid /\ b.st = "none"
  BY <1>16, <1>5 DEF OneBubble
<1>7. new = [chat EXCEPT ![i] = b]
  BY <1>0 DEF BubbleBecomes
<1>8. /\ new \in Seq(OneBubble) /\ Len(new) = n
      /\ \A j \in 1 .. n : new[j] = IF j = i THEN b ELSE chat[j]
  <2>1. PICK s : s = chat
    OBVIOUS
  <2>2. s \in Seq(OneBubble) /\ i \in 1 .. Len(s)
    BY <1>1, <2>1 DEF ChatInv, ChatTyped
  <2>3. /\ [s EXCEPT ![i] = b] \in Seq(OneBubble) /\ Len([s EXCEPT ![i] = b]) = Len(s)
        /\ \A j \in 1 .. Len(s) : [s EXCEPT ![i] = b][j] = IF j = i THEN b ELSE s[j]
    BY <1>6, <2>2, ExceptSeq
  <2> QED
    BY <1>1, <1>7, <2>1, <2>3
<1>9. DOMAIN new = 1 .. n
  BY <1>8, LenProperties
<1>10. b \notin ToSet(chat)
  BY <1>0, <1>6 DEF Ids
<1>11. \A j \in 1 .. n : chat[j] = old => j = i
  BY <1>1, <1>3, ChatFacts
<1>12. ToSet(new) = (ToSet(chat) \ {old}) \cup {b}
  <2>1. ASSUME NEW x \in ToSet(new) PROVE x \in (ToSet(chat) \ {old}) \cup {b}
    <3>1. PICK j \in 1 .. n : x = new[j]
      BY <1>9 DEF ToSet
    <3> QED
      BY <1>1, <1>8, <1>11, <3>1 DEF ToSet
  <2>2. ASSUME NEW x \in ToSet(chat), x # old PROVE x \in ToSet(new)
    <3>1. PICK j \in 1 .. n : x = chat[j]
      BY <1>1 DEF ToSet
    <3>2. j # i /\ new[j] = x
      BY <1>3, <1>8, <2>2, <3>1
    <3> QED
      BY <1>9, <3>2 DEF ToSet
  <2>3. b \in ToSet(new)
    BY <1>1, <1>8, <1>9 DEF ToSet
  <2> QED
    BY <2>1, <2>2, <2>3
<1>13. IsInjective(new)
  <2> SUFFICES ASSUME NEW j \in 1 .. n, NEW k \in 1 .. n, new[j] = new[k] PROVE j = k
    BY <1>9 DEF IsInjective
  <2>1. \A m \in 1 .. n : chat[m] \in ToSet(chat)
    BY <1>1, ChatFacts
  <2>2. CASE j = i \/ k = i
    BY <1>8, <1>10, <2>1, <2>2
  <2>3. CASE j # i /\ k # i
    BY <1>1, <1>8, <2>3, ChatFacts
  <2> QED
    BY <2>2, <2>3
<1>14. Apart(ToSet(new))
  <2>1. \A c \in ToSet(chat) \ {old} : c.id # b.id /\ c.key # b.key
    BY <1>0, <1>3, <1>4, <1>6, ChatFacts DEF Ids
  <2>2. Apart(ToSet(chat))
    BY DEF ChatInv, BubblesApart
  <2> QED
    BY <1>12, <2>1, <2>2 DEF Apart
<1> QED
  BY <1>3, <1>4, <1>6, <1>8, <1>12, <1>13, <1>14 DEF HasBecome

\* A bubble by its id.
LEMMA BubbleIsAt ==
    ASSUME ChatInv, NEW id \in Ids(chat)
    PROVE  BubbleAt(id) \in DOMAIN chat /\ chat[BubbleAt(id)].id = id
<1>1. \E i \in DOMAIN chat : chat[i].id = id
  BY ChatFacts DEF Ids
<1> QED
  BY <1>1 DEF BubbleAt

\* The answer to the POST.
LEMMA ResolveKeeps ==
    ASSUME ChatInv, NEW n \in Send, ResolvePending(n)
    PROVE  ChatInv'
<1>1. PICK id : id = posting[n] /\ id > 0
  BY DEF ResolvePending
<1>2. /\ chat' = ResolveChat(n, id) /\ posting' = [posting EXCEPT ![n] = Nothing]
      /\ reached' = reached \cup {id}
      /\ UNCHANGED <<stored, unannounced, said, loaded, up, events, reader, discarded, late>>
  BY <1>1 DEF ResolvePending, server, wire
<1>3. posting \in [Send -> {Nothing, Sent} \cup DOMAIN stored]
  BY DEF ChatInv, ChatTyped
<1>4. id \in DOMAIN stored /\ id # Nothing /\ n \in DOMAIN said /\ stored[id].by = n
  BY <1>1, <1>3 DEF ChatInv, PostsAreSaid, Nothing, Sent
<1>5. Local(n) < 0 /\ Local(n) \in Int
  BY ChatAssumption DEF Send, Local
<1>6. /\ chat' \in Seq(OneBubble) /\ IsInjective(chat') /\ Apart(ToSet(chat'))
      /\ \A b \in ToSet(chat') : b \in ToSet(chat) \/ IsStored(b)'
      /\ Local(n) \notin Ids(chat')
      /\ \A jd \in Ids(chat) : jd # Local(n) => jd \in Ids(chat')
  <2>1. CASE id \in Ids(chat)
    <3>1. PICK S : S = {b \in ToSet(chat) : b.id # Local(n)}
      OBVIOUS
    <3>2. chat' = Only(chat, S)
      BY <1>2, <2>1, <3>1 DEF ResolveChat
    <3>3. chat' \in Seq(OneBubble) /\ ToSet(chat') = ToSet(chat) \cap S /\ IsInjective(chat')
      BY <3>2, OnlyKeeps DEF ChatInv, ChatTyped, BubblesApart
    <3>4. Apart(ToSet(chat'))
      BY <3>3 DEF ChatInv, BubblesApart, Apart
    <3> QED
      BY <3>1, <3>3, <3>4 DEF Ids
  <2>2. CASE id \notin Ids(chat) /\ Local(n) \in Ids(chat)
    <3>1. PICK i \in DOMAIN chat : i = BubbleAt(Local(n)) /\ chat[i].id = Local(n)
      BY <2>2, BubbleIsAt
    <3>2. chat[i] \in ToSet(chat) /\ chat[i].st # "none"
      <4>1. chat[i] \in ToSet(chat) /\ chat[i].id \in Int /\ ~ (chat[i].id > 0)
        BY <1>5, <3>1, ChatFacts
      <4> QED
        BY <4>1, ChatFacts
    <3>3. PICK new : new = BubbleBecomes(i, id)
      OBVIOUS
    <3>4. chat' = new
      BY <1>2, <2>2, <3>1, <3>3 DEF ResolveChat
    <3>a. HasBecome(i, id, new)
      BY <1>4, <2>2, <3>2, <3>3, PlaceholderBecomes DEF CanBecome
    <3>5. PICK b :
          /\ b \in OneBubble /\ b.id = id /\ b.key = chat[i].id /\ b.st = "none"
          /\ new \in Seq(OneBubble) /\ ToSet(new) = (ToSet(chat) \ {chat[i]}) \cup {b}
          /\ IsInjective(new) /\ Apart(ToSet(new))
      BY <3>a DEF HasBecome
    <3>6. IsStored(b)'
      BY <1>2, <1>4, <3>1, <3>5 DEF IsStored
    <3>7. \A c \in ToSet(new) : c.id # Local(n)
      <4>1. \A c \in ToSet(chat) : c.id = Local(n) => c = chat[i]
        BY <3>1, <3>2, ChatFacts
      <4>2. b.id # Local(n)
        BY <1>1, <1>5, <3>5, <1>4, ChatFacts
      <4> QED
        BY <3>5, <4>1, <4>2
    <3>8. \A c \in ToSet(chat) : c.id # Local(n) => c \in ToSet(new)
      BY <3>1, <3>5
    <3> QED
      BY <3>4, <3>5, <3>6, <3>7, <3>8 DEF Ids
  <2>3. CASE id \notin Ids(chat) /\ Local(n) \notin Ids(chat)
    <3>1. chat' = chat
      BY <1>2, <2>3 DEF ResolveChat
    <3> QED
      BY <2>3, <3>1 DEF ChatInv, ChatTyped, BubblesApart
  <2> QED
    BY <2>1, <2>2, <2>3
<1>7. \A m \in Send : posting'[m] = IF m = n THEN Nothing ELSE posting[m]
  BY <1>2, <1>3
<1>8. ChatTyped'
  <2>1. posting' \in [Send -> {Nothing, Sent} \cup DOMAIN stored]
    BY <1>2, <1>3
  <2> QED
    BY <1>2, <1>4, <1>6, <2>1 DEF ChatInv, ChatTyped
<1>9. BubblesFit'
  BY <1>2, <1>6, <1>7, FitKeeps
<1>10. BubblesApart'
  BY <1>6 DEF BubblesApart
<1>11. PostsAreSaid' /\ StoredAreSaid'
  <2>1. ~ (Nothing > 0)
    BY DEF Nothing
  <2> QED
    BY <1>2, <1>7, <2>1 DEF ChatInv, PostsAreSaid, StoredAreSaid
<1>12. AllArrive'
  <2> SUFFICES ASSUME ~ late, NEW jd \in DOMAIN stored PROVE Arrives(jd)'
    BY <1>2 DEF AllArrive
  <2>1. Arrives(jd) /\ jd # Local(n)
    BY <1>5, ChatFacts DEF ChatInv, AllArrive
  <2>2. CASE jd \in Ids(chat)
    BY <1>6, <2>1, <2>2 DEF Arrives
  <2>3. CASE OnItsWay(jd)
    BY <1>2, <2>3 DEF Arrives, OnItsWay, Opened
  <2> QED
    BY <2>1, <2>2, <2>3 DEF Arrives
<1>13. TypedIsKept'
  <2> SUFFICES ASSUME NEW m \in DOMAIN said, \A k \in DOMAIN said : said[k] = said[m] => k = m
               PROVE  \/ m \in discarded \/ Local(m) \in Ids(chat')
                      \/ \E jd \in DOMAIN stored : stored[jd].by = m
    BY <1>2 DEF TypedIsKept
  <2>1. CASE m = n
    BY <1>4, <2>1
  <2>2. CASE m # n
    <3>1. Local(m) # Local(n)
      BY <1>4, <2>2, LocalOnce, ChatFacts
    <3> QED
      BY <1>6, <3>1 DEF ChatInv, TypedIsKept
  <2> QED
    BY <2>1, <2>2
<1> QED
  BY <1>8, <1>9, <1>10, <1>11, <1>12, <1>13 DEF ChatInv

LEMMA HeadAndTail ==
    ASSUME NEW T, NEW s \in Seq(T), s # <<>>
    PROVE  /\ Head(s) \in T /\ Tail(s) \in Seq(T)
           /\ \A x \in ToSet(s) : x = Head(s) \/ x \in ToSet(Tail(s))
<1>0. PICK t : t = Tail(s)
  OBVIOUS
<1>1. PICK n \in Nat : n = Len(s) /\ t = Tail(s) /\ n > 0
  <2>1. Len(s) \in Nat /\ Len(s) > 0
    BY EmptySeq
  <2> QED
    BY <1>0, <2>1
<1>2. Head(s) \in T /\ t \in Seq(T) /\ Len(t) = n - 1 /\ \A i \in 1 .. (n - 1) : t[i] = s[i + 1]
  BY <1>1, HeadTailProperties
<1>3. DOMAIN s = 1 .. n /\ DOMAIN t = 1 .. (n - 1) /\ Head(s) = s[1]
  BY <1>1, <1>2, LenProperties
<1>4. ASSUME NEW x \in ToSet(s) PROVE x = Head(s) \/ x \in ToSet(t)
  <2>1. PICK i \in 1 .. n : x = s[i]
    BY <1>3, <1>4 DEF ToSet
  <2>2. CASE i = 1
    BY <1>3, <2>1, <2>2
  <2>3. CASE i # 1
    <3>1. i - 1 \in 1 .. (n - 1) /\ (i - 1) + 1 = i
      BY <1>1, <2>3
    <3>2. t[i - 1] = x
      BY <1>2, <2>1, <3>1
    <3> QED
      BY <1>3, <3>1, <3>2 DEF ToSet
  <2> QED
    BY <2>2, <2>3
<1> QED
  BY <1>1, <1>2, <1>4

\* A new stored message on top.
LEMMA ServerOnTop ==
    ASSUME ChatInv, NEW id \in DOMAIN stored, id \notin Ids(chat), NEW new,
           new = <<FromServer(id)>> \o chat
    PROVE  /\ new \in Seq(OneBubble) /\ IsInjective(new) /\ Apart(ToSet(new))
           /\ \E b \in OneBubble : /\ b.id = id /\ b.key = id /\ b.st = "none"
                                   /\ ToSet(new) = {b} \cup ToSet(chat)
<1>1. PICK body \in Body : body = stored[id].body
  BY StoredBody
<1>2. PICK b : b = FromServer(id)
  OBVIOUS
<1>3. id \in Int /\ id > 0
  BY ChatFacts
<1>4. b \in OneBubble /\ b.id = id /\ b.key = id /\ b.st = "none"
  BY <1>1, <1>2, <1>3 DEF FromServer, Bubble, OneBubble
<1>5. \A c \in ToSet(chat) : c.id # b.id /\ c.key # b.key
  <2> SUFFICES ASSUME NEW c \in ToSet(chat) PROVE c.id # id /\ c.key # id
    BY <1>4
  <2>1. c.id # id
    BY DEF Ids
  <2>2. \A n \in DOMAIN said : Local(n) # id
    BY <1>3, ChatFacts DEF Local
  <2>3. CASE c.st = "none"
    BY <2>1, <2>2, <2>3, ChatFacts DEF IsStored
  <2>4. CASE c.st # "none"
    BY <2>1, <2>2, <2>4, ChatFacts DEF IsPlaceholder
  <2> QED
    BY <2>1, <2>3, <2>4
<1>6. new = <<b>> \o chat
  BY <1>2
<1>7. /\ new \in Seq(OneBubble) /\ ToSet(new) = {b} \cup ToSet(chat)
      /\ IsInjective(new) /\ Apart(ToSet(new))
  BY <1>4, <1>5, <1>6, OnTop
<1> QED
  BY <1>4, <1>7

\* findLastIndex: the placeholder that is replaced is one of those that match.
LEMMA OldestIsIn ==
    ASSUME ChatInv, NEW S, S \subseteq DOMAIN chat, S # {}
    PROVE  Oldest(S) \in S
<1>1. PICK n \in Nat : DOMAIN chat = 1 .. n
  BY LenProperties DEF ChatInv, ChatTyped
<1>2. IsFiniteSet(S) /\ S \subseteq Nat
  <2>1. IsFiniteSet(1 .. n)
    BY FS_Interval
  <2> QED
    BY <1>1, <2>1, FS_Subset
<1>3. \E i \in S : \A j \in S : j <= i
  BY <1>2, GreatestNat
<1> QED
  BY <1>3 DEF Oldest

\* What the socket's copy does to the chat.
LEMMA ReceivedChat ==
    ASSUME ChatInv, NEW id \in DOMAIN stored, NEW new, new = ReceiveChat(id)
    PROVE  /\ new \in Seq(OneBubble) /\ IsInjective(new) /\ Apart(ToSet(new)) /\ id \in Ids(new)
           /\ \A b \in ToSet(new) :
                \/ b \in ToSet(chat)
                \/ b.st = "none" /\ b.id = id /\ (b.key = id \/ \E n \in DOMAIN said : b.key = Local(n))
           /\ \A jd \in Ids(chat) :
                \/ jd \in Ids(new)
                \/ \E n \in DOMAIN said : /\ jd = Local(n) /\ said[n] = stored[id].body
                                          /\ stored[id].by # 0
<1>1. PICK match : match = IF stored[id].by # 0 THEN Sending(stored[id].body) ELSE {}
  OBVIOUS
<1>2. new = CASE id \in Ids(chat) -> chat
              [] id \notin Ids(chat) /\ match # {} -> BubbleBecomes(Oldest(match), id)
              [] OTHER -> <<FromServer(id)>> \o chat
  BY <1>1 DEF ReceiveChat
<1>3. CASE id \in Ids(chat)
  <2>1. new = chat
    BY <1>2, <1>3
  <2> QED
    BY <1>3, <2>1 DEF ChatInv, ChatTyped, BubblesApart
<1>4. CASE id \notin Ids(chat) /\ match # {}
  <2>1. new = BubbleBecomes(Oldest(match), id)
    BY <1>2, <1>4
  <2>2. stored[id].by # 0 /\ match = Sending(stored[id].body) /\ match \subseteq DOMAIN chat
    BY <1>1, <1>4 DEF Sending
  <2>3. PICK i \in match : i = Oldest(match)
    BY <1>4, <2>2, OldestIsIn
  <2>4. i \in DOMAIN chat /\ chat[i].st = "sending" /\ chat[i].body = stored[id].body
    BY <2>2, <2>3 DEF Sending
  <2>5. chat[i] \in ToSet(chat) /\ IsPlaceholder(chat[i])
    BY <2>4, ChatFacts
  <2>6. PICK n \in DOMAIN said : chat[i].id = Local(n) /\ chat[i].body = said[n]
    BY <2>5 DEF IsPlaceholder
  <2>7. HasBecome(i, id, new)
    BY <1>4, <2>1, <2>3, <2>4, PlaceholderBecomes DEF CanBecome
  <2>8. PICK b \in OneBubble : /\ b.id = id /\ b.key = chat[i].id /\ b.st = "none"
                               /\ ToSet(new) = (ToSet(chat) \ {chat[i]}) \cup {b}
    BY <2>7 DEF HasBecome
  <2>9. new \in Seq(OneBubble) /\ IsInjective(new) /\ Apart(ToSet(new))
    BY <2>7 DEF HasBecome
  <2>10. id \in Ids(new)
    BY <2>8 DEF Ids
  <2>11. ASSUME NEW jd \in Ids(chat)
         PROVE  jd \in Ids(new) \/ jd = Local(n)
    <3>1. PICK c \in ToSet(chat) : c.id = jd
      BY DEF Ids
    <3> QED
      BY <2>6, <2>8, <3>1 DEF Ids
  <2> QED
    BY <2>2, <2>4, <2>6, <2>8, <2>9, <2>10, <2>11
<1>5. CASE id \notin Ids(chat) /\ match = {}
  <2>1. new = <<FromServer(id)>> \o chat
    BY <1>2, <1>5
  <2>2. new \in Seq(OneBubble) /\ IsInjective(new) /\ Apart(ToSet(new))
    BY <1>5, <2>1, ServerOnTop
  <2>3. PICK b \in OneBubble : /\ b.id = id /\ b.key = id /\ b.st = "none"
                               /\ ToSet(new) = {b} \cup ToSet(chat)
    BY <1>5, <2>1, ServerOnTop
  <2>4. Ids(chat) \subseteq Ids(new) /\ id \in Ids(new)
    BY <2>3 DEF Ids
  <2> QED
    BY <2>2, <2>3, <2>4
<1> QED
  BY <1>3, <1>4, <1>5

LEMMA ReceiveKeeps ==
    ASSUME ChatInv, Receive
    PROVE  ChatInv'
<1>1. PICK id : id = Head(events)
  OBVIOUS
<1>2. /\ events # <<>> /\ events' = Tail(events)
      /\ chat' = IF loaded THEN ReceiveChat(id) ELSE chat
      /\ reached' = reached \cup {id}
      /\ UNCHANGED <<stored, unannounced, said, posting, loaded, up, reader, discarded, late>>
  BY <1>1 DEF Receive, server
<1>3. /\ id \in DOMAIN stored /\ events' \in Seq(DOMAIN stored)
      /\ \A jd \in ToSet(events) : jd = id \/ jd \in ToSet(events')
  <2>1. PICK s, T : s = events /\ T = DOMAIN stored
    OBVIOUS
  <2>2. s \in Seq(T) /\ s # <<>>
    BY <1>2, <2>1 DEF ChatInv, ChatTyped
  <2>3. /\ Head(s) \in T /\ Tail(s) \in Seq(T)
        /\ \A x \in ToSet(s) : x = Head(s) \/ x \in ToSet(Tail(s))
    BY <2>2, HeadAndTail
  <2> QED
    BY <1>1, <1>2, <2>1, <2>3
<1>4. /\ chat' \in Seq(OneBubble) /\ IsInjective(chat') /\ Apart(ToSet(chat'))
      /\ loaded => id \in Ids(chat')
      /\ \A b \in ToSet(chat') :
           \/ b \in ToSet(chat)
           \/ b.st = "none" /\ b.id = id /\ (b.key = id \/ \E n \in DOMAIN said : b.key = Local(n))
      /\ \A jd \in Ids(chat) :
           \/ jd \in Ids(chat')
           \/ \E n \in DOMAIN said : /\ jd = Local(n) /\ said[n] = stored[id].body
                                     /\ stored[id].by # 0
  <2>1. CASE loaded
    <3>1. PICK new : new = ReceiveChat(id) /\ chat' = new
      BY <1>2, <2>1
    <3> QED
      BY <1>3, <3>1, ReceivedChat
  <2>2. CASE ~ loaded
    <3>1. chat' = chat
      BY <1>2, <2>2
    <3> QED
      BY <2>2, <3>1 DEF ChatInv, ChatTyped, BubblesApart
  <2> QED
    BY <2>1, <2>2
<1>5. ChatTyped'
  BY <1>2, <1>3, <1>4 DEF ChatInv, ChatTyped
<1>6. BubblesFit'
  <2>1. \A b \in ToSet(chat') : b \in ToSet(chat) \/ IsStored(b)'
    BY <1>2, <1>4 DEF IsStored
  <2> QED
    BY <1>2, <2>1, FitKeeps
<1>7. BubblesApart'
  BY <1>4 DEF BubblesApart
<1>8. PostsAreSaid' /\ StoredAreSaid'
  BY <1>2 DEF ChatInv, PostsAreSaid, StoredAreSaid
<1>9. AllArrive'
  <2> SUFFICES ASSUME ~ late, NEW jd \in DOMAIN stored PROVE Arrives(jd)'
    BY <1>2 DEF AllArrive
  <2>1. Arrives(jd)
    BY DEF ChatInv, AllArrive
  <2>2. CASE jd \in Ids(chat)
    <3>1. \A n \in DOMAIN said : jd # Local(n)
      BY ChatFacts DEF Local
    <3> QED
      BY <1>4, <2>2, <3>1 DEF Arrives
  <2>3. CASE jd = id
    <3>1. CASE loaded
      BY <1>4, <2>3, <3>1 DEF Arrives
    <3>2. CASE ~ loaded
      BY <1>2, <2>3, <3>2 DEF Arrives, OnItsWay, Opened
    <3> QED
      BY <3>1, <3>2
  <2>4. CASE jd # id /\ OnItsWay(jd)
    BY <1>2, <1>3, <2>4 DEF Arrives, OnItsWay, Opened
  <2> QED
    BY <2>1, <2>2, <2>3, <2>4 DEF Arrives
<1>10. TypedIsKept'
  <2> SUFFICES ASSUME NEW m \in DOMAIN said, \A k \in DOMAIN said : said[k] = said[m] => k = m
               PROVE  \/ m \in discarded \/ Local(m) \in Ids(chat')
                      \/ \E jd \in DOMAIN stored : stored[jd].by = m
    BY <1>2 DEF TypedIsKept
  <2>1. \/ m \in discarded \/ Local(m) \in Ids(chat)
        \/ \E jd \in DOMAIN stored : stored[jd].by = m
    BY DEF ChatInv, TypedIsKept
  <2>2. ASSUME Local(m) \in Ids(chat), Local(m) \notin Ids(chat')
        PROVE  stored[id].by = m
    <3>1. PICK n \in DOMAIN said : Local(m) = Local(n) /\ said[n] = stored[id].body /\ stored[id].by # 0
      BY <1>4, <2>2
    <3>2. m = n
      BY <3>1, LocalOnce, ChatFacts
    <3>3. stored[id].by \in DOMAIN said /\ said[stored[id].by] = said[m]
      BY <1>3, <3>1, <3>2 DEF ChatInv, StoredAreSaid
    <3> QED
      BY <3>3
  <2> QED
    BY <1>3, <2>1, <2>2
<1> QED
  BY <1>5, <1>6, <1>7, <1>8, <1>9, <1>10 DEF ChatInv

\* A message of a page, with the key it was drawn by.
DrawnKey(i) == IF i \in Ids(chat) THEN chat[BubbleAt(i)].key ELSE i
PageBubble(i) == [FromServer(i) EXCEPT !.key = DrawnKey(i)]

LEMMA DrawnKeys ==
    ASSUME ChatInv, NEW i \in DOMAIN stored
    PROVE  /\ DrawnKey(i) = i \/ \E n \in DOMAIN said : DrawnKey(i) = Local(n)
           /\ DrawnKey(i) \in Int
           /\ \A j \in DOMAIN stored : DrawnKey(i) = DrawnKey(j) => i = j
           /\ \A b \in ToSet(chat) : b.st # "none" => b.key # DrawnKey(i)
<1>1. ASSUME NEW j \in DOMAIN stored, j \in Ids(chat)
      PROVE  \E c \in ToSet(chat) : /\ c.id = j /\ c.key = DrawnKey(j) /\ c.st = "none"
                                    /\ c.key \in Int
                                    /\ c.key = j \/ \E n \in DOMAIN said : c.key = Local(n)
  <2>1. BubbleAt(j) \in DOMAIN chat /\ chat[BubbleAt(j)].id = j
    BY <1>1, BubbleIsAt
  <2>2. PICK c : c = chat[BubbleAt(j)]
    OBVIOUS
  <2>3. c \in ToSet(chat) /\ c.id = j /\ c.key = DrawnKey(j)
    BY <1>1, <2>1, <2>2, ChatFacts DEF DrawnKey
  <2>4. j > 0 /\ j \in Nat /\ c.key \in Int
    BY <2>3, ChatFacts DEF OneBubble
  <2>5. c.st = "none"
    BY <2>3, <2>4, ChatFacts
  <2>6. c.key = j \/ \E n \in DOMAIN said : c.key = Local(n)
    BY <2>3, <2>5, ChatFacts DEF IsStored
  <2> QED
    BY <2>3, <2>4, <2>5, <2>6
<1>2. ASSUME NEW j \in DOMAIN stored, j \notin Ids(chat)
      PROVE  DrawnKey(j) = j /\ \A c \in ToSet(chat) : c.key # j
  <2>1. DrawnKey(j) = j /\ j > 0 /\ j \in Nat
    BY <1>2, ChatFacts DEF DrawnKey
  <2>2. \A n \in DOMAIN said : Local(n) # j
    BY <2>1, ChatFacts DEF Local
  <2>3. ASSUME NEW c \in ToSet(chat) PROVE c.key # j
    <3>1. c.id # j
      BY <1>2 DEF Ids
    <3>2. CASE c.st = "none"
      BY <2>2, <3>1, <3>2, ChatFacts DEF IsStored
    <3>3. CASE c.st # "none"
      BY <2>2, <3>3, ChatFacts DEF IsPlaceholder
    <3> QED
      BY <3>2, <3>3
  <2> QED
    BY <2>1, <2>3
<1>3. DrawnKey(i) \in Int /\ (DrawnKey(i) = i \/ \E n \in DOMAIN said : DrawnKey(i) = Local(n))
  <2>1. i \in Int
    BY ChatFacts
  <2> QED
    BY <1>1, <1>2, <2>1
<1>4. ASSUME NEW j \in DOMAIN stored, DrawnKey(i) = DrawnKey(j) PROVE i = j
  <2>1. CASE i \in Ids(chat) /\ j \in Ids(chat)
    <3>1. PICK b \in ToSet(chat) : b.id = i /\ b.key = DrawnKey(i)
      BY <1>1, <2>1
    <3>2. PICK c \in ToSet(chat) : c.id = j /\ c.key = DrawnKey(j)
      BY <1>1, <2>1
    <3>3. b = c
      BY <1>4, <3>1, <3>2, ChatFacts
    <3> QED
      BY <3>1, <3>2, <3>3
  <2>2. CASE i \in Ids(chat) /\ j \notin Ids(chat)
    BY <1>1, <1>2, <1>4, <2>2
  <2>3. CASE i \notin Ids(chat) /\ j \in Ids(chat)
    BY <1>1, <1>2, <1>4, <2>3
  <2>4. CASE i \notin Ids(chat) /\ j \notin Ids(chat)
    BY <1>2, <1>4, <2>4
  <2> QED
    BY <2>1, <2>2, <2>3, <2>4
<1>5. ASSUME NEW b \in ToSet(chat), b.st # "none" PROVE b.key # DrawnKey(i)
  <2>1. CASE i \in Ids(chat)
    <3>1. PICK c \in ToSet(chat) : c.key = DrawnKey(i) /\ c.st = "none"
      BY <1>1, <2>1
    <3>2. b # c
      BY <1>5, <3>1
    <3> QED
      BY <3>1, <3>2, ChatFacts
  <2>2. CASE i \notin Ids(chat)
    BY <1>2, <2>2
  <2> QED
    BY <2>1, <2>2
<1> QED
  BY <1>3, <1>4, <1>5

LEMMA PageBubbles ==
    ASSUME ChatInv, NEW i \in DOMAIN stored
    PROVE  /\ PageBubble(i) \in OneBubble /\ PageBubble(i).id = i
           /\ PageBubble(i).key = DrawnKey(i) /\ PageBubble(i).st = "none"
<1>1. PICK body \in Body : body = stored[i].body
  BY StoredBody
<1>2. PICK k \in Int : k = DrawnKey(i)
  BY DrawnKeys
<1>3. i \in Int
  BY ChatFacts
<1>4. PageBubble(i) = [id |-> i, key |-> k, body |-> body, st |-> "none"]
  BY <1>1, <1>2 DEF PageBubble, FromServer, Bubble
<1> QED
  BY <1>2, <1>3, <1>4 DEF OneBubble

\* setHistory: what is still sending or failed, and the page.
LEMMA PagedChat ==
    ASSUME ChatInv, NEW k \in Nat, 1 .. k \subseteq DOMAIN stored, NEW new, new = PageChat(k)
    PROVE  /\ new \in Seq(OneBubble) /\ IsInjective(new) /\ Apart(ToSet(new))
           /\ ToSet(new) = {b \in ToSet(chat) : b.st # "none"} \cup {PageBubble(i) : i \in 1 .. k}
<1>1. PICK S : S = {b \in ToSet(chat) : b.st # "none"}
  OBVIOUS
<1>2. PICK kept : kept = Only(chat, S)
  OBVIOUS
<1>3. kept \in Seq(OneBubble) /\ ToSet(kept) = S /\ IsInjective(kept)
  <2>1. ToSet(chat) \cap S = S
    BY <1>1
  <2> QED
    BY <1>2, <2>1, OnlyKeeps DEF ChatInv, ChatTyped, BubblesApart
<1>4. PICK page : page = [i \in 1 .. k |-> PageBubble(i)]
  OBVIOUS
<1>5. page \in [1 .. k -> OneBubble] /\ DOMAIN page = 1 .. k /\ \A i \in 1 .. k : page[i] = PageBubble(i)
  BY <1>4, PageBubbles
<1>6. IsInjective(page)
  <2> SUFFICES ASSUME NEW i \in 1 .. k, NEW j \in 1 .. k, page[i] = page[j] PROVE i = j
    BY <1>5 DEF IsInjective
  <2>1. PageBubble(i).id = i /\ PageBubble(j).id = j
    BY PageBubbles
  <2> QED
    BY <1>5, <2>1
<1>7. PICK shown : shown = Reverse(page)
  OBVIOUS
<1>8. /\ shown \in Seq(OneBubble) /\ ToSet(shown) = {PageBubble(i) : i \in 1 .. k}
      /\ IsInjective(shown)
  <2>1. shown \in Seq(OneBubble) /\ ToSet(shown) = {page[i] : i \in 1 .. k} /\ IsInjective(shown)
    BY <1>5, <1>6, <1>7, Reversed
  <2> QED
    BY <1>5, <2>1
<1>9. new = kept \o shown
  BY <1>1, <1>2, <1>4, <1>7 DEF PageChat, PageBubble, DrawnKey
<1>10. ASSUME NEW b \in S, NEW i \in 1 .. k
       PROVE  b.id # PageBubble(i).id /\ b.key # PageBubble(i).key
  <2>1. b \in ToSet(chat) /\ b.st # "none" /\ i \in DOMAIN stored
    BY <1>1
  <2>2. b.id < 0 /\ b.id \in Int /\ i > 0 /\ i \in Nat
    BY <2>1, ChatFacts DEF OneBubble
  <2>3. PageBubble(i).id = i /\ PageBubble(i).key = DrawnKey(i)
    BY <2>1, PageBubbles
  <2>4. b.key # DrawnKey(i)
    BY <2>1, DrawnKeys
  <2> QED
    BY <2>2, <2>3, <2>4
<1>11. S \cap ToSet(shown) = {}
  BY <1>8, <1>10
<1>12. new \in Seq(OneBubble) /\ IsInjective(new) /\ ToSet(new) = S \cup ToSet(shown)
  <2>1. kept \o shown \in Seq(OneBubble) /\ ToSet(kept \o shown) = ToSet(kept) \cup ToSet(shown)
    BY <1>3, <1>8, Stacked
  <2>2. IsInjective(kept \o shown)
    BY <1>3, <1>8, <1>11, Stacked
  <2> QED
    BY <1>3, <1>9, <2>1, <2>2
<1>13. Apart(S)
  BY <1>1 DEF ChatInv, BubblesApart, Apart
<1>14. ASSUME NEW i \in 1 .. k, NEW j \in 1 .. k, PageBubble(i) # PageBubble(j)
       PROVE  PageBubble(i).id # PageBubble(j).id /\ PageBubble(i).key # PageBubble(j).key
  <2>1. i # j /\ i \in DOMAIN stored /\ j \in DOMAIN stored
    BY <1>14
  <2> QED
    BY <2>1, PageBubbles, DrawnKeys
<1>15. Apart(ToSet(new))
  <2> SUFFICES ASSUME NEW b \in ToSet(new), NEW c \in ToSet(new), b # c
               PROVE  b.id # c.id /\ b.key # c.key
    BY DEF Apart
  <2>1. CASE b \in S /\ c \in S
    BY <1>13, <2>1 DEF Apart
  <2>2. CASE b \in S /\ c \in ToSet(shown)
    BY <1>8, <1>10, <2>2
  <2>3. CASE b \in ToSet(shown) /\ c \in S
    BY <1>8, <1>10, <2>3
  <2>4. CASE b \in ToSet(shown) /\ c \in ToSet(shown)
    BY <1>8, <1>14, <2>4
  <2> QED
    BY <1>12, <2>1, <2>2, <2>3, <2>4
<1> QED
  BY <1>1, <1>8, <1>12, <1>15

LEMMA LandKeeps ==
    ASSUME ChatInv, NEW r \in Reader, Land(r)
    PROVE  ChatInv'
<1>1. reader \in [Reader -> {Unread, Asked} \cup 0 .. Len(stored)]
  BY DEF ChatInv, ChatTyped
<1>2. PICK k \in Nat : k = reader[r] /\ k <= Len(stored) /\ 1 .. k \subseteq DOMAIN stored
  <2>1. reader[r] \in 0 .. Len(stored)
    BY <1>1 DEF Land, Unread, Asked
  <2>2. reader[r] \in Nat /\ reader[r] <= Len(stored) /\ 1 .. reader[r] \subseteq 1 .. Len(stored)
    BY <2>1, ChatFacts
  <2> QED
    BY <2>2, ChatFacts
<1>3. /\ chat' = PageChat(k) /\ loaded' = TRUE
      /\ late' = (late \/ \E id \in reached : id > k)
      /\ reached' = reached \cup 1 .. k
      /\ reader' = [reader EXCEPT ![r] = Unread]
      /\ UNCHANGED <<stored, unannounced, said, posting, up, events, discarded>>
  BY <1>2 DEF Land, server
<1>4. PICK new : new = PageChat(k) /\ chat' = new
  BY <1>3
<1>5. /\ chat' \in Seq(OneBubble) /\ IsInjective(chat') /\ Apart(ToSet(chat'))
      /\ ToSet(chat') = {b \in ToSet(chat) : b.st # "none"} \cup {PageBubble(i) : i \in 1 .. k}
  BY <1>2, <1>4, PagedChat
<1>6. ChatTyped'
  <2>1. reader' \in [Reader -> {Unread, Asked} \cup 0 .. Len(stored)]
    BY <1>1, <1>3
  <2>2. late' \in BOOLEAN
    BY <1>3
  <2> QED
    BY <1>2, <1>3, <1>5, <2>1, <2>2 DEF ChatInv, ChatTyped
<1>7. BubblesFit'
  <2>1. ASSUME NEW i \in 1 .. k, NEW b, b = PageBubble(i) PROVE IsStored(b)'
    <3>1. /\ b.id = i /\ b.key = DrawnKey(i) /\ b.st = "none" /\ i \in reached'
          /\ DrawnKey(i) = i \/ \E n \in DOMAIN said : DrawnKey(i) = Local(n)
      BY <1>2, <1>3, <2>1, PageBubbles, DrawnKeys
    <3> QED
      BY <1>3, <3>1 DEF IsStored
  <2>2. \A b \in ToSet(chat') : b \in ToSet(chat) \/ IsStored(b)'
    BY <1>5, <2>1
  <2> QED
    BY <1>3, <2>2, FitKeeps
<1>8. BubblesApart'
  BY <1>5 DEF BubblesApart
<1>9. PostsAreSaid' /\ StoredAreSaid'
  BY <1>3 DEF ChatInv, PostsAreSaid, StoredAreSaid
<1>10. AllArrive'
  <2> SUFFICES ASSUME ~ late', NEW id \in DOMAIN stored PROVE Arrives(id)'
    BY <1>3 DEF AllArrive
  <2>1. ~ late /\ \A jd \in reached : ~ (jd > k)
    BY <1>3
  <2>2. Arrives(id) /\ id \in Nat /\ id > 0
    BY <2>1, ChatFacts DEF ChatInv, AllArrive
  <2>3. CASE id <= k
    <3>1. PageBubble(id) \in ToSet(chat') /\ PageBubble(id).id = id
      BY <1>5, <2>2, <2>3, PageBubbles
    <3> QED
      BY <3>1 DEF Arrives, Ids
  <2>4. CASE id > k
    <3>1. id \notin reached
      BY <2>1, <2>4
    <3>2. id \notin Ids(chat)
      <4>1. ASSUME NEW b \in ToSet(chat), b.id = id PROVE FALSE
        BY <2>2, <3>1, <4>1, ChatFacts DEF IsStored
      <4> QED
        BY <4>1 DEF Ids
    <3>3. Opened
      BY <1>2 DEF Opened, Unread
    <3>4. \/ id \in unannounced \/ id \in ToSet(events) \/ ~ up
          \/ \E q \in Reader : reader[q] = Asked \/ reader[q] >= id
      BY <2>2, <3>1, <3>2, <3>3 DEF Arrives, OnItsWay
    <3>5. ASSUME NEW q \in Reader, reader[q] = Asked \/ reader[q] >= id
          PROVE  reader'[q] = reader[q]
      <4>1. q # r
        BY <1>2, <2>2, <2>4, <3>5 DEF Asked
      <4> QED
        BY <1>1, <1>3, <4>1
    <3> QED
      BY <1>3, <3>4, <3>5 DEF Arrives, OnItsWay
  <2> QED
    BY <1>2, <2>2, <2>3, <2>4
<1>11. TypedIsKept'
  <2>1. ASSUME NEW m \in DOMAIN said, Local(m) \in Ids(chat) PROVE Local(m) \in Ids(chat')
    <3>1. PICK b \in ToSet(chat) : b.id = Local(m)
      BY <2>1 DEF Ids
    <3>2. b.st # "none"
      <4>1. Local(m) < 0 /\ Local(m) \in Int
        BY ChatFacts DEF Local
      <4> QED
        BY <3>1, <4>1, ChatFacts
    <3> QED
      BY <1>5, <3>1, <3>2 DEF Ids
  <2> QED
    BY <1>3, <2>1 DEF ChatInv, TypedIsKept
<1> QED
  BY <1>6, <1>7, <1>8, <1>9, <1>10, <1>11 DEF ChatInv

-----------------------------------------------------------------------------
LEMMA ChatStep == ChatInv /\ [ChatNext]_chatVars => ChatInv'
<1> SUFFICES ASSUME ChatInv, [ChatNext]_chatVars PROVE ChatInv'
  OBVIOUS
<1>1. CASE UNCHANGED chatVars
  BY <1>1 DEF chatVars, server, wire, history, ChatInv, ChatTyped, BubblesFit, IsStored, IsPlaceholder,
     BubblesApart, Apart, PostsAreSaid, StoredAreSaid, AllArrive, Arrives, OnItsWay, Opened, TypedIsKept
<1>2. ASSUME NEW body \in Body, SendMessage(body) \/ StoreTheirs(body) PROVE ChatInv'
  BY <1>2, SendKeeps, StoreTheirsKeeps
<1>3. ASSUME NEW n \in Send,
             RetrySend(n) \/ Discard(n) \/ StoreMine(n) \/ ResolvePending(n) \/ FailPending(n)
      PROVE  ChatInv'
  BY <1>3, RetryKeeps, DiscardKeeps, StoreMineKeeps, ResolveKeeps, FailKeeps
<1>4. ASSUME NEW id, Announce(id) PROVE ChatInv'
  BY <1>4, AnnounceKeeps
<1>5. CASE Receive
  BY <1>5, ReceiveKeeps
<1>6. CASE Drop
  BY <1>6, DropKeeps
<1>7. ASSUME NEW r \in Reader, Ready(r) \/ Reload(r) \/ Serve(r) \/ Land(r) PROVE ChatInv'
  BY <1>7, WireKeeps, LandKeeps
<1> QED
  BY <1>1, <1>2, <1>3, <1>4, <1>5, <1>6, <1>7 DEF ChatNext

\* What the invariant is for: the type, and a chat that is whole.
LEMMA ChatIsSound ==
    ASSUME ChatInv
    PROVE  ChatTypeOK /\ BubblesAreDistinct /\ SettledChatIsComplete /\ TypedIsKept
<1>1. ChatTypeOK
  <2>1. \A m \in ToSet(stored) : m \in [by : {0} \cup Send, body : Body]
    BY SetOf DEF ChatInv, ChatTyped
  <2>2. ToSet(events) \subseteq DOMAIN stored
    BY SetOf DEF ChatInv, ChatTyped
  <2>3. ASSUME NEW b \in ToSet(chat)
        PROVE  /\ b.id \in DOMAIN stored \cup {Local(n) : n \in Send}
               /\ b.st \in {"none", "sending", "failed"}
               /\ b.id > 0 <=> b.st = "none"
    <3>1. b.st \in {"none", "sending", "failed"} /\ b.id \in Int
      BY ChatFacts DEF OneBubble
    <3>2. CASE b.st = "none"
      BY <3>1, <3>2, ChatFacts
    <3>3. CASE b.st # "none"
      <4>1. b.id < 0 /\ \E n \in Send : b.id = Local(n)
        BY <3>3, ChatFacts DEF IsPlaceholder
      <4> QED
        BY <3>1, <3>3, <4>1
    <3> QED
      BY <3>2, <3>3
  <2> QED
    BY <2>1, <2>2, <2>3 DEF ChatInv, ChatTyped, ChatTypeOK
<1>2. BubblesAreDistinct
  <2> SUFFICES ASSUME NEW i \in DOMAIN chat, NEW j \in DOMAIN chat, i # j
               PROVE  chat[i].id # chat[j].id /\ chat[i].key # chat[j].key
    BY DEF BubblesAreDistinct
  <2>1. chat[i] \in ToSet(chat) /\ chat[j] \in ToSet(chat) /\ chat[i] # chat[j]
    BY ChatFacts DEF ChatInv, BubblesApart, IsInjective
  <2> QED
    BY <2>1, ChatFacts
<1>3. SettledChatIsComplete
  <2> SUFFICES ASSUME Settled, ~ late
               PROVE  /\ DOMAIN stored \subseteq Ids(chat)
                      /\ \A b \in ToSet(chat) : b.st # "sending"
    BY DEF SettledChatIsComplete
  <2>1. ASSUME NEW id \in DOMAIN stored PROVE id \in Ids(chat)
    <3>1. Arrives(id) /\ id > 0 /\ id \in Nat
      BY ChatFacts DEF ChatInv, AllArrive
    <3>2. ToSet(<<>>) = {}
      BY DEF ToSet
    <3>3. \A r \in Reader : reader[r] = Unread /\ reader[r] # Asked /\ ~ (reader[r] >= id)
      BY <3>1 DEF Settled, Unread, Asked
    <3> QED
      BY <3>1, <3>2, <3>3 DEF Settled, Arrives, OnItsWay, Opened
  <2>2. ASSUME NEW b \in ToSet(chat) PROVE b.st # "sending"
    BY ChatFacts DEF Settled, IsPlaceholder
  <2> QED
    BY <2>1, <2>2
<1>4. TypedIsKept
  BY DEF ChatInv
<1> QED
  BY <1>1, <1>2, <1>3, <1>4

LEMMA ChatAlways == ChatSpec => []ChatInv
<1> QED
  BY ChatStarts, ChatStep, PTL DEF ChatSpec

(***************************************************************************)
(* The parts together, as MC_Community composes them.                      *)
(***************************************************************************)

\* What each part keeps, for the behaviours of all of them.
CommunityInv == SocialInv /\ PostsInv /\ GroupsInv /\ RoutinesInv /\ ChatInv /\ PagesInv

LEMMA CommunityStart == Init => CommunityInv
BY SocialStart, PostsStart, GroupsStart, RoutinesStart, ChatStarts, PagesStart DEF Init, CommunityInv

\* A step of the whole is a step of one part and leaves the others alone.
LEMMA CommunityStep == CommunityInv /\ [Next]_communityVars => CommunityInv'
<1> SUFFICES ASSUME CommunityInv, [Next]_communityVars PROVE CommunityInv'
  OBVIOUS
<1>1. [SocialNext]_socialVars /\ [PostsNext]_postsVars /\ [GroupsNext]_groupVars
      /\ [RoutinesNext]_routineVars /\ [ChatNext]_chatVars /\ [PagesNext]_pagesVars
  BY DEF Next, In, communityVars
<1> QED
  BY <1>1, SocialInductive, PostsStep, GroupsInductive, RoutinesStep, ChatStep, PagesStep
  DEF CommunityInv

\* With nothing in flight, nothing cached is out of date but what was bumped, in every
\* part that caches pages: each part's invariant says so of its own pages.
THEOREM PagesStayCurrent == Spec => []PagesAreCurrent
<1>1. CommunityInv => PagesAreCurrent
  <2>1. SocialInv => ListsAreBumped
    BY DEF SocialInv, ListsAreOwed, CallBumps, ListsAreBumped
  <2>2. PostsInv => PagesAreBumped
    BY DEF PostsInv
  <2>3. GroupsInv => GroupPagesAreBumped
    BY DEF GroupsInv
  <2>4. RoutinesInv => RoutinePagesAreBumped
    BY DEF RoutinesInv, DustIsOwed, VisitBumps, RoutinePagesAreBumped
  <2>5. PagesInv => SessionPagesAreBumped
    BY DEF PagesInv
  <2> QED
    BY <2>1, <2>2, <2>3, <2>4, <2>5 DEF CommunityInv, PagesAreCurrent
<1> QED
  BY CommunityStart, CommunityStep, <1>1, PTL DEF Spec

\* Every variable of every part keeps its type, in the behaviours of all of them.
THEOREM CommunityTypeCorrect == Spec => []TypeOK
<1>1. CommunityInv => TypeOK
  <2>1. SocialInv => SocialTypeOK
    BY DEF SocialInv
  <2>2. PostsInv => PostsTypeOK
    BY DEF PostsInv
  <2>3. GroupsInv => GroupsTypeOK
    BY DEF GroupsInv
  <2>4. RoutinesInv => RoutinesTypeOK
    BY DEF RoutinesInv
  <2>5. PagesInv => PagesTypeOK
    BY DEF PagesInv
  <2>6. ChatInv => ChatTypeOK
    BY ChatIsSound
  <2> QED
    BY <2>1, <2>2, <2>3, <2>4, <2>5, <2>6 DEF CommunityInv, TypeOK
<1> QED
  BY CommunityStart, CommunityStep, <1>1, PTL DEF Spec

\* A message is on the screen once, all of them once everything has landed, and none
\* that was typed is lost, however the answer, the socket's copy and the pages of
\* history are ordered and for any number of them (messageStore.ts).
THEOREM ChatStaysWhole == Spec => []ChatIsWhole
<1>1. CommunityInv => ChatIsWhole
  BY ChatIsSound DEF CommunityInv, ChatIsWhole
<1> QED
  BY CommunityStart, CommunityStep, <1>1, PTL DEF Spec
=============================================================================
