----------------------------- MODULE StudyGroups -----------------------------
(***************************************************************************)
(* One study group: studyGroup.service.js of apps/api over its repository. *)
(* Its owner, its members and their roles, and the two cached pages that   *)
(* show them.  A handler reads the group and the memberships it needs, one *)
(* call each, and writes what it then believes it may; no call in between  *)
(* is protected.                                                           *)
(***************************************************************************)
EXTENDS Integers

CONSTANTS
    Student, Visit,     \* people; requests in flight
    NoStudent

ASSUME GroupsAssumption == Student # {} /\ NoStudent \notin Student

VARIABLES
    owner,      \* study_groups: the group's owner, NoStudent while there is none
    open,       \* study_groups: FALSE when joining takes a code
    role,       \* group_memberships: the role of each, "none" without a row
    visit,      \* the requests in flight
    behind,     \* the counters of the pages that changed and were not bumped
    orphaned,   \* history: an overtaken request left the owner no membership
    past        \* history: the group was there once

groupVars == <<owner, open, role, visit, behind, orphaned, past>>

Roles == {"none", "MEMBER", "ADMIN"}
Operations == {"create", "update", "delete", "transfer", "join", "leave", "kick", "role"}
Away == [pc |-> "idle", op |-> "update", by |-> NoStudent, to |-> NoStudent,
         arg |-> "none", owes |-> {}, overtaken |-> FALSE]

GroupsInit ==
    /\ owner = NoStudent /\ open = TRUE
    /\ role = [s \in Student |-> "none"]
    /\ visit = [v \in Visit |-> Away]
    /\ behind = {} /\ orphaned = FALSE /\ past = FALSE

-----------------------------------------------------------------------------
Exists == owner # NoStudent
Member(s) == role[s] # "none"
IsAt(v, pc, op) == visit[v].pc = pc /\ visit[v].op = op
Leave(v) == visit' = [visit EXCEPT ![v] = Away]

\* After its write a request owes bumps, and those still before theirs have
\* been overtaken by it.
Owing(v, counters) ==
    visit' = [w \in Visit |->
                IF w = v THEN [Away EXCEPT !.pc = IF counters = {} THEN "idle" ELSE "bump",
                                           !.owes = counters]
                ELSE [visit[w] EXCEPT !.overtaken = @ \/ visit[w].pc = "write"]]

\* What the two pages show: the group with its count and its viewer's place in
\* it, stamped with both counters, and the members, stamped with one.
Group == <<owner, open>>
Members == role
Moved == (IF Exists /\ Group' # Group THEN {"content"} ELSE {}) \cup
         (IF Exists /\ Members' # Members THEN {"members"} ELSE {})

\* A request that has passed its checks, and now stands before its write.
Enter(v, op, by, to, arg) ==
    /\ visit[v].pc = "idle"
    /\ visit' = [visit EXCEPT ![v] = [Away EXCEPT !.pc = "write", !.op = op,
                                      !.by = by, !.to = to, !.arg = arg]]
    /\ UNCHANGED <<owner, open, role, behind, orphaned, past>>

\* Slip: the new owner is not looked up.
CheckTransferAnyone(v, by, to) ==
    /\ Exists /\ owner = by /\ to # by
    /\ Enter(v, "transfer", by, to, "none")

\* transferOwnership: by the owner, to somebody who is a member.
CheckTransfer(v, by, to) ==
    /\ Exists /\ owner = by /\ to # by
    /\ Member(to)
    /\ Enter(v, "transfer", by, to, "none")

\* joinGroup: a private group takes its code, which only some people have.
CheckJoin(v, by, knowsCode) ==
    /\ Exists /\ ~ Member(by)
    /\ open \/ knowsCode
    /\ Enter(v, "join", by, by, "none")

\* leaveGroup: not the owner.
CheckLeave(v, by) ==
    /\ Exists /\ owner # by /\ Member(by)
    /\ Enter(v, "leave", by, by, "none")

\* kickMember: by the owner or an admin, not the owner, and an admin only by
\* the owner.
CheckKick(v, by, to) ==
    /\ Exists /\ to # owner /\ Member(to)
    /\ \/ owner = by
       \/ role[by] = "ADMIN" /\ role[to] # "ADMIN"
    /\ Enter(v, "kick", by, to, "none")

\* setMemberRole: by the owner, not of the owner.
CheckRole(v, by, to, r) ==
    /\ Exists /\ owner = by /\ to # owner /\ Member(to)
    /\ r \in {"MEMBER", "ADMIN"}
    /\ Enter(v, "role", by, to, r)

\* updateGroup and regenerateJoinCode: whether a code is needed is the owner's
\* to say; an admin changes words only, which no page here tells apart.
CheckUpdate(v, by) ==
    /\ Exists /\ owner = by
    /\ Enter(v, "update", by, by, "none")

\* deleteGroup: by the owner.
CheckDelete(v, by) ==
    /\ Exists /\ owner = by
    /\ Enter(v, "delete", by, by, "none")

-----------------------------------------------------------------------------
\* createGroup: the group first, its owner's membership in a second call, and
\* no bump.
CreateGroup(v, by) ==
    /\ visit[v].pc = "idle" /\ ~ Exists /\ ~ past
    /\ owner' = by /\ open' \in BOOLEAN
    /\ past' = TRUE
    /\ visit' = [visit EXCEPT ![v] = [Away EXCEPT !.pc = "write", !.op = "create",
                                      !.by = by, !.to = by]]
    /\ UNCHANGED <<role, behind, orphaned>>

\* deleteMembership.  The person may own the group by now, if ownership was
\* passed on since the check: the group then has an owner who is no member.
RemoveMember(v, s) ==
    /\ role' = [role EXCEPT ![s] = "none"]
    /\ orphaned' = (orphaned \/ (s = owner /\ visit[v].overtaken))

\* createMembership, deleteMembership and setMembershipRole, each by its key.
\* createGroup bumps nothing: its group is taken to be nobody's yet to read.
WriteMembership(v) ==
    /\ visit[v].pc = "write"
    /\ LET s == visit[v].to IN
         /\ \/ /\ visit[v].op \in {"join", "create"} /\ Exists /\ ~ Member(s)
               /\ role' = [role EXCEPT ![s] = "MEMBER"]
               /\ orphaned' = (orphaned /\ s # owner)
            \/ visit[v].op \in {"leave", "kick"} /\ Member(s) /\ RemoveMember(v, s)
            \/ /\ visit[v].op = "role" /\ Member(s)
               /\ role' = [role EXCEPT ![s] = visit[v].arg]
               /\ UNCHANGED orphaned
    /\ UNCHANGED <<owner, open, past>>
    /\ IF visit[v].op = "create"
         THEN Owing(v, {}) /\ UNCHANGED behind
         ELSE Owing(v, {"members"}) /\ behind' = behind \cup Moved

\* transferOwnership's update, by the group's id alone: the new owner may have
\* left, and the old one may no longer own the group.
WriteOwner(v) ==
    /\ IsAt(v, "write", "transfer") /\ Exists
    /\ owner' = visit[v].to
    /\ orphaned' = (~ Member(visit[v].to) /\ visit[v].overtaken)
    /\ UNCHANGED <<open, role, past>>
    /\ behind' = behind \cup Moved
    /\ Owing(v, {"content"})

WriteUpdate(v) ==
    /\ IsAt(v, "write", "update") /\ Exists
    /\ open' \in BOOLEAN
    /\ UNCHANGED <<owner, role, orphaned, past>>
    /\ behind' = behind \cup Moved
    /\ Owing(v, {"content"})

\* deleteGroup's delete takes the memberships with it.
WriteDelete(v) ==
    /\ IsAt(v, "write", "delete") /\ Exists
    /\ owner' = NoStudent
    /\ role' = [s \in Student |-> "none"]
    /\ orphaned' = FALSE
    /\ UNCHANGED <<open, past>>
    /\ behind' = behind \cup Moved
    /\ Owing(v, {"content", "members"})

\* The row a request meant to write is not as it was: the database refuses, and
\* the request fails without a bump.
Refused(v) ==
    /\ visit[v].pc = "write"
    /\ \/ ~ Exists
       \/ visit[v].op \in {"join", "create"} /\ Member(visit[v].to)
       \/ visit[v].op \in {"leave", "kick", "role"} /\ ~ Member(visit[v].to)
    /\ Leave(v)
    /\ UNCHANGED <<owner, open, role, behind, orphaned, past>>

\* invalidateGroup.
BumpGroup(v) ==
    /\ visit[v].pc = "bump"
    /\ behind' = behind \ visit[v].owes
    /\ Leave(v)
    /\ UNCHANGED <<owner, open, role, orphaned, past>>

GroupsNext ==
    \E v \in Visit :
        \/ \E by \in Student :
             \/ CreateGroup(v, by) \/ CheckUpdate(v, by) \/ CheckDelete(v, by)
             \/ CheckLeave(v, by)
             \/ \E knowsCode \in BOOLEAN : CheckJoin(v, by, knowsCode)
             \/ \E to \in Student : \/ CheckTransfer(v, by, to) \/ CheckKick(v, by, to)
                                    \/ \E r \in Roles : CheckRole(v, by, to, r)
        \/ WriteMembership(v) \/ WriteOwner(v) \/ WriteUpdate(v) \/ WriteDelete(v)
        \/ Refused(v) \/ BumpGroup(v)

GroupsSpec == GroupsInit /\ [][GroupsNext]_groupVars

-----------------------------------------------------------------------------
\* Every variable keeps its type, and a group that is gone has no members.
GroupsTypeOK ==
    /\ owner \in Student \cup {NoStudent} /\ open \in BOOLEAN
    /\ role \in [Student -> Roles]
    /\ ~ Exists => \A s \in Student : ~ Member(s)
    /\ behind \subseteq {"content", "members"}

\* The owner is a member, unless the membership went while ownership was being
\* passed on, or the group is being created (transferOwnership, leaveGroup,
\* kickMember, createGroup).
OwnerIsMember ==
    Exists /\ ~ orphaned =>
        Member(owner) \/ \E v \in Visit : IsAt(v, "write", "create")

\* A page that changed has a request on its way to bump its counter, however
\* joins, departures, roles and transfers overlap (invalidateGroup).
GroupPagesAreBumped ==
    \A k \in behind : \E v \in Visit : visit[v].pc = "bump" /\ k \in visit[v].owes
=============================================================================
