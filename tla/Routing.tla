------------------------------- MODULE Routing -------------------------------
(***************************************************************************)
(* Who may approve: the group hierarchy, the walks over it that            *)
(* ApprovalRoutingService makes for a swap or a borrow, and the decisions  *)
(* that rest on them, while administrators change groups, edges, roles and *)
(* memberships.                                                            *)
(*                                                                         *)
(* A walk asks for the parents of one group at a time, each with a SELECT  *)
(* of its own, so it may cross a change of the edges.  What a decided      *)
(* request does to setups is in modules Swap and Borrow, which take the    *)
(* routed approvers as a constant.                                         *)
(***************************************************************************)
EXTENDS Naturals, Sequences

CONSTANTS
    Groups,      \* ids a row of the groups table may have
    NoGroup,     \* NULL in a group_id column
    Users,       \* accounts
    Setups,
    Sessions,    \* request sessions
    Staff,       \* users' roles and groups when the behaviour starts
    Chart,       \* the edges then
    Held,        \* the groups of the setups then
    Postings,    \* bound: what an administrator makes of a user
    NewEdges,    \* bound: the edges an administrator adds
    MaxChanges,  \* bound: changes of the organization
    MaxRequests  \* bound: requests ever created

RoleName == {"BOT", "USER", "LEAD", "MANAGER", "OWNER"}

Scope == {"SWAP", "BORROW", "BOTH"}

GroupHierarchyEdge == [parent : Groups, child : Groups, scope : Scope]

\* group is the primary group; also are the rows of user_groups; good is an
\* account that is APPROVED and active.
Member == [role : RoleName, group : Groups \union {NoGroup},
           also : SUBSET Groups, good : BOOLEAN]

ASSUME RoutingConstantsOK ==
    /\ NoGroup \notin Groups
    /\ Staff \in [Users -> Member]
    /\ Chart \subseteq GroupHierarchyEdge
    /\ Held \in [Setups -> Groups \union {NoGroup}]
    /\ Postings \subseteq Member
    /\ NewEdges \subseteq GroupHierarchyEdge
    /\ MaxChanges \in Nat
    /\ MaxRequests \in Nat

VARIABLES
    groups,    \* the groups table
    edges,     \* the group_hierarchy_edges table
    member,    \* role, group and standing of each user
    held,      \* setups.group_id
    requests,  \* swap_requests and borrow_requests, in order of insertion
    proc,      \* what each session has read and is about to write
    changes    \* history: how often the organization has changed

org == <<groups, edges, member, held>>
vars == <<org, requests, proc, changes>>

Idle == [pc |-> "idle"]

-----------------------------------------------------------------------------
(* Roles and groups of a user                                               *)

\* DEFAULT_ROLE_PERMISSIONS, as far as requests go.
SwapRequesters == RoleName \ {"BOT"}              \* swap:request
Approvers == {"LEAD", "MANAGER", "OWNER"}         \* swap:approve, borrow:approve
BORROW_REQUESTER_ROLES == {"LEAD", "MANAGER", "OWNER"}
LeadRoles == {"LEAD", "MANAGER"}
Universal(role) == role = "OWNER"

GroupsOf(u) == ({member[u].group} \ {NoGroup}) \union member[u].also

\* list_active_by_group_ids_and_roles: by the primary group.
Leads(G) ==
    {u \in Users : /\ member[u].good
                   /\ member[u].role \in LeadRoles
                   /\ member[u].group \in G}

-----------------------------------------------------------------------------
(* Near misses, used by the mutants of the project and by no action.        *)

\* The filter on the scope forgets to ask which of the two it is.
AnyScope(e, scope) == e.scope \in Scope

\* Only direct parents are looked at; a visited group is looked at again.
FirstLevel(seen, todo, c, more) == todo \ {c}
LooksAgain(seen, todo, c, more) == (todo \ {c}) \union more

\* SQLite without PRAGMA foreign_keys.
NotEnforced(g) == FALSE

\* has_members_or_setups without one of its two tests.
NoSetups(g) == \A x \in Setups : held[x] # g

\* The requester is one of those who are told that an approval is needed.
Everybody(kind, requester, found) == found

-----------------------------------------------------------------------------
(* GroupHierarchyRepository and ApprovalRoutingService                      *)

InScope(e, scope) == e.scope \in {scope, "BOTH"}

\* get_parent_group_ids
ParentIds(g, scope) ==
    {e.parent : e \in {f \in edges : f.child = g /\ InScope(f, scope)}}

\* get_child_group_ids
ChildIds(g, scope) ==
    {e.child : e \in {f \in edges : f.parent = g /\ InScope(f, scope)}}

\* ancestor_group_ids: c has been looked at, and its parents are more.
Frontier(seen, todo, c, more) == (todo \ {c}) \union (more \ seen)

\* resolve_borrow_approvers: the other groups of parent p.
Siblings(p) == ChildIds(p, "BORROW")

-----------------------------------------------------------------------------
(* Requests                                                                 *)

Kind == {"SWAP", "BORROW"}

Status == {"PENDING", "COMPLETED", "REJECTED", "RETURNED"}

\* source is the group of the setup when the request was made, target the group
\* of the requester; routed are the routed_approver_emails.  History: at, the
\* changes there had been when its creation began.
RequestRow == [kind : Kind, requester : Users, setup : Setups,
               source : Groups \union {NoGroup},
               target : Groups \union {NoGroup},
               routed : SUBSET Users, status : Status, at : Nat]

\* The group that has an active grant for the setup, if there is one.
Borrowers(x) ==
    {requests[i].target : i \in {j \in DOMAIN requests :
        /\ requests[j].kind = "BORROW"
        /\ requests[j].setup = x
        /\ requests[j].status = "COMPLETED"}}

Holders(x) ==
    IF Borrowers(x) # {} THEN Borrowers(x) ELSE {held[x]} \ {NoGroup}

\* _assert_has_setup_access
HasSetupAccess(u, x) ==
    \/ Universal(member[u].role)
    \/ Holders(x) = {}
    \/ Holders(x) \intersect GroupsOf(u) # {}

\* The approvers but for the requester of a borrow.
Routed(kind, requester, found) ==
    IF kind = "BORROW" THEN found \ {requester} ELSE found

\* Without approvers the flat permission is authoritative.
MayDecide(u, found) == found = {} \/ u \in found

-----------------------------------------------------------------------------

Init ==
    /\ groups = Groups
    /\ edges = Chart
    /\ member = Staff
    /\ held = Held
    /\ requests = <<>>
    /\ proc = [s \in Sessions |-> Idle]
    /\ changes = 0

Goes(s, next) == proc' = [proc EXCEPT ![s] = next]

-----------------------------------------------------------------------------
(* The organization                                                         *)

Changed ==
    /\ changes < MaxChanges
    /\ changes' = changes + 1
    /\ UNCHANGED requests

GroupCreate(g) ==
    /\ g \notin groups
    /\ groups' = groups \union {g}
    /\ Changed
    /\ UNCHANGED <<edges, member, held, proc>>

\* create_edge: no loop, no duplicate, both ends exist; a cycle is accepted.
EdgeCreate(e) ==
    /\ e.parent # e.child
    /\ {e.parent, e.child} \subseteq groups
    /\ e \notin edges
    /\ edges' = edges \union {e}
    /\ Changed
    /\ UNCHANGED <<groups, member, held, proc>>

EdgeDelete(e) ==
    /\ edges' = edges \ {e}
    /\ Changed
    /\ UNCHANGED <<groups, member, held, proc>>

\* UserService.update and its likes (module Accounts has their interleaving):
\* group_id is set to a group or left, the groups in user_groups replaced.
MemberUpdate(u, m) ==
    /\ m # member[u]
    /\ m.group \in groups \union {member[u].group}
    /\ m.also \subseteq groups
    /\ member' = [member EXCEPT ![u] = m]
    /\ Changed
    /\ UNCHANGED <<groups, edges, held, proc>>

\* The group of a setup, through SetupService.update.
SetupMove(x, g) ==
    /\ g \in groups \ {held[x]}
    /\ held' = [held EXCEPT ![x] = g]
    /\ Changed
    /\ UNCHANGED <<groups, edges, member, proc>>

\* has_members_or_setups, negated
Unassigned(g) ==
    /\ \A u \in Users : member[u].group # g
    /\ \A x \in Setups : held[x] # g

\* A row with a group column that is NOT NULL: of the edges or the borrows.
Referred(g) ==
    \/ \E e \in edges : g \in {e.parent, e.child}
    \/ \E i \in DOMAIN requests :
        /\ requests[i].kind = "BORROW"
        /\ g \in {requests[i].source, requests[i].target}

\* GroupService.delete tests ...
GroupDeleteRead(s) ==
    /\ proc[s] = Idle
    /\ \E g \in groups :
        /\ Unassigned(g)
        /\ Goes(s, [pc |-> "delete", group |-> g, at |-> changes])
    /\ UNCHANGED <<org, requests, changes>>

\* ... and deletes: the ORM sets group_id to NULL in the users and setups that
\* are in the group by now and removes its user_groups; it would do so with the
\* edges, whose columns are NOT NULL, and borrows have a foreign key: an error.
GroupDeleteCommit(s) ==
    LET g == proc[s].group
        Without(h) == IF h = g THEN NoGroup ELSE h IN
    /\ proc[s].pc = "delete"
    /\ g \in groups
    /\ ~Referred(g)
    /\ groups' = groups \ {g}
    /\ member' = [u \in Users |-> [member[u] EXCEPT !.group = Without(@),
                                                   !.also = @ \ {g}]]
    /\ held' = [x \in Setups |-> Without(held[x])]
    /\ Changed
    /\ Goes(s, Idle)
    /\ UNCHANGED edges

-----------------------------------------------------------------------------
(* A request is made or decided: first who may approve it is looked up.     *)

\* What a session keeps: op and its subject, the group from which the walk
\* starts, the groups seen and those still to look at, and what was found.
Work(op, kind, u, x, i, g) ==
    [pc |-> IF kind = "SWAP" THEN "walk" ELSE "parents",
     op |-> op, kind |-> kind, actor |-> u, setup |-> x, request |-> i,
     group |-> g, target |-> member[u].group,
     seen |-> {g} \ {NoGroup}, todo |-> {g} \ {NoGroup},
     found |-> {}, at |-> changes]

\* OWNER is asked no more.
Straight(w) == IF Universal(member[w.actor].role) THEN [w EXCEPT !.pc = "write"]
               ELSE w

\* SwapService.create: access to both setups.
SwapRead(s) ==
    /\ proc[s] = Idle
    /\ Len(requests) < MaxRequests
    /\ \E u \in Users, x \in Setups :
        /\ member[u].good
        /\ member[u].role \in SwapRequesters
        /\ HasSetupAccess(u, x)
        /\ \E y \in Setups \ {x} : HasSetupAccess(u, y)
        /\ Goes(s, Work("create", "SWAP", u, x, 0, held[x]))
    /\ UNCHANGED <<org, requests, changes>>

\* BorrowService.create: a setup of a lead's group, for the requester's group.
BorrowRead(s) ==
    /\ proc[s] = Idle
    /\ Len(requests) < MaxRequests
    /\ \E u, lead \in Users, x \in Setups :
        /\ member[u].good
        /\ member[u].role \in BORROW_REQUESTER_ROLES
        /\ member[u].group \notin {NoGroup, held[x]}
        /\ member[lead].good
        /\ member[lead].role \in LeadRoles
        /\ held[x] \in GroupsOf(lead)
        /\ \A i \in DOMAIN requests :
            requests[i].kind = "BORROW" /\ requests[i].setup = x =>
                requests[i].status \in {"REJECTED", "RETURNED"}
        /\ Goes(s, Work("create", "BORROW", u, x, 0, held[x]))
    /\ UNCHANGED <<org, requests, changes>>

\* approve and reject of either service.
DecideRead(s) ==
    /\ proc[s] = Idle
    /\ \E u \in Users, i \in DOMAIN requests, op \in {"approve", "reject"} :
        LET r == requests[i] IN
        /\ member[u].good
        /\ member[u].role \in Approvers
        /\ r.status = "PENDING"
        /\ r.kind = "BORROW" => u # r.requester
        /\ r.kind = "BORROW" /\ op = "approve" =>
              Borrowers(r.setup) = {} /\ held[r.setup] = r.source
        /\ Goes(s, Straight(Work(op, r.kind, u, r.setup, i,
                     IF r.kind = "SWAP" THEN held[r.setup] ELSE r.source)))
    /\ UNCHANGED <<org, requests, changes>>

\* return_borrow: by the requester, an owner, a lead of the borrowing group, or
\* else a lead to whom the source group is routed.
ReturnRead(s) ==
    /\ proc[s] = Idle
    /\ \E u \in Users, i \in DOMAIN requests :
        LET r == requests[i]
            w == Work("return", "BORROW", u, r.setup, i, r.source) IN
        /\ member[u].good
        /\ member[u].role \in Approvers
        /\ r.kind = "BORROW"
        /\ r.status = "COMPLETED"
        /\ IF \/ u = r.requester
              \/ Universal(member[u].role)
              \/ r.target \in GroupsOf(u)
           THEN Goes(s, [w EXCEPT !.pc = "write"])
           ELSE Goes(s, w)
    /\ UNCHANGED <<org, requests, changes>>

\* One turn of the loop of ancestor_group_ids.
WalkStep(s) ==
    /\ proc[s].pc = "walk"
    /\ \E c \in proc[s].todo :
        LET more == ParentIds(c, "SWAP") IN
        Goes(s, [proc[s] EXCEPT !.seen = @ \union more,
                                !.todo = Frontier(proc[s].seen, @, c, more)])
    /\ UNCHANGED <<org, requests, changes>>

\* resolve_borrow_approvers: the parents, then the children of each of them.
BorrowParents(s) ==
    /\ proc[s].pc = "parents"
    /\ LET P == ParentIds(proc[s].group, "BORROW") IN
       Goes(s, [proc[s] EXCEPT !.pc = "siblings", !.seen = @ \union P,
                               !.todo = P])
    /\ UNCHANGED <<org, requests, changes>>

BorrowSiblings(s) ==
    /\ proc[s].pc = "siblings"
    /\ \E p \in proc[s].todo :
        Goes(s, [proc[s] EXCEPT !.seen = @ \union Siblings(p),
                                !.todo = @ \ {p}])
    /\ UNCHANGED <<org, requests, changes>>

\* The users of the groups seen: a creation notes them, a decision and a return
\* are refused to whoever is not among them.
Resolve(s) ==
    LET w == proc[s]
        requester == IF w.op = "create" THEN w.actor
                     ELSE requests[w.request].requester
        found == IF w.op = "return" THEN Leads(w.seen)
                 ELSE Routed(w.kind, requester, Leads(w.seen))
    IN
    /\ w.pc \in {"walk", "siblings"}
    /\ w.todo = {}
    /\ IF \/ w.op = "create"
          \/ w.op = "return" /\ w.actor \in found
          \/ w.op \in {"approve", "reject"} /\ MayDecide(w.actor, found)
       THEN Goes(s, [w EXCEPT !.pc = "write", !.found = found])
       ELSE Goes(s, Idle)
    /\ UNCHANGED <<org, requests, changes>>

-----------------------------------------------------------------------------
(* Commits                                                                  *)

RequestCreate(s) ==
    LET w == proc[s] IN
    /\ w.pc = "write"
    /\ w.op = "create"
    /\ requests' = Append(requests,
         [kind |-> w.kind, requester |-> w.actor, setup |-> w.setup,
          source |-> w.group, target |-> w.target, routed |-> w.found,
          status |-> "PENDING", at |-> w.at])
    /\ w.kind = "BORROW" => {w.group, w.target} \subseteq groups
    /\ Goes(s, Idle)
    /\ UNCHANGED <<org, changes>>

Outcome(op) == CASE op = "approve" -> "COMPLETED"
                 [] op = "reject" -> "REJECTED"
                 [] op = "return" -> "RETURNED"

RequestDecide(s) ==
    LET w == proc[s] IN
    /\ w.pc = "write"
    /\ w.op # "create"
    /\ requests' = [requests EXCEPT ![w.request].status = Outcome(w.op)]
    /\ Goes(s, Idle)
    /\ UNCHANGED <<org, changes>>

\* An exception: nothing is written.
Abort(s) ==
    /\ proc[s] # Idle
    /\ Goes(s, Idle)
    /\ UNCHANGED <<org, requests, changes>>

-----------------------------------------------------------------------------

Walk(s) == WalkStep(s) \/ BorrowParents(s) \/ BorrowSiblings(s) \/ Resolve(s)

Serve(s) ==
    \/ GroupDeleteRead(s) \/ GroupDeleteCommit(s)
    \/ SwapRead(s) \/ BorrowRead(s) \/ DecideRead(s) \/ ReturnRead(s)
    \/ Walk(s)
    \/ RequestCreate(s) \/ RequestDecide(s)
    \/ Abort(s)

Administer ==
    \/ \E g \in Groups : GroupCreate(g)
    \/ \E e \in NewEdges : EdgeCreate(e)
    \/ \E e \in edges : EdgeDelete(e)
    \/ \E u \in Users, m \in Postings : MemberUpdate(u, m)
    \/ \E x \in Setups, g \in Groups : SetupMove(x, g)

Next == Administer \/ \E s \in Sessions : Serve(s)

Spec == Init /\ [][Next]_vars

\* A request that has begun to walk is not suspended for ever.
FairSpec == Spec /\ \A s \in Sessions : WF_vars(Walk(s))
=============================================================================
