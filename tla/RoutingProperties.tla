-------------------------- MODULE RoutingProperties --------------------------
(* What Routing has to satisfy.  The groups that the documents mean are     *)
(* defined here once more, by closure and without a walk.                   *)
EXTENDS Routing

-----------------------------------------------------------------------------

\* The edges that a scope can see.
Visible(scope) == {e \in edges : e.scope = scope \/ e.scope = "BOTH"}

Closed(S, scope) ==
    \A e \in Visible(scope) : e.child \in S => e.parent \in S

\* The ancestor closure: what is in every closed set of groups that has g.
Above(g, scope) ==
    {h \in Groups :
        \A S \in SUBSET Groups : g \in S /\ Closed(S, scope) => h \in S}

\* The group, its parents and all groups with one of these parents.
Around(g) ==
    {g} \union
    {h \in Groups : \E e \in Visible("BORROW") :
        /\ e.child = g
        /\ \/ h = e.parent
           \/ \E f \in Visible("BORROW") : f.parent = e.parent /\ f.child = h}

LeadOf(u, G) ==
    /\ member[u].good
    /\ member[u].role \in {"LEAD", "MANAGER"}
    /\ member[u].group \in G

SwapLeads(x) ==
    IF held[x] = NoGroup THEN {}
    ELSE {u \in Users : LeadOf(u, Above(held[x], "SWAP"))}

BorrowLeads(g, requester) ==
    {u \in Users \ {requester} : LeadOf(u, Around(g))}

\* u may decide on a request with this requester, as things are: one of the
\* leads meant, an owner, or anybody when there is no such lead.
Entitled(u, kind, requester, x, source) ==
    LET pool == IF kind = "SWAP" THEN SwapLeads(x)
                ELSE BorrowLeads(source, requester)
    IN /\ member[u].role = "OWNER" \/ pool = {} \/ u \in pool
       /\ kind = "BORROW" => u # requester

-----------------------------------------------------------------------------

WorkState == [pc : {"walk", "parents", "siblings", "write"},
          op : {"create", "approve", "reject", "return"}, kind : Kind,
          actor : Users, setup : Setups, request : Nat,
          group : Groups \union {NoGroup}, target : Groups \union {NoGroup},
          seen : SUBSET Groups, todo : SUBSET Groups,
          found : SUBSET Users, at : Nat]

\* Every variable has its type; edges, memberships, setups and borrows name
\* groups that are in the table (the foreign keys).
TypeOK ==
    /\ groups \subseteq Groups
    /\ edges \subseteq GroupHierarchyEdge
    /\ member \in [Users -> Member]
    /\ held \in [Setups -> Groups \union {NoGroup}]
    /\ requests \in Seq(RequestRow)
    /\ proc \in [Sessions -> {Idle} \union WorkState \union
                               [pc : {"delete"}, group : Groups, at : Nat]]
    /\ changes \in Nat
    /\ \A e \in edges : {e.parent, e.child} \subseteq groups
    /\ \A u \in Users :
        /\ member[u].group \in groups \union {NoGroup}
        /\ member[u].also \subseteq groups
    /\ \A x \in Setups : held[x] \in groups \union {NoGroup}
    /\ \A i \in DOMAIN requests :
        requests[i].kind = "BORROW" =>
            {requests[i].source, requests[i].target} \subseteq groups

\* A walk that no change of the organization has crossed ends with the ancestor
\* closure for a swap, along SWAP edges only, and for a borrow with the parents
\* and siblings, also when edges form a cycle (ancestor_group_ids,
\* resolve_borrow_approvers).
WalkIsClosure ==
    \A s \in Sessions :
        LET w == proc[s] IN
        w.pc \in {"walk", "siblings"} /\ w.todo = {} /\ w.at = changes =>
            w.seen = IF w.kind = "BORROW" THEN Around(w.group)
                     ELSE IF w.group = NoGroup THEN {}
                     ELSE Above(w.group, "SWAP")

\* Whoever was told that a request needs an approval may give it, as long as
\* nobody has changed the organization since.
RoutedMayDecide ==
    \A i \in DOMAIN requests :
        LET r == requests[i] IN
        r.at = changes =>
            \A u \in r.routed : Entitled(u, r.kind, r.requester, r.setup, r.source)

\* A request is approved or rejected only by who is entitled to at that moment,
\* or the organization has changed since the decision began.
DecidedByEntitled ==
    [][\A s \in Sessions :
         LET w == proc[s] IN
         /\ w.pc = "write" /\ w.op \in {"approve", "reject"}
         /\ requests' # requests /\ proc'[s] # w
         /\ w.at = changes
         => LET r == requests[w.request] IN
            Entitled(w.actor, r.kind, r.requester, r.setup, r.source)]_vars

\* "Cannot be deleted while users or setups are assigned to it": a user or setup
\* loses its group only when it was put there after the test.
DeletedWasEmpty ==
    [][\/ /\ \A u \in Users :
              member[u].group # NoGroup => member'[u].group # NoGroup
          /\ \A x \in Setups : held[x] # NoGroup => held'[x] # NoGroup
       \/ \E s \in Sessions : /\ proc[s].pc = "delete"
                              /\ proc'[s] # proc[s]
                              /\ proc[s].at # changes]_vars

\* Whatever edges there are and however they change meanwhile, a walk ends.
WalkEnds ==
    \A s \in Sessions :
        proc[s].pc \in {"walk", "parents", "siblings"} ~>
            proc[s].pc \notin {"walk", "parents", "siblings"}
=============================================================================
