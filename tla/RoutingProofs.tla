---------------------------- MODULE RoutingProofs ----------------------------
(***************************************************************************)
(* Theorems about Routing for every hierarchy, staff and number of         *)
(* sessions.  A walk that has not been crossed by a change is described by *)
(* Walked: what it has seen is above the group it started from, and the    *)
(* parents of what it has looked at have been seen.  When nothing is left  *)
(* to look at, the two make it the closure.                                *)
(***************************************************************************)
EXTENDS RoutingProperties, Tables

-----------------------------------------------------------------------------
(* The hierarchy.                                                          *)

EdgesTyped == edges \subseteq GroupHierarchyEdge

LEMMA ParentsVisible ==
    ASSUME EdgesTyped, NEW c, NEW scope
    PROVE  /\ ParentIds(c, scope) =
                {e.parent : e \in {f \in Visible(scope) : f.child = c}}
           /\ ChildIds(c, scope) =
                {e.child : e \in {f \in Visible(scope) : f.parent = c}}
           /\ ParentIds(c, scope) \in SUBSET Groups
           /\ ChildIds(c, scope) \in SUBSET Groups
<1>1. \A e \in edges : e.parent \in Groups /\ e.child \in Groups
  BY DEF EdgesTyped, GroupHierarchyEdge
<1> QED
  BY <1>1 DEF ParentIds, ChildIds, InScope, Visible

LEMMA AboveSelf ==
    ASSUME NEW g \in Groups, NEW scope
    PROVE  g \in Above(g, scope) /\ Above(g, scope) \in SUBSET Groups
BY DEF Above

LEMMA AboveParents ==
    ASSUME EdgesTyped, NEW g, NEW scope, NEW c \in Above(g, scope)
    PROVE  ParentIds(c, scope) \in SUBSET Above(g, scope)
<1> SUFFICES ASSUME NEW e \in Visible(scope), e.child = c
             PROVE  e.parent \in Above(g, scope)
  BY ParentsVisible
<1>1. e.parent \in Groups
  BY DEF EdgesTyped, GroupHierarchyEdge, Visible
<1>2. ASSUME NEW S \in SUBSET Groups, g \in S, Closed(S, scope)
      PROVE  e.parent \in S
  <2>1. c \in S
    BY <1>2 DEF Above
  <2> QED
    BY <1>2, <2>1 DEF Closed
<1> QED
  BY <1>1, <1>2 DEF Above

LEMMA AboveLeast ==
    ASSUME EdgesTyped, NEW g, NEW scope, NEW S \in SUBSET Groups, g \in S,
           \A c \in S : ParentIds(c, scope) \subseteq S
    PROVE  Above(g, scope) \subseteq S
<1>1. Closed(S, scope)
  BY ParentsVisible DEF Closed
<1> QED
  BY <1>1 DEF Above

\* Around has no walk in it; this is how the walk sees it.
LEMMA AroundIs ==
    ASSUME EdgesTyped, NEW g \in Groups
    PROVE  Around(g) = {g} \union ParentIds(g, "BORROW")
                       \union UNION {Siblings(p) : p \in ParentIds(g, "BORROW")}
<1> DEFINE P == ParentIds(g, "BORROW")
<1>1. \A h : h \in P <=> \E e \in Visible("BORROW") : e.child = g /\ h = e.parent
  BY ParentsVisible
<1>2. \A p, h : h \in Siblings(p) <=>
                    \E f \in Visible("BORROW") : f.parent = p /\ f.child = h
  BY ParentsVisible DEF Siblings
<1>3. P \subseteq Groups /\ \A p : Siblings(p) \subseteq Groups
  BY ParentsVisible DEF Siblings
<1> QED
  BY <1>1, <1>2, <1>3 DEF Around

-----------------------------------------------------------------------------
(* What the organization determines stays as it is while the organization  *)
(* does.                                                                   *)

LEMMA SameHierarchy ==
    ASSUME UNCHANGED edges
    PROVE  /\ \A g, scope : ParentIds(g, scope)' = ParentIds(g, scope)
           /\ \A g, scope : Above(g, scope)' = Above(g, scope)
           /\ \A g : Around(g)' = Around(g)
           /\ \A p : Siblings(p)' = Siblings(p)
<1>1. \A scope : Visible(scope)' = Visible(scope)
  BY DEF Visible
<1>2. \A S, scope : Closed(S, scope)' <=> Closed(S, scope)
  BY <1>1 DEF Closed
<1>3. \A g, scope : Above(g, scope)' = Above(g, scope)
  BY <1>2 DEF Above
<1>4. \A g : Around(g)' = Around(g)
  BY <1>1 DEF Around
<1>5. \A g, scope : ParentIds(g, scope)' = ParentIds(g, scope)
                    /\ ChildIds(g, scope)' = ChildIds(g, scope)
  BY DEF ParentIds, ChildIds
<1> QED
  BY <1>3, <1>4, <1>5 DEF Siblings

LEMMA SameEntitled ==
    ASSUME UNCHANGED org
    PROVE  \A u, kind, requester, x, source :
              Entitled(u, kind, requester, x, source)'
              <=> Entitled(u, kind, requester, x, source)
<1>1. \A u, G : LeadOf(u, G)' <=> LeadOf(u, G)
  BY DEF LeadOf, org
<1>2. \A x : SwapLeads(x)' = SwapLeads(x)
  BY <1>1, SameHierarchy DEF SwapLeads, org
<1>3. \A g, requester : BorrowLeads(g, requester)' = BorrowLeads(g, requester)
  BY <1>1, SameHierarchy DEF BorrowLeads, org
<1> QED
  BY <1>2, <1>3 DEF Entitled, org

-----------------------------------------------------------------------------
(* The inductive invariant.                                                *)

Walking == {"walk", "parents", "siblings", "write"}

\* The part of TypeOK that is about tables, and about one session.
TablesTyped ==
    /\ groups \subseteq Groups
    /\ EdgesTyped
    /\ member \in [Users -> Member]
    /\ held \in [Setups -> Groups \union {NoGroup}]
    /\ requests \in Seq(RequestRow)
    /\ changes \in Nat
    /\ \A e \in edges : {e.parent, e.child} \subseteq groups
    /\ \A u \in Users :
        /\ member[u].group \in groups \union {NoGroup}
        /\ member[u].also \subseteq groups
    /\ \A x \in Setups : held[x] \in groups \union {NoGroup}
    /\ \A i \in DOMAIN requests :
        requests[i].kind = "BORROW" =>
            {requests[i].source, requests[i].target} \subseteq groups

Typed(w) == w \in {Idle} \union WorkState \union
                  [pc : {"delete"}, group : Groups, at : Nat]

\* What a session has read was true when it read it, and it is true still if
\* nothing has changed since.
Past(w) == w.pc # "idle" => w.at <= changes

\* The request that a session is about.
About(w) ==
    w.pc \in Walking =>
        /\ w.kind = "BORROW" => w.group \in Groups
        /\ w.pc = "walk" => w.kind = "SWAP"
        /\ w.pc \in {"parents", "siblings"} => w.kind = "BORROW"
        /\ w.op # "create" =>
            /\ w.request \in DOMAIN requests
            /\ requests[w.request].kind = w.kind
            /\ requests[w.request].setup = w.setup
            /\ w.kind = "BORROW" => requests[w.request].source = w.group
            /\ w.kind = "BORROW" /\ w.op \in {"approve", "reject"} =>
                  w.actor # requests[w.request].requester

\* How far a walk has come that started from a group.
Climbed(w) ==
    /\ w.group \in w.seen
    /\ w.seen \subseteq Above(w.group, "SWAP")
    /\ w.todo \subseteq w.seen
    /\ \A c \in w.seen \ w.todo : ParentIds(c, "SWAP") \subseteq w.seen

SiblingsSeen(w) ==
    LET P == ParentIds(w.group, "BORROW") IN
    /\ w.todo \subseteq P
    /\ w.seen = {w.group} \union P \union UNION {Siblings(p) : p \in P \ w.todo}

Walked(w) ==
    /\ w.kind = "SWAP" => w.group = held[w.setup]
    /\ w.pc = "walk" => IF w.group = NoGroup THEN w.seen = {} /\ w.todo = {}
                        ELSE Climbed(w)
    /\ w.pc = "parents" => w.seen = {w.group}
    /\ w.pc = "siblings" => SiblingsSeen(w)

\* Whoever is about to be noted, or to decide, may decide.
Found(w) ==
    w.pc = "write" =>
        /\ w.op = "create" =>
            \A u \in w.found : Entitled(u, w.kind, w.actor, w.setup, w.group)
        /\ w.op \in {"approve", "reject"} =>
            LET r == requests[w.request] IN
            Entitled(w.actor, r.kind, r.requester, r.setup, r.source)

Fresh(w) ==
    /\ w.pc \in Walking /\ w.at = changes => Walked(w) /\ Found(w)
    /\ w.pc = "delete" /\ w.at = changes => Unassigned(w.group)

Sound(w) == Typed(w) /\ Past(w) /\ About(w) /\ Fresh(w)

RoutingInv ==
    /\ TablesTyped
    /\ proc = [s \in Sessions |-> proc[s]]
    /\ \A s \in Sessions : Sound(proc[s])
    /\ \A i \in DOMAIN requests : requests[i].at <= changes
    /\ RoutedMayDecide

LEMMA InvTyped == RoutingInv => TypeOK
<1> SUFFICES ASSUME RoutingInv PROVE TypeOK
  OBVIOUS
<1>1. proc \in [Sessions -> {Idle} \union WorkState \union
                             [pc : {"delete"}, group : Groups, at : Nat]]
  BY DEF RoutingInv, Sound, Typed
<1> QED
  BY <1>1 DEF RoutingInv, TypeOK, TablesTyped, EdgesTyped

-----------------------------------------------------------------------------
(* What knowledge survives.                                                *)

SameRequest(r, q) ==
    /\ r.kind = q.kind
    /\ r.requester = q.requester
    /\ r.setup = q.setup
    /\ r.source = q.source
    /\ r.target = q.target
    /\ r.routed = q.routed
    /\ r.at = q.at

RequestsKept ==
    /\ DOMAIN requests \subseteq DOMAIN requests'
    /\ \A i \in DOMAIN requests : SameRequest(requests'[i], requests[i])

LEMMA Kinds ==
    ASSUME NEW w, Typed(w)
    PROVE  /\ w.pc \in Walking => w \in WorkState
           /\ w.pc = "idle" <=> w = Idle
           /\ w.pc = "delete" => w \in [pc : {"delete"}, group : Groups, at : Nat]
           /\ w.pc \in Walking \union {"idle", "delete"}
           /\ w.pc # "idle" => w.at \in Nat
BY DEF Typed, Idle, WorkState, Walking

\* An organization that changes takes no session by surprise that looks at how
\* often it has.
LEMMA SoundOverChange ==
    ASSUME TablesTyped, changes' = changes + 1, UNCHANGED requests
    PROVE  \A w : Sound(w) => Sound(w)'
<1> SUFFICES ASSUME NEW w, Sound(w) PROVE Sound(w)'
  OBVIOUS
<1>1. Typed(w)'
  BY DEF Sound, Typed, Idle, WorkState
<1>2. changes \in Nat
  BY DEF TablesTyped
<1>3. w.pc # "idle" => w.at \in Nat /\ w.at <= changes /\ w.at # changes'
  BY <1>2, Kinds DEF Sound, Past
<1>4. Past(w)'
  BY <1>2, <1>3 DEF Past
<1>5. About(w)'
  BY DEF Sound, About
<1>6. Fresh(w)'
  BY <1>3 DEF Fresh, Walking
<1> QED
  BY <1>1, <1>4, <1>5, <1>6 DEF Sound

LEMMA SoundAtRest ==
    ASSUME UNCHANGED <<org, changes>>, RequestsKept
    PROVE  \A w : Sound(w) => Sound(w)'
<1> SUFFICES ASSUME NEW w, Sound(w) PROVE Sound(w)'
  OBVIOUS
<1>1. Typed(w)' /\ Past(w)'
  BY DEF Sound, Typed, Past, Idle, WorkState
<1>2. About(w) /\ Fresh(w)
  BY DEF Sound
<1>3. About(w)'
  BY <1>2 DEF About, RequestsKept, SameRequest
<1>4. held' = held /\ member' = member /\ edges' = edges
  BY DEF org
<1>5. Climbed(w)' <=> Climbed(w)
  BY <1>4, SameHierarchy DEF Climbed
<1>6. SiblingsSeen(w)' <=> SiblingsSeen(w)
  <2>1. {Siblings(p) : p \in ParentIds(w.group, "BORROW") \ w.todo}'
        = {Siblings(p) : p \in ParentIds(w.group, "BORROW") \ w.todo}
    BY <1>4, SameHierarchy
  <2> QED
    BY <1>4, <2>1, SameHierarchy DEF SiblingsSeen
<1>7. Walked(w)' <=> Walked(w)
  BY <1>4, <1>5, <1>6 DEF Walked
<1>8. w.pc \in Walking /\ Found(w) => Found(w)'
  <2> SUFFICES ASSUME w.pc = "write", Found(w) PROVE Found(w)'
    BY DEF Found
  <2>1. CASE w.op \in {"approve", "reject"}
    <3>1. w.request \in DOMAIN requests
      BY <1>2, <2>1 DEF About, Walking
    <3>2. SameRequest(requests'[w.request], requests[w.request])
      BY <3>1 DEF RequestsKept
    <3> QED
      BY <2>1, <3>2, SameEntitled DEF Found, SameRequest
  <2>2. CASE w.op \notin {"approve", "reject"}
    BY <2>2, SameEntitled DEF Found
  <2> QED
    BY <2>1, <2>2
<1>9. Unassigned(w.group)' <=> Unassigned(w.group)
  BY <1>4 DEF Unassigned
<1>10. Fresh(w)'
  BY <1>2, <1>7, <1>8, <1>9 DEF Fresh
<1> QED
  BY <1>1, <1>3, <1>10 DEF Sound

-----------------------------------------------------------------------------
(* Steps that change the organization.                                     *)

OrgStep ==
    /\ changes' = changes + 1
    /\ UNCHANGED requests
    /\ TablesTyped'

LEMMA MemberTyped ==
    ASSUME TablesTyped, NEW u \in Users
    PROVE  /\ member[u] \in Member
           /\ member[u].group \in Groups \union {NoGroup}
           /\ member[u].also \in SUBSET Groups
BY DEF TablesTyped, Member

LEMMA AdministerSteps ==
    ASSUME RoutingConstantsOK, TablesTyped, Administer
    PROVE  OrgStep /\ UNCHANGED proc
<1>1. ASSUME NEW g \in Groups, GroupCreate(g) PROVE OrgStep /\ UNCHANGED proc
  BY <1>1 DEF GroupCreate, Changed, OrgStep, TablesTyped, EdgesTyped
<1>2. ASSUME NEW e \in NewEdges, EdgeCreate(e) PROVE OrgStep /\ UNCHANGED proc
  <2>1. e \in GroupHierarchyEdge
    BY DEF RoutingConstantsOK
  <2> QED
    BY <1>2, <2>1 DEF EdgeCreate, Changed, OrgStep, TablesTyped, EdgesTyped
<1>3. ASSUME NEW e \in edges, EdgeDelete(e) PROVE OrgStep /\ UNCHANGED proc
  BY <1>3 DEF EdgeDelete, Changed, OrgStep, TablesTyped, EdgesTyped
<1>4. ASSUME NEW u \in Users, NEW m \in Postings, MemberUpdate(u, m)
      PROVE  OrgStep /\ UNCHANGED proc
  <2>1. m \in Member /\ m.group \in groups \union {NoGroup} /\ m.also \subseteq groups
    BY <1>4 DEF RoutingConstantsOK, MemberUpdate, TablesTyped
  <2>2. /\ member' \in [Users -> Member]
        /\ \A v \in Users : member'[v] = IF v = u THEN m ELSE member[v]
    BY <1>4, <2>1 DEF MemberUpdate, TablesTyped
  <2>3. \A v \in Users : /\ member'[v].group \in groups \union {NoGroup}
                         /\ member'[v].also \subseteq groups
    BY <2>1, <2>2 DEF TablesTyped
  <2> QED
    BY <1>4, <2>2, <2>3 DEF MemberUpdate, Changed, OrgStep, TablesTyped, EdgesTyped
<1>5. ASSUME NEW x \in Setups, NEW g \in Groups, SetupMove(x, g)
      PROVE  OrgStep /\ UNCHANGED proc
  BY <1>5 DEF SetupMove, Changed, OrgStep, TablesTyped, EdgesTyped
<1> QED
  BY <1>1, <1>2, <1>3, <1>4, <1>5 DEF Administer

LEMMA DeleteSteps ==
    ASSUME RoutingConstantsOK, TablesTyped, NEW s \in Sessions, GroupDeleteCommit(s)
    PROVE  OrgStep /\ Goes(s, Idle)
<1> DEFINE g == proc[s].group
<1>1. /\ groups' = groups \ {g}
      /\ ~Referred(g)
      /\ UNCHANGED <<edges, requests>>
      /\ changes' = changes + 1
      /\ Goes(s, Idle)
  BY DEF GroupDeleteCommit, Changed
<1>2. /\ held' \in [Setups -> Groups \union {NoGroup}]
      /\ \A x \in Setups : held'[x] = IF held[x] = g THEN NoGroup ELSE held[x]
  BY DEF GroupDeleteCommit, TablesTyped
<1>3. /\ member' \in [Users -> Member]
      /\ \A u \in Users :
            /\ member'[u].group = IF member[u].group = g THEN NoGroup
                                  ELSE member[u].group
            /\ member'[u].also = member[u].also \ {g}
  BY MemberTyped DEF GroupDeleteCommit, TablesTyped, Member
<1>4. \A e \in edges : {e.parent, e.child} \subseteq groups'
  BY <1>1 DEF Referred, TablesTyped
<1>5. \A i \in DOMAIN requests :
        requests[i].kind = "BORROW" =>
            {requests[i].source, requests[i].target} \subseteq groups'
  BY <1>1 DEF Referred, TablesTyped
<1>6. \A x \in Setups : held'[x] \in groups' \union {NoGroup}
  BY <1>1, <1>2 DEF TablesTyped
<1>7. \A u \in Users : /\ member'[u].group \in groups' \union {NoGroup}
                       /\ member'[u].also \subseteq groups'
  BY <1>1, <1>3 DEF TablesTyped
<1> QED
  BY <1>1, <1>2, <1>3, <1>4, <1>5, <1>6, <1>7
  DEF OrgStep, TablesTyped, EdgesTyped

-----------------------------------------------------------------------------
(* Steps of a session that leave the organization as it is.                *)

\* Session s knows n from now on, and may have written a request.
Knows(s, n) ==
    /\ Goes(s, n)
    /\ Sound(n)
    /\ UNCHANGED <<org, changes>>

Silent(s, n) == Knows(s, n) /\ UNCHANGED requests

LEMMA IdleSound == TablesTyped => Sound(Idle)
BY DEF Sound, Typed, Past, About, Fresh, Walking, Idle

LEMMA RowsTyped ==
    ASSUME TablesTyped
    PROVE  /\ Len(requests) \in Nat
           /\ DOMAIN requests = 1..Len(requests)
           /\ \A i \in DOMAIN requests :
                /\ requests[i] \in RequestRow
                /\ requests[i].kind = "BORROW" => requests[i].source \in Groups
<1>1. Len(requests) \in Nat /\ DOMAIN requests = 1..Len(requests)
  BY LenProperties DEF TablesTyped
<1>2. \A i \in DOMAIN requests : requests[i] \in RequestRow
  BY <1>1, ElementOfSeq DEF TablesTyped
<1> QED
  BY <1>1, <1>2 DEF TablesTyped

\* What a session starts a walk with.
LEMMA WorkSound ==
    ASSUME TablesTyped, NEW op \in {"create", "approve", "reject", "return"},
           NEW kind \in Kind, NEW u \in Users, NEW x \in Setups, NEW i \in Nat,
           NEW g \in Groups \union {NoGroup},
           kind = "BORROW" => g \in Groups,
           kind = "SWAP" => g = held[x],
           op # "create" => /\ i \in DOMAIN requests
                            /\ requests[i].kind = kind
                            /\ requests[i].setup = x
                            /\ kind = "BORROW" => requests[i].source = g,
           op \in {"approve", "reject"} /\ kind = "BORROW" =>
                u # requests[i].requester
    PROVE  /\ Work(op, kind, u, x, i, g) \in WorkState
           /\ Sound(Work(op, kind, u, x, i, g))
<1> DEFINE w == Work(op, kind, u, x, i, g)
<1>1. w \in WorkState
  BY MemberTyped DEF Work, WorkState, TablesTyped, Kind
<1>2. /\ w.pc = IF kind = "SWAP" THEN "walk" ELSE "parents"
      /\ w.op = op /\ w.kind = kind /\ w.actor = u /\ w.setup = x
      /\ w.request = i /\ w.group = g /\ w.at = changes
      /\ w.seen = {g} \ {NoGroup} /\ w.todo = {g} \ {NoGroup}
  BY DEF Work
<1> HIDE DEF w
<1>3. Typed(w) /\ Past(w)
  BY <1>1, <1>2 DEF Typed, Past, TablesTyped
<1>4. About(w)
  BY <1>2 DEF About, Walking, Kind
<1>5. ASSUME g # NoGroup, kind = "SWAP" PROVE Climbed(w)
  BY <1>2, <1>5, AboveSelf DEF Climbed
<1>6. kind = "BORROW" => w.seen = {w.group}
  BY <1>2, RoutingConstantsOK DEF RoutingConstantsOK
<1>7. Walked(w) /\ Found(w)
  BY <1>2, <1>5, <1>6 DEF Walked, Found, Kind
<1>8. Fresh(w)
  BY <1>2, <1>7 DEF Fresh
<1> QED
  BY <1>1, <1>3, <1>4, <1>8 DEF Sound, w

\* The requests begin.
LEMMA BeginSteps ==
    ASSUME RoutingConstantsOK, RoutingInv, NEW s \in Sessions,
           GroupDeleteRead(s) \/ SwapRead(s) \/ BorrowRead(s)
    PROVE  \E n : Silent(s, n)
<1> USE DEF RoutingInv
<1>1. CASE GroupDeleteRead(s)
  <2>1. PICK g \in groups : /\ Unassigned(g)
                            /\ Goes(s, [pc |-> "delete", group |-> g, at |-> changes])
    BY <1>1 DEF GroupDeleteRead
  <2> DEFINE n == [pc |-> "delete", group |-> g, at |-> changes]
  <2>2. Sound(n)
    BY <2>1 DEF Sound, Typed, Past, About, Fresh, Walking, TablesTyped
  <2> QED
    BY <1>1, <2>1, <2>2 DEF GroupDeleteRead, Silent, Knows
<1>2. CASE SwapRead(s)
  <2>1. PICK u \in Users, x \in Setups :
            Goes(s, Work("create", "SWAP", u, x, 0, held[x]))
    BY <1>2 DEF SwapRead
  <2>2. Sound(Work("create", "SWAP", u, x, 0, held[x]))
    BY WorkSound DEF TablesTyped, Kind
  <2> QED
    BY <1>2, <2>1, <2>2 DEF SwapRead, Silent, Knows
<1>3. CASE BorrowRead(s)
  <2>1. PICK u \in Users, lead \in Users, x \in Setups :
            /\ held[x] \in GroupsOf(lead)
            /\ Goes(s, Work("create", "BORROW", u, x, 0, held[x]))
    BY <1>3 DEF BorrowRead
  <2>2. held[x] \in Groups
    BY <2>1, MemberTyped DEF GroupsOf
  <2>3. Sound(Work("create", "BORROW", u, x, 0, held[x]))
    BY <2>2, WorkSound DEF Kind
  <2> QED
    BY <1>3, <2>1, <2>3 DEF BorrowRead, Silent, Knows
<1> QED
  BY <1>1, <1>2, <1>3

\* Going straight to the decision, for an owner or to return a borrow.
LEMMA StraightSound ==
    ASSUME NEW w \in WorkState, Sound(w), w.at = changes, w.op # "create",
           w.op \in {"approve", "reject"} => Universal(member[w.actor].role)
    PROVE  Sound([w EXCEPT !.pc = "write"])
<1> DEFINE n == [w EXCEPT !.pc = "write"]
<1>1. /\ n \in WorkState /\ n.pc = "write"
      /\ n.op = w.op /\ n.kind = w.kind /\ n.actor = w.actor
      /\ n.setup = w.setup /\ n.request = w.request /\ n.group = w.group
      /\ n.at = w.at /\ n.found = w.found
  BY DEF WorkState
<1> HIDE DEF n
<1>2. w.pc \in Walking /\ w.pc # "idle"
  BY DEF WorkState, Walking
<1>3. About(w) /\ Past(w) /\ Walked(w)
  BY <1>2 DEF Sound, Fresh
<1>4. Typed(n) /\ Past(n) /\ About(n)
  BY <1>1, <1>2, <1>3 DEF Typed, Past, About
<1>5. Walked(n)
  BY <1>1, <1>3 DEF Walked
<1>6. Found(n)
  BY <1>1, <1>2, <1>3 DEF Found, Entitled, Universal, About
<1> QED
  BY <1>1, <1>4, <1>5, <1>6 DEF Sound, Fresh, n

LEMMA DecideSteps ==
    ASSUME RoutingConstantsOK, RoutingInv, NEW s \in Sessions,
           DecideRead(s) \/ ReturnRead(s)
    PROVE  \E n : Silent(s, n)
<1> USE DEF RoutingInv
<1>1. CASE DecideRead(s)
  <2>1. PICK u \in Users, i \in DOMAIN requests, op \in {"approve", "reject"} :
            /\ requests[i].kind = "BORROW" => u # requests[i].requester
            /\ Goes(s, Straight(Work(op, requests[i].kind, u, requests[i].setup, i,
                         IF requests[i].kind = "SWAP" THEN held[requests[i].setup]
                         ELSE requests[i].source)))
    BY <1>1 DEF DecideRead
  <2> DEFINE r == requests[i]
             g == IF r.kind = "SWAP" THEN held[r.setup] ELSE r.source
             w == Work(op, r.kind, u, r.setup, i, g)
  <2>2. /\ i \in Nat /\ r.kind \in Kind /\ r.setup \in Setups
        /\ r.source \in Groups \union {NoGroup}
        /\ r.kind = "BORROW" => r.source \in Groups
    BY RowsTyped DEF RequestRow
  <2>3. g \in Groups \union {NoGroup} /\ (r.kind = "BORROW" => g \in Groups)
    BY <2>2 DEF TablesTyped
  <2>4. w \in WorkState /\ Sound(w)
    BY <2>1, <2>2, <2>3, WorkSound DEF Kind
  <2>5. w.at = changes /\ w.op = op /\ w.actor = u
    BY DEF Work
  <2> HIDE DEF w
  <2>6. Sound(Straight(w))
    BY <2>4, <2>5, StraightSound DEF Straight
  <2> QED
    BY <1>1, <2>1, <2>6 DEF DecideRead, Silent, Knows, w
<1>2. CASE ReturnRead(s)
  <2>1. PICK u \in Users, i \in DOMAIN requests :
            LET w == Work("return", "BORROW", u, requests[i].setup, i,
                          requests[i].source) IN
            /\ requests[i].kind = "BORROW"
            /\ Goes(s, w) \/ Goes(s, [w EXCEPT !.pc = "write"])
    BY <1>2 DEF ReturnRead
  <2> DEFINE w == Work("return", "BORROW", u, requests[i].setup, i,
                       requests[i].source)
  <2>2. /\ i \in Nat /\ requests[i].setup \in Setups
        /\ requests[i].source \in Groups
    BY <2>1, RowsTyped DEF RequestRow
  <2>3. w \in WorkState /\ Sound(w)
    BY <2>1, <2>2, WorkSound DEF Kind
  <2>4. w.at = changes /\ w.op = "return"
    BY DEF Work
  <2> HIDE DEF w
  <2>5. Sound([w EXCEPT !.pc = "write"])
    BY <2>3, <2>4, StraightSound
  <2> QED
    BY <1>2, <2>1, <2>3, <2>5 DEF ReturnRead, Silent, Knows, w
<1> QED
  BY <1>1, <1>2

-----------------------------------------------------------------------------
(* The walks.                                                              *)

\* A turn of the loop keeps what Climbed says.
LEMMA ClimbStep ==
    ASSUME TablesTyped, NEW w \in WorkState, w.group \in Groups, Climbed(w),
           NEW c \in w.todo, NEW n,
           n.group = w.group,
           n.seen = w.seen \union ParentIds(c, "SWAP"),
           n.todo = Frontier(w.seen, w.todo, c, ParentIds(c, "SWAP"))
    PROVE  Climbed(n)
<1> DEFINE more == ParentIds(c, "SWAP")
<1>1. n.group \in n.seen
  BY DEF Climbed
<1>2. more \subseteq Above(w.group, "SWAP")
  BY AboveParents DEF Climbed, TablesTyped
<1>3. n.seen \subseteq Above(n.group, "SWAP")
  BY <1>2 DEF Climbed
<1>4. n.todo \subseteq n.seen
  BY DEF Climbed, Frontier
<1>5. \A d \in n.seen \ n.todo : d = c \/ d \in w.seen \ w.todo
  BY DEF Frontier
<1>6. \A d \in n.seen \ n.todo : ParentIds(d, "SWAP") \subseteq n.seen
  BY <1>5 DEF Climbed
<1> QED
  BY <1>1, <1>3, <1>4, <1>6 DEF Climbed

LEMMA WalkSteps ==
    ASSUME RoutingInv, NEW s \in Sessions, WalkStep(s)
    PROVE  \E n : Silent(s, n)
<1> DEFINE w == proc[s]
<1>1. w.pc = "walk" /\ w \in WorkState /\ Sound(w)
  BY Kinds DEF RoutingInv, WalkStep, Sound, Walking
<1>2. PICK c \in w.todo :
        Goes(s, [w EXCEPT !.seen = @ \union ParentIds(c, "SWAP"),
                          !.todo = Frontier(w.seen, @, c, ParentIds(c, "SWAP"))])
  BY DEF WalkStep
<1> DEFINE n == [w EXCEPT !.seen = @ \union ParentIds(c, "SWAP"),
                          !.todo = Frontier(w.seen, @, c, ParentIds(c, "SWAP"))]
<1>3. ParentIds(c, "SWAP") \in SUBSET Groups
  BY ParentsVisible DEF RoutingInv, TablesTyped
<1>4. /\ n \in WorkState /\ n.pc = w.pc
      /\ n.op = w.op /\ n.kind = w.kind /\ n.actor = w.actor
      /\ n.setup = w.setup /\ n.request = w.request /\ n.group = w.group
      /\ n.at = w.at /\ n.found = w.found
      /\ n.seen = w.seen \union ParentIds(c, "SWAP")
      /\ n.todo = Frontier(w.seen, w.todo, c, ParentIds(c, "SWAP"))
  BY <1>1, <1>3 DEF WorkState, Frontier
<1>5. UNCHANGED <<org, requests, changes>>
  BY DEF WalkStep
<1> HIDE DEF n, w
<1>6. Typed(n) /\ Past(n) /\ About(n)
  BY <1>1, <1>4 DEF Typed, Sound, Past, About
<1>7. ASSUME w.at = changes PROVE Walked(n) /\ Found(n)
  <2>1. Walked(w)
    BY <1>1, <1>7 DEF Sound, Fresh, Walking
  <2>2. CASE w.group = NoGroup
    <3>1. w.seen = {} /\ w.todo = {}
      BY <1>1, <1>2, <2>1, <2>2 DEF Walked
    <3> QED
      BY <1>2, <3>1
  <2>3. CASE w.group # NoGroup
    <3>1. Climbed(w) /\ w.group \in Groups
      BY <1>1, <2>1, <2>3 DEF Walked, WorkState
    <3>2. Climbed(n)
      BY <1>1, <1>2, <1>4, <3>1, ClimbStep DEF RoutingInv
    <3> QED
      BY <1>1, <1>4, <2>1, <2>3, <3>2 DEF Walked, Found
  <2> QED
    BY <2>2, <2>3
<1>8. Sound(n)
  BY <1>1, <1>4, <1>6, <1>7 DEF Sound, Fresh
<1> QED
  BY <1>2, <1>5, <1>8 DEF Silent, Knows, n, w

LEMMA BorrowSteps ==
    ASSUME RoutingInv, NEW s \in Sessions, BorrowParents(s) \/ BorrowSiblings(s)
    PROVE  \E n : Silent(s, n)
<1> DEFINE w == proc[s]
<1>1. /\ w.pc \in {"parents", "siblings"}
      /\ w \in WorkState /\ Sound(w)
      /\ w.kind = "BORROW" /\ w.group \in Groups
  BY Kinds DEF RoutingInv, BorrowParents, BorrowSiblings, Sound, Walking, About
<1>2. UNCHANGED <<org, requests, changes>>
  BY DEF BorrowParents, BorrowSiblings
<1>3. \A p : ParentIds(p, "BORROW") \in SUBSET Groups /\ Siblings(p) \in SUBSET Groups
  BY ParentsVisible DEF RoutingInv, TablesTyped, Siblings
<1>4. ASSUME NEW n \in WorkState,
             n.op = w.op, n.kind = w.kind, n.actor = w.actor, n.setup = w.setup,
             n.request = w.request, n.group = w.group, n.at = w.at,
             n.pc = "siblings",
             w.at = changes => SiblingsSeen(n),
             Goes(s, n)
      PROVE  \E m : Silent(s, m)
  <2> HIDE DEF w
  <2>1. Typed(n) /\ Past(n) /\ About(n)
    BY <1>1, <1>4 DEF Typed, Sound, Past, About, Walking
  <2>2. Fresh(n)
    BY <1>1, <1>4 DEF Fresh, Walked, Found
  <2>3. Sound(n)
    BY <2>1, <2>2 DEF Sound
  <2> QED
    BY <1>2, <1>4, <2>3 DEF Silent, Knows
<1>5. CASE BorrowParents(s)
  <2> DEFINE P == ParentIds(w.group, "BORROW")
             n == [w EXCEPT !.pc = "siblings", !.seen = @ \union P, !.todo = P]
  <2>1. w.pc = "parents" /\ Goes(s, n)
    BY <1>5 DEF BorrowParents
  <2>2. P \in SUBSET Groups
    BY <1>3
  <2>3. /\ n \in WorkState
        /\ n.op = w.op /\ n.kind = w.kind /\ n.actor = w.actor
        /\ n.setup = w.setup /\ n.request = w.request /\ n.group = w.group
        /\ n.at = w.at /\ n.pc = "siblings"
        /\ n.seen = w.seen \union P /\ n.todo = P
    BY <1>1, <2>2 DEF WorkState
  <2> HIDE DEF n
  <2>4. ASSUME w.at = changes PROVE SiblingsSeen(n)
    <3>1. w.seen = {w.group}
      BY <1>1, <2>1, <2>4 DEF Sound, Fresh, Walked, Walking
    <3> QED
      BY <2>3, <3>1 DEF SiblingsSeen
  <2> QED
    BY <1>4, <2>1, <2>3, <2>4
<1>6. CASE BorrowSiblings(s)
  <2>1. PICK p \in w.todo :
            Goes(s, [w EXCEPT !.seen = @ \union Siblings(p), !.todo = @ \ {p}])
    BY <1>6 DEF BorrowSiblings
  <2> DEFINE n == [w EXCEPT !.seen = @ \union Siblings(p), !.todo = @ \ {p}]
             P == ParentIds(w.group, "BORROW")
  <2>2. w.pc = "siblings"
    BY <1>6 DEF BorrowSiblings
  <2>3. /\ n \in WorkState
        /\ n.op = w.op /\ n.kind = w.kind /\ n.actor = w.actor
        /\ n.setup = w.setup /\ n.request = w.request /\ n.group = w.group
        /\ n.at = w.at /\ n.pc = "siblings"
        /\ n.seen = w.seen \union Siblings(p) /\ n.todo = w.todo \ {p}
    BY <1>1, <1>3, <2>2 DEF WorkState
  <2> HIDE DEF n
  <2>4. ASSUME w.at = changes PROVE SiblingsSeen(n)
    <3>1. SiblingsSeen(w)
      BY <1>1, <2>2, <2>4 DEF Sound, Fresh, Walked, Walking
    <3>2. w.todo \subseteq P /\ p \in P
      BY <2>1, <3>1 DEF SiblingsSeen
    <3>3. P \ n.todo = (P \ w.todo) \union {p}
      BY <2>3, <3>2
    <3>4. UNION {Siblings(q) : q \in P \ n.todo}
          = (UNION {Siblings(q) : q \in P \ w.todo}) \union Siblings(p)
      BY <3>3
    <3>5. w.seen = {w.group} \union P \union UNION {Siblings(q) : q \in P \ w.todo}
      BY <3>1 DEF SiblingsSeen
    <3>6. n.seen = {n.group} \union P \union UNION {Siblings(q) : q \in P \ n.todo}
      BY <2>3, <3>4, <3>5
    <3>7. n.todo \subseteq P
      BY <2>3, <3>2
    <3> QED
      BY <2>3, <3>6, <3>7 DEF SiblingsSeen
  <2> QED
    BY <1>4, <2>1, <2>3, <2>4 DEF n
<1> QED
  BY <1>5, <1>6

\* What a walk has found when it is over.
LEMMA WalkOver ==
    ASSUME TablesTyped, NEW w \in WorkState, Sound(w), w.at = changes,
           w.pc \in {"walk", "siblings"}, w.todo = {}
    PROVE  w.seen = IF w.kind = "BORROW" THEN Around(w.group)
                    ELSE IF w.group = NoGroup THEN {}
                    ELSE Above(w.group, "SWAP")
<1>1. Walked(w) /\ About(w)
  BY DEF Sound, Fresh, Walking
<1>2. CASE w.pc = "siblings"
  <2>1. w.kind = "BORROW" /\ w.group \in Groups /\ SiblingsSeen(w)
    BY <1>1, <1>2 DEF Walked, About, Walking
  <2>2. ParentIds(w.group, "BORROW") \ w.todo = ParentIds(w.group, "BORROW")
    OBVIOUS
  <2> QED
    BY <2>1, <2>2, AroundIs DEF SiblingsSeen, TablesTyped
<1>3. CASE w.pc = "walk" /\ w.group # NoGroup
  <2>1. w.kind = "SWAP" /\ Climbed(w)
    BY <1>1, <1>3 DEF Walked, About, Walking
  <2>2. w.seen \in SUBSET Groups
    BY DEF WorkState
  <2>3. Above(w.group, "SWAP") \subseteq w.seen
    BY <2>1, <2>2, AboveLeast DEF Climbed, TablesTyped
  <2> QED
    BY <1>3, <2>1, <2>3 DEF Climbed
<1>4. CASE w.pc = "walk" /\ w.group = NoGroup
  BY <1>1, <1>4 DEF Walked, About, Walking
<1> QED
  BY <1>2, <1>3, <1>4

LEMMA LeadsAre ==
    ASSUME NEW G
    PROVE  Leads(G) = {u \in Users : LeadOf(u, G)}
BY DEF Leads, LeadOf, LeadRoles

\* Those found are those meant.
LEMMA FoundAreMeant ==
    ASSUME RoutingConstantsOK, TablesTyped, NEW w \in WorkState, Sound(w),
           w.at = changes, w.pc \in {"walk", "siblings"}, w.todo = {},
           NEW requester \in Users
    PROVE  Routed(w.kind, requester, Leads(w.seen))
           = IF w.kind = "SWAP" THEN SwapLeads(w.setup)
             ELSE BorrowLeads(w.group, requester)
<1>1. w.kind \in {"SWAP", "BORROW"}
  BY DEF WorkState, Kind
<1>2. CASE w.kind = "SWAP"
  <2>1. w.group = held[w.setup]
    BY <1>2 DEF Sound, Fresh, Walking, Walked
  <2>2. w.group = NoGroup => Leads(w.seen) = {}
    <3> SUFFICES ASSUME w.group = NoGroup PROVE Leads(w.seen) = {}
      OBVIOUS
    <3>1. w.seen = {}
      BY <1>2, WalkOver
    <3> QED
      BY <3>1 DEF Leads
  <2>3. w.group # NoGroup => w.seen = Above(w.group, "SWAP")
    BY <1>2, WalkOver
  <2>4. CASE w.group = NoGroup
    BY <1>2, <2>1, <2>2, <2>4 DEF Routed, SwapLeads
  <2>5. CASE w.group # NoGroup
    BY <1>2, <2>1, <2>3, <2>5, LeadsAre DEF Routed, SwapLeads
  <2> QED
    BY <2>4, <2>5
<1>3. CASE w.kind = "BORROW"
  <2>1. w.seen = Around(w.group)
    BY <1>3, WalkOver
  <2>2. Leads(w.seen) \ {requester}
        = {u \in Users \ {requester} : LeadOf(u, Around(w.group))}
    BY <2>1, LeadsAre
  <2> QED
    BY <1>3, <2>2 DEF Routed, BorrowLeads
<1> QED
  BY <1>1, <1>2, <1>3

LEMMA ResolveSteps ==
    ASSUME RoutingConstantsOK, RoutingInv, NEW s \in Sessions, Resolve(s)
    PROVE  \E n : Silent(s, n)
<1> DEFINE w == proc[s]
           requester == IF w.op = "create" THEN w.actor
                        ELSE requests[w.request].requester
           found == IF w.op = "return" THEN Leads(w.seen)
                    ELSE Routed(w.kind, requester, Leads(w.seen))
           n == [w EXCEPT !.pc = "write", !.found = found]
<1>1. /\ w.pc \in {"walk", "siblings"} /\ w.todo = {}
      /\ w \in WorkState /\ Sound(w)
  BY Kinds DEF RoutingInv, Resolve, Sound, Walking
<1>2. UNCHANGED <<org, requests, changes>>
  BY DEF Resolve
<1>3. \/ Goes(s, Idle)
      \/ /\ w.op \in {"approve", "reject"} => MayDecide(w.actor, found)
         /\ Goes(s, n)
  BY DEF Resolve
<1>4. requester \in Users
  BY <1>1, RowsTyped DEF RoutingInv, Sound, About, Walking, WorkState, RequestRow
<1>5. found \in SUBSET Users
  BY DEF Leads, Routed
<1>6. /\ n \in WorkState /\ n.pc = "write"
      /\ n.op = w.op /\ n.kind = w.kind /\ n.actor = w.actor
      /\ n.setup = w.setup /\ n.request = w.request /\ n.group = w.group
      /\ n.at = w.at /\ n.found = found
  BY <1>1, <1>5 DEF WorkState
<1>7. w.op # "return" => found = Routed(w.kind, requester, Leads(w.seen))
  OBVIOUS
<1>8. /\ w.op = "create" => requester = w.actor
      /\ w.op # "create" => requester = requests[w.request].requester
  OBVIOUS
<1> HIDE DEF n, found, requester
<1>9. Typed(n) /\ Past(n) /\ About(n)
  BY <1>1, <1>6 DEF Typed, Sound, Past, About, Walking
<1>10. ASSUME w.at = changes, w.op \in {"approve", "reject"} => MayDecide(w.actor, found)
       PROVE  Walked(n) /\ Found(n)
  <2>1. Walked(w) /\ About(w)
    BY <1>1, <1>10 DEF Sound, Fresh, Walking
  <2>2. Walked(n)
    BY <1>6, <2>1 DEF Walked
  <2>3. w.op # "return" => found = IF w.kind = "SWAP" THEN SwapLeads(w.setup)
                                   ELSE BorrowLeads(w.group, requester)
    BY <1>1, <1>4, <1>7, <1>10, FoundAreMeant DEF RoutingInv
  <2>4. CASE w.op = "create"
    <3>1. \A u \in found : Entitled(u, w.kind, w.actor, w.setup, w.group)
      BY <1>8, <2>3, <2>4 DEF Entitled, BorrowLeads
    <3> QED
      BY <1>6, <2>2, <2>4, <3>1 DEF Found
  <2>5. CASE w.op \in {"approve", "reject"}
    <3> DEFINE r == requests[w.request]
    <3>1. /\ r.kind = w.kind /\ r.setup = w.setup
          /\ w.kind = "BORROW" => r.source = w.group /\ w.actor # r.requester
          /\ w.kind \in {"SWAP", "BORROW"}
          /\ r.requester = requester
      BY <1>1, <1>8, <2>1, <2>5 DEF About, Walking, WorkState, Kind
    <3>2. found = {} \/ w.actor \in found
      BY <1>10, <2>5 DEF MayDecide
    <3>3. Entitled(w.actor, r.kind, r.requester, r.setup, r.source)
      BY <2>3, <2>5, <3>1, <3>2 DEF Entitled
    <3> QED
      BY <1>6, <2>2, <2>5, <3>3 DEF Found
  <2>6. CASE w.op \notin {"create", "approve", "reject"}
    BY <1>6, <2>2, <2>6 DEF Found
  <2> QED
    BY <2>4, <2>5, <2>6
<1>11. (w.op \in {"approve", "reject"} => MayDecide(w.actor, found)) => Sound(n)
  BY <1>6, <1>9, <1>10 DEF Sound, Fresh
<1>12. Sound(Idle)
  BY IdleSound DEF RoutingInv
<1> HIDE DEF w
<1> QED
  BY <1>2, <1>3, <1>11, <1>12 DEF Silent, Knows

\* One session has written a request: it has inserted one to which the leads
\* meant are routed, or changed the status of one.
Writes(s) ==
    /\ Knows(s, Idle)
    /\ TablesTyped'
    /\ RequestsKept
    /\ \A i \in DOMAIN requests' \ DOMAIN requests :
        LET r == requests'[i] IN
        /\ r.at <= changes
        /\ r.at = changes =>
            \A u \in r.routed : Entitled(u, r.kind, r.requester, r.setup, r.source)

LEMMA CreateSteps ==
    ASSUME RoutingInv, NEW s \in Sessions, RequestCreate(s)
    PROVE  Writes(s)
<1> DEFINE w == proc[s]
           row == [kind |-> w.kind, requester |-> w.actor, setup |-> w.setup,
                   source |-> w.group, target |-> w.target, routed |-> w.found,
                   status |-> "PENDING", at |-> w.at]
<1>1. /\ w.pc = "write" /\ w.op = "create"
      /\ requests' = Append(requests, row)
      /\ w.kind = "BORROW" => {w.group, w.target} \subseteq groups
      /\ Goes(s, Idle)
      /\ UNCHANGED <<org, changes>>
  BY DEF RequestCreate
<1>2. w \in WorkState /\ Sound(w)
  BY <1>1, Kinds DEF RoutingInv, Sound, Walking
<1>3. row \in RequestRow
  BY <1>2 DEF WorkState, RequestRow, Status
<1>4. /\ row.kind = w.kind /\ row.requester = w.actor /\ row.setup = w.setup
      /\ row.source = w.group /\ row.target = w.target /\ row.routed = w.found
      /\ row.at = w.at
  OBVIOUS
<1> HIDE DEF w, row
<1>5. requests \in Seq(RequestRow) /\ DOMAIN requests = 1..Len(requests)
      /\ Len(requests) \in Nat
  BY RowsTyped DEF RoutingInv, TablesTyped
<1>6. /\ requests' \in Seq(RequestRow)
      /\ DOMAIN requests' = 1..(Len(requests) + 1)
      /\ \A i \in 1..Len(requests) : requests'[i] = requests[i]
      /\ requests'[Len(requests) + 1] = row
  BY <1>1, <1>3, <1>5, AppendRow
<1>7. RequestsKept
  BY <1>5, <1>6 DEF RequestsKept, SameRequest
<1>8. \A i \in DOMAIN requests' : i \in DOMAIN requests \/ requests'[i] = row
  BY <1>5, <1>6
<1>9. \A i \in DOMAIN requests' :
        requests'[i].kind = "BORROW" =>
            {requests'[i].source, requests'[i].target} \subseteq groups
  BY <1>1, <1>4, <1>5, <1>6, <1>8 DEF RoutingInv, TablesTyped
<1>10. TablesTyped'
  BY <1>1, <1>6, <1>9 DEF RoutingInv, TablesTyped, EdgesTyped, org
<1>11. /\ row.at <= changes
       /\ row.at = changes => \A u \in row.routed :
            Entitled(u, row.kind, row.requester, row.setup, row.source)
  BY <1>1, <1>2, <1>4 DEF Sound, Past, Fresh, Found, Walking
<1>12. Knows(s, Idle)
  BY <1>1, IdleSound DEF Knows, RoutingInv
<1> QED
  BY <1>7, <1>8, <1>10, <1>11, <1>12 DEF Writes

LEMMA CommitSteps ==
    ASSUME RoutingInv, NEW s \in Sessions, RequestDecide(s)
    PROVE  Writes(s)
<1> DEFINE w == proc[s]
           i == w.request
           row == [requests[i] EXCEPT !.status = Outcome(w.op)]
<1>1. /\ w.pc = "write" /\ w.op # "create"
      /\ requests' = [requests EXCEPT ![i] = row]
      /\ Goes(s, Idle)
      /\ UNCHANGED <<org, changes>>
  BY DEF RequestDecide
<1>2. w \in WorkState /\ Sound(w)
  BY <1>1, Kinds DEF RoutingInv, Sound, Walking
<1>3. i \in DOMAIN requests
  BY <1>1, <1>2 DEF Sound, About, Walking
<1>4. Outcome(w.op) \in Status
  BY <1>1, <1>2 DEF Outcome, Status, WorkState
<1>5. requests[i] \in RequestRow /\ Len(requests) \in Nat
      /\ DOMAIN requests = 1..Len(requests) /\ requests \in Seq(RequestRow)
  BY <1>3, RowsTyped DEF RoutingInv, TablesTyped
<1>6. row \in RequestRow /\ SameRequest(row, requests[i])
  BY <1>4, <1>5 DEF RequestRow, SameRequest
<1> HIDE DEF row
<1>7. /\ requests' \in Seq(RequestRow)
      /\ DOMAIN requests' = DOMAIN requests
      /\ \A j \in DOMAIN requests :
            requests'[j] = IF j = i THEN row ELSE requests[j]
  BY <1>1, <1>3, <1>5, <1>6, WriteEntry
<1>8. \A j \in DOMAIN requests : SameRequest(requests'[j], requests[j])
  BY <1>6, <1>7 DEF SameRequest
<1>9. TablesTyped'
  BY <1>1, <1>7, <1>8 DEF RoutingInv, TablesTyped, EdgesTyped, org, SameRequest
<1>10. Knows(s, Idle)
  BY <1>1, IdleSound DEF Knows, RoutingInv
<1> QED
  BY <1>7, <1>8, <1>9, <1>10 DEF Writes, RequestsKept

\* What any session may do.
LEMMA ServeSteps ==
    ASSUME RoutingConstantsOK, RoutingInv, NEW s \in Sessions, Serve(s)
    PROVE  \/ GroupDeleteCommit(s)
           \/ \E n : Silent(s, n)
           \/ Writes(s)
<1>1. ASSUME Abort(s) PROVE Silent(s, Idle)
  BY <1>1, IdleSound DEF Abort, Silent, Knows, RoutingInv
<1>2. ASSUME Walk(s) PROVE \E n : Silent(s, n)
  BY <1>2, WalkSteps, BorrowSteps, ResolveSteps DEF Walk
<1> QED
  BY <1>1, <1>2, BeginSteps, DecideSteps, CreateSteps, CommitSteps DEF Serve

-----------------------------------------------------------------------------
(* The invariant holds.                                                    *)

LEMMA InitRoutingInv == RoutingConstantsOK /\ Init => RoutingInv
<1> SUFFICES ASSUME RoutingConstantsOK, Init PROVE RoutingInv
  OBVIOUS
<1>1. requests = <<>> /\ requests \in Seq(RequestRow) /\ DOMAIN requests = {}
  BY DEF Init
<1>2. TablesTyped
  <2>1. \A e \in edges : {e.parent, e.child} \subseteq groups
    BY DEF Init, RoutingConstantsOK, GroupHierarchyEdge
  <2>2. \A u \in Users : /\ member[u].group \in groups \union {NoGroup}
                         /\ member[u].also \subseteq groups
    BY DEF Init, RoutingConstantsOK, Member
  <2> QED
    BY <1>1, <2>1, <2>2 DEF Init, RoutingConstantsOK, TablesTyped, EdgesTyped
<1>3. \A s \in Sessions : Sound(proc[s])
  BY <1>2, IdleSound DEF Init
<1> QED
  BY <1>1, <1>2, <1>3 DEF Init, RoutingInv, RoutedMayDecide

\* After a session went on to n, what the others know is as sound as before.
LEMMA GoesSound ==
    ASSUME NEW s \in Sessions, NEW n, Goes(s, n), Sound(n), RoutingInv,
           \A w : Sound(w) => Sound(w)'
    PROVE  /\ proc' = [t \in Sessions |-> proc'[t]]
           /\ \A t \in Sessions : Sound(proc[t])'
<1>1. proc' = [t \in Sessions |-> IF t = s THEN n ELSE proc[t]]
  BY DEF Goes, RoutingInv
<1>2. \A t \in Sessions : Sound(proc'[t])
  BY <1>1 DEF RoutingInv
<1>3. \A t \in Sessions : Sound(proc[t])'
  BY <1>2
<1> QED
  BY <1>1, <1>3

\* The same when no session went on.
LEMMA RestSound ==
    ASSUME RoutingInv, UNCHANGED proc, \A w : Sound(w) => Sound(w)'
    PROVE  /\ proc' = [t \in Sessions |-> proc'[t]]
           /\ \A t \in Sessions : Sound(proc[t])'
<1>1. \A t \in Sessions : Sound(proc'[t])
  BY DEF RoutingInv
<1> QED
  BY <1>1 DEF RoutingInv

LEMMA OrgStepInv ==
    ASSUME RoutingInv, OrgStep,
           /\ proc' = [t \in Sessions |-> proc'[t]]
           /\ \A t \in Sessions : Sound(proc[t])'
    PROVE  RoutingInv'
<1>1. changes \in Nat /\ changes' = changes + 1 /\ requests' = requests /\ TablesTyped'
  BY DEF OrgStep, RoutingInv, TablesTyped
<1>2. \A i \in DOMAIN requests : requests[i].at \in Nat
  BY RowsTyped DEF RequestRow, RoutingInv
<1>3. \A i \in DOMAIN requests' :
        requests'[i].at <= changes' /\ requests'[i].at # changes'
  BY <1>1, <1>2 DEF RoutingInv
<1>4. RoutedMayDecide'
  BY <1>3 DEF RoutedMayDecide
<1> QED
  BY <1>1, <1>3, <1>4 DEF RoutingInv

LEMMA RestInv ==
    ASSUME RoutingInv, UNCHANGED <<org, changes>>, TablesTyped', RequestsKept,
           \A i \in DOMAIN requests' \ DOMAIN requests :
              LET r == requests'[i] IN
              /\ r.at <= changes
              /\ r.at = changes =>
                  \A u \in r.routed :
                      Entitled(u, r.kind, r.requester, r.setup, r.source),
           /\ proc' = [t \in Sessions |-> proc'[t]]
           /\ \A t \in Sessions : Sound(proc[t])'
    PROVE  RoutingInv'
<1>1. \A i \in DOMAIN requests' :
        LET r == requests'[i] IN
        /\ r.at <= changes
        /\ r.at = changes =>
            \A u \in r.routed : Entitled(u, r.kind, r.requester, r.setup, r.source)
  <2> SUFFICES ASSUME NEW i \in DOMAIN requests
               PROVE  LET r == requests'[i] IN
                      /\ r.at <= changes
                      /\ r.at = changes => \A u \in r.routed :
                            Entitled(u, r.kind, r.requester, r.setup, r.source)
    OBVIOUS
  <2>1. SameRequest(requests'[i], requests[i])
    BY DEF RequestsKept
  <2>2. /\ requests[i].at <= changes
        /\ requests[i].at = changes => \A u \in requests[i].routed :
              Entitled(u, requests[i].kind, requests[i].requester,
                       requests[i].setup, requests[i].source)
    BY DEF RoutingInv, RoutedMayDecide
  <2> QED
    BY <2>1, <2>2 DEF SameRequest
<1>2. RoutedMayDecide'
  BY <1>1, SameEntitled DEF RoutedMayDecide
<1> QED
  BY <1>1, <1>2 DEF RoutingInv

LEMMA RoutingInvStep == RoutingConstantsOK /\ RoutingInv /\ [Next]_vars => RoutingInv'
<1> SUFFICES ASSUME RoutingConstantsOK, RoutingInv, [Next]_vars PROVE RoutingInv'
  OBVIOUS
<1>1. TablesTyped
  BY DEF RoutingInv
<1>2. CASE Administer
  <2>1. OrgStep /\ UNCHANGED proc
    BY <1>1, <1>2, AdministerSteps
  <2>2. \A w : Sound(w) => Sound(w)'
    BY <1>1, <2>1, SoundOverChange DEF OrgStep
  <2> QED
    BY <2>1, <2>2, RestSound, OrgStepInv
<1>3. ASSUME NEW s \in Sessions, GroupDeleteCommit(s) PROVE RoutingInv'
  <2>1. OrgStep /\ Goes(s, Idle)
    BY <1>1, <1>3, DeleteSteps
  <2>2. \A w : Sound(w) => Sound(w)'
    BY <1>1, <2>1, SoundOverChange DEF OrgStep
  <2> QED
    BY <1>1, <2>1, <2>2, IdleSound, GoesSound, OrgStepInv
<1>4. ASSUME NEW s \in Sessions, NEW n, Silent(s, n) PROVE RoutingInv'
  <2>1. RequestsKept /\ UNCHANGED <<org, changes, requests>>
    BY <1>4 DEF Silent, Knows, RequestsKept, SameRequest
  <2>2. \A w : Sound(w) => Sound(w)'
    BY <2>1, SoundAtRest
  <2>3. TablesTyped'
    BY <1>1, <2>1 DEF TablesTyped, EdgesTyped, org
  <2>4. Goes(s, n) /\ Sound(n)
    BY <1>4 DEF Silent, Knows
  <2> QED
    BY <2>1, <2>2, <2>3, <2>4, GoesSound, RestInv
<1>5. ASSUME NEW s \in Sessions, Writes(s) PROVE RoutingInv'
  <2>1. /\ RequestsKept /\ UNCHANGED <<org, changes>> /\ TablesTyped'
        /\ Goes(s, Idle) /\ Sound(Idle)
    BY <1>5 DEF Writes, Knows
  <2>2. \A w : Sound(w) => Sound(w)'
    BY <2>1, SoundAtRest
  <2> QED
    BY <1>5, <2>1, <2>2, GoesSound, RestInv DEF Writes
<1>6. CASE UNCHANGED vars
  <2>1. RequestsKept /\ UNCHANGED <<org, changes, requests, proc>>
    BY <1>6 DEF vars, RequestsKept, SameRequest
  <2>2. \A w : Sound(w) => Sound(w)'
    BY <2>1, SoundAtRest
  <2>3. TablesTyped'
    BY <1>1, <2>1 DEF TablesTyped, EdgesTyped, org
  <2> QED
    BY <2>1, <2>2, <2>3, RestSound, RestInv
<1> QED
  BY <1>2, <1>3, <1>4, <1>5, <1>6, ServeSteps DEF Next

LEMMA RoutingInvHolds == Spec => []RoutingInv
<1>1. Init => RoutingInv
  BY RoutingConstantsOK, InitRoutingInv
<1>2. RoutingInv /\ [Next]_vars => RoutingInv'
  BY RoutingConstantsOK, RoutingInvStep
<1> QED
  BY <1>1, <1>2, PTL DEF Spec

-----------------------------------------------------------------------------
(* Theorems.                                                               *)

\* Every variable keeps its type, and no edge, membership, setup or borrow
\* names a group that is not in the table.
THEOREM TypeCorrect == Spec => []TypeOK
BY InvTyped, RoutingInvHolds, PTL

\* A walk that no change has crossed ends with exactly the groups meant,
\* whatever cycles the edges form (ancestor_group_ids, resolve_borrow_approvers).
THEOREM WalkFindsClosure == Spec => []WalkIsClosure
<1>1. RoutingInv => WalkIsClosure
  <2> SUFFICES ASSUME RoutingInv, NEW s \in Sessions,
                      proc[s].pc \in {"walk", "siblings"},
                      proc[s].todo = {}, proc[s].at = changes
               PROVE  LET w == proc[s] IN
                      w.seen = IF w.kind = "BORROW" THEN Around(w.group)
                               ELSE IF w.group = NoGroup THEN {}
                               ELSE Above(w.group, "SWAP")
    BY DEF WalkIsClosure
  <2>1. proc[s] \in WorkState /\ Sound(proc[s])
    BY Kinds DEF RoutingInv, Sound, Walking
  <2> QED
    BY <2>1, WalkOver DEF RoutingInv
<1> QED
  BY <1>1, RoutingInvHolds, PTL

\* Whoever a request was routed to may decide it until the organization changes
\* (SwapService.create, BorrowService.create).
THEOREM RoutedDecide == Spec => []RoutedMayDecide
<1>1. RoutingInv => RoutedMayDecide
  BY DEF RoutingInv
<1> QED
  BY <1>1, RoutingInvHolds, PTL

\* A decision is one that its maker was entitled to, unless the organization
\* has changed under it (approve and reject of both services).
THEOREM DecisionsEntitled == Spec => DecidedByEntitled
<1> DEFINE Decided(s) ==
             LET w == proc[s] IN
             /\ w.pc = "write" /\ w.op \in {"approve", "reject"}
             /\ requests' # requests /\ proc'[s] # w
             /\ w.at = changes
             => LET r == requests[w.request] IN
                Entitled(w.actor, r.kind, r.requester, r.setup, r.source)
           Step == \A s \in Sessions : Decided(s)
<1>1. RoutingInv => [Step]_vars
  BY DEF RoutingInv, Sound, Fresh, Found, Walking
<1>2. Spec => [][Step]_vars
  BY <1>1, RoutingInvHolds, PTL
<1> QED
  BY <1>2 DEF DecidedByEntitled

\* The deletion of a group takes it from a user or a setup only if something
\* changed between its test and its commit (GroupService.delete); nothing else
\* leaves one without a group.
THEOREM DeletionChecked == Spec => DeletedWasEmpty
<1> DEFINE Keep == /\ \A u \in Users :
                        member[u].group # NoGroup => member'[u].group # NoGroup
                   /\ \A x \in Setups : held[x] # NoGroup => held'[x] # NoGroup
           Crossed == \E s \in Sessions : /\ proc[s].pc = "delete"
                                          /\ proc'[s] # proc[s]
                                          /\ proc[s].at # changes
           Step == \/ /\ \A u \in Users :
                          member[u].group # NoGroup => member'[u].group # NoGroup
                      /\ \A x \in Setups : held[x] # NoGroup => held'[x] # NoGroup
                   \/ \E s \in Sessions : /\ proc[s].pc = "delete"
                                          /\ proc'[s] # proc[s]
                                          /\ proc[s].at # changes
<1>1. ASSUME RoutingInv, [Next]_vars PROVE Keep \/ Crossed
  <2>1. CASE UNCHANGED org
    BY <2>1 DEF org
  <2>2. CASE Administer
    <3>1. ASSUME NEW u \in Users, NEW m \in Postings, MemberUpdate(u, m) PROVE Keep
      <4>1. /\ \A v \in Users : member'[v] = IF v = u THEN m ELSE member[v]
            /\ held' = held
            /\ m.group \in groups \union {member[u].group}
        BY <1>1, <3>1 DEF MemberUpdate, RoutingInv, TablesTyped
      <4>2. NoGroup \notin groups
        BY <1>1, RoutingConstantsOK DEF RoutingConstantsOK, RoutingInv, TablesTyped
      <4> QED
        BY <4>1, <4>2
    <3>2. ASSUME NEW x \in Setups, NEW g \in Groups, SetupMove(x, g) PROVE Keep
      <4>1. /\ member' = member
            /\ \A y \in Setups : held'[y] = IF y = x THEN g ELSE held[y]
        BY <1>1, <3>2 DEF SetupMove, RoutingInv, TablesTyped
      <4>2. g # NoGroup
        BY RoutingConstantsOK DEF RoutingConstantsOK
      <4> QED
        BY <4>1, <4>2
    <3> QED
      BY <2>2, <3>1, <3>2 DEF Administer, GroupCreate, EdgeCreate, EdgeDelete
  <2>3. ASSUME NEW s \in Sessions, GroupDeleteCommit(s) PROVE Keep \/ Crossed
    <3> DEFINE g == proc[s].group
    <3>1. proc[s].pc = "delete" /\ Goes(s, Idle)
      BY <2>3 DEF GroupDeleteCommit
    <3>2. CASE proc[s].at = changes
      <4>1. Unassigned(g)
        BY <1>1, <3>1, <3>2 DEF RoutingInv, Sound, Fresh
      <4>2. \A x \in Setups : held'[x] = held[x]
        BY <2>3, <4>1 DEF GroupDeleteCommit, Unassigned
      <4>3. \A u \in Users : member'[u].group = member[u].group
        BY <1>1, <2>3, <4>1, MemberTyped
        DEF GroupDeleteCommit, Unassigned, RoutingInv, Member
      <4> QED
        BY <4>2, <4>3
    <3>3. CASE proc[s].at # changes
      <4>1. proc'[s] = Idle
        BY <1>1, <3>1 DEF Goes, RoutingInv
      <4>2. proc[s] # Idle
        BY <3>1 DEF Idle
      <4> QED
        BY <3>1, <3>3, <4>1, <4>2
    <3> QED
      BY <3>2, <3>3
  <2>4. ASSUME NEW s \in Sessions, Serve(s) PROVE Keep \/ Crossed
    <3>1. GroupDeleteCommit(s) \/ UNCHANGED org
      BY <1>1, <2>4, RoutingConstantsOK, ServeSteps DEF Silent, Writes, Knows
    <3> QED
      BY <2>1, <2>3, <3>1
  <2> QED
    BY <1>1, <2>1, <2>2, <2>4 DEF Next, vars
<1>2. RoutingInv /\ [Next]_vars => [Step]_vars
  BY <1>1
<1>3. Spec => [][Step]_vars
  BY <1>2, RoutingInvHolds, PTL DEF Spec
<1> QED
  BY <1>3 DEF DeletedWasEmpty
=============================================================================
