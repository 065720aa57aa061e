------------------------------- MODULE Borrow -------------------------------
(***************************************************************************)
(* Borrow requests and the access grants they create: BorrowService, its   *)
(* repository and the borrow half of SchedulerService, run by several      *)
(* request sessions and scheduler processes over one database.             *)
(*                                                                         *)
(* Sessions work as in module Reservations: one action per read that a     *)
(* decision rests on, and one from the first flush to the commit.  approve *)
(* and reject expire what is stale first: when there is something to       *)
(* expire, the write lock is taken there and the rest of the request runs  *)
(* under it; when there is nothing, the lock is taken only at the end.     *)
(***************************************************************************)
EXTENDS Naturals, Sequences, FiniteSets

CONSTANTS
    Setups,       \* rows of the setups table
    Groups,
    Users,        \* leads, managers and owners: whoever may request or decide
    Owners,       \* those of them with the role OWNER
    GroupOf,      \* [Users -> Groups]: users.group_id
    GroupsOf,     \* [Users -> SUBSET Groups]: the same with users.groups
    Routed,       \* [Groups -> SUBSET Users]: resolve_borrow_approvers
    Sessions,     \* request sessions
    Sweepers,     \* processes whose scheduler runs borrow_sweep
    NoEnd,        \* end_time is NULL
    EndTimes,     \* bound: the end times requested
    MaxTime,      \* bound: the clock
    MaxRequests   \* bound: requests ever made

ASSUME BorrowConstantsOK ==
    /\ Owners \subseteq Users
    /\ GroupOf \in [Users -> Groups]
    /\ GroupsOf \in [Users -> SUBSET Groups]
    /\ Routed \in [Groups -> SUBSET Users]
    /\ MaxTime \in Nat
    /\ NoEnd \notin Nat
    /\ EndTimes \subseteq Nat \union {NoEnd}
    /\ MaxRequests \in Nat

VARIABLES
    now,       \* datetime.utcnow()
    setups,    \* the columns of a setup that borrowing reads
    borrows,   \* the borrow_requests table: row i has id i
    grant,     \* grant[i]: the setup_access_grants row of request i
    proc,      \* what each session or job has read and is about to write
    clear      \* history: the requests granted before i's approval checked

db == <<setups, borrows, grant, clear>>
vars == <<now, proc, db>>

Procs == Sessions \union Sweepers

BorrowStatus ==
    {"PENDING", "COMPLETED", "REJECTED", "CANCELLED", "RETURNED", "EXPIRED"}

SetupRow == [group : Groups, usable : BOOLEAN]

\* A request as it is inserted; source is the setup's group at that time.
Request == [setup : Setups, requester : Users, source : Groups,
            target : Groups, end : EndTimes]

BorrowRow == [request : Request, status : BorrowStatus]

\* There is no grant, it is active, or it was closed by a return.
GrantState == {"none", "active", "closed"}

Idle == [pc |-> "idle"]

ProcState ==
    {Idle}
    \union [pc : {"create", "insert"}, request : Request]
    \union [pc : {"decide"}, kind : {"approve", "reject"}, id : Nat,
            user : Users, ids : SUBSET Nat]
    \union [pc : {"check"}, id : Nat]
    \union [pc : {"grant"}, id : Nat, clear : SUBSET Nat]
    \union [pc : {"reject", "cancel", "return"}, id : Nat]
    \union [pc : {"expire"}, ids : SUBSET Nat]

Ids == DOMAIN borrows
Status(i) == borrows[i].status
SetupOf(i) == borrows[i].request.setup
EndOf(i) == borrows[i].request.end

-----------------------------------------------------------------------------
(* Near misses: plausible wrong versions of definitions below, named by    *)
(* the mutants of the project and used by no action.                       *)

\* Asks the requests' status where the grants were meant.
BorrowedByStatus(x) ==
    \E i \in Ids : SetupOf(i) = x /\ Status(i) = "COMPLETED"

\* Stale at the end and not after it; a tick late.
StaleEnding(row, t) ==
    row.status = "PENDING" /\ row.request.end # NoEnd /\ row.request.end <= t

StaleLate(row, t) ==
    row.status = "PENDING" /\ row.request.end # NoEnd /\ row.request.end + 1 < t

\* A new status truncates the table.
DropRows(i, new) == SubSeq(borrows, 1, i - 1)

\* A return that forgets the request; one that deletes the grant.
ReturnForgets(s) ==
    /\ proc[s].pc = "return"
    /\ grant' = [grant EXCEPT ![proc[s].id] = "closed"]
    /\ proc' = [proc EXCEPT ![s] = Idle]
    /\ UNCHANGED <<now, setups, borrows, clear>>

ReturnDeletes(s) ==
    /\ proc[s].pc = "return"
    /\ grant' = [grant EXCEPT ![proc[s].id] = "none"]
    /\ borrows' = [borrows EXCEPT ![proc[s].id].status = "RETURNED"]
    /\ proc' = [proc EXCEPT ![s] = Idle]
    /\ UNCHANGED <<now, setups, clear>>

-----------------------------------------------------------------------------
(* The repository's queries and updates, and who may act.                   *)

\* get_active_grant_for_setup
Borrowed(x) == \E i \in Ids : SetupOf(i) = x /\ grant[i] = "active"

\* get_open_for_setup
OpenFor(x) ==
    {i \in Ids : SetupOf(i) = x /\ Status(i) \in {"PENDING", "COMPLETED"}}

\* list_stale_pending
Stale(row, t) ==
    row.status = "PENDING" /\ row.request.end # NoEnd /\ row.request.end < t

ListStale(t) == {i \in Ids : Stale(borrows[i], t)}

\* update: the status column of the row is written, whatever it says by now.
SetStatus(i, new) == [borrows EXCEPT ![i].status = new]

Expired(ids) ==
    [i \in Ids |-> IF i \in ids THEN [borrows[i] EXCEPT !.status = "EXPIRED"]
                   ELSE borrows[i]]

\* A web page ends with the list of requests: what is stale in the table b
\* that the transaction has written expires with it.
Shown(b) ==
    [i \in DOMAIN b |-> IF Stale(b[i], now)
                        THEN [b[i] EXCEPT !.status = "EXPIRED"] ELSE b[i]]

\* The commit of an API call, or that of a web page.
Writes(b) == borrows' \in {b, Shown(b)}

\* _assert_can_decide; with no approver routed, every caller may.
MayDecide(u, i) ==
    LET b == borrows[i].request
        approvers == Routed[b.source] \ {b.requester} IN
    /\ u # b.requester
    /\ u \in Owners \/ approvers = {} \/ u \in approvers

\* _assert_can_return
MayReturn(u, i) ==
    LET b == borrows[i].request IN
    \/ u = b.requester
    \/ u \in Owners
    \/ b.target \in GroupsOf[u]
    \/ u \in Routed[b.source]

\* What approve() asks of the setup.
Lendable(i) ==
    LET x == SetupOf(i) IN
    /\ setups[x].usable
    /\ ~Borrowed(x)
    /\ setups[x].group = borrows[i].request.source

-----------------------------------------------------------------------------

Init ==
    /\ now = 0
    /\ setups \in [Setups -> [group : Groups, usable : {TRUE}]]
    /\ borrows = <<>>
    /\ grant = <<>>
    /\ proc = [p \in Procs |-> Idle]
    /\ clear = <<>>

Tick ==
    /\ now < MaxTime
    /\ now' = now + 1
    /\ UNCHANGED <<proc, db>>

\* SetupService.update: the group, or a status from or to one that lends.
SetupEdit(x) ==
    /\ \E row \in SetupRow : setups' = [setups EXCEPT ![x] = row]
    /\ UNCHANGED <<now, proc, borrows, grant, clear>>

Goes(p, next) == proc' = [proc EXCEPT ![p] = next]
Ends(p) == Goes(p, Idle)

-----------------------------------------------------------------------------
(* BorrowService.create                                                     *)

\* The source lead, the setup and its grants; then the open requests.
CreateRead(s) ==
    /\ proc[s] = Idle
    /\ \E x \in Setups, u \in Users, e \in EndTimes :
        /\ e # NoEnd => e > now
        /\ \E lead \in Users \ Owners : setups[x].group \in GroupsOf[lead]
        /\ setups[x].usable
        /\ setups[x].group # GroupOf[u]
        /\ ~Borrowed(x)
        /\ Goes(s, [pc |-> "create",
                    request |-> [setup |-> x, requester |-> u,
                                 source |-> setups[x].group,
                                 target |-> GroupOf[u], end |-> e]])
    /\ UNCHANGED <<now, db>>

CreateCheck(s) ==
    /\ proc[s].pc = "create"
    /\ IF OpenFor(proc[s].request.setup) = {}
       THEN Goes(s, [pc |-> "insert", request |-> proc[s].request])
       ELSE Ends(s)
    /\ UNCHANGED <<now, db>>

CreateCommit(s) ==
    /\ proc[s].pc = "insert"
    /\ Len(borrows) < MaxRequests
    /\ Writes(Append(borrows,
            [request |-> proc[s].request, status |-> "PENDING"]))
    /\ grant' = Append(grant, "none")
    /\ clear' = Append(clear, {})
    /\ Ends(s)
    /\ UNCHANGED <<now, setups>>

-----------------------------------------------------------------------------
(* BorrowService.approve and reject                                         *)

DecideBegin(s) ==
    /\ proc[s] = Idle
    /\ \E kind \in {"approve", "reject"}, i \in Ids, u \in Users :
        Goes(s, [pc |-> "decide", kind |-> kind, id |-> i, user |-> u,
                 ids |-> ListStale(now)])
    /\ UNCHANGED <<now, db>>

\* Nothing was stale: the request is read without the lock.
DecideRead(s) ==
    LET i == proc[s].id IN
    /\ proc[s].pc = "decide"
    /\ proc[s].ids = {}
    /\ IF Status(i) # "PENDING" \/ ~MayDecide(proc[s].user, i) THEN Ends(s)
       ELSE Goes(s, [pc |-> IF proc[s].kind = "approve" THEN "check"
                            ELSE "reject", id |-> i])
    /\ UNCHANGED <<now, db>>

ApproveCheck(s) ==
    LET i == proc[s].id IN
    /\ proc[s].pc = "check"
    /\ IF Lendable(i)
       THEN Goes(s, [pc |-> "grant", id |-> i,
                     clear |-> {j \in Ids : grant[j] # "none"}])
       ELSE Ends(s)
    /\ UNCHANGED <<now, db>>

\* borrow_request_id is unique: there is one grant for a request at most.
ApproveCommit(s) ==
    LET i == proc[s].id IN
    /\ proc[s].pc = "grant"
    /\ grant[i] = "none"
    /\ grant' = [grant EXCEPT ![i] = "active"]
    /\ Writes(SetStatus(i, "COMPLETED"))
    /\ clear' = [clear EXCEPT ![i] = proc[s].clear]
    /\ Ends(s)
    /\ UNCHANGED <<now, setups>>

RejectCommit(s) ==
    /\ proc[s].pc = "reject"
    /\ Writes(SetStatus(proc[s].id, "REJECTED"))
    /\ Ends(s)
    /\ UNCHANGED <<now, setups, grant, clear>>

\* Something was stale: from its expiry on, everything runs under the lock.
DecideLocked(s) ==
    LET i == proc[s].id IN
    /\ proc[s].pc = "decide"
    /\ proc[s].ids # {}
    /\ i \notin proc[s].ids
    /\ Status(i) = "PENDING"
    /\ MayDecide(proc[s].user, i)
    /\ \/ /\ proc[s].kind = "approve"
          /\ Lendable(i)
          /\ grant[i] = "none"
          /\ grant' = [grant EXCEPT ![i] = "active"]
          /\ clear' = [clear EXCEPT ![i] = {j \in Ids : grant[j] # "none"}]
          /\ Writes([Expired(proc[s].ids) EXCEPT ![i].status = "COMPLETED"])
       \/ /\ proc[s].kind = "reject"
          /\ Writes([Expired(proc[s].ids) EXCEPT ![i].status = "REJECTED"])
          /\ UNCHANGED <<grant, clear>>
    /\ Ends(s)
    /\ UNCHANGED <<now, setups>>

\* The decision is refused, and a web view catches the error: the session
\* commits what was flushed.  (An API handler does not: Abort.)
DecideRefused(s) ==
    LET i == proc[s].id IN
    /\ proc[s].pc = "decide"
    /\ proc[s].ids # {}
    /\ \/ i \in proc[s].ids
       \/ Status(i) # "PENDING"
       \/ ~MayDecide(proc[s].user, i)
       \/ proc[s].kind = "approve" /\ ~Lendable(i)
    /\ borrows' = Shown(Expired(proc[s].ids))
    /\ Ends(s)
    /\ UNCHANGED <<now, setups, grant, clear>>

-----------------------------------------------------------------------------
(* BorrowService.cancel and return_borrow                                   *)

CancelRead(s) ==
    /\ proc[s] = Idle
    /\ \E i \in Ids : /\ Status(i) = "PENDING"
                      /\ Goes(s, [pc |-> "cancel", id |-> i])
    /\ UNCHANGED <<now, db>>

CancelCommit(s) ==
    /\ proc[s].pc = "cancel"
    /\ Writes(SetStatus(proc[s].id, "CANCELLED"))
    /\ Ends(s)
    /\ UNCHANGED <<now, setups, grant, clear>>

ReturnRead(s) ==
    /\ proc[s] = Idle
    /\ \E i \in Ids, u \in Users :
        /\ Status(i) = "COMPLETED"
        /\ MayReturn(u, i)
        /\ grant[i] = "active"
        /\ Goes(s, [pc |-> "return", id |-> i])
    /\ UNCHANGED <<now, db>>

ReturnCommit(s) ==
    LET i == proc[s].id IN
    /\ proc[s].pc = "return"
    /\ grant' = [grant EXCEPT ![i] = "closed"]
    /\ Writes(SetStatus(i, "RETURNED"))
    /\ Ends(s)
    /\ UNCHANGED <<now, setups, clear>>

-----------------------------------------------------------------------------
(* expire_stale_pending, from the scheduler or from a page that lists       *)

ExpireList(p) ==
    /\ proc[p] = Idle
    /\ ListStale(now) # {}
    /\ Goes(p, [pc |-> "expire", ids |-> ListStale(now)])
    /\ UNCHANGED <<now, db>>

ExpireCommit(p) ==
    /\ proc[p].pc = "expire"
    /\ Writes(Expired(proc[p].ids))
    /\ Ends(p)
    /\ UNCHANGED <<now, setups, grant, clear>>

\* An exception, a locked database, a lost worker: all is rolled back.
Abort(p) ==
    /\ proc[p] # Idle
    /\ Ends(p)
    /\ UNCHANGED <<now, db>>

-----------------------------------------------------------------------------

Serve(s) ==
    \/ CreateRead(s) \/ CreateCheck(s) \/ CreateCommit(s)
    \/ DecideBegin(s) \/ DecideRead(s) \/ ApproveCheck(s)
    \/ ApproveCommit(s) \/ RejectCommit(s)
    \/ DecideLocked(s) \/ DecideRefused(s)
    \/ CancelRead(s) \/ CancelCommit(s)
    \/ ReturnRead(s) \/ ReturnCommit(s)

Next ==
    \/ Tick
    \/ \E x \in Setups : SetupEdit(x)
    \/ \E s \in Sessions : Serve(s)
    \/ \E p \in Procs : ExpireList(p) \/ ExpireCommit(p) \/ Abort(p)

Spec == Init /\ [][Next]_vars

\* Time passes, the interval trigger starts the job again and again, and the
\* job does not fail every time.
Fairness ==
    /\ WF_vars(Tick)
    /\ \A w \in Sweepers :
        /\ WF_vars(ExpireList(w))
        /\ WF_vars(ExpireCommit(w) \/ Abort(w))
        /\ SF_vars(ExpireCommit(w))

FairSpec == Spec /\ Fairness
=============================================================================
