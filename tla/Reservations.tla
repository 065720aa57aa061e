---------------------------- MODULE Reservations ----------------------------
(***************************************************************************)
(* The reservation aggregate: ReservationService, the reservation half of  *)
(* SchedulerService and the status column of SetupService, run by several  *)
(* request sessions and several scheduler processes over one database.     *)
(*                                                                         *)
(* A request handler reads with plain SELECTs, each of which sees the last *)
(* committed state, and its writes start at the first flush: from there to *)
(* the commit at the end of get_db the session holds the database's only   *)
(* write lock.  A handler is therefore one action per read it bases a      *)
(* decision on, and one action from the first flush to the commit.  The    *)
(* ORM writes a column only when the value assigned differs from the value *)
(* it loaded, so a stale read can also make a write vanish.                *)
(***************************************************************************)
EXTENDS Naturals, Sequences, FiniteSets

CONSTANTS
    Setups,         \* ids a row of the setups table may have
    Users,          \* approved accounts
    CancelAny,      \* the users whose role has reservation:cancel_any
    Sessions,       \* request sessions: worker threads of all processes
    Sweepers,       \* processes whose scheduler runs reservation_sweep
    MinLead,        \* RESERVATION_MIN_LEAD_MINUTES, in clock units
    SmtpEnabled,    \* SMTP_ENABLED
    Undeliverable,  \* users whose expiry mail makes send_email raise
    EditTargets,    \* bound: the statuses an administrator asks for
    MaxTime,        \* bound: the clock and the windows stay in 0..MaxTime
    MaxRows,        \* bound: reservations ever created
    MailCap         \* bound: mails about one reservation are counted to here

SetupStatus == {"AVAILABLE", "RESERVED", "MAINTENANCE", "RETIRED"}

ASSUME ConstantsOK ==
    /\ CancelAny \subseteq Users
    /\ Undeliverable \subseteq Users
    /\ EditTargets \subseteq SetupStatus
    /\ SmtpEnabled \in BOOLEAN
    /\ MinLead \in Nat
    /\ MaxTime \in Nat
    /\ MaxRows \in Nat
    /\ MailCap \in Nat

VARIABLES
    now,        \* utc_now(), read by the sweep and by the lead-time rule
    res,        \* the reservations table: row i has id i
    status,     \* setups.status, "ABSENT" where the table has no such row
    session,    \* what each request session has read and is about to write
    sweeper,    \* the same for each scheduler process
    mails,      \* mails[i]: expiry mails sent about reservation i
    notices,    \* notices[i]: expiry announcements posted about reservation i
    announced,  \* bookings that mails of create() have told people about
    base,       \* history: base[i] rows existed at i's overlap check
    byAdmin     \* history: was setups.status last written by a setup edit?

db == <<res, status, mails, notices, announced, base, byAdmin>>
vars == <<now, session, sweeper, db>>

Time == 0..MaxTime

-----------------------------------------------------------------------------
(* The tables and what the handlers keep between a read and a write.       *)

ReservationStatus == {"ACTIVE", "COMPLETED", "CANCELLED"}

\* A ReservationCreateRequest that passed its validator, and who sent it.
Booking == {b \in [setup : Setups, user : Users, from : Time, until : Time] :
                b.from < b.until}

Row == [booking : Booking, status : ReservationStatus]

Idle == [pc |-> "idle"]

SessionState ==
    {Idle}
    \union [pc : {"create"}, booking : Booking, seen : SetupStatus,
            mail : BOOLEAN]
    \union [pc : {"insert"}, booking : Booking, seen : SetupStatus,
            mail : BOOLEAN, base : Nat]
    \union [pc : {"cancel"}, id : Nat]
    \union [pc : {"edit"}, setup : Setups, target : SetupStatus]
    \union [pc : {"delete"}, setup : Setups]

SweeperState ==
    {Idle}
    \union [pc : {"listed"}, ids : SUBSET Nat]
    \union [pc : {"sweep"}, ids : SUBSET Nat, first : Nat, seen : SetupStatus]

Ids == DOMAIN res
Active(i) == res[i].status = "ACTIVE"
SetupOf(i) == res[i].booking.setup
Exists(x) == status[x] # "ABSENT"

\* _ALLOWED_STATUS_TRANSITIONS
AllowedTransitions ==
    [AVAILABLE   |-> {"RESERVED", "MAINTENANCE", "RETIRED"},
     RESERVED    |-> {"AVAILABLE", "MAINTENANCE"},
     MAINTENANCE |-> {"AVAILABLE", "RETIRED"},
     RETIRED     |-> {}]

CountMail(m, ids) ==
    [i \in DOMAIN m |-> IF i \in ids /\ m[i] < MailCap THEN m[i] + 1 ELSE m[i]]

-----------------------------------------------------------------------------
(* Near misses: plausible wrong versions of the definitions below, named    *)
(* by the mutants of the project and used by no action.                     *)

\* Is the new window inside an old one; does it start inside an old one.
FindContaining(b) ==
    {i \in Ids : /\ Active(i)
                 /\ SetupOf(i) = b.setup
                 /\ res[i].booking.from <= b.from
                 /\ res[i].booking.until >= b.until}

FindRunningAtStart(b) ==
    {i \in Ids : /\ Active(i)
                 /\ SetupOf(i) = b.setup
                 /\ res[i].booking.from <= b.from
                 /\ res[i].booking.until > b.from}

\* The wrong column, no status filter, the setup's status for the row's.
ListStarted(asOf) ==
    {i \in Ids : Active(i) /\ res[i].booking.from <= asOf}

ListExpired(asOf) == {i \in Ids : res[i].booking.until <= asOf}

ListExpiredReserved(asOf) ==
    {i \in Ids : /\ Active(i)
                 /\ res[i].booking.until <= asOf
                 /\ status[SetupOf(i)] = "RESERVED"}

\* Deleting rows in place of closing them; writing the setup's enumeration.
DeleteRows(ids, new) == [i \in Ids \ ids |-> res[i]]

SetSetupStatusOf(ids, new) ==
    [i \in Ids |-> IF i \in ids THEN [res[i] EXCEPT !.status = "AVAILABLE"]
                   ELSE res[i]]

\* A reference that only ACTIVE rows make.
ReferencedByActive(x) == \E i \in Ids : Active(i) /\ SetupOf(i) = x

\* Freeing what nobody holds, asked before the rows are completed.
FreesUnheld(w) ==
    {x \in {SetupOf(i) : i \in sweeper[w].ids} : ~ReferencedByActive(x)}

-----------------------------------------------------------------------------
(* The repositories' queries and updates.                                   *)

\* find_overlapping: the half-open interval test over ACTIVE rows.
FindOverlapping(b) ==
    {i \in Ids : /\ Active(i)
                 /\ SetupOf(i) = b.setup
                 /\ res[i].booking.from < b.until
                 /\ res[i].booking.until > b.from}

\* list_expired_active
ListExpiredActive(asOf) ==
    {i \in Ids : Active(i) /\ res[i].booking.until <= asOf}

\* repository.update of the status column of rows.
SetStatusOf(ids, new) ==
    [i \in Ids |-> IF i \in ids THEN [res[i] EXCEPT !.status = new]
                   ELSE res[i]]

\* A reservation row, of any status, refers to the setup: the foreign key.
Referenced(x) == \E i \in Ids : SetupOf(i) = x

-----------------------------------------------------------------------------

Init ==
    /\ now = 0
    /\ res = <<>>
    /\ status = [x \in Setups |-> "AVAILABLE"]
    /\ session = [s \in Sessions |-> Idle]
    /\ sweeper = [w \in Sweepers |-> Idle]
    /\ mails = <<>>
    /\ notices = <<>>
    /\ announced = {}
    /\ base = <<>>
    /\ byAdmin = [x \in Setups |-> FALSE]

Tick ==
    /\ now < MaxTime
    /\ now' = now + 1
    /\ UNCHANGED <<session, sweeper, db>>

\* The session ends: its variables are gone, committed or not.
Ends(s) == session' = [session EXCEPT ![s] = Idle]

-----------------------------------------------------------------------------
(* ReservationService.create                                               *)

\* Setup read; MAINTENANCE and RETIRED refused; _assert_min_lead_time.
CreateRead(s) ==
    /\ session[s] = Idle
    /\ \E b \in Booking, mail \in {FALSE, SmtpEnabled} :
        /\ status[b.setup] \in {"AVAILABLE", "RESERVED"}
        /\ MinLead = 0 \/ b.from >= now + MinLead
        /\ session' = [session EXCEPT ![s] =
                [pc |-> "create", booking |-> b, seen |-> status[b.setup],
                 mail |-> mail]]
    /\ UNCHANGED <<now, sweeper, db>>

\* _assert_no_overlap: another read, and a refusal if it finds a row.
CreateCheck(s) ==
    /\ session[s].pc = "create"
    /\ IF FindOverlapping(session[s].booking) = {}
       THEN session' = [session EXCEPT ![s] =
                [pc |-> "insert", booking |-> session[s].booking,
                 seen |-> session[s].seen, mail |-> session[s].mail,
                 base |-> Len(res)]]
       ELSE Ends(s)
    /\ UNCHANGED <<now, sweeper, db>>

\* update_status(RESERVED) assigns to the Setup object loaded by CreateRead:
\* no UPDATE is emitted if that object already said RESERVED.
CreateCommit(s) ==
    LET b == session[s].booking IN
    /\ session[s].pc = "insert"
    /\ Exists(b.setup)                 \* foreign key of reservations.setup_id
    /\ Len(res) < MaxRows
    /\ res' = Append(res, [booking |-> b, status |-> "ACTIVE"])
    /\ mails' = Append(mails, 0)
    /\ notices' = Append(notices, 0)
    /\ base' = Append(base, session[s].base)
    /\ IF session[s].seen = "RESERVED"
       THEN UNCHANGED <<status, byAdmin>>
       ELSE /\ status' = [status EXCEPT ![b.setup] = "RESERVED"]
            /\ byAdmin' = [byAdmin EXCEPT ![b.setup] = FALSE]
    /\ announced' = announced \union (IF session[s].mail THEN {b} ELSE {})
    /\ Ends(s)
    /\ UNCHANGED <<now, sweeper>>

\* broadcast_reservation_event mails one channel after another before the
\* commit: a later channel raises, or the worker dies, and all is rolled back.
CreateMailedThenFailed(s) ==
    /\ session[s].pc = "insert"
    /\ session[s].mail
    /\ announced' = announced \union {session[s].booking}
    /\ Ends(s)
    /\ UNCHANGED <<now, sweeper, res, status, mails, notices, base, byAdmin>>

-----------------------------------------------------------------------------
(* ReservationService.cancel                                               *)

CancelRead(s) ==
    /\ session[s] = Idle
    /\ \E u \in Users, i \in Ids :
        /\ Active(i)
        /\ u = res[i].booking.user \/ u \in CancelAny
        /\ session' = [session EXCEPT ![s] = [pc |-> "cancel", id |-> i]]
    /\ UNCHANGED <<now, sweeper, db>>

\* The row was ACTIVE when read: the UPDATE is emitted whatever it is now.
\* update_status loads the setup after that flush, so it sees the present.
CancelCommit(s) ==
    LET i == session[s].id IN
    /\ session[s].pc = "cancel"
    /\ res' = SetStatusOf({i}, "CANCELLED")
    /\ status' = [status EXCEPT ![SetupOf(i)] = "AVAILABLE"]
    /\ byAdmin' = [byAdmin EXCEPT ![SetupOf(i)] = FALSE]
    /\ Ends(s)
    /\ UNCHANGED <<now, sweeper, mails, notices, announced, base>>

-----------------------------------------------------------------------------
(* SetupService: create, update (its status field) and delete              *)

\* The unique columns make the insert atomic with its duplicate check.
SetupCreate(x) ==
    /\ ~Exists(x)
    /\ status' = [status EXCEPT ![x] = "AVAILABLE"]
    /\ byAdmin' = [byAdmin EXCEPT ![x] = FALSE]
    /\ UNCHANGED <<now, session, sweeper, res, mails, notices, announced, base>>

\* _transition_status checks the target against the status it has loaded.
EditRead(s) ==
    /\ session[s] = Idle
    /\ \E x \in Setups, t \in EditTargets :
        /\ Exists(x)
        /\ t \in AllowedTransitions[status[x]]
        /\ session' = [session EXCEPT ![s] =
                [pc |-> "edit", setup |-> x, target |-> t]]
    /\ UNCHANGED <<now, sweeper, db>>

\* An UPDATE of a row that is gone raises, which is a Rollback.
EditCommit(s) ==
    LET x == session[s].setup IN
    /\ session[s].pc = "edit"
    /\ Exists(x)
    /\ status' = [status EXCEPT ![x] = session[s].target]
    /\ byAdmin' = [byAdmin EXCEPT ![x] = TRUE]
    /\ Ends(s)
    /\ UNCHANGED <<now, sweeper, res, mails, notices, announced, base>>

DeleteRead(s) ==
    /\ session[s] = Idle
    /\ \E x \in Setups :
        /\ Exists(x)
        /\ status[x] # "RESERVED"
        /\ session' = [session EXCEPT ![s] = [pc |-> "delete", setup |-> x]]
    /\ UNCHANGED <<now, sweeper, db>>

\* A reservation of the setup, of any status, makes the delete fail: the ORM
\* sets its setup_id to NULL first, and the column is NOT NULL.
DeleteCommit(s) ==
    LET x == session[s].setup IN
    /\ session[s].pc = "delete"
    /\ Exists(x)
    /\ ~Referenced(x)
    /\ status' = [status EXCEPT ![x] = "ABSENT"]
    /\ byAdmin' = [byAdmin EXCEPT ![x] = FALSE]
    /\ Ends(s)
    /\ UNCHANGED <<now, sweeper, res, mails, notices, announced, base>>

\* A request that raises, meets a locked database or loses its worker.
Rollback(s) ==
    /\ session[s] # Idle
    /\ Ends(s)
    /\ UNCHANGED <<now, sweeper, db>>

-----------------------------------------------------------------------------
(* scheduler_service._run_reservation_sweep                                *)

SweepList(w) ==
    /\ sweeper[w] = Idle
    /\ ListExpiredActive(now) # {}
    /\ sweeper' = [sweeper EXCEPT ![w] =
            [pc |-> "listed", ids |-> ListExpiredActive(now)]]
    /\ UNCHANGED <<now, session, db>>

\* The first setup is loaded before the first flush, hence outside the write
\* transaction; the query has no ORDER BY, so any row may come first.
SweepRead(w) ==
    /\ sweeper[w].pc = "listed"
    /\ \E i \in sweeper[w].ids :
        sweeper' = [sweeper EXCEPT ![w] =
            [pc |-> "sweep", ids |-> sweeper[w].ids, first |-> i,
             seen |-> status[SetupOf(i)]]]
    /\ UNCHANGED <<now, session, db>>

\* The setups whose status the sweep writes: all it releases, except the
\* first one if it had loaded it as AVAILABLE.
SweepFrees(w) ==
    {SetupOf(i) : i \in sweeper[w].ids}
        \ (IF sweeper[w].seen = "AVAILABLE"
           THEN {SetupOf(sweeper[w].first)} ELSE {})

MailRaises(i) == SmtpEnabled /\ res[i].booking.user \in Undeliverable

SweepCommit(w) ==
    LET ids == sweeper[w].ids IN
    /\ sweeper[w].pc = "sweep"
    /\ \A i \in ids : ~MailRaises(i)
    /\ res' = SetStatusOf(ids, "COMPLETED")
    /\ status' = [x \in Setups |->
            IF x \in SweepFrees(w) THEN "AVAILABLE" ELSE status[x]]
    /\ byAdmin' = [x \in Setups |-> byAdmin[x] /\ x \notin SweepFrees(w)]
    /\ notices' = [i \in Ids |-> notices[i] + (IF i \in ids THEN 1 ELSE 0)]
    /\ mails' = IF SmtpEnabled THEN CountMail(mails, ids) ELSE mails
    /\ sweeper' = [sweeper EXCEPT ![w] = Idle]
    /\ UNCHANGED <<now, session, announced, base>>

\* The job catches everything and rolls back; mails already sent stay sent.
SweepFail(w) ==
    /\ sweeper[w] # Idle
    /\ IF SmtpEnabled /\ sweeper[w].pc = "sweep"
       THEN \E sent \in SUBSET sweeper[w].ids :
               /\ \A i \in sent : ~MailRaises(i)
               /\ mails' = CountMail(mails, sent)
       ELSE UNCHANGED mails
    /\ sweeper' = [sweeper EXCEPT ![w] = Idle]
    /\ UNCHANGED <<now, session, res, status, notices, announced, base, byAdmin>>

-----------------------------------------------------------------------------

Request(s) ==
    \/ CreateRead(s) \/ CreateCheck(s) \/ CreateCommit(s)
    \/ CreateMailedThenFailed(s)
    \/ CancelRead(s) \/ CancelCommit(s)
    \/ EditRead(s) \/ EditCommit(s)
    \/ DeleteRead(s) \/ DeleteCommit(s)
    \/ Rollback(s)

Sweep(w) == SweepList(w) \/ SweepRead(w) \/ SweepCommit(w) \/ SweepFail(w)

Next ==
    \/ Tick
    \/ \E x \in Setups : SetupCreate(x)
    \/ \E s \in Sessions : Request(s)
    \/ \E w \in Sweepers : Sweep(w)

Spec == Init /\ [][Next]_vars

\* Time passes, and the interval trigger starts the job again and again.  A
\* job comes to an end; it may fail, but not at the same place every time it
\* could have gone on.
Fairness ==
    /\ WF_vars(Tick)
    /\ \A w \in Sweepers :
        /\ WF_vars(SweepList(w))
        /\ WF_vars(SweepFail(w) \/ SweepCommit(w))
        /\ SF_vars(SweepRead(w))
        /\ SF_vars(SweepCommit(w))

FairSpec == Spec /\ Fairness
=============================================================================
