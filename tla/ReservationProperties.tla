----------------------- MODULE ReservationProperties -----------------------
(***************************************************************************)
(* What Reservations must and must not do.  The first groups hold; the     *)
(* last one states what the repository's documents say of this code and    *)
(* the code does not keep.                                                 *)
(***************************************************************************)
EXTENDS Reservations

\* Every variable has its type; the parallel columns have the table's length.
TypeOK ==
    /\ now \in Time
    /\ res \in Seq(Row)
    /\ status \in [Setups -> SetupStatus \union {"ABSENT"}]
    /\ session \in [Sessions -> SessionState]
    /\ sweeper \in [Sweepers -> SweeperState]
    /\ mails \in Seq(Nat) /\ Len(mails) = Len(res)
    /\ notices \in Seq(Nat) /\ Len(notices) = Len(res)
    /\ announced \subseteq Booking
    /\ base \in Seq(Nat) /\ Len(base) = Len(res)
    /\ byAdmin \in [Setups -> BOOLEAN]

-----------------------------------------------------------------------------
(* Overlap.  SharesInstant is the meaning of a conflict; find_overlapping  *)
(* is the code's test for it.                                              *)

SharesInstant(a, b) ==
    \E t \in Time : /\ a.from <= t /\ t < a.until
                    /\ b.from <= t /\ t < b.until

DoubleBooked(i, j) ==
    /\ Active(i) /\ Active(j)
    /\ SetupOf(i) = SetupOf(j)
    /\ SharesInstant(res[i].booking, res[j].booking)

\* Two ACTIVE reservations of one setup that share an instant can only come
\* from a race: the later one was checked before the earlier one was inserted.
OverlapNeedsRace ==
    \A i, j \in Ids : i < j /\ DoubleBooked(i, j) => base[j] < i

\* No setup is promised to two ACTIVE reservations at the same instant
\* (_assert_no_overlap): true while requests run one at a time.
NoOverlap == \A i, j \in Ids : i < j => ~DoubleBooked(i, j)

\* The ACTIVE rows behave as a calendar in which no two bookings clash.
Held ==
    {[id |-> i, setup |-> SetupOf(i), user |-> res[i].booking.user,
      from |-> res[i].booking.from, until |-> res[i].booking.until] :
        i \in {j \in Ids : Active(j)}}

AsCalendar == INSTANCE Calendar WITH held <- Held

\* With one session the component implements the calendar (single session).
ImplementsCalendar == AsCalendar!Spec

-----------------------------------------------------------------------------
(* The status column and the life of a row.                                *)

\* A setup is never left RESERVED with nobody holding it, in spite of stale
\* reads and vanishing writes, unless an administrator wrote that status.
ReservedExplained ==
    \A x \in Setups :
        status[x] = "RESERVED" =>
            byAdmin[x] \/ \E i \in Ids : Active(i) /\ SetupOf(i) = x

\* A committed reservation is never deleted, moved to another window, setup
\* or user, nor made ACTIVE again, by any interleaving of the writers.
RowsAreHistory ==
    [][\A i \in Ids :
        /\ i \in DOMAIN res'
        /\ res'[i].booking = res[i].booking
        /\ res'[i].status = "ACTIVE" => Active(i)]_res

\* Only a reservation whose window has ended is COMPLETED, also when several
\* processes sweep and a user cancels at the same moment.
CompletedAfterEnd ==
    \A i \in Ids : res[i].status = "COMPLETED" => res[i].booking.until <= now

\* A status has its reason, whatever reads, sweeps and cancels overlap: the
\* RESERVED of a setup, and the COMPLETED of a reservation.
StatusExplained == ReservedExplained /\ CompletedAfterEnd

\* Each reservation's setup is in the table, whatever deletes race with it.
NoOrphan == \A i \in Ids : Exists(SetupOf(i))

\* Each scheduler process announces an expired reservation at most once.
NoticesBounded == \A i \in Ids : notices[i] <= Cardinality(Sweepers)

\* A reservation past its end is taken from ACTIVE sooner or later, by the
\* sweep or by a cancel (unless mail about it always raises).
Overdue(i) == i \in Ids /\ Active(i) /\ res[i].booking.until <= now
ExpiredIsReleased == \A i \in 1..MaxRows : Overdue(i) ~> ~Overdue(i)

-----------------------------------------------------------------------------
(* Said of the code, and not so.                                           *)

\* models/setup.py:7: status is "kept in sync by the service layer inside the
\* same transaction as any reservation state change": an AVAILABLE setup has
\* no ACTIVE reservation.
StatusInSync ==
    \A x \in Setups :
        status[x] = "AVAILABLE" => \A i \in Ids : Active(i) => SetupOf(i) # x

\* setup_service.py:12: "Any transition not listed here is rejected".
OnlyAllowedTransitions ==
    [][\A x \in Setups :
        Exists(x) /\ status'[x] \notin {status[x], "ABSENT"} =>
            status'[x] \in AllowedTransitions[status[x]]]_status

\* reservation_service.py:166: cancelling raises if the reservation is not
\* ACTIVE; and the sweep takes ACTIVE rows only.  So a closed row stays as is.
ClosedIsFinal ==
    [][\A i \in Ids : ~Active(i) => res'[i].status = res[i].status]_res

\* reservation_service.py:76: create "broadcasts the reservation across them
\* after the reservation is committed".
AnnouncedIsBooked ==
    \A b \in announced : \E i \in Ids : res[i].booking = b

\* TESTING.md:332 (RES-08): past Until and one sweep interval, the setup is
\* released: the mail of one user has no part in the reservation of another.
ExpiryIsIsolated ==
    \A i \in 1..MaxRows :
        (Overdue(i) /\ res[i].booking.user \notin Undeliverable) ~> ~Overdue(i)
=============================================================================
