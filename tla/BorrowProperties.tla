--------------------------- MODULE BorrowProperties ---------------------------
(***************************************************************************)
(* What is asked of Borrow: of any number of sessions and sweepers, of one *)
(* session beside sweepers, and of the job itself.                         *)
(***************************************************************************)
EXTENDS Borrow

\* Every variable keeps its type.
TypeOK ==
    /\ now \in 0..MaxTime
    /\ setups \in [Setups -> SetupRow]
    /\ borrows \in Seq(BorrowRow)
    /\ grant \in Seq(GrantState)
    /\ clear \in Seq(SUBSET Nat)
    /\ Len(grant) = Len(borrows)
    /\ Len(clear) = Len(borrows)
    /\ proc \in [Procs -> ProcState]

-----------------------------------------------------------------------------
(* However many sessions and sweepers run.                                  *)

Lent(i) == grant[i] = "active"

\* Two active grants of one setup come of one cause only: neither of the two
\* approvals, when it checked that the setup was free, could see the other.
\* Approving one after the other never lends a setup twice.
TwoGrantsNeedRace ==
    \A i, j \in Ids :
        i # j /\ SetupOf(i) = SetupOf(j) /\ Lent(i) /\ Lent(j)
        => i \notin clear[j] /\ j \notin clear[i]

\* A request the tables call COMPLETED has the access it stands for: return,
\* reject, cancel, expiry and a second approval, in any order, never leave a
\* COMPLETED request whose grant is closed or missing.
CompletedIsHeld == \A i \in Ids : Status(i) = "COMPLETED" => Lent(i)

\* A request expires only after its window: no listing made at one time and
\* committed at another expires a request that was still in it.
ExpiredWasOver ==
    \A i \in Ids : Status(i) = "EXPIRED" => EndOf(i) # NoEnd /\ EndOf(i) < now

\* The statuses that decisions, returns and the job leave behind have their
\* reason: COMPLETED its grant, EXPIRED the end of the window.
StatusExplained == CompletedIsHeld /\ ExpiredWasOver

\* Grants are the borrow history: a grant is opened once, closed once, never
\* reopened and never deleted, also when two decisions overwrite each other.
GrantsAreHistory ==
    [][\A i \in Ids :
        /\ i \in DOMAIN grant'
        /\ grant[i] = "closed" => grant'[i] = "closed"
        /\ grant[i] = "active" => grant'[i] # "none"]_vars

-----------------------------------------------------------------------------
(* One session beside any number of sweepers.                               *)

\* A setup is lent to one group at a time (SetupAccessGrant's comment).
OneGrant ==
    \A i, j \in Ids :
        SetupOf(i) = SetupOf(j) /\ Lent(i) /\ Lent(j) => i = j

\* Who holds what, as module Lending sees it.
LentPairs ==
    {<<SetupOf(i), borrows[i].request.target>> : i \in {j \in Ids : Lent(j)}}

L == INSTANCE Lending WITH lent <- LentPairs

\* Every step of the service lends a free setup, takes one back, or changes
\* nothing that a borrower can see.
ImplementsLending == L!Spec

-----------------------------------------------------------------------------
(* The job.                                                                 *)

\* A request whose window has ended does not stay PENDING.
StaleEnds ==
    \A i \in 1..MaxRequests :
        (i \in Ids /\ Status(i) = "PENDING" /\ EndOf(i) # NoEnd
                   /\ EndOf(i) < now)
        ~> (i \in Ids /\ Status(i) # "PENDING")

-----------------------------------------------------------------------------
(* Said of the code, and not so.                                            *)

\* borrow_service.py:17: "Returning closes the grant".  return_borrow
\* takes COMPLETED requests only, so an active grant needs one.
GrantReturnable == \A i \in Ids : Lent(i) => Status(i) = "COMPLETED"
=============================================================================
