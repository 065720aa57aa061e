----------------------------- MODULE BorrowProofs -----------------------------
(***************************************************************************)
(* Theorems about Borrow for every value of its constants.  What a step    *)
(* can do to one request is put in one lemma, RowSteps; the invariants and *)
(* the step to module Lending are read off it.                             *)
(***************************************************************************)
EXTENDS BorrowProperties, Tables

-----------------------------------------------------------------------------
(* Writing to the table.                                                   *)

\* b has the requests of the table, whatever their status.
SameRequests(b) ==
    /\ b \in Seq(BorrowRow)
    /\ Len(b) = Len(borrows)
    /\ DOMAIN b = Ids
    /\ \A j \in Ids : b[j].request = borrows[j].request

LEMMA TableFacts ==
    ASSUME TypeOK
    PROVE  /\ Len(borrows) \in Nat
           /\ Ids = 1..Len(borrows)
           /\ DOMAIN grant = Ids /\ DOMAIN clear = Ids
           /\ \A i \in Ids : /\ borrows[i] \in BorrowRow
                             /\ borrows[i].request \in Request
                             /\ SetupOf(i) \in Setups
                             /\ borrows[i].request.target \in Groups
                             /\ Status(i) \in BorrowStatus
                             /\ EndOf(i) \in EndTimes
                             /\ grant[i] \in GrantState
                             /\ clear[i] \in SUBSET Nat
<1>1. /\ Len(borrows) \in Nat /\ Ids = 1..Len(borrows)
      /\ DOMAIN grant = Ids /\ DOMAIN clear = Ids
  BY LenProperties DEF TypeOK, Ids
<1>2. \A i \in Ids : /\ borrows[i] \in BorrowRow /\ grant[i] \in GrantState
                     /\ clear[i] \in SUBSET Nat
  BY <1>1, ElementOfSeq DEF TypeOK
<1> QED
  BY <1>1, <1>2 DEF BorrowRow, Request, SetupOf, Status, EndOf

LEMMA WriteRows ==
    ASSUME TypeOK, NEW f, f \in [Ids -> BorrowStatus]
    PROVE  LET b == [i \in Ids |-> [borrows[i] EXCEPT !.status = f[i]]] IN
           SameRequests(b) /\ \A j \in Ids : b[j].status = f[j]
<1> DEFINE b == [i \in Ids |-> [borrows[i] EXCEPT !.status = f[i]]]
<1>1. Len(borrows) \in Nat /\ Ids = 1..Len(borrows)
      /\ \A i \in Ids : borrows[i] \in BorrowRow
  BY TableFacts
<1>2. \A i \in Ids : /\ b[i] \in BorrowRow
                     /\ b[i].request = borrows[i].request
                     /\ b[i].status = f[i]
  BY <1>1 DEF BorrowRow
<1>3. b \in [1..Len(borrows) -> BorrowRow]
  BY <1>1, <1>2
<1> HIDE DEF b
<1>4. b \in Seq(BorrowRow) /\ Len(b) = Len(borrows) /\ DOMAIN b = Ids
  BY <1>1, <1>3, TableIsSeq
<1> QED
  BY <1>2, <1>4 DEF b, SameRequests

\* One status is written.
LEMMA WriteOne ==
    ASSUME TypeOK, NEW i \in Ids, NEW new \in BorrowStatus
    PROVE  LET b == SetStatus(i, new) IN
           /\ SameRequests(b)
           /\ \A j \in Ids : b[j].status = IF j = i THEN new ELSE Status(j)
<1> DEFINE f == [j \in Ids |-> IF j = i THEN new ELSE Status(j)]
           b == [j \in Ids |-> [borrows[j] EXCEPT !.status = f[j]]]
<1>1. f \in [Ids -> BorrowStatus]
  BY TableFacts
<1>2. \A j \in Ids : borrows[j] \in BorrowRow
  BY TableFacts
<1>3. SetStatus(i, new) = b
  <2>1. SetStatus(i, new) =
            [j \in Ids |-> IF j = i THEN [borrows[i] EXCEPT !.status = new]
                           ELSE borrows[j]]
    BY <1>2, TableFacts DEF SetStatus, Ids, TypeOK
  <2>2. \A j \in Ids : [borrows[j] EXCEPT !.status = Status(j)] = borrows[j]
    BY <1>2 DEF BorrowRow, Status
  <2> QED
    BY <2>1, <2>2
<1> HIDE DEF f
<1>4. SameRequests(b) /\ \A j \in Ids : b[j].status = f[j]
  BY <1>1, WriteRows
<1> QED
  BY <1>3, <1>4 DEF f

\* Requests are expired, and one of them that is not may be decided with it.
LEMMA WriteExpired ==
    ASSUME TypeOK, NEW ids
    PROVE  LET b == Expired(ids) IN
           /\ SameRequests(b)
           /\ \A j \in Ids :
                b[j].status = IF j \in ids THEN "EXPIRED" ELSE Status(j)
<1> DEFINE f == [j \in Ids |-> IF j \in ids THEN "EXPIRED" ELSE Status(j)]
           b == [j \in Ids |-> [borrows[j] EXCEPT !.status = f[j]]]
<1>1. f \in [Ids -> BorrowStatus]
  BY TableFacts DEF BorrowStatus
<1>2. \A j \in Ids : borrows[j] \in BorrowRow
  BY TableFacts
<1>3. Expired(ids) = b
  <2>2. \A j \in Ids : [borrows[j] EXCEPT !.status = Status(j)] = borrows[j]
    BY <1>2 DEF BorrowRow, Status
  <2> QED
    BY <2>2 DEF Expired
<1> HIDE DEF f
<1>4. SameRequests(b) /\ \A j \in Ids : b[j].status = f[j]
  BY <1>1, WriteRows
<1> QED
  BY <1>3, <1>4 DEF f

LEMMA WriteExpiredAndOne ==
    ASSUME TypeOK, NEW ids, NEW i \in Ids, NEW new \in BorrowStatus
    PROVE  LET b == [Expired(ids) EXCEPT ![i].status = new] IN
           /\ SameRequests(b)
           /\ \A j \in Ids :
                b[j].status = IF j = i THEN new
                              ELSE IF j \in ids THEN "EXPIRED" ELSE Status(j)
<1> DEFINE e == Expired(ids)
           f == [j \in Ids |-> IF j = i THEN new
                               ELSE IF j \in ids THEN "EXPIRED" ELSE Status(j)]
           b == [j \in Ids |-> [borrows[j] EXCEPT !.status = f[j]]]
<1>1. f \in [Ids -> BorrowStatus]
  BY TableFacts DEF BorrowStatus
<1>2. \A j \in Ids : borrows[j] \in BorrowRow
  BY TableFacts
<1>3. [e EXCEPT ![i].status = new] = b
  <2>1. e = [j \in Ids |-> IF j \in ids THEN [borrows[j] EXCEPT !.status = "EXPIRED"]
                           ELSE borrows[j]]
    BY DEF Expired
  <2>2. [e EXCEPT ![i].status = new] =
            [j \in Ids |-> IF j = i THEN [e[i] EXCEPT !.status = new] ELSE e[j]]
    BY <2>1
  <2>3. [e[i] EXCEPT !.status = new] = [borrows[i] EXCEPT !.status = new]
    BY <1>2, <2>1 DEF BorrowRow
  <2>4. \A j \in Ids : [borrows[j] EXCEPT !.status = Status(j)] = borrows[j]
    BY <1>2 DEF BorrowRow, Status
  <2>5. \A j \in Ids \ {i} : e[j] = [borrows[j] EXCEPT !.status = f[j]]
    BY <2>1, <2>4
  <2> QED
    BY <2>2, <2>3, <2>5
<1> HIDE DEF f
<1>4. SameRequests(b) /\ \A j \in Ids : b[j].status = f[j]
  BY <1>1, WriteRows
<1> QED
  BY <1>3, <1>4 DEF f

-----------------------------------------------------------------------------
(* What a session knows when it is about to write.                          *)

\* Requests of the setup of i that had a grant before now have it no longer.
NoneHolds(seen, i) ==
    \A j \in seen : j \in Ids /\ (SetupOf(j) = SetupOf(i) => grant[j] = "closed")

AllOver(ids) == \A i \in ids : i \in Ids /\ EndOf(i) # NoEnd /\ EndOf(i) < now

Knows(v) ==
    /\ v.pc \in {"decide", "check", "grant", "reject", "cancel", "return"} =>
            v.id \in Ids
    /\ v.pc \in {"decide", "expire"} => AllOver(v.ids)
    /\ v.pc = "grant" => NoneHolds(v.clear, v.id)

ProcsKnow == \A p \in Procs : Knows(proc[p])

TypeInv == TypeOK /\ ProcsKnow

LEMMA ProcFields ==
    ASSUME TypeOK, NEW p \in Procs
    PROVE  /\ proc[p] = Idle => proc[p].pc = "idle"
           /\ proc[p].pc \in {"create", "insert"} => proc[p].request \in Request
           /\ proc[p].pc \in {"decide", "check", "grant", "reject", "cancel",
                              "return"} => proc[p].id \in Nat
           /\ proc[p].pc = "decide" => /\ proc[p].kind \in {"approve", "reject"}
                                       /\ proc[p].user \in Users
           /\ proc[p].pc \in {"decide", "expire"} => proc[p].ids \subseteq Nat
           /\ proc[p].pc = "grant" => proc[p].clear \subseteq Nat
<1>1. proc[p] \in ProcState
  BY DEF TypeOK
<1> QED
  BY <1>1 DEF ProcState, Idle

-----------------------------------------------------------------------------
(* What a step does to a request when it makes the table b.                 *)

GrantKept(i) == grant'[i] = grant[i] /\ clear'[i] = clear[i]

Kept(b, i) == GrantKept(i) /\ b[i].status = Status(i)

Closes(b, i) ==
    GrantKept(i) /\ b[i].status \in {"REJECTED", "CANCELLED"}

Expires(b, i) ==
    /\ GrantKept(i)
    /\ b[i].status = "EXPIRED"
    /\ EndOf(i) # NoEnd /\ EndOf(i) < now

Lends(b, i) ==
    /\ b[i].status = "COMPLETED"
    /\ grant[i] = "none" /\ grant'[i] = "active"
    /\ NoneHolds(clear'[i], i)

Returns(b, i) ==
    /\ b[i].status = "RETURNED"
    /\ grant'[i] = "closed" /\ clear'[i] = clear[i]

TablesTyped(b) ==
    /\ b \in Seq(BorrowRow)
    /\ grant' \in Seq(GrantState) /\ Len(grant') = Len(b)
    /\ clear' \in Seq(SUBSET Nat) /\ Len(clear') = Len(b)

RowStep(b) ==
    /\ TablesTyped(b)
    /\ \A i \in Ids :
        /\ i \in DOMAIN b
        /\ b[i].request = borrows[i].request
        /\ Kept(b, i) \/ Closes(b, i) \/ Expires(b, i) \/ Lends(b, i) \/ Returns(b, i)
    /\ \A i \in DOMAIN b \ Ids :
        /\ grant'[i] = "none" /\ clear'[i] = {}
        /\ \/ b[i].status = "PENDING"
           \/ /\ b[i].status = "EXPIRED"
              /\ b[i].request.end # NoEnd /\ b[i].request.end < now

\* A commit that writes statuses and no grant.
LEMMA StatusesWritten ==
    ASSUME TypeInv, NEW b, SameRequests(b), UNCHANGED <<grant, clear>>,
           \A i \in Ids : Kept(b, i) \/ Closes(b, i) \/ Expires(b, i)
    PROVE  RowStep(b)
  BY DEF RowStep, TablesTyped, SameRequests, TypeInv, TypeOK

\* A commit that opens the grant of i; other requests may expire with it.
LEMMA GrantWritten ==
    ASSUME TypeInv, NEW b, NEW i \in Ids, SameRequests(b),
           b[i].status = "COMPLETED", grant[i] = "none",
           NEW seen \in SUBSET Nat, NoneHolds(seen, i),
           grant' = [grant EXCEPT ![i] = "active"],
           clear' = [clear EXCEPT ![i] = seen],
           \A j \in Ids \ {i} :
                \/ b[j].status = Status(j)
                \/ /\ b[j].status = "EXPIRED"
                   /\ EndOf(j) # NoEnd /\ EndOf(j) < now
    PROVE  RowStep(b)
<1>1. /\ DOMAIN b = Ids /\ Ids = 1..Len(grant) /\ Ids = 1..Len(clear)
      /\ grant \in Seq(GrantState) /\ clear \in Seq(SUBSET Nat)
      /\ Len(grant) = Len(borrows) /\ Len(clear) = Len(borrows)
      /\ Len(b) = Len(borrows) /\ b \in Seq(BorrowRow)
      /\ \A j \in Ids : b[j].request = borrows[j].request
  BY TableFacts DEF SameRequests, Ids, TypeInv, TypeOK
<1>2. /\ grant' \in Seq(GrantState) /\ Len(grant') = Len(grant)
      /\ \A j \in Ids : grant'[j] = IF j = i THEN "active" ELSE grant[j]
  BY <1>1, WriteEntry DEF GrantState
<1>3. /\ clear' \in Seq(SUBSET Nat) /\ Len(clear') = Len(clear)
      /\ \A j \in Ids : clear'[j] = IF j = i THEN seen ELSE clear[j]
  BY <1>1, WriteEntry
<1>4. TablesTyped(b)
  BY <1>1, <1>2, <1>3 DEF TablesTyped
<1>5. ASSUME NEW j \in Ids
      PROVE  Kept(b, j) \/ Closes(b, j) \/ Expires(b, j) \/ Lends(b, j) \/ Returns(b, j)
  BY <1>2, <1>3 DEF Kept, Expires, Lends, GrantKept
<1> QED
  BY <1>1, <1>4, <1>5 DEF RowStep

\* Nobody holds the setup: who had it once, gave it back.
LEMMA FreeMeansClosed ==
    ASSUME TypeInv, NEW i \in Ids, ~Borrowed(SetupOf(i))
    PROVE  NoneHolds({j \in Ids : grant[j] # "none"}, i)
  BY TableFacts DEF TypeInv, Borrowed, NoneHolds, GrantState

\* The page that shows the list may expire more.
LEMMA ShownStep ==
    ASSUME BorrowConstantsOK, TypeInv, NEW b, RowStep(b)
    PROVE  RowStep(Shown(b))
<1> DEFINE n == Len(b)
           e == Shown(b)
<1>1. /\ b \in Seq(BorrowRow) /\ n \in Nat /\ DOMAIN b = 1..n
      /\ \A i \in 1..n : b[i] \in BorrowRow
  BY LenProperties, ElementOfSeq DEF RowStep, TablesTyped
<1>2. \A i \in 1..n :
        /\ e[i] \in BorrowRow
        /\ e[i].request = b[i].request
        /\ \/ e[i].status = b[i].status
           \/ /\ b[i].status = "PENDING" /\ e[i].status = "EXPIRED"
              /\ b[i].request.end # NoEnd /\ b[i].request.end < now
  BY <1>1 DEF Shown, Stale, BorrowRow, BorrowStatus
<1>3. e = [i \in 1..n |-> e[i]]
  BY <1>1 DEF Shown
<1> HIDE DEF e
<1>4. e \in [1..n -> BorrowRow]
  BY <1>2, <1>3
<1>5. e \in Seq(BorrowRow) /\ Len(e) = n /\ DOMAIN e = DOMAIN b
  BY <1>1, <1>4, TableIsSeq
<1> HIDE DEF n
<1>6. TablesTyped(e)
  BY <1>5 DEF RowStep, TablesTyped, n
<1>7. ASSUME NEW i \in Ids
      PROVE  /\ i \in DOMAIN e /\ e[i].request = borrows[i].request
             /\ \/ Kept(e, i) \/ Closes(e, i) \/ Expires(e, i)
                \/ Lends(e, i) \/ Returns(e, i)
  <2>1. /\ i \in 1..n /\ i \in DOMAIN e /\ b[i].request = borrows[i].request
        /\ \/ Kept(b, i) \/ Closes(b, i) \/ Expires(b, i)
           \/ Lends(b, i) \/ Returns(b, i)
    BY <1>1, <1>5, <1>7 DEF RowStep
  <2>2. e[i].request = borrows[i].request
    BY <1>2, <2>1
  <2>3. CASE e[i].status = b[i].status
    BY <2>1, <2>2, <2>3 DEF Kept, Closes, Expires, Lends, Returns
  <2>4. CASE /\ b[i].status = "PENDING" /\ e[i].status = "EXPIRED"
             /\ b[i].request.end # NoEnd /\ b[i].request.end < now
    <3>1. Kept(b, i)
      BY <2>1, <2>4 DEF Closes, Expires, Lends, Returns
    <3>2. Expires(e, i)
      BY <2>1, <2>4, <3>1 DEF Kept, Expires, EndOf
    <3> QED
      BY <2>1, <2>2, <3>2
  <2> QED
    BY <1>2, <2>1, <2>3, <2>4
<1>8. ASSUME NEW i \in DOMAIN e \ Ids
      PROVE  /\ grant'[i] = "none" /\ clear'[i] = {}
             /\ \/ e[i].status = "PENDING"
                \/ /\ e[i].status = "EXPIRED"
                   /\ e[i].request.end # NoEnd /\ e[i].request.end < now
  <2>1. /\ i \in 1..n /\ grant'[i] = "none" /\ clear'[i] = {}
        /\ \/ b[i].status = "PENDING"
           \/ /\ b[i].status = "EXPIRED"
              /\ b[i].request.end # NoEnd /\ b[i].request.end < now
    BY <1>1, <1>5, <1>8 DEF RowStep
  <2> QED
    BY <1>2, <2>1
<1> QED
  BY <1>6, <1>7, <1>8 DEF RowStep, e

\* Of an API call or of a page, a commit does to a request what its handler
\* does, or it expires it.
LEMMA Written ==
    ASSUME BorrowConstantsOK, TypeInv, NEW b, RowStep(b), Writes(b)
    PROVE  RowStep(borrows')
<1>1. borrows' = b \/ borrows' = Shown(b)
  BY DEF Writes
<1>2. RowStep(Shown(b))
  BY ShownStep
<1> QED
  BY <1>1, <1>2

\* A table in which one status is written.
LEMMA OneStatus ==
    ASSUME TypeInv, NEW i \in Ids, NEW new \in {"REJECTED", "CANCELLED"},
           UNCHANGED <<grant, clear>>
    PROVE  RowStep(SetStatus(i, new))
<1> DEFINE b == SetStatus(i, new)
<1>1. new \in BorrowStatus /\ TypeOK
  BY DEF BorrowStatus, TypeInv
<1>2. /\ SameRequests(b)
      /\ \A j \in Ids : b[j].status = IF j = i THEN new ELSE Status(j)
  BY <1>1, WriteOne
<1> HIDE DEF b
<1>3. RowStep(b)
  BY <1>2, StatusesWritten DEF Kept, Closes, GrantKept
<1> QED
  BY <1>3 DEF b

\* A table in which requests have expired.
LEMMA OnlyExpires ==
    ASSUME TypeInv, NEW ids, AllOver(ids), UNCHANGED <<grant, clear>>
    PROVE  RowStep(Expired(ids))
<1> DEFINE b == Expired(ids)
<1>1. /\ SameRequests(b)
      /\ \A j \in Ids : b[j].status = IF j \in ids THEN "EXPIRED" ELSE Status(j)
  BY WriteExpired DEF TypeInv
<1> HIDE DEF b
<1>2. RowStep(b)
  BY <1>1, StatusesWritten DEF Kept, Expires, GrantKept, AllOver
<1> QED
  BY <1>2 DEF b

\* Steps that leave the tables alone.
LEMMA TablesKept ==
    ASSUME TypeInv, UNCHANGED <<borrows, grant, clear>>
    PROVE  RowStep(borrows')
<1>1. SameRequests(borrows)
  BY DEF SameRequests, Ids, TypeInv, TypeOK
<1>2. RowStep(borrows)
  BY <1>1, StatusesWritten DEF Kept, GrantKept, Status
<1> QED
  BY <1>2

LEMMA CreateAdds ==
    ASSUME BorrowConstantsOK, TypeInv, NEW s \in Sessions, CreateCommit(s)
    PROVE  RowStep(borrows')
<1> DEFINE row == [request |-> proc[s].request, status |-> "PENDING"]
           b == Append(borrows, row)
           n == Len(borrows) + 1
<1>1. row \in BorrowRow /\ row.status = "PENDING"
  BY ProcFields DEF CreateCommit, TypeInv, BorrowRow, BorrowStatus, Procs
<1>2. /\ borrows \in Seq(BorrowRow) /\ grant \in Seq(GrantState)
      /\ clear \in Seq(SUBSET Nat) /\ Len(borrows) \in Nat
      /\ Len(grant) = Len(borrows) /\ Len(clear) = Len(borrows)
      /\ Ids = 1..Len(borrows)
  BY TableFacts DEF TypeInv, TypeOK
<1>3. /\ Writes(b) /\ grant' = Append(grant, "none")
      /\ clear' = Append(clear, {})
  BY DEF CreateCommit
<1> HIDE DEF row
<1>4. /\ b \in Seq(BorrowRow) /\ Len(b) = n
      /\ DOMAIN b = 1..n
      /\ \A i \in Ids : b[i] = borrows[i]
      /\ b[n] = row
  BY <1>1, <1>2, AppendRow
<1> HIDE DEF b
<1>5. /\ grant' \in Seq(GrantState) /\ Len(grant') = n
      /\ \A i \in Ids : grant'[i] = grant[i]
      /\ grant'[n] = "none"
  <2>1. "none" \in GrantState
    BY DEF GrantState
  <2>2. grant' = Append(grant, "none")
    BY <1>3
  <2> QED
    BY <1>2, <2>1, <2>2, AppendRow
<1>6. /\ clear' \in Seq(SUBSET Nat) /\ Len(clear') = n
      /\ \A i \in Ids : clear'[i] = clear[i]
      /\ clear'[n] = {}
  BY <1>2, <1>3, AppendRow
<1>7. TablesTyped(b)
  BY <1>4, <1>5, <1>6 DEF TablesTyped
<1>8. \A i \in Ids : /\ i \in DOMAIN b /\ b[i].request = borrows[i].request
                     /\ Kept(b, i)
  BY <1>2, <1>4, <1>5, <1>6 DEF Kept, GrantKept, Status
<1>9. \A i \in DOMAIN b \ Ids : i = n
  BY <1>2, <1>4
<1>10. RowStep(b)
  BY <1>1, <1>4, <1>5, <1>6, <1>7, <1>8, <1>9 DEF RowStep
<1> QED
  BY <1>3, <1>10, Written

LEMMA ApproveLends ==
    ASSUME BorrowConstantsOK, TypeInv, NEW s \in Sessions, ApproveCommit(s)
    PROVE  RowStep(borrows')
<1> DEFINE i == proc[s].id
           b == SetStatus(i, "COMPLETED")
<1>1. /\ i \in Ids /\ NoneHolds(proc[s].clear, i) /\ proc[s].clear \in SUBSET Nat
      /\ grant[i] = "none"
  BY ProcFields DEF ApproveCommit, TypeInv, ProcsKnow, Knows, Procs
<1>2. /\ Writes(b) /\ grant' = [grant EXCEPT ![i] = "active"]
      /\ clear' = [clear EXCEPT ![i] = proc[s].clear]
  BY DEF ApproveCommit
<1> HIDE DEF i
<1>3. TypeOK /\ "COMPLETED" \in BorrowStatus
  BY DEF TypeInv, BorrowStatus
<1>4. /\ SameRequests(b)
      /\ \A j \in Ids : b[j].status = IF j = i THEN "COMPLETED" ELSE Status(j)
  BY <1>1, <1>3, WriteOne
<1> HIDE DEF b
<1>5. RowStep(b)
  BY <1>1, <1>2, <1>4, GrantWritten
<1> QED
  BY <1>2, <1>5, Written

LEMMA DecidesLocked ==
    ASSUME BorrowConstantsOK, TypeInv, NEW s \in Sessions, DecideLocked(s)
    PROVE  RowStep(borrows')
<1> DEFINE i == proc[s].id
           ids == proc[s].ids
           b(new) == [Expired(ids) EXCEPT ![i].status = new]
<1>1. i \in Ids /\ i \notin ids /\ AllOver(ids) /\ TypeOK
  BY DEF DecideLocked, TypeInv, ProcsKnow, Knows, Procs
<1>2. ASSUME NEW new \in BorrowStatus
      PROVE  /\ SameRequests(b(new))
             /\ \A j \in Ids :
                  b(new)[j].status = IF j = i THEN new ELSE
                                     IF j \in ids THEN "EXPIRED" ELSE Status(j)
  <2> HIDE DEF i, ids
  <2> QED
    BY <1>1, WriteExpiredAndOne
<1>3. \/ /\ grant[i] = "none" /\ ~Borrowed(SetupOf(i)) /\ Writes(b("COMPLETED"))
         /\ grant' = [grant EXCEPT ![i] = "active"]
         /\ clear' = [clear EXCEPT ![i] = {j \in Ids : grant[j] # "none"}]
      \/ Writes(b("REJECTED")) /\ UNCHANGED <<grant, clear>>
  BY DEF DecideLocked, Lendable
<1>4. {"COMPLETED", "REJECTED"} \subseteq BorrowStatus
  BY DEF BorrowStatus
<1> HIDE DEF i, ids, b
<1>5. CASE /\ grant[i] = "none" /\ ~Borrowed(SetupOf(i)) /\ Writes(b("COMPLETED"))
           /\ grant' = [grant EXCEPT ![i] = "active"]
           /\ clear' = [clear EXCEPT ![i] = {j \in Ids : grant[j] # "none"}]
  <2>1. {j \in Ids : grant[j] # "none"} \in SUBSET Nat
    BY TableFacts DEF TypeInv
  <2>2. NoneHolds({j \in Ids : grant[j] # "none"}, i)
    BY <1>1, <1>5, FreeMeansClosed
  <2>3. RowStep(b("COMPLETED"))
    BY <1>1, <1>2, <1>4, <1>5, <2>1, <2>2, GrantWritten DEF AllOver
  <2> QED
    BY <1>5, <2>3, Written
<1>6. CASE Writes(b("REJECTED")) /\ UNCHANGED <<grant, clear>>
  <2>1. RowStep(b("REJECTED"))
    BY <1>1, <1>2, <1>4, <1>6, StatusesWritten
       DEF AllOver, Kept, Closes, Expires, GrantKept
  <2> QED
    BY <1>6, <2>1, Written
<1> QED
  BY <1>3, <1>5, <1>6

LEMMA ReturnCloses ==
    ASSUME BorrowConstantsOK, TypeInv, NEW s \in Sessions, ReturnCommit(s)
    PROVE  RowStep(borrows')
<1> DEFINE i == proc[s].id
           b == SetStatus(i, "RETURNED")
<1>1. i \in Ids /\ TypeOK /\ "RETURNED" \in BorrowStatus
  BY DEF ReturnCommit, TypeInv, ProcsKnow, Knows, Procs, BorrowStatus
<1>2. /\ Writes(b) /\ grant' = [grant EXCEPT ![i] = "closed"]
      /\ clear' = clear
  BY DEF ReturnCommit
<1> HIDE DEF i
<1>3. /\ SameRequests(b)
      /\ \A j \in Ids : b[j].status = IF j = i THEN "RETURNED" ELSE Status(j)
  BY <1>1, WriteOne
<1> HIDE DEF b
<1>4. /\ DOMAIN b = Ids /\ Ids = 1..Len(grant) /\ grant \in Seq(GrantState)
      /\ Len(grant) = Len(borrows) /\ Len(b) = Len(borrows)
      /\ b \in Seq(BorrowRow) /\ clear \in Seq(SUBSET Nat)
      /\ Len(clear) = Len(borrows)
      /\ \A j \in Ids : b[j].request = borrows[j].request
  BY <1>3, TableFacts DEF SameRequests, TypeInv, TypeOK
<1>5. /\ grant' \in Seq(GrantState) /\ Len(grant') = Len(grant)
      /\ \A j \in Ids : grant'[j] = IF j = i THEN "closed" ELSE grant[j]
  BY <1>1, <1>2, <1>4, WriteEntry DEF GrantState
<1>6. TablesTyped(b)
  BY <1>2, <1>4, <1>5 DEF TablesTyped
<1>7. \A j \in Ids : Kept(b, j) \/ Returns(b, j)
  BY <1>2, <1>3, <1>5 DEF Kept, Returns, GrantKept
<1>8. RowStep(b)
  BY <1>4, <1>6, <1>7 DEF RowStep
<1> QED
  BY <1>2, <1>8, Written

\* Every step is one of these.
LEMMA RowSteps ==
    BorrowConstantsOK /\ TypeInv /\ [Next]_vars => RowStep(borrows')
<1> SUFFICES ASSUME BorrowConstantsOK, TypeInv, [Next]_vars
             PROVE  RowStep(borrows')
  OBVIOUS
<1>1. CASE UNCHANGED vars
  BY <1>1, TablesKept DEF vars, db
<1>2. CASE Tick
  BY <1>2, TablesKept DEF Tick, db
<1>3. ASSUME NEW x \in Setups, SetupEdit(x) PROVE RowStep(borrows')
  BY <1>3, TablesKept DEF SetupEdit
<1>4. ASSUME NEW s \in Sessions, Serve(s) PROVE RowStep(borrows')
  <2>1. CASE \/ CreateRead(s) \/ CreateCheck(s) \/ DecideBegin(s)
             \/ DecideRead(s) \/ ApproveCheck(s) \/ CancelRead(s)
             \/ ReturnRead(s)
    <3>1. UNCHANGED <<borrows, grant, clear>>
      BY <2>1 DEF CreateRead, CreateCheck, DecideBegin, DecideRead,
                  ApproveCheck, CancelRead, ReturnRead, db
    <3> QED
      BY <3>1, TablesKept
  <2>2. CASE RejectCommit(s)
    <3>1. proc[s].id \in Ids
      BY <2>2 DEF RejectCommit, TypeInv, ProcsKnow, Knows, Procs
    <3>2. /\ Writes(SetStatus(proc[s].id, "REJECTED"))
          /\ UNCHANGED <<grant, clear>>
      BY <2>2 DEF RejectCommit
    <3> QED
      BY <3>1, <3>2, OneStatus, Written
  <2>3. CASE CancelCommit(s)
    <3>1. proc[s].id \in Ids
      BY <2>3 DEF CancelCommit, TypeInv, ProcsKnow, Knows, Procs
    <3>2. /\ Writes(SetStatus(proc[s].id, "CANCELLED"))
          /\ UNCHANGED <<grant, clear>>
      BY <2>3 DEF CancelCommit
    <3> QED
      BY <3>1, <3>2, OneStatus, Written
  <2>4. CASE DecideRefused(s)
    <3>1. AllOver(proc[s].ids)
      BY <2>4 DEF DecideRefused, TypeInv, ProcsKnow, Knows, Procs
    <3>2. /\ borrows' = Shown(Expired(proc[s].ids))
          /\ UNCHANGED <<grant, clear>>
      BY <2>4 DEF DecideRefused
    <3>3. Writes(Expired(proc[s].ids))
      BY <3>2 DEF Writes
    <3> QED
      BY <3>1, <3>2, <3>3, OnlyExpires, Written
  <2> QED
    BY <1>4, <2>1, <2>2, <2>3, <2>4, CreateAdds, ApproveLends, DecidesLocked,
       ReturnCloses DEF Serve
<1>5. ASSUME NEW p \in Procs, ExpireCommit(p) PROVE RowStep(borrows')
  <2>1. AllOver(proc[p].ids)
    BY <1>5 DEF ExpireCommit, TypeInv, ProcsKnow, Knows
  <2>2. Writes(Expired(proc[p].ids)) /\ UNCHANGED <<grant, clear>>
    BY <1>5 DEF ExpireCommit
  <2> QED
    BY <2>1, <2>2, OnlyExpires, Written
<1>6. ASSUME NEW p \in Procs, ExpireList(p) \/ Abort(p) PROVE RowStep(borrows')
  BY <1>6, TablesKept DEF ExpireList, Abort, db
<1> QED
  BY <1>1, <1>2, <1>3, <1>4, <1>5, <1>6 DEF Next

-----------------------------------------------------------------------------
(* Types, and what sessions know.                                           *)

LEMMA TimeGoesOn ==
    ASSUME BorrowConstantsOK, TypeInv, [Next]_vars
    PROVE  /\ now \in Nat /\ now' \in 0..MaxTime /\ now <= now'
           /\ setups' \in [Setups -> SetupRow]
<1>1. now \in 0..MaxTime /\ MaxTime \in Nat /\ setups \in [Setups -> SetupRow]
  BY DEF BorrowConstantsOK, TypeInv, TypeOK
<1>2. CASE UNCHANGED <<now, setups>>
  BY <1>1, <1>2
<1>3. CASE Tick
  BY <1>1, <1>3 DEF Tick, db
<1>4. ASSUME NEW x \in Setups, SetupEdit(x)
      PROVE  now' = now /\ setups' \in [Setups -> SetupRow]
  BY <1>1, <1>4 DEF SetupEdit
<1>5. ASSUME NEW s \in Sessions, Serve(s) PROVE UNCHANGED <<now, setups>>
  BY <1>5 DEF Serve, CreateRead, CreateCheck, CreateCommit, DecideBegin,
     DecideRead, ApproveCheck, ApproveCommit, RejectCommit, DecideLocked,
     DecideRefused, CancelRead, CancelCommit, ReturnRead, ReturnCommit, db
<1>6. ASSUME NEW p \in Procs, ExpireList(p) \/ ExpireCommit(p) \/ Abort(p)
      PROVE  UNCHANGED <<now, setups>>
  BY <1>6 DEF ExpireList, ExpireCommit, Abort, db
<1>7. UNCHANGED vars => UNCHANGED <<now, setups>>
  BY DEF vars, db
<1> QED
  BY <1>1, <1>2, <1>3, <1>4, <1>5, <1>6, <1>7 DEF Next

\* What was known of the table stays true of it.
LEMMA KnowledgeLasts ==
    ASSUME BorrowConstantsOK, TypeInv, [Next]_vars
    PROVE  \A v \in ProcState : Knows(v) => Knows(v)'
<1> SUFFICES ASSUME NEW v \in ProcState, Knows(v) PROVE Knows(v)'
  OBVIOUS
<1>1. now \in Nat /\ now' \in Nat /\ now <= now'
  BY TimeGoesOn DEF BorrowConstantsOK
<1>2. \A i \in Ids : /\ i \in Ids' /\ SetupOf(i)' = SetupOf(i)
                     /\ EndOf(i)' = EndOf(i)
                     /\ EndOf(i) # NoEnd => EndOf(i) \in Nat
                     /\ grant[i] = "closed" => grant'[i] = "closed"
  <2>1. RowStep(borrows')
    BY RowSteps
  <2>2. ASSUME NEW i \in Ids
        PROVE  /\ i \in Ids' /\ SetupOf(i)' = SetupOf(i) /\ EndOf(i)' = EndOf(i)
    BY <2>1 DEF RowStep, Ids, SetupOf, EndOf
  <2>3. ASSUME NEW i \in Ids, grant[i] = "closed" PROVE grant'[i] = "closed"
    BY <2>1, <2>3 DEF RowStep, Ids, Kept, Closes, Expires, Lends, Returns, GrantKept
  <2>4. \A i \in Ids : EndOf(i) # NoEnd => EndOf(i) \in Nat
    BY TableFacts DEF TypeInv, BorrowConstantsOK
  <2> QED
    BY <2>2, <2>3, <2>4
<1>3. ASSUME NEW ids, AllOver(ids) PROVE AllOver(ids)'
  BY <1>1, <1>2, <1>3 DEF AllOver
<1>4. ASSUME NEW seen, NEW i \in Ids, NoneHolds(seen, i)
      PROVE  NoneHolds(seen, i)'
  BY <1>2, <1>4 DEF NoneHolds
<1>5. v.pc \in {"decide", "check", "grant", "reject", "cancel", "return"} =>
            v.id \in Ids'
  BY <1>2 DEF Knows
<1>6. v.pc \in {"decide", "expire"} => AllOver(v.ids)'
  BY <1>3 DEF Knows
<1>7. v.pc = "grant" => NoneHolds(v.clear, v.id)'
  BY <1>4 DEF Knows
<1> QED
  BY <1>5, <1>6, <1>7 DEF Knows

\* A process goes on with what it has read.
LEMMA GoesKnowing ==
    ASSUME BorrowConstantsOK, TypeInv, [Next]_vars, NEW p \in Procs,
           NEW v \in ProcState, Knows(v), Goes(p, v)
    PROVE  proc' \in [Procs -> ProcState] /\ ProcsKnow'
<1>1. proc \in [Procs -> ProcState] /\ proc' = [proc EXCEPT ![p] = v]
  BY DEF TypeInv, TypeOK, Goes
<1>2. \A q \in Procs : proc'[q] \in ProcState /\ Knows(proc'[q])
  BY <1>1 DEF TypeInv, ProcsKnow
<1>3. \A q \in Procs : Knows(proc[q])'
  BY <1>2, KnowledgeLasts DEF Knows
<1> QED
  BY <1>1, <1>3 DEF ProcsKnow

LEMMA InitTypeInv == BorrowConstantsOK /\ Init => TypeInv
<1> SUFFICES ASSUME BorrowConstantsOK, Init PROVE TypeInv
  OBVIOUS
<1>1. Ids = {} /\ Len(borrows) = 0 /\ Len(grant) = 0 /\ Len(clear) = 0
  BY DEF Init, Ids
<1>2. Idle \in ProcState /\ Knows(Idle)
  BY DEF ProcState, Idle, Knows
<1>3. proc \in [Procs -> ProcState] /\ ProcsKnow
  BY <1>2 DEF Init, ProcsKnow
<1>4. setups \in [Setups -> SetupRow]
  BY DEF Init, SetupRow
<1> QED
  BY <1>1, <1>3, <1>4 DEF Init, TypeInv, TypeOK, BorrowConstantsOK

\* Every place a process can go to, and what it knows there.
LEMMA ProcsTyped ==
    ASSUME BorrowConstantsOK, TypeInv, [Next]_vars
    PROVE  proc' \in [Procs -> ProcState] /\ ProcsKnow'
<1> DEFINE Good == proc' \in [Procs -> ProcState] /\ ProcsKnow'
<1>1. Idle \in ProcState /\ Knows(Idle)
  BY DEF ProcState, Idle, Knows
<1>2. ASSUME NEW p \in Procs, Ends(p) PROVE Good
  <2>1. Goes(p, Idle)
    BY <1>2 DEF Ends
  <2> QED
    BY <1>1, <2>1, GoesKnowing
<1>3. ASSUME proc' = proc PROVE Good
  <2>1. proc \in [Procs -> ProcState] /\ \A q \in Procs : Knows(proc[q])
    BY DEF TypeInv, TypeOK, ProcsKnow
  <2>2. \A q \in Procs : Knows(proc[q])'
    BY <1>3, <2>1, KnowledgeLasts DEF Knows
  <2> QED
    BY <1>3, <2>1, <2>2 DEF ProcsKnow
<1>4. ASSUME NEW p \in Procs PROVE AllOver(ListStale(now)) /\ ListStale(now) \subseteq Nat
  BY TableFacts DEF AllOver, ListStale, Stale, EndOf, TypeInv
<1>5. ASSUME NEW s \in Sessions, CreateRead(s) PROVE Good
  <2>1. PICK x \in Setups, u \in Users, e \in EndTimes :
            Goes(s, [pc |-> "create",
                     request |-> [setup |-> x, requester |-> u,
                                  source |-> setups[x].group,
                                  target |-> GroupOf[u], end |-> e]])
    BY <1>5 DEF CreateRead
  <2> DEFINE r == [setup |-> x, requester |-> u, source |-> setups[x].group,
                   target |-> GroupOf[u], end |-> e]
             v == [pc |-> "create", request |-> r]
  <2>2. setups[x].group \in Groups /\ GroupOf[u] \in Groups
    BY DEF TypeInv, TypeOK, SetupRow, BorrowConstantsOK
  <2>3. r \in Request
    BY <2>2 DEF Request
  <2>4. v \in ProcState /\ Knows(v)
    <3> HIDE DEF r
    <3> QED
      BY <2>3 DEF ProcState, Knows
  <2>5. Goes(s, v) /\ s \in Procs
    BY <2>1 DEF Procs
  <2> HIDE DEF v
  <2> QED
    BY <2>4, <2>5, GoesKnowing
<1>6. ASSUME NEW s \in Sessions, CreateCheck(s) PROVE Good
  <2> DEFINE v == [pc |-> "insert", request |-> proc[s].request]
  <2>1. v \in ProcState /\ Knows(v)
    BY <1>6, ProcFields DEF CreateCheck, TypeInv, ProcState, Knows, Procs
  <2>2. s \in Procs /\ (Goes(s, v) \/ Ends(s))
    BY <1>6 DEF CreateCheck, Procs
  <2> HIDE DEF v
  <2> QED
    BY <1>2, <2>1, <2>2, GoesKnowing
<1>7. ASSUME NEW s \in Sessions, DecideBegin(s) PROVE Good
  <2>1. PICK kind \in {"approve", "reject"}, i \in Ids, u \in Users :
            Goes(s, [pc |-> "decide", kind |-> kind, id |-> i, user |-> u,
                     ids |-> ListStale(now)])
    BY <1>7 DEF DecideBegin
  <2> DEFINE v == [pc |-> "decide", kind |-> kind, id |-> i, user |-> u,
                   ids |-> ListStale(now)]
  <2>2. i \in Nat
    BY TableFacts DEF TypeInv
  <2>3. v \in ProcState
    BY <1>4, <2>2 DEF ProcState, Procs
  <2>4. Knows(v)
    BY <1>4 DEF Knows, Procs
  <2>5. Goes(s, v) /\ s \in Procs
    BY <2>1 DEF Procs
  <2> HIDE DEF v
  <2> QED
    BY <2>3, <2>4, <2>5, GoesKnowing
<1>8. ASSUME NEW s \in Sessions, DecideRead(s) PROVE Good
  <2> DEFINE v(pc) == [pc |-> pc, id |-> proc[s].id]
  <2>1. s \in Procs /\ proc[s].id \in Nat /\ proc[s].id \in Ids
    BY <1>8, ProcFields DEF DecideRead, TypeInv, ProcsKnow, Knows, Procs
  <2>2. \A pc \in {"check", "reject"} : v(pc) \in ProcState /\ Knows(v(pc))
    BY <2>1 DEF ProcState, Knows
  <2>3. Ends(s) \/ Goes(s, v("check")) \/ Goes(s, v("reject"))
    BY <1>8 DEF DecideRead
  <2> HIDE DEF v
  <2> QED
    BY <1>2, <2>1, <2>2, <2>3, GoesKnowing
<1>9. ASSUME NEW s \in Sessions, ApproveCheck(s) PROVE Good
  <2> DEFINE seen == {j \in Ids : grant[j] # "none"}
             v == [pc |-> "grant", id |-> proc[s].id, clear |-> seen]
  <2>1. s \in Procs /\ proc[s].id \in Nat /\ proc[s].id \in Ids
    BY <1>9, ProcFields DEF ApproveCheck, TypeInv, ProcsKnow, Knows, Procs
  <2>2. CASE Lendable(proc[s].id)
    <3>1. NoneHolds(seen, proc[s].id)
      BY <2>1, <2>2, FreeMeansClosed DEF Lendable
    <3>2. seen \in SUBSET Nat
      BY TableFacts DEF TypeInv
    <3>3. Goes(s, v)
      BY <1>9, <2>2 DEF ApproveCheck
    <3> HIDE DEF seen
    <3>4. v \in ProcState /\ Knows(v)
      BY <2>1, <3>1, <3>2 DEF ProcState, Knows
    <3> HIDE DEF v
    <3> QED
      BY <2>1, <3>3, <3>4, GoesKnowing
  <2>3. CASE ~Lendable(proc[s].id)
    BY <1>2, <1>9, <2>1, <2>3 DEF ApproveCheck
  <2> QED
    BY <2>2, <2>3
<1>10. ASSUME NEW s \in Sessions, CancelRead(s) \/ ReturnRead(s) PROVE Good
  <2>1. PICK i \in Ids : \E pc \in {"cancel", "return"} :
                            Goes(s, [pc |-> pc, id |-> i])
    BY <1>10 DEF CancelRead, ReturnRead
  <2>2. PICK pc \in {"cancel", "return"} : Goes(s, [pc |-> pc, id |-> i])
    BY <2>1
  <2> DEFINE v == [pc |-> pc, id |-> i]
  <2>3. i \in Nat /\ s \in Procs
    BY TableFacts DEF TypeInv, Procs
  <2>4. v \in ProcState /\ Knows(v)
    BY <2>3 DEF ProcState, Knows
  <2> HIDE DEF v
  <2> QED
    BY <2>2, <2>3, <2>4, GoesKnowing DEF v
<1>11. ASSUME NEW p \in Procs, ExpireList(p) PROVE Good
  <2> DEFINE v == [pc |-> "expire", ids |-> ListStale(now)]
  <2>1. v \in ProcState /\ Knows(v)
    BY <1>4 DEF ProcState, Knows
  <2>2. Goes(p, v)
    BY <1>11 DEF ExpireList
  <2> HIDE DEF v
  <2> QED
    BY <2>1, <2>2, GoesKnowing
<1>12. ASSUME NEW s \in Sessions,
              \/ CreateCommit(s) \/ ApproveCommit(s) \/ RejectCommit(s)
              \/ DecideLocked(s) \/ DecideRefused(s) \/ CancelCommit(s)
              \/ ReturnCommit(s)
       PROVE  Good
  <2>1. Ends(s) /\ s \in Procs
    BY <1>12 DEF CreateCommit, ApproveCommit, RejectCommit, DecideLocked,
       DecideRefused, CancelCommit, ReturnCommit, Procs
  <2> QED
    BY <1>2, <2>1
<1>13. ASSUME NEW p \in Procs, ExpireCommit(p) \/ Abort(p) PROVE Good
  BY <1>2, <1>13 DEF ExpireCommit, Abort
<1>14. ASSUME \/ UNCHANGED vars \/ Tick \/ \E x \in Setups : SetupEdit(x)
       PROVE  Good
  BY <1>3, <1>14 DEF vars, Tick, SetupEdit
<1> HIDE DEF Good
<1>15. ASSUME NEW s \in Sessions, Serve(s) PROVE Good
  BY <1>5, <1>6, <1>7, <1>8, <1>9, <1>10, <1>12, <1>15 DEF Serve
<1> QED
  BY <1>11, <1>13, <1>14, <1>15 DEF Next, Good

LEMMA TypeInvStep == BorrowConstantsOK /\ TypeInv /\ [Next]_vars => TypeInv'
<1> SUFFICES ASSUME BorrowConstantsOK, TypeInv, [Next]_vars PROVE TypeInv'
  OBVIOUS
<1> QED
  BY RowSteps, TimeGoesOn, ProcsTyped DEF TypeInv, TypeOK, RowStep, TablesTyped

\* Every variable keeps its type.
THEOREM TypeCorrect == Spec => []TypeOK
<1>1. Init => TypeInv
  BY BorrowConstantsOK, InitTypeInv
<1>2. TypeInv /\ [Next]_vars => TypeInv'
  BY BorrowConstantsOK, TypeInvStep
<1>3. TypeInv => TypeOK
  BY DEF TypeInv
<1> QED
  BY <1>1, <1>2, <1>3, PTL DEF Spec
-----------------------------------------------------------------------------
(* What holds for any number of sessions and sweepers.                      *)

\* Whatever i's approval had seen granted on the setup is closed.
GrantedWhenClear == \A i \in Ids : NoneHolds(clear[i], i)

RaceInv == TypeInv /\ GrantedWhenClear /\ CompletedIsHeld /\ ExpiredWasOver

LEMMA InitRaceInv == BorrowConstantsOK /\ Init => RaceInv
<1> SUFFICES ASSUME BorrowConstantsOK, Init PROVE RaceInv
  OBVIOUS
<1>1. Ids = {}
  BY DEF Init, Ids
<1> QED
  BY <1>1, InitTypeInv
     DEF RaceInv, GrantedWhenClear, CompletedIsHeld, ExpiredWasOver

\* What is closed stays closed, and the requests stay what they are.
LEMMA NoneHoldsLasts ==
    ASSUME RowStep(borrows'), NEW i \in Ids, NEW seen, NoneHolds(seen, i)
    PROVE  NoneHolds(seen, i)'
<1>1. \A j \in Ids : j \in Ids' /\ SetupOf(j)' = SetupOf(j)
  BY DEF RowStep, Ids, SetupOf
<1>2. ASSUME NEW j \in Ids, grant[j] = "closed" PROVE grant'[j] = "closed"
  BY <1>2 DEF RowStep, Ids, Kept, Closes, Expires, Lends, Returns, GrantKept
<1> QED
  BY <1>1, <1>2 DEF NoneHolds

LEMMA RaceInvStep == BorrowConstantsOK /\ RaceInv /\ [Next]_vars => RaceInv'
<1> SUFFICES ASSUME BorrowConstantsOK, RaceInv, [Next]_vars PROVE RaceInv'
  OBVIOUS
<1>1. TypeInv /\ TypeInv'
  BY TypeInvStep DEF RaceInv
<1>2. RowStep(borrows')
  BY BorrowConstantsOK, <1>1, RowSteps
<1>3. now \in Nat /\ now' \in Nat /\ now <= now'
  BY <1>1, TimeGoesOn DEF BorrowConstantsOK
<1>4. GrantedWhenClear'
  <2>1. ASSUME NEW i \in Ids PROVE NoneHolds(clear[i], i)'
    <3>1. CASE clear'[i] = clear[i]
      <4>1. NoneHolds(clear[i], i)
        BY DEF RaceInv, GrantedWhenClear
      <4>2. NoneHolds(clear'[i], i)
        BY <3>1, <4>1
      <4> QED
        BY <1>2, <4>2, NoneHoldsLasts DEF NoneHolds
    <3>2. CASE Lends(borrows', i)
      <4>1. NoneHolds(clear'[i], i)
        BY <3>2 DEF Lends
      <4> QED
        BY <1>2, <4>1, NoneHoldsLasts DEF NoneHolds
    <3> QED
      BY <1>2, <3>1, <3>2
         DEF RowStep, Ids, Kept, Closes, Expires, Returns, GrantKept
  <2>2. ASSUME NEW i \in Ids' \ Ids PROVE NoneHolds(clear[i], i)'
    <3>1. clear'[i] = {}
      BY <1>2 DEF RowStep, Ids
    <3> QED
      BY <3>1 DEF NoneHolds
  <2> QED
    BY <2>1, <2>2 DEF GrantedWhenClear, NoneHolds
<1>5. CompletedIsHeld'
  <2>1. ASSUME NEW i \in Ids, Status(i)' = "COMPLETED" PROVE grant'[i] = "active"
    BY <1>2, <2>1 DEF RowStep, Ids, Kept, Closes, Expires, Lends, Returns, GrantKept,
       RaceInv, CompletedIsHeld, Lent, Status
  <2>2. ASSUME NEW i \in Ids' \ Ids PROVE Status(i)' # "COMPLETED"
    BY <1>2 DEF RowStep, Ids, Status
  <2> QED
    BY <2>1, <2>2 DEF CompletedIsHeld, Lent
<1>6. ExpiredWasOver'
  <2>1. ASSUME NEW i \in Ids, Status(i)' = "EXPIRED"
        PROVE  EndOf(i)' # NoEnd /\ EndOf(i)' < now'
    <3>1. EndOf(i)' = EndOf(i)
      BY <1>2 DEF RowStep, Ids, EndOf
    <3>2. EndOf(i) # NoEnd => EndOf(i) \in Nat
      BY <1>1, TableFacts DEF TypeInv, BorrowConstantsOK
    <3>3. EndOf(i) # NoEnd /\ EndOf(i) < now
      BY <1>2, <2>1 DEF RowStep, Ids, Kept, Closes, Expires, Lends, Returns,
         RaceInv, ExpiredWasOver, Status
    <3> QED
      BY <1>3, <3>1, <3>2, <3>3
  <2>2. ASSUME NEW i \in Ids' \ Ids, Status(i)' = "EXPIRED"
        PROVE  EndOf(i)' # NoEnd /\ EndOf(i)' < now'
    <3>1. EndOf(i)' # NoEnd /\ EndOf(i)' < now
      BY <1>2, <2>2 DEF RowStep, Ids, Status, EndOf
    <3>2. EndOf(i)' \in Nat
      <4>1. borrows' \in Seq(BorrowRow) /\ i \in 1..Len(borrows')
        BY <1>2, <2>2, LenProperties DEF RowStep, TablesTyped, Ids
      <4>2. borrows'[i] \in BorrowRow
        BY <4>1, ElementOfSeq
      <4> QED
        BY <3>1, <4>2 DEF BorrowConstantsOK, BorrowRow, Request, EndOf
    <3> QED
      BY <1>3, <3>1, <3>2
  <2> QED
    BY <2>1, <2>2 DEF ExpiredWasOver
<1> QED
  BY <1>1, <1>4, <1>5, <1>6 DEF RaceInv

LEMMA Races == Spec => []RaceInv
<1>1. Init => RaceInv
  BY BorrowConstantsOK, InitRaceInv
<1>2. RaceInv /\ [Next]_vars => RaceInv'
  BY BorrowConstantsOK, RaceInvStep
<1> QED
  BY <1>1, <1>2, PTL DEF Spec

\* A setup is lent twice only by two approvals neither of which saw the other.
THEOREM DoubleGrantIsRace == Spec => []TwoGrantsNeedRace
<1>1. RaceInv => TwoGrantsNeedRace
  BY DEF RaceInv, GrantedWhenClear, NoneHolds, TwoGrantsNeedRace, Lent
<1> QED
  BY <1>1, Races, PTL

\* No interleaving leaves a COMPLETED request without its grant.
THEOREM CompletedHeld == Spec => []CompletedIsHeld
<1>1. RaceInv => CompletedIsHeld
  BY DEF RaceInv
<1> QED
  BY <1>1, Races, PTL

\* No request expires within its window, however late a listing is committed.
THEOREM ExpiredOver == Spec => []ExpiredWasOver
<1>1. RaceInv => ExpiredWasOver
  BY DEF RaceInv
<1> QED
  BY <1>1, Races, PTL

\* Both statuses have their reason, however the writers overlap.
THEOREM StatusHasReason == Spec => []StatusExplained
<1>1. CompletedIsHeld /\ ExpiredWasOver => StatusExplained
  BY DEF StatusExplained
<1> QED
  BY <1>1, CompletedHeld, ExpiredOver, PTL

\* Grants are opened and closed once and never deleted.
THEOREM GrantHistory == Spec => GrantsAreHistory
<1> DEFINE A == \A i \in Ids :
                    /\ i \in DOMAIN grant'
                    /\ grant[i] = "closed" => grant'[i] = "closed"
                    /\ grant[i] = "active" => grant'[i] # "none"
<1>1. TypeInv /\ [Next]_vars => A
  <2> SUFFICES ASSUME TypeInv, [Next]_vars, NEW i \in Ids
               PROVE  /\ i \in DOMAIN grant'
                      /\ grant[i] = "closed" => grant'[i] = "closed"
                      /\ grant[i] = "active" => grant'[i] # "none"
    OBVIOUS
  <2>1. RowStep(borrows') /\ TypeInv'
    BY BorrowConstantsOK, RowSteps, TypeInvStep
  <2>2. DOMAIN grant' = Ids'
    BY <2>1, LenProperties DEF TypeInv, TypeOK, Ids
  <2>3. i \in DOMAIN grant'
    BY <2>1, <2>2 DEF RowStep, Ids
  <2> QED
    BY <2>1, <2>3 DEF RowStep, Ids, Kept, Closes, Expires, Lends, Returns, GrantKept
<1>2. RaceInv => TypeInv
  BY DEF RaceInv
<1> QED
  BY <1>1, <1>2, Races, PTL DEF Spec, GrantsAreHistory
-----------------------------------------------------------------------------
(* What holds with one session beside any number of sweepers.               *)

OneSession == \A s, t \in Sessions : s = t

FreeFor(i) == \A j \in Ids : SetupOf(j) = SetupOf(i) => grant[j] # "active"

Becomes(i, g) == \A j \in Ids : grant'[j] = IF j = i THEN g ELSE grant[j]

GrantsKept == \A j \in Ids : grant'[j] = grant[j]

\* Only an approval opens a grant, and it was free when it was checked: just
\* now, or when the session went on to the grant.
LEMMA GrantSteps ==
    ASSUME TypeInv, [Next]_vars
    PROVE  \/ GrantsKept
           \/ \E i \in Ids : Becomes(i, "closed")
           \/ \E s \in Sessions :
                /\ proc[s].id \in Ids
                /\ proc[s].pc = "grant" \/ FreeFor(proc[s].id)
                /\ Becomes(proc[s].id, "active")
                /\ Ends(s)
<1> DEFINE Goal ==
           \/ GrantsKept
           \/ \E i \in Ids : Becomes(i, "closed")
           \/ \E s \in Sessions :
                /\ proc[s].id \in Ids
                /\ proc[s].pc = "grant" \/ FreeFor(proc[s].id)
                /\ Becomes(proc[s].id, "active")
                /\ Ends(s)
<1>1. /\ grant \in Seq(GrantState) /\ DOMAIN grant = Ids
      /\ Ids = 1..Len(grant)
  BY TableFacts DEF TypeInv, TypeOK
<1>2. ASSUME grant' = grant PROVE Goal
  BY <1>2 DEF GrantsKept
<1>3. ASSUME NEW s \in Sessions, CreateCommit(s) PROVE Goal
  <2>1. grant' = Append(grant, "none")
    BY <1>3 DEF CreateCommit
  <2>2. GrantsKept
    BY <1>1, <2>1, AppendRow DEF GrantsKept, GrantState
  <2> QED
    BY <2>2
<1>4. ASSUME NEW s \in Sessions, ApproveCommit(s) PROVE Goal
  <2>1. /\ proc[s].id \in Ids /\ proc[s].pc = "grant" /\ Ends(s)
        /\ grant' = [grant EXCEPT ![proc[s].id] = "active"]
    BY <1>4 DEF ApproveCommit, TypeInv, ProcsKnow, Knows, Procs
  <2>2. Becomes(proc[s].id, "active")
    BY <1>1, <2>1 DEF Becomes
  <2> QED
    BY <2>1, <2>2
<1>5. ASSUME NEW s \in Sessions, DecideLocked(s) PROVE Goal
  <2>1. proc[s].id \in Ids /\ Ends(s)
    BY <1>5 DEF DecideLocked, TypeInv, ProcsKnow, Knows, Procs
  <2>2. \/ grant' = grant
        \/ /\ ~Borrowed(SetupOf(proc[s].id))
           /\ grant' = [grant EXCEPT ![proc[s].id] = "active"]
    BY <1>5 DEF DecideLocked, Lendable
  <2>3. ASSUME ~Borrowed(SetupOf(proc[s].id)) PROVE FreeFor(proc[s].id)
    BY <2>3 DEF Borrowed, FreeFor
  <2>4. ASSUME grant' = [grant EXCEPT ![proc[s].id] = "active"]
        PROVE  Becomes(proc[s].id, "active")
    BY <1>1, <2>1, <2>4 DEF Becomes
  <2> QED
    BY <1>2, <2>1, <2>2, <2>3, <2>4
<1>6. ASSUME NEW s \in Sessions, ReturnCommit(s) PROVE Goal
  <2>1. /\ proc[s].id \in Ids
        /\ grant' = [grant EXCEPT ![proc[s].id] = "closed"]
    BY <1>6 DEF ReturnCommit, TypeInv, ProcsKnow, Knows, Procs
  <2>2. Becomes(proc[s].id, "closed")
    BY <1>1, <2>1 DEF Becomes
  <2> QED
    BY <2>1, <2>2
<1>7. ASSUME NEW s \in Sessions,
             \/ CreateRead(s) \/ CreateCheck(s) \/ DecideBegin(s)
             \/ DecideRead(s) \/ ApproveCheck(s) \/ RejectCommit(s)
             \/ DecideRefused(s) \/ CancelRead(s) \/ CancelCommit(s)
             \/ ReturnRead(s)
      PROVE  grant' = grant
  BY <1>7 DEF CreateRead, CreateCheck, DecideBegin, DecideRead, ApproveCheck,
     RejectCommit, DecideRefused, CancelRead, CancelCommit, ReturnRead, db
<1>8. ASSUME NEW p \in Procs, ExpireList(p) \/ ExpireCommit(p) \/ Abort(p)
      PROVE  grant' = grant
  BY <1>8 DEF ExpireList, ExpireCommit, Abort, db
<1>9. ASSUME \/ UNCHANGED vars \/ Tick \/ \E x \in Setups : SetupEdit(x)
      PROVE  grant' = grant
  BY <1>9 DEF vars, db, Tick, SetupEdit
<1> HIDE DEF Goal
<1>10. ASSUME NEW s \in Sessions, Serve(s) PROVE Goal
  BY <1>2, <1>3, <1>4, <1>5, <1>6, <1>7, <1>10 DEF Serve
<1> QED
  BY <1>2, <1>8, <1>9, <1>10 DEF Next, Goal

\* The session that is about to grant finds the setup still free.
AboutToGrant ==
    \A s \in Sessions : proc[s].pc = "grant" => FreeFor(proc[s].id)

\* How a session comes to be about to grant.
LEMMA AboutToGrantSteps ==
    ASSUME TypeInv, [Next]_vars, NEW s \in Sessions, proc'[s].pc = "grant"
    PROVE  \/ proc'[s] = proc[s]
           \/ /\ proc'[s].id = proc[s].id /\ proc[s].id \in Ids
              /\ ~Borrowed(SetupOf(proc[s].id)) /\ UNCHANGED db
<1> DEFINE Goal ==
        \/ proc'[s] = proc[s]
        \/ /\ proc'[s].id = proc[s].id /\ proc[s].id \in Ids
           /\ ~Borrowed(SetupOf(proc[s].id)) /\ UNCHANGED db
<1>1. proc \in [Procs -> ProcState] /\ s \in Procs
  BY DEF TypeInv, TypeOK, Procs
<1>2. ASSUME NEW p \in Procs, NEW v, Goes(p, v), v.pc # "grant" PROVE Goal
  BY <1>1, <1>2 DEF Goes
<1>3. Idle.pc # "grant"
  BY DEF Idle
<1>4. ASSUME NEW p \in Procs, Ends(p) PROVE Goal
  BY <1>1, <1>3, <1>4 DEF Ends, Goes
<1>5. ASSUME NEW t \in Sessions, ApproveCheck(t) PROVE Goal
  <2>1. proc[t].id \in Ids /\ t \in Procs
    BY <1>5 DEF ApproveCheck, TypeInv, ProcsKnow, Knows, Procs
  <2>2. \/ Ends(t)
        \/ /\ ~Borrowed(SetupOf(proc[t].id)) /\ UNCHANGED db
           /\ Goes(t, [pc |-> "grant", id |-> proc[t].id,
                       clear |-> {j \in Ids : grant[j] # "none"}])
    BY <1>5 DEF ApproveCheck, Lendable
  <2> QED
    BY <1>1, <1>4, <2>1, <2>2 DEF Goes
<1>6. ASSUME NEW t \in Sessions,
             \/ CreateRead(t) \/ CreateCheck(t) \/ DecideBegin(t)
             \/ DecideRead(t) \/ CancelRead(t) \/ ReturnRead(t)
      PROVE  Goal
  <2>0. t \in Procs
    BY DEF Procs
  <2>1. CASE CreateRead(t)
    <3>1. PICK r : Goes(t, [pc |-> "create", request |-> r])
      BY <2>1 DEF CreateRead
    <3>2. [pc |-> "create", request |-> r].pc # "grant"
      OBVIOUS
    <3> QED
      BY <1>2, <2>0, <3>1, <3>2
  <2>2. CASE CreateCheck(t)
    <3>1. Ends(t) \/ Goes(t, [pc |-> "insert", request |-> proc[t].request])
      BY <2>2 DEF CreateCheck
    <3>2. [pc |-> "insert", request |-> proc[t].request].pc # "grant"
      OBVIOUS
    <3> QED
      BY <1>2, <1>4, <2>0, <3>1, <3>2
  <2>3. CASE DecideBegin(t)
    <3>1. PICK kind, i, u :
            Goes(t, [pc |-> "decide", kind |-> kind, id |-> i, user |-> u,
                     ids |-> ListStale(now)])
      BY <2>3 DEF DecideBegin
    <3>2. [pc |-> "decide", kind |-> kind, id |-> i, user |-> u,
           ids |-> ListStale(now)].pc # "grant"
      OBVIOUS
    <3> QED
      BY <1>2, <2>0, <3>1, <3>2
  <2>4. CASE DecideRead(t)
    <3>1. Ends(t) \/ \E pc \in {"check", "reject"} :
                        Goes(t, [pc |-> pc, id |-> proc[t].id])
      BY <2>4 DEF DecideRead
    <3>2. \A pc : [pc |-> pc, id |-> proc[t].id].pc = pc
      OBVIOUS
    <3> QED
      BY <1>2, <1>4, <2>0, <3>1, <3>2
  <2>5. CASE CancelRead(t) \/ ReturnRead(t)
    <3>1. PICK i : \E pc \in {"cancel", "return"} :
                        Goes(t, [pc |-> pc, id |-> i])
      BY <2>5 DEF CancelRead, ReturnRead
    <3>2. \A pc : [pc |-> pc, id |-> i].pc = pc
      OBVIOUS
    <3> QED
      BY <1>2, <2>0, <3>1, <3>2
  <2> QED
    BY <1>6, <2>1, <2>2, <2>3, <2>4, <2>5
<1>7. ASSUME NEW t \in Sessions,
             \/ CreateCommit(t) \/ ApproveCommit(t) \/ RejectCommit(t)
             \/ DecideLocked(t) \/ DecideRefused(t) \/ CancelCommit(t)
             \/ ReturnCommit(t)
      PROVE  Ends(t) /\ t \in Procs
  BY <1>7 DEF CreateCommit, ApproveCommit, RejectCommit, DecideLocked,
     DecideRefused, CancelCommit, ReturnCommit, Procs
<1>8. ASSUME NEW p \in Procs, ExpireList(p) \/ ExpireCommit(p) \/ Abort(p)
      PROVE  Goal
  <2>1. \E v : Goes(p, v) /\ v.pc # "grant"
    BY <1>3, <1>8 DEF ExpireList, ExpireCommit, Abort, Ends
  <2> QED
    BY <1>2, <2>1
<1>9. ASSUME \/ UNCHANGED vars \/ Tick \/ \E x \in Setups : SetupEdit(x)
      PROVE  Goal
  BY <1>9 DEF vars, Tick, SetupEdit
<1> HIDE DEF Goal
<1> QED
  BY <1>4, <1>5, <1>6, <1>7, <1>8, <1>9 DEF Next, Serve, Goal

OneInv == TypeInv /\ OneGrant /\ AboutToGrant

LEMMA InitOneInv == BorrowConstantsOK /\ Init => OneInv
<1> SUFFICES ASSUME BorrowConstantsOK, Init PROVE OneInv
  OBVIOUS
<1>1. Ids = {} /\ \A s \in Sessions : proc[s].pc # "grant"
  BY DEF Init, Ids, Idle, Procs
<1> QED
  BY <1>1, InitTypeInv DEF OneInv, OneGrant, AboutToGrant

\* The setup of a grant that opens is free, whichever way it was checked.
LEMMA OpensFree ==
    ASSUME OneInv, NEW s \in Sessions,
           proc[s].pc = "grant" \/ FreeFor(proc[s].id)
    PROVE  FreeFor(proc[s].id)
  BY DEF OneInv, AboutToGrant

LEMMA OneInvStep ==
    BorrowConstantsOK /\ OneSession /\ OneInv /\ [Next]_vars => OneInv'
<1> SUFFICES ASSUME BorrowConstantsOK, OneSession, OneInv, [Next]_vars
             PROVE  OneInv'
  OBVIOUS
<1>1. TypeInv /\ TypeInv' /\ OneGrant
  BY TypeInvStep DEF OneInv
<1>2. RowStep(borrows')
  BY BorrowConstantsOK, <1>1, RowSteps
<1>3. /\ \A i \in Ids : i \in Ids' /\ SetupOf(i)' = SetupOf(i)
      /\ \A i \in Ids' \ Ids : grant'[i] = "none"
  BY <1>2 DEF RowStep, Ids, SetupOf
<1>4. CASE \/ GrantsKept
           \/ \E i \in Ids : Becomes(i, "closed")
  <2>1. \A j \in Ids : grant'[j] = "active" => grant[j] = "active"
    BY <1>4 DEF GrantsKept, Becomes
  <2>2. OneGrant'
    BY <1>1, <1>3, <2>1 DEF OneGrant, Lent
  <2>3. ASSUME NEW i \in Ids, FreeFor(i) PROVE FreeFor(i)'
    BY <1>3, <2>1, <2>3 DEF FreeFor
  <2>4. AboutToGrant'
    <3> SUFFICES ASSUME NEW s \in Sessions, proc'[s].pc = "grant"
                 PROVE  FreeFor(proc[s].id)'
      BY DEF AboutToGrant
    <3>1. CASE proc'[s] = proc[s]
      <4>1. FreeFor(proc[s].id) /\ proc[s].id \in Ids
        BY <1>1, <3>1 DEF OneInv, AboutToGrant, TypeInv, ProcsKnow, Knows, Procs
      <4>2. proc'[s].id = proc[s].id
        BY <3>1
      <4> QED
        BY <1>3, <2>1, <4>1, <4>2 DEF FreeFor
    <3>2. CASE /\ proc'[s].id = proc[s].id /\ proc[s].id \in Ids
               /\ ~Borrowed(SetupOf(proc[s].id)) /\ UNCHANGED db
      <4>1. FreeFor(proc[s].id)
        BY <3>2 DEF Borrowed, FreeFor
      <4> QED
        BY <1>3, <2>1, <3>2, <4>1 DEF FreeFor
    <3> QED
      BY <1>1, <3>1, <3>2, AboutToGrantSteps
  <2> QED
    BY <1>1, <2>2, <2>4 DEF OneInv
<1>5. ASSUME NEW s \in Sessions,
             proc[s].id \in Ids,
             proc[s].pc = "grant" \/ FreeFor(proc[s].id),
             Becomes(proc[s].id, "active"), Ends(s)
      PROVE  OneInv'
  <2>1. FreeFor(proc[s].id)
    BY <1>5, OpensFree
  <2>2. OneGrant'
    BY <1>1, <1>3, <1>5, <2>1 DEF OneGrant, Lent, FreeFor, Becomes
  <2>3. proc'[s] = Idle
    BY <1>1, <1>5 DEF Ends, Goes, TypeInv, TypeOK, Procs
  <2>4. AboutToGrant'
    BY <2>3 DEF AboutToGrant, OneSession, Idle
  <2> QED
    BY <1>1, <2>2, <2>4 DEF OneInv
<1> QED
  BY <1>1, <1>4, <1>5, GrantSteps

LEMMA OneSessionInv == ASSUME OneSession PROVE Spec => []OneInv
<1>1. Init => OneInv
  BY BorrowConstantsOK, InitOneInv
<1>2. OneInv /\ [Next]_vars => OneInv'
  BY BorrowConstantsOK, OneInvStep
<1> QED
  BY <1>1, <1>2, PTL DEF Spec

\* With one session, beside any number of sweepers, a setup is lent to one
\* group at a time.
THEOREM LentOnce == ASSUME OneSession PROVE Spec => []OneGrant
<1>1. OneInv => OneGrant
  BY DEF OneInv
<1> QED
  BY <1>1, OneSessionInv, PTL

-----------------------------------------------------------------------------
(* With one session, Borrow implements Lending.                             *)

Pair(i) == <<SetupOf(i), borrows[i].request.target>>

LEMMA LentPairsAre ==
    ASSUME TypeOK
    PROVE  /\ LentPairs \subseteq Setups \X Groups
           /\ \A q : q \in LentPairs <=> \E i \in Ids : Lent(i) /\ q = Pair(i)
  BY TableFacts DEF LentPairs, Pair

LEMMA PairsPersist ==
    ASSUME RowStep(borrows')
    PROVE  \A i \in Ids : i \in Ids' /\ Pair(i)' = Pair(i)
  BY DEF RowStep, Ids, Pair, SetupOf

LEMMA StepsLend ==
    BorrowConstantsOK /\ OneSession /\ OneInv /\ [Next]_vars
        => [L!Next]_LentPairs
<1> SUFFICES ASSUME BorrowConstantsOK, OneSession, OneInv, [Next]_vars
             PROVE  L!Next \/ LentPairs' = LentPairs
  OBVIOUS
<1>1. TypeInv /\ TypeInv' /\ OneGrant /\ TypeOK /\ TypeOK'
  BY TypeInvStep DEF OneInv, TypeInv
<1>2. RowStep(borrows')
  BY BorrowConstantsOK, <1>1, RowSteps
<1>3. /\ \A i \in Ids : i \in Ids' /\ Pair(i)' = Pair(i)
      /\ \A i \in Ids' \ Ids : grant'[i] = "none"
  BY <1>2, PairsPersist DEF RowStep, Ids
<1>4. /\ \A q : q \in LentPairs <=> \E i \in Ids : grant[i] = "active" /\ q = Pair(i)
      /\ \A q : q \in LentPairs' <=>
                    \E i \in Ids : grant'[i] = "active" /\ q = Pair(i)
  <2>1. \A q : q \in LentPairs <=> \E i \in Ids : grant[i] = "active" /\ q = Pair(i)
    BY <1>1, LentPairsAre DEF Lent
  <2>2. \A q : q \in LentPairs' <=>
                    \E i \in Ids' : grant'[i] = "active" /\ q = Pair(i)'
    BY <1>1 DEF LentPairs, Pair, Lent
  <2> QED
    BY <1>3, <2>1, <2>2
<1>5. \A i \in Ids : /\ SetupOf(i) \in Setups
                     /\ borrows[i].request.target \in Groups
  BY <1>1, TableFacts
<1>6. CASE GrantsKept
  BY <1>4, <1>6 DEF GrantsKept
<1>7. ASSUME NEW i \in Ids, Becomes(i, "closed")
      PROVE  L!Next \/ LentPairs' = LentPairs
  <2>1. CASE grant[i] = "active"
    <3>1. \A j \in Ids : grant[j] = "active" /\ Pair(j) = Pair(i) => j = i
      BY <1>1, <2>1 DEF OneGrant, Lent, Pair
    <3>2. Pair(i) \in LentPairs
      BY <1>4, <2>1
    <3>3. LentPairs' = LentPairs \ {Pair(i)}
      BY <1>4, <1>7, <3>1 DEF Becomes
    <3>4. L!GiveBack(SetupOf(i), borrows[i].request.target)
      BY <3>2, <3>3 DEF L!GiveBack, Pair
    <3> QED
      BY <1>5, <3>4 DEF L!Next
  <2>2. CASE grant[i] # "active"
    BY <1>4, <1>7, <2>2 DEF Becomes
  <2> QED
    BY <2>1, <2>2
<1>8. ASSUME NEW i \in Ids, FreeFor(i), Becomes(i, "active")
      PROVE  L!Next
  <2>1. LentPairs' = LentPairs \union {Pair(i)}
    BY <1>4, <1>8 DEF Becomes
  <2>2. \A j \in Ids : grant[j] = "active" => SetupOf(j) # SetupOf(i)
    BY <1>8 DEF FreeFor
  <2>3. L!Free(SetupOf(i))
    BY <1>4, <2>2 DEF L!Free, Pair
  <2>4. L!Lend(SetupOf(i), borrows[i].request.target)
    BY <2>1, <2>3 DEF L!Lend, Pair
  <2> QED
    BY <1>5, <2>4 DEF L!Next
<1>9. ASSUME NEW s \in Sessions,
             proc[s].id \in Ids,
             proc[s].pc = "grant" \/ FreeFor(proc[s].id),
             Becomes(proc[s].id, "active")
      PROVE  L!Next
  BY <1>8, <1>9, OpensFree
<1> QED
  BY <1>1, <1>6, <1>7, <1>9, GrantSteps

\* Every step of one session and any number of sweepers lends a free setup,
\* takes a lent one back, or changes nothing a borrower can see.
THEOREM BorrowLends == ASSUME OneSession PROVE Spec => ImplementsLending
<1>1. Init => L!Init
  BY DEF Init, L!Init, LentPairs, Ids
<1>2. OneInv /\ [Next]_vars => [L!Next]_LentPairs
  BY BorrowConstantsOK, StepsLend
<1> QED
  BY <1>1, <1>2, OneSessionInv, PTL DEF Spec, L!Spec, ImplementsLending
=============================================================================
