------------------------- MODULE ReservationProofs -------------------------
(***************************************************************************)
(* Theorems about Reservations for every value of its constants: types and *)
(* references, the shape of double bookings, the single-session calendar,  *)
(* and why no setup is left RESERVED by stale reads.                       *)
(***************************************************************************)
EXTENDS ReservationProperties, Tables, FiniteSetTheorems

-----------------------------------------------------------------------------
(* Sequences as tables.                                                    *)

\* Closing rows changes no booking and makes no row ACTIVE.
LEMMA CloseRows ==
    ASSUME res \in Seq(Row), NEW ids, NEW new \in ReservationStatus,
           new # "ACTIVE"
    PROVE  LET r == SetStatusOf(ids, new) IN
           /\ r \in Seq(Row) /\ Len(r) = Len(res) /\ DOMAIN r = DOMAIN res
           /\ \A i \in Ids : /\ r[i].booking = res[i].booking
                             /\ r[i].status = IF i \in ids THEN new
                                              ELSE res[i].status
<1> DEFINE r == SetStatusOf(ids, new)
<1>1. Len(res) \in Nat /\ DOMAIN res = 1..Len(res) /\ res \in [1..Len(res) -> Row]
  BY LenProperties
<1>2. ASSUME NEW i \in Ids
      PROVE  /\ r[i] \in Row
             /\ r[i].booking = res[i].booking
             /\ r[i].status = IF i \in ids THEN new ELSE res[i].status
  <2>1. res[i] \in Row
    BY <1>1 DEF Ids
  <2> QED
    BY <2>1 DEF SetStatusOf, Row, Ids
<1>3. r \in [1..Len(res) -> Row]
  BY <1>1, <1>2 DEF SetStatusOf, Ids
<1> HIDE DEF r
<1>4. r \in Seq(Row) /\ Len(r) = Len(res) /\ DOMAIN r = 1..Len(res)
  BY <1>1, <1>3, TableIsSeq
<1> QED
  BY <1>1, <1>2, <1>4 DEF r

-----------------------------------------------------------------------------
(* Types and references.                                                   *)

\* What the handlers keep refers to rows that exist, rows to setups that do.
References ==
    /\ \A s \in Sessions : session[s].pc = "cancel" => session[s].id \in Ids
    /\ \A w \in Sweepers :
        /\ sweeper[w].pc \in {"listed", "sweep"} => sweeper[w].ids \subseteq Ids
        /\ sweeper[w].pc = "sweep" => sweeper[w].first \in sweeper[w].ids
    /\ NoOrphan

TypeInv == TypeOK /\ References

\* A session's fields have the types of the place it is at.
LEMMA SessionFields ==
    ASSUME TypeOK, NEW s \in Sessions
    PROVE  /\ session[s] = Idle => session[s].pc = "idle"
           /\ session[s].pc \in {"create", "insert"} =>
                /\ session[s].booking \in Booking
                /\ session[s].seen \in SetupStatus
                /\ session[s].mail \in BOOLEAN
           /\ session[s].pc = "insert" => session[s].base \in Nat
           /\ session[s].pc = "cancel" => session[s].id \in Nat
           /\ session[s].pc = "edit" => /\ session[s].setup \in Setups
                                        /\ session[s].target \in SetupStatus
           /\ session[s].pc = "delete" => session[s].setup \in Setups
<1>1. session[s] \in SessionState
  BY DEF TypeOK
<1> QED
  BY <1>1 DEF SessionState, Idle

LEMMA SweeperFields ==
    ASSUME TypeOK, NEW w \in Sweepers
    PROVE  /\ sweeper[w] = Idle => sweeper[w].pc = "idle"
           /\ sweeper[w].pc \in {"listed", "sweep"} => sweeper[w].ids \subseteq Nat
           /\ sweeper[w].pc = "sweep" => /\ sweeper[w].first \in Nat
                                         /\ sweeper[w].seen \in SetupStatus
<1>1. sweeper[w] \in SweeperState
  BY DEF TypeOK
<1> QED
  BY <1>1 DEF SweeperState, Idle

\* The table as SMT needs it: ids are numbers, rows are rows.
LEMMA TableFacts ==
    ASSUME TypeOK
    PROVE  /\ Len(res) \in Nat
           /\ Ids = 1..Len(res)
           /\ \A i \in Ids : /\ res[i] \in Row
                             /\ res[i].booking \in Booking
                             /\ SetupOf(i) \in Setups
<1>1. Len(res) \in Nat /\ Ids = 1..Len(res) /\ \A i \in Ids : res[i] \in Row
  BY LenProperties, ElementOfSeq DEF TypeOK, Ids
<1> QED
  BY <1>1 DEF Row, Booking, SetupOf

\* How a step may change the table: not at all, by one insert, by closing rows.
TableKept == UNCHANGED <<res, base>>
TableClosed ==
    /\ base' = base
    /\ \E ids \in SUBSET Ids, new \in ReservationStatus \ {"ACTIVE"} :
        res' = SetStatusOf(ids, new)

LEMMA TableSteps ==
    ASSUME TypeInv, [Next]_vars
    PROVE  TableKept \/ TableClosed \/ \E s \in Sessions : CreateCommit(s)
<1> USE DEF TableKept, TableClosed
<1>1. CASE UNCHANGED vars
  BY <1>1 DEF vars, db
<1>2. CASE Tick
  BY <1>2 DEF Tick, db
<1>3. ASSUME NEW x \in Setups, SetupCreate(x) PROVE TableKept
  BY <1>3 DEF SetupCreate
<1>4. ASSUME NEW s \in Sessions, Request(s)
      PROVE  TableKept \/ TableClosed \/ CreateCommit(s)
  <2>1. CASE CancelCommit(s)
    <3>1. session[s].id \in Ids
      BY <2>1 DEF CancelCommit, TypeInv, References
    <3>2. res' = SetStatusOf({session[s].id}, "CANCELLED") /\ base' = base
      BY <2>1 DEF CancelCommit
    <3> QED
      BY <3>1, <3>2 DEF ReservationStatus
  <2>2. CASE CreateRead(s) \/ CreateCheck(s) \/ CancelRead(s) \/ EditRead(s)
                \/ DeleteRead(s) \/ Rollback(s)
    BY <2>2 DEF CreateRead, CreateCheck, CancelRead, EditRead, DeleteRead,
                Rollback, db
  <2>3. CASE CreateMailedThenFailed(s) \/ EditCommit(s) \/ DeleteCommit(s)
    BY <2>3 DEF CreateMailedThenFailed, EditCommit, DeleteCommit
  <2> QED
    BY <1>4, <2>1, <2>2, <2>3 DEF Request
<1>5. ASSUME NEW w \in Sweepers, Sweep(w) PROVE TableKept \/ TableClosed
  <2>1. CASE SweepCommit(w)
    <3>1. sweeper[w].ids \subseteq Ids
      BY <2>1 DEF SweepCommit, TypeInv, References
    <3>2. res' = SetStatusOf(sweeper[w].ids, "COMPLETED") /\ base' = base
      BY <2>1 DEF SweepCommit
    <3> QED
      BY <3>1, <3>2 DEF ReservationStatus
  <2>2. CASE SweepList(w) \/ SweepRead(w)
    BY <2>2 DEF SweepList, SweepRead, db
  <2>3. CASE SweepFail(w)
    BY <2>3 DEF SweepFail
  <2> QED
    BY <1>5, <2>1, <2>2, <2>3 DEF Sweep
<1> QED
  BY <1>1, <1>2, <1>3, <1>4, <1>5 DEF Next

\* The row a create inserts.
NewRow(s) == [booking |-> session[s].booking, status |-> "ACTIVE"]

\* Effect of a step on the rows there were before it.
LEMMA RowsPersist ==
    ASSUME TypeInv, [Next]_vars
    PROVE  /\ res' \in Seq(Row)
           /\ Ids' = 1..Len(res') /\ Len(res') \in Nat /\ Len(res) <= Len(res')
           /\ base' \in Seq(Nat) /\ Len(base') = Len(res')
           /\ \A i \in Ids : /\ i \in Ids'
                             /\ res'[i].booking = res[i].booking
                             /\ Active(i)' => Active(i)
                             /\ SetupOf(i)' = SetupOf(i)
                             /\ base'[i] = base[i]
<1>0. /\ Len(res) \in Nat /\ Ids = 1..Len(res) /\ res \in Seq(Row)
      /\ base \in Seq(Nat) /\ Len(base) = Len(res)
  BY TableFacts DEF TypeInv, TypeOK
<1>1. CASE TableKept
  <2>1. res' = res /\ base' = base
    BY <1>1 DEF TableKept
  <2> QED
    BY <1>0, <2>1 DEF Ids, Active, SetupOf
<1>2. CASE TableClosed
  <2>1. PICK ids \in SUBSET Ids, new \in ReservationStatus \ {"ACTIVE"} :
            res' = SetStatusOf(ids, new)
    BY <1>2 DEF TableClosed
  <2>2. base' = base
    BY <1>2 DEF TableClosed
  <2>3. /\ res' \in Seq(Row) /\ Len(res') = Len(res) /\ DOMAIN res' = DOMAIN res
        /\ \A i \in Ids : /\ res'[i].booking = res[i].booking
                          /\ res'[i].status = IF i \in ids THEN new
                                              ELSE res[i].status
    BY <1>0, <2>1, CloseRows
  <2> QED
    BY <1>0, <2>2, <2>3 DEF Ids, Active, SetupOf
<1>3. ASSUME NEW s \in Sessions, CreateCommit(s)
      PROVE  /\ res' \in Seq(Row)
             /\ Ids' = 1..Len(res') /\ Len(res') \in Nat /\ Len(res) <= Len(res')
             /\ base' \in Seq(Nat) /\ Len(base') = Len(res')
             /\ \A i \in Ids : /\ i \in Ids'
                               /\ res'[i].booking = res[i].booking
                               /\ Active(i)' => Active(i)
                               /\ SetupOf(i)' = SetupOf(i)
                               /\ base'[i] = base[i]
  <2>1. session[s].booking \in Booking /\ session[s].base \in Nat
    BY <1>3, SessionFields DEF CreateCommit, TypeInv
  <2>2. NewRow(s) \in Row
    BY <2>1 DEF NewRow, Row, ReservationStatus
  <2>3. /\ res' = Append(res, NewRow(s))
        /\ base' = Append(base, session[s].base)
    BY <1>3 DEF CreateCommit, NewRow
  <2>4. /\ res' \in Seq(Row) /\ Len(res') = Len(res) + 1
        /\ DOMAIN res' = 1..(Len(res) + 1)
        /\ \A i \in 1..Len(res) : res'[i] = res[i]
    BY <1>0, <2>2, <2>3, AppendRow
  <2>5. /\ base' \in Seq(Nat) /\ Len(base') = Len(base) + 1
        /\ \A i \in 1..Len(base) : base'[i] = base[i]
    BY <1>0, <2>1, <2>3, AppendRow
  <2> QED
    BY <1>0, <2>4, <2>5 DEF Ids, Active, SetupOf
<1> QED
  BY <1>1, <1>2, <1>3, TableSteps

\* What CreateCommit adds.
LEMMA CreateAdds ==
    ASSUME TypeInv, NEW s \in Sessions, CreateCommit(s)
    PROVE  /\ Len(res') = Len(res) + 1
           /\ res'[Len(res) + 1] = NewRow(s)
           /\ base'[Len(res) + 1] = session[s].base
           /\ session[s].booking \in Booking
           /\ session[s].base \in Nat
<1>0. /\ Len(res) \in Nat /\ res \in Seq(Row)
      /\ base \in Seq(Nat) /\ Len(base) = Len(res)
  BY TableFacts DEF TypeInv, TypeOK
<1>1. session[s].booking \in Booking /\ session[s].base \in Nat
  BY SessionFields DEF CreateCommit, TypeInv
<1>2. NewRow(s) \in Row
  BY <1>1 DEF NewRow, Row, ReservationStatus
<1>3. res' = Append(res, NewRow(s)) /\ base' = Append(base, session[s].base)
  BY DEF CreateCommit, NewRow
<1> QED
  BY <1>0, <1>1, <1>2, <1>3, AppendRow

LEMMA InitTypeInv == ConstantsOK /\ Init => TypeInv
<1> SUFFICES ASSUME ConstantsOK, Init PROVE TypeInv
  OBVIOUS
<1>1. 0 \in Time
  BY DEF ConstantsOK, Time
<1>2. res = <<>> /\ Ids = {} /\ Len(res) = 0
  BY DEF Init, Ids
<1>3. TypeOK
  BY <1>1, <1>2 DEF Init, TypeOK, SetupStatus, SessionState, SweeperState
<1>4. References
  BY <1>2 DEF Init, References, NoOrphan, Idle
<1> QED
  BY <1>3, <1>4 DEF TypeInv

\* A session moves: the others keep what they had.
LEMMA SessionMoves ==
    ASSUME TypeInv, [Next]_vars, NEW s \in Sessions, NEW v \in SessionState,
           v.pc = "cancel" => v.id \in Ids,
           session' = [session EXCEPT ![s] = v]
    PROVE  /\ session' \in [Sessions -> SessionState]
           /\ \A t \in Sessions :
                session'[t].pc = "cancel" => session'[t].id \in Ids'
<1>1. session \in [Sessions -> SessionState]
  BY DEF TypeInv, TypeOK
<1>2. \A t \in Sessions : session[t].pc = "cancel" => session[t].id \in Ids
  BY DEF TypeInv, References
<1>3. \A i \in Ids : i \in Ids'
  BY RowsPersist
<1> QED
  BY <1>1, <1>2, <1>3

LEMMA SweeperMoves ==
    ASSUME TypeInv, [Next]_vars, NEW w \in Sweepers, NEW v \in SweeperState,
           v.pc \in {"listed", "sweep"} => v.ids \subseteq Ids,
           v.pc = "sweep" => v.first \in v.ids,
           sweeper' = [sweeper EXCEPT ![w] = v]
    PROVE  /\ sweeper' \in [Sweepers -> SweeperState]
           /\ \A z \in Sweepers :
                /\ sweeper'[z].pc \in {"listed", "sweep"} =>
                        sweeper'[z].ids \subseteq Ids'
                /\ sweeper'[z].pc = "sweep" => sweeper'[z].first \in sweeper'[z].ids
<1>1. sweeper \in [Sweepers -> SweeperState]
  BY DEF TypeInv, TypeOK
<1>2. \A z \in Sweepers :
        /\ sweeper[z].pc \in {"listed", "sweep"} => sweeper[z].ids \subseteq Ids
        /\ sweeper[z].pc = "sweep" => sweeper[z].first \in sweeper[z].ids
  BY DEF TypeInv, References
<1>3. Ids \subseteq Ids'
  BY RowsPersist
<1> QED
  BY <1>1, <1>2, <1>3

\* What the handlers do with their own variables.
LEMMA SessionsTyped ==
    ASSUME TypeInv, [Next]_vars
    PROVE  /\ session' \in [Sessions -> SessionState]
           /\ \A t \in Sessions :
                session'[t].pc = "cancel" => session'[t].id \in Ids'
<1> DEFINE Good == /\ session' \in [Sessions -> SessionState]
                   /\ \A t \in Sessions :
                        session'[t].pc = "cancel" => session'[t].id \in Ids'
<1>1. ASSUME session' = session PROVE Good
  BY <1>1, RowsPersist DEF TypeInv, TypeOK, References
<1>2. ASSUME NEW s \in Sessions, Ends(s) PROVE Good
  <2>1. Idle \in SessionState /\ Idle.pc # "cancel"
    BY DEF Idle, SessionState
  <2> HIDE DEF Good
  <2>2. session' = [session EXCEPT ![s] = Idle]
    BY <1>2 DEF Ends
  <2> QED
    BY <2>1, <2>2, SessionMoves DEF Good
<1>3. ASSUME NEW s \in Sessions, Request(s) PROVE Good
  <2>1. CASE CreateRead(s)
    <3>1. PICK b \in Booking, mail \in {FALSE, SmtpEnabled} :
            /\ status[b.setup] \in {"AVAILABLE", "RESERVED"}
            /\ session' = [session EXCEPT ![s] =
                    [pc |-> "create", booking |-> b, seen |-> status[b.setup],
                     mail |-> mail]]
      BY <2>1 DEF CreateRead
    <3>2. mail \in BOOLEAN
      BY ConstantsOK DEF ConstantsOK
    <3> DEFINE v == [pc |-> "create", booking |-> b, seen |-> status[b.setup],
                     mail |-> mail]
    <3>3. v \in SessionState /\ v.pc # "cancel"
      BY <3>1, <3>2 DEF SessionState, SetupStatus
    <3>4. session' = [session EXCEPT ![s] = v]
      BY <3>1
    <3> HIDE DEF v
    <3> QED
      BY <3>3, <3>4, SessionMoves
  <2>2. CASE CreateCheck(s)
    <3>1. CASE FindOverlapping(session[s].booking) = {}
      <4> DEFINE v == [pc |-> "insert", booking |-> session[s].booking,
                       seen |-> session[s].seen, mail |-> session[s].mail,
                       base |-> Len(res)]
      <4>1. session' = [session EXCEPT ![s] = v]
        BY <2>2, <3>1 DEF CreateCheck
      <4>2. /\ session[s].booking \in Booking
            /\ session[s].seen \in SetupStatus
            /\ session[s].mail \in BOOLEAN
            /\ Len(res) \in Nat
        BY <2>2, SessionFields, TableFacts DEF CreateCheck, TypeInv
      <4>3. v \in SessionState /\ v.pc # "cancel"
        BY <4>2 DEF SessionState
      <4> HIDE DEF v
      <4> QED
        BY <4>1, <4>3, SessionMoves
    <3> QED
      BY <2>2, <3>1, <1>2 DEF CreateCheck
  <2>3. CASE CancelRead(s)
    <3>1. PICK i \in Ids :
            session' = [session EXCEPT ![s] = [pc |-> "cancel", id |-> i]]
      BY <2>3 DEF CancelRead
    <3> DEFINE v == [pc |-> "cancel", id |-> i]
    <3>2. v \in SessionState /\ v.id \in Ids
      BY TableFacts DEF SessionState, TypeInv
    <3>3. session' = [session EXCEPT ![s] = v]
      BY <3>1
    <3> HIDE DEF v
    <3> QED
      BY <3>2, <3>3, SessionMoves
  <2>4. CASE EditRead(s)
    <3>1. PICK x \in Setups, t \in EditTargets :
            session' = [session EXCEPT ![s] =
                [pc |-> "edit", setup |-> x, target |-> t]]
      BY <2>4 DEF EditRead
    <3> DEFINE v == [pc |-> "edit", setup |-> x, target |-> t]
    <3>2. v \in SessionState /\ v.pc # "cancel"
      BY ConstantsOK DEF ConstantsOK, SessionState
    <3>3. session' = [session EXCEPT ![s] = v]
      BY <3>1
    <3> HIDE DEF v
    <3> QED
      BY <3>2, <3>3, SessionMoves
  <2>5. CASE DeleteRead(s)
    <3>1. PICK x \in Setups :
            session' = [session EXCEPT ![s] = [pc |-> "delete", setup |-> x]]
      BY <2>5 DEF DeleteRead
    <3> DEFINE v == [pc |-> "delete", setup |-> x]
    <3>2. v \in SessionState /\ v.pc # "cancel"
      BY DEF SessionState
    <3>3. session' = [session EXCEPT ![s] = v]
      BY <3>1
    <3> HIDE DEF v
    <3> QED
      BY <3>2, <3>3, SessionMoves
  <2>6. CASE CreateCommit(s) \/ CreateMailedThenFailed(s) \/ CancelCommit(s)
                \/ EditCommit(s) \/ DeleteCommit(s) \/ Rollback(s)
    BY <2>6, <1>2 DEF CreateCommit, CreateMailedThenFailed, CancelCommit,
                      EditCommit, DeleteCommit, Rollback
  <2> QED
    BY <1>3, <2>1, <2>2, <2>3, <2>4, <2>5, <2>6 DEF Request
<1>4. ASSUME Tick \/ (\E x \in Setups : SetupCreate(x))
             \/ (\E w \in Sweepers : Sweep(w)) \/ UNCHANGED vars
      PROVE  session' = session
  BY <1>4 DEF Tick, SetupCreate, Sweep, SweepList, SweepRead, SweepCommit,
              SweepFail, vars
<1> QED
  BY <1>1, <1>3, <1>4 DEF Next

LEMMA SweepersTyped ==
    ASSUME TypeInv, [Next]_vars
    PROVE  /\ sweeper' \in [Sweepers -> SweeperState]
           /\ \A z \in Sweepers :
                /\ sweeper'[z].pc \in {"listed", "sweep"} =>
                        sweeper'[z].ids \subseteq Ids'
                /\ sweeper'[z].pc = "sweep" => sweeper'[z].first \in sweeper'[z].ids
<1>1. ASSUME NEW w \in Sweepers, Sweep(w)
      PROVE  \E v \in SweeperState :
                /\ v.pc \in {"listed", "sweep"} => v.ids \subseteq Ids
                /\ v.pc = "sweep" => v.first \in v.ids
                /\ sweeper' = [sweeper EXCEPT ![w] = v]
  <2>1. CASE SweepList(w)
    <3> DEFINE v == [pc |-> "listed", ids |-> ListExpiredActive(now)]
    <3>1. v.ids \subseteq Ids /\ v.pc = "listed"
      BY DEF ListExpiredActive
    <3>2. v \in SweeperState
      BY <3>1, TableFacts DEF SweeperState, TypeInv
    <3>3. sweeper' = [sweeper EXCEPT ![w] = v]
      BY <2>1 DEF SweepList
    <3> HIDE DEF v
    <3> QED
      BY <3>1, <3>2, <3>3
  <2>2. CASE SweepRead(w)
    <3>1. sweeper[w].pc = "listed" /\ sweeper[w].ids \subseteq Ids
      BY <2>2 DEF SweepRead, TypeInv, References
    <3>2. PICK i \in sweeper[w].ids :
            sweeper' = [sweeper EXCEPT ![w] =
                [pc |-> "sweep", ids |-> sweeper[w].ids, first |-> i,
                 seen |-> status[SetupOf(i)]]]
      BY <2>2 DEF SweepRead
    <3>3. i \in Ids /\ SetupOf(i) \in Setups /\ Exists(SetupOf(i))
      BY <3>1, <3>2, TableFacts DEF TypeInv, References, NoOrphan
    <3>4. status[SetupOf(i)] \in SetupStatus
      BY <3>3 DEF TypeInv, TypeOK, Exists
    <3> DEFINE v == [pc |-> "sweep", ids |-> sweeper[w].ids, first |-> i,
                     seen |-> status[SetupOf(i)]]
    <3>5. v.pc = "sweep" /\ v.ids \subseteq Ids /\ v.first \in v.ids
      BY <3>1, <3>2
    <3>6. v \in SweeperState
      BY <3>1, <3>3, <3>4, TableFacts DEF SweeperState, TypeInv
    <3>7. sweeper' = [sweeper EXCEPT ![w] = v]
      BY <3>2
    <3> HIDE DEF v
    <3> QED
      BY <3>5, <3>6, <3>7
  <2>3. CASE SweepCommit(w) \/ SweepFail(w)
    <3>1. Idle \in SweeperState /\ Idle.pc \notin {"listed", "sweep"}
      BY DEF Idle, SweeperState
    <3>2. sweeper' = [sweeper EXCEPT ![w] = Idle]
      BY <2>3 DEF SweepCommit, SweepFail
    <3> QED
      BY <3>1, <3>2
  <2> QED
    BY <1>1, <2>1, <2>2, <2>3 DEF Sweep
<1>2. ASSUME sweeper' = sweeper
      PROVE  /\ sweeper' \in [Sweepers -> SweeperState]
             /\ \A z \in Sweepers :
                /\ sweeper'[z].pc \in {"listed", "sweep"} =>
                        sweeper'[z].ids \subseteq Ids'
                /\ sweeper'[z].pc = "sweep" => sweeper'[z].first \in sweeper'[z].ids
  <2>1. Ids \subseteq Ids'
    BY RowsPersist
  <2> QED
    BY <1>2, <2>1 DEF TypeInv, TypeOK, References
<1>3. ASSUME Tick \/ (\E x \in Setups : SetupCreate(x))
             \/ (\E s \in Sessions : Request(s)) \/ UNCHANGED vars
      PROVE  sweeper' = sweeper
  BY <1>3 DEF Tick, SetupCreate, Request, CreateRead, CreateCheck, CreateCommit,
              CreateMailedThenFailed, CancelRead, CancelCommit, EditRead,
              EditCommit, DeleteRead, DeleteCommit, Rollback, vars
<1> QED
  BY <1>1, <1>2, <1>3, SweeperMoves DEF Next

\* The status column: its type, and no reservation loses its setup.
LEMMA StatusTyped ==
    ASSUME TypeInv, [Next]_vars
    PROVE  /\ status' \in [Setups -> SetupStatus \union {"ABSENT"}]
           /\ byAdmin' \in [Setups -> BOOLEAN]
           /\ NoOrphan'
<1>0. /\ status \in [Setups -> SetupStatus \union {"ABSENT"}]
      /\ byAdmin \in [Setups -> BOOLEAN]
      /\ \A i \in Ids : SetupOf(i) \in Setups /\ Exists(SetupOf(i))
  BY TableFacts DEF TypeInv, TypeOK, References, NoOrphan
<1>1. \A i \in Ids : i \in Ids' /\ SetupOf(i)' = SetupOf(i)
  BY RowsPersist
<1>2. ASSUME Ids' = Ids, \A x \in Setups : Exists(x) => Exists(x)'
      PROVE  NoOrphan'
  BY <1>0, <1>1, <1>2 DEF NoOrphan
<1>3. CASE UNCHANGED <<status, byAdmin, res>>
  BY <1>0, <1>2, <1>3 DEF Ids, Exists
<1>4. ASSUME NEW x \in Setups, SetupCreate(x)
      PROVE  /\ status' \in [Setups -> SetupStatus \union {"ABSENT"}]
             /\ byAdmin' \in [Setups -> BOOLEAN]
             /\ NoOrphan'
  BY <1>0, <1>2, <1>4 DEF SetupCreate, Ids, Exists, SetupStatus
<1>5. ASSUME NEW s \in Sessions, Request(s)
      PROVE  /\ status' \in [Setups -> SetupStatus \union {"ABSENT"}]
             /\ byAdmin' \in [Setups -> BOOLEAN]
             /\ NoOrphan'
  <2>1. CASE CreateRead(s) \/ CreateCheck(s) \/ CreateMailedThenFailed(s)
                \/ CancelRead(s) \/ EditRead(s) \/ DeleteRead(s) \/ Rollback(s)
    BY <2>1, <1>3 DEF CreateRead, CreateCheck, CreateMailedThenFailed,
                      CancelRead, EditRead, DeleteRead, Rollback, db
  <2>2. CASE CreateCommit(s)
    <3> DEFINE x == session[s].booking.setup
    <3>1. Len(res') = Len(res) + 1 /\ res'[Len(res) + 1] = NewRow(s)
      BY <2>2, CreateAdds
    <3>2. x \in Setups /\ Exists(x)
      BY <2>2, CreateAdds DEF CreateCommit, Booking
    <3>3. /\ status' \in [Setups -> SetupStatus \union {"ABSENT"}]
          /\ byAdmin' \in [Setups -> BOOLEAN]
          /\ \A y \in Setups : Exists(y) => Exists(y)'
      BY <1>0, <2>2, <3>2 DEF CreateCommit, Exists, SetupStatus
    <3>4. PICK n \in Nat : n = Len(res) + 1
      BY TableFacts DEF TypeInv
    <3>5. SetupOf(n)' = x
      BY <3>1, <3>4 DEF SetupOf, NewRow
    <3>6. \A i \in Ids' : i \in Ids \/ i = n
      BY <3>1, <3>4, RowsPersist, TableFacts DEF TypeInv
    <3> QED
      BY <1>0, <1>1, <3>2, <3>3, <3>5, <3>6 DEF NoOrphan
  <2>3. CASE CancelCommit(s)
    <3>1. Ids' = Ids
      BY <2>3, CloseRows DEF CancelCommit, TypeInv, TypeOK, Ids, ReservationStatus
    <3> QED
      BY <1>0, <1>2, <2>3, <3>1 DEF CancelCommit, Exists, SetupStatus
  <2>4. CASE EditCommit(s)
    <3>1. session[s].target \in SetupStatus
      BY <2>4, SessionFields DEF EditCommit, TypeInv
    <3> QED
      BY <1>0, <1>2, <2>4, <3>1 DEF EditCommit, Exists, SetupStatus, Ids
  <2>5. CASE DeleteCommit(s)
    BY <1>0, <2>5 DEF DeleteCommit, Referenced, NoOrphan, Exists, Ids, SetupOf
  <2> QED
    BY <1>5, <2>1, <2>2, <2>3, <2>4, <2>5 DEF Request
<1>6. ASSUME NEW w \in Sweepers, Sweep(w)
      PROVE  /\ status' \in [Setups -> SetupStatus \union {"ABSENT"}]
             /\ byAdmin' \in [Setups -> BOOLEAN]
             /\ NoOrphan'
  <2>1. CASE SweepList(w) \/ SweepRead(w) \/ SweepFail(w)
    BY <2>1, <1>3 DEF SweepList, SweepRead, SweepFail, db
  <2>2. CASE SweepCommit(w)
    <3>1. Ids' = Ids
      BY <2>2, CloseRows DEF SweepCommit, TypeInv, TypeOK, Ids, ReservationStatus
    <3>2. /\ status' = [x \in Setups |->
                IF x \in SweepFrees(w) THEN "AVAILABLE" ELSE status[x]]
          /\ byAdmin' = [x \in Setups |-> byAdmin[x] /\ x \notin SweepFrees(w)]
      BY <2>2 DEF SweepCommit
    <3> QED
      BY <1>0, <1>2, <3>1, <3>2 DEF Exists, SetupStatus
  <2> QED
    BY <1>6, <2>1, <2>2 DEF Sweep
<1>7. CASE Tick \/ UNCHANGED vars
  BY <1>3, <1>7 DEF Tick, vars, db
<1> QED
  BY <1>4, <1>5, <1>6, <1>7 DEF Next

\* The columns kept beside the table, and what create() announced.
LEMMA ColumnsTyped ==
    ASSUME TypeInv, [Next]_vars
    PROVE  /\ now' \in Time
           /\ mails' \in Seq(Nat) /\ Len(mails') = Len(res')
           /\ notices' \in Seq(Nat) /\ Len(notices') = Len(res')
           /\ announced' \subseteq Booking
<1> DEFINE Good == /\ now' \in Time
                   /\ mails' \in Seq(Nat) /\ Len(mails') = Len(res')
                   /\ notices' \in Seq(Nat) /\ Len(notices') = Len(res')
                   /\ announced' \subseteq Booking
<1>0. /\ now \in Time
      /\ Len(res) \in Nat /\ Ids = 1..Len(res) /\ res \in Seq(Row)
      /\ mails \in Seq(Nat) /\ Len(mails) = Len(res)
      /\ notices \in Seq(Nat) /\ Len(notices) = Len(res)
      /\ announced \subseteq Booking
  BY TableFacts DEF TypeInv, TypeOK
<1>1. ASSUME NEW ids, mails' = CountMail(mails, ids)
      PROVE  mails' \in Seq(Nat) /\ Len(mails') = Len(res)
  <2>1. /\ DOMAIN mails = 1..Len(res)
        /\ \A i \in 1..Len(res) : mails[i] \in Nat
    BY <1>0, ElementOfSeq, LenProperties
  <2>2. CountMail(mails, ids) \in [1..Len(res) -> Nat]
    BY <1>0, <2>1 DEF CountMail
  <2> QED
    BY <1>0, <1>1, <2>2, TableIsSeq
<1>2. CASE UNCHANGED db /\ now' \in Time
  BY <1>0, <1>2 DEF db
<1>3. CASE Tick
  BY <1>0, <1>2, <1>3, ConstantsOK DEF ConstantsOK, Tick, Time
<1>4. ASSUME NEW x \in Setups, SetupCreate(x) PROVE Good
  BY <1>0, <1>4 DEF SetupCreate
<1>5. ASSUME NEW s \in Sessions, Request(s) PROVE Good
  <2>1. CASE CreateRead(s) \/ CreateCheck(s) \/ CancelRead(s) \/ EditRead(s)
                \/ DeleteRead(s) \/ Rollback(s)
    BY <1>0, <1>2, <2>1 DEF CreateRead, CreateCheck, CancelRead, EditRead,
                            DeleteRead, Rollback
  <2>2. CASE CreateCommit(s)
    <3>1. Len(res') = Len(res) + 1 /\ session[s].booking \in Booking
      BY <2>2, CreateAdds
    <3>2. mails' = Append(mails, 0) /\ notices' = Append(notices, 0) /\ now' = now
      BY <2>2 DEF CreateCommit
    <3>3. announced' \subseteq announced \union {session[s].booking}
      BY <2>2 DEF CreateCommit
    <3>4. /\ mails' \in Seq(Nat) /\ Len(mails') = Len(mails) + 1
          /\ notices' \in Seq(Nat) /\ Len(notices') = Len(notices) + 1
      BY <1>0, <3>2, AppendRow
    <3> QED
      BY <1>0, <3>1, <3>2, <3>3, <3>4
  <2>3. CASE CreateMailedThenFailed(s)
    <3>1. session[s].booking \in Booking
      BY <2>3, SessionFields DEF CreateMailedThenFailed, TypeInv
    <3> QED
      BY <1>0, <2>3, <3>1 DEF CreateMailedThenFailed
  <2>4. CASE CancelCommit(s)
    <3>1. Len(res') = Len(res)
      BY <1>0, <2>4, CloseRows DEF CancelCommit, ReservationStatus
    <3> QED
      BY <1>0, <2>4, <3>1 DEF CancelCommit
  <2>5. CASE EditCommit(s) \/ DeleteCommit(s)
    BY <1>0, <2>5 DEF EditCommit, DeleteCommit
  <2> QED
    BY <1>5, <2>1, <2>2, <2>3, <2>4, <2>5 DEF Request
<1>6. ASSUME NEW w \in Sweepers, Sweep(w) PROVE Good
  <2>1. CASE SweepList(w) \/ SweepRead(w)
    BY <1>0, <1>2, <2>1 DEF SweepList, SweepRead
  <2>2. CASE SweepCommit(w)
    <3> DEFINE ids == sweeper[w].ids
    <3>1. Len(res') = Len(res)
      BY <1>0, <2>2, CloseRows DEF SweepCommit, ReservationStatus
    <3>2. mails' \in Seq(Nat) /\ Len(mails') = Len(res)
      BY <1>0, <1>1, <2>2 DEF SweepCommit
    <3>3. notices' = [i \in Ids |-> notices[i] + (IF i \in ids THEN 1 ELSE 0)]
      BY <2>2 DEF SweepCommit
    <3>4. \A i \in 1..Len(res) : notices[i] \in Nat
      BY <1>0, ElementOfSeq
    <3>5. notices' \in [1..Len(res) -> Nat]
      BY <1>0, <3>3, <3>4
    <3>6. notices' \in Seq(Nat) /\ Len(notices') = Len(res)
      BY <1>0, <3>5, TableIsSeq
    <3> QED
      BY <1>0, <2>2, <3>1, <3>2, <3>6 DEF SweepCommit
  <2>3. CASE SweepFail(w)
    <3>1. mails' \in Seq(Nat) /\ Len(mails') = Len(res)
      BY <1>0, <1>1, <2>3 DEF SweepFail
    <3> QED
      BY <1>0, <2>3, <3>1 DEF SweepFail
  <2> QED
    BY <1>6, <2>1, <2>2, <2>3 DEF Sweep
<1>7. CASE UNCHANGED vars
  BY <1>0, <1>2, <1>7 DEF vars
<1> QED
  BY <1>3, <1>4, <1>5, <1>6, <1>7 DEF Next

LEMMA StepTypeInv == TypeInv /\ [Next]_vars => TypeInv'
<1> SUFFICES ASSUME TypeInv, [Next]_vars PROVE TypeInv'
  OBVIOUS
<1>1. TypeOK'
  BY RowsPersist, SessionsTyped, SweepersTyped, StatusTyped, ColumnsTyped
     DEF TypeOK
<1>2. References'
  BY SessionsTyped, SweepersTyped, StatusTyped DEF References
<1> QED
  BY <1>1, <1>2 DEF TypeInv

LEMMA SpecTypeInv == Spec => []TypeInv
<1>1. Init => TypeInv
  BY ConstantsOK, InitTypeInv
<1> QED
  BY <1>1, StepTypeInv, PTL DEF Spec

\* Type correctness.
THEOREM TypeCorrect == Spec => []TypeOK
BY SpecTypeInv, PTL DEF TypeInv

\* No reservation's setup is ever missing, whatever deletes race with creates:
\* a delete looks at the reservations at its commit and a create at the setup.
THEOREM NoReservationOrphaned == Spec => []NoOrphan
<1>1. TypeInv => NoOrphan
  BY DEF TypeInv, References
<1> QED
  BY <1>1, SpecTypeInv, PTL

\* Rows are history: no step deletes or moves a reservation or reopens it.
THEOREM RowsNeverRewritten == Spec => RowsAreHistory
<1>1. TypeInv /\ [Next]_vars =>
        [\A i \in Ids : /\ i \in DOMAIN res'
                        /\ res'[i].booking = res[i].booking
                        /\ res'[i].status = "ACTIVE" => Active(i)]_res
  BY RowsPersist DEF Ids, Active
<1> QED
  BY <1>1, SpecTypeInv, PTL DEF Spec, RowsAreHistory

-----------------------------------------------------------------------------
(* Double booking.                                                         *)

\* find_overlapping's comparison of the ends is exact: two windows pass it
\* just when some instant lies in both.
THEOREM OverlapTestExact ==
    ASSUME NEW a \in Booking, NEW b \in Booking
    PROVE  (a.from < b.until /\ a.until > b.from) <=> SharesInstant(a, b)
<1>1. /\ a.from \in Time /\ a.until \in Time /\ a.from < a.until
      /\ b.from \in Time /\ b.until \in Time /\ b.from < b.until
  BY DEF Booking
<1>2. \A t \in Time : t \in Int
  BY ConstantsOK DEF ConstantsOK, Time
<1>3. ASSUME a.from < b.until, a.until > b.from PROVE SharesInstant(a, b)
  <2>1. CASE a.from <= b.from
    BY <1>1, <1>2, <1>3, <2>1 DEF SharesInstant
  <2>2. CASE b.from <= a.from
    BY <1>1, <1>2, <1>3, <2>2 DEF SharesInstant
  <2> QED
    BY <1>1, <1>2, <2>1, <2>2
<1>4. ASSUME SharesInstant(a, b) PROVE a.from < b.until /\ a.until > b.from
  BY <1>1, <1>2, <1>4 DEF SharesInstant
<1> QED
  BY <1>3, <1>4

\* A session about to insert has seen no conflict among the first base rows,
\* and rows are never reopened: there still is none.
Checked ==
    \A s \in Sessions : session[s].pc = "insert" =>
        /\ session[s].base <= Len(res)
        /\ \A i \in 1..session[s].base :
            Active(i) /\ SetupOf(i) = session[s].booking.setup =>
                ~SharesInstant(res[i].booking, session[s].booking)

RaceInv == TypeInv /\ Checked /\ OverlapNeedsRace

\* A step keeps what a session carries to its insert, or starts carrying it.
LEMMA InsertState ==
    ASSUME TypeInv, [Next]_vars, NEW s \in Sessions, session'[s].pc = "insert"
    PROVE  \/ session'[s] = session[s]
           \/ /\ res' = res
              /\ session[s].pc = "create"
              /\ session'[s].booking = session[s].booking
              /\ session'[s].base = Len(res)
              /\ FindOverlapping(session[s].booking) = {}
<1>0. session \in [Sessions -> SessionState]
  BY DEF TypeInv, TypeOK
<1>1. CASE session' = session
  BY <1>1
<1>2. ASSUME NEW t \in Sessions, Request(t)
      PROVE  \/ session'[s] = session[s]
             \/ /\ res' = res
                /\ session[s].pc = "create"
                /\ session'[s].booking = session[s].booking
                /\ session'[s].base = Len(res)
                /\ FindOverlapping(session[s].booking) = {}
  <2>1. CASE CreateCheck(t)
    BY <1>0, <2>1 DEF CreateCheck, Ends, Idle, db
  <2>2. CASE CreateRead(t) \/ CancelRead(t) \/ EditRead(t) \/ DeleteRead(t)
    BY <1>0, <2>2 DEF CreateRead, CancelRead, EditRead, DeleteRead
  <2>3. CASE CreateCommit(t) \/ CreateMailedThenFailed(t) \/ CancelCommit(t)
                \/ EditCommit(t) \/ DeleteCommit(t) \/ Rollback(t)
    BY <1>0, <2>3 DEF CreateCommit, CreateMailedThenFailed, CancelCommit,
                      EditCommit, DeleteCommit, Rollback, Ends, Idle
  <2> QED
    BY <1>2, <2>1, <2>2, <2>3 DEF Request
<1>3. ASSUME Tick \/ (\E x \in Setups : SetupCreate(x))
             \/ (\E w \in Sweepers : Sweep(w)) \/ UNCHANGED vars
      PROVE  session' = session
  BY <1>3 DEF Tick, SetupCreate, Sweep, SweepList, SweepRead, SweepCommit,
              SweepFail, vars
<1> QED
  BY <1>1, <1>2, <1>3 DEF Next

LEMMA StepChecked ==
    ASSUME TypeInv, Checked, [Next]_vars
    PROVE  Checked'
<1> SUFFICES ASSUME NEW s \in Sessions, session'[s].pc = "insert"
             PROVE  /\ session'[s].base <= Len(res')
                    /\ \A i \in 1..session'[s].base :
                        Active(i)' /\ SetupOf(i)' = session'[s].booking.setup =>
                            ~SharesInstant(res'[i].booking, session'[s].booking)
  BY DEF Checked
<1>0. Len(res) \in Nat /\ Len(res') \in Nat /\ Len(res) <= Len(res')
      /\ Ids = 1..Len(res)
  BY RowsPersist, TableFacts DEF TypeInv
<1>1. CASE session'[s] = session[s]
  <2>1. session[s].base \in Nat
    BY <1>1, SessionFields DEF TypeInv
  <2>2. /\ session[s].base <= Len(res)
        /\ \A i \in 1..session[s].base :
            Active(i) /\ SetupOf(i) = session[s].booking.setup =>
                ~SharesInstant(res[i].booking, session[s].booking)
    BY <1>1 DEF Checked
  <2>3. \A i \in 1..session[s].base : i \in Ids
    BY <1>0, <2>1, <2>2
  <2> QED
    BY <1>0, <1>1, <2>1, <2>2, <2>3, RowsPersist
<1>2. CASE /\ res' = res
           /\ session[s].pc = "create"
           /\ session'[s].booking = session[s].booking
           /\ session'[s].base = Len(res)
           /\ FindOverlapping(session[s].booking) = {}
  <2>1. session[s].booking \in Booking
    BY <1>2, SessionFields DEF TypeInv
  <2>2. \A i \in Ids : Active(i) /\ SetupOf(i) = session[s].booking.setup =>
            ~SharesInstant(res[i].booking, session[s].booking)
    BY <1>2, <2>1, TableFacts, OverlapTestExact DEF FindOverlapping, TypeInv
  <2> QED
    BY <1>0, <1>2, <2>2 DEF Active, SetupOf
<1> QED
  BY <1>1, <1>2, InsertState

LEMMA StepOverlap ==
    ASSUME TypeInv, Checked, OverlapNeedsRace, [Next]_vars
    PROVE  OverlapNeedsRace'
<1> SUFFICES ASSUME NEW i \in Ids', NEW j \in Ids', i < j, DoubleBooked(i, j)'
             PROVE  base'[j] < i
  BY DEF OverlapNeedsRace
<1>0. /\ Len(res) \in Nat /\ Ids = 1..Len(res)
      /\ Len(res') \in Nat /\ Ids' = 1..Len(res')
  BY RowsPersist, TableFacts DEF TypeInv
<1>1. CASE j \in Ids
  <2>1. i \in Ids
    BY <1>0, <1>1
  <2>2. DoubleBooked(i, j)
    BY <1>1, <2>1, RowsPersist DEF DoubleBooked
  <2> QED
    BY <1>1, <2>1, <2>2, RowsPersist DEF OverlapNeedsRace
<1>2. CASE j \notin Ids
  <2>1. Len(res') # Len(res)
    BY <1>0, <1>2
  <2>2. PICK s \in Sessions : CreateCommit(s)
    <3>1. TableKept => Len(res') = Len(res)
      BY DEF TableKept
    <3>2. TableClosed => Len(res') = Len(res)
      BY CloseRows DEF TableClosed, TypeInv, TypeOK
    <3> QED
      BY <2>1, <3>1, <3>2, TableSteps
  <2>3. /\ j = Len(res) + 1 /\ i \in Ids
        /\ res'[j] = NewRow(s) /\ base'[j] = session[s].base
        /\ session[s].base \in Nat
    BY <1>0, <1>2, <2>2, CreateAdds
  <2>4. /\ Active(i) /\ SetupOf(i) = session[s].booking.setup
        /\ SharesInstant(res[i].booking, session[s].booking)
    BY <2>3, RowsPersist DEF DoubleBooked, SetupOf, NewRow
  <2>5. session[s].pc = "insert"
    BY <2>2 DEF CreateCommit
  <2>6. i \notin 1..session[s].base
    BY <2>4, <2>5 DEF Checked
  <2> QED
    BY <1>0, <2>3, <2>6
<1> QED
  BY <1>1, <1>2

LEMMA SpecRaceInv == Spec => []RaceInv
<1>1. Init => RaceInv
  <2>1. Init => Checked
    BY DEF Init, Checked, Idle
  <2>2. Init => OverlapNeedsRace
    BY DEF Init, OverlapNeedsRace, Ids
  <2> QED
    BY <2>1, <2>2, ConstantsOK, InitTypeInv DEF RaceInv
<1>2. RaceInv /\ [Next]_vars => RaceInv'
  BY StepTypeInv, StepChecked, StepOverlap DEF RaceInv
<1> QED
  BY <1>1, <1>2, PTL DEF Spec

\* A double booking is always the product of a race: whatever the number of
\* sessions and scheduler processes, of two ACTIVE reservations that share an
\* instant of a setup, the later was checked before the earlier was inserted.
THEOREM DoubleBookingNeedsRace == Spec => []OverlapNeedsRace
BY SpecRaceInv, PTL DEF RaceInv

-----------------------------------------------------------------------------
(* One request at a time.                                                  *)

OneSession == \A s, t \in Sessions : s = t

\* With one session nobody inserts between a check and its insert.
Current ==
    /\ \A s \in Sessions : session[s].pc = "insert" => session[s].base = Len(res)
    /\ \A j \in Ids : base[j] = j - 1

SerialInv == RaceInv /\ Current

LEMMA StepCurrent ==
    ASSUME OneSession, TypeInv, Current, [Next]_vars
    PROVE  Current'
<1>0. /\ Len(res) \in Nat /\ Ids = 1..Len(res)
      /\ Len(res') \in Nat /\ Ids' = 1..Len(res')
      /\ session \in [Sessions -> SessionState]
  BY RowsPersist, TableFacts DEF TypeInv, TypeOK
<1>1. ASSUME NEW s \in Sessions, CreateCommit(s) PROVE Current'
  <2>1. \A t \in Sessions : session'[t].pc = "idle"
    BY <1>0, <1>1 DEF OneSession, CreateCommit, Ends, Idle
  <2>2. /\ Len(res') = Len(res) + 1
        /\ base'[Len(res) + 1] = session[s].base
        /\ session[s].base = Len(res)
    BY <1>1, CreateAdds DEF Current, CreateCommit
  <2>3. \A j \in Ids' : base'[j] = j - 1
    <3> SUFFICES ASSUME NEW j \in Ids' PROVE base'[j] = j - 1
      OBVIOUS
    <3>1. CASE j \in Ids
      BY <3>1, RowsPersist DEF Current
    <3>2. CASE j \notin Ids
      <4>1. j = Len(res) + 1
        BY <1>0, <2>2, <3>2
      <4> QED
        BY <1>0, <2>2, <4>1
    <3> QED
      BY <3>1, <3>2
  <2> QED
    BY <2>1, <2>3 DEF Current
<1>2. ASSUME TableKept \/ TableClosed PROVE Current'
  <2>1. Len(res') = Len(res) /\ Ids' = Ids /\ base' = base
    BY <1>0, <1>2, CloseRows DEF TableKept, TableClosed, TypeInv, TypeOK
  <2>2. \A s \in Sessions : session'[s].pc = "insert" =>
            session'[s].base = Len(res')
    BY <2>1, InsertState DEF Current
  <2> QED
    BY <2>1, <2>2 DEF Current
<1> QED
  BY <1>1, <1>2, TableSteps

LEMMA SpecSerialInv == ASSUME OneSession PROVE Spec => []SerialInv
<1>1. Init => Current
  BY DEF Init, Current, Idle, Ids
<1>2. TypeInv /\ Current /\ [Next]_vars => Current'
  BY StepCurrent
<1>3. RaceInv => TypeInv
  BY DEF RaceInv
<1>4. Spec => []Current
  BY <1>1, <1>2, SpecTypeInv, PTL DEF Spec
<1> QED
  BY <1>4, SpecRaceInv, PTL DEF SerialInv

LEMMA SerialNoOverlap == SerialInv => NoOverlap
<1> SUFFICES ASSUME SerialInv, NEW i \in Ids, NEW j \in Ids, i < j,
                    DoubleBooked(i, j)
             PROVE  FALSE
  BY DEF NoOverlap
<1>1. base[j] < i /\ base[j] = j - 1
  BY DEF SerialInv, RaceInv, OverlapNeedsRace, Current
<1>2. i \in Nat /\ j \in Nat
  BY TableFacts DEF SerialInv, RaceInv, TypeInv
<1> QED
  BY <1>1, <1>2

\* While requests run one at a time no setup is double booked, with any
\* number of scheduler processes sweeping at the same time.
THEOREM SerialRequestsNeverOverlap ==
    ASSUME OneSession PROVE Spec => []NoOverlap
BY SpecSerialInv, SerialNoOverlap, PTL

-----------------------------------------------------------------------------
(* The calendar.                                                           *)

Entry(i) ==
    [id |-> i, setup |-> SetupOf(i), user |-> res[i].booking.user,
     from |-> res[i].booking.from, until |-> res[i].booking.until]

LEMMA HeldEntries == Held = {Entry(i) : i \in {j \in Ids : Active(j)}}
BY DEF Held, Entry

\* Closing rows releases their entries.
LEMMA ClosingReleases ==
    ASSUME TypeInv, [Next]_vars, Ids' = Ids
    PROVE  AsCalendar!Release
<1>1. \A i \in Ids' : Active(i)' => Active(i) /\ Entry(i)' = Entry(i)
  BY RowsPersist DEF Entry
<1>2. Held' = {Entry(i)' : i \in {j \in Ids' : Active(j)'}}
  BY DEF Held, Entry
<1>3. Held' \subseteq Held
  BY <1>1, <1>2, HeldEntries
<1>4. Held' = Held \ (Held \ Held')
  BY <1>3
<1> QED
  BY <1>4 DEF AsCalendar!Release

\* An insert books an entry that clashes with none.
LEMMA InsertBooks ==
    ASSUME OneSession, SerialInv, SerialInv', [Next]_vars,
           NEW s \in Sessions, CreateCommit(s)
    PROVE  AsCalendar!Next
<1> DEFINE b == session[s].booking
<1>0. TypeInv /\ TypeInv' /\ Len(res) \in Nat /\ Ids = 1..Len(res)
  BY TableFacts DEF SerialInv, RaceInv, TypeInv
<1>1. PICK n \in Nat : n = Len(res) + 1
  BY <1>0
<1>2. /\ Len(res') = n /\ res'[n] = NewRow(s)
      /\ b \in Booking /\ Ids' = 1..n
  BY <1>0, <1>1, CreateAdds, RowsPersist
<1>3. \A i \in Ids : Active(i)' = Active(i) /\ res'[i] = res[i]
  <2>1. NewRow(s) \in Row
    BY <1>2 DEF NewRow, Row, ReservationStatus
  <2>2. res' = Append(res, NewRow(s)) /\ res \in Seq(Row)
    BY <1>0 DEF CreateCommit, NewRow, TypeInv, TypeOK
  <2> QED
    BY <1>0, <2>1, <2>2, AppendRow DEF Active
<1> DEFINE e == [id |-> n, setup |-> b.setup, user |-> b.user,
                 from |-> b.from, until |-> b.until]
<1>4. Entry(n)' = e /\ Active(n)'
  BY <1>2 DEF Entry, NewRow, SetupOf, Active
<1>5. Held' = Held \union {e}
  <2>1. Held' = {Entry(i)' : i \in {j \in Ids' : Active(j)'}}
    BY DEF Held, Entry
  <2>2. \A i \in Ids : Entry(i)' = Entry(i)
    BY <1>3 DEF Entry, SetupOf
  <2>3. \A i \in Ids' : i \in Ids \/ i = n
    BY <1>0, <1>1, <1>2
  <2>4. n \in Ids' /\ \A i \in Ids : i \in Ids'
    BY <1>0, <1>1, <1>2
  <2> QED
    BY <1>3, <1>4, <2>1, <2>2, <2>3, <2>4, HeldEntries
<1>6. e \in AsCalendar!Bookings /\ e.from < e.until
  BY <1>0, <1>1, <1>2 DEF AsCalendar!Bookings, AsCalendar!Time, Booking, Time
<1>7. ASSUME NEW h \in Held
      PROVE  h.id # e.id /\ ~AsCalendar!Clash(h, e)
  <2>1. PICK i \in Ids : Active(i) /\ h = Entry(i)
    BY HeldEntries
  <2>2. h.id # e.id
    BY <1>0, <1>1, <2>1 DEF Entry
  <2>3. i \in Ids' /\ n \in Ids' /\ i < n /\ Active(i)' /\ Active(n)'
    BY <1>0, <1>1, <1>2, <1>3, <1>4, <2>1
  <2>4. NoOverlap'
    <3>1. SerialInv' => NoOverlap'
      BY SerialNoOverlap, PTL
    <3> QED
      BY <3>1
  <2>5. ~DoubleBooked(i, n)'
    BY <2>3, <2>4 DEF NoOverlap
  <2>6. /\ SetupOf(i)' = h.setup /\ SetupOf(n)' = e.setup
        /\ res'[i].booking.from = h.from /\ res'[i].booking.until = h.until
        /\ res'[n].booking.from = e.from /\ res'[n].booking.until = e.until
    BY <1>2, <1>3, <2>1 DEF Entry, SetupOf, NewRow
  <2>7. AsCalendar!Clash(h, e) => DoubleBooked(i, n)'
    BY <2>3, <2>6 DEF AsCalendar!Clash, AsCalendar!SharesInstant,
                      AsCalendar!Time, DoubleBooked, SharesInstant, Time
  <2> QED
    BY <2>2, <2>5, <2>7
<1>8. e \notin Held
  BY <1>7
<1>9. AsCalendar!Book(e) /\ e \in Held'
  BY <1>5, <1>6, <1>7 DEF AsCalendar!Book
<1> HIDE DEF e
<1> QED
  BY <1>6, <1>8, <1>9 DEF AsCalendar!Next

\* One request at a time: the ACTIVE rows are a calendar without clashes, each
\* create a booking in it, each cancel and each sweep a release.
THEOREM SerialImplementsCalendar ==
    ASSUME OneSession PROVE Spec => ImplementsCalendar
<1>1. Init => AsCalendar!Init
  BY DEF Init, AsCalendar!Init, Held, Ids
<1>2. SerialInv /\ SerialInv' /\ [Next]_vars => [AsCalendar!Next]_Held
  <2> SUFFICES ASSUME SerialInv, SerialInv', [Next]_vars
               PROVE  AsCalendar!Next
    OBVIOUS
  <2>0. TypeInv
    BY DEF SerialInv, RaceInv
  <2>1. ASSUME TableKept \/ TableClosed PROVE AsCalendar!Next
    <3>1. Len(res') = Len(res)
      BY <2>0, <2>1, CloseRows DEF TableKept, TableClosed, TypeInv, TypeOK
    <3>2. Ids' = Ids
      BY <2>0, <3>1, RowsPersist, TableFacts DEF TypeInv
    <3> QED
      BY <2>0, <3>2, ClosingReleases DEF AsCalendar!Next
  <2> QED
    BY <2>0, <2>1, InsertBooks, TableSteps
<1> QED
  BY <1>1, <1>2, SpecSerialInv, PTL
     DEF Spec, ImplementsCalendar, AsCalendar!Spec

-----------------------------------------------------------------------------
(* The sweep and the status column.                                        *)

\* What a sweep is about to complete had ended when it was listed.
ListedEnded ==
    \A w \in Sweepers : sweeper[w].pc \in {"listed", "sweep"} =>
        \A i \in sweeper[w].ids : res[i].booking.until <= now

LEMMA StepListedEnded ==
    ASSUME TypeInv, ListedEnded, [Next]_vars
    PROVE  ListedEnded'
<1> SUFFICES ASSUME NEW w \in Sweepers,
                    sweeper'[w].pc \in {"listed", "sweep"},
                    NEW i \in sweeper'[w].ids
             PROVE  res'[i].booking.until <= now'
  BY DEF ListedEnded
<1>0. now \in Int /\ now' \in Int /\ now <= now'
  <2>1. \A t \in Time : t \in Int
    BY ConstantsOK DEF ConstantsOK, Time
  <2>2. now \in Time /\ now' \in Time
    BY ColumnsTyped DEF TypeInv, TypeOK
  <2>3. now' = now \/ now' = now + 1
    BY DEF Next, Tick, SetupCreate, Request, CreateRead, CreateCheck,
           CreateCommit, CreateMailedThenFailed, CancelRead, CancelCommit,
           EditRead, EditCommit, DeleteRead, DeleteCommit, Rollback, Sweep,
           SweepList, SweepRead, SweepCommit, SweepFail, vars
  <2> QED
    BY <2>1, <2>2, <2>3
<1>1. /\ i \in Ids
      /\ res[i].booking.until <= now
  <2>0. sweeper \in [Sweepers -> SweeperState]
    BY DEF TypeInv, TypeOK
  <2>1. \A z \in Sweepers : sweeper[z].pc \in {"listed", "sweep"} =>
            sweeper[z].ids \subseteq Ids
    BY DEF TypeInv, References
  <2>2. CASE sweeper'[w] = sweeper[w]
    BY <2>1, <2>2 DEF ListedEnded
  <2>3. CASE SweepList(w)
    BY <2>0, <2>3 DEF SweepList, ListExpiredActive
  <2>4. CASE SweepRead(w)
    <3>1. sweeper[w].pc = "listed" /\ sweeper'[w].ids = sweeper[w].ids
      BY <2>0, <2>4 DEF SweepRead
    <3> QED
      BY <2>1, <3>1 DEF ListedEnded
  <2>5. CASE SweepCommit(w) \/ SweepFail(w)
    BY <2>0, <2>5 DEF SweepCommit, SweepFail, Idle
  <2>6. ASSUME NEW z \in Sweepers, Sweep(z), z # w PROVE sweeper'[w] = sweeper[w]
    BY <2>0, <2>6 DEF Sweep, SweepList, SweepRead, SweepCommit, SweepFail
  <2>7. ASSUME Tick \/ (\E x \in Setups : SetupCreate(x))
               \/ (\E s \in Sessions : Request(s)) \/ UNCHANGED vars
        PROVE  sweeper' = sweeper
    BY <2>7 DEF Tick, SetupCreate, Request, CreateRead, CreateCheck,
                CreateCommit, CreateMailedThenFailed, CancelRead, CancelCommit,
                EditRead, EditCommit, DeleteRead, DeleteCommit, Rollback, vars
  <2> QED
    BY <2>2, <2>3, <2>4, <2>5, <2>6, <2>7 DEF Next, Sweep
<1>2. res'[i].booking = res[i].booking
  BY <1>1, RowsPersist
<1>3. res[i].booking.until \in Int
  BY <1>1, TableFacts, ConstantsOK DEF TypeInv, Booking, Time, ConstantsOK
<1> QED
  BY <1>0, <1>1, <1>2, <1>3

\* Which steps change the status of a row, and to what.
LEMMA RowStatusSteps ==
    ASSUME TypeInv, [Next]_vars, NEW i \in Ids'
    PROVE  \/ i \in Ids /\ res'[i] = res[i]
           \/ i \notin Ids /\ \E s \in Sessions : CreateCommit(s)
                           /\ res'[i] = NewRow(s)
           \/ i \in Ids /\ res'[i].status = "CANCELLED"
                        /\ \E s \in Sessions :
                            CancelCommit(s) /\ i = session[s].id
           \/ i \in Ids /\ res'[i].status = "COMPLETED"
                        /\ \E w \in Sweepers :
                            SweepCommit(w) /\ i \in sweeper[w].ids
<1>0. /\ Len(res) \in Nat /\ Ids = 1..Len(res) /\ res \in Seq(Row)
      /\ Ids' = 1..Len(res')
  BY TableFacts, RowsPersist DEF TypeInv, TypeOK
<1>1. CASE res' = res
  BY <1>0, <1>1
<1>2. ASSUME NEW s \in Sessions, CreateCommit(s)
      PROVE  \/ i \in Ids /\ res'[i] = res[i]
             \/ i \notin Ids /\ res'[i] = NewRow(s)
  <2>1. NewRow(s) \in Row
    BY <1>2, CreateAdds DEF NewRow, Row, ReservationStatus
  <2>2. res' = Append(res, NewRow(s))
    BY <1>2 DEF CreateCommit, NewRow
  <2> QED
    BY <1>0, <2>1, <2>2, AppendRow
<1>3. ASSUME NEW s \in Sessions, CancelCommit(s)
      PROVE  i \in Ids /\ \/ res'[i] = res[i]
                          \/ i = session[s].id /\ res'[i].status = "CANCELLED"
  <2>1. res' = SetStatusOf({session[s].id}, "CANCELLED")
    BY <1>3 DEF CancelCommit
  <2>2. i \in Ids
    BY <1>0, <2>1, CloseRows DEF ReservationStatus
  <2>3. res'[i] = IF i = session[s].id THEN [res[i] EXCEPT !.status = "CANCELLED"]
                  ELSE res[i]
    BY <2>1, <2>2 DEF SetStatusOf
  <2>4. res[i] \in Row
    BY <2>2, TableFacts DEF TypeInv
  <2> QED
    BY <2>2, <2>3, <2>4 DEF Row
<1>4. ASSUME NEW w \in Sweepers, SweepCommit(w)
      PROVE  i \in Ids /\ \/ res'[i] = res[i]
                          \/ /\ i \in sweeper[w].ids
                             /\ res'[i].status = "COMPLETED"
  <2>1. res' = SetStatusOf(sweeper[w].ids, "COMPLETED")
    BY <1>4 DEF SweepCommit
  <2>2. i \in Ids
    BY <1>0, <2>1, CloseRows DEF ReservationStatus
  <2>3. res'[i] = IF i \in sweeper[w].ids
                  THEN [res[i] EXCEPT !.status = "COMPLETED"] ELSE res[i]
    BY <2>1, <2>2 DEF SetStatusOf
  <2>4. res[i] \in Row
    BY <2>2, TableFacts DEF TypeInv
  <2> QED
    BY <2>2, <2>3, <2>4 DEF Row
<1>5. \/ res' = res
      \/ \E s \in Sessions : CreateCommit(s) \/ CancelCommit(s)
      \/ \E w \in Sweepers : SweepCommit(w)
  BY DEF Next, Tick, SetupCreate, Request, CreateRead, CreateCheck,
         CreateMailedThenFailed, CancelRead, EditRead, EditCommit, DeleteRead,
         DeleteCommit, Rollback, Sweep, SweepList, SweepRead, SweepFail, vars, db
<1> QED
  BY <1>1, <1>2, <1>3, <1>4, <1>5

LEMMA StepCompleted ==
    ASSUME TypeInv, ListedEnded, CompletedAfterEnd, [Next]_vars
    PROVE  CompletedAfterEnd'
<1> SUFFICES ASSUME NEW i \in Ids', res'[i].status = "COMPLETED"
             PROVE  res'[i].booking.until <= now'
  BY DEF CompletedAfterEnd
<1>1. i \in Ids /\ res[i].booking.until <= now
  <2>1. \A s \in Sessions : NewRow(s).status = "ACTIVE"
    BY DEF NewRow
  <2>2. \A w \in Sweepers : SweepCommit(w) => sweeper[w].pc = "sweep"
    BY DEF SweepCommit
  <2> QED
    BY <2>1, <2>2, RowStatusSteps DEF ListedEnded, CompletedAfterEnd
<1>2. res'[i].booking = res[i].booking
  BY <1>1, RowsPersist
<1>3. now \in Int /\ now' \in Int /\ now <= now' /\ res[i].booking.until \in Int
  <2>1. \A t \in Time : t \in Int
    BY ConstantsOK DEF ConstantsOK, Time
  <2>2. now \in Time /\ now' \in Time /\ res[i].booking.until \in Time
    BY <1>1, ColumnsTyped, TableFacts DEF TypeInv, TypeOK, Booking
  <2>3. now' = now \/ now' = now + 1
    BY DEF Next, Tick, SetupCreate, Request, CreateRead, CreateCheck,
           CreateCommit, CreateMailedThenFailed, CancelRead, CancelCommit,
           EditRead, EditCommit, DeleteRead, DeleteCommit, Rollback, Sweep,
           SweepList, SweepRead, SweepCommit, SweepFail, vars
  <2> QED
    BY <2>1, <2>2, <2>3
<1> QED
  BY <1>1, <1>2, <1>3

\* No reservation is COMPLETED before its end, whoever sweeps and cancels.
THEOREM NeverCompletedEarly == Spec => []CompletedAfterEnd
<1>1. Init => ListedEnded /\ CompletedAfterEnd
  BY DEF Init, ListedEnded, CompletedAfterEnd, Idle, Ids
<1>2. TypeInv /\ ListedEnded /\ CompletedAfterEnd /\ [Next]_vars =>
        ListedEnded' /\ CompletedAfterEnd'
  BY StepListedEnded, StepCompleted
<1> QED
  BY <1>1, <1>2, SpecTypeInv, PTL DEF Spec

-----------------------------------------------------------------------------
(* Why stale reads and vanishing writes leave no setup RESERVED for nobody. *)

\* A sweep that has loaded setup x as AVAILABLE will not write its status.
Blind(w, x) ==
    /\ sweeper[w].pc = "sweep"
    /\ sweeper[w].seen = "AVAILABLE"
    /\ SetupOf(sweeper[w].first) = x

\* The status has a witness, and no sweep that will not write the status is
\* about to complete that witness: it was listed before the row existed.
ReservedInv ==
    \A x \in Setups : status[x] = "RESERVED" /\ ~byAdmin[x] =>
        \E i \in Ids : /\ Active(i)
                       /\ SetupOf(i) = x
                       /\ \A w \in Sweepers : Blind(w, x) => i \notin sweeper[w].ids

\* A sweep turns blind to x only by loading it when it is AVAILABLE.
LEMMA BlindSteps ==
    ASSUME TypeInv, [Next]_vars, NEW w \in Sweepers, NEW x \in Setups,
           status[x] # "AVAILABLE", Blind(w, x)'
    PROVE  Blind(w, x) /\ sweeper'[w] = sweeper[w]
<1>0. sweeper \in [Sweepers -> SweeperState]
  BY DEF TypeInv, TypeOK
<1>1. CASE sweeper'[w] = sweeper[w]
  <2>1. sweeper[w].pc = "sweep" /\ sweeper[w].seen = "AVAILABLE"
    BY <1>1 DEF Blind
  <2>2. sweeper[w].first \in Ids
    BY <2>1 DEF TypeInv, References
  <2>4. PICK k \in Ids : k = sweeper[w].first
    BY <2>2
  <2>5. SetupOf(k)' = SetupOf(k)
    BY RowsPersist
  <2>6. SetupOf(k)' = x
    BY <1>1, <2>4 DEF Blind, SetupOf
  <2> QED
    BY <1>1, <2>1, <2>4, <2>5, <2>6 DEF Blind
<1>2. CASE SweepRead(w)
  <2>1. PICK k \in sweeper[w].ids :
          sweeper' = [sweeper EXCEPT ![w] =
            [pc |-> "sweep", ids |-> sweeper[w].ids, first |-> k,
             seen |-> status[SetupOf(k)]]]
    BY <1>2 DEF SweepRead
  <2>2. sweeper'[w].first = k /\ sweeper'[w].seen = status[SetupOf(k)]
    BY <1>0, <2>1
  <2>3. res' = res
    BY <1>2 DEF SweepRead, db
  <2>4. SetupOf(k) = x
    BY <2>2, <2>3 DEF Blind, SetupOf
  <2> QED
    BY <2>2, <2>4 DEF Blind
<1>3. CASE SweepList(w) \/ SweepCommit(w) \/ SweepFail(w)
  <2>1. sweeper'[w].pc # "sweep"
    BY <1>0, <1>3 DEF SweepList, SweepCommit, SweepFail, Idle
  <2> QED
    BY <2>1 DEF Blind
<1>4. ASSUME NEW z \in Sweepers, Sweep(z), z # w PROVE sweeper'[w] = sweeper[w]
  BY <1>0, <1>4 DEF Sweep, SweepList, SweepRead, SweepCommit, SweepFail
<1>5. ASSUME Tick \/ (\E y \in Setups : SetupCreate(y))
             \/ (\E s \in Sessions : Request(s)) \/ UNCHANGED vars
      PROVE  sweeper' = sweeper
  BY <1>5 DEF Tick, SetupCreate, Request, CreateRead, CreateCheck, CreateCommit,
              CreateMailedThenFailed, CancelRead, CancelCommit, EditRead,
              EditCommit, DeleteRead, DeleteCommit, Rollback, vars
<1> QED
  BY <1>1, <1>2, <1>3, <1>4, <1>5 DEF Next, Sweep

\* A setup is RESERVED after a step because a create has just inserted a row
\* for it, or because it was before and nobody wrote it.
LEMMA ReservedSteps ==
    ASSUME TypeInv, [Next]_vars, NEW x \in Setups,
           status'[x] = "RESERVED", ~byAdmin'[x]
    PROVE  \/ \E s \in Sessions : CreateCommit(s) /\ session[s].booking.setup = x
           \/ status[x] = "RESERVED" /\ ~byAdmin[x]
<1> DEFINE Good ==
        \/ \E s \in Sessions : CreateCommit(s) /\ session[s].booking.setup = x
        \/ status[x] = "RESERVED" /\ ~byAdmin[x]
<1>0. /\ status \in [Setups -> SetupStatus \union {"ABSENT"}]
      /\ byAdmin \in [Setups -> BOOLEAN]
  BY DEF TypeInv, TypeOK
<1>1. CASE UNCHANGED <<status, byAdmin>>
  BY <1>1
<1>2. ASSUME NEW y \in Setups, SetupCreate(y) PROVE Good
  BY <1>0, <1>2 DEF SetupCreate
<1>3. ASSUME NEW s \in Sessions, Request(s) PROVE Good
  <2>1. CASE CreateCommit(s)
    BY <1>0, <2>1 DEF CreateCommit
  <2>2. CASE CancelCommit(s)
    BY <1>0, <2>2 DEF CancelCommit
  <2>3. CASE EditCommit(s)
    BY <1>0, <2>3 DEF EditCommit
  <2>4. CASE DeleteCommit(s)
    BY <1>0, <2>4 DEF DeleteCommit
  <2>5. CASE CreateRead(s) \/ CreateCheck(s) \/ CreateMailedThenFailed(s)
                \/ CancelRead(s) \/ EditRead(s) \/ DeleteRead(s) \/ Rollback(s)
    BY <1>1, <2>5 DEF CreateRead, CreateCheck, CreateMailedThenFailed,
                      CancelRead, EditRead, DeleteRead, Rollback, db
  <2> QED
    BY <1>3, <2>1, <2>2, <2>3, <2>4, <2>5 DEF Request
<1>4. ASSUME NEW w \in Sweepers, Sweep(w) PROVE Good
  <2>1. CASE SweepCommit(w)
    BY <2>1 DEF SweepCommit
  <2>2. CASE SweepList(w) \/ SweepRead(w) \/ SweepFail(w)
    BY <1>1, <2>2 DEF SweepList, SweepRead, SweepFail, db
  <2> QED
    BY <1>4, <2>1, <2>2 DEF Sweep
<1>5. CASE Tick \/ UNCHANGED vars
  BY <1>1, <1>5 DEF Tick, vars, db
<1> QED
  BY <1>2, <1>3, <1>4, <1>5 DEF Next

LEMMA StepReserved ==
    ASSUME TypeInv, ReservedInv, [Next]_vars
    PROVE  ReservedInv'
<1> SUFFICES ASSUME NEW x \in Setups, status'[x] = "RESERVED", ~byAdmin'[x]
             PROVE  \E i \in Ids' : /\ Active(i)'
                                    /\ SetupOf(i)' = x
                                    /\ \A w \in Sweepers :
                                        Blind(w, x)' => i \notin sweeper'[w].ids
  BY DEF ReservedInv
<1>0. Len(res) \in Nat /\ Ids = 1..Len(res) /\ Ids' = 1..Len(res')
  BY TableFacts, RowsPersist DEF TypeInv
<1>1. ASSUME NEW s \in Sessions, CreateCommit(s), session[s].booking.setup = x
      PROVE  \E i \in Ids' : /\ Active(i)'
                             /\ SetupOf(i)' = x
                             /\ \A w \in Sweepers :
                                 Blind(w, x)' => i \notin sweeper'[w].ids
  <2>1. PICK n \in Nat : n = Len(res) + 1
    BY <1>0
  <2>2. n \in Ids' /\ n \notin Ids /\ res'[n] = NewRow(s)
    BY <1>0, <1>1, <2>1, CreateAdds
  <2>3. Active(n)' /\ SetupOf(n)' = x
    BY <1>1, <2>2 DEF Active, SetupOf, NewRow
  <2>4. sweeper' = sweeper
    BY <1>1 DEF CreateCommit
  <2>5. \A w \in Sweepers : Blind(w, x)' => sweeper'[w].ids \subseteq Ids
    BY <2>4 DEF Blind, TypeInv, References
  <2> QED
    BY <2>2, <2>3, <2>5
<1>2. ASSUME status[x] = "RESERVED", ~byAdmin[x]
      PROVE  \E i \in Ids' : /\ Active(i)'
                             /\ SetupOf(i)' = x
                             /\ \A w \in Sweepers :
                                 Blind(w, x)' => i \notin sweeper'[w].ids
  <2>1. PICK k \in Ids :
            /\ Active(k)
            /\ SetupOf(k) = x
            /\ \A w \in Sweepers : Blind(w, x) => k \notin sweeper[w].ids
    BY <1>2 DEF ReservedInv
  <2>2. k \in Ids' /\ SetupOf(k)' = x
    BY <2>1, RowsPersist
  <2>3. \A w \in Sweepers : Blind(w, x)' => k \notin sweeper'[w].ids
    BY <1>2, <2>1, BlindSteps
  <2>4. ~\E s \in Sessions : CancelCommit(s) /\ k = session[s].id
    <3> SUFFICES ASSUME NEW s \in Sessions, CancelCommit(s), k = session[s].id
                 PROVE  FALSE
      OBVIOUS
    <3>1. status'[x] = "AVAILABLE"
      BY <2>1 DEF CancelCommit, TypeInv, TypeOK
    <3> QED
      BY <3>1
  <2>5. ~\E w \in Sweepers : SweepCommit(w) /\ k \in sweeper[w].ids
    <3> SUFFICES ASSUME NEW w \in Sweepers, SweepCommit(w), k \in sweeper[w].ids
                 PROVE  FALSE
      OBVIOUS
    <3>1. x \notin SweepFrees(w) /\ sweeper[w].pc = "sweep"
      BY DEF SweepCommit
    <3>2. Blind(w, x)
      BY <2>1, <3>1 DEF SweepFrees, Blind
    <3> QED
      BY <2>1, <3>2
  <2>6. Active(k)'
    BY <2>1, <2>2, <2>4, <2>5, RowStatusSteps DEF Active
  <2> QED
    BY <2>2, <2>3, <2>6
<1> QED
  BY <1>1, <1>2, ReservedSteps

\* A RESERVED setup has an ACTIVE reservation, or an administrator said so.
THEOREM ReservedHasReason == Spec => []ReservedExplained
<1>1. Init => ReservedInv
  BY DEF Init, ReservedInv
<1>2. TypeInv /\ ReservedInv /\ [Next]_vars => ReservedInv'
  BY StepReserved
<1>3. ReservedInv => ReservedExplained
  BY DEF ReservedInv, ReservedExplained
<1> QED
  BY <1>1, <1>2, <1>3, SpecTypeInv, PTL DEF Spec

\* Both statuses have their reason, whatever the interleaving.
THEOREM StatusHasReason == Spec => []StatusExplained
<1>1. ReservedExplained /\ CompletedAfterEnd => StatusExplained
  BY DEF StatusExplained
<1> QED
  BY <1>1, ReservedHasReason, NeverCompletedEarly, PTL

-----------------------------------------------------------------------------
(* How often a reservation is announced.                                   *)

\* The jobs that have row i on their list and have not written it yet.
Pending(i) ==
    {w \in Sweepers : /\ sweeper[w].pc \in {"listed", "sweep"}
                      /\ i \in sweeper[w].ids}

\* An ACTIVE row has not been announced; any other row is on no new list, and
\* each list it is on yet is good for one announcement.
NoticeInv ==
    \A i \in Ids : /\ Active(i) => notices[i] = 0
                   /\ notices[i] + Cardinality(Pending(i)) <= Cardinality(Sweepers)

\* Only a commit of the sweep announces, and only what is on its list.
LEMMA NoticeSteps ==
    ASSUME TypeInv, [Next]_vars
    PROVE  \/ notices' = notices /\ sweeper' = sweeper
           \/ \E s \in Sessions : CreateCommit(s)
           \/ \E w \in Sweepers : Sweep(w)
BY DEF Next, Tick, SetupCreate, Request, CreateRead, CreateCheck,
       CreateMailedThenFailed, CancelRead, CancelCommit, EditRead, EditCommit,
       DeleteRead, DeleteCommit, Rollback, vars, db

LEMMA StepNotices ==
    ASSUME IsFiniteSet(Sweepers), TypeInv, NoticeInv, [Next]_vars
    PROVE  NoticeInv'
<1>0. /\ Len(res) \in Nat /\ Ids = 1..Len(res)
      /\ \A i \in Ids : i \in Ids' /\ (Active(i)' => Active(i))
  BY TableFacts, RowsPersist DEF TypeInv
<1>1. /\ notices \in Seq(Nat) /\ Len(notices) = Len(res)
      /\ \A i \in Ids : notices[i] \in Nat
  BY <1>0, ElementOfSeq DEF TypeInv, TypeOK
<1>2. Cardinality(Sweepers) \in Nat
  BY FS_CardinalityType
<1>3. ASSUME NEW T \in SUBSET Sweepers
      PROVE  /\ IsFiniteSet(T) /\ Cardinality(T) \in Nat
             /\ Cardinality(T) <= Cardinality(Sweepers)
  BY FS_Subset, FS_CardinalityType
<1>4. \A i : Pending(i) \in SUBSET Sweepers /\ Pending(i)' \in SUBSET Sweepers
  BY DEF Pending
<1>6. CASE notices' = notices /\ sweeper' = sweeper /\ Ids' = Ids
  <2>1. \A i : Pending(i)' = Pending(i)
    BY <1>6 DEF Pending
  <2> QED
    BY <1>0, <1>6, <2>1 DEF NoticeInv
<1>7. ASSUME NEW s \in Sessions, CreateCommit(s)
      PROVE  NoticeInv'
  <2>1. notices' = Append(notices, 0) /\ sweeper' = sweeper
    BY <1>7 DEF CreateCommit
  <2>2. Ids' = 1..(Len(res) + 1)
    BY <1>7, CreateAdds, RowsPersist
  <2>3. \A i : Pending(i)' = Pending(i)
    BY <2>1 DEF Pending
  <2>4. SUFFICES ASSUME NEW i \in Ids'
                 PROVE  /\ Active(i)' => notices'[i] = 0
                        /\ notices'[i] + Cardinality(Pending(i))
                               <= Cardinality(Sweepers)
    BY <2>3 DEF NoticeInv
  <2>5. /\ 0 \in Nat
        /\ \A j \in 1..Len(notices) : notices'[j] = notices[j]
        /\ notices'[Len(notices) + 1] = 0
    BY <1>1, <2>1, AppendRow
  <2>6. CASE i \in Ids
    BY <1>0, <1>1, <2>5, <2>6 DEF NoticeInv
  <2>7. CASE i = Len(res) + 1
    BY <1>1, <1>2, <1>3, <1>4, <2>5, <2>7
  <2> QED
    BY <1>0, <2>2, <2>6, <2>7
<1>8. ASSUME NEW w \in Sweepers, Sweep(w)
      PROVE  NoticeInv'
  <2>1. sweeper \in [Sweepers -> SweeperState] /\ Idle.pc = "idle"
    BY DEF TypeInv, TypeOK, Idle
  <2>2. Ids' = Ids
    <3>1. res' = res \/ \E ids : res' = SetStatusOf(ids, "COMPLETED")
      BY <1>8 DEF Sweep, SweepList, SweepRead, SweepCommit, SweepFail, db
    <3> QED
      BY <3>1 DEF SetStatusOf, Ids
  <2>3. ASSUME NEW v \in Sweepers, v # w PROVE sweeper'[v] = sweeper[v]
    BY <1>8, <2>1, <2>3 DEF Sweep, SweepList, SweepRead, SweepCommit, SweepFail
  <2>4. SUFFICES ASSUME NEW i \in Ids
                 PROVE  /\ Active(i)' => notices'[i] = 0
                        /\ notices'[i] + Cardinality(Pending(i)')
                               <= Cardinality(Sweepers)
    BY <2>2 DEF NoticeInv
  <2>5. /\ Active(i) => notices[i] = 0
        /\ notices[i] + Cardinality(Pending(i)) <= Cardinality(Sweepers)
        /\ notices[i] \in Nat
    BY <1>1 DEF NoticeInv
  <2>6. /\ Cardinality(Pending(i)) \in Nat /\ Cardinality(Pending(i)') \in Nat
        /\ Cardinality(Pending(i)') <= Cardinality(Sweepers)
        /\ IsFiniteSet(Pending(i))
    BY <1>3, <1>4
  <2>7. CASE SweepList(w)
    <3>1. notices' = notices /\ (Active(i)' => Active(i))
      BY <1>0, <2>7 DEF SweepList, db
    <3>2. CASE Active(i)
      BY <1>2, <2>5, <2>6, <3>1, <3>2
    <3>3. CASE ~Active(i)
      <4>1. sweeper[w] = Idle /\ i \notin sweeper'[w].ids
        BY <2>1, <2>7, <3>3 DEF SweepList, ListExpiredActive
      <4>2. w \notin Pending(i) /\ w \notin Pending(i)'
        BY <2>1, <4>1 DEF Pending
      <4>3. Pending(i)' = Pending(i)
        BY <2>3, <4>2 DEF Pending
      <4> QED
        BY <2>5, <3>1, <3>3, <4>3
    <3> QED
      BY <3>2, <3>3
  <2>8. CASE SweepRead(w)
    <3>1. notices' = notices /\ (Active(i)' => Active(i))
      BY <1>0, <2>8 DEF SweepRead, db
    <3>2. /\ sweeper[w].pc = "listed" /\ sweeper'[w].pc = "sweep"
          /\ sweeper'[w].ids = sweeper[w].ids
      BY <2>1, <2>8 DEF SweepRead
    <3>3. Pending(i)' = Pending(i)
      BY <2>3, <3>2 DEF Pending
    <3> QED
      BY <2>5, <3>1, <3>3
  <2>9. CASE SweepCommit(w) \/ SweepFail(w)
    <3>1. sweeper'[w] = Idle
      BY <2>1, <2>9 DEF SweepCommit, SweepFail
    <3>2. Pending(i)' = Pending(i) \ {w}
      BY <2>1, <2>3, <3>1 DEF Pending
    <3>3. Cardinality(Pending(i)') = IF w \in Pending(i)
                                     THEN Cardinality(Pending(i)) - 1
                                     ELSE Cardinality(Pending(i))
      BY <2>6, <3>2, FS_RemoveElement
    <3>4. CASE SweepFail(w)
      <4>1. notices' = notices
        BY <3>4 DEF SweepFail
      <4>2. Active(i)' => Active(i)
        BY <1>0
      <4> QED
        BY <1>2, <2>5, <2>6, <3>3, <4>1, <4>2
    <3>5. CASE SweepCommit(w)
      <4>1. /\ sweeper[w].pc = "sweep"
            /\ notices'[i] = notices[i] + (IF i \in sweeper[w].ids THEN 1 ELSE 0)
            /\ res'[i] = IF i \in sweeper[w].ids
                         THEN [res[i] EXCEPT !.status = "COMPLETED"] ELSE res[i]
        BY <3>5 DEF SweepCommit, SetStatusOf
      <4>2. i \in sweeper[w].ids <=> w \in Pending(i)
        BY <4>1 DEF Pending
      <4>3. res[i] \in Row
        BY TableFacts DEF TypeInv
      <4>4. i \in sweeper[w].ids => ~Active(i)'
        BY <4>1, <4>3 DEF Active, Row
      <4> QED
        BY <1>0, <2>5, <2>6, <3>3, <4>1, <4>2, <4>4
    <3> QED
      BY <2>9, <3>4, <3>5
  <2> QED
    BY <1>8, <2>7, <2>8, <2>9 DEF Sweep
<1>9. \/ Ids' = Ids
      \/ \E s \in Sessions : CreateCommit(s)
  BY TableSteps, <1>0 DEF TableKept, TableClosed, SetStatusOf, Ids
<1> QED
  BY <1>6, <1>7, <1>8, <1>9, NoticeSteps

\* However many jobs list a reservation at once, each announces its end once at
\* most: what one has written no other job lists again.
THEOREM AnnouncedOncePerScheduler ==
    ASSUME IsFiniteSet(Sweepers) PROVE Spec => []NoticesBounded
<1>1. Init => NoticeInv
  BY DEF Init, NoticeInv, Ids
<1>2. TypeInv /\ NoticeInv /\ [Next]_vars => NoticeInv'
  BY StepNotices
<1>3. TypeInv /\ NoticeInv => NoticesBounded
  <2> SUFFICES ASSUME TypeInv, NoticeInv, NEW i \in Ids
               PROVE  notices[i] <= Cardinality(Sweepers)
    BY DEF NoticesBounded
  <2>1. IsFiniteSet(Pending(i))
    BY FS_Subset DEF Pending
  <2>2. Cardinality(Pending(i)) \in Nat /\ Cardinality(Sweepers) \in Nat
    BY <2>1, FS_CardinalityType
  <2>3. notices[i] \in Nat
    BY TableFacts, ElementOfSeq DEF TypeInv, TypeOK
  <2> QED
    BY <2>2, <2>3 DEF NoticeInv
<1> QED
  BY <1>1, <1>2, <1>3, SpecTypeInv, PTL DEF Spec
=============================================================================
