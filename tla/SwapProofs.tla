------------------------------ MODULE SwapProofs ------------------------------
(***************************************************************************)
(* Theorems about Swap for every value of its constants: any number of     *)
(* setups, columns, templates, requests and sessions.                      *)
(***************************************************************************)
EXTENDS SwapProperties, Tables

-----------------------------------------------------------------------------
(* What the tables and the sessions hold.                                   *)

Deciding == {"current", "requested", "values", "exchange", "reject", "cancel"}

\* A request is between two setups; a session that decides one has read it.
Proper ==
    /\ \A i \in Ids : Current(i) # Requested(i)
    /\ \A s \in Sessions : proc[s].pc \in Deciding => proc[s].id \in Ids

TypeInv == TypeOK /\ Proper

LEMMA SwapFacts ==
    ASSUME SwapConstantsOK, TypeOK
    PROVE  /\ Len(swaps) \in Nat
           /\ Ids = 1..Len(swaps)
           /\ \A i \in Ids : /\ swaps[i] \in SwapRow
                             /\ Current(i) \in Setups
                             /\ Requested(i) \in Setups
                             /\ Status(i) \in SwapStatus
                             /\ swaps[i].columns \in Seq(Columns)
                             /\ Names(i) \subseteq Columns
<1>1. Len(swaps) \in Nat /\ Ids = 1..Len(swaps)
  BY LenProperties DEF TypeOK, Ids
<1>2. \A i \in Ids : swaps[i] \in SwapRow
  BY <1>1, ElementOfSeq DEF TypeOK
<1>3. \A i \in Ids : /\ Current(i) \in Setups /\ Requested(i) \in Setups
                     /\ Status(i) \in SwapStatus
                     /\ swaps[i].columns \in ColumnLists
  BY <1>2 DEF SwapRow, Current, Requested, Status
<1>4. \A i \in Ids : swaps[i].columns \in Seq(Columns)
  BY <1>3 DEF SwapConstantsOK
<1>5. \A i \in Ids : Names(i) \subseteq Columns
  BY <1>4, ElementOfSeq, LenProperties DEF Names
<1> QED
  BY <1>1, <1>2, <1>3, <1>4, <1>5

LEMMA ProcFields ==
    ASSUME TypeOK, NEW s \in Sessions
    PROVE  /\ proc[s] = Idle => proc[s].pc = "idle"
           /\ proc[s].pc \in Deciding => proc[s].id \in Nat
           /\ proc[s].pc \in {"requested", "values", "exchange"} =>
                proc[s].left \in SetupValues
           /\ proc[s].pc \in {"values", "exchange"} => proc[s].right \in SetupValues
           /\ proc[s].pc \in {"form", "save"} => /\ proc[s].setup \in Setups
                                                 /\ proc[s].form \in SetupValues
           /\ proc[s].pc = "save" => proc[s].before \in SetupValues
<1>1. proc[s] \in ProcState
  BY DEF TypeOK
<1> QED
  BY <1>1 DEF ProcState, Idle, Deciding

LEMMA SessionGoes ==
    ASSUME TypeOK, NEW s \in Sessions, NEW next \in ProcState, Goes(s, next)
    PROVE  /\ proc' \in [Sessions -> ProcState]
           /\ \A t \in Sessions : proc'[t] = IF t = s THEN next ELSE proc[t]
  BY DEF Goes, TypeOK

-----------------------------------------------------------------------------
(* What the exchange operators compute.                                     *)

LEMMA CellFacts ==
    ASSUME SwapConstantsOK, NEW x \in Setups
    PROVE  /\ \A d : Default(x, d) \in Cell
           /\ NoBase \notin Cell
           /\ Null \in Cell
           /\ Fixed \subseteq Columns
           /\ \A d \in Fixed : d \notin Custom
  BY DEF SwapConstantsOK, Default, TemplateColumn, Cell, Columns

LEMMA AssignedTyped ==
    ASSUME SwapConstantsOK, NEW x \in Setups, NEW row \in SetupValues,
           NEW new \in SetupValues, NEW cols, NEW n
    PROVE  Assigned(x, row, new, cols, n) \in SetupValues
<1>1. \A d \in Columns : new[d] \in Cell /\ row[d] \in Cell /\ Default(x, d) \in Cell
  BY CellFacts DEF SetupValues
<1> QED
  BY <1>1 DEF Assigned, SetupValues

LEMMA FlushedTyped ==
    ASSUME SwapConstantsOK, TypeOK, NEW x \in Setups, NEW own,
           NEW new \in SetupValues, NEW cols, NEW n
    PROVE  Flushed(x, own, new, cols, n) \in SetupValues
<1>1. cur[x] \in SetupValues
  BY DEF TypeOK
<1>2. Assigned(x, cur[x], new, cols, n) \in SetupValues
  BY <1>1, AssignedTyped
<1> QED
  BY <1>1, <1>2 DEF Flushed, SetupValues

LEMMA CapturedTyped ==
    ASSUME SwapConstantsOK, TypeOK, NEW x \in Setups, NEW own \in SetupValues,
           NEW cols, NEW n, NEW m
    PROVE  Captured(x, own, cols, n, m) \in [Columns -> Cell \union {NoBase}]
<1>1. \A d \in Columns : /\ own[d] \in Cell /\ Default(x, d) \in Cell
                         /\ base[x][d] \in Cell \union {NoBase}
  BY CellFacts DEF SetupValues, TypeOK
<1> QED
  BY <1>1 DEF Captured

\* A fixed column is exchanged if it is written, whatever else is, provided
\* that what was read of it still holds.
LEMMA FlushedFixed ==
    ASSUME SwapConstantsOK, NEW x \in Setups, NEW own, NEW new, NEW cols, NEW n,
           NEW c \in Fixed, c \in Written(cols, n) => own[c] = cur[x][c]
    PROVE  Flushed(x, own, new, cols, n)[c] =
                IF c \in Written(cols, n) THEN new[c] ELSE cur[x][c]
<1>1. c \in Columns
  BY DEF Columns
<1>2. Assigned(x, cur[x], new, cols, n)[c] =
          IF c \in Written(cols, n) THEN new[c] ELSE cur[x][c]
  BY <1>1 DEF Assigned
<1> QED
  BY <1>1, <1>2 DEF Flushed

\* Also of one that has changed: what is not written is left alone.
LEMMA FlushedUnwritten ==
    ASSUME NEW x \in Setups, NEW own, NEW new, NEW cols, NEW n,
           NEW c \in Fixed, c \notin Written(cols, n)
    PROVE  Flushed(x, own, new, cols, n)[c] = cur[x][c]
  BY DEF Flushed, Assigned, Columns

LEMMA SavedTyped ==
    ASSUME SwapConstantsOK, TypeOK, NEW s \in Sessions, NEW takes,
           proc[s].pc = "save"
    PROVE  Saved(s, takes) \in SetupValues
<1>1. /\ proc[s].setup \in Setups /\ proc[s].form \in SetupValues
      /\ cur[proc[s].setup] \in SetupValues
  BY ProcFields DEF TypeOK
<1>2. \A d \in Columns : /\ proc[s].form[d] \in Cell
                         /\ cur[proc[s].setup][d] \in Cell
                         /\ Default(proc[s].setup, d) \in Cell
  BY <1>1, CellFacts DEF SetupValues
<1> QED
  BY <1>2 DEF Saved, SetupValues

-----------------------------------------------------------------------------
(* Type correctness.                                                        *)

\* The columns of request i that are not fixed are in both templates.
Common(i) ==
    \A k \in DOMAIN swaps[i].columns :
        swaps[i].columns[k] \in
            Fixed \union (DOMAIN Template[Current(i)] \intersect DOMAIN Template[Requested(i)])

\* The table keeps its requests, and what it gains is between two setups.
SwapsStep ==
    /\ swaps' \in Seq(SwapRow)
    /\ \A i \in Ids : /\ i \in Ids'
                       /\ Current(i)' = Current(i)
                       /\ Requested(i)' = Requested(i)
                       /\ swaps'[i].columns = swaps[i].columns
    /\ \A i \in Ids' \ Ids : Current(i)' # Requested(i)' /\ Common(i)'

\* The variables that hold values are well typed after the step.
DataTyped ==
    /\ cur' \in [Setups -> SetupValues]
    /\ base' \in [Setups -> [Columns -> Cell \union {NoBase}]]
    /\ usable' \in [Setups -> BOOLEAN]
    /\ ledger' \in Seq(LedgerEntry)
    /\ edited' \subseteq Setups \X Columns
    /\ stale' \in BOOLEAN

LEMMA SwapsKept ==
    ASSUME TypeInv, UNCHANGED swaps
    PROVE  SwapsStep
  BY DEF SwapsStep, TypeInv, TypeOK, Proper, Ids, Current, Requested

LEMMA SwapDecided ==
    ASSUME SwapConstantsOK, TypeInv, NEW i \in Ids, NEW new \in SwapStatus,
           swaps' = [swaps EXCEPT ![i].status = new]
    PROVE  SwapsStep
<1> DEFINE row == [swaps[i] EXCEPT !.status = new]
<1>1. /\ swaps \in Seq(SwapRow) /\ i \in 1..Len(swaps) /\ Ids = 1..Len(swaps)
      /\ swaps[i] \in SwapRow
  BY SwapFacts DEF TypeInv, TypeOK
<1>2. /\ row \in SwapRow
      /\ row.current = swaps[i].current /\ row.requested = swaps[i].requested
      /\ row.columns = swaps[i].columns
  BY <1>1 DEF SwapRow
<1>3. swaps' = [swaps EXCEPT ![i] = row]
  OBVIOUS
<1> HIDE DEF row
<1>4. /\ [swaps EXCEPT ![i] = row] \in Seq(SwapRow)
      /\ DOMAIN [swaps EXCEPT ![i] = row] = 1..Len(swaps)
      /\ \A j \in 1..Len(swaps) :
            [swaps EXCEPT ![i] = row][j] = IF j = i THEN row ELSE swaps[j]
  BY <1>1, <1>2, WriteEntry
<1> QED
  BY <1>1, <1>2, <1>3, <1>4 DEF SwapsStep, Ids, Current, Requested

LEMMA DataKept ==
    ASSUME TypeInv, UNCHANGED data, usable' \in [Setups -> BOOLEAN]
    PROVE  DataTyped
  BY DEF DataTyped, TypeInv, TypeOK, data

LEMMA SessionStep ==
    ASSUME SwapConstantsOK, TypeInv, NEW s \in Sessions, NEW next \in ProcState,
           Goes(s, next), next.pc \in Deciding => next.id \in Ids,
           SwapsStep, DataTyped
    PROVE  TypeInv'
<1>1. /\ proc' \in [Sessions -> ProcState]
      /\ \A t \in Sessions : proc'[t] = IF t = s THEN next ELSE proc[t]
  BY SessionGoes DEF TypeInv
<1>2. TypeOK'
  BY <1>1 DEF TypeOK, SwapsStep, DataTyped
<1>3. ASSUME NEW i \in Ids'
      PROVE  Current(i)' # Requested(i)'
  BY DEF SwapsStep, TypeInv, Proper
<1>4. ASSUME NEW t \in Sessions, proc'[t].pc \in Deciding
      PROVE  proc'[t].id \in Ids'
  BY <1>1, <1>4 DEF SwapsStep, TypeInv, Proper
<1> QED
  BY <1>2, <1>3, <1>4 DEF TypeInv, Proper

\* A session that ends or goes on, and changes nothing else.
LEMMA OnlyGoes ==
    ASSUME SwapConstantsOK, TypeInv, NEW s \in Sessions, NEW next \in ProcState,
           Goes(s, next), next.pc \in Deciding => next.id \in Ids,
           UNCHANGED <<usable, swaps, data>>
    PROVE  TypeInv'
  BY SwapsKept, DataKept, SessionStep DEF TypeInv, TypeOK

LEMMA IdleState == Idle \in ProcState /\ Idle.pc \notin Deciding
  BY DEF Idle, ProcState, Deciding

LEMMA OnlyEnds ==
    ASSUME SwapConstantsOK, TypeInv, NEW s \in Sessions, Ends(s),
           UNCHANGED <<usable, swaps, data>>
    PROVE  TypeInv'
  BY IdleState, OnlyGoes DEF Ends

LEMMA Decided ==
    ASSUME SwapConstantsOK, TypeInv, NEW s \in Sessions, Ends(s),
           proc[s].pc \in Deciding, NEW new \in SwapStatus,
           swaps' = [swaps EXCEPT ![proc[s].id].status = new], DataTyped
    PROVE  TypeInv'
<1>1. proc[s].id \in Ids
  BY DEF TypeInv, Proper
<1>2. SwapsStep
  BY <1>1, SwapDecided
<1> QED
  BY <1>2, IdleState, SessionStep DEF Ends

LEMMA InitTypeInv ==
    ASSUME SwapConstantsOK, Init
    PROVE  TypeInv
<1>1. /\ cur = Stock /\ swaps = <<>> /\ ledger = <<>> /\ edited = {}
      /\ stale = FALSE /\ usable \in [Setups -> {TRUE}]
      /\ \A s \in Sessions : proc[s] = Idle
      /\ proc \in [Sessions -> ProcState]
  BY IdleState DEF Init
<1>2. base \in [Setups -> [Columns -> Cell \union {NoBase}]]
  BY DEF Init, SwapConstantsOK, SetupValues
<1>3. usable \in [Setups -> BOOLEAN] /\ Stock \in [Setups -> SetupValues]
  BY <1>1 DEF SwapConstantsOK
<1>4. <<>> \in Seq(SwapRow) /\ <<>> \in Seq(LedgerEntry) /\ DOMAIN <<>> = {}
  OBVIOUS
<1>5. TypeOK
  BY <1>1, <1>2, <1>3, <1>4 DEF TypeOK
<1>6. Proper
  BY <1>1, <1>4, IdleState DEF Proper, Ids
<1> QED
  BY <1>5, <1>6 DEF TypeInv

LEMMA CreateSwaps ==
    ASSUME SwapConstantsOK, TypeInv, NEW s \in Sessions, Create(s)
    PROVE  SwapsStep
<1>1. PICK a \in Setups, b \in Setups, u \in Users, cols \in ColumnLists :
        /\ a # b
        /\ \A k \in DOMAIN cols :
            cols[k] \in Fixed \union (DOMAIN Template[a] \intersect DOMAIN Template[b])
        /\ swaps' = Append(swaps, [current |-> a, requested |-> b, columns |-> cols,
                                   requester |-> u, status |-> "PENDING"])
  BY DEF Create
<1> DEFINE row == [current |-> a, requested |-> b, columns |-> cols,
                   requester |-> u, status |-> "PENDING"]
<1>2. /\ row \in SwapRow
      /\ row.current = a /\ row.requested = b /\ row.columns = cols
  BY DEF SwapRow, SwapStatus
<1>3. swaps \in Seq(SwapRow) /\ Len(swaps) \in Nat /\ Ids = 1..Len(swaps)
  BY SwapFacts DEF TypeInv, TypeOK
<1>4. swaps' = Append(swaps, row)
  BY <1>1
<1> HIDE DEF row
<1>5. /\ swaps' \in Seq(SwapRow) /\ DOMAIN swaps' = 1..(Len(swaps) + 1)
      /\ \A i \in Ids : swaps'[i] = swaps[i]
      /\ swaps'[Len(swaps) + 1] = row
  BY <1>2, <1>3, <1>4, AppendRow
<1>6. \A i \in Ids' \ Ids : i = Len(swaps) + 1
  BY <1>3, <1>5 DEF Ids
<1>7. \A i \in Ids : i \in Ids'
  BY <1>3, <1>5 DEF Ids
<1> QED
  BY <1>1, <1>2, <1>5, <1>6, <1>7 DEF SwapsStep, Current, Requested, Common

LEMMA CreateTyped ==
    ASSUME SwapConstantsOK, TypeInv, NEW s \in Sessions, Create(s)
    PROVE  TypeInv'
<1>1. SwapsStep
  BY CreateSwaps
<1>2. UNCHANGED <<proc, usable, data>>
  BY DEF Create
<1>3. DataTyped
  BY <1>2, DataKept DEF TypeInv, TypeOK
<1>4. TypeOK'
  BY <1>1, <1>2, <1>3 DEF TypeOK, TypeInv, SwapsStep, DataTyped
<1>5. Proper'
  BY <1>1, <1>2 DEF Proper, TypeInv, SwapsStep
<1> QED
  BY <1>4, <1>5 DEF TypeInv

\* The reads of an approval.
LEMMA ApproveReadsTyped ==
    ASSUME SwapConstantsOK, TypeInv, NEW s \in Sessions,
           \/ ApproveRead(s) \/ ReadCurrent(s) \/ ReadRequested(s) \/ ReadValues(s)
    PROVE  TypeInv'
<1>1. \A x \in Setups : cur[x] \in SetupValues
  BY DEF TypeInv, TypeOK
<1>2. /\ proc[s].pc \in Deciding => proc[s].id \in Ids /\ proc[s].id \in Nat
      /\ \A i \in Ids : i \in Nat /\ Current(i) \in Setups /\ Requested(i) \in Setups
  BY SwapFacts, ProcFields DEF TypeInv, Proper
<1>3. CASE ApproveRead(s)
  <2>1. PICK i \in Ids : Goes(s, [pc |-> "current", id |-> i])
    BY <1>3 DEF ApproveRead
  <2>2. [pc |-> "current", id |-> i] \in ProcState
    BY <1>2 DEF ProcState
  <2> QED
    BY <1>3, <2>1, <2>2, OnlyGoes DEF ApproveRead
<1>4. CASE ReadCurrent(s)
  <2>1. proc[s].id \in Ids /\ proc[s].id \in Nat
    BY <1>2, <1>4 DEF ReadCurrent, Deciding
  <2> DEFINE next == [pc |-> "requested", id |-> proc[s].id,
                      left |-> cur[Current(proc[s].id)]]
  <2>2. next \in ProcState /\ next.id \in Ids
    BY <1>1, <1>2, <2>1 DEF ProcState
  <2>3. Goes(s, next) \/ Ends(s)
    BY <1>4 DEF ReadCurrent
  <2>4. UNCHANGED <<usable, swaps, data>>
    BY <1>4 DEF ReadCurrent
  <2> QED
    BY <2>2, <2>3, <2>4, OnlyGoes, OnlyEnds
<1>5. CASE ReadRequested(s)
  <2>1. /\ proc[s].id \in Ids /\ proc[s].id \in Nat
        /\ proc[s].left \in SetupValues
    BY <1>2, <1>5, ProcFields DEF ReadRequested, Deciding, TypeInv
  <2> DEFINE next(pc) == [pc |-> pc, id |-> proc[s].id, left |-> proc[s].left,
                          right |-> cur[Requested(proc[s].id)]]
  <2>2. ASSUME NEW pc \in {"exchange", "values"}
        PROVE  next(pc) \in ProcState /\ next(pc).id \in Ids
    BY <1>1, <1>2, <2>1 DEF ProcState
  <2>3. Goes(s, next("exchange")) \/ Goes(s, next("values")) \/ Ends(s)
    BY <1>5 DEF ReadRequested
  <2>4. UNCHANGED <<usable, swaps, data>>
    BY <1>5 DEF ReadRequested
  <2>5. CASE Goes(s, next("exchange"))
    BY <2>2, <2>4, <2>5, OnlyGoes
  <2>6. CASE Goes(s, next("values"))
    BY <2>2, <2>4, <2>6, OnlyGoes
  <2> QED
    BY <2>3, <2>4, <2>5, <2>6, OnlyEnds
<1>6. CASE ReadValues(s)
  <2>1. /\ proc[s].id \in Ids /\ proc[s].id \in Nat
        /\ proc[s].left \in SetupValues /\ proc[s].right \in SetupValues
    BY <1>2, <1>6, ProcFields DEF ReadValues, Deciding, TypeInv
  <2> DEFINE a == Current(proc[s].id)
             b == Requested(proc[s].id)
             left == [d \in Columns |-> IF d \in Custom THEN cur[a][d]
                                        ELSE proc[s].left[d]]
             right == [d \in Columns |-> IF d \in Custom THEN cur[b][d]
                                         ELSE proc[s].right[d]]
             next == [pc |-> "exchange", id |-> proc[s].id,
                      left |-> left, right |-> right]
  <2>2. left \in SetupValues /\ right \in SetupValues
    <3>1. a \in Setups /\ b \in Setups
      BY <1>2, <2>1
    <3>2. cur[a] \in SetupValues /\ cur[b] \in SetupValues
      BY <1>1, <3>1
    <3> QED
      BY <2>1, <3>2 DEF SetupValues
  <2>3. Goes(s, next)
    BY <1>6 DEF ReadValues
  <2> HIDE DEF left, right
  <2>4. next \in ProcState /\ next.id \in Ids
    BY <2>1, <2>2 DEF ProcState
  <2>5. UNCHANGED <<usable, swaps, data>>
    BY <1>6 DEF ReadValues
  <2> QED
    BY <2>3, <2>4, <2>5, OnlyGoes
<1> QED
  BY <1>3, <1>4, <1>5, <1>6

LEMMA ExchangeTyped ==
    ASSUME SwapConstantsOK, TypeInv, NEW s \in Sessions, NEW n, NEW m, NEW r,
           proc[s].pc = "exchange", Exchange(s, n, m, r)
    PROVE  /\ cur' \in [Setups -> SetupValues]
           /\ base' \in [Setups -> [Columns -> Cell \union {NoBase}]]
           /\ stale' \in BOOLEAN
<1> DEFINE a == Current(proc[s].id)
           b == Requested(proc[s].id)
           cols == swaps[proc[s].id].columns
           left == proc[s].left
           right == proc[s].right
<1>1. /\ TypeOK /\ a \in Setups /\ b \in Setups
      /\ left \in SetupValues /\ right \in SetupValues
  BY SwapFacts, ProcFields DEF TypeInv, Proper, Deciding
<1>2. /\ Flushed(a, left, right, cols, n) \in SetupValues
      /\ Flushed(b, right, left, cols, m) \in SetupValues
  BY <1>1, FlushedTyped
<1>3. /\ Captured(a, left, cols, n, r) \in [Columns -> Cell \union {NoBase}]
      /\ Captured(b, right, cols, m, r) \in [Columns -> Cell \union {NoBase}]
  BY <1>1, CapturedTyped
<1>4. stale' \in BOOLEAN
  BY <1>1 DEF Exchange, Outdated, TypeOK
<1>5. /\ cur' = [cur EXCEPT ![a] = Flushed(a, left, right, cols, n),
                            ![b] = Flushed(b, right, left, cols, m)]
      /\ base' = [base EXCEPT ![a] = Captured(a, left, cols, n, r),
                              ![b] = Captured(b, right, cols, m, r)]
  BY DEF Exchange
<1> HIDE DEF a, b, cols, left, right
<1> QED
  BY <1>1, <1>2, <1>3, <1>4, <1>5 DEF TypeOK

LEMMA ApproveCommitTyped ==
    ASSUME SwapConstantsOK, TypeInv, NEW s \in Sessions, ApproveCommit(s)
    PROVE  TypeInv'
<1> DEFINE i == proc[s].id
           entry == [id |-> i, left |-> proc[s].left, right |-> proc[s].right]
<1>1. /\ proc[s].pc = "exchange" /\ proc[s].pc \in Deciding
      /\ i \in Nat /\ proc[s].left \in SetupValues /\ proc[s].right \in SetupValues
  BY ProcFields DEF ApproveCommit, Deciding, TypeInv
<1>2. /\ cur' \in [Setups -> SetupValues]
      /\ base' \in [Setups -> [Columns -> Cell \union {NoBase}]]
      /\ stale' \in BOOLEAN
  BY <1>1, ExchangeTyped DEF ApproveCommit
<1>3. ledger' \in Seq(LedgerEntry)
  <2>1. entry \in LedgerEntry
    BY <1>1 DEF LedgerEntry
  <2>2. ledger' = Append(ledger, entry) /\ ledger \in Seq(LedgerEntry)
    BY DEF ApproveCommit, TypeInv, TypeOK
  <2> HIDE DEF entry
  <2> QED
    BY <2>1, <2>2, AppendRow
<1>4. DataTyped
  BY <1>2, <1>3 DEF DataTyped, ApproveCommit, TypeInv, TypeOK
<1>5. /\ swaps' = [swaps EXCEPT ![i].status = "COMPLETED"] /\ Ends(s)
      /\ "COMPLETED" \in SwapStatus
  BY DEF ApproveCommit, SwapStatus
<1> QED
  BY <1>1, <1>4, <1>5, Decided

LEMMA ApproveRefusedTyped ==
    ASSUME SwapConstantsOK, TypeInv, NEW s \in Sessions, ApproveRefused(s)
    PROVE  TypeInv'
<1>1. PICK n, m, r : Exchange(s, n, m, r)
  BY DEF ApproveRefused
<1>2. DataTyped
  BY <1>1, ExchangeTyped DEF DataTyped, ApproveRefused, TypeInv, TypeOK
<1>3. SwapsStep
  BY SwapsKept DEF ApproveRefused
<1> QED
  BY <1>2, <1>3, IdleState, SessionStep DEF ApproveRefused, Ends

LEMMA DecisionsTyped ==
    ASSUME SwapConstantsOK, TypeInv, NEW s \in Sessions,
           \/ RejectRead(s) \/ RejectCommit(s) \/ CancelRead(s) \/ CancelCommit(s)
    PROVE  TypeInv'
<1>1. \A i \in Ids : i \in Nat
  BY SwapFacts DEF TypeInv
<1>2. usable \in [Setups -> BOOLEAN] /\ {"REJECTED", "CANCELLED"} \subseteq SwapStatus
  BY DEF TypeInv, TypeOK, SwapStatus
<1>3. CASE RejectRead(s) \/ CancelRead(s)
  <2>1. PICK i \in Ids, pc \in {"reject", "cancel"} : Goes(s, [pc |-> pc, id |-> i])
    BY <1>3 DEF RejectRead, CancelRead
  <2>2. [pc |-> pc, id |-> i] \in ProcState
    BY <1>1 DEF ProcState
  <2> QED
    BY <1>3, <2>1, <2>2, OnlyGoes DEF RejectRead, CancelRead
<1>4. CASE RejectCommit(s)
  BY <1>2, <1>4, DataKept, Decided DEF RejectCommit, Deciding
<1>5. CASE CancelCommit(s)
  BY <1>2, <1>5, DataKept, Decided DEF CancelCommit, Deciding
<1> QED
  BY <1>3, <1>4, <1>5

LEMMA EditReadsTyped ==
    ASSUME SwapConstantsOK, TypeInv, NEW s \in Sessions, EditOpen(s) \/ EditRead(s)
    PROVE  TypeInv'
<1>1. \A x \in Setups : cur[x] \in SetupValues
  BY DEF TypeInv, TypeOK
<1>2. CASE EditOpen(s)
  <2>1. PICK x \in Setups, v \in EditValues, c \in Columns :
            Goes(s, [pc |-> "form", setup |-> x, form |-> [cur[x] EXCEPT ![c] = v]])
    BY <1>2, SwapConstantsOK DEF EditOpen, SwapConstantsOK, Columns
  <2> DEFINE form == [cur[x] EXCEPT ![c] = v]
             next == [pc |-> "form", setup |-> x, form |-> form]
  <2>2. v \in Cell
    BY DEF SwapConstantsOK
  <2>3. form \in SetupValues
    BY <1>1, <2>2 DEF SetupValues
  <2>4. Goes(s, next)
    BY <2>1
  <2> HIDE DEF form
  <2>5. next \in ProcState /\ next.pc \notin Deciding
    BY <2>3 DEF ProcState, Deciding
  <2>6. UNCHANGED <<usable, swaps, data>>
    BY <1>2 DEF EditOpen
  <2> QED
    BY <2>4, <2>5, <2>6, OnlyGoes
<1>3. CASE EditRead(s)
  <2> DEFINE next == [pc |-> "save", setup |-> proc[s].setup, form |-> proc[s].form,
                      before |-> cur[proc[s].setup]]
  <2>1. proc[s].setup \in Setups /\ proc[s].form \in SetupValues
    BY <1>3, ProcFields DEF EditRead, TypeInv
  <2>2. next \in ProcState /\ next.pc \notin Deciding
    BY <1>1, <2>1 DEF ProcState, Deciding
  <2> QED
    BY <1>3, <2>2, OnlyGoes DEF EditRead
<1> QED
  BY <1>2, <1>3

LEMMA EditWritesTyped ==
    ASSUME SwapConstantsOK, TypeInv, NEW s \in Sessions,
           EditCommit(s) \/ EditRefused(s)
    PROVE  TypeInv'
<1> DEFINE x == proc[s].setup
<1>1. x \in Setups /\ proc[s].pc = "save"
  BY ProcFields DEF EditCommit, EditRefused, TypeInv
<1>2. \A takes : Saved(s, takes) \in SetupValues
  BY <1>1, SavedTyped DEF TypeInv
<1>3. \A row \in SetupValues : Edits(s, row) =>
            cur' \in [Setups -> SetupValues] /\ edited' \subseteq Setups \X Columns
  BY <1>1 DEF Edits, TypeInv, TypeOK
<1>4. cur' \in [Setups -> SetupValues] /\ edited' \subseteq Setups \X Columns
  BY <1>2, <1>3 DEF EditCommit, EditRefused
<1>5. base' \in [Setups -> [Columns -> Cell \union {NoBase}]]
  <2>1. CASE EditCommit(s)
    <3> DEFINE row == Saved(s, TRUE)
               new == [d \in Columns |->
                         IF \/ row[d] # proc[s].before[d]
                            \/ /\ d \in Fixed /\ base[x][d] = NoBase
                               /\ \E c \in Fixed : row[c] # proc[s].before[c]
                         THEN row[d] ELSE base[x][d]]
    <3>1. base' = [base EXCEPT ![x] = new]
      BY <2>1 DEF EditCommit
    <3>2. \A d \in Columns : row[d] \in Cell
      BY <1>2 DEF SetupValues
    <3> HIDE DEF row
    <3>3. new \in [Columns -> Cell \union {NoBase}]
      BY <1>1, <3>2 DEF TypeInv, TypeOK
    <3> HIDE DEF new
    <3> QED
      BY <1>1, <3>1, <3>3 DEF TypeInv, TypeOK
  <2>2. CASE EditRefused(s)
    BY <2>2 DEF EditRefused, TypeInv, TypeOK
  <2> QED
    BY <2>1, <2>2
<1>6. DataTyped
  BY <1>4, <1>5 DEF DataTyped, EditCommit, EditRefused, TypeInv, TypeOK
<1>7. SwapsStep /\ Ends(s)
  BY SwapsKept DEF EditCommit, EditRefused
<1> QED
  BY <1>6, <1>7, IdleState, SessionStep DEF Ends

LEMMA TypeInvStep == SwapConstantsOK /\ TypeInv /\ [Next]_vars => TypeInv'
<1> SUFFICES ASSUME SwapConstantsOK, TypeInv, [Next]_vars
             PROVE  TypeInv'
  OBVIOUS
<1>1. ASSUME NEW s \in Sessions, Serve(s)
      PROVE  TypeInv'
  <2>1. CASE Create(s)
    BY <2>1, CreateTyped
  <2>2. CASE ApproveRead(s) \/ ReadCurrent(s) \/ ReadRequested(s) \/ ReadValues(s)
    BY <2>2, ApproveReadsTyped
  <2>3. CASE ApproveCommit(s)
    BY <2>3, ApproveCommitTyped
  <2>4. CASE ApproveRefused(s)
    BY <2>4, ApproveRefusedTyped
  <2>5. CASE RejectRead(s) \/ RejectCommit(s) \/ CancelRead(s) \/ CancelCommit(s)
    BY <2>5, DecisionsTyped
  <2>6. CASE EditOpen(s) \/ EditRead(s)
    BY <2>6, EditReadsTyped
  <2>7. CASE EditCommit(s) \/ EditRefused(s)
    BY <2>7, EditWritesTyped
  <2>8. CASE Abort(s)
    BY <2>8, OnlyEnds DEF Abort
  <2> QED
    BY <1>1, <2>1, <2>2, <2>3, <2>4, <2>5, <2>6, <2>7, <2>8 DEF Serve
<1>2. ASSUME NEW x \in Serviced, SetUsable(x)
      PROVE  TypeInv'
  <2>1. usable' \in [Setups -> BOOLEAN] /\ UNCHANGED <<swaps, proc, data>>
    BY <1>2 DEF SetUsable, TypeInv, TypeOK
  <2>2. DataTyped /\ SwapsStep
    BY <2>1, DataKept, SwapsKept
  <2> QED
    BY <2>1, <2>2 DEF DataTyped, SwapsStep, TypeInv, TypeOK, Proper, Ids,
                      Current, Requested
<1>3. CASE UNCHANGED vars
  BY <1>3 DEF vars, TypeInv, TypeOK, Proper, Ids, Current, Requested
<1> QED
  BY <1>1, <1>2, <1>3 DEF Next

LEMMA TypeInvAlways == Spec => []TypeInv
<1>1. Init => TypeInv
  BY SwapConstantsOK, InitTypeInv
<1>2. TypeInv /\ [Next]_vars => TypeInv'
  BY SwapConstantsOK, TypeInvStep
<1> QED
  BY <1>1, <1>2, PTL DEF Spec

\* Every reachable state is well typed: what is exchanged, captured and typed
\* into a form is a value of a column, for every setup and every template.
THEOREM TypeCorrect == Spec => []TypeOK
<1>1. TypeInv => TypeOK
  BY DEF TypeInv
<1> QED
  BY <1>1, TypeInvAlways, PTL

-----------------------------------------------------------------------------
(* What an approval does to the fixed columns.                              *)

\* The current setup and the requested one exchange the fixed columns of C.
Trades(s, C) ==
    LET a == Current(proc[s].id)  b == Requested(proc[s].id) IN
    \A x \in Setups, c \in Fixed :
        cur'[x][c] = IF c \in C /\ x = a THEN cur[b][c]
                     ELSE IF c \in C /\ x = b THEN cur[a][c] ELSE cur[x][c]

\* n and m are lengths of the list of columns that write the same fixed ones.
SameFixed(cols, n, m) ==
    /\ \A c \in Fixed : c \in Written(cols, n) <=> c \in Written(cols, m)
    /\ \A c \in Written(cols, n) : \E k \in DOMAIN cols : cols[k] = c

\* Of a refused approval too: the column between n and m is a custom one.
LEMMA WritesBothSides ==
    ASSUME SwapConstantsOK, TypeInv, NEW s \in Sessions,
           ApproveCommit(s) \/ ApproveRefused(s)
    PROVE  \E n, m, r : /\ Exchange(s, n, m, r)
                        /\ SameFixed(swaps[proc[s].id].columns, n, m)
<1> DEFINE cols == swaps[proc[s].id].columns
<1>1. cols \in Seq(Columns) /\ Len(cols) \in Nat /\ DOMAIN cols = 1..Len(cols)
  <2>1. proc[s].id \in Ids
    BY DEF ApproveCommit, ApproveRefused, TypeInv, Proper, Deciding
  <2>2. cols \in Seq(Columns)
    BY <2>1, SwapFacts DEF TypeInv
  <2> HIDE DEF cols
  <2> QED
    BY <2>2, LenProperties
<1>2. CASE ApproveCommit(s)
  <2>1. Exchange(s, Len(cols), Len(cols), Len(cols))
    BY <1>2 DEF ApproveCommit
  <2>2. SameFixed(cols, Len(cols), Len(cols))
    BY <1>1 DEF SameFixed, Written
  <2> QED
    BY <2>1, <2>2
<1>3. CASE ApproveRefused(s)
  <2>1. PICK k \in DOMAIN cols :
            /\ LeftRefuses(s, k) \/ RightRefuses(s, k)
            /\ Exchange(s, IF LeftRefuses(s, k) THEN k - 1 ELSE k, k - 1, k)
    BY <1>3 DEF ApproveRefused
  <2>2. cols[k] \notin Fixed
    BY <2>1, CellFacts DEF LeftRefuses, RightRefuses, SwapConstantsOK
  <2>3. k \in Nat /\ k \in 1..Len(cols)
    BY <1>1
  <2> HIDE DEF cols
  <2>4. SameFixed(cols, k - 1, k - 1)
    BY <1>1, <2>3 DEF SameFixed, Written
  <2>5. SameFixed(cols, k, k - 1)
    <3>1. \A j \in 1..k : j \in DOMAIN cols /\ (j = k \/ j \in 1..(k - 1))
      BY <1>1, <2>3
    <3>2. \A j \in 1..(k - 1) : j \in 1..k
      BY <2>3
    <3>3. \A c \in Fixed : c \in Written(cols, k) <=> c \in Written(cols, k - 1)
      BY <2>2, <3>1, <3>2 DEF Written
    <3>4. \A c \in Written(cols, k) : \E j \in DOMAIN cols : cols[j] = c
      BY <3>1 DEF Written
    <3> QED
      BY <3>3, <3>4 DEF SameFixed
  <2> QED
    BY <2>1, <2>4, <2>5 DEF cols
<1> QED
  BY <1>2, <1>3

\* The values of the two setups after the step.
LEMMA ExchangedRows ==
    ASSUME SwapConstantsOK, TypeInv, NEW s \in Sessions, proc[s].pc = "exchange",
           NEW n, NEW m, NEW r, Exchange(s, n, m, r)
    PROVE  LET a == Current(proc[s].id)
               b == Requested(proc[s].id)
               cols == swaps[proc[s].id].columns IN
           /\ a \in Setups /\ b \in Setups /\ a # b
           /\ cur'[a] = Flushed(a, proc[s].left, proc[s].right, cols, n)
           /\ cur'[b] = Flushed(b, proc[s].right, proc[s].left, cols, m)
           /\ base'[a] = Captured(a, proc[s].left, cols, n, r)
           /\ base'[b] = Captured(b, proc[s].right, cols, m, r)
           /\ \A x \in Setups \ {a, b} : cur'[x] = cur[x] /\ base'[x] = base[x]
<1> DEFINE a == Current(proc[s].id)
           b == Requested(proc[s].id)
           cols == swaps[proc[s].id].columns
           fa == Flushed(a, proc[s].left, proc[s].right, cols, n)
           fb == Flushed(b, proc[s].right, proc[s].left, cols, m)
           ca == Captured(a, proc[s].left, cols, n, r)
           cb == Captured(b, proc[s].right, cols, m, r)
<1>1. a \in Setups /\ b \in Setups /\ a # b
  BY SwapFacts DEF TypeInv, Proper, Deciding
<1>2. /\ cur' = [cur EXCEPT ![a] = fa, ![b] = fb]
      /\ base' = [base EXCEPT ![a] = ca, ![b] = cb]
  BY DEF Exchange
<1>3. DOMAIN cur = Setups /\ DOMAIN base = Setups
  BY DEF TypeInv, TypeOK
<1> HIDE DEF fa, fb, ca, cb, a, b
<1>4. /\ cur'[a] = fa /\ cur'[b] = fb /\ base'[a] = ca /\ base'[b] = cb
      /\ \A x \in Setups \ {a, b} : cur'[x] = cur[x] /\ base'[x] = base[x]
  BY <1>1, <1>2, <1>3
<1> QED
  BY <1>1, <1>4 DEF fa, fb, ca, cb, a, b

LEMMA ApprovalTrades ==
    ASSUME SwapConstantsOK, TypeInv, NEW s \in Sessions,
           ApproveCommit(s) \/ ApproveRefused(s), ~Outdated(s)
    PROVE  \E C \in SUBSET Fixed : Trades(s, C)
<1> DEFINE a == Current(proc[s].id)
           b == Requested(proc[s].id)
           cols == swaps[proc[s].id].columns
<1>1. PICK n, m, r : Exchange(s, n, m, r) /\ SameFixed(cols, n, m)
  BY WritesBothSides
<1> DEFINE C == {c \in Fixed : c \in Written(cols, n)}
<1>2. /\ a \in Setups /\ b \in Setups /\ a # b
      /\ cur'[a] = Flushed(a, proc[s].left, proc[s].right, cols, n)
      /\ cur'[b] = Flushed(b, proc[s].right, proc[s].left, cols, m)
      /\ \A x \in Setups \ {a, b} : cur'[x] = cur[x]
  BY <1>1, ExchangedRows DEF ApproveCommit, ApproveRefused
<1>3. \A c \in Fixed : (c \in Written(cols, n) <=> c \in Written(cols, m))
  BY <1>1 DEF SameFixed
<1>4. \A c \in Written(cols, n) : /\ proc[s].left[c] = cur[a][c]
                                  /\ proc[s].right[c] = cur[b][c]
  BY <1>1 DEF SameFixed, Outdated, Names
<1> HIDE DEF a, b, cols
<1>5. \A c \in Fixed : /\ cur'[a][c] = IF c \in C THEN cur[b][c] ELSE cur[a][c]
                       /\ cur'[b][c] = IF c \in C THEN cur[a][c] ELSE cur[b][c]
  BY <1>2, <1>3, <1>4, FlushedFixed
<1>6. Trades(s, C)
  BY <1>2, <1>5 DEF Trades, a, b
<1> QED
  BY <1>6

-----------------------------------------------------------------------------
(* Hardware is not lost.                                                    *)

ValuesKept == UNCHANGED <<cur, base, ledger, edited, stale>>

\* Only approvals and edits write values.
LEMMA WhoWrites ==
    ASSUME [Next]_vars
    PROVE  \/ ValuesKept
           \/ \E s \in Sessions : ApproveCommit(s) \/ ApproveRefused(s)
           \/ \E s \in Sessions : EditCommit(s) \/ EditRefused(s)
<1>1. ASSUME NEW s \in Sessions, Serve(s)
      PROVE  \/ ValuesKept
             \/ ApproveCommit(s) \/ ApproveRefused(s)
             \/ EditCommit(s) \/ EditRefused(s)
  BY <1>1 DEF Serve, ValuesKept, data, Create, ApproveRead, ReadCurrent,
              ReadRequested, ReadValues, RejectRead, RejectCommit, CancelRead,
              CancelCommit, EditOpen, EditRead, Abort
<1>2. ASSUME NEW x \in Serviced, SetUsable(x)
      PROVE  ValuesKept
  BY <1>2 DEF SetUsable, ValuesKept, data
<1>3. CASE UNCHANGED vars
  BY <1>3 DEF vars, ValuesKept
<1> QED
  BY <1>1, <1>2, <1>3 DEF Next

\* An edit that changes a value is remembered.
LEMMA EditRemembered ==
    ASSUME SwapConstantsOK, TypeInv, NEW s \in Sessions,
           EditCommit(s) \/ EditRefused(s)
    PROVE  /\ edited \subseteq edited' /\ stale' = stale
           /\ \A x \in Setups, c \in Columns :
                cur'[x][c] = cur[x][c] \/ <<x, c>> \in edited'
           /\ \A x \in Setups \ {proc[s].setup} : cur'[x] = cur[x]
<1>1. PICK row : Edits(s, row)
  BY DEF EditCommit, EditRefused
<1>2. proc[s].setup \in Setups /\ DOMAIN cur = Setups
  BY ProcFields DEF EditCommit, EditRefused, TypeInv, TypeOK
<1>3. /\ cur' = [cur EXCEPT ![proc[s].setup] = row]
      /\ edited' = edited \union {<<proc[s].setup, d>> :
                        d \in {c \in Columns : row[c] # cur[proc[s].setup][c]}}
  BY <1>1 DEF Edits
<1>4. stale' = stale
  BY DEF EditCommit, EditRefused
<1> QED
  BY <1>2, <1>3, <1>4

\* Two places of an arrangement may be exchanged.
LEMMA Transposed ==
    ASSUME NEW p \in Arrangements, NEW a \in Setups, NEW b \in Setups
    PROVE  [x \in Setups |-> IF x = a THEN p[b] ELSE IF x = b THEN p[a] ELSE p[x]]
                \in Arrangements
<1> DEFINE q == [x \in Setups |-> IF x = a THEN p[b]
                                  ELSE IF x = b THEN p[a] ELSE p[x]]
<1>1. /\ p \in [Setups -> Setups]
      /\ \A y \in Setups : \E x \in Setups : p[x] = y
      /\ \A x, y \in Setups : p[x] = p[y] => x = y
  BY DEF Arrangements
<1>2. q \in [Setups -> Setups]
  BY <1>1
<1>3. ASSUME NEW y \in Setups
      PROVE  \E x \in Setups : q[x] = y
  <2>1. PICK x \in Setups : p[x] = y
    BY <1>1
  <2>2. CASE x = a
    <3>1. q[b] = y
      BY <2>1, <2>2
    <3> QED
      BY <3>1
  <2>3. CASE x = b
    <3>1. q[a] = y
      BY <2>1, <2>3
    <3> QED
      BY <3>1
  <2>4. CASE x # a /\ x # b
    <3>1. q[x] = y
      BY <2>1, <2>4
    <3> QED
      BY <3>1
  <2> QED
    BY <2>2, <2>3, <2>4
<1>4. \A x, y \in Setups : q[x] = q[y] => x = y
  BY <1>1
<1> HIDE DEF q
<1>5. q \in Arrangements
  BY <1>2, <1>3, <1>4 DEF Arrangements
<1> QED
  BY <1>5 DEF q

Arranged(c) == \E p \in Arrangements : \A x \in Setups : cur[x][c] = Stock[p[x]][c]

LEMMA TradeArranges ==
    ASSUME NEW s \in Sessions, Current(proc[s].id) \in Setups,
           Requested(proc[s].id) \in Setups,
           NEW C \in SUBSET Fixed, Trades(s, C), NEW c \in Fixed, Arranged(c)
    PROVE  Arranged(c)'
<1> DEFINE a == Current(proc[s].id)
           b == Requested(proc[s].id)
<1>1. PICK p \in Arrangements : \A x \in Setups : cur[x][c] = Stock[p[x]][c]
  BY DEF Arranged
<1> DEFINE q == [x \in Setups |-> IF x = a THEN p[b]
                                  ELSE IF x = b THEN p[a] ELSE p[x]]
<1>2. q \in Arrangements
  BY Transposed
<1>3. \A x \in Setups :
        cur'[x][c] = IF c \in C /\ x = a THEN cur[b][c]
                     ELSE IF c \in C /\ x = b THEN cur[a][c] ELSE cur[x][c]
  BY DEF Trades
<1> HIDE DEF a, b
<1>4. CASE c \in C
  <2>1. \A x \in Setups : cur'[x][c] = Stock[q[x]][c]
    BY <1>1, <1>3, <1>4 DEF a, b
  <2> HIDE DEF q
  <2> QED
    BY <1>2, <2>1 DEF Arranged, Arrangements
<1>5. CASE c \notin C
  <2>1. \A x \in Setups : cur'[x][c] = Stock[p[x]][c]
    BY <1>1, <1>3, <1>5
  <2> HIDE DEF q
  <2> QED
    BY <1>1, <2>1 DEF Arranged, Arrangements
<1> QED
  BY <1>4, <1>5

Conserved == ~stale /\ edited = {} => \A c \in Fixed : Arranged(c)

LEMMA InitConserved ==
    ASSUME Init
    PROVE  Conserved
<1> DEFINE id == [x \in Setups |-> x]
<1>1. id \in Arrangements
  BY DEF Arrangements
<1>2. \A c \in Fixed, x \in Setups : cur[x][c] = Stock[id[x]][c]
  BY DEF Init
<1> HIDE DEF id
<1> QED
  BY <1>1, <1>2 DEF Conserved, Arranged

LEMMA ConservedStep ==
    SwapConstantsOK /\ TypeInv /\ Conserved /\ [Next]_vars => Conserved'
<1> SUFFICES ASSUME SwapConstantsOK, TypeInv, Conserved, [Next]_vars,
                    ~stale', edited' = {}, NEW c \in Fixed
             PROVE  Arranged(c)'
  BY DEF Conserved
<1>1. CASE ValuesKept
  <2>1. cur' = cur /\ stale' = stale /\ edited' = edited
    BY <1>1 DEF ValuesKept
  <2>2. Arranged(c)
    BY <2>1 DEF Conserved
  <2>3. PICK p \in Arrangements : \A x \in Setups : cur[x][c] = Stock[p[x]][c]
    BY <2>2 DEF Arranged
  <2> QED
    BY <2>1, <2>3 DEF Arranged, Arrangements
<1>2. ASSUME NEW s \in Sessions, ApproveCommit(s) \/ ApproveRefused(s)
      PROVE  Arranged(c)'
  <2>1. ~stale /\ ~Outdated(s) /\ edited = {}
    BY <1>2 DEF ApproveCommit, ApproveRefused, Exchange
  <2>2. PICK C \in SUBSET Fixed : Trades(s, C)
    BY <1>2, <2>1, ApprovalTrades
  <2>3. Current(proc[s].id) \in Setups /\ Requested(proc[s].id) \in Setups
    BY <1>2, SwapFacts DEF ApproveCommit, ApproveRefused, TypeInv, Proper, Deciding
  <2> QED
    BY <2>1, <2>2, <2>3, TradeArranges DEF Conserved
<1>3. ASSUME NEW s \in Sessions, EditCommit(s) \/ EditRefused(s)
      PROVE  Arranged(c)'
  <2>1. /\ edited \subseteq edited' /\ stale' = stale
        /\ \A x \in Setups, d \in Columns :
              cur'[x][d] = cur[x][d] \/ <<x, d>> \in edited'
    BY <1>3, EditRemembered
  <2>2. \A x \in Setups : cur'[x][c] = cur[x][c]
    BY <2>1, CellFacts DEF Columns
  <2>3. Arranged(c)
    BY <2>1 DEF Conserved
  <2> QED
    BY <2>2, <2>3 DEF Arranged, Arrangements
<1> QED
  BY <1>1, <1>2, <1>3, WhoWrites

\* For any number of sessions, setups and columns: hardware that nobody edited
\* is lost or doubled only by an approval that wrote what had changed since it
\* was read.
THEOREM HardwareConserved == Spec => []LossNeedsRace
<1>1. Init => Conserved
  BY InitConserved
<1>2. TypeInv /\ Conserved /\ [Next]_vars => Conserved'
  BY SwapConstantsOK, ConservedStep
<1>3. Conserved => LossNeedsRace
  BY DEF Conserved, Arranged, LossNeedsRace
<1> QED
  BY <1>1, <1>2, <1>3, TypeInvAlways, PTL DEF Spec

-----------------------------------------------------------------------------
(* How a session comes to know what it knows.                               *)

Blind == {"idle", "current", "reject", "cancel"}

SawCurrent(s) ==
    /\ proc[s].pc = "current" /\ proc'[s].pc = "requested"
    /\ proc'[s].id = proc[s].id
    /\ proc'[s].left = cur[Current(proc[s].id)]

SawRequested(s) ==
    /\ proc[s].pc = "requested" /\ proc'[s].pc \in {"values", "exchange"}
    /\ proc'[s].id = proc[s].id
    /\ proc'[s].left = proc[s].left
    /\ proc'[s].right = cur[Requested(proc[s].id)]

SawValues(s) ==
    /\ proc[s].pc = "values" /\ proc'[s].pc = "exchange"
    /\ proc'[s].id = proc[s].id
    /\ \A d \in Columns :
        /\ proc'[s].left[d] = IF d \in Custom THEN cur[Current(proc[s].id)][d]
                              ELSE proc[s].left[d]
        /\ proc'[s].right[d] = IF d \in Custom THEN cur[Requested(proc[s].id)][d]
                               ELSE proc[s].right[d]

Opened(s) == proc'[s].pc = "form" /\ EditValues # {}

SawForm(s) ==
    /\ proc[s].pc = "form" /\ proc'[s].pc = "save"
    /\ proc'[s].setup = proc[s].setup
    /\ proc'[s].before = cur[proc[s].setup]

Looks(s) ==
    SawCurrent(s) \/ SawRequested(s) \/ SawValues(s) \/ Opened(s) \/ SawForm(s)

LEMMA Learns ==
    ASSUME TypeInv, NEW s \in Sessions, Serve(s)
    PROVE  \/ proc'[s] = proc[s]
           \/ proc'[s].pc \in Blind
           \/ Looks(s)
<1>1. s \in DOMAIN proc
  BY DEF TypeInv, TypeOK
<1>2. \A next : Goes(s, next) => proc'[s] = next
  BY <1>1 DEF Goes
<1>3. CASE Ends(s)
  BY <1>2, <1>3 DEF Ends, Idle, Blind
<1>4. CASE Create(s)
  BY <1>4 DEF Create
<1>5. CASE ApproveRead(s) \/ RejectRead(s) \/ CancelRead(s)
  <2>1. PICK i \in Ids, pc \in {"current", "reject", "cancel"} :
            Goes(s, [pc |-> pc, id |-> i])
    BY <1>5 DEF ApproveRead, RejectRead, CancelRead
  <2>2. proc'[s].pc = pc
    BY <1>2, <2>1
  <2> QED
    BY <2>2 DEF Blind
<1>6. CASE ReadCurrent(s)
  BY <1>2, <1>3, <1>6 DEF ReadCurrent, Looks, SawCurrent
<1>7. CASE ReadRequested(s)
  BY <1>2, <1>3, <1>7 DEF ReadRequested, Looks, SawRequested
<1>8. CASE ReadValues(s)
  BY <1>2, <1>8 DEF ReadValues, Looks, SawValues
<1>9. CASE EditOpen(s)
  BY <1>2, <1>9 DEF EditOpen, Looks, Opened
<1>10. CASE EditRead(s)
  BY <1>2, <1>10 DEF EditRead, Looks, SawForm
<1> QED
  BY <1>3, <1>4, <1>5, <1>6, <1>7, <1>8, <1>9, <1>10
     DEF Serve, ApproveCommit, ApproveRefused, RejectCommit, CancelCommit,
         EditCommit, EditRefused, Abort

\* The others learn nothing.
LEMMA OthersStay ==
    ASSUME TypeInv, NEW s \in Sessions, Serve(s), NEW t \in Sessions, t # s
    PROVE  proc'[t] = proc[t]
<1>1. \A next : Goes(s, next) => proc'[t] = proc[t]
  BY DEF Goes, TypeInv, TypeOK
<1>2. CASE Create(s)
  BY <1>2 DEF Create
<1>3. CASE EditOpen(s) \/ EditRead(s) \/ EditCommit(s) \/ EditRefused(s) \/ Abort(s)
  BY <1>1, <1>3 DEF EditOpen, EditRead, EditCommit, EditRefused, Abort, Ends
<1>4. CASE ApproveRead(s) \/ ReadCurrent(s) \/ ReadRequested(s) \/ ReadValues(s)
  BY <1>1, <1>4 DEF ApproveRead, ReadCurrent, ReadRequested, ReadValues, Ends
<1>5. CASE \/ ApproveCommit(s) \/ ApproveRefused(s)
           \/ RejectRead(s) \/ RejectCommit(s) \/ CancelRead(s) \/ CancelCommit(s)
  BY <1>1, <1>5 DEF ApproveCommit, ApproveRefused, RejectRead, RejectCommit,
                    CancelRead, CancelCommit, Ends
<1> QED
  BY <1>2, <1>3, <1>4, <1>5 DEF Serve

LEMMA AllLearn ==
    ASSUME TypeInv, [Next]_vars, NEW t \in Sessions
    PROVE  \/ proc'[t] = proc[t]
           \/ proc'[t].pc \in Blind
           \/ Looks(t)
<1>1. ASSUME NEW s \in Sessions, Serve(s)
      PROVE  proc'[t] = proc[t] \/ proc'[t].pc \in Blind \/ Looks(t)
  BY <1>1, Learns, OthersStay
<1>2. ASSUME NEW x \in Serviced, SetUsable(x)
      PROVE  proc' = proc
  BY <1>2 DEF SetUsable
<1>3. CASE UNCHANGED vars
  BY <1>3 DEF vars
<1> QED
  BY <1>1, <1>2, <1>3 DEF Next

\* Requests stay what they were.
LEMMA RequestsKept ==
    ASSUME SwapConstantsOK, TypeInv, [Next]_vars
    PROVE  SwapsStep
<1>1. CASE UNCHANGED swaps
  BY <1>1, SwapsKept
<1>2. ASSUME NEW s \in Sessions, Create(s)
      PROVE  SwapsStep
  BY <1>2, CreateSwaps
<1>3. ASSUME NEW s \in Sessions, ApproveCommit(s) \/ RejectCommit(s) \/ CancelCommit(s)
      PROVE  SwapsStep
  <2>1. proc[s].id \in Ids
    BY <1>3 DEF ApproveCommit, RejectCommit, CancelCommit, TypeInv, Proper, Deciding
  <2>2. PICK new \in SwapStatus : swaps' = [swaps EXCEPT ![proc[s].id].status = new]
    BY <1>3 DEF ApproveCommit, RejectCommit, CancelCommit, SwapStatus
  <2> QED
    BY <2>1, <2>2, SwapDecided
<1>4. ASSUME NEW s \in Sessions, Serve(s)
      PROVE  SwapsStep
  <2>1. \/ Create(s) \/ ApproveCommit(s) \/ RejectCommit(s) \/ CancelCommit(s)
        \/ UNCHANGED swaps
    BY <1>4 DEF Serve, ApproveRead, ReadCurrent, ReadRequested, ReadValues,
                ApproveRefused, RejectRead, CancelRead, EditOpen, EditRead,
                EditCommit, EditRefused, Abort
  <2> QED
    BY <1>1, <1>2, <1>3, <2>1
<1> QED
  BY <1>1, <1>4 DEF Next, SetUsable, vars

-----------------------------------------------------------------------------
(* Without edits, originals are kept.                                       *)

\* What is read of a setup without a record is what it has had from the start.
FromStart(x, c, v) == base[x][c] = NoBase => v = Stock[x][c]

Remembers ==
    \A x \in Setups, c \in Fixed :
        /\ base[x][c] \in {NoBase, Stock[x][c]}
        /\ FromStart(x, c, cur[x][c])

SeesOriginals ==
    \A s \in Sessions, c \in Fixed :
        /\ proc[s].pc \in {"requested", "values", "exchange"} =>
                FromStart(Current(proc[s].id), c, proc[s].left[c])
        /\ proc[s].pc \in {"values", "exchange"} =>
                FromStart(Requested(proc[s].id), c, proc[s].right[c])

NoForms == \A s \in Sessions : proc[s].pc \notin {"form", "save"}

OriginalInv == Remembers /\ SeesOriginals /\ NoForms

LEMMA InitOriginalInv ==
    ASSUME SwapConstantsOK, Init
    PROVE  OriginalInv
<1>1. \A s \in Sessions : proc[s].pc = "idle"
  BY DEF Init, Idle
<1>2. \A x \in Setups, c \in Fixed :
        c \in Columns /\ c \notin Custom
        /\ Stock[x][c] \in Cell
  BY CellFacts DEF SwapConstantsOK, SetupValues
<1>3. \A x \in Setups, c \in Fixed :
        base[x][c] = IF x \in Legacy THEN NoBase ELSE Stock[x][c]
  BY <1>2 DEF Init
<1>4. Remembers
  BY <1>2, <1>3, CellFacts DEF Init, Remembers, FromStart
<1> QED
  BY <1>1, <1>4 DEF OriginalInv, SeesOriginals, NoForms

\* ensure_fixed_baseline records the whole setup as it was read, once.
LEMMA CapturedFixed ==
    ASSUME SwapConstantsOK, NEW x \in Setups, NEW own, NEW cols, NEW n, NEW m,
           NEW c \in Fixed
    PROVE  Captured(x, own, cols, n, m)[c] =
                IF base[x][c] # NoBase THEN base[x][c]
                ELSE IF \E k \in DOMAIN cols : cols[k] \in Fixed
                     THEN own[c] ELSE NoBase
  BY DEF Captured, Columns

\* c is one of the columns if it is among the first n of them.
Listed(cols, n, c) == c \in Written(cols, n) => \E k \in DOMAIN cols : cols[k] = c

\* One side of an approval: x, which was read as own, takes what new has.
Side(x, own, new, cols, n, r) ==
    /\ cur'[x] = Flushed(x, own, new, cols, n)
    /\ base'[x] = Captured(x, own, cols, n, r)

LEMMA SideRemembers ==
    ASSUME SwapConstantsOK, NEW x \in Setups, NEW own, NEW new, NEW cols,
           NEW n, NEW r, NEW c \in Fixed,
           Side(x, own, new, cols, n, r),
           Listed(cols, n, c),
           base[x][c] \in {NoBase, Stock[x][c]}, FromStart(x, c, cur[x][c]),
           FromStart(x, c, own[c]), Stock[x][c] # NoBase
    PROVE  /\ base'[x][c] \in {NoBase, Stock[x][c]}
           /\ base'[x][c] = NoBase => base[x][c] = NoBase /\ cur'[x][c] = cur[x][c]
<1>1. base'[x][c] = IF base[x][c] # NoBase THEN base[x][c]
                    ELSE IF \E k \in DOMAIN cols : cols[k] \in Fixed
                         THEN own[c] ELSE NoBase
  BY CapturedFixed DEF Side
<1>2. base'[x][c] \in {NoBase, Stock[x][c]}
  BY <1>1 DEF FromStart
<1>3. ASSUME base'[x][c] = NoBase
      PROVE  base[x][c] = NoBase /\ cur'[x][c] = cur[x][c]
  <2>1. base[x][c] = NoBase /\ ~\E k \in DOMAIN cols : cols[k] \in Fixed
    BY <1>1, <1>3 DEF FromStart
  <2>2. c \notin Written(cols, n)
    BY <2>1 DEF Listed
  <2> QED
    BY <2>1, <2>2, FlushedUnwritten DEF Side
<1> QED
  BY <1>2, <1>3

LEMMA ApprovalRemembers ==
    ASSUME SwapConstantsOK, TypeInv, OriginalInv, NEW s \in Sessions,
           ApproveCommit(s) \/ ApproveRefused(s), NEW x \in Setups, NEW c \in Fixed
    PROVE  /\ base'[x][c] \in {NoBase, Stock[x][c]}
           /\ base'[x][c] = NoBase => base[x][c] = NoBase /\ cur'[x][c] = cur[x][c]
<1> DEFINE a == Current(proc[s].id)
           b == Requested(proc[s].id)
           cols == swaps[proc[s].id].columns
<1>1. PICK n, m, r : Exchange(s, n, m, r) /\ SameFixed(cols, n, m)
  BY WritesBothSides
<1>2. proc[s].pc = "exchange"
  BY DEF ApproveCommit, ApproveRefused
<1>3. /\ a \in Setups /\ b \in Setups /\ a # b
      /\ Side(a, proc[s].left, proc[s].right, cols, n, r)
      /\ Side(b, proc[s].right, proc[s].left, cols, m, r)
      /\ \A y \in Setups \ {a, b} : cur'[y] = cur[y] /\ base'[y] = base[y]
  BY <1>1, <1>2, ExchangedRows DEF Side
<1>4. /\ FromStart(a, c, proc[s].left[c]) /\ FromStart(b, c, proc[s].right[c])
      /\ base[x][c] \in {NoBase, Stock[x][c]} /\ FromStart(x, c, cur[x][c])
  BY <1>2 DEF OriginalInv, Remembers, SeesOriginals
<1>5. Stock[x][c] # NoBase
  BY CellFacts DEF SwapConstantsOK, SetupValues
<1>6. Listed(cols, n, c) /\ Listed(cols, m, c)
  BY <1>1 DEF SameFixed, Listed
<1> HIDE DEF a, b, cols
<1>7. CASE x = a
  BY <1>3, <1>4, <1>5, <1>6, <1>7, SideRemembers
<1>8. CASE x = b
  BY <1>3, <1>4, <1>5, <1>6, <1>8, SideRemembers
<1>9. CASE x # a /\ x # b
  BY <1>3, <1>4, <1>9
<1> QED
  BY <1>7, <1>8, <1>9

\* A step without edits takes no record away, and what has none after it had
\* none before it and has not changed.
LEMMA StepRemembers ==
    ASSUME SwapConstantsOK, TypeInv, OriginalInv, [Next]_vars,
           NEW x \in Setups, NEW c \in Fixed
    PROVE  /\ base'[x][c] \in {NoBase, Stock[x][c]}
           /\ base'[x][c] = NoBase => base[x][c] = NoBase /\ cur'[x][c] = cur[x][c]
<1>1. CASE ValuesKept
  BY <1>1 DEF ValuesKept, OriginalInv, Remembers
<1>2. ASSUME NEW s \in Sessions, ApproveCommit(s) \/ ApproveRefused(s)
      PROVE  /\ base'[x][c] \in {NoBase, Stock[x][c]}
             /\ base'[x][c] = NoBase => /\ base[x][c] = NoBase
                                        /\ cur'[x][c] = cur[x][c]
  BY <1>2, ApprovalRemembers
<1>3. ASSUME NEW s \in Sessions, EditCommit(s) \/ EditRefused(s)
      PROVE  FALSE
  BY <1>3 DEF EditCommit, EditRefused, OriginalInv, NoForms
<1> QED
  BY <1>1, <1>2, <1>3, WhoWrites

LEMMA OriginalInvStep ==
    SwapConstantsOK /\ EditValues = {} /\ TypeInv /\ OriginalInv /\ [Next]_vars
        => OriginalInv'
<1> SUFFICES ASSUME SwapConstantsOK, EditValues = {}, TypeInv, OriginalInv,
                    [Next]_vars
             PROVE  OriginalInv'
  OBVIOUS
<1>1. \A x \in Setups, c \in Fixed :
        /\ base'[x][c] \in {NoBase, Stock[x][c]}
        /\ base'[x][c] = NoBase => base[x][c] = NoBase /\ cur'[x][c] = cur[x][c]
  BY StepRemembers
<1>2. Remembers'
  BY <1>1 DEF Remembers, FromStart, OriginalInv
<1>3. \A s \in Sessions :
        proc'[s] = proc[s] \/ proc'[s].pc \in Blind \/ Looks(s)
  BY AllLearn
<1>4. NoForms'
  <2>1. ASSUME NEW s \in Sessions, Looks(s)
        PROVE  proc'[s].pc \notin {"form", "save"}
    BY <2>1 DEF OriginalInv, NoForms, Looks, SawCurrent, SawRequested, SawValues,
                Opened, SawForm
  <2> QED
    BY <1>3, <2>1 DEF OriginalInv, NoForms, Blind
<1>5. SeesOriginals'
  <2> SUFFICES ASSUME NEW s \in Sessions, NEW c \in Fixed
               PROVE  /\ proc'[s].pc \in {"requested", "values", "exchange"} =>
                            FromStart(Current(proc[s].id), c, proc[s].left[c])'
                      /\ proc'[s].pc \in {"values", "exchange"} =>
                            FromStart(Requested(proc[s].id), c, proc[s].right[c])'
    BY DEF SeesOriginals
  <2> DEFINE i == proc[s].id
             a == Current(i)
             b == Requested(i)
  <2>1. proc[s].pc \in Deciding =>
            /\ i \in Ids /\ a \in Setups /\ b \in Setups
            /\ swaps'[i].current = a /\ swaps'[i].requested = b
    BY RequestsKept, SwapFacts DEF TypeInv, Proper, SwapsStep, Current, Requested
  <2>2. \A x \in Setups : FromStart(x, c, cur[x][c])
    BY DEF OriginalInv, Remembers
  <2>3. /\ proc[s].pc \in {"requested", "values", "exchange"} =>
                FromStart(a, c, proc[s].left[c])
        /\ proc[s].pc \in {"values", "exchange"} =>
                FromStart(b, c, proc[s].right[c])
    BY DEF OriginalInv, SeesOriginals
  <2>4. c \in Columns /\ c \notin Custom
    BY DEF Columns, SwapConstantsOK
  <2>5. CASE proc'[s].pc \in Blind
    BY <2>5 DEF Blind
  <2>6. CASE proc'[s] = proc[s]
    <3>1. CASE proc[s].pc \in {"requested", "values", "exchange"}
      BY <1>1, <2>1, <2>3, <2>6, <3>1 DEF Deciding, FromStart, Current, Requested
    <3> QED
      BY <2>6, <3>1
  <2>7. CASE SawCurrent(s)
    BY <1>1, <2>1, <2>2, <2>7 DEF SawCurrent, Deciding, FromStart, Current, Requested
  <2>8. CASE SawRequested(s)
    BY <1>1, <2>1, <2>2, <2>3, <2>8
       DEF SawRequested, Deciding, FromStart, Current, Requested
  <2>9. CASE SawValues(s)
    BY <1>1, <2>1, <2>3, <2>4, <2>9
       DEF SawValues, Deciding, FromStart, Current, Requested
  <2>10. CASE Opened(s) \/ SawForm(s)
    BY <2>10 DEF Opened, SawForm
  <2> QED
    BY <1>3, <2>5, <2>6, <2>7, <2>8, <2>9, <2>10 DEF Looks
<1> QED
  BY <1>2, <1>4, <1>5 DEF OriginalInv

\* While nobody edits, the original of a fixed column is never lost, however
\* the first approvals of a setup without a record race with each other.
THEOREM OriginalsSurvive == ASSUME EditValues = {} PROVE Spec => []OriginalsKept
<1>1. Init => OriginalInv
  BY SwapConstantsOK, InitOriginalInv
<1>2. TypeInv /\ OriginalInv /\ [Next]_vars => OriginalInv'
  BY SwapConstantsOK, OriginalInvStep
<1>3. OriginalInv => OriginalsKept
  BY DEF OriginalInv, Remembers, OriginalsKept
<1> QED
  BY <1>1, <1>2, <1>3, TypeInvAlways, PTL DEF Spec

-----------------------------------------------------------------------------
(* One session alone trades what it has read.                               *)

OneSession == \E s : Sessions = {s}

\* What the session has read is so until it writes.
UpToDate ==
    \A s \in Sessions :
        /\ proc[s].pc \in {"requested", "values", "exchange"} =>
                proc[s].left = cur[Current(proc[s].id)]
        /\ proc[s].pc \in {"values", "exchange"} =>
                proc[s].right = cur[Requested(proc[s].id)]
        /\ proc[s].pc = "save" => proc[s].before = cur[proc[s].setup]

SerialInv == TypeInv /\ UpToDate

LEMMA InitSerialInv ==
    ASSUME SwapConstantsOK, Init
    PROVE  SerialInv
<1>1. \A s \in Sessions : proc[s].pc = "idle"
  BY DEF Init, Idle
<1> QED
  BY <1>1, InitTypeInv DEF SerialInv, UpToDate

LEMMA SameValues ==
    ASSUME NEW f \in SetupValues, NEW g \in SetupValues,
           \A d \in Columns : f[d] = g[d]
    PROVE  f = g
  BY DEF SetupValues

LEMMA SerialInvStep ==
    SwapConstantsOK /\ OneSession /\ SerialInv /\ [Next]_vars => SerialInv'
<1> SUFFICES ASSUME SwapConstantsOK, OneSession, SerialInv, [Next]_vars
             PROVE  SerialInv'
  OBVIOUS
<1>1. TypeInv /\ TypeInv' /\ TypeOK /\ TypeOK'
  BY TypeInvStep DEF SerialInv, TypeInv
<1>2. PICK s : Sessions = {s}
  BY DEF OneSession
<1>3. \A i \in Ids : /\ i \in Ids' /\ Current(i)' = Current(i)
                     /\ Requested(i)' = Requested(i)
  BY <1>1, RequestsKept DEF SwapsStep
<1>4. proc[s].pc \in Deciding => /\ proc[s].id \in Ids
                                 /\ Current(proc[s].id) \in Setups
                                 /\ Requested(proc[s].id) \in Setups
  BY <1>1, <1>2, SwapFacts DEF TypeInv, Proper
<1>5. CASE ValuesKept
  <2> DEFINE i == proc[s].id
  <2>1. cur' = cur
    BY <1>5 DEF ValuesKept
  <2>2. proc'[s] = proc[s] \/ proc'[s].pc \in Blind \/ Looks(s)
    BY <1>1, <1>2, AllLearn
  <2>3. /\ proc[s].pc \in {"requested", "values", "exchange"} =>
                proc[s].left = cur[Current(i)]
        /\ proc[s].pc \in {"values", "exchange"} =>
                proc[s].right = cur[Requested(i)]
        /\ proc[s].pc = "save" => proc[s].before = cur[proc[s].setup]
    BY <1>2 DEF SerialInv, UpToDate
  <2>4. proc[s].pc \in Deciding => /\ swaps'[i].current = Current(i)
                                   /\ swaps'[i].requested = Requested(i)
    BY <1>3, <1>4 DEF Current, Requested
  <2> SUFFICES
        /\ proc'[s].pc \in {"requested", "values", "exchange"} =>
                proc'[s].left = cur[swaps'[proc'[s].id].current]
        /\ proc'[s].pc \in {"values", "exchange"} =>
                proc'[s].right = cur[swaps'[proc'[s].id].requested]
        /\ proc'[s].pc = "save" => proc'[s].before = cur[proc'[s].setup]
    BY <1>1, <1>2, <2>1 DEF SerialInv, UpToDate, Current, Requested
  <2>5. CASE proc'[s] = proc[s]
    <3>1. CASE proc[s].pc \in {"requested", "values", "exchange"}
      BY <2>3, <2>4, <2>5, <3>1 DEF Deciding
    <3> QED
      BY <2>3, <2>5, <3>1
  <2>6. CASE proc'[s].pc \in Blind
    BY <2>6 DEF Blind
  <2>7. CASE SawCurrent(s)
    BY <2>4, <2>7 DEF SawCurrent, Deciding
  <2>8. CASE SawRequested(s)
    BY <2>3, <2>4, <2>8 DEF SawRequested, Deciding
  <2>9. CASE SawValues(s)
    <3>1. /\ proc'[s].left \in SetupValues /\ proc'[s].right \in SetupValues
      <4>1. proc' \in [Sessions -> ProcState]
        BY <1>1 DEF TypeOK
      <4>2. proc'[s] \in ProcState /\ proc'[s].pc = "exchange"
        BY <1>2, <2>9, <4>1 DEF SawValues
      <4> QED
        BY <4>2 DEF ProcState, Idle
    <3>2. /\ cur[Current(i)] \in SetupValues /\ cur[Requested(i)] \in SetupValues
      BY <1>1, <1>4, <2>9 DEF SawValues, Deciding, TypeOK
    <3>3. \A d \in Columns : /\ proc'[s].left[d] = cur[Current(i)][d]
                             /\ proc'[s].right[d] = cur[Requested(i)][d]
      BY <2>3, <2>9 DEF SawValues
    <3>4. /\ proc'[s].left = cur[Current(i)]
          /\ proc'[s].right = cur[Requested(i)]
      BY <3>1, <3>2, <3>3, SameValues
    <3> QED
      BY <2>4, <2>9, <3>4 DEF SawValues, Deciding
  <2>10. CASE Opened(s)
    BY <2>10 DEF Opened
  <2>11. CASE SawForm(s)
    BY <2>11 DEF SawForm
  <2> QED
    BY <2>2, <2>5, <2>6, <2>7, <2>8, <2>9, <2>10, <2>11 DEF Looks
<1>6. ASSUME NEW t \in Sessions, Ends(t)
      PROVE  SerialInv'
  <2>1. proc'[s].pc = "idle"
    BY <1>1, <1>2, <1>6 DEF Ends, Goes, Idle, TypeOK
  <2> QED
    BY <1>1, <1>2, <2>1 DEF SerialInv, UpToDate
<1>7. ASSUME NEW t \in Sessions,
             \/ ApproveCommit(t) \/ ApproveRefused(t)
             \/ EditCommit(t) \/ EditRefused(t)
      PROVE  Ends(t)
  BY <1>7 DEF ApproveCommit, ApproveRefused, EditCommit, EditRefused
<1> QED
  BY <1>5, <1>6, <1>7, WhoWrites

LEMMA SerialInvAlways == ASSUME OneSession PROVE Spec => []SerialInv
<1>1. Init => SerialInv
  BY SwapConstantsOK, InitSerialInv
<1>2. SerialInv /\ [Next]_vars => SerialInv'
  BY SwapConstantsOK, SerialInvStep
<1> QED
  BY <1>1, <1>2, PTL DEF Spec

CorrectedPart == {p \in edited : p[2] \in Fixed}

LEMMA PartTyped ==
    ASSUME TypeOK
    PROVE  /\ FixedPart \in [Setups -> [Fixed -> Cell]]
           /\ DOMAIN FixedPart = Setups
           /\ \A x \in Setups : FixedPart[x] = [c \in Fixed |-> cur[x][c]]
<1>1. \A x \in Setups, c \in Fixed : cur[x][c] \in Cell
  BY DEF TypeOK, SetupValues, Columns
<1> QED
  BY <1>1 DEF FixedPart

LEMMA TradeIsTrade ==
    ASSUME TypeOK, TypeOK', NEW s \in Sessions, NEW C \in SUBSET Fixed,
           Current(proc[s].id) \in Setups, Requested(proc[s].id) \in Setups,
           Current(proc[s].id) # Requested(proc[s].id),
           Trades(s, C), edited' = edited
    PROVE  E!Next
<1> DEFINE a == Current(proc[s].id)
           b == Requested(proc[s].id)
           ra == [c \in Fixed |-> IF c \in C THEN FixedPart[b][c] ELSE FixedPart[a][c]]
           rb == [c \in Fixed |-> IF c \in C THEN FixedPart[a][c] ELSE FixedPart[b][c]]
<1>1. \A x \in Setups, c \in Fixed :
        cur'[x][c] = IF c \in C /\ x = a THEN cur[b][c]
                     ELSE IF c \in C /\ x = b THEN cur[a][c] ELSE cur[x][c]
  BY DEF Trades
<1>2. \A x \in Setups : FixedPart[x] = [c \in Fixed |-> cur[x][c]]
  BY PartTyped
<1>3. FixedPart' = [x \in Setups |-> [c \in Fixed |-> cur'[x][c]]]
  BY DEF FixedPart
<1>4. a \in Setups /\ b \in Setups /\ a # b
  OBVIOUS
<1> HIDE DEF a, b
<1>5. \A x \in Setups : [c \in Fixed |-> cur'[x][c]] =
            IF x = a THEN ra ELSE IF x = b THEN rb ELSE FixedPart[x]
  <2>1. \A x \in Setups, c \in Fixed : FixedPart[x][c] = cur[x][c]
    BY <1>2
  <2>2. \A c \in Fixed : /\ cur'[a][c] = IF c \in C THEN FixedPart[b][c]
                                                  ELSE FixedPart[a][c]
                         /\ cur'[b][c] = IF c \in C THEN FixedPart[a][c]
                                                  ELSE FixedPart[b][c]
    BY <1>1, <1>4, <2>1
  <2>3. [c \in Fixed |-> cur'[a][c]] = ra /\ [c \in Fixed |-> cur'[b][c]] = rb
    BY <2>2
  <2>4. ASSUME NEW x \in Setups, x # a, x # b
        PROVE  [c \in Fixed |-> cur'[x][c]] = FixedPart[x]
    <3>1. \A c \in Fixed : cur'[x][c] = cur[x][c]
      BY <1>1, <2>4
    <3>2. FixedPart[x] = [c \in Fixed |-> cur[x][c]]
      BY <1>2
    <3> QED
      BY <3>1, <3>2
  <2> QED
    BY <2>3, <2>4
<1> HIDE DEF ra, rb
<1>6. FixedPart' = [x \in Setups |->
            IF x = a THEN ra ELSE IF x = b THEN rb ELSE FixedPart[x]]
  BY <1>3, <1>5
<1>7. FixedPart' = [FixedPart EXCEPT ![a] = ra, ![b] = rb]
  BY <1>4, <1>6, PartTyped
<1>8. CorrectedPart' = CorrectedPart
  BY DEF CorrectedPart
<1>9. E!Trade(a, b, C)
  BY <1>7, <1>8 DEF E!Trade, ra, rb, CorrectedPart
<1> QED
  BY <1>4, <1>9 DEF E!Next

LEMMA EditCorrects ==
    ASSUME SwapConstantsOK, TypeInv, TypeOK', NEW s \in Sessions,
           EditCommit(s) \/ EditRefused(s)
    PROVE  E!Next
<1> DEFINE x == proc[s].setup
           row == [c \in Fixed |-> cur'[x][c]]
<1>1. x \in Setups /\ TypeOK /\ DOMAIN cur = Setups
  BY ProcFields DEF EditCommit, EditRefused, TypeInv, TypeOK
<1>2. PICK new : Edits(s, new)
  BY DEF EditCommit, EditRefused
<1>3. /\ cur'[x] = new
      /\ \A y \in Setups \ {x} : cur'[y] = cur[y]
      /\ edited' = edited \union {<<x, d>> : d \in {c \in Columns : new[c] # cur[x][c]}}
  BY <1>1, <1>2 DEF Edits
<1>4. \A y \in Setups : FixedPart[y] = [c \in Fixed |-> cur[y][c]]
  BY <1>1, PartTyped
<1>5. row \in [Fixed -> Cell]
  BY <1>1 DEF TypeOK, SetupValues, Columns
<1>6. FixedPart' = [FixedPart EXCEPT ![x] = row]
  <2>1. FixedPart' = [y \in Setups |-> [c \in Fixed |-> cur'[y][c]]]
    BY DEF FixedPart
  <2>2. \A y \in Setups : [c \in Fixed |-> cur'[y][c]] =
                            IF y = x THEN row ELSE FixedPart[y]
    BY <1>3, <1>4
  <2> HIDE DEF row
  <2>3. FixedPart' = [y \in Setups |-> IF y = x THEN row ELSE FixedPart[y]]
    BY <2>1, <2>2
  <2> QED
    BY <1>1, <2>3, PartTyped
<1>7. CorrectedPart' = CorrectedPart
          \union {<<x, c>> : c \in {d \in Fixed : row[d] # FixedPart[x][d]}}
  <2>1. \A d \in Fixed : row[d] = new[d]
    BY <1>3
  <2>2. \A d \in Fixed : FixedPart[x][d] = cur[x][d]
    <3>1. x \in Setups
      BY <1>1
    <3> HIDE DEF x, row
    <3>2. FixedPart[x] = [c \in Fixed |-> cur[x][c]]
      BY <1>4, <3>1
    <3> QED
      BY <3>2
  <2>3. Fixed \subseteq Columns
    BY DEF Columns
  <2> HIDE DEF row
  <2> QED
    BY <1>3, <2>1, <2>2, <2>3 DEF CorrectedPart
<1> HIDE DEF row, x
<1>8. \E y \in Setups : E!Correct(y)
  BY <1>1, <1>5, <1>6, <1>7 DEF E!Correct, CorrectedPart
<1> QED
  BY <1>8 DEF E!Next

LEMMA StepsExchange ==
    SwapConstantsOK /\ OneSession /\ SerialInv /\ [Next]_vars => [E!Next]_(E!vars)
<1> SUFFICES ASSUME SwapConstantsOK, OneSession, SerialInv, [Next]_vars
             PROVE  E!Next \/ UNCHANGED E!vars
  OBVIOUS
<1>1. TypeInv /\ TypeOK /\ TypeOK'
  BY TypeInvStep DEF SerialInv, TypeInv
<1>2. CASE ValuesKept
  BY <1>2 DEF ValuesKept, E!vars, FixedPart
<1>3. ASSUME NEW s \in Sessions, ApproveCommit(s) \/ ApproveRefused(s)
      PROVE  E!Next
  <2>1. proc[s].pc = "exchange" /\ edited' = edited
    BY <1>3 DEF ApproveCommit, ApproveRefused
  <2>2. ~Outdated(s)
    BY <2>1 DEF SerialInv, UpToDate, Outdated
  <2>3. PICK C \in SUBSET Fixed : Trades(s, C)
    BY <1>1, <1>3, <2>2, ApprovalTrades
  <2>4. /\ Current(proc[s].id) \in Setups /\ Requested(proc[s].id) \in Setups
        /\ Current(proc[s].id) # Requested(proc[s].id)
    BY <1>1, <2>1, SwapFacts DEF TypeInv, Proper, Deciding
  <2> QED
    BY <1>1, <2>1, <2>3, <2>4, TradeIsTrade
<1>4. ASSUME NEW s \in Sessions, EditCommit(s) \/ EditRefused(s)
      PROVE  E!Next
  BY <1>1, <1>4, EditCorrects
<1> QED
  BY <1>2, <1>3, <1>4, WhoWrites

\* With one session, every step exchanges the fixed columns of two setups, both
\* halves together, or is an edit of one of them, or changes none.
THEOREM SwapExchanges == ASSUME OneSession PROVE Spec => ImplementsExchange
<1>1. Init => E!Init
  <2> SUFFICES ASSUME Init PROVE E!Init
    OBVIOUS
  <2>1. TypeOK /\ edited = {}
    BY SwapConstantsOK, InitTypeInv DEF TypeInv, Init
  <2> QED
    BY <2>1, PartTyped DEF E!Init
<1>2. SerialInv /\ [Next]_vars => [E!Next]_(E!vars)
  BY SwapConstantsOK, StepsExchange
<1> QED
  BY <1>1, <1>2, SerialInvAlways, PTL DEF Spec, E!Spec, ImplementsExchange

-----------------------------------------------------------------------------
(* What the ledger explains.                                                *)

\* Templates that serialize nothing of their own and refuse nothing that a
\* setup may hold: no defaults, no required columns, and setups with a column
\* in common agree on it.
PlainTemplates ==
    \A x \in Setups : \A c \in DOMAIN Template[x] :
        /\ Template[x][c].default = Null /\ ~Template[x][c].required
        /\ Stock[x][c] \in Template[x][c].allowed
        /\ \A y \in Setups : c \in DOMAIN Template[y] =>
                                Template[y][c].allowed = Template[x][c].allowed

FixedOnly == \A cols \in ColumnLists : \A k \in DOMAIN cols : cols[k] \in Fixed

\* The value that entry k says x was given in column c.
Given(k, x, c) ==
    IF x = Current(ledger[k].id) THEN ledger[k].right[c] ELSE ledger[k].left[c]

LastOf(k, x, c) ==
    /\ k \in DOMAIN ledger /\ Logs(k, x, c)
    /\ \A l \in DOMAIN ledger : Logs(l, x, c) => l <= k

Explained(x, c) ==
    \/ \E k \in DOMAIN ledger : LastOf(k, x, c) /\ cur[x][c] = Given(k, x, c)
    \/ /\ \A k \in DOMAIN ledger : ~Logs(k, x, c)
       /\ cur[x][c] = Stock[x][c]

\* What the template of its setup takes.
Fits(x) == \A c \in DOMAIN Template[x] : cur[x][c] \in Template[x][c].allowed

\* The entries are of requests, the requests are of common columns, and under
\* plain templates nothing else is held than what they take.
LedgerInv ==
    /\ \A k \in DOMAIN ledger : ledger[k].id \in Ids
    /\ \A i \in Ids : Common(i)
    /\ PlainTemplates => \A x \in Setups : Fits(x)
    /\ \A x \in Setups, c \in Columns : <<x, c>> \notin edited => Explained(x, c)

LEMMA TableFacts ==
    ASSUME TypeOK
    PROVE  DOMAIN ledger = 1..Len(ledger) /\ Len(ledger) \in Nat
  BY LenProperties DEF TypeOK

\* The entry that LastLogged chooses is the last one.
LEMMA LastExplains ==
    ASSUME TypeOK, NEW x \in Setups, NEW c \in Columns, Explained(x, c)
    PROVE  cur[x][c] = IF \E k \in DOMAIN ledger : Logs(k, x, c)
                       THEN LastLogged(x, c) ELSE Stock[x][c]
<1>1. CASE \E k \in DOMAIN ledger : LastOf(k, x, c) /\ cur[x][c] = Given(k, x, c)
  <2>1. PICK k \in DOMAIN ledger : LastOf(k, x, c) /\ cur[x][c] = Given(k, x, c)
    BY <1>1
  <2> DEFINE P(j) == /\ Logs(j, x, c)
                     /\ \A l \in DOMAIN ledger : Logs(l, x, c) => l <= j
             last == CHOOSE j \in DOMAIN ledger : P(j)
  <2>2. P(k)
    BY <2>1 DEF LastOf
  <2>3. last \in DOMAIN ledger /\ P(last)
    <3> HIDE DEF P
    <3> QED
      BY <2>2
  <2>4. last <= k /\ k <= last
    BY <2>2, <2>3
  <2>5. last = k
    <3> HIDE DEF last
    <3> QED
      BY <2>3, <2>4, TableFacts
  <2>6. LastLogged(x, c) = Given(last, x, c)
    BY DEF LastLogged, Given
  <2> QED
    BY <2>1, <2>2, <2>5, <2>6
<1>2. CASE /\ \A k \in DOMAIN ledger : ~Logs(k, x, c)
           /\ cur[x][c] = Stock[x][c]
  BY <1>2
<1> QED
  BY <1>1, <1>2 DEF Explained

\* An entry says what it said, since the request it is of is unchanged.
LEMMA EntriesStay ==
    ASSUME SwapsStep, NEW k \in DOMAIN ledger, ledger[k].id \in Ids,
           ledger'[k] = ledger[k], NEW x \in Setups, NEW c \in Columns
    PROVE  /\ Logs(k, x, c)' <=> Logs(k, x, c)
           /\ Given(k, x, c)' = Given(k, x, c)
<1> DEFINE i == ledger[k].id
<1>1. /\ swaps'[i].current = swaps[i].current
      /\ swaps'[i].requested = swaps[i].requested
      /\ swaps'[i].columns = swaps[i].columns
  BY DEF SwapsStep, Current, Requested
<1>2. Logs(k, x, c) <=> /\ x \in {swaps[i].current, swaps[i].requested}
                        /\ \E j \in DOMAIN swaps[i].columns : swaps[i].columns[j] = c
  BY DEF Logs, Current, Requested, Names
<1>3. Logs(k, x, c)' <=> /\ x \in {swaps'[i].current, swaps'[i].requested}
                         /\ \E j \in DOMAIN swaps'[i].columns : swaps'[i].columns[j] = c
  BY DEF Logs, Current, Requested, Names
<1>4. Given(k, x, c)' = IF x = swaps'[i].current
                        THEN ledger[k].right[c] ELSE ledger[k].left[c]
  BY DEF Given, Current
<1> QED
  BY <1>1, <1>2, <1>3, <1>4 DEF Given, Current

\* A value that stays is explained as long as nothing is logged of it.
LEMMA ExplainedStays ==
    ASSUME SwapsStep, NEW x \in Setups, NEW c \in Columns, Explained(x, c),
           cur'[x][c] = cur[x][c],
           \A k \in DOMAIN ledger : /\ ledger[k].id \in Ids
                                    /\ k \in DOMAIN ledger' /\ ledger'[k] = ledger[k],
           \A k \in DOMAIN ledger' \ DOMAIN ledger : ~Logs(k, x, c)'
    PROVE  Explained(x, c)'
<1>1. \A k \in DOMAIN ledger : /\ Logs(k, x, c)' <=> Logs(k, x, c)
                               /\ Given(k, x, c)' = Given(k, x, c)
  BY EntriesStay
<1>2. \A k \in DOMAIN ledger : LastOf(k, x, c) => LastOf(k, x, c)'
  BY <1>1 DEF LastOf
<1> QED
  BY <1>1, <1>2 DEF Explained

LEMMA CommonStays ==
    ASSUME SwapsStep, \A i \in Ids : Common(i)
    PROVE  (\A i \in Ids : Common(i))'
<1> SUFFICES ASSUME NEW i \in Ids'
             PROVE  Common(i)'
  OBVIOUS
<1>1. CASE i \in Ids
  BY <1>1 DEF SwapsStep, Common, Current, Requested
<1>2. CASE i \notin Ids
  BY <1>2 DEF SwapsStep
<1> QED
  BY <1>1, <1>2

-----------------------------------------------------------------------------
(* Without defaults and refusals an approval exchanges what it logs.        *)

\* What is written of custom columns is only what the columns ask for.
LEMMA FlushedPlain ==
    ASSUME SwapConstantsOK, NEW x \in Setups, NEW own, NEW new, NEW cols, NEW n,
           NEW c \in Columns, own[c] = cur[x][c],
           c \in Fixed \/ Default(x, c) = Null \/ Written(cols, n) \subseteq Fixed,
           c \in Written(cols, n) => c \in Fixed \/ new[c] # Null
    PROVE  Flushed(x, own, new, cols, n)[c] =
                IF c \in Written(cols, n) THEN new[c] ELSE cur[x][c]
<1> DEFINE after == Assigned(x, cur[x], new, cols, n)
<1>1. \A d \in Fixed : d \notin Custom
  BY CellFacts
<1>2. after[c] = IF c \in Written(cols, n) THEN new[c] ELSE cur[x][c]
  BY <1>1 DEF Assigned, Columns
<1>3. Flushed(x, own, new, cols, n)[c] =
            IF after[c] = own[c] THEN cur[x][c] ELSE after[c]
  BY DEF Flushed
<1> QED
  BY <1>2, <1>3

Unhindered == FixedOnly \/ PlainTemplates

\* What the session is about to do: request, setups and what it knows of them.
LEMMA AboutToExchange ==
    ASSUME SwapConstantsOK, SerialInv, NEW s \in Sessions, proc[s].pc = "exchange"
    PROVE  LET i == proc[s].id IN
           /\ i \in Ids /\ i \in Nat
           /\ Current(i) \in Setups /\ Requested(i) \in Setups
           /\ Current(i) # Requested(i)
           /\ proc[s].left = cur[Current(i)] /\ proc[s].right = cur[Requested(i)]
           /\ proc[s].left \in SetupValues /\ proc[s].right \in SetupValues
           /\ swaps[i].columns \in ColumnLists
           /\ swaps[i].columns \in Seq(Columns)
           /\ DOMAIN swaps[i].columns = 1..Len(swaps[i].columns)
           /\ Written(swaps[i].columns, Len(swaps[i].columns)) = Names(i)
           /\ Names(i) \subseteq Columns
<1> DEFINE i == proc[s].id  cols == swaps[i].columns
<1>1. TypeInv /\ TypeOK
  BY DEF SerialInv, TypeInv
<1>2. i \in Ids /\ Current(i) # Requested(i)
  BY <1>1 DEF TypeInv, Proper, Deciding
<1>3. /\ i \in Nat /\ proc[s].left \in SetupValues /\ proc[s].right \in SetupValues
  BY <1>1, ProcFields DEF Deciding
<1>4. /\ proc[s].left = cur[Current(i)] /\ proc[s].right = cur[Requested(i)]
  BY DEF SerialInv, UpToDate
<1>5. /\ swaps[i] \in SwapRow /\ Current(i) \in Setups /\ Requested(i) \in Setups
      /\ cols \in Seq(Columns) /\ Names(i) \subseteq Columns
  BY <1>1, <1>2, SwapFacts
<1>6. cols \in ColumnLists
  BY <1>5 DEF SwapRow
<1>7. Names(i) = {cols[k] : k \in DOMAIN cols}
  BY DEF Names
<1>8. DOMAIN cols = 1..Len(cols)
  <2> HIDE DEF cols
  <2> QED
    BY <1>5, LenProperties
<1>9. Written(cols, Len(cols)) = Names(i)
  BY <1>7, <1>8 DEF Written
<1> QED
  BY <1>2, <1>3, <1>4, <1>5, <1>6, <1>8, <1>9

\* What a plain template holds may be written into the other one, and is not None.
LEMMA PlainlyExchanged ==
    ASSUME SwapConstantsOK, PlainTemplates, NEW a \in Setups, NEW b \in Setups,
           Fits(b), NEW c \in DOMAIN Template[a] \intersect DOMAIN Template[b]
    PROVE  /\ cur[b][c] # Null
           /\ Default(a, c) = Null
           /\ ~Refuses(a, c, cur[b][c])
<1>1. Template[b][c].allowed = Template[a][c].allowed
  BY DEF PlainTemplates
<1>2. cur[b][c] \in Template[a][c].allowed
  BY <1>1 DEF Fits
<1>3. Template[a][c].allowed \subseteq Values
  BY DEF SwapConstantsOK, TemplateColumn
<1>4. \A d \in DOMAIN Template[a] : ~Template[a][d].required
  BY DEF PlainTemplates
<1>5. Template[a][c].default = Null
  BY DEF PlainTemplates
<1> QED
  BY <1>2, <1>3, <1>4, <1>5 DEF Refuses, Default, SwapConstantsOK

LEMMA NothingRefused ==
    ASSUME SwapConstantsOK, Unhindered, SerialInv, LedgerInv, NEW s \in Sessions,
           proc[s].pc = "exchange", NEW k \in DOMAIN swaps[proc[s].id].columns
    PROVE  ~LeftRefuses(s, k) /\ ~RightRefuses(s, k)
<1> DEFINE i == proc[s].id  c == swaps[i].columns[k]
<1>1. /\ i \in Ids /\ Current(i) \in Setups /\ Requested(i) \in Setups
      /\ proc[s].left = cur[Current(i)] /\ proc[s].right = cur[Requested(i)]
      /\ swaps[i].columns \in ColumnLists
  BY AboutToExchange
<1>2. CASE c \in Fixed
  BY <1>2, CellFacts, <1>1 DEF LeftRefuses, RightRefuses
<1>3. CASE c \notin Fixed
  <2>1. PlainTemplates
    BY <1>1, <1>3 DEF Unhindered, FixedOnly
  <2>2. Fits(Current(i)) /\ Fits(Requested(i))
    BY <1>1, <2>1 DEF LedgerInv
  <2>3. c \in DOMAIN Template[Current(i)] /\ c \in DOMAIN Template[Requested(i)]
    BY <1>1, <1>3 DEF LedgerInv, Common
  <2>4. /\ ~Refuses(Current(i), c, cur[Requested(i)][c])
        /\ ~Refuses(Requested(i), c, cur[Current(i)][c])
    <3> HIDE DEF c, i
    <3> QED
      BY <1>1, <2>1, <2>2, <2>3, PlainlyExchanged
  <2> QED
    BY <1>1, <2>4 DEF LeftRefuses, RightRefuses
<1> QED
  BY <1>2, <1>3

\* The two setups exchange the columns of the request and no others.
LEMMA ApprovalExchanges ==
    ASSUME SwapConstantsOK, Unhindered, SerialInv, LedgerInv, NEW s \in Sessions,
           ApproveCommit(s), NEW c \in Columns
    PROVE  LET i == proc[s].id  a == Current(i)  b == Requested(i) IN
           /\ cur'[a][c] = IF c \in Names(i) THEN cur[b][c] ELSE cur[a][c]
           /\ cur'[b][c] = IF c \in Names(i) THEN cur[a][c] ELSE cur[b][c]
           /\ \A x \in Setups \ {a, b} : cur'[x] = cur[x]
<1> DEFINE i == proc[s].id
           a == Current(i)
           b == Requested(i)
           cols == swaps[i].columns
           all == Len(cols)
<1>1. proc[s].pc = "exchange" /\ Exchange(s, all, all, all)
  BY DEF ApproveCommit
<1>2. /\ i \in Ids /\ a \in Setups /\ b \in Setups
      /\ proc[s].left = cur[a] /\ proc[s].right = cur[b]
      /\ cols \in ColumnLists /\ Written(cols, all) = Names(i)
  BY <1>1, AboutToExchange
<1>3. /\ cur'[a] = Flushed(a, cur[a], cur[b], cols, all)
      /\ cur'[b] = Flushed(b, cur[b], cur[a], cols, all)
      /\ \A x \in Setups \ {a, b} : cur'[x] = cur[x]
  BY <1>1, <1>2, ExchangedRows DEF SerialInv
<1>4. FixedOnly => Names(i) \subseteq Fixed
  BY <1>2 DEF FixedOnly, Names
<1>5. ASSUME PlainTemplates
      PROVE  /\ Default(a, c) = Null /\ Default(b, c) = Null
             /\ c \in Names(i) => c \in Fixed \/ (cur[a][c] # Null /\ cur[b][c] # Null)
  <2>1. Fits(a) /\ Fits(b)
    BY <1>2, <1>5 DEF LedgerInv
  <2>2. c \in Names(i) => \/ c \in Fixed
                          \/ c \in DOMAIN Template[a] /\ c \in DOMAIN Template[b]
    BY <1>2 DEF LedgerInv, Common, Names
  <2>3. Default(a, c) = Null /\ Default(b, c) = Null
    BY <1>2, <1>5 DEF PlainTemplates, Default
  <2> HIDE DEF a, b, i
  <2>4. c \in Names(i) => c \in Fixed \/ (cur[a][c] # Null /\ cur[b][c] # Null)
    BY <1>2, <1>5, <2>1, <2>2, PlainlyExchanged
  <2> QED
    BY <2>3, <2>4
<1> HIDE DEF a, b, cols, all, i
<1>6. /\ c \in Fixed \/ Default(a, c) = Null \/ Written(cols, all) \subseteq Fixed
      /\ c \in Fixed \/ Default(b, c) = Null \/ Written(cols, all) \subseteq Fixed
      /\ c \in Written(cols, all) => c \in Fixed \/ cur[a][c] # Null
      /\ c \in Written(cols, all) => c \in Fixed \/ cur[b][c] # Null
  BY <1>2, <1>4, <1>5 DEF Unhindered
<1>7. /\ cur'[a][c] = IF c \in Names(i) THEN cur[b][c] ELSE cur[a][c]
      /\ cur'[b][c] = IF c \in Names(i) THEN cur[a][c] ELSE cur[b][c]
  <2>1. Flushed(a, cur[a], cur[b], cols, all)[c] =
            IF c \in Written(cols, all) THEN cur[b][c] ELSE cur[a][c]
    BY <1>2, <1>6, FlushedPlain
  <2>2. Flushed(b, cur[b], cur[a], cols, all)[c] =
            IF c \in Written(cols, all) THEN cur[a][c] ELSE cur[b][c]
    BY <1>2, <1>6, FlushedPlain
  <2> QED
    BY <1>2, <1>3, <2>1, <2>2
<1> QED
  BY <1>3, <1>7 DEF a, b, i

\* What an approval exchanges fits the other template too.
LEMMA FitStays ==
    ASSUME SwapConstantsOK, PlainTemplates, SerialInv, LedgerInv, NEW s \in Sessions,
           ApproveCommit(s), NEW x \in Setups
    PROVE  Fits(x)'
<1> DEFINE i == proc[s].id
           a == Current(i)
           b == Requested(i)
<1>1. i \in Ids /\ a \in Setups /\ b \in Setups
  BY AboutToExchange DEF ApproveCommit
<1>2. \A y \in Setups : \A d \in DOMAIN Template[y] :
            d \in Columns /\ d \notin Fixed /\ cur[y][d] \in Template[y][d].allowed
  BY DEF LedgerInv, Fits, SwapConstantsOK, Columns
<1>3. \A d \in Names(i) : \/ d \in Fixed
                          \/ d \in DOMAIN Template[a] /\ d \in DOMAIN Template[b]
  BY <1>1 DEF LedgerInv, Common, Names
<1>4. SUFFICES ASSUME NEW d \in DOMAIN Template[x]
               PROVE  cur'[x][d] \in Template[x][d].allowed
  BY DEF Fits
<1>5. /\ cur'[a][d] = IF d \in Names(i) THEN cur[b][d] ELSE cur[a][d]
      /\ cur'[b][d] = IF d \in Names(i) THEN cur[a][d] ELSE cur[b][d]
      /\ \A y \in Setups \ {a, b} : cur'[y] = cur[y]
  BY <1>2, ApprovalExchanges DEF Unhindered
<1>6. d \in Names(i) /\ x \in {a, b} =>
        /\ Template[a][d].allowed = Template[b][d].allowed
        /\ cur[a][d] \in Template[a][d].allowed /\ cur[b][d] \in Template[b][d].allowed
  BY <1>1, <1>2, <1>3, <1>4 DEF PlainTemplates
<1> HIDE DEF a, b, i
<1> QED
  BY <1>2, <1>4, <1>5, <1>6

\* An approval logs what it exchanges, last.
LEMMA ApprovalExplained ==
    ASSUME SwapConstantsOK, Unhindered, SerialInv, LedgerInv, NEW s \in Sessions,
           ApproveCommit(s), SwapsStep
    PROVE  LedgerInv'
<1> DEFINE i == proc[s].id
           a == Current(i)
           b == Requested(i)
           entry == [id |-> i, left |-> proc[s].left, right |-> proc[s].right]
<1>1. /\ i \in Ids /\ i \in Nat /\ a \in Setups /\ b \in Setups /\ a # b
      /\ proc[s].left = cur[a] /\ proc[s].right = cur[b]
      /\ proc[s].left \in SetupValues /\ proc[s].right \in SetupValues
  BY AboutToExchange DEF ApproveCommit
<1>2. PICK n \in Nat :
        n = Len(ledger) /\ DOMAIN ledger = 1..n /\ ledger \in Seq(LedgerEntry)
  BY TableFacts DEF SerialInv, TypeInv, TypeOK
<1>3. entry \in LedgerEntry
  BY <1>1 DEF LedgerEntry
<1>4. ledger' = Append(ledger, entry)
  BY DEF ApproveCommit
<1>5. /\ entry.id = i /\ entry.left = cur[a] /\ entry.right = cur[b]
      /\ edited' = edited
  BY <1>1 DEF ApproveCommit
<1> HIDE DEF entry
<1>6. /\ DOMAIN ledger' = 1..(n + 1)
      /\ \A k \in DOMAIN ledger : k \in DOMAIN ledger' /\ ledger'[k] = ledger[k]
      /\ \A k \in DOMAIN ledger' : k = n + 1 \/ k \in DOMAIN ledger
      /\ n + 1 \in DOMAIN ledger' /\ n + 1 \notin DOMAIN ledger
      /\ ledger'[n + 1] = entry
      /\ \A k \in DOMAIN ledger' : k <= n + 1
  <2>1. /\ DOMAIN Append(ledger, entry) = 1..(n + 1)
        /\ \A k \in 1..n : Append(ledger, entry)[k] = ledger[k]
        /\ Append(ledger, entry)[n + 1] = entry
    BY <1>2, <1>3, AppendRow
  <2> QED
    BY <1>2, <1>4, <2>1
<1>7. (\A k \in DOMAIN ledger : ledger[k].id \in Ids)'
  <2>1. \A k \in DOMAIN ledger : ledger[k].id \in Ids
    BY DEF LedgerInv
  <2>2. \A j \in Ids : j \in Ids'
    BY DEF SwapsStep
  <2> QED
    BY <1>1, <1>5, <1>6, <2>1, <2>2
<1>8. (\A j \in Ids : Common(j))'
  BY CommonStays DEF LedgerInv
<1>9. (PlainTemplates => \A x \in Setups : Fits(x))'
  BY FitStays DEF PlainTemplates
<1>10. ASSUME NEW x \in Setups, NEW c \in Columns, <<x, c>> \notin edited
       PROVE  Explained(x, c)'
  <2>1. /\ cur'[a][c] = IF c \in Names(i) THEN cur[b][c] ELSE cur[a][c]
        /\ cur'[b][c] = IF c \in Names(i) THEN cur[a][c] ELSE cur[b][c]
        /\ \A y \in Setups \ {a, b} : cur'[y] = cur[y]
    BY ApprovalExchanges
  <2>2. /\ swaps'[i].current = a /\ swaps'[i].requested = b
        /\ Names(i) = {swaps'[i].columns[k] : k \in DOMAIN swaps'[i].columns}
    BY <1>1 DEF SwapsStep, Current, Requested, Names
  <2>3. Logs(n + 1, x, c)' <=> x \in {a, b} /\ c \in Names(i)
    <3>1. ledger'[n + 1].id = i
      BY <1>5, <1>6
    <3>2. Logs(n + 1, x, c)' <=>
            LET j == ledger'[n + 1].id IN
            /\ x \in {swaps'[j].current, swaps'[j].requested}
            /\ c \in {swaps'[j].columns[k] : k \in DOMAIN swaps'[j].columns}
      BY DEF Logs, Current, Requested, Names
    <3> HIDE DEF a, b, i
    <3> QED
      BY <2>2, <3>1, <3>2
  <2>4. Given(n + 1, x, c)' = IF x = a THEN cur[b][c] ELSE cur[a][c]
    BY <1>5, <1>6, <2>2 DEF Given, Current
  <2> HIDE DEF a, b, i
  <2>5. CASE x \in {a, b} /\ c \in Names(i)
    <3>1. LastOf(n + 1, x, c)'
      BY <1>6, <2>3, <2>5 DEF LastOf
    <3>2. cur'[x][c] = Given(n + 1, x, c)'
      BY <1>1, <2>1, <2>4, <2>5
    <3> QED
      BY <1>6, <3>1, <3>2 DEF Explained
  <2>6. CASE ~(x \in {a, b} /\ c \in Names(i))
    <3>1. cur'[x][c] = cur[x][c]
      BY <2>1, <2>6
    <3>2. \A k \in DOMAIN ledger' \ DOMAIN ledger : ~Logs(k, x, c)'
      BY <1>6, <2>3, <2>6
    <3>3. Explained(x, c)
      BY <1>10 DEF LedgerInv
    <3> QED
      BY <1>6, <3>1, <3>2, <3>3, ExplainedStays DEF LedgerInv
  <2> QED
    BY <2>5, <2>6
<1> QED
  BY <1>5, <1>7, <1>8, <1>9, <1>10 DEF LedgerInv

\* An edit puts into a column of the template what it takes.
LEMMA EditFits ==
    ASSUME SwapConstantsOK, PlainTemplates, SerialInv, LedgerInv, NEW s \in Sessions,
           EditCommit(s) \/ EditRefused(s), NEW x \in Setups
    PROVE  Fits(x)'
<1> DEFINE y == proc[s].setup
           form == proc[s].form
<1>1. /\ proc[s].pc = "save" /\ y \in Setups /\ form \in SetupValues
      /\ DOMAIN cur = Setups
  BY ProcFields DEF EditCommit, EditRefused, SerialInv, TypeInv, TypeOK
<1>2. \A z \in Setups : \A d \in DOMAIN Template[z] :
            /\ d \in Columns /\ d \in Custom /\ d \notin Fixed
            /\ Default(z, d) = Null /\ cur[z][d] \in Template[z][d].allowed
  BY DEF LedgerInv, Fits, SwapConstantsOK, Columns, PlainTemplates, Default
<1>3. CASE EditCommit(s)
  <2>1. cur' = [cur EXCEPT ![y] = Saved(s, TRUE)] /\ ~FormRefused(y, form)
    BY <1>3 DEF EditCommit, Edits
  <2>2. \A d \in DOMAIN Template[y] : Saved(s, TRUE)[d] \in Template[y][d].allowed
    <3> SUFFICES ASSUME NEW d \in DOMAIN Template[y]
                 PROVE  Saved(s, TRUE)[d] \in Template[y][d].allowed
      OBVIOUS
    <3>1. form[d] # Null => form[d] \in Template[y][d].allowed
      BY <2>1 DEF FormRefused
    <3>2. Saved(s, TRUE)[d] = cur[y][d] \/ (form[d] # Null /\ Saved(s, TRUE)[d] = form[d])
      BY <1>1, <1>2 DEF Saved
    <3> QED
      BY <1>1, <1>2, <3>1, <3>2
  <2> HIDE DEF y
  <2> QED
    BY <1>1, <1>2, <2>1, <2>2 DEF Fits
<1>4. CASE EditRefused(s)
  <2>1. cur' = [cur EXCEPT ![y] = Saved(s, FALSE)]
    BY <1>4 DEF EditRefused, Edits
  <2>2. \A d \in DOMAIN Template[y] : Saved(s, FALSE)[d] = cur[y][d]
    BY <1>1, <1>2 DEF Saved
  <2> HIDE DEF y
  <2> QED
    BY <1>1, <1>2, <2>1, <2>2 DEF Fits
<1> QED
  BY <1>3, <1>4

LEMMA EditExplained ==
    ASSUME SwapConstantsOK, SerialInv, LedgerInv, NEW s \in Sessions,
           EditCommit(s) \/ EditRefused(s), SwapsStep
    PROVE  LedgerInv'
<1>1. ledger' = ledger /\ \A i \in Ids : i \in Ids'
  BY DEF EditCommit, EditRefused, SwapsStep
<1>2. (\A i \in Ids : Common(i))'
  BY CommonStays DEF LedgerInv
<1>3. (PlainTemplates => \A x \in Setups : Fits(x))'
  BY EditFits DEF PlainTemplates
<1>4. ASSUME NEW x \in Setups, NEW c \in Columns, <<x, c>> \notin edited'
      PROVE  Explained(x, c)'
  <2>1. cur'[x][c] = cur[x][c] /\ <<x, c>> \notin edited
    BY <1>4, EditRemembered DEF SerialInv
  <2> QED
    BY <1>1, <2>1, ExplainedStays DEF LedgerInv
<1> QED
  BY <1>1, <1>2, <1>3, <1>4 DEF LedgerInv

LEMMA LedgerInvStep ==
    SwapConstantsOK /\ Unhindered /\ SerialInv /\ LedgerInv /\ [Next]_vars
    => LedgerInv'
<1> SUFFICES ASSUME SwapConstantsOK, Unhindered, SerialInv, LedgerInv, [Next]_vars
             PROVE  LedgerInv'
  OBVIOUS
<1>1. SwapsStep
  BY RequestsKept DEF SerialInv
<1>2. CASE ValuesKept
  <2>1. /\ ledger' = ledger /\ edited' = edited /\ cur' = cur
        /\ \A i \in Ids : i \in Ids'
    BY <1>1, <1>2 DEF ValuesKept, SwapsStep
  <2>2. (\A i \in Ids : Common(i))'
    BY <1>1, CommonStays DEF LedgerInv
  <2>3. (PlainTemplates => \A x \in Setups : Fits(x))'
    BY <2>1 DEF LedgerInv, PlainTemplates, Fits
  <2>4. ASSUME NEW x \in Setups, NEW c \in Columns, <<x, c>> \notin edited
        PROVE  Explained(x, c)'
    BY <1>1, <2>1, <2>4, ExplainedStays DEF LedgerInv
  <2> QED
    BY <2>1, <2>2, <2>3, <2>4 DEF LedgerInv
<1>3. ASSUME NEW s \in Sessions, ApproveCommit(s)
      PROVE  LedgerInv'
  BY <1>1, <1>3, ApprovalExplained
<1>4. ASSUME NEW s \in Sessions, ApproveRefused(s)
      PROVE  FALSE
  BY <1>4, NothingRefused DEF ApproveRefused
<1>5. ASSUME NEW s \in Sessions, EditCommit(s) \/ EditRefused(s)
      PROVE  LedgerInv'
  BY <1>1, <1>5, EditExplained
<1> QED
  BY <1>2, <1>3, <1>4, <1>5, WhoWrites

LEMMA InitLedgerInv ==
    ASSUME SwapConstantsOK, Init
    PROVE  LedgerInv
<1>1. DOMAIN ledger = {} /\ Ids = {} /\ cur = Stock
  BY DEF Init, Ids
<1>2. \A x \in Setups, c \in Columns : Explained(x, c)
  BY <1>1 DEF Explained
<1> QED
  BY <1>1, <1>2 DEF LedgerInv, Fits, PlainTemplates

\* "Every changed field has a traceable history back to its baseline" holds of
\* one session at a time that exchanges fixed columns only, or custom columns
\* of templates without defaults and required columns: then every value that no
\* edit has changed is what the last approval that names it has logged.
THEOREM LedgerIsComplete ==
    ASSUME OneSession, FixedOnly \/ PlainTemplates
    PROVE  Spec => []LedgerExplains
<1>1. Unhindered
  BY DEF Unhindered
<1>2. Init => LedgerInv
  BY SwapConstantsOK, InitLedgerInv
<1>3. SerialInv /\ LedgerInv /\ [Next]_vars => LedgerInv'
  BY <1>1, SwapConstantsOK, LedgerInvStep
<1>4. SerialInv /\ LedgerInv => LedgerExplains
  BY LastExplains DEF SerialInv, TypeInv, LedgerInv, LedgerExplains
<1> QED
  BY <1>2, <1>3, <1>4, SerialInvAlways, PTL DEF Spec

-----------------------------------------------------------------------------
(* With one session at a time, originals are kept through edits too.        *)

\* A cell that no edit has changed has its first value for original, or has it
\* still and no record.
FirstsKept ==
    \A x \in Setups, c \in Fixed :
        <<x, c>> \notin edited => /\ base[x][c] \in {NoBase, Stock[x][c]}
                                  /\ FromStart(x, c, cur[x][c])

LEMMA ApprovalKeepsFirsts ==
    ASSUME SwapConstantsOK, SerialInv, FirstsKept, NEW s \in Sessions,
           ApproveCommit(s) \/ ApproveRefused(s)
    PROVE  FirstsKept'
<1> DEFINE a == Current(proc[s].id)
           b == Requested(proc[s].id)
           cols == swaps[proc[s].id].columns
<1>1. PICK n, m, r : Exchange(s, n, m, r) /\ SameFixed(cols, n, m)
  BY WritesBothSides DEF SerialInv
<1>2. proc[s].pc = "exchange" /\ edited' = edited
  BY DEF ApproveCommit, ApproveRefused
<1>3. /\ a \in Setups /\ b \in Setups /\ a # b
      /\ Side(a, proc[s].left, proc[s].right, cols, n, r)
      /\ Side(b, proc[s].right, proc[s].left, cols, m, r)
      /\ \A y \in Setups \ {a, b} : cur'[y] = cur[y] /\ base'[y] = base[y]
  BY <1>1, <1>2, ExchangedRows DEF Side, SerialInv
<1>4. proc[s].left = cur[a] /\ proc[s].right = cur[b]
  BY <1>2, AboutToExchange
<1> HIDE DEF a, b
<1>5. ASSUME NEW x \in Setups, NEW c \in Fixed, <<x, c>> \notin edited
      PROVE  /\ base'[x][c] \in {NoBase, Stock[x][c]}
             /\ base'[x][c] = NoBase => cur'[x][c] = Stock[x][c]
  <2>1. base[x][c] \in {NoBase, Stock[x][c]} /\ FromStart(x, c, cur[x][c])
    BY <1>5 DEF FirstsKept
  <2>2. Stock[x][c] # NoBase
    BY CellFacts DEF SwapConstantsOK, SetupValues
  <2>3. Listed(cols, n, c) /\ Listed(cols, m, c)
    BY <1>1 DEF SameFixed, Listed
  <2> HIDE DEF cols
  <2>4. /\ base'[x][c] \in {NoBase, Stock[x][c]}
        /\ base'[x][c] = NoBase => base[x][c] = NoBase /\ cur'[x][c] = cur[x][c]
    <3>1. CASE x = a
      BY <1>3, <1>4, <2>1, <2>2, <2>3, <3>1, SideRemembers
    <3>2. CASE x = b
      BY <1>3, <1>4, <2>1, <2>2, <2>3, <3>2, SideRemembers
    <3>3. CASE x # a /\ x # b
      BY <1>3, <2>1, <3>3
    <3> QED
      BY <3>1, <3>2, <3>3
  <2> QED
    BY <2>1, <2>4 DEF FromStart
<1> QED
  BY <1>2, <1>5 DEF FirstsKept, FromStart

\* What differs from before has been edited, since before is as it was.
LEMMA EditKeepsFirsts ==
    ASSUME SwapConstantsOK, SerialInv, FirstsKept, NEW s \in Sessions,
           EditCommit(s) \/ EditRefused(s)
    PROVE  FirstsKept'
<1> DEFINE y == proc[s].setup
<1>1. /\ y \in Setups /\ DOMAIN cur = Setups /\ DOMAIN base = Setups
      /\ proc[s].before = cur[y] /\ Fixed \subseteq Columns
  BY ProcFields DEF EditCommit, EditRefused, SerialInv, UpToDate, TypeInv, TypeOK,
                    Columns
<1>2. /\ edited \subseteq edited'
      /\ \A x \in Setups \ {y} : cur'[x] = cur[x]
      /\ \A x \in Setups, c \in Columns :
            cur'[x][c] = cur[x][c] \/ <<x, c>> \in edited'
  BY EditRemembered DEF SerialInv
<1>3. ASSUME NEW x \in Setups, NEW c \in Fixed, <<x, c>> \notin edited'
      PROVE  base'[x][c] = base[x][c] \/ (base'[x][c] = cur[x][c] /\ base[x][c] = NoBase)
  <2>1. CASE EditRefused(s)
    BY <2>1 DEF EditRefused
  <2>2. CASE EditCommit(s) /\ x # y
    <3>1. PICK new : base' = [base EXCEPT ![y] = new]
      BY <2>2 DEF EditCommit
    <3> HIDE DEF y
    <3> QED
      BY <1>1, <2>2, <3>1
  <2>3. CASE EditCommit(s) /\ x = y
    <3> DEFINE row == Saved(s, TRUE)
               Differs(d) == row[d] # proc[s].before[d]
               new == [d \in Columns |->
                   IF \/ Differs(d)
                      \/ d \in Fixed /\ base[y][d] = NoBase /\ \E e \in Fixed : Differs(e)
                   THEN row[d] ELSE base[y][d]]
    <3>1. base' = [base EXCEPT ![y] = new] /\ cur' = [cur EXCEPT ![y] = row]
      BY <2>3 DEF EditCommit, Edits
    <3>2. row[c] = cur[y][c]
      <4> HIDE DEF row, y
      <4> QED
        BY <1>1, <1>2, <1>3, <2>3, <3>1
    <3>3. new[c] = base[y][c] \/ (new[c] = row[c] /\ base[y][c] = NoBase)
      <4>1. ~Differs(c)
        BY <1>1, <3>2
      <4>2. c \in Columns
        BY <1>1
      <4>3. new[c] = IF \/ Differs(c)
                        \/ c \in Fixed /\ base[y][c] = NoBase /\ \E e \in Fixed : Differs(e)
                     THEN row[c] ELSE base[y][c]
        BY <4>2
      <4> HIDE DEF Differs, row, y, new
      <4> QED
        BY <4>1, <4>3
    <3> HIDE DEF new, row, y
    <3> QED
      BY <1>1, <2>3, <3>1, <3>2, <3>3
  <2> QED
    BY <2>1, <2>2, <2>3
<1>4. ASSUME NEW x \in Setups, NEW c \in Fixed, <<x, c>> \notin edited'
      PROVE  /\ base'[x][c] \in {NoBase, Stock[x][c]}
             /\ base'[x][c] = NoBase => cur'[x][c] = Stock[x][c]
  <2>1. cur'[x][c] = cur[x][c] /\ <<x, c>> \notin edited
    BY <1>1, <1>2, <1>4
  <2>2. base[x][c] \in {NoBase, Stock[x][c]} /\ FromStart(x, c, cur[x][c])
    BY <2>1 DEF FirstsKept
  <2>3. Stock[x][c] # NoBase
    BY CellFacts DEF SwapConstantsOK, SetupValues
  <2> QED
    BY <1>3, <1>4, <2>1, <2>2, <2>3 DEF FromStart
<1> QED
  BY <1>4 DEF FirstsKept, FromStart

\* With one session at a time, the original of a fixed column is what it was at
\* the start until that column itself is edited: an edit of another column, or
\* an approval, records the value that is there, and it is the first one.
THEOREM OriginalsSurviveEdits == ASSUME OneSession PROVE Spec => []OriginalsKept
<1>1. Init => FirstsKept
  BY SwapConstantsOK, InitOriginalInv DEF OriginalInv, Remembers, FirstsKept
<1>2. SerialInv /\ FirstsKept /\ [Next]_vars => FirstsKept'
  <2> SUFFICES ASSUME SerialInv, FirstsKept, [Next]_vars
               PROVE  FirstsKept'
    OBVIOUS
  <2>1. CASE ValuesKept
    BY <2>1 DEF ValuesKept, FirstsKept, FromStart
  <2> QED
    BY <2>1, WhoWrites, SwapConstantsOK, ApprovalKeepsFirsts, EditKeepsFirsts
<1>3. FirstsKept => OriginalsKept
  BY DEF FirstsKept, OriginalsKept
<1> QED
  BY <1>1, <1>2, <1>3, SerialInvAlways, PTL DEF Spec

=============================================================================
