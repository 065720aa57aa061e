--------------------------- MODULE SwapProperties ---------------------------
(***************************************************************************)
(* What is asked of Swap: of any number of sessions, of one alone, and     *)
(* what the documents say of the code and the code does not keep.          *)
(***************************************************************************)
EXTENDS Swap

\* Every variable keeps its type.
TypeOK ==
    /\ cur \in [Setups -> SetupValues]
    /\ base \in [Setups -> [Columns -> Cell \union {NoBase}]]
    /\ usable \in [Setups -> BOOLEAN]
    /\ swaps \in Seq(SwapRow)
    /\ ledger \in Seq(LedgerEntry)
    /\ proc \in [Sessions -> ProcState]
    /\ edited \subseteq Setups \X Columns
    /\ stale \in BOOLEAN

-----------------------------------------------------------------------------
(* However many sessions run.                                               *)

Arrangements ==
    {p \in [Setups -> Setups] :
        /\ \A y \in Setups : \E x \in Setups : p[x] = y
        /\ \A x, y \in Setups : p[x] = p[y] => x = y}

\* Hardware is neither lost nor doubled: in each fixed column the setups hold
\* what they held at the start, in some order, after any approvals, refused
\* approvals and decisions that cross, unless one wrote what had changed since
\* it was read (approve() reads both setups and updates them without a lock).
LossNeedsRace ==
    ~stale /\ edited = {} =>
        \A c \in Fixed : \E p \in Arrangements :
            \A x \in Setups : cur[x][c] = Stock[p[x]][c]

\* The original is never lost: what is recorded as the original value of a
\* fixed column nobody has edited is the value at the start, also for a setup
\* that had no record and whose first approvals race with each other
\* (ensure_fixed_baseline: "never overwrites an existing one").
OriginalsKept ==
    \A x \in Setups, c \in Fixed :
        <<x, c>> \notin edited => base[x][c] \in {NoBase, Stock[x][c]}

-----------------------------------------------------------------------------
(* One session alone.                                                       *)

FixedPart == [x \in Setups |-> [c \in Fixed |-> cur[x][c]]]

E == INSTANCE Exchange WITH Columns <- Fixed, Cells <- Cell, held <- FixedPart,
        corrected <- {p \in edited : p[2] \in Fixed}

\* The fixed columns change by exchanges between two setups, the halves of one
\* together, and by edits of one setup, and in no other way.
ImplementsExchange == E!Spec

Logs(k, x, c) ==
    LET i == ledger[k].id IN x \in {Current(i), Requested(i)} /\ c \in Names(i)

LastLogged(x, c) ==
    LET k == CHOOSE j \in DOMAIN ledger :
                /\ Logs(j, x, c)
                /\ \A l \in DOMAIN ledger : Logs(l, x, c) => l <= j
    IN IF x = Current(ledger[k].id) THEN ledger[k].right[c] ELSE ledger[k].left[c]

\* "Every changed field has a traceable history back to its baseline"
\* (approve()): a value nobody edited is the last one the ledger gives it, or
\* the one at the start.
LedgerExplains ==
    \A x \in Setups, c \in Columns :
        <<x, c>> \notin edited =>
            cur[x][c] = IF \E k \in DOMAIN ledger : Logs(k, x, c)
                        THEN LastLogged(x, c) ELSE Stock[x][c]

-----------------------------------------------------------------------------
(* Said of the code, and not so.                                            *)

\* swap_service.py:12: a swap changes hardware values "once approved": no
\* value changes without an edit or the completion of a request.
ChangedOnceApproved ==
    [][\/ cur' = cur
       \/ edited' # edited
       \/ \E i \in Ids : Status(i) = "PENDING" /\ swaps'[i].status = "COMPLETED"]_vars
=============================================================================
