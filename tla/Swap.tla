-------------------------------- MODULE Swap --------------------------------
(***************************************************************************)
(* Swaps of hardware values between two setups, the edit form that writes  *)
(* the same values, and the baselines that remember the original ones:     *)
(* SwapService, HardwareStateService, TemplateService.set_setup_values and *)
(* setup_edit_save, run by several request sessions over one database.     *)
(*                                                                         *)
(* Sessions work as in module Reservations: one action for each read that  *)
(* what follows rests on, and one from the first flush to the commit.      *)
(***************************************************************************)
EXTENDS Naturals, Sequences

CONSTANTS
    Setups,
    Fixed,         \* SWAPPABLE_SETUP_FIELDS, the columns of every setup
    Custom,        \* names of template columns
    Template,      \* Template[x]: the custom columns of the product of x
    Values,        \* what a column may hold
    Null,          \* None, or no row in setup_custom_field_values
    NoBase,        \* no row in the table of originals
    Stock,         \* the values at the start
    Legacy,        \* setups older than the tables of originals
    Users,
    Holds,         \* Holds[u]: the setups of which u may request a swap
    Deciders,      \* Deciders[x]: who may decide a swap whose current setup is x
    Sessions,
    ColumnLists,   \* bound: the columns requested together
    Serviced,      \* bound: setups that go to MAINTENANCE and come back
    EditValues,    \* bound: what an administrator types into a field
    MaxRequests    \* bound: swap requests ever made

Columns == Fixed \union Custom
Cell == Values \union {Null}
SetupValues == [Columns -> Cell]

TemplateColumn == [required : BOOLEAN, default : Cell, allowed : SUBSET Values]

ASSUME SwapConstantsOK ==
    /\ Fixed \intersect Custom = {}
    /\ \A x \in Setups : /\ DOMAIN Template[x] \subseteq Custom
                         /\ \A c \in DOMAIN Template[x] :
                                Template[x][c] \in TemplateColumn
    /\ Null \notin Values /\ NoBase \notin Cell
    /\ Stock \in [Setups -> SetupValues]
    /\ Legacy \subseteq Setups
    /\ Holds \in [Users -> SUBSET Setups]
    /\ Deciders \in [Setups -> SUBSET Users]
    /\ ColumnLists \subseteq Seq(Columns)
    /\ Serviced \subseteq Setups
    /\ EditValues \subseteq Cell
    /\ MaxRequests \in Nat

VARIABLES
    cur,       \* cur[x][c]: the current value of column c of setup x
    base,      \* base[x][c]: its original value
    usable,    \* usable[x]: x is neither in MAINTENANCE nor RETIRED
    swaps,     \* the swap_requests table: row i has id i
    ledger,    \* hardware_change_log: an entry is the rows of one approval
    proc,      \* what each session has read and is about to write
    edited,    \* history: the cells an edit has changed
    stale      \* history: an approval has written what it had read too early

vars == <<cur, base, usable, swaps, ledger, proc, edited, stale>>

SwapStatus == {"PENDING", "COMPLETED", "REJECTED", "CANCELLED"}

SwapRow == [current : Setups, requested : Setups, columns : ColumnLists,
            requester : Users, status : SwapStatus]

\* left and right are the values of the two setups before the exchange.
LedgerEntry == [id : Nat, left : SetupValues, right : SetupValues]

Idle == [pc |-> "idle"]

ProcState ==
    {Idle}
    \union [pc : {"current", "reject", "cancel"}, id : Nat]
    \union [pc : {"requested"}, id : Nat, left : SetupValues]
    \union [pc : {"values", "exchange"}, id : Nat,
            left : SetupValues, right : SetupValues]
    \union [pc : {"form"}, setup : Setups, form : SetupValues]
    \union [pc : {"save"}, setup : Setups, form : SetupValues,
            before : SetupValues]

Ids == DOMAIN swaps
Status(i) == swaps[i].status
Current(i) == swaps[i].current
Requested(i) == swaps[i].requested
Names(i) == {swaps[i].columns[k] : k \in DOMAIN swaps[i].columns}

-----------------------------------------------------------------------------
(* TemplateService.set_setup_values and the exchange of a list of columns.  *)

Default(x, d) == IF d \in DOMAIN Template[x] THEN Template[x][d].default ELSE Null

\* validate_and_serialize_values raises for {c: v}: all the columns of the
\* template are validated, the ones that are not being written too.
Refuses(x, c, v) ==
    \/ v # Null /\ v \notin Template[x][c].allowed
    \/ \E d \in DOMAIN Template[x] :
        /\ Template[x][d].required /\ Template[x][d].default = Null
        /\ d # c \/ v = Null

\* No column after d among the first n is written through the template.
IsLast(d, cols, n) ==
    \E k \in 1..n : cols[k] = d /\ \A j \in (k + 1)..n : cols[j] \in Fixed

Written(cols, n) == {cols[k] : k \in 1..n}

\* Setup x, holding row, after the first n of cols were assigned from new.
\* A template write serializes the defaults of all other columns with it, so
\* of several the last undoes the others; None is no value to it.
Assigned(x, row, new, cols, n) ==
    [d \in Columns |->
        IF d \in Fixed
        THEN IF d \in Written(cols, n) THEN new[d] ELSE row[d]
        ELSE IF /\ d \in Written(cols, n)
                /\ new[d] # Null
                /\ IsLast(d, cols, n) \/ Default(x, d) = Null
             THEN new[d]
             ELSE IF Written(cols, n) \intersect Custom # {} /\ Default(x, d) # Null
                  THEN Default(x, d)
                  ELSE row[d]]

\* The row in the table afterwards: no UPDATE names a column that was
\* assigned the value it was loaded with.
Flushed(x, own, new, cols, n) ==
    LET after == Assigned(x, cur[x], new, cols, n) IN
    [d \in Columns |-> IF after[d] = own[d] THEN cur[x][d] ELSE after[d]]

\* A template write for another column came first and inserted d's default.
InsertedFirst(x, d, cols, n) ==
    /\ cur[x][d] = Null /\ Default(x, d) # Null
    /\ \E k \in 1..n : /\ cols[k] \in Custom \ {d}
                       /\ \A j \in 1..k : cols[j] # d

\* Near miss: an existing original is overwritten by each exchange.
CapturedAnew(x, own, cols, n, m) ==
    [d \in Columns |-> IF d \in Fixed /\ d \in Written(cols, m) THEN own[d] ELSE base[x][d]]

\* ensure_fixed_baseline for the whole setup, ensure_custom_baseline for the
\* first m columns, and the hook that captures a value at its first insert.
Captured(x, own, cols, n, m) ==
    [d \in Columns |->
        IF base[x][d] # NoBase THEN base[x][d]
        ELSE IF d \in Fixed
             THEN IF \E k \in DOMAIN cols : cols[k] \in Fixed THEN own[d] ELSE NoBase
        ELSE IF InsertedFirst(x, d, cols, n) THEN Default(x, d)
        ELSE IF d \in Written(cols, m) THEN own[d] ELSE NoBase]

-----------------------------------------------------------------------------

Init ==
    /\ cur = Stock
    /\ base = [x \in Setups |-> [d \in Columns |->
                  IF x \in Legacy \/ (d \in Custom /\ Stock[x][d] = Null)
                  THEN NoBase ELSE Stock[x][d]]]
    /\ usable \in [Setups -> {TRUE}]
    /\ swaps = <<>>
    /\ ledger = <<>>
    /\ proc = [s \in Sessions |-> Idle]
    /\ edited = {}
    /\ stale = FALSE

Goes(s, next) == proc' = [proc EXCEPT ![s] = next]
Ends(s) == Goes(s, Idle)
data == <<cur, base, ledger, edited, stale>>

\* SetupService.update: a status that allows swaps, or one that does not.
SetUsable(x) ==
    /\ usable' = [usable EXCEPT ![x] = ~@]
    /\ UNCHANGED <<swaps, proc, data>>

\* What create tests is tested again at the approval, so the insert goes with
\* the tests.
Create(s) ==
    /\ proc[s] = Idle
    /\ Len(swaps) < MaxRequests
    /\ \E a, b \in Setups, u \in Users, cols \in ColumnLists :
        /\ a # b
        /\ usable[a] /\ usable[b]
        /\ {a, b} \subseteq Holds[u]
        /\ \A k \in DOMAIN cols :
            cols[k] \in Fixed \union (DOMAIN Template[a] \intersect DOMAIN Template[b])
        /\ swaps' = Append(swaps, [current |-> a, requested |-> b, columns |-> cols,
                                   requester |-> u, status |-> "PENDING"])
    /\ UNCHANGED <<usable, proc, data>>

-----------------------------------------------------------------------------
(* SwapService.approve                                                      *)

ApproveRead(s) ==
    /\ proc[s] = Idle
    /\ \E i \in Ids : Status(i) = "PENDING" /\ Goes(s, [pc |-> "current", id |-> i])
    /\ UNCHANGED <<usable, swaps, data>>

ReadCurrent(s) ==
    LET i == proc[s].id IN
    /\ proc[s].pc = "current"
    /\ IF usable[Current(i)]
       THEN Goes(s, [pc |-> "requested", id |-> i, left |-> cur[Current(i)]])
       ELSE Ends(s)
    /\ UNCHANGED <<usable, swaps, data>>

\* The last setup, then _assert_can_approve.
ReadRequested(s) ==
    LET i == proc[s].id IN
    /\ proc[s].pc = "requested"
    /\ IF usable[Requested(i)] /\ Deciders[Current(i)] # {}
       THEN Goes(s, [pc |-> IF Names(i) \subseteq Fixed THEN "exchange" ELSE "values",
                     id |-> i, left |-> proc[s].left, right |-> cur[Requested(i)]])
       ELSE Ends(s)
    /\ UNCHANGED <<usable, swaps, data>>

\* get_values_map_for_setup: the custom values are read after the setups.
ReadValues(s) ==
    LET i == proc[s].id
        Fresh(x, row) == [d \in Columns |-> IF d \in Custom THEN cur[x][d] ELSE row[d]]
    IN
    /\ proc[s].pc = "values"
    /\ Goes(s, [pc |-> "exchange", id |-> i,
                left |-> Fresh(Current(i), proc[s].left),
                right |-> Fresh(Requested(i), proc[s].right)])
    /\ UNCHANGED <<usable, swaps, data>>

LeftRefuses(s, k) ==
    LET i == proc[s].id  c == swaps[i].columns[k] IN
    c \in Custom /\ Refuses(Current(i), c, proc[s].right[c])

RightRefuses(s, k) ==
    LET i == proc[s].id  c == swaps[i].columns[k] IN
    c \in Custom /\ Refuses(Requested(i), c, proc[s].left[c])

\* What was read of an exchanged column is no longer so.
Outdated(s) ==
    LET i == proc[s].id IN
    \E c \in Names(i) : \/ proc[s].left[c] # cur[Current(i)][c]
                        \/ proc[s].right[c] # cur[Requested(i)][c]

\* Near miss: the requested setup takes the value that has just replaced the
\* one it should take.
ExchangeInOrder(s, n, m, r) ==
    LET i == proc[s].id  a == Current(i)  b == Requested(i)
        left == proc[s].left  right == proc[s].right  cols == swaps[i].columns IN
    /\ cur' = [cur EXCEPT ![a] = Flushed(a, left, right, cols, n),
                          ![b] = Flushed(b, right, right, cols, m)]
    /\ UNCHANGED <<base, stale>>

\* Near miss: only the current setup is written.
ExchangeOneSided(s, n, m, r) ==
    LET i == proc[s].id  a == Current(i) IN
    /\ cur' = [cur EXCEPT ![a] = Flushed(a, proc[s].left, proc[s].right,
                                         swaps[i].columns, n)]
    /\ UNCHANGED <<base, stale>>

\* The first n columns written to the current setup and the first m to the
\* requested one, the originals of the first r captured.
Exchange(s, n, m, r) ==
    LET i == proc[s].id
        a == Current(i)
        b == Requested(i)
        left == proc[s].left
        right == proc[s].right
        cols == swaps[i].columns IN
    /\ cur' = [cur EXCEPT ![a] = Flushed(a, left, right, cols, n),
                          ![b] = Flushed(b, right, left, cols, m)]
    /\ base' = [base EXCEPT ![a] = Captured(a, left, cols, n, r),
                            ![b] = Captured(b, right, cols, m, r)]
    /\ stale' = (stale \/ Outdated(s))

ApproveCommit(s) ==
    LET i == proc[s].id
        all == Len(swaps[i].columns) IN
    /\ proc[s].pc = "exchange"
    /\ \A k \in 1..all : ~LeftRefuses(s, k) /\ ~RightRefuses(s, k)
    /\ Exchange(s, all, all, all)
    /\ swaps' = [swaps EXCEPT ![i].status = "COMPLETED"]
    /\ ledger' = Append(ledger, [id |-> i, left |-> proc[s].left,
                                 right |-> proc[s].right])
    /\ Ends(s)
    /\ UNCHANGED <<usable, edited>>

\* A template refuses column k, the page catches the error and the session
\* commits what came before it.  (The API does not: Abort.)
ApproveRefused(s) ==
    LET i == proc[s].id IN
    /\ proc[s].pc = "exchange"
    /\ \E k \in DOMAIN swaps[i].columns :
        /\ LeftRefuses(s, k) \/ RightRefuses(s, k)
        /\ \A j \in 1..(k - 1) : ~LeftRefuses(s, j) /\ ~RightRefuses(s, j)
        /\ Exchange(s, IF LeftRefuses(s, k) THEN k - 1 ELSE k, k - 1, k)
    /\ Ends(s)
    /\ UNCHANGED <<usable, swaps, ledger, edited>>

-----------------------------------------------------------------------------
(* SwapService.reject and cancel                                            *)

RejectRead(s) ==
    /\ proc[s] = Idle
    /\ \E i \in Ids : /\ Status(i) = "PENDING"
                      /\ Deciders[Current(i)] # {}
                      /\ Goes(s, [pc |-> "reject", id |-> i])
    /\ UNCHANGED <<usable, swaps, data>>

\* Near miss: a status no other method knows.
RejectDeclines(s) ==
    /\ proc[s].pc = "reject"
    /\ swaps' = [swaps EXCEPT ![proc[s].id].status = "DECLINED"]
    /\ Ends(s)
    /\ UNCHANGED <<usable, data>>

RejectCommit(s) ==
    /\ proc[s].pc = "reject"
    /\ swaps' = [swaps EXCEPT ![proc[s].id].status = "REJECTED"]
    /\ Ends(s)
    /\ UNCHANGED <<usable, data>>

\* By its requester.
CancelRead(s) ==
    /\ proc[s] = Idle
    /\ \E i \in Ids : Status(i) = "PENDING" /\ Goes(s, [pc |-> "cancel", id |-> i])
    /\ UNCHANGED <<usable, swaps, data>>

CancelCommit(s) ==
    /\ proc[s].pc = "cancel"
    /\ swaps' = [swaps EXCEPT ![proc[s].id].status = "CANCELLED"]
    /\ Ends(s)
    /\ UNCHANGED <<usable, data>>

-----------------------------------------------------------------------------
(* The edit form: setup_edit_form, setup_edit_save                          *)

\* The page is rendered with all values, and one field is changed in it: the
\* columns here are text inputs, which show what they hold.
EditOpen(s) ==
    /\ proc[s] = Idle
    /\ \E x \in Setups, v \in EditValues :
        \E c \in Fixed \union DOMAIN Template[x] :
            Goes(s, [pc |-> "form", setup |-> x, form |-> [cur[x] EXCEPT ![c] = v]])
    /\ UNCHANGED <<usable, swaps, data>>

\* The whole form comes back; the values before are read.
EditRead(s) ==
    /\ proc[s].pc = "form"
    /\ Goes(s, [pc |-> "save", setup |-> proc[s].setup, form |-> proc[s].form,
                before |-> cur[proc[s].setup]])
    /\ UNCHANGED <<usable, swaps, data>>

FormRefused(x, form) ==
    \E d \in DOMAIN Template[x] :
        IF form[d] = Null
        THEN Template[x][d].required /\ Template[x][d].default = Null
        ELSE form[d] \notin Template[x][d].allowed

\* SetupService.update, and set_setup_values if the template takes the form.
Saved(s, takes) ==
    LET x == proc[s].setup
        form == proc[s].form
        Entered(d) == IF d \in Fixed \/ form[d] # Null THEN form[d] ELSE Default(x, d)
    IN
    [d \in Columns |->
        IF \/ Entered(d) = proc[s].before[d]
           \/ d \in Custom /\ (~takes \/ d \notin DOMAIN Template[x] \/ Entered(d) = Null)
        THEN cur[x][d] ELSE Entered(d)]

Edits(s, row) ==
    LET x == proc[s].setup IN
    /\ cur' = [cur EXCEPT ![x] = row]
    /\ edited' = edited \union {<<x, d>> : d \in {c \in Columns : row[c] # cur[x][c]}}

\* rebaseline_edited_fields: what differs from before becomes the original.
EditCommit(s) ==
    LET x == proc[s].setup
        row == Saved(s, TRUE)
        Differs(d) == row[d] # proc[s].before[d] IN
    /\ proc[s].pc = "save"
    /\ ~FormRefused(x, proc[s].form)
    /\ Edits(s, row)
    /\ base' = [base EXCEPT ![x] = [d \in Columns |->
                   IF \/ Differs(d)
                      \/ d \in Fixed /\ base[x][d] = NoBase /\ \E c \in Fixed : Differs(c)
                   THEN row[d] ELSE base[x][d]]]
    /\ Ends(s)
    /\ UNCHANGED <<usable, swaps, ledger, stale>>

\* The template refuses a value: the page commits the fixed columns only.
EditRefused(s) ==
    /\ proc[s].pc = "save"
    /\ FormRefused(proc[s].setup, proc[s].form)
    /\ Edits(s, Saved(s, FALSE))
    /\ Ends(s)
    /\ UNCHANGED <<base, usable, swaps, ledger, stale>>

\* An exception, a locked database, a lost worker: all is rolled back.
Abort(s) ==
    /\ proc[s] # Idle
    /\ Ends(s)
    /\ UNCHANGED <<usable, swaps, data>>

-----------------------------------------------------------------------------

Serve(s) ==
    \/ Create(s)
    \/ ApproveRead(s) \/ ReadCurrent(s) \/ ReadRequested(s) \/ ReadValues(s)
    \/ ApproveCommit(s) \/ ApproveRefused(s)
    \/ RejectRead(s) \/ RejectCommit(s) \/ CancelRead(s) \/ CancelCommit(s)
    \/ EditOpen(s) \/ EditRead(s) \/ EditCommit(s) \/ EditRefused(s)
    \/ Abort(s)

Next == (\E x \in Serviced : SetUsable(x)) \/ (\E s \in Sessions : Serve(s))

Spec == Init /\ [][Next]_vars
=============================================================================
