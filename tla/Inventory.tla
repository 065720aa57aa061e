------------------------------ MODULE Inventory ------------------------------
(***************************************************************************)
(* The inventory: products, the columns of their templates, setups with    *)
(* their custom values, and the ways they change: the JSON API, the edit   *)
(* form, and workbooks that ImportService imports row by row.              *)
(*                                                                         *)
(* A request stages what it flushes and the others see it at the commit.   *)
(* The web layer catches an AppError and lets get_db commit what was       *)
(* flushed until then; the API lets it pass, and get_db rolls back.        *)
(***************************************************************************)
EXTENDS Naturals, Sequences, FiniteSetsExt

CONSTANTS
    Products,    \* product ids, and their names
    Ids,         \* ids a row of setups may have
    ColumnIds,   \* ids a row of product_template_columns may have
    Ips, Hosts,
    Owners,      \* what the other columns of a setup hold, group and owner too
    Headers,     \* headers of a workbook that are no column of setups
    Mandatory,   \* those with the name of a mandatory column
    Norm,        \* Norm[h]: stripped, in lower case, with underscores
    Values,      \* what a custom column may hold; texts stored alike are one value
    Checked,     \* the value "True"
    Null,        \* NULL, no row of setup_custom_field_values, a blank field of a form
    Unborn,      \* an id that no row has had yet
    Gone,        \* the id of a deleted row
    Kept,        \* a field that a request does not write
    Sessions,
    Books,       \* bound: the workbooks uploaded
    FirstProducts, FirstSetups, FirstColumns, \* the tables at the start
    Rows,        \* bound: the setups an administrator enters
    Entries,     \* bound: the custom values an administrator enters
    NewColumns,  \* bound: the columns an administrator adds
    Revisions,   \* bound: what an administrator makes of a column
    MaxEdits,    \* bound: commits
    MaxUploads   \* bound: uploads held for a confirmation

Fixed == {"product", "ip", "host", "owner"}
Fields == Fixed \union ColumnIds

\* Custom values are rows of setup_custom_field_values; Null: there is none.
SetupRow ==
    {r \in [Fields -> Products \union Ips \union Hosts \union Owners \union Values
                      \union {Null}] :
        /\ r["product"] \in Products
        /\ r["ip"] \in Ips
        /\ r["host"] \in Hosts
        /\ r["owner"] \in Owners \union {Null}
        /\ \A c \in ColumnIds : r[c] \in Values \union {Null}}

\* kind: the data type, TEXT for all that have a text, number or date input; takes:
\* the values it validates; shows: those its input can show.  A dropdown offers
\* the characters of the JSON text of its allowed values.
ColumnRow == [product : Products, name : Headers, order : Nat,
              kind : {"TEXT", "BOOLEAN", "DROPDOWN"}, required : BOOLEAN,
              default : Values \union {Null}, takes : SUBSET Values, shows : SUBSET Values]

\* The values that the input of a column shows, a checkbox by being checked.
Shows(col) == IF col.kind = "BOOLEAN" THEN {Checked} ELSE col.shows

\* validate_and_serialize_values asks for a value.
Needs(col) == col.required /\ col.default = Null

\* A row of a workbook; good: the group and the owner are known and the fields
\* pass SetupCreateRequest; custom has the cells that are not blank.
BookRow == [product : Products, ip : Ips, host : Hosts, owner : Owners \union {Null},
            good : BOOLEAN, custom : UNION {[H -> Values] : H \in SUBSET Headers}]

NoRow == {Unborn, Gone}

ASSUME InventoryConstantsOK ==
    /\ Fixed \intersect ColumnIds = {}
    /\ IsFiniteSet(ColumnIds)
    /\ Mandatory \subseteq Headers
    /\ Norm \in [Headers -> Headers]
    /\ \A h \in Headers : Norm[Norm[h]] = Norm[h]
    /\ Checked \in Values
    /\ Entries \subseteq Values
    /\ Rows \subseteq [product : Products, ip : Ips, host : Hosts,
                       owner : Owners \union {Null}]
    /\ NewColumns \subseteq ColumnRow
    /\ Revisions \subseteq [required : BOOLEAN, default : Values \union {Null},
                            takes : SUBSET Values, shows : SUBSET Values]
    /\ MaxEdits \in Nat
    /\ MaxUploads \in Nat

\* What stands for nothing is not something.
ASSUME NothingIsNothing ==
    /\ Null \notin Values \union Products \union Ips \union Hosts \union Owners
                      \union Books \union SetupRow
    /\ Kept \notin Products \union Ips \union Hosts \union Owners \union Values
                     \union {Null}
    /\ NoRow \intersect (SetupRow \union ColumnRow) = {}
    /\ Unborn # Gone

\* The cells of a workbook are under its headers.
ASSUME BooksOK ==
    \A b \in Books :
        /\ b.headers \subseteq Headers
        /\ b.rows \in Seq(BookRow)
        /\ \A k \in DOMAIN b.rows : DOMAIN b.rows[k].custom \subseteq b.headers

\* The tables at the start keep their keys, and the columns have places.
ASSUME FirstTablesOK ==
    /\ FirstProducts \subseteq Products
    /\ DOMAIN FirstSetups \subseteq Ids
    /\ \A i \in DOMAIN FirstSetups :
        /\ FirstSetups[i] \in SetupRow
        /\ FirstSetups[i]["product"] \in FirstProducts
        /\ \A c \in ColumnIds : FirstSetups[i][c] # Null => c \in DOMAIN FirstColumns
        /\ \A j \in DOMAIN FirstSetups :
            \/ FirstSetups[i]["ip"] = FirstSetups[j]["ip"]
            \/ FirstSetups[i]["host"] = FirstSetups[j]["host"]
            => i = j
    /\ DOMAIN FirstColumns \subseteq ColumnIds
    /\ \A c \in DOMAIN FirstColumns :
        /\ FirstColumns[c] \in ColumnRow
        /\ FirstColumns[c].product \in FirstProducts
        /\ \A d \in DOMAIN FirstColumns :
            /\ FirstColumns[c].product = FirstColumns[d].product
            /\ \/ FirstColumns[c].name = FirstColumns[d].name
               \/ FirstColumns[c].order = FirstColumns[d].order
            => c = d

VARIABLES
    products,  \* the products table
    columns,   \* the product_template_columns table
    setups,    \* the setups table, with the custom values
    pending,   \* _PENDING_PRODUCT_IMPORTS, in the memory of the process
    uploads,   \* how many uploads have been held
    proc,      \* what each session has read and flushed
    edits,     \* history: how many transactions have written
    crossed    \* history: two requests for one template were served at once

tables == <<products, columns, setups>>
history == <<edits, crossed>>
vars == <<tables, pending, uploads, proc, history>>

Idle == [pc |-> "idle"]

\* A request that begins; it has flushed nothing: no setups inserted, fields
\* written, columns inserted or order_index changed.  designs: it changes a
\* template; token: the upload it confirms; at: the commits there had been.  A
\* form renders row, setup id with the columns asked; listed: its owner is among
\* the options; edit: the field edited and what was entered.  An import is at row
\* k of book and adds the headers fresh.
Begin(pc, p) ==
    [pc |-> pc, product |-> p, designs |-> FALSE, token |-> 0, at |-> edits,
     new |-> {}, put |-> [i \in Ids |-> [f \in Fields |-> Kept]],
     cols |-> <<>>, orders |-> <<>>,
     id |-> Null, row |-> Null, asked |-> <<>>, listed |-> TRUE, edit |-> Null,
     book |-> Null, web |-> FALSE, fresh |-> {}, k |-> 1]

-----------------------------------------------------------------------------
(* What a session sees                                                      *)

Template(w) ==
    [c \in ColumnIds |->
        IF c \in DOMAIN w.cols THEN w.cols[c]
        ELSE IF c \in DOMAIN w.orders /\ columns[c] \notin NoRow
             THEN [columns[c] EXCEPT !.order = w.orders[c]]
             ELSE columns[c]]

View(w) ==
    [i \in Ids |->
        IF setups[i] \in NoRow /\ i \notin w.new THEN setups[i]
        ELSE [f \in Fields |-> IF w.put[i][f] = Kept THEN setups[i][f]
                               ELSE w.put[i][f]]]

LiveIn(T) == {i \in DOMAIN T : T[i] \notin NoRow}

Busy == {s \in Sessions : proc[s].pc # "idle"}

\* Ids that nobody has, nor is about to insert.
FreeIds == {i \in Ids : setups[i] = Unborn /\ \A t \in Busy : i \notin proc[t].new}

FreeColumns ==
    {c \in ColumnIds : columns[c] = Unborn
                       /\ \A t \in Busy : c \notin DOMAIN proc[t].cols}

\* The ORM writes the fields whose value differs from the one loaded.
Write(w, i, new) ==
    LET row == View(w)[i] IN
    [w EXCEPT !.put[i] = [f \in Fields |->
        IF f \in DOMAIN new /\ new[f] # row[f] THEN new[f] ELSE @[f]]]

Insert(w, i, new) ==
    [w EXCEPT !.new = @ \union {i},
              !.put[i] = [f \in Fields |-> IF f \in Fixed THEN new[f] ELSE Null]]

-----------------------------------------------------------------------------
(* Near misses, used by the mutants of the project and by no action.        *)

\* The number of columns as the next order.
CountAsOrder(T, O) == Cardinality(O)

\* The custom cells are not validated before the rows are written.
NotGood(T, p, b) == \E k \in DOMAIN b.rows : ~b.rows[k].good

\* The token is looked up and stays; a required column may stay blank.
StillThere(u) == pending
NeverLacking(T, p, given) == FALSE

\* Addresses are not unique.
OnlyIps(T) == \A i, j \in LiveIn(T) : i # j => T[i]["ip"] # T[j]["ip"]

-----------------------------------------------------------------------------
(* TemplateService and the repositories                                     *)

\* get_by_ip_or_hostname: any of them, if there are two.
Matching(T, ip, host) ==
    {i \in LiveIn(T) : T[i]["ip"] = ip \/ T[i]["host"] = host}

Unique(T) ==
    \A i, j \in LiveIn(T) :
        i # j => T[i]["ip"] # T[j]["ip"] /\ T[i]["host"] # T[j]["host"]

ColumnsOf(T, p) == {c \in LiveIn(T) : T[c].product = p}

Named(T, p, n) == {c \in ColumnsOf(T, p) : T[c].name = n}

\* The next order_index when O are those in use.
NextOrder(T, O) == IF O = {} THEN 0 ELSE Max(O) + 1

Orders(T, p) == {T[c].order : c \in ColumnsOf(T, p)}

Lacking(T, p, given) ==
    \E c \in ColumnsOf(T, p) : Needs(T[c]) /\ T[c].name \notin DOMAIN given

\* validate_and_serialize_values raises: something lacks, is not a column or not
\* a value that its column takes.
Invalid(T, p, given) ==
    \/ Lacking(T, p, given)
    \/ \E n \in DOMAIN given :
        ~ \E c \in Named(T, p, n) : given[n] \in T[c].takes

\* What it returns, by column id.
Serialized(T, p, given) ==
    [c \in {d \in ColumnsOf(T, p) : \/ T[d].name \in DOMAIN given
                                    \/ T[d].default # Null} |->
        IF T[c].name \in DOMAIN given THEN given[T[c].name] ELSE T[c].default]

SetSetupValues(w, i, p, given) == Write(w, i, Serialized(Template(w), p, given))

\* Columns that nobody has, for each of cols, and their turns.
Spare(cols) == Injection(cols, FreeColumns)
Turns(cols) == Bijection(cols, 1..Cardinality(cols))

\* add_column, of one after the other: each has the place after the last one.
AddColumns(w, p, cols) ==
    LET id == CHOOSE f \in Spare(cols) : TRUE
        turn == CHOOSE f \in Turns(cols) : TRUE
        last == NextOrder(columns, Orders(columns, p)) - 1
    IN [w EXCEPT !.cols = [c \in {id[col] : col \in cols} |->
            LET col == CHOOSE x \in cols : id[x] = c
            IN [col EXCEPT !.order = last + turn[col]]]]

StringColumn(p, n) == [product |-> p, name |-> n, order |-> 0, kind |-> "TEXT",
                       required |-> FALSE, default |-> Null, takes |-> Values,
                       shows |-> Values]

-----------------------------------------------------------------------------

Init ==
    /\ products = FirstProducts
    /\ columns = [c \in ColumnIds |-> IF c \in DOMAIN FirstColumns
                                      THEN FirstColumns[c] ELSE Unborn]
    /\ setups = [i \in Ids |-> IF i \in DOMAIN FirstSetups THEN FirstSetups[i]
                               ELSE Unborn]
    /\ pending = {}
    /\ uploads = 0
    /\ proc = [s \in Sessions |-> Idle]
    /\ edits = 0
    /\ crossed = FALSE

Goes(s, next) == proc' = [proc EXCEPT ![s] = next]

Begins(s, w) ==
    /\ proc[s] = Idle
    /\ edits + Cardinality(Busy) < MaxEdits
    /\ Goes(s, w)
    /\ crossed' = (crossed \/ (w.designs /\ \E t \in Busy : proc[t].designs))
    /\ UNCHANGED <<tables, uploads, edits>>

Continues(s, w) ==
    /\ Goes(s, w)
    /\ UNCHANGED <<tables, pending, uploads, history>>

-----------------------------------------------------------------------------
(* Setups: JSON API                                                         *)

\* SetupService.create
CreateRead(s) ==
    /\ FreeIds # {}
    /\ \E r \in Rows :
        /\ Matching(setups, r.ip, r.host) = {}
        /\ Begins(s, Insert(Begin("write", r.product), CHOOSE i \in FreeIds : TRUE, r))
    /\ UNCHANGED pending

\* SetupService.update, of one field; what is found first may be the setup itself.
Accepts(i, row) ==
    LET found == Matching(setups, row["ip"], row["host"]) IN found = {} \/ i \in found

UpdateRead(s) ==
    /\ \E i \in LiveIn(setups), r \in Rows, f \in Fixed :
        /\ r[f] # setups[i][f]
        /\ Accepts(i, [setups[i] EXCEPT ![f] = r[f]])
        /\ Begins(s, Write(Begin("write", setups[i]["product"]), i,
                           [g \in {f} |-> r[g]]))
    /\ UNCHANGED pending

\* set_setup_custom_fields
ValuesRead(s) ==
    /\ \E i \in LiveIn(setups), n \in Headers, v \in Entries :
        LET p == setups[i]["product"]
            w == Begin("write", p)
            given == [h \in {n} |-> v] IN
        /\ ~Invalid(columns, p, given)
        /\ Begins(s, SetSetupValues(w, i, p, given))
    /\ UNCHANGED pending

-----------------------------------------------------------------------------
(* Setups: the edit form                                                    *)

\* setup_edit_form renders a setup; the owner may be none of the options, which
\* are the approved users and the first groups.
FormOpen(s) ==
    /\ \E i \in LiveIn(setups), listed \in BOOLEAN :
        LET p == setups[i]["product"] IN
        Begins(s, [Begin("form", p) EXCEPT
            !.id = i, !.row = setups[i], !.listed = listed,
            !.asked = [c \in ColumnsOf(columns, p) |-> columns[c]]])
    /\ UNCHANGED pending

\* The input of field f shows what the setup holds; the others are blank.
Shown(w, f) ==
    /\ f = "owner" => w.listed
    /\ f \in ColumnIds => f \in DOMAIN w.asked /\ w.row[f] \in Shows(w.asked[f])

\* What the input of field f has when the form is sent.
Input(w, f) ==
    IF f = w.edit.field THEN w.edit.entry
    ELSE IF Shown(w, f) THEN w.row[f] ELSE Null

\* A near miss: setup_edit_save does not read the owner.
NoOwner(w) ==
    [f \in {"ip", "host", "owner"} |-> IF f = "owner" THEN Null ELSE Input(w, f)]

\* The fixed fields that are in the form.
FormKeys == {"ip", "host", "owner"}
FormFields(w) == [f \in FormKeys |-> Input(w, f)]

\* The administrator changes one field, within what its input offers.
Edits(w) ==
    {[field |-> f, entry |-> r[f]] : f \in FormKeys, r \in Rows}
    \union {[field |-> f, entry |-> Null] : f \in {"owner"} \union DOMAIN w.asked}
    \union UNION {{[field |-> c, entry |-> v] : v \in Entries \intersect Shows(w.asked[c])} :
                     c \in DOMAIN w.asked}

\* The browser sends no form without a required field.
Sendable(w) ==
    \A c \in DOMAIN w.asked :
        w.asked[c].required /\ w.asked[c].kind # "BOOLEAN" => Input(w, c) # Null

\* The columns that are sent, all but the checkboxes that are not checked.
Sent(w) == {c \in DOMAIN w.asked : w.asked[c].kind = "BOOLEAN" => Input(w, c) # Null}

\* The columns of a template that the form has, by their names.
Received(w, p) ==
    {d \in ColumnsOf(columns, p) : \E c \in Sent(w) : w.asked[c].name = columns[d].name}

\* raw_values; a checkbox that is sent is checked.
Raw(w, d) ==
    IF columns[d].kind = "BOOLEAN" THEN Checked
    ELSE Input(w, CHOOSE c \in Sent(w) : w.asked[c].name = columns[d].name)

\* Those that are not blank, by the names of their columns.
Given(w, p) ==
    LET filled == {d \in Received(w, p) : Raw(w, d) # Null} IN
    [n \in {columns[d].name : d \in filled} |->
        Raw(w, CHOOSE d \in filled : columns[d].name = n)]

\* setup_edit_save: the fixed fields are written; then the custom fields, unless
\* none is received, one is refused, or the status (of module Reservations) has
\* been: the fixed fields stay written.
FormSave(s) ==
    /\ proc[s].pc = "form"
    /\ setups[proc[s].id] \notin NoRow
    /\ \E e \in Edits(proc[s]), refused \in BOOLEAN :
        LET w == [proc[s] EXCEPT !.pc = "write", !.edit = e]
            p == setups[w.id]["product"]
            fixed == Write(w, w.id, FormFields(w))
        IN /\ Sendable(w)
           /\ Accepts(w.id, FormFields(w))
           /\ Continues(s, IF \/ refused \/ Received(w, p) = {}
                              \/ Invalid(columns, p, Given(w, p))
                           THEN fixed
                           ELSE SetSetupValues(fixed, w.id, p, Given(w, p)))

-----------------------------------------------------------------------------
(* Templates                                                                *)

\* add_column, with the name normalised.
ColumnAdd(s) ==
    /\ \E new \in NewColumns :
        LET col == [new EXCEPT !.name = Norm[new.name]] IN
        /\ Spare({col}) # {}
        /\ col.product \in products
        /\ col.name \notin Mandatory
        /\ Named(columns, col.product, col.name) = {}
        /\ Begins(s, AddColumns([Begin("write", col.product) EXCEPT !.designs = TRUE],
                                col.product, {col}))
    /\ UNCHANGED pending

\* reorder_columns; template_column_move asks for one exchange.
ColumnsReorder(s) ==
    /\ \E p \in products :
        LET C == ColumnsOf(columns, p)
            Places == {o \in [C -> 0..(Cardinality(C) - 1)] :
                          \A c, d \in C : c # d => o[c] # o[d]}
        IN \E o \in Places :
            Begins(s, [Begin("write", p) EXCEPT !.designs = TRUE,
                !.orders = [c \in {d \in C : columns[d].order # o[d]} |-> o[c]]])
    /\ UNCHANGED pending

\* One statement or, with its checks, one transaction.
AtOnce ==
    /\ edits + Cardinality(Busy) < MaxEdits
    /\ edits' = edits + 1
    /\ UNCHANGED <<pending, uploads, proc, crossed>>

\* A default of None changes nothing; only a dropdown has allowed values.
Revised(col, v) ==
    [col EXCEPT
        !.required = v.required,
        !.default = IF v.default = Null THEN @ ELSE v.default,
        !.takes = IF col.kind = "DROPDOWN" THEN v.takes ELSE @,
        !.shows = IF col.kind = "DROPDOWN" THEN v.shows ELSE @]

\* update_column
ColumnUpdate(c, v) ==
    /\ columns[c] \notin NoRow
    /\ columns' = [columns EXCEPT ![c] = Revised(columns[c], v)]
    /\ columns' # columns
    /\ AtOnce
    /\ UNCHANGED <<products, setups>>

Unused(c) == \A i \in LiveIn(setups) : setups[i][c] = Null

\* delete_column: the foreign keys of the values and baselines refuse others.
ColumnDelete(c) ==
    /\ columns[c] \notin NoRow
    /\ Unused(c)
    /\ columns' = [columns EXCEPT ![c] = Gone]
    /\ AtOnce
    /\ UNCHANGED <<products, setups>>

-----------------------------------------------------------------------------
(* Products and the deletion of setups                                      *)

ProductCreate(p) ==
    /\ p \notin products
    /\ products' = products \union {p}
    /\ AtOnce
    /\ UNCHANGED <<columns, setups>>

\* has_setups and the foreign keys; the columns are deleted with the product.
ProductDelete(p) ==
    /\ p \in products
    /\ \A i \in LiveIn(setups) : setups[i]["product"] # p
    /\ \A c \in ColumnsOf(columns, p) : Unused(c)
    /\ products' = products \ {p}
    /\ columns' = [c \in ColumnIds |-> IF c \in ColumnsOf(columns, p) THEN Gone
                                       ELSE columns[c]]
    /\ AtOnce
    /\ UNCHANGED setups

\* SetupService.delete, of a setup that module Reservations lets be deleted.
SetupDelete(i) ==
    /\ i \in LiveIn(setups)
    /\ setups' = [setups EXCEPT ![i] = Gone]
    /\ AtOnce
    /\ UNCHANGED <<products, columns>>

-----------------------------------------------------------------------------
(* Imports                                                                  *)

\* The upload is an argument of the request; web: an AppError is caught.
Import(pc, p, book, web) ==
    [Begin(pc, p) EXCEPT !.book = book, !.web = web]

\* _validate_row; the product is found by its name.
PlainError(r) == ~r.good \/ r.product \notin products

\* The rows of a workbook are to be written, if it has any.
Ready(book) == IF book.rows = <<>> THEN "write" ELSE "rows"

\* import_setups: every row is validated, then they are written one by one; with
\* errors nothing is written but the log.
PlainImport(s) ==
    /\ \E b \in Books :
        /\ \A k \in DOMAIN b.rows : ~PlainError(b.rows[k])
        /\ Begins(s, Import(Ready(b), Null, b, FALSE))
    /\ UNCHANGED pending

\* The headers that are no custom column of the product.
NewHeaders(p, book) == {h \in book.headers : Named(columns, p, h) = {}}

\* import_setups_for_product detects the new headers once.
Accept(p, b, web, token) ==
    [Import("accept", p, b, web) EXCEPT !.fresh = NewHeaders(p, b),
        !.designs = (NewHeaders(p, b) # {}), !.token = token]

\* import_setups_for_product with no new headers, or with the flag of the API.
ProductImport(s) ==
    /\ \E b \in Books, p \in products, web \in BOOLEAN :
        /\ web => NewHeaders(p, b) = {}
        /\ Begins(s, Accept(p, b, web, 0))
    /\ UNCHANGED pending

\* product_import_submit with new headers: the upload waits to be confirmed.
ImportHeld ==
    /\ uploads < MaxUploads
    /\ \E b \in Books, p \in products :
        /\ NewHeaders(p, b) # {}
        /\ pending' = pending \union {[token |-> uploads + 1, book |-> b, product |-> p]}
    /\ uploads' = uploads + 1
    /\ UNCHANGED <<tables, proc, history>>

\* _PENDING_PRODUCT_IMPORTS.pop
TakeOut(u) == pending \ {u}

\* product_import_confirm: accepted or rejected, the token is used.
ImportConfirm(s) ==
    \E u \in pending :
        /\ pending' = TakeOut(u)
        /\ Begins(s, Accept(u.product, u.book, TRUE, u.token))

ImportReject ==
    /\ \E u \in pending : pending' = TakeOut(u)
    /\ UNCHANGED <<tables, uploads, proc, history>>

\* A row that does not pass; the custom cells go by the header as it is.
RowErrors(T, p, b) ==
    \E k \in DOMAIN b.rows : ~b.rows[k].good \/ Invalid(T, p, b.rows[k].custom)

\* The columns are added with normalised names, then the rows are validated; with
\* errors the request ends normally, and what is flushed stays.
ImportAccept(s) ==
    LET w == proc[s]
        names == {n \in {Norm[h] : h \in w.fresh} \ Mandatory :
                     Named(columns, w.product, n) = {}}
        more == {StringColumn(w.product, n) : n \in names}
        ready == AddColumns(w, w.product, more)
    IN
    /\ w.pc = "accept"
    /\ w.product \in products
    /\ Spare(more) # {}
    /\ Continues(s, [ready EXCEPT !.pc =
            IF RowErrors(Template(ready), w.product, w.book) THEN "write" ELSE Ready(w.book)])

\* A row overwrites the setup found, or is inserted.
Upserted(w, i, found, row) == IF found = {} THEN Insert(w, i, row) ELSE Write(w, i, row)

\* One row is upserted, its custom values set.  They are validated once more, and
\* the template may have changed: then the web layer commits the rows so far.
ImportRow(s) ==
    LET w == proc[s]
        r == w.book.rows[w.k]
        plain == w.product = Null
        p == IF plain THEN r.product ELSE w.product
        row == [f \in Fixed |-> IF f = "product" THEN p ELSE r[f]]
        found == Matching(View(w), r.ip, r.host)
    IN
    /\ w.pc = "rows"
    /\ p \in products
    /\ found = {} => FreeIds \ w.new # {}
    /\ \E i \in IF found # {} THEN found ELSE {CHOOSE j \in FreeIds : j \notin w.new} :
        LET upserted == Upserted(w, i, found, row)
            set == IF plain \/ r.custom = <<>> THEN upserted
                   ELSE SetSetupValues(upserted, i, p, r.custom)
            last == w.k = Len(w.book.rows)
        IN /\ Unique(View(upserted))
           /\ IF ~plain /\ r.custom # <<>> /\ Invalid(Template(w), p, r.custom)
              THEN Continues(s, IF w.web THEN [upserted EXCEPT !.pc = "write"] ELSE Idle)
              ELSE Continues(s, [set EXCEPT !.pc = IF last THEN "write" ELSE "rows",
                                            !.k = IF last THEN @ ELSE @ + 1])

-----------------------------------------------------------------------------
(* Commit, rollback, restart                                                *)

\* What the constraints of the tables, and the ORM for rows that are gone, allow.
Consistent(w, T, V) ==
    /\ \A i \in Ids \ w.new : w.put[i] # [f \in Fields |-> Kept] => setups[i] \notin NoRow
    /\ \A c \in DOMAIN w.orders : columns[c] \notin NoRow
    /\ Unique(V)
    /\ \A i \in LiveIn(V) :
        /\ V[i]["product"] \in products
        /\ \A c \in ColumnIds : V[i][c] # Null => T[c] \notin NoRow
    /\ \A c \in DOMAIN w.cols :
        /\ T[c].product \in products
        /\ Named(T, T[c].product, T[c].name) = {c}

Commit(s) ==
    LET w == proc[s]
        T == Template(w)
        V == View(w)
    IN
    /\ w.pc = "write"
    /\ Consistent(w, T, V)
    /\ columns' = T
    /\ setups' = V
    /\ edits' = IF <<T, V>> = <<columns, setups>> THEN edits ELSE edits + 1
    /\ Goes(s, Idle)
    /\ UNCHANGED <<products, pending, uploads, crossed>>

\* An exception that is no AppError, a client that is gone.
Abort(s) ==
    /\ proc[s] # Idle
    /\ Continues(s, Idle)

\* The process is restarted: what it has in memory is lost.
Restart ==
    /\ pending' = {}
    /\ proc' = [s \in Sessions |-> Idle]
    /\ UNCHANGED <<tables, uploads, history>>

-----------------------------------------------------------------------------

Serve(s) ==
    \/ CreateRead(s) \/ UpdateRead(s) \/ ValuesRead(s)
    \/ FormOpen(s) \/ FormSave(s)
    \/ ColumnAdd(s) \/ ColumnsReorder(s)
    \/ PlainImport(s) \/ ProductImport(s) \/ ImportConfirm(s)
    \/ ImportAccept(s) \/ ImportRow(s)
    \/ Commit(s) \/ Abort(s)

Administer ==
    \/ \E c \in ColumnIds, v \in Revisions : ColumnUpdate(c, v)
    \/ \E c \in ColumnIds : ColumnDelete(c)
    \/ \E p \in Products : ProductCreate(p) \/ ProductDelete(p)
    \/ \E i \in Ids : SetupDelete(i)
    \/ ImportHeld
    \/ ImportReject
    \/ Restart

Next == Administer \/ \E s \in Sessions : Serve(s)

Spec == Init /\ [][Next]_vars
=============================================================================
