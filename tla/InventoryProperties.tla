------------------------- MODULE InventoryProperties -------------------------
(* What Inventory has to satisfy.                                           *)
EXTENDS Inventory

-----------------------------------------------------------------------------

\* Every variable has its type, and the tables keep their unique and foreign
\* keys: addresses, column names, products and columns referred to.
TypeOK ==
    /\ products \subseteq Products
    /\ \A c \in ColumnIds : columns[c] \in NoRow \union ColumnRow
    /\ \A i \in Ids : setups[i] \in NoRow \/ setups[i] \in SetupRow
    /\ \A u \in pending : u.token \in 1..uploads /\ u.book \in Books
    /\ edits \in Nat
    /\ crossed \in BOOLEAN
    /\ \A i, j \in LiveIn(setups) :
        setups[i]["ip"] = setups[j]["ip"] \/ setups[i]["host"] = setups[j]["host"]
            => i = j
    /\ \A i \in LiveIn(setups) :
        /\ setups[i]["product"] \in products
        /\ \A c \in ColumnIds : setups[i][c] # Null => c \in LiveIn(columns)
    /\ \A c, d \in LiveIn(columns) :
        /\ columns[c].product \in products
        /\ columns[c].product = columns[d].product /\ columns[c].name = columns[d].name
            => c = d

\* The columns of a template have different places, unless two requests that
\* change templates were served at once (add_column, reorder_columns and
\* add_columns_from_names read the places in use and write new ones).
OrderNeedsRace ==
    ~crossed =>
        \A c, d \in LiveIn(columns) :
            columns[c].product = columns[d].product
            /\ columns[c].order = columns[d].order => c = d

\* An upload that waits to be confirmed is imported at most once, however often
\* the dialog is submitted (_PENDING_PRODUCT_IMPORTS).
ConfirmedOnce ==
    \A s \in Busy :
        proc[s].token # 0 =>
            /\ \A t \in Busy : proc[t].token = proc[s].token => t = s
            /\ \A u \in pending : u.token # proc[s].token

-----------------------------------------------------------------------------

\* The rows of a workbook have addresses of their own.
Disjoint(book) ==
    \A j, k \in DOMAIN book.rows :
        j # k => /\ book.rows[j].ip # book.rows[k].ip
                 /\ book.rows[j].host # book.rows[k].host

Landed(r, p, T, S) ==
    \E i \in LiveIn(S) :
        /\ \A f \in {"ip", "host", "owner"} : S[i][f] = r[f]
        /\ p # Null => \A n \in DOMAIN r.custom : \E c \in ColumnsOf(T, p) :
                T[c].name = n /\ S[i][c] = r.custom[n]

\* What import w has written with custom values fills each column that the
\* template asks for.
Filled(w, T, S) ==
    \A i \in LiveIn(S), c \in ColumnsOf(T, w.product) :
        /\ i \in w.new \/ \E f \in Fields : w.put[i][f] # Kept
        /\ Needs(T[c])
        => S[i][c] # Null

\* "All-or-nothing": the commit of an import that changes setups leaves every row
\* of the workbook in the tables, with its custom values and none missing, unless
\* something was committed since the rows were validated (import_setups,
\* import_setups_for_product).
ImportIsWhole ==
    [][\A s \in Busy :
         LET w == proc[s] IN
         /\ w.book # Null
         /\ proc'[s] = Idle /\ setups' # setups
         /\ w.at = edits
         => /\ Disjoint(w.book) =>
                \A k \in DOMAIN w.book.rows :
                    Landed(w.book.rows[k], w.product, columns', setups')
            /\ w.product # Null => Filled(w, columns', setups')]_vars

\* What field f of setup w.id becomes, new, when it was not edited on form w: what
\* it was, or what the form showed it to be; if the form could not show it, an
\* owner becomes NULL and a custom field its default, whatever it held.
Overwritten(w, f, new) ==
    IF Shown(w, f) THEN new = w.row[f]
    ELSE IF f = "owner" THEN new = Null
    ELSE w.at = edits => new # Null /\ new = columns[f].default

\* Saving the edit form changes no other setup and, beside the field that was
\* edited, only those that were changed since they were rendered, which go back,
\* and those the form could not show: owners that are no option, words of a
\* dropdown, boxes that are not checked (setup_edit_save writes every field).
UneditedAsRendered ==
    [][\A s \in Busy :
         LET w == proc[s] IN
         w.row # Null /\ proc'[s] = Idle /\ setups' # setups
         => /\ \A i \in Ids \ {w.id} : setups'[i] = setups[i]
            /\ \A f \in Fields :
                \/ setups'[w.id][f] = setups[w.id][f]
                \/ f = w.edit.field
                \/ Overwritten(w, f, setups'[w.id][f])]_vars

\* "The new columns are added to the product's template first, then the import
\* proceeds using the now-expanded template" (import_service.py:260-262): rows
\* that pass once the headers are normalised are not refused after an accept.
AcceptedIsImported ==
    [][\A s \in Sessions :
         LET w == proc[s]
             T == Template(proc'[s])
             Plain(c) == [n \in {Norm[h] : h \in DOMAIN c} |->
                             c[CHOOSE h \in DOMAIN c : Norm[h] = n]]
         IN w.pc = "accept" /\ proc'[s].pc = "write" /\ w.book.rows # <<>>
            => \E k \in DOMAIN w.book.rows :
                ~w.book.rows[k].good
                \/ Invalid(T, w.product, Plain(w.book.rows[k].custom))]_vars
=============================================================================
