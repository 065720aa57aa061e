---------------------------- MODULE InventoryProofs ----------------------------
(***************************************************************************)
(* What the inventory keeps for every value of the constants: the types    *)
(* and keys of its tables, one import of an upload, the places of columns, *)
(* whole imports, and what saving a form writes.                           *)
(***************************************************************************)
EXTENDS InventoryProperties, FiniteSetTheorems, FunctionTheorems, TLAPS

-----------------------------------------------------------------------------
(* The types of the tables and of a request                                 *)

\* What field f of a setup may hold.
Fits(f, v) ==
    /\ f = "product" => v \in Products
    /\ f = "ip" => v \in Ips
    /\ f = "host" => v \in Hosts
    /\ f = "owner" => v \in Owners \union {Null}
    /\ f \in ColumnIds => v \in Values \union {Null}

TablesTyped ==
    /\ products \subseteq Products
    /\ columns \in [ColumnIds -> NoRow \union ColumnRow]
    /\ setups \in [Ids -> NoRow \union SetupRow]
    /\ edits \in Nat
    /\ uploads \in Nat
    /\ crossed \in BOOLEAN

Parts == {"pc", "product", "designs", "token", "at", "new", "put", "cols", "orders",
          "id", "row", "asked", "listed", "edit", "book", "web", "fresh", "k"}

Shape(w) ==
    /\ DOMAIN w = Parts
    /\ DOMAIN w.put = Ids
    /\ \A i \in Ids : DOMAIN w.put[i] = Fields

\* What w has flushed to the setups table.
PutTyped(w) ==
    /\ w.new \subseteq Ids
    /\ \A i \in Ids, f \in Fields :
        /\ w.put[i][f] # Kept => Fits(f, w.put[i][f])
        /\ i \in w.new => w.put[i][f] # Kept

\* What w has flushed to the template.
ColsTyped(w) ==
    /\ DOMAIN w.cols \subseteq ColumnIds
    /\ \A c \in DOMAIN w.cols : w.cols[c] \in ColumnRow
    /\ DOMAIN w.orders \subseteq ColumnIds
    /\ \A c \in DOMAIN w.orders : w.orders[c] \in Nat

\* A form has a setup; an import has a workbook, and a product unless it is plain.
KindTyped(w) ==
    /\ w.pc \in {"write", "form", "accept", "rows"}
    /\ w.pc = "form" => w.row # Null
    /\ w.row # Null => w.row \in SetupRow /\ w.id \in Ids /\ w.book = Null
    /\ w.pc \in {"accept", "rows"} => w.book # Null
    /\ w.pc = "accept" => w.product # Null /\ w.k = 1
    /\ w.pc = "rows" => w.k \in 1..Len(w.book.rows)
    /\ w.book # Null => w.book \in Books /\ w.product \in Products \union {Null}
    /\ DOMAIN w.asked \subseteq ColumnIds
    /\ w.fresh \subseteq Headers

FlagTyped(w) == w.designs \in BOOLEAN

Working(w) ==
    /\ Shape(w) /\ PutTyped(w) /\ ColsTyped(w) /\ KindTyped(w) /\ FlagTyped(w)
    /\ w.token \in Nat
    /\ w.at \in Nat

PendingTyped ==
    \A u \in pending :
        /\ u.token \in 1..uploads
        /\ u.book \in Books
        /\ u.product \in Products

ProcTyped ==
    /\ DOMAIN proc = Sessions
    /\ \A s \in Sessions : proc[s] = Idle \/ Working(proc[s])

\* The unique and foreign keys of the tables.
Keys(P, C, S) ==
    /\ Unique(S)
    /\ \A i \in LiveIn(S) :
        /\ S[i]["product"] \in P
        /\ \A c \in ColumnIds : S[i][c] # Null => c \in LiveIn(C)
    /\ \A c, d \in LiveIn(C) :
        /\ C[c].product \in P
        /\ C[c].product = C[d].product /\ C[c].name = C[d].name => c = d

TypesInv == TablesTyped /\ PendingTyped /\ ProcTyped /\ Keys(products, columns, setups)

-----------------------------------------------------------------------------
(* One import of an upload                                                  *)

TokensInv ==
    /\ \A u, v \in pending : u.token = v.token => u = v
    /\ \A s \in Busy : proc[s].token <= uploads
    /\ ConfirmedOnce

-----------------------------------------------------------------------------
(* The places of columns                                                    *)

Ordered(T) ==
    \A c, d \in LiveIn(T) :
        T[c].product = T[d].product /\ T[c].order = T[d].order => c = d

\* A request that does not change a template has no columns, one that has not
\* started to has none yet.
DesignsNothing(w) ==
    /\ ~w.designs => w.fresh = {}
    /\ ~w.designs \/ w.pc = "accept" => DOMAIN w.cols = {} /\ DOMAIN w.orders = {}

PlacesInv ==
    /\ \A s \in Busy : DesignsNothing(proc[s])
    /\ ~crossed =>
        /\ \A s, t \in Busy : proc[s].designs /\ proc[t].designs => s = t
        /\ Ordered(columns)
        /\ \A s \in Busy : Ordered(Template(proc[s]))

-----------------------------------------------------------------------------
(* Imports, as long as nothing else was committed                           *)

\* The rows of the workbook before row n are written.
Done(w, n) ==
    /\ Disjoint(w.book) =>
        \A k \in DOMAIN w.book.rows :
            k < n => Landed(w.book.rows[k], w.product, Template(w), View(w))
    /\ w.product # Null => Filled(w, Template(w), View(w))

\* w has written nothing to setups.
Untouched(w) == w.new = {} /\ \A i \in Ids, f \in Fields : w.put[i][f] = Kept

Imports(w) ==
    /\ w.pc = "accept" => Untouched(w) /\ w.k = 1
    /\ w.pc = "rows" =>
        /\ Done(w, w.k)
        /\ w.product # Null => ~RowErrors(Template(w), w.product, w.book)
    /\ w.pc = "write" => Untouched(w) \/ Done(w, Len(w.book.rows) + 1)

AloneOK(w) == w.at = edits => (w.book # Null => Imports(w))

AloneInv == \A s \in Busy : proc[s].at <= edits /\ AloneOK(proc[s])

IInv == TypesInv /\ TokensInv /\ PlacesInv /\ AloneInv

-----------------------------------------------------------------------------
(* Forms                                                                    *)

\* As long as a column lives its name and its kind are those that the form has.
Steady(w) ==
    \A c \in DOMAIN w.asked :
        /\ columns[c] # Unborn
        /\ columns[c] \notin NoRow =>
            columns[c].name = w.asked[c].name /\ columns[c].kind = w.asked[c].kind

\* As long as nothing is committed the form has what is in the tables.
Current(w) ==
    w.at = edits => /\ setups[w.id] = w.row
                    /\ w.asked = [c \in ColumnsOf(columns, w.row["product"]) |-> columns[c]]

\* A form has put what was edited, what it showed, and what it could not show.
FormOK(w) ==
    /\ w.new = {} /\ DOMAIN w.cols = {} /\ DOMAIN w.orders = {}
    /\ \A c \in DOMAIN w.asked : w.asked[c] \in ColumnRow
    /\ \A c, d \in DOMAIN w.asked : w.asked[c].name = w.asked[d].name => c = d
    /\ Steady(w)
    /\ Current(w)
    /\ \A i \in Ids, f \in Fields :
        w.put[i][f] # Kept =>
            /\ w.pc # "form" /\ i = w.id
            /\ f = w.edit.field \/ Overwritten(w, f, w.put[i][f])

\* A column that is about to be inserted has an id that no column has had, and
\* that no other request has.
ColsInv ==
    \A s \in Busy : \A c \in DOMAIN proc[s].cols :
        /\ columns[c] = Unborn
        /\ \A t \in Busy : c \in DOMAIN proc[t].cols => t = s

FormsInv == ColsInv /\ \A s \in Busy : proc[s].row # Null => FormOK(proc[s])

-----------------------------------------------------------------------------
(* What the records of a request are, field by field                        *)

\* v has everything that w has, but perhaps another pc, other flushes, and is
\* at another row.
Same(v, w) ==
    /\ v.product = w.product /\ v.designs = w.designs /\ v.token = w.token
    /\ v.at = w.at /\ v.id = w.id /\ v.row = w.row /\ v.asked = w.asked
    /\ v.listed = w.listed /\ v.book = w.book /\ v.web = w.web /\ v.fresh = w.fresh

\* w is not about to change a template.
Quiet(w) == w.designs = FALSE

\* Then its flag is typed.
LEMMA QuietTyped == ASSUME NEW w, Quiet(w) PROVE FlagTyped(w)
BY DEF Quiet, FlagTyped

\* Begin: a request has flushed nothing.
LEMMA BeginFields ==
    ASSUME NEW pc, NEW p, NEW w, w = Begin(pc, p)
    PROVE  /\ Shape(w) /\ Untouched(w) /\ Quiet(w)
           /\ w.pc = pc /\ w.product = p /\ w.token = 0
           /\ w.at = edits /\ DOMAIN w.cols = {} /\ DOMAIN w.orders = {}
           /\ w.id = Null /\ w.row = Null /\ DOMAIN w.asked = {} /\ w.book = Null
           /\ w.fresh = {} /\ w.k = 1
<1>1. DOMAIN w = Parts
  BY DEF Begin, Parts
<1>2. w.put = [i \in Ids |-> [f \in Fields |-> Kept]]
  BY DEF Begin
<1>3. DOMAIN w.put = Ids /\ \A i \in Ids : /\ DOMAIN w.put[i] = Fields
                                           /\ \A f \in Fields : w.put[i][f] = Kept
  BY <1>2
<1>4. w.cols = <<>> /\ w.orders = <<>> /\ w.asked = <<>>
  BY DEF Begin
<1>5. DOMAIN w.cols = {} /\ DOMAIN w.orders = {} /\ DOMAIN w.asked = {}
  BY <1>4
<1>6. /\ w.pc = pc /\ w.product = p /\ w.token = 0
      /\ w.at = edits /\ w.new = {}
      /\ w.id = Null /\ w.row = Null /\ w.book = Null
      /\ w.fresh = {} /\ w.k = 1
  BY DEF Begin
<1>7. Quiet(w)
  BY DEF Begin, Quiet
<1> QED
  BY <1>1, <1>3, <1>5, <1>6, <1>7 DEF Shape, Untouched

\* Write: only fields of new are put, those that differ from what w sees.
LEMMA WriteFields ==
    ASSUME NEW w, Shape(w), NEW i \in Ids, NEW new
    PROVE  LET v == Write(w, i, new) IN
           /\ Shape(v) /\ Same(v, w)
           /\ v.pc = w.pc /\ v.new = w.new /\ v.cols = w.cols /\ v.orders = w.orders
           /\ v.k = w.k /\ v.edit = w.edit
           /\ \A j \in Ids : j # i => v.put[j] = w.put[j]
           /\ \A f \in Fields :
                v.put[i][f] = IF f \in DOMAIN new /\ new[f] # View(w)[i][f] THEN new[f]
                              ELSE w.put[i][f]
<1> DEFINE v == Write(w, i, new)
           g == [f \in Fields |-> IF f \in DOMAIN new /\ new[f] # View(w)[i][f]
                                  THEN new[f] ELSE w.put[i][f]]
<1>1. v = [w EXCEPT !.put[i] = g]
  BY DEF Write
<1>2. DOMAIN w = Parts /\ "put" \in DOMAIN w /\ i \in DOMAIN w.put
  BY DEF Shape, Parts
<1>3. DOMAIN g = Fields
  OBVIOUS
<1>4. v = [w EXCEPT !.put = [w.put EXCEPT ![i] = g]]
  <2> HIDE DEF g
  <2> QED
    BY <1>1, <1>2
<1>5. v.put = [w.put EXCEPT ![i] = g]
  <2> HIDE DEF g, v
  <2> QED
    BY <1>2, <1>4
<1>6. v.put[i] = g /\ DOMAIN v.put = Ids /\ \A j \in Ids : j # i => v.put[j] = w.put[j]
  <2> HIDE DEF g, v
  <2> QED
    BY <1>2, <1>5 DEF Shape
<1>7. /\ DOMAIN v = Parts /\ Same(v, w)
      /\ v.pc = w.pc /\ v.new = w.new /\ v.cols = w.cols /\ v.orders = w.orders
      /\ v.k = w.k /\ v.edit = w.edit
  <2> HIDE DEF g, v
  <2> QED
    BY <1>2, <1>4 DEF Same, Parts
<1>8. Shape(v)
  <2> HIDE DEF g, v
  <2> QED
    BY <1>3, <1>6, <1>7 DEF Shape
<1> QED
  BY <1>6, <1>7, <1>8

\* Insert: all fields of a new row are put.
LEMMA InsertFields ==
    ASSUME NEW w, Shape(w), NEW i \in Ids, NEW new
    PROVE  LET v == Insert(w, i, new) IN
           /\ Shape(v) /\ Same(v, w)
           /\ v.pc = w.pc /\ v.new = w.new \union {i} /\ v.cols = w.cols
           /\ v.orders = w.orders /\ v.k = w.k
           /\ \A j \in Ids : j # i => v.put[j] = w.put[j]
           /\ \A f \in Fields : v.put[i][f] = IF f \in Fixed THEN new[f] ELSE Null
<1> DEFINE v == Insert(w, i, new)
           g == [f \in Fields |-> IF f \in Fixed THEN new[f] ELSE Null]
<1>1. v = [w EXCEPT !.new = w.new \union {i}, !.put[i] = g]
  BY DEF Insert
<1>2. DOMAIN w = Parts /\ "put" \in DOMAIN w /\ i \in DOMAIN w.put
  BY DEF Shape, Parts
<1>3. DOMAIN g = Fields
  OBVIOUS
<1>5. v.put = [w.put EXCEPT ![i] = g]
  <2> HIDE DEF g, v
  <2> QED
    BY <1>1, <1>2 DEF Parts
<1>6. v.put[i] = g /\ DOMAIN v.put = Ids /\ \A j \in Ids : j # i => v.put[j] = w.put[j]
  <2> HIDE DEF g, v
  <2> QED
    BY <1>2, <1>5 DEF Shape
<1>7. /\ DOMAIN v = Parts /\ Same(v, w)
      /\ v.pc = w.pc /\ v.new = w.new \union {i} /\ v.cols = w.cols
      /\ v.orders = w.orders /\ v.k = w.k
  <2> HIDE DEF g, v
  <2> QED
    BY <1>1, <1>2 DEF Same, Parts
<1>8. Shape(v)
  <2> HIDE DEF g, v
  <2> QED
    BY <1>3, <1>6, <1>7 DEF Shape
<1> QED
  BY <1>6, <1>7, <1>8

\* SetSetupValues is a Write.
LEMMA ValuesFields ==
    ASSUME NEW w, Shape(w), NEW i \in Ids, NEW p, NEW given
    PROVE  LET v == SetSetupValues(w, i, p, given)
               new == Serialized(Template(w), p, given)
           IN
           /\ Shape(v) /\ Same(v, w)
           /\ v.pc = w.pc /\ v.new = w.new /\ v.cols = w.cols /\ v.orders = w.orders
           /\ v.k = w.k /\ v.edit = w.edit
           /\ \A j \in Ids : j # i => v.put[j] = w.put[j]
           /\ \A f \in Fields :
                v.put[i][f] = IF f \in DOMAIN new /\ new[f] # View(w)[i][f] THEN new[f]
                              ELSE w.put[i][f]
<1> DEFINE new == Serialized(Template(w), p, given)
<1>1. SetSetupValues(w, i, p, given) = Write(w, i, new)
  BY DEF SetSetupValues
<1> HIDE DEF new
<1>2. QED
  BY <1>1, WriteFields DEF new

-----------------------------------------------------------------------------
(* What a request sees                                                      *)

\* The fixed fields are no columns.
LEMMA FixedFields ==
    /\ "product" \in Fixed /\ "ip" \in Fixed /\ "host" \in Fixed /\ "owner" \in Fixed
    /\ Fixed \subseteq Fields /\ ColumnIds \subseteq Fields
    /\ Fields = Fixed \union ColumnIds
    /\ \A f \in Fixed : f \notin ColumnIds
    /\ \A f \in Fields : f \in Fixed \/ f \in ColumnIds
BY InventoryConstantsOK DEF Fixed, Fields

\* A row of setups is a function on the fields, each of which fits.
LEMMA RowFits ==
    ASSUME NEW r \in SetupRow
    PROVE  DOMAIN r = Fields /\ \A f \in Fields : Fits(f, r[f])
<1>1. DOMAIN r = Fields
  BY DEF SetupRow
<1>2. ASSUME NEW f \in Fields PROVE Fits(f, r[f])
  BY FixedFields DEF SetupRow, Fits
<1> QED
  BY <1>1, <1>2

\* And such a function is a row.
LEMMA FitsRow ==
    ASSUME NEW r, r = [f \in Fields |-> r[f]], \A f \in Fields : Fits(f, r[f])
    PROVE  r \in SetupRow
<1> DEFINE U == Products \union Ips \union Hosts \union Owners \union Values
                      \union {Null}
<1>1. ASSUME NEW f \in Fields PROVE r[f] \in U
  BY FixedFields DEF Fits, Fixed
<1>2. r \in [Fields -> U]
  <2> HIDE DEF U
  <2> QED
    BY <1>1
<1>3. /\ r["product"] \in Products
      /\ r["ip"] \in Ips
      /\ r["host"] \in Hosts
      /\ r["owner"] \in Owners \union {Null}
      /\ \A c \in ColumnIds : r[c] \in Values \union {Null}
  BY FixedFields DEF Fits
<1> QED
  BY <1>2, <1>3 DEF SetupRow

\* What is kept does not fit: a field that has been put is known by its value.
LEMMA KeptFitsNothing ==
    ASSUME NEW f \in Fields
    PROVE  ~Fits(f, Kept)
BY FixedFields, NothingIsNothing DEF Fits, Fixed

\* A setup is seen if it is in the table or has been inserted, with each field
\* as it was put or else as it is in the table.
LEMMA ViewRows ==
    ASSUME NEW w, TablesTyped, PutTyped(w), NEW i \in Ids
    PROVE  /\ DOMAIN View(w) = Ids
           /\ i \in LiveIn(View(w)) <=> i \in LiveIn(setups) \union w.new
           /\ i \in LiveIn(View(w)) =>
                /\ View(w)[i] \in SetupRow
                /\ \A f \in Fields :
                    View(w)[i][f] = IF w.put[i][f] = Kept THEN setups[i][f]
                                    ELSE w.put[i][f]
           /\ i \notin LiveIn(View(w)) => View(w)[i] = setups[i]
<1>1. DOMAIN View(w) = Ids /\ DOMAIN setups = Ids
  BY DEF View, TablesTyped
<1> DEFINE g == [f \in Fields |-> IF w.put[i][f] = Kept THEN setups[i][f]
                                  ELSE w.put[i][f]]
           there == setups[i] \notin NoRow \/ i \in w.new
<1>2. View(w)[i] = IF there THEN g ELSE setups[i]
  BY DEF View
<1>3. setups[i] \in NoRow \union SetupRow
  BY DEF TablesTyped
<1>4. ASSUME there PROVE g \in SetupRow
  <2>1. ASSUME NEW f \in Fields PROVE Fits(f, g[f])
    <3>1. CASE w.put[i][f] # Kept
      BY <3>1 DEF PutTyped
    <3>2. CASE w.put[i][f] = Kept
      <4>1. setups[i] \in SetupRow
        BY <1>3, <1>4, <3>2 DEF PutTyped
      <4> QED
        BY <3>2, <4>1, RowFits
    <3> QED
      BY <3>1, <3>2
  <2>2. g = [f \in Fields |-> g[f]]
    OBVIOUS
  <2> HIDE DEF g
  <2> QED
    BY <2>1, <2>2, FitsRow
<1>5. i \in LiveIn(setups) <=> setups[i] \notin NoRow
  BY <1>1 DEF LiveIn
<1>6. i \in LiveIn(View(w)) <=> View(w)[i] \notin NoRow
  BY <1>1 DEF LiveIn
<1>7. ASSUME there PROVE /\ i \in LiveIn(View(w))
                         /\ View(w)[i] = g
  <2> HIDE DEF g, there
  <2> QED
    BY <1>2, <1>4, <1>6, <1>7, NothingIsNothing
<1>8. ASSUME ~there PROVE /\ i \notin LiveIn(View(w))
                          /\ View(w)[i] = setups[i]
                          /\ i \notin LiveIn(setups) \union w.new
  BY <1>2, <1>5, <1>6, <1>8
<1>9. \A f \in Fields : g[f] = IF w.put[i][f] = Kept THEN setups[i][f] ELSE w.put[i][f]
  OBVIOUS
<1>10. there <=> i \in LiveIn(setups) \union w.new
  BY <1>5
<1> HIDE DEF g, there
<1> QED
  BY <1>1, <1>4, <1>7, <1>8, <1>9, <1>10

\* A request that has put nothing sees the table.
LEMMA ViewUntouched ==
    ASSUME NEW w, TablesTyped, Untouched(w), PutTyped(w)
    PROVE  View(w) = setups
<1>1. ASSUME NEW i \in Ids PROVE View(w)[i] = setups[i]
  <2>1. CASE i \in LiveIn(View(w))
    <3>1. i \in LiveIn(setups)
      BY <2>1, ViewRows DEF Untouched
    <3>2. setups[i] \in SetupRow
      BY <3>1 DEF LiveIn, TablesTyped
    <3>3. View(w)[i] \in SetupRow /\ \A f \in Fields : View(w)[i][f] = setups[i][f]
      BY <2>1, ViewRows DEF Untouched
    <3> QED
      BY <3>2, <3>3 DEF SetupRow
  <2>2. CASE i \notin LiveIn(View(w))
    BY <2>2, ViewRows
  <2> QED
    BY <2>1, <2>2
<1>2. View(w) = [i \in Ids |-> View(w)[i]] /\ setups = [i \in Ids |-> setups[i]]
  BY DEF View, TablesTyped
<1> QED
  BY <1>1, <1>2

\* The template that w sees: columns it inserted, orders it changed.
LEMMA TemplateRows ==
    ASSUME NEW w, TablesTyped, ColsTyped(w), NEW c \in ColumnIds
    PROVE  /\ DOMAIN Template(w) = ColumnIds
           /\ Template(w)[c] \in NoRow \union ColumnRow
           /\ c \in DOMAIN w.cols => /\ Template(w)[c] = w.cols[c]
                                     /\ c \in LiveIn(Template(w))
           /\ c \notin DOMAIN w.cols =>
                /\ c \in LiveIn(Template(w)) <=> c \in LiveIn(columns)
                /\ c \notin DOMAIN w.orders => Template(w)[c] = columns[c]
                /\ c \in LiveIn(columns) =>
                    /\ Template(w)[c].product = columns[c].product
                    /\ Template(w)[c].name = columns[c].name
                    /\ Template(w)[c].kind = columns[c].kind
                    /\ Template(w)[c].order = IF c \in DOMAIN w.orders THEN w.orders[c]
                                              ELSE columns[c].order
<1>1. DOMAIN Template(w) = ColumnIds /\ DOMAIN columns = ColumnIds
  BY DEF Template, TablesTyped
<1>2. Template(w)[c] =
        IF c \in DOMAIN w.cols THEN w.cols[c]
        ELSE IF c \in DOMAIN w.orders /\ columns[c] \notin NoRow
             THEN [columns[c] EXCEPT !.order = w.orders[c]]
             ELSE columns[c]
  BY DEF Template
<1>3. columns[c] \in NoRow \union ColumnRow
  BY DEF TablesTyped
<1>4. c \in LiveIn(columns) <=> columns[c] \notin NoRow
  BY <1>1 DEF LiveIn
<1>5. c \in LiveIn(Template(w)) <=> Template(w)[c] \notin NoRow
  BY <1>1 DEF LiveIn
<1>6. CASE c \in DOMAIN w.cols
  <2>1. Template(w)[c] = w.cols[c] /\ w.cols[c] \in ColumnRow
    BY <1>2, <1>6 DEF ColsTyped
  <2> QED
    BY <1>1, <1>5, <1>6, <2>1, NothingIsNothing
<1>7. CASE c \notin DOMAIN w.cols /\ c \in DOMAIN w.orders /\ columns[c] \notin NoRow
  <2>1. columns[c] \in ColumnRow /\ w.orders[c] \in Nat
    BY <1>3, <1>7 DEF ColsTyped
  <2>2. Template(w)[c] = [columns[c] EXCEPT !.order = w.orders[c]]
    BY <1>2, <1>7
  <2>3. /\ Template(w)[c] \in ColumnRow
        /\ Template(w)[c].product = columns[c].product
        /\ Template(w)[c].name = columns[c].name
        /\ Template(w)[c].kind = columns[c].kind
        /\ Template(w)[c].order = w.orders[c]
    BY <2>1, <2>2 DEF ColumnRow
  <2> QED
    BY <1>1, <1>4, <1>5, <1>7, <2>3, NothingIsNothing
<1>8. CASE c \notin DOMAIN w.cols /\ ~(c \in DOMAIN w.orders /\ columns[c] \notin NoRow)
  <2>1. Template(w)[c] = columns[c]
    BY <1>2, <1>8
  <2> QED
    BY <1>1, <1>3, <1>4, <1>5, <1>8, <2>1
<1> QED
  BY <1>6, <1>7, <1>8

\* A request that has changed no column sees the table.
LEMMA TemplateUntouched ==
    ASSUME NEW w, TablesTyped, DOMAIN w.cols = {}, DOMAIN w.orders = {}
    PROVE  Template(w) = columns
BY DEF Template, TablesTyped

\* Requests with the same columns see the same template.
LEMMA TemplateSame ==
    ASSUME NEW v, NEW w, v.cols = w.cols, v.orders = w.orders
    PROVE  Template(v) = Template(w)
BY DEF Template

-----------------------------------------------------------------------------
(* What is put                                                              *)

\* What is written fits, if what is asked to be written does.
LEMMA WritePuts ==
    ASSUME NEW w, Shape(w), PutTyped(w), NEW i \in Ids, NEW new,
           \A f \in Fields : f \in DOMAIN new => Fits(f, new[f])
    PROVE  PutTyped(Write(w, i, new))
<1> DEFINE v == Write(w, i, new)
<1>1. /\ v.new = w.new
      /\ \A j \in Ids : j # i => v.put[j] = w.put[j]
      /\ \A f \in Fields : \/ v.put[i][f] = w.put[i][f]
                           \/ /\ f \in DOMAIN new
                              /\ v.put[i][f] = new[f]
  BY WriteFields
<1> HIDE DEF v
<1>2. v.new \subseteq Ids
  BY <1>1 DEF PutTyped
<1>3. ASSUME NEW j \in Ids, NEW f \in Fields
      PROVE  /\ v.put[j][f] # Kept => Fits(f, v.put[j][f])
             /\ j \in v.new => v.put[j][f] # Kept
  <2>1. CASE j # i
    BY <1>1, <2>1 DEF PutTyped
  <2>2. CASE j = i
    BY <1>1, <2>2, KeptFitsNothing DEF PutTyped
  <2> QED
    BY <2>1, <2>2
<1>4. PutTyped(v)
  BY <1>2, <1>3 DEF PutTyped
<1> QED
  BY <1>4 DEF v

\* What is inserted fits.
LEMMA InsertPuts ==
    ASSUME NEW w, Shape(w), PutTyped(w), NEW i \in Ids, NEW new,
           \A f \in Fixed : Fits(f, new[f])
    PROVE  PutTyped(Insert(w, i, new))
<1> DEFINE v == Insert(w, i, new)
<1>1. /\ v.new = w.new \union {i}
      /\ \A j \in Ids : j # i => v.put[j] = w.put[j]
      /\ \A f \in Fields : v.put[i][f] = IF f \in Fixed THEN new[f] ELSE Null
  BY InsertFields
<1> HIDE DEF v
<1>2. v.new \subseteq Ids
  BY <1>1 DEF PutTyped
<1>3. \A f \in Fields : Fits(f, v.put[i][f])
  <2>1. ASSUME NEW f \in Fields, f \notin Fixed PROVE Fits(f, Null)
    BY <2>1, FixedFields DEF Fits
  <2> QED
    BY <1>1, <2>1
<1>4. ASSUME NEW j \in Ids, NEW f \in Fields
      PROVE  /\ v.put[j][f] # Kept => Fits(f, v.put[j][f])
             /\ j \in v.new => v.put[j][f] # Kept
  <2>1. CASE j # i
    BY <1>1, <2>1 DEF PutTyped
  <2>2. CASE j = i
    BY <1>3, <2>2, KeptFitsNothing
  <2> QED
    BY <2>1, <2>2
<1>5. PutTyped(v)
  BY <1>2, <1>4 DEF PutTyped
<1> QED
  BY <1>5 DEF v

\* A template is a function from column ids to columns.
IsTemplate(T) == T \in [ColumnIds -> NoRow \union ColumnRow]

\* The template that a request sees is one.
LEMMA TemplateTyped ==
    ASSUME NEW w, TablesTyped, ColsTyped(w)
    PROVE  IsTemplate(Template(w))
<1>1. Template(w) = [c \in ColumnIds |-> Template(w)[c]]
  BY DEF Template
<1> QED
  BY <1>1, TemplateRows DEF IsTemplate

\* Its live columns are rows of the table.
LEMMA ColumnsTyped ==
    ASSUME NEW T, IsTemplate(T)
    PROVE  /\ DOMAIN T = ColumnIds
           /\ \A c \in LiveIn(T) : c \in ColumnIds /\ T[c] \in ColumnRow
           /\ \A p : ColumnsOf(T, p) \subseteq LiveIn(T)
BY DEF IsTemplate, LiveIn, ColumnsOf

\* What validate_and_serialize_values returns fits.
LEMMA SerializedFits ==
    ASSUME NEW T, IsTemplate(T), NEW p, NEW given,
           \A n \in DOMAIN given : given[n] \in Values
    PROVE  LET new == Serialized(T, p, given) IN
           /\ DOMAIN new \subseteq ColumnsOf(T, p)
           /\ DOMAIN new \subseteq ColumnIds
           /\ \A c \in DOMAIN new :
                new[c] = IF T[c].name \in DOMAIN given THEN given[T[c].name]
                         ELSE T[c].default
           /\ \A c \in ColumnsOf(T, p) :
                c \in DOMAIN new <=> T[c].name \in DOMAIN given \/ T[c].default # Null
           /\ \A f \in Fields : f \in DOMAIN new => Fits(f, new[f])
<1> DEFINE new == Serialized(T, p, given)
<1>1. /\ DOMAIN new = {d \in ColumnsOf(T, p) : \/ T[d].name \in DOMAIN given
                                               \/ T[d].default # Null}
      /\ \A c \in DOMAIN new :
            new[c] = IF T[c].name \in DOMAIN given THEN given[T[c].name]
                     ELSE T[c].default
  BY DEF Serialized
<1> HIDE DEF new
<1>2. DOMAIN new \subseteq ColumnIds /\ DOMAIN new \subseteq ColumnsOf(T, p)
  BY <1>1, ColumnsTyped
<1>3. \A c \in DOMAIN new : T[c].default \in Values \union {Null}
  BY <1>1, ColumnsTyped DEF ColumnRow
<1>4. \A c \in DOMAIN new : new[c] \in Values \union {Null}
  BY <1>1, <1>3
<1>5. \A f \in Fields : f \in DOMAIN new => Fits(f, new[f])
  BY <1>2, <1>4, FixedFields DEF Fits
<1>6. \A c \in ColumnsOf(T, p) :
        c \in DOMAIN new <=> T[c].name \in DOMAIN given \/ T[c].default # Null
  BY <1>1
<1> QED
  BY <1>1, <1>2, <1>5, <1>6 DEF new

-----------------------------------------------------------------------------
(* The next place                                                           *)

\* Of finitely many numbers one is the greatest.
LEMMA GreatestExists ==
    ASSUME NEW S, IsFiniteSet(S), S \subseteq Nat, S # {}
    PROVE  Max(S) \in S /\ \A y \in S : Max(S) >= y
<1> DEFINE Above(x) == {y \in S : y > x}
           K == {Cardinality(Above(x)) : x \in S}
<1>0. \A x, y \in Nat : <<x, y>> \in OpToRel(<, Nat) <=> x < y
  BY DEF OpToRel
<1>1. ASSUME NEW x \in S
      PROVE  IsFiniteSet(Above(x)) /\ Cardinality(Above(x)) \in Nat
  BY FS_Subset, FS_CardinalityType
<1>2. K \subseteq Nat /\ K # {}
  BY <1>1
<1>3. PICK k \in K : \A j \in K : ~ (<<j, k>> \in OpToRel(<, Nat))
  BY <1>2, WFMin, NatLessThanWellFounded
<1>4. PICK x \in S : k = Cardinality(Above(x))
  BY <1>3
<1>5. ASSUME NEW y \in S, y > x PROVE FALSE
  <2>1. Above(y) \subseteq Above(x) /\ y \in Above(x) /\ y \notin Above(y)
    <3>1. x \in Nat /\ y \in Nat /\ \A z \in S : z \in Nat
      OBVIOUS
    <3>2. \A z \in S : z > y => z > x
      BY <1>5, <3>1
    <3>3. ~ (y > y)
      BY <3>1
    <3> QED
      BY <1>5, <3>2, <3>3
  <2>2. Cardinality(Above(y)) <= Cardinality(Above(x))
        /\ Cardinality(Above(y)) # Cardinality(Above(x))
    <3> HIDE DEF Above
    <3> QED
      BY <1>1, <2>1, FS_Subset
  <2>3. Cardinality(Above(y)) \in K
    OBVIOUS
  <2>4. Cardinality(Above(y)) < k
    BY <1>1, <1>4, <2>2
  <2> QED
    BY <1>0, <1>2, <1>3, <2>3, <2>4
<1>6. \A y \in S : x >= y
  BY <1>5
<1> QED
  BY <1>4, <1>6 DEF Max

\* NextOrder is beyond all places in use.
LEMMA NextOrderIsLast ==
    ASSUME TablesTyped, NEW p
    PROVE  /\ NextOrder(columns, Orders(columns, p)) \in Nat
           /\ \A c \in ColumnsOf(columns, p) :
                columns[c].order < NextOrder(columns, Orders(columns, p))
<1> DEFINE C == ColumnsOf(columns, p)
           O == Orders(columns, p)
           f == [c \in C |-> columns[c].order]
<1>1. IsTemplate(columns)
  BY DEF TablesTyped, IsTemplate
<1>2. C \subseteq ColumnIds /\ \A c \in C : columns[c].order \in Nat
  BY <1>1, ColumnsTyped DEF ColumnRow
<1>3. O \subseteq Nat
  BY <1>2 DEF Orders
<1>4. IsFiniteSet(C)
  BY <1>2, InventoryConstantsOK, FS_Subset
<1>5. f \in Surjection(C, O)
  <2>1. f \in [C -> O]
    BY DEF Orders
  <2>2. \A o \in O : \E c \in C : f[c] = o
    BY DEF Orders
  <2> QED
    BY <2>1, <2>2, Fun_IsSurj
<1>6. IsFiniteSet(O)
  <2> HIDE DEF f, C, O
  <2> QED
    BY <1>4, <1>5, FS_Surjection
<1>7. \A c \in C : columns[c].order \in O
  BY DEF Orders
<1>8. CASE O = {}
  BY <1>7, <1>8 DEF NextOrder
<1>9. CASE O # {}
  <2>1. Max(O) \in O /\ \A o \in O : Max(O) >= o
    <3> HIDE DEF O
    <3> QED
      BY <1>3, <1>6, <1>9, GreatestExists
  <2>2. NextOrder(columns, O) = Max(O) + 1
    BY <1>9 DEF NextOrder
  <2> HIDE DEF O, C, f
  <2>3. Max(O) \in Nat
    BY <1>3, <2>1
  <2>4. \A c \in C : columns[c].order < Max(O) + 1
    BY <1>2, <1>7, <2>1, <2>3
  <2> QED
    BY <2>2, <2>3, <2>4 DEF O, C
<1> QED
  BY <1>8, <1>9

\* AddColumns: each column has an id that nobody has and a place of its own,
\* after all places in use.
LEMMA AddFields ==
    ASSUME TablesTyped, NEW w, Shape(w), NEW p, NEW cols, cols \subseteq ColumnRow,
           \A col \in cols : col.product = p, Spare(cols) # {}
    PROVE  LET v == AddColumns(w, p, cols) IN
           /\ Shape(v) /\ Same(v, w)
           /\ v.pc = w.pc /\ v.new = w.new /\ v.put = w.put /\ v.orders = w.orders
           /\ v.k = w.k
           /\ DOMAIN v.cols \subseteq FreeColumns
           /\ \A c \in DOMAIN v.cols :
                /\ v.cols[c] \in ColumnRow
                /\ v.cols[c].product = p
                /\ \A d \in ColumnsOf(columns, p) : columns[d].order < v.cols[c].order
                /\ \A d \in DOMAIN v.cols : v.cols[c].order = v.cols[d].order => c = d
<1> DEFINE v == AddColumns(w, p, cols)
           id == CHOOSE f \in Spare(cols) : TRUE
           turn == CHOOSE f \in Turns(cols) : TRUE
           last == NextOrder(columns, Orders(columns, p)) - 1
           Of(c) == CHOOSE x \in cols : id[x] = c
           g == [c \in {id[col] : col \in cols} |->
                    [Of(c) EXCEPT !.order = last + turn[Of(c)]]]
<1>1. id \in Injection(cols, FreeColumns)
  BY DEF Spare
<1>2. id \in [cols -> FreeColumns] /\ \A x, y \in cols : id[x] = id[y] => x = y
  <2> HIDE DEF id
  <2> QED
    BY <1>1 DEF Injection, IsInjective
<1>3. FreeColumns \subseteq ColumnIds
  BY DEF FreeColumns
<1>4. IsFiniteSet(cols)
  <2>1. IsFiniteSet(FreeColumns)
    BY <1>3, InventoryConstantsOK, FS_Subset
  <2> HIDE DEF id
  <2> QED
    BY <1>1, <2>1, FS_Injection
<1>5. turn \in Bijection(cols, 1..Cardinality(cols))
  <2>1. ExistsBijection(cols, 1..Cardinality(cols))
    BY <1>4, FS_CardinalityType, Fun_ExistsBijSymmetric
  <2>2. Turns(cols) # {}
    BY <2>1 DEF Turns, ExistsBijection
  <2>3. turn \in Turns(cols)
    BY <2>2
  <2> QED
    BY <2>3 DEF Turns
<1>6. /\ \A x \in cols : turn[x] \in 1..Cardinality(cols)
      /\ \A x, y \in cols : turn[x] = turn[y] => x = y
  <2> HIDE DEF turn
  <2> QED
    BY <1>5 DEF Bijection, Injection, IsInjective
<1>7. last + 1 \in Nat /\ \A c \in ColumnsOf(columns, p) : columns[c].order <= last
  <2>1. NextOrder(columns, Orders(columns, p)) \in Nat
        /\ \A c \in ColumnsOf(columns, p) :
              columns[c].order < NextOrder(columns, Orders(columns, p))
    BY NextOrderIsLast
  <2>2. \A c \in ColumnsOf(columns, p) : columns[c].order \in Nat
    BY ColumnsTyped DEF TablesTyped, IsTemplate, ColumnRow
  <2> QED
    BY <2>1, <2>2
<1>8. Cardinality(cols) \in Nat
  BY <1>4, FS_CardinalityType
<1>9. v = [w EXCEPT !.cols = g]
  BY DEF AddColumns
<1>10. DOMAIN w = Parts
  BY DEF Shape
<1>11. DOMAIN g = {id[col] : col \in cols}
  OBVIOUS
<1>12. ASSUME NEW c \in DOMAIN g
       PROVE  /\ Of(c) \in cols /\ id[Of(c)] = c
              /\ g[c] = [Of(c) EXCEPT !.order = last + turn[Of(c)]]
  <2>1. \E x \in cols : id[x] = c
    BY <1>12
  <2> HIDE DEF id, turn, last
  <2> QED
    BY <2>1, <1>12
<1>13. /\ v.cols = g
       /\ DOMAIN v = Parts /\ Same(v, w)
       /\ v.pc = w.pc /\ v.new = w.new /\ v.put = w.put /\ v.orders = w.orders
       /\ v.k = w.k
  <2> HIDE DEF g, v
  <2> QED
    BY <1>9, <1>10 DEF Same, Parts
<1>14. Shape(v)
  <2> HIDE DEF g, v
  <2> QED
    BY <1>13 DEF Shape
<1>15. DOMAIN g \subseteq FreeColumns
  BY <1>2, <1>11
<1> HIDE DEF id, turn, last, Of, g, v
<1>16. last \in Int
  <2>1. NextOrder(columns, Orders(columns, p)) \in Nat
    BY NextOrderIsLast
  <2> QED
    BY <2>1 DEF last
<1>17. ASSUME NEW c \in DOMAIN g
       PROVE  /\ g[c] \in ColumnRow
              /\ g[c].product = p
              /\ g[c].order = last + turn[Of(c)]
              /\ turn[Of(c)] \in Nat /\ turn[Of(c)] >= 1
  <2>1. Of(c) \in ColumnRow /\ Of(c).product = p
    BY <1>12
  <2>2. turn[Of(c)] \in Nat /\ turn[Of(c)] >= 1
    BY <1>6, <1>8, <1>12
  <2>3. last + turn[Of(c)] \in Nat
    BY <1>7, <1>16, <2>2
  <2>4. g[c] = [Of(c) EXCEPT !.order = last + turn[Of(c)]]
    BY <1>12
  <2> QED
    BY <2>1, <2>2, <2>3, <2>4 DEF ColumnRow
<1>18. ASSUME NEW c \in DOMAIN g
       PROVE  \A d \in ColumnsOf(columns, p) : columns[d].order < g[c].order
  <2>1. \A d \in ColumnsOf(columns, p) : columns[d].order \in Nat
    BY ColumnsTyped DEF TablesTyped, IsTemplate, ColumnRow
  <2> QED
    BY <1>7, <1>17, <1>16, <2>1
<1>19. ASSUME NEW c \in DOMAIN g, NEW d \in DOMAIN g, g[c].order = g[d].order
       PROVE  c = d
  <2>1. turn[Of(c)] = turn[Of(d)]
    BY <1>17, <1>16, <1>19
  <2>2. Of(c) = Of(d)
    BY <1>6, <1>12, <2>1
  <2> QED
    BY <1>12, <2>2
<1> QED
  BY <1>13, <1>14, <1>15, <1>17, <1>18, <1>19 DEF v

-----------------------------------------------------------------------------
(* Requests that begin                                                      *)

Started(v) ==
    /\ Working(v)
    /\ v.at = edits
    /\ DesignsNothing(v)
    /\ AloneOK(v)
    /\ Ordered(columns) => Ordered(Template(v))
    /\ DOMAIN v.cols \subseteq FreeColumns
    /\ v.row # Null => FormOK(v)

\* A request that writes setups: neither a form nor an import.
LEMMA SetupsStart ==
    ASSUME TypesInv, NEW p, NEW v, Shape(v), PutTyped(v), Same(v, Begin("write", p)),
           v.pc = "write", v.cols = Begin("write", p).cols,
           v.orders = Begin("write", p).orders
    PROVE  Started(v) /\ v.token = 0
<1> DEFINE w == Begin("write", p)
<1>1. /\ Quiet(w) /\ w.token = 0 /\ w.at = edits
      /\ DOMAIN w.cols = {} /\ DOMAIN w.orders = {}
      /\ w.row = Null /\ DOMAIN w.asked = {} /\ w.book = Null /\ w.fresh = {}
  BY BeginFields
<1>2. /\ Quiet(v) /\ v.token = 0 /\ v.at = edits
      /\ DOMAIN v.cols = {} /\ DOMAIN v.orders = {}
      /\ v.row = Null /\ DOMAIN v.asked = {} /\ v.book = Null /\ v.fresh = {}
  <2> HIDE DEF w
  <2> QED
    BY <1>1 DEF Same, Quiet, w
<1>3. ColsTyped(v) /\ KindTyped(v) /\ DesignsNothing(v) /\ AloneOK(v)
  BY <1>2 DEF ColsTyped, KindTyped, DesignsNothing, AloneOK
<1>4. Working(v)
  <2>1. edits \in Nat
    BY DEF TypesInv, TablesTyped
  <2> QED
    BY <1>2, <1>3, <2>1, QuietTyped DEF Working
<1>5. Template(v) = columns
  BY <1>2, TemplateUntouched DEF TypesInv
<1> QED
  BY <1>2, <1>3, <1>4, <1>5 DEF Started

\* Nothing has been put at the beginning.
LEMMA BeginPuts ==
    ASSUME NEW pc, NEW p
    PROVE  Shape(Begin(pc, p)) /\ PutTyped(Begin(pc, p)) /\ Untouched(Begin(pc, p))
<1> DEFINE w == Begin(pc, p)
<1>1. Shape(w) /\ Untouched(w)
  BY BeginFields
<1> HIDE DEF w
<1>2. PutTyped(w)
  BY <1>1 DEF Untouched, PutTyped
<1> QED
  BY <1>1, <1>2 DEF w

\* What an administrator enters fits the fixed fields.
LEMMA FixedFits ==
    ASSUME NEW r, r \in [product : Products, ip : Ips, host : Hosts, owner : Owners \union {Null}],
           NEW f \in Fixed
    PROVE  Fits(f, r[f])
BY FixedFields DEF Fits, Fixed

\* SetupService.create begins with a row that fits.
LEMMA CreateReadStarts ==
    ASSUME TypesInv, NEW s \in Sessions, CreateRead(s)
    PROVE  \E v : Begins(s, v) /\ Started(v) /\ v.token = 0
<1>1. PICK r \in Rows :
        Begins(s, Insert(Begin("write", r.product), CHOOSE i \in FreeIds : TRUE, r))
  BY DEF CreateRead
<1> DEFINE i == CHOOSE x \in FreeIds : TRUE
           w == Begin("write", r.product)
           v == Insert(w, i, r)
<1>2. i \in Ids
  BY DEF CreateRead, FreeIds
<1>3. Shape(w) /\ PutTyped(w) /\ w.pc = "write"
  BY BeginPuts, BeginFields
<1>4. \A f \in Fixed : Fits(f, r[f])
  BY FixedFits, InventoryConstantsOK
<1> HIDE DEF i, w
<1>5. /\ Shape(v) /\ PutTyped(v) /\ Same(v, w) /\ v.pc = "write"
      /\ v.cols = w.cols /\ v.orders = w.orders
  BY <1>2, <1>3, <1>4, InsertFields, InsertPuts
<1> HIDE DEF v
<1>6. Started(v) /\ v.token = 0
  BY <1>5, SetupsStart DEF w
<1> QED
  BY <1>1, <1>6 DEF v, w, i

\* SetupService.update begins with a field that fits.
LEMMA UpdateReadStarts ==
    ASSUME TypesInv, NEW s \in Sessions, UpdateRead(s)
    PROVE  \E v : Begins(s, v) /\ Started(v) /\ v.token = 0
<1>1. PICK i \in LiveIn(setups), r \in Rows, f \in Fixed :
        Begins(s, Write(Begin("write", setups[i]["product"]), i, [g \in {f} |-> r[g]]))
  BY DEF UpdateRead
<1> DEFINE w == Begin("write", setups[i]["product"])
           new == [g \in {f} |-> r[g]]
           v == Write(w, i, new)
<1>2. i \in Ids
  BY DEF LiveIn, TypesInv, TablesTyped
<1>3. Shape(w) /\ PutTyped(w) /\ w.pc = "write"
  BY BeginPuts, BeginFields
<1>4. \A g \in Fields : g \in DOMAIN new => Fits(g, new[g])
  BY FixedFits, InventoryConstantsOK
<1> HIDE DEF w, new
<1>5. /\ Shape(v) /\ PutTyped(v) /\ Same(v, w) /\ v.pc = "write"
      /\ v.cols = w.cols /\ v.orders = w.orders
  BY <1>2, <1>3, <1>4, WriteFields, WritePuts
<1> HIDE DEF v
<1>6. Started(v) /\ v.token = 0
  BY <1>5, SetupsStart DEF w
<1> QED
  BY <1>1, <1>6 DEF v, w, new

\* set_setup_custom_fields begins with values that fit.
LEMMA ValuesReadStarts ==
    ASSUME TypesInv, NEW s \in Sessions, ValuesRead(s)
    PROVE  \E v : Begins(s, v) /\ Started(v) /\ v.token = 0
<1>1. PICK i \in LiveIn(setups), n \in Headers, e \in Entries :
        Begins(s, SetSetupValues(Begin("write", setups[i]["product"]), i,
                                 setups[i]["product"], [h \in {n} |-> e]))
  BY DEF ValuesRead
<1> DEFINE p == setups[i]["product"]
           w == Begin("write", p)
           given == [h \in {n} |-> e]
           v == SetSetupValues(w, i, p, given)
<1>2. i \in Ids
  BY DEF LiveIn, TypesInv, TablesTyped
<1>3. Shape(w) /\ PutTyped(w) /\ w.pc = "write"
  BY BeginPuts, BeginFields
<1>4. Template(w) = columns
  BY BeginFields, TemplateUntouched DEF TypesInv
<1>5. \A h \in DOMAIN given : given[h] \in Values
  BY InventoryConstantsOK
<1> HIDE DEF w, given
<1> DEFINE new == Serialized(Template(w), p, given)
<1>6. \A g \in Fields : g \in DOMAIN new => Fits(g, new[g])
  BY <1>4, <1>5, SerializedFits DEF IsTemplate, TypesInv, TablesTyped
<1>7. v = Write(w, i, new)
  BY DEF SetSetupValues
<1> HIDE DEF new
<1>8. /\ Shape(v) /\ PutTyped(v) /\ Same(v, w) /\ v.pc = "write"
      /\ v.cols = w.cols /\ v.orders = w.orders
  BY <1>2, <1>3, <1>6, <1>7, WriteFields, WritePuts
<1> HIDE DEF v
<1>9. Started(v) /\ v.token = 0
  BY <1>8, SetupsStart DEF w
<1> QED
  BY <1>1, <1>9 DEF v, w, given, p

\* A form is rendered with what is in the tables.
LEMMA FormOpenStarts ==
    ASSUME TypesInv, NEW s \in Sessions, FormOpen(s)
    PROVE  \E v : Begins(s, v) /\ Started(v) /\ v.token = 0
<1>1. PICK i \in LiveIn(setups), listed \in BOOLEAN :
        LET p == setups[i]["product"] IN
        Begins(s, [Begin("form", p) EXCEPT
            !.id = i, !.row = setups[i], !.listed = listed,
            !.asked = [c \in ColumnsOf(columns, p) |-> columns[c]]])
  BY DEF FormOpen
<1> DEFINE p == setups[i]["product"]
           w == Begin("form", p)
           asked == [c \in ColumnsOf(columns, p) |-> columns[c]]
           v == [w EXCEPT !.id = i, !.row = setups[i], !.listed = listed, !.asked = asked]
<1>2. i \in Ids /\ setups[i] \in SetupRow
  BY DEF LiveIn, TypesInv, TablesTyped
<1>3. /\ Shape(w) /\ PutTyped(w) /\ Untouched(w)
      /\ w.pc = "form" /\ Quiet(w) /\ w.token = 0
      /\ w.at = edits /\ DOMAIN w.cols = {} /\ DOMAIN w.orders = {}
      /\ w.book = Null /\ w.fresh = {}
  BY BeginPuts, BeginFields
<1> HIDE DEF w, asked
<1>4. /\ DOMAIN v = DOMAIN w
      /\ v.id = i /\ v.row = setups[i] /\ v.asked = asked
      /\ v.put = w.put /\ v.new = w.new
      /\ v.pc = "form" /\ Quiet(v) /\ v.token = 0
      /\ v.at = edits /\ v.cols = w.cols /\ v.orders = w.orders
      /\ v.book = Null /\ v.fresh = {}
  BY <1>3 DEF Shape, Parts, Quiet
<1> HIDE DEF v
<1>5. Shape(v) /\ PutTyped(v) /\ Untouched(v)
  BY <1>3, <1>4 DEF Shape, PutTyped, Untouched
<1>6. DOMAIN v.cols = {} /\ DOMAIN v.orders = {}
  BY <1>3, <1>4
<1>7. /\ DOMAIN asked \subseteq ColumnIds
      /\ asked = [c \in ColumnsOf(columns, p) |-> columns[c]]
      /\ \A c \in DOMAIN asked : /\ asked[c] = columns[c] /\ columns[c] \notin NoRow
                                  /\ asked[c] \in ColumnRow
      /\ \A c, d \in DOMAIN asked : asked[c].name = asked[d].name => c = d
  <2>1. DOMAIN asked = ColumnsOf(columns, p) /\ \A c \in DOMAIN asked : asked[c] = columns[c]
    BY DEF asked
  <2>2. ColumnsOf(columns, p) \subseteq ColumnIds
        /\ \A c \in ColumnsOf(columns, p) : columns[c] \in ColumnRow
    BY ColumnsTyped DEF IsTemplate, TypesInv, TablesTyped
  <2>3. \A c \in ColumnsOf(columns, p) : /\ c \in LiveIn(columns) /\ columns[c] \notin NoRow
                                         /\ columns[c].product = p
    BY DEF ColumnsOf, LiveIn
  <2>4. \A c, d \in ColumnsOf(columns, p) : columns[c].name = columns[d].name => c = d
    BY <2>3 DEF TypesInv, Keys
  <2> QED
    BY <2>1, <2>2, <2>3, <2>4 DEF asked
<1>8. setups[i] # Null
  BY <1>2, NothingIsNothing
<1>9. ColsTyped(v) /\ KindTyped(v) /\ DesignsNothing(v)
  BY <1>2, <1>4, <1>6, <1>7, <1>8 DEF ColsTyped, KindTyped, DesignsNothing
<1>10. Working(v)
  <2>1. edits \in Nat
    BY DEF TypesInv, TablesTyped
  <2> QED
    BY <1>4, <1>5, <1>9, <2>1, QuietTyped DEF Working
<1>11. FormOK(v)
  <2>1. Steady(v)
    BY <1>4, <1>7 DEF Steady, NoRow
  <2>2. Current(v)
    BY <1>4, <1>7 DEF Current, p
  <2> QED
    BY <1>4, <1>5, <1>6, <1>7, <2>1, <2>2 DEF FormOK, Untouched
<1>12. AloneOK(v)
  BY <1>4 DEF AloneOK
<1>13. Template(v) = columns
  BY <1>6, TemplateUntouched DEF TypesInv
<1>14. Started(v) /\ v.token = 0
  BY <1>4, <1>6, <1>9, <1>10, <1>11, <1>12, <1>13 DEF Started
<1> QED
  BY <1>1, <1>14 DEF v, w, asked, p

\* The columns that a request adds have places of their own.
LEMMA AddsInOrder ==
    ASSUME TypesInv, NEW w, Shape(w), DOMAIN w.orders = {}, NEW p, NEW cols,
           cols \subseteq ColumnRow, \A col \in cols : col.product = p, Spare(cols) # {},
           ColsTyped(AddColumns(w, p, cols)), Ordered(columns)
    PROVE  Ordered(Template(AddColumns(w, p, cols)))
<1> DEFINE v == AddColumns(w, p, cols)
           T == Template(v)
<1>1. TablesTyped
  BY DEF TypesInv
<1>2. v.orders = w.orders
  BY <1>1, AddFields
<1>3. \A c \in DOMAIN v.cols :
        /\ v.cols[c].product = p
        /\ \A d \in ColumnsOf(columns, p) : columns[d].order < v.cols[c].order
        /\ \A d \in DOMAIN v.cols : v.cols[c].order = v.cols[d].order => c = d
  BY <1>1, AddFields
<1> HIDE DEF v
<1>4. \A c \in ColumnIds :
        /\ c \in DOMAIN v.cols => T[c] = v.cols[c]
        /\ c \notin DOMAIN v.cols =>
            /\ c \in LiveIn(T) => c \in LiveIn(columns)
            /\ T[c] = columns[c]
  BY <1>1, <1>2, TemplateRows DEF v
<1>5. \A c \in LiveIn(T) : c \in ColumnIds
  BY DEF LiveIn, Template
<1>6. \A c \in LiveIn(columns) : columns[c].order \in Nat
  BY <1>1, ColumnsTyped DEF TablesTyped, IsTemplate, ColumnRow
<1>7. \A c \in DOMAIN v.cols : v.cols[c].order \in Nat
  BY DEF ColsTyped, ColumnRow, v
<1> HIDE DEF T
<1>8. ASSUME NEW c \in LiveIn(T), NEW d \in LiveIn(T),
             T[c].product = T[d].product, T[c].order = T[d].order
      PROVE  c = d
  <2>1. CASE c \in DOMAIN v.cols /\ d \in DOMAIN v.cols
    BY <1>3, <1>4, <1>5, <1>8, <2>1
  <2>2. CASE c \notin DOMAIN v.cols /\ d \notin DOMAIN v.cols
    BY <1>4, <1>5, <1>8, <2>2 DEF Ordered
  <2>3. ASSUME NEW x \in LiveIn(T), NEW y \in LiveIn(T), x \in DOMAIN v.cols,
               y \notin DOMAIN v.cols, T[x].product = T[y].product
        PROVE  T[y].order < T[x].order /\ T[y].order \in Nat /\ T[x].order \in Nat
    <3>1. T[x] = v.cols[x] /\ T[y] = columns[y] /\ y \in LiveIn(columns)
      BY <1>4, <1>5, <2>3
    <3>2. y \in ColumnsOf(columns, p)
      BY <1>3, <2>3, <3>1 DEF ColumnsOf
    <3> QED
      BY <1>3, <1>6, <1>7, <2>3, <3>1, <3>2
  <2>4. CASE c \in DOMAIN v.cols /\ d \notin DOMAIN v.cols
    <3>1. T[d].order < T[c].order /\ T[d].order \in Nat /\ T[c].order \in Nat
      BY <1>8, <2>3, <2>4
    <3> QED
      BY <1>8, <3>1
  <2>5. CASE c \notin DOMAIN v.cols /\ d \in DOMAIN v.cols
    <3>1. T[c].order < T[d].order /\ T[d].order \in Nat /\ T[c].order \in Nat
      BY <1>8, <2>3, <2>5
    <3> QED
      BY <1>8, <3>1
  <2> QED
    BY <2>1, <2>2, <2>4, <2>5
<1> QED
  BY <1>8 DEF Ordered, T, v

\* w changes a template.
Loud(w) == w.designs = TRUE

\* Then its flag is typed.
LEMMA LoudTyped == ASSUME NEW w, Loud(w) PROVE FlagTyped(w)
BY DEF Loud, FlagTyped

\* It may have columns and orders once it writes.
LEMMA LoudDesigns == ASSUME NEW w, Loud(w), w.pc = "write" PROVE DesignsNothing(w)
BY DEF Loud, DesignsNothing

\* add_column begins with a column that follows the others.
LEMMA ColumnAddStarts ==
    ASSUME TypesInv, NEW s \in Sessions, ColumnAdd(s)
    PROVE  \E v : Begins(s, v) /\ Started(v) /\ v.token = 0
<1>0. PICK new \in NewColumns :
        LET col == [new EXCEPT !.name = Norm[new.name]] IN
        /\ Spare({col}) # {}
        /\ Begins(s, AddColumns([Begin("write", col.product) EXCEPT !.designs = TRUE],
                                col.product, {col}))
  BY DEF ColumnAdd
<1>1. PICK col :
        /\ col = [new EXCEPT !.name = Norm[new.name]]
        /\ Spare({col}) # {}
        /\ Begins(s, AddColumns([Begin("write", col.product) EXCEPT !.designs = TRUE],
                                col.product, {col}))
  BY <1>0
<1> DEFINE p == col.product
           x == Begin("write", p)
           w == [x EXCEPT !.designs = TRUE]
           more == {col}
           v == AddColumns(w, p, more)
<1>2. TablesTyped /\ edits \in Nat
  BY DEF TypesInv, TablesTyped
<1>3. /\ Shape(x) /\ PutTyped(x)
      /\ x.pc = "write" /\ x.token = 0
      /\ x.at = edits /\ DOMAIN x.cols = {} /\ DOMAIN x.orders = {}
      /\ x.row = Null /\ DOMAIN x.asked = {} /\ x.book = Null /\ x.fresh = {}
  BY BeginPuts, BeginFields
<1> HIDE DEF x
<1>4. /\ Loud(w)
      /\ DOMAIN w = DOMAIN x /\ w.put = x.put /\ w.new = x.new
      /\ w.pc = "write" /\ w.token = 0
      /\ w.at = edits /\ w.cols = x.cols /\ w.orders = x.orders
      /\ w.row = Null /\ DOMAIN w.asked = {} /\ w.book = Null /\ w.fresh = {}
  BY <1>3 DEF Shape, Parts, Loud
<1> HIDE DEF w
<1>5. Shape(w) /\ PutTyped(w) /\ DOMAIN w.orders = {}
  BY <1>3, <1>4 DEF Shape, PutTyped
<1>6. more \subseteq ColumnRow /\ (\A y \in more : y.product = p) /\ Spare(more) # {}
  <2>1. new \in ColumnRow /\ Norm[new.name] \in Headers
    BY InventoryConstantsOK DEF ColumnRow
  <2>2. col \in ColumnRow
    BY <1>1, <2>1 DEF ColumnRow
  <2> QED
    BY <1>1, <2>2
<1> HIDE DEF p, more
<1>7. /\ Shape(v) /\ Same(v, w)
      /\ v.pc = w.pc /\ v.new = w.new /\ v.put = w.put /\ v.orders = w.orders
      /\ DOMAIN v.cols \subseteq FreeColumns
      /\ \A c \in DOMAIN v.cols : v.cols[c] \in ColumnRow
  BY <1>2, <1>5, <1>6, AddFields
<1>8. Ordered(columns) /\ ColsTyped(v) => Ordered(Template(v))
  BY <1>5, <1>6, AddsInOrder
<1> HIDE DEF v
<1>9. ColsTyped(v)
  BY <1>5, <1>7 DEF ColsTyped, FreeColumns
<1>10. PutTyped(v)
  BY <1>5, <1>7 DEF PutTyped
<1>11. /\ v.at = edits /\ v.row = Null /\ v.book = Null /\ v.pc = "write" /\ v.token = 0
       /\ DOMAIN v.asked = {} /\ v.fresh = {} /\ Loud(v)
  BY <1>4, <1>7 DEF Same, Loud
<1>12. Working(v)
  BY <1>2, <1>7, <1>9, <1>10, <1>11, LoudTyped DEF Working, KindTyped
<1>13. DesignsNothing(v) /\ AloneOK(v)
  BY <1>11, LoudDesigns DEF AloneOK
<1>14. Started(v)
  BY <1>7, <1>8, <1>9, <1>11, <1>12, <1>13 DEF Started
<1> QED
  BY <1>1, <1>11, <1>14 DEF v, w, x, p, more

\* The columns that a request reorders exchange the places from 0.
LEMMA ReorderedInOrder ==
    ASSUME TypesInv, NEW p, NEW o, NEW v,
           \A c, d \in ColumnsOf(columns, p) : c # d => o[c] # o[d],
           ColsTyped(v), DOMAIN v.cols = {},
           DOMAIN v.orders = {d \in ColumnsOf(columns, p) : columns[d].order # o[d]},
           \A c \in DOMAIN v.orders : v.orders[c] = o[c],
           Ordered(columns)
    PROVE  Ordered(Template(v))
<1> DEFINE T == Template(v)
<1>1. TablesTyped
  BY DEF TypesInv
<1>2. ASSUME NEW c \in LiveIn(T)
      PROVE  /\ c \in LiveIn(columns) /\ T[c].product = columns[c].product
             /\ T[c].order = IF T[c].product = p THEN o[c] ELSE columns[c].order
  <2>1. c \in ColumnIds
    BY DEF LiveIn, Template
  <2>2. /\ c \in LiveIn(columns)
        /\ T[c].product = columns[c].product
        /\ T[c].order = IF c \in DOMAIN v.orders THEN v.orders[c] ELSE columns[c].order
    BY <1>1, <1>2, <2>1, TemplateRows
  <2>3. c \in ColumnsOf(columns, p) <=> T[c].product = p
    BY <2>2 DEF ColumnsOf
  <2> HIDE DEF T
  <2> QED
    BY <2>2, <2>3
<1> HIDE DEF T
<1>3. ASSUME NEW c \in LiveIn(T), NEW d \in LiveIn(T),
             T[c].product = T[d].product, T[c].order = T[d].order
      PROVE  c = d
  <2>1. CASE T[c].product = p
    <3>1. c \in ColumnsOf(columns, p) /\ d \in ColumnsOf(columns, p)
      BY <1>2, <1>3, <2>1 DEF ColumnsOf
    <3>2. o[c] = o[d]
      BY <1>2, <1>3, <2>1
    <3> QED
      BY <3>1, <3>2
  <2>2. CASE T[c].product # p
    BY <1>2, <1>3, <2>2 DEF Ordered
  <2> QED
    BY <2>1, <2>2
<1> QED
  BY <1>3 DEF Ordered, T

\* reorder_columns begins with places that differ.
LEMMA ColumnsReorderStarts ==
    ASSUME TypesInv, NEW s \in Sessions, ColumnsReorder(s)
    PROVE  \E v : Begins(s, v) /\ Started(v) /\ v.token = 0
<1>1. PICK p \in products :
        LET C == ColumnsOf(columns, p)
            Places == {o \in [C -> 0..(Cardinality(C) - 1)] :
                          \A c, d \in C : c # d => o[c] # o[d]}
        IN \E o \in Places :
            Begins(s, [Begin("write", p) EXCEPT !.designs = TRUE,
                !.orders = [c \in {d \in C : columns[d].order # o[d]} |-> o[c]]])
  BY DEF ColumnsReorder
<1> DEFINE C == ColumnsOf(columns, p)
<1>2. PICK o \in [C -> 0..(Cardinality(C) - 1)] :
        /\ \A c, d \in C : c # d => o[c] # o[d]
        /\ Begins(s, [Begin("write", p) EXCEPT !.designs = TRUE,
                !.orders = [c \in {d \in C : columns[d].order # o[d]} |-> o[c]]])
  BY <1>1
<1> DEFINE x == Begin("write", p)
           orders == [c \in {d \in C : columns[d].order # o[d]} |-> o[c]]
           v == [x EXCEPT !.designs = TRUE, !.orders = orders]
<1>3. TablesTyped /\ edits \in Nat /\ C \subseteq ColumnIds
  BY ColumnsTyped DEF TypesInv, TablesTyped, IsTemplate
<1>4. \A c \in C : o[c] \in Nat
  <2>1. Cardinality(C) \in Nat
    BY <1>3, InventoryConstantsOK, FS_Subset, FS_CardinalityType
  <2> HIDE DEF C
  <2> QED
    BY <2>1
<1>5. /\ Shape(x) /\ PutTyped(x)
      /\ x.pc = "write" /\ x.token = 0
      /\ x.at = edits /\ DOMAIN x.cols = {}
      /\ x.row = Null /\ DOMAIN x.asked = {} /\ x.book = Null /\ x.fresh = {}
  BY BeginPuts, BeginFields
<1>6. /\ DOMAIN orders = {d \in C : columns[d].order # o[d]}
      /\ \A c \in DOMAIN orders : orders[c] = o[c]
  OBVIOUS
<1> HIDE DEF x, orders
<1>7. /\ Loud(v) /\ v.orders = orders
      /\ DOMAIN v = DOMAIN x /\ v.put = x.put /\ v.new = x.new
      /\ v.pc = "write" /\ v.token = 0
      /\ v.at = edits /\ v.cols = x.cols
      /\ v.row = Null /\ DOMAIN v.asked = {} /\ v.book = Null /\ v.fresh = {}
  BY <1>5 DEF Shape, Parts, Loud
<1> HIDE DEF v
<1>8. Shape(v) /\ PutTyped(v)
  BY <1>5, <1>7 DEF Shape, PutTyped
<1>9. DOMAIN v.cols = {}
  BY <1>5, <1>7
<1>10. ColsTyped(v)
  <2> HIDE DEF C
  <2> QED
    BY <1>3, <1>4, <1>6, <1>7, <1>9 DEF ColsTyped
<1>11. Working(v)
  BY <1>3, <1>7, <1>8, <1>10, LoudTyped DEF Working, KindTyped
<1>12. DesignsNothing(v) /\ AloneOK(v)
  BY <1>7, LoudDesigns DEF AloneOK
<1>13. Ordered(columns) => Ordered(Template(v))
  BY <1>2, <1>6, <1>7, <1>9, <1>10, ReorderedInOrder
<1>14. Started(v)
  BY <1>7, <1>9, <1>11, <1>12, <1>13 DEF Started
<1> QED
  BY <1>2, <1>7, <1>14 DEF v, x, orders

\* The rows of a workbook are numbered from one.
LEMMA BookRows ==
    ASSUME NEW b \in Books
    PROVE  /\ b.rows \in Seq(BookRow)
           /\ Len(b.rows) \in Nat
           /\ b.rows # <<>> => 1 \in 1..Len(b.rows)
           /\ DOMAIN b.rows = 1..Len(b.rows)
           /\ \A k \in 1..Len(b.rows) : b.rows[k] \in BookRow
<1>1. b.rows \in Seq(BookRow)
  BY BooksOK
<1> QED
  BY <1>1

\* An import that begins is at the first row and has written none.
FreshImport(v, pc, p, b) ==
    /\ Shape(v) /\ PutTyped(v) /\ Untouched(v) /\ Quiet(v) /\ ColsTyped(v)
    /\ v.pc = pc /\ v.product = p /\ v.token = 0
    /\ v.at = edits /\ DOMAIN v.cols = {} /\ DOMAIN v.orders = {}
    /\ v.row = Null /\ DOMAIN v.asked = {} /\ v.book = b
    /\ v.fresh = {} /\ v.k = 1

\* So it is when it has been made.
LEMMA ImportFields ==
    ASSUME TypesInv, NEW pc, NEW p, NEW b \in Books, NEW web
    PROVE  FreshImport(Import(pc, p, b, web), pc, p, b)
<1> DEFINE v == Import(pc, p, b, web)
           x == Begin(pc, p)
<1>1. /\ Shape(x) /\ PutTyped(x) /\ Untouched(x) /\ Quiet(x)
      /\ x.pc = pc /\ x.product = p /\ x.token = 0
      /\ x.at = edits /\ DOMAIN x.cols = {} /\ DOMAIN x.orders = {}
      /\ x.row = Null /\ DOMAIN x.asked = {} /\ x.fresh = {} /\ x.k = 1
  BY BeginPuts, BeginFields
<1>2. v = [x EXCEPT !.book = b, !.web = web]
  BY DEF Import
<1> HIDE DEF x, v
<1>3. /\ Quiet(v) /\ DOMAIN v = DOMAIN x /\ v.put = x.put /\ v.new = x.new
      /\ v.pc = pc /\ v.product = p /\ v.token = 0
      /\ v.at = edits /\ v.cols = x.cols /\ v.orders = x.orders
      /\ v.row = Null /\ DOMAIN v.asked = {} /\ v.fresh = {} /\ v.k = 1
      /\ v.book = b
  BY <1>1, <1>2 DEF Shape, Parts, Quiet
<1>4. Shape(v) /\ PutTyped(v) /\ Untouched(v)
  BY <1>1, <1>3 DEF Shape, PutTyped, Untouched
<1>5. DOMAIN v.cols = {} /\ DOMAIN v.orders = {}
  BY <1>1, <1>3
<1>6. ColsTyped(v)
  BY <1>5 DEF ColsTyped
<1> QED
  BY <1>3, <1>4, <1>5, <1>6 DEF v, FreshImport

\* import_setups begins before the first row.
LEMMA PlainStarts ==
    ASSUME TypesInv, NEW b \in Books, NEW web
    PROVE  LET v == Import(Ready(b), Null, b, web) IN Started(v) /\ v.token = 0
<1> DEFINE v == Import(Ready(b), Null, b, web)
<1>2. /\ Shape(v) /\ PutTyped(v) /\ Untouched(v) /\ Quiet(v) /\ ColsTyped(v)
      /\ v.pc = Ready(b) /\ v.product = Null /\ v.token = 0
      /\ v.at = edits /\ DOMAIN v.cols = {} /\ DOMAIN v.orders = {}
      /\ v.row = Null /\ DOMAIN v.asked = {} /\ v.book = b
      /\ v.fresh = {} /\ v.k = 1
  <2>1. FreshImport(v, Ready(b), Null, b)
    BY ImportFields
  <2> HIDE DEF v
  <2> QED
    BY <2>1 DEF FreshImport
<1> HIDE DEF v
<1>3. KindTyped(v)
  BY <1>2, BookRows, NothingIsNothing DEF KindTyped, Ready
<1>4. Working(v)
  <2>1. edits \in Nat
    BY DEF TypesInv, TablesTyped
  <2> QED
    BY <1>2, <1>3, <2>1, QuietTyped DEF Working
<1>5. DesignsNothing(v)
  BY <1>2 DEF DesignsNothing, Ready
<1>6. Done(v, 1)
  <2>1. DOMAIN b.rows = 1..Len(b.rows)
    BY BookRows
  <2> QED
    BY <1>2, <2>1 DEF Done
<1>7. AloneOK(v)
  BY <1>2, <1>6 DEF AloneOK, Imports, Ready
<1>8. Template(v) = columns
  BY <1>2, TemplateUntouched DEF TypesInv
<1>9. Started(v)
  BY <1>2, <1>4, <1>5, <1>7, <1>8 DEF Started
<1> QED
  BY <1>2, <1>9 DEF v

\* So it does when it is asked for.
LEMMA PlainImportStarts ==
    ASSUME TypesInv, NEW s \in Sessions, PlainImport(s)
    PROVE  \E v : Begins(s, v) /\ Started(v) /\ v.token = 0
<1>1. PICK b \in Books : Begins(s, Import(Ready(b), Null, b, FALSE))
  BY DEF PlainImport
<1>2. Started(Import(Ready(b), Null, b, FALSE)) /\ Import(Ready(b), Null, b, FALSE).token = 0
  BY PlainStarts
<1> QED
  BY <1>1, <1>2

\* import_setups_for_product begins before its columns are added.
LEMMA AcceptStarts ==
    ASSUME TypesInv, NEW p \in Products, NEW b \in Books, NEW web, NEW n \in Nat, NEW v,
           v = Accept(p, b, web, n)
    PROVE  Started(v) /\ v.token = n
<1> DEFINE x == Import("accept", p, b, web)
<1>1. /\ Shape(x) /\ PutTyped(x) /\ Untouched(x) /\ Quiet(x) /\ ColsTyped(x)
      /\ x.pc = "accept" /\ x.product = p /\ x.token = 0
      /\ x.at = edits /\ DOMAIN x.cols = {} /\ DOMAIN x.orders = {}
      /\ x.row = Null /\ DOMAIN x.asked = {} /\ x.book = b
      /\ x.fresh = {} /\ x.k = 1
  <2>1. FreshImport(x, "accept", p, b)
    BY ImportFields
  <2> HIDE DEF x
  <2> QED
    BY <2>1 DEF FreshImport
<1> DEFINE H == NewHeaders(p, b)
<1>2. v = [x EXCEPT !.fresh = H, !.designs = (H # {}), !.token = n]
  BY DEF Accept
<1>3. H \subseteq Headers
  BY BooksOK DEF NewHeaders
<1> HIDE DEF H, x
<1>4. /\ DOMAIN v = DOMAIN x /\ v.put = x.put /\ v.new = x.new
      /\ v.pc = "accept" /\ v.product = p /\ v.token = n
      /\ v.at = edits /\ v.cols = x.cols /\ v.orders = x.orders
      /\ v.row = Null /\ DOMAIN v.asked = {} /\ v.book = b /\ v.k = 1
      /\ v.fresh = H
  BY <1>1, <1>2 DEF Shape, Parts
<1>5. v.designs = (H # {})
  BY <1>1, <1>2 DEF Shape, Parts
<1>6. Shape(v) /\ PutTyped(v) /\ Untouched(v)
  BY <1>1, <1>4 DEF Shape, PutTyped, Untouched
<1>7. DOMAIN v.cols = {} /\ DOMAIN v.orders = {}
  BY <1>1, <1>4
<1>8. ColsTyped(v)
  BY <1>7 DEF ColsTyped
<1>9. FlagTyped(v)
  BY <1>5 DEF FlagTyped
<1>10. ~v.designs => v.fresh = {}
  BY <1>4, <1>5
<1>11. DesignsNothing(v)
  BY <1>7, <1>10 DEF DesignsNothing
<1>12. KindTyped(v)
  BY <1>3, <1>4, BookRows, NothingIsNothing DEF KindTyped
<1>13. Working(v)
  <2>1. edits \in Nat
    BY DEF TypesInv, TablesTyped
  <2> QED
    BY <1>4, <1>6, <1>8, <1>9, <1>12, <2>1 DEF Working
<1>14. AloneOK(v)
  BY <1>4, <1>6 DEF AloneOK, Imports
<1>15. Template(v) = columns
  BY <1>7, TemplateUntouched DEF TypesInv
<1> QED
  BY <1>4, <1>7, <1>11, <1>13, <1>14, <1>15 DEF Started

\* So it does when it is asked for directly,
LEMMA ProductImportStarts ==
    ASSUME TypesInv, NEW s \in Sessions, ProductImport(s)
    PROVE  \E v : Begins(s, v) /\ Started(v) /\ v.token = 0
<1>1. PICK b \in Books, p \in products, web \in BOOLEAN :
        Begins(s, Accept(p, b, web, 0))
  BY DEF ProductImport
<1>2. p \in Products
  BY DEF TypesInv, TablesTyped
<1>3. Started(Accept(p, b, web, 0)) /\ Accept(p, b, web, 0).token = 0
  BY <1>2, AcceptStarts
<1> QED
  BY <1>1, <1>3

\* and when an upload is confirmed, with the token of that upload.
LEMMA ImportConfirmStarts ==
    ASSUME TypesInv, NEW s \in Sessions, ImportConfirm(s)
    PROVE  \E u \in pending : \E v :
            /\ Begins(s, v) /\ Started(v)
            /\ v.token = u.token /\ pending' = pending \ {u}
<1>1. PICK u \in pending, web \in BOOLEAN :
        /\ pending' = pending \ {u}
        /\ Begins(s, Accept(u.product, u.book, web, u.token))
  BY DEF ImportConfirm, TakeOut
<1>2. u.product \in Products /\ u.book \in Books /\ u.token \in Nat
  BY DEF TypesInv, PendingTyped, TablesTyped
<1> DEFINE v == Accept(u.product, u.book, web, u.token)
<1>3. Started(v) /\ v.token = u.token
  BY <1>2, AcceptStarts
<1> QED
  BY <1>1, <1>3

-----------------------------------------------------------------------------
(* Requests that continue                                                   *)

\* What becomes of request w when it continues as v.
Carried(v, w) ==
    /\ Working(v) /\ Same(v, w) /\ DesignsNothing(v)
    /\ AloneOK(w) => AloneOK(v)
    /\ Ordered(columns) /\ Ordered(Template(w)) => Ordered(Template(v))
    /\ DOMAIN v.cols \subseteq DOMAIN w.cols \union FreeColumns

\* Only its pc is another.
LEMMA PcFields ==
    ASSUME NEW w, Shape(w), NEW pc, NEW v, v = [w EXCEPT !.pc = pc]
    PROVE  /\ Shape(v) /\ Same(v, w)
           /\ v.pc = pc /\ v.new = w.new /\ v.put = w.put /\ v.cols = w.cols
           /\ v.orders = w.orders /\ v.k = w.k
BY DEF Shape, Parts, Same

\* So it has put the same.
LEMMA PcPuts ==
    ASSUME NEW w, NEW v, v.put = w.put, v.new = w.new
    PROVE  PutTyped(w) => PutTyped(v)
BY DEF PutTyped

\* Requests with the same columns have them typed.
LEMMA ColsSame ==
    ASSUME NEW w, NEW v, v.cols = w.cols, v.orders = w.orders
    PROVE  ColsTyped(w) => ColsTyped(v)
BY DEF ColsTyped

\* A request that goes on to its rows or to its commit stays typed.
LEMMA WorksOn ==
    ASSUME NEW w, Working(w), NEW v, Same(v, w), Shape(v), PutTyped(v), ColsTyped(v),
           v.pc \in {"write", "rows"},
           v.pc = "rows" => v.book # Null /\ v.k \in 1..Len(v.book.rows)
    PROVE  Working(v)
<1>1. FlagTyped(v)
  BY DEF Working, Same, FlagTyped
<1>2. KindTyped(v)
  BY DEF Working, Same, KindTyped
<1> QED
  BY <1>1, <1>2 DEF Working, Same

\* It has the columns and orders it had, if it has said that it changes a template.
LEMMA DesignsSame ==
    ASSUME NEW w, DesignsNothing(w), NEW v, Same(v, w), v.cols = w.cols,
           v.orders = w.orders, v.pc # "accept"
    PROVE  DesignsNothing(v)
BY DEF DesignsNothing, Same

\* What the inputs of a form offer fits the fields they are for.
LEMMA EditsFit ==
    ASSUME NEW w, DOMAIN w.asked \subseteq ColumnIds, NEW e \in Edits(w)
    PROVE  Fits(e.field, e.entry)
<1> DEFINE A == {[field |-> f, entry |-> r[f]] : f \in FormKeys, r \in Rows}
           B == {[field |-> f, entry |-> Null] : f \in {"owner"} \union DOMAIN w.asked}
           Of(c) == {[field |-> c, entry |-> v] : v \in Entries \intersect Shows(w.asked[c])}
           C == UNION {Of(c) : c \in DOMAIN w.asked}
<1>1. e \in A \union B \union C
  BY DEF Edits
<1>2. CASE e \in A
  <2>1. PICK f \in FormKeys, r \in Rows : e = [field |-> f, entry |-> r[f]]
    BY <1>2
  <2>2. f \in Fixed
    BY DEF FormKeys, Fixed
  <2> QED
    BY <2>1, <2>2, FixedFits, InventoryConstantsOK
<1>3. CASE e \in B
  <2>1. PICK f \in {"owner"} \union ColumnIds : e = [field |-> f, entry |-> Null]
    BY <1>3
  <2> QED
    BY <2>1, FixedFields DEF Fits
<1>4. CASE e \in C
  <2>1. PICK c \in DOMAIN w.asked : e \in Of(c)
    BY <1>4
  <2>2. PICK v \in Entries : e = [field |-> c, entry |-> v]
    BY <2>1
  <2> QED
    BY <2>2, FixedFields, InventoryConstantsOK DEF Fits
<1> QED
  BY <1>1, <1>2, <1>3, <1>4

\* So what they have when the form is sent fits.
LEMMA InputFits ==
    ASSUME NEW y, y.row \in SetupRow, Fits(y.edit.field, y.edit.entry),
           NEW f \in FormKeys \union ColumnIds
    PROVE  Fits(f, Input(y, f))
<1>1. f \in Fields /\ (f \in FormKeys => f \notin ColumnIds)
  BY FixedFields DEF FormKeys
<1>2. CASE f = y.edit.field
  BY <1>2 DEF Input
<1>3. CASE f # y.edit.field /\ Shown(y, f)
  BY <1>1, <1>3, RowFits DEF Input
<1>4. CASE f # y.edit.field /\ ~Shown(y, f)
  <2>1. f = "owner" \/ f \in ColumnIds
    BY <1>4 DEF Shown
  <2>2. Fits(f, Null)
    BY <2>1, FixedFields DEF Fits
  <2> QED
    BY <1>4, <2>2 DEF Input
<1> QED
  BY <1>2, <1>3, <1>4

\* And what is received is a value of a custom column, if it is not blank.
LEMMA RawFits ==
    ASSUME NEW y, y.row \in SetupRow, Fits(y.edit.field, y.edit.entry),
           DOMAIN y.asked \subseteq ColumnIds, NEW p, NEW d \in Received(y, p)
    PROVE  Raw(y, d) \in Values \union {Null}
<1>1. CASE columns[d].kind = "BOOLEAN"
  BY <1>1, InventoryConstantsOK DEF Raw
<1>2. CASE columns[d].kind # "BOOLEAN"
  <2> DEFINE c == CHOOSE x \in Sent(y) : y.asked[x].name = columns[d].name
  <2>1. c \in Sent(y)
    BY DEF Received
  <2>2. Raw(y, d) = Input(y, c)
    BY <1>2 DEF Raw
  <2> HIDE DEF c
  <2>3. c \in ColumnIds
    BY <2>1 DEF Sent
  <2>4. Fits(c, Input(y, c))
    BY <2>3, InputFits
  <2> QED
    BY <2>2, <2>3, <2>4 DEF Fits
<1> QED
  BY <1>1, <1>2

\* Names are unique in a template: a column is given what was received for it,
\* unless that is blank.
LEMMA GivenRaw ==
    ASSUME TypesInv, NEW y, NEW p
    PROVE  LET given == Given(y, p) IN
           /\ \A d \in ColumnsOf(columns, p) :
                /\ columns[d].name \in DOMAIN given <=> d \in Received(y, p) /\ Raw(y, d) # Null
                /\ columns[d].name \in DOMAIN given => given[columns[d].name] = Raw(y, d)
           /\ \A n \in DOMAIN given : \E d \in Received(y, p) :
                given[n] = Raw(y, d) /\ Raw(y, d) # Null
<1> DEFINE filled == {d \in Received(y, p) : Raw(y, d) # Null}
           Of(n) == CHOOSE d \in filled : columns[d].name = n
           given == Given(y, p)
<1>1. /\ DOMAIN given = {columns[d].name : d \in filled}
      /\ \A n \in DOMAIN given : given[n] = Raw(y, Of(n))
  BY DEF Given
<1>2. \A d \in filled : d \in Received(y, p) /\ Raw(y, d) # Null
  OBVIOUS
<1>3. \A d \in Received(y, p) : Raw(y, d) # Null => d \in filled
  OBVIOUS
<1>4. \A d \in Received(y, p) : d \in ColumnsOf(columns, p)
  BY DEF Received
<1>5. \A d, x \in ColumnsOf(columns, p) : columns[d].name = columns[x].name => d = x
  BY DEF TypesInv, Keys, ColumnsOf
<1> HIDE DEF filled, given
<1>6. \A n \in DOMAIN given : Of(n) \in filled /\ columns[Of(n)].name = n
  BY <1>1
<1> HIDE DEF Of
<1>7. ASSUME NEW d \in ColumnsOf(columns, p)
      PROVE  /\ columns[d].name \in DOMAIN given <=> d \in filled
             /\ columns[d].name \in DOMAIN given => given[columns[d].name] = Raw(y, d)
  <2>1. ASSUME columns[d].name \in DOMAIN given PROVE Of(columns[d].name) = d
    BY <1>2, <1>4, <1>5, <1>6, <2>1
  <2> QED
    BY <1>1, <1>6, <2>1
<1> QED
  BY <1>1, <1>2, <1>3, <1>6, <1>7 DEF given

\* What a form y has put when it writes as u: its fixed fields, and the custom
\* fields that were received or have a default.
Saved(u, y) ==
    /\ Shape(u) /\ Same(u, y) /\ PutTyped(u)
    /\ u.pc = y.pc /\ u.edit = y.edit
    /\ u.new = y.new /\ u.cols = y.cols /\ u.orders = y.orders
    /\ \A j \in Ids : j # y.id => u.put[j] = y.put[j]
    /\ LET p == setups[y.id]["product"]
           given == Given(y, p)
           T == Template(y)
       IN \A f \in Fields :
            \/ u.put[y.id][f] = y.put[y.id][f]
            \/ f \in FormKeys /\ u.put[y.id][f] = Input(y, f)
            \/ /\ f \in ColumnsOf(T, p)
               /\ T[f].name \in DOMAIN given
               /\ u.put[y.id][f] = given[T[f].name]
            \/ /\ f \in ColumnsOf(T, p)
               /\ T[f].name \notin DOMAIN given
               /\ T[f].default # Null
               /\ u.put[y.id][f] = T[f].default

\* A form that is sent with the edit e.
Edited(w, e) == [w EXCEPT !.pc = "write", !.edit = e]

\* It has everything that it had.
LEMMA EditedFields ==
    ASSUME NEW w, Working(w), w.row # Null, NEW e \in Edits(w), NEW y, y = Edited(w, e)
    PROVE  /\ Shape(y) /\ Same(y, w) /\ PutTyped(y)
           /\ y.pc = "write" /\ y.edit = e
           /\ y.new = w.new /\ y.put = w.put /\ y.cols = w.cols /\ y.orders = w.orders
           /\ y.row \in SetupRow /\ y.id \in Ids /\ y.id = w.id
           /\ Fits(y.edit.field, y.edit.entry)
           /\ DOMAIN y.asked \subseteq ColumnIds
<1>1. /\ Shape(w) /\ PutTyped(w)
      /\ w.row \in SetupRow /\ w.id \in Ids
      /\ DOMAIN w.asked \subseteq ColumnIds
  BY DEF Working, KindTyped
<1>2. /\ Shape(y) /\ Same(y, w) /\ y.pc = "write" /\ y.edit = e
      /\ y.new = w.new /\ y.put = w.put /\ y.cols = w.cols /\ y.orders = w.orders
  BY <1>1 DEF Edited, Shape, Parts, Same
<1>3. y.row = w.row /\ y.id = w.id /\ y.asked = w.asked
  BY <1>2 DEF Same
<1>4. Fits(e.field, e.entry)
  BY <1>1, EditsFit
<1>5. PutTyped(y)
  BY <1>1, <1>2, PcPuts
<1> QED
  BY <1>1, <1>2, <1>3, <1>4, <1>5

\* setup_edit_save writes the fixed fields, and then perhaps the custom fields.
LEMMA FormSaves ==
    ASSUME TypesInv, NEW s \in Sessions, FormSave(s), Working(proc[s])
    PROVE  \E e \in Edits(proc[s]) : \E u : Continues(s, u) /\ Saved(u, Edited(proc[s], e))
<1>1. PICK e \in Edits(proc[s]), refused \in BOOLEAN :
        LET w == [proc[s] EXCEPT !.pc = "write", !.edit = e]
            p == setups[w.id]["product"]
            fixed == Write(w, w.id, FormFields(w))
        IN Continues(s, IF \/ refused \/ Received(w, p) = {}
                           \/ Invalid(columns, p, Given(w, p))
                        THEN fixed
                        ELSE SetSetupValues(fixed, w.id, p, Given(w, p)))
  BY DEF FormSave
<1>2. PICK y : y = Edited(proc[s], e)
  OBVIOUS
<1> DEFINE i == y.id
           p == setups[i]["product"]
           given == Given(y, p)
           x == Write(y, i, FormFields(y))
           v == SetSetupValues(x, i, p, given)
<1>3. Continues(s, x) \/ Continues(s, v)
  BY <1>1, <1>2 DEF Edited
<1>4. proc[s].row # Null
  BY DEF FormSave, Working, KindTyped
<1>5. /\ Shape(y) /\ PutTyped(y)
      /\ y.row \in SetupRow /\ i \in Ids
      /\ Fits(y.edit.field, y.edit.entry)
      /\ DOMAIN y.asked \subseteq ColumnIds
      /\ y.cols = proc[s].cols /\ y.orders = proc[s].orders
  BY <1>2, <1>4, EditedFields
<1> HIDE DEF i, p
<1>6. \A n \in DOMAIN given : given[n] \in Values
  <2>1. ASSUME NEW n \in DOMAIN given PROVE given[n] \in Values
    <3>1. PICK d \in Received(y, p) : given[n] = Raw(y, d) /\ Raw(y, d) # Null
      BY GivenRaw
    <3> QED
      BY <1>5, <3>1, RawFits
  <2> QED
    BY <2>1
<1> HIDE DEF given
<1>7. /\ DOMAIN FormFields(y) = FormKeys
      /\ \A f \in FormKeys : FormFields(y)[f] = Input(y, f) /\ Fits(f, Input(y, f))
  BY <1>5, InputFits DEF FormFields
<1>8. \A f \in Fields : f \in DOMAIN FormFields(y) => Fits(f, FormFields(y)[f])
  BY <1>7
<1>9. /\ Shape(x) /\ Same(x, y) /\ PutTyped(x) /\ x.edit = y.edit
      /\ x.pc = y.pc /\ x.new = y.new /\ x.cols = y.cols /\ x.orders = y.orders
      /\ \A j \in Ids : j # i => x.put[j] = y.put[j]
      /\ \A f \in Fields : \/ x.put[i][f] = y.put[i][f]
                           \/ f \in FormKeys /\ x.put[i][f] = Input(y, f)
  BY <1>5, <1>7, <1>8, WriteFields, WritePuts
<1> HIDE DEF x
<1>10. Template(x) = Template(y)
  BY <1>9, TemplateSame
<1>11. IsTemplate(Template(x))
  <2>1. ColsTyped(x)
    BY <1>5, <1>9, ColsSame DEF Working
  <2> QED
    BY <2>1, TemplateTyped DEF TypesInv
<1> DEFINE T == Template(x)
           new == Serialized(T, p, given)
<1> HIDE DEF T
<1>12. /\ DOMAIN new \subseteq ColumnsOf(T, p)
       /\ \A c \in DOMAIN new :
            /\ new[c] = IF T[c].name \in DOMAIN given THEN given[T[c].name]
                        ELSE T[c].default
            /\ T[c].name \in DOMAIN given \/ T[c].default # Null
       /\ \A f \in Fields : f \in DOMAIN new => Fits(f, new[f])
  <2>1. /\ DOMAIN new \subseteq ColumnsOf(T, p)
        /\ \A c \in DOMAIN new :
                new[c] = IF T[c].name \in DOMAIN given THEN given[T[c].name]
                         ELSE T[c].default
        /\ \A c \in ColumnsOf(T, p) :
                c \in DOMAIN new <=> T[c].name \in DOMAIN given \/ T[c].default # Null
        /\ \A f \in Fields : f \in DOMAIN new => Fits(f, new[f])
    BY <1>6, <1>11, SerializedFits DEF T
  <2> HIDE DEF new
  <2> QED
    BY <2>1
<1>13. v = Write(x, i, new)
  BY DEF SetSetupValues, T
<1> HIDE DEF new
<1>14. /\ Shape(v) /\ Same(v, x) /\ PutTyped(v) /\ v.edit = x.edit
       /\ v.pc = x.pc /\ v.new = x.new /\ v.cols = x.cols /\ v.orders = x.orders
       /\ \A j \in Ids : j # i => v.put[j] = x.put[j]
       /\ \A f \in Fields : \/ v.put[i][f] = x.put[i][f]
                            \/ f \in DOMAIN new /\ v.put[i][f] = new[f]
  BY <1>5, <1>9, <1>12, <1>13, WriteFields, WritePuts
<1> HIDE DEF v
<1>15. Saved(x, y)
  BY <1>9 DEF Saved, i
<1>16. Saved(v, y)
  <2>1. Same(v, y)
    BY <1>9, <1>14 DEF Same
  <2>2. \A j \in Ids : j # i => v.put[j] = y.put[j]
    BY <1>9, <1>14
  <2>3. ASSUME NEW f \in Fields
        PROVE  \/ v.put[i][f] = y.put[i][f]
               \/ f \in FormKeys /\ v.put[i][f] = Input(y, f)
               \/ /\ f \in ColumnsOf(T, p)
                  /\ T[f].name \in DOMAIN given
                  /\ v.put[i][f] = given[T[f].name]
               \/ /\ f \in ColumnsOf(T, p)
                  /\ T[f].name \notin DOMAIN given
                  /\ T[f].default # Null
                  /\ v.put[i][f] = T[f].default
    BY <1>9, <1>12, <1>14
  <2>4. T = Template(y) /\ p = setups[y.id]["product"]
    BY <1>10 DEF T, p, i
  <2> QED
    BY <1>9, <1>14, <2>1, <2>2, <2>3, <2>4 DEF Saved, i, given
<1> QED
  BY <1>2, <1>3, <1>15, <1>16 DEF x, v, i, p, given

\* So a form that is saved goes on as it was.
LEMMA SavedCarries ==
    ASSUME TypesInv, NEW w, Working(w), DesignsNothing(w), w.row # Null,
           NEW e \in Edits(w), NEW v, Saved(v, Edited(w, e))
    PROVE  Carried(v, w) /\ v.pc # "accept"
<1>1. PICK y : y = Edited(w, e)
  OBVIOUS
<1>2. w.book = Null /\ ColsTyped(w)
  BY DEF Working, KindTyped
<1>3. Same(y, w) /\ y.pc = "write" /\ y.cols = w.cols /\ y.orders = w.orders
  BY <1>1, EditedFields
<1>4. /\ Shape(v) /\ Same(v, y) /\ PutTyped(v) /\ v.pc = "write"
      /\ v.cols = w.cols /\ v.orders = w.orders
  BY <1>1, <1>3 DEF Saved
<1>5. Same(v, w) /\ v.book = Null
  BY <1>2, <1>3, <1>4 DEF Same
<1>6. Working(v)
  BY <1>2, <1>4, <1>5, ColsSame, WorksOn
<1>7. DesignsNothing(v)
  BY <1>4, <1>5, DesignsSame
<1>8. Template(v) = Template(w)
  BY <1>4, TemplateSame
<1>9. AloneOK(v)
  BY <1>5 DEF AloneOK
<1> QED
  BY <1>4, <1>5, <1>6, <1>7, <1>8, <1>9 DEF Carried

\* setup_edit_save goes on with what it has put.
LEMMA FormSaveCarries ==
    ASSUME TypesInv, NEW s \in Sessions, FormSave(s), Working(proc[s]),
           DesignsNothing(proc[s])
    PROVE  \E v : Continues(s, v) /\ Carried(v, proc[s]) /\ v.pc # "accept"
<1>1. PICK e \in Edits(proc[s]) : \E v : Continues(s, v) /\ Saved(v, Edited(proc[s], e))
  BY FormSaves
<1>2. proc[s].row # Null
  BY DEF FormSave, Working, KindTyped
<1> QED
  BY <1>1, <1>2, SavedCarries

\* Without new names nothing is added.
LEMMA AddsNothing ==
    ASSUME NEW w, Shape(w), NEW p
    PROVE  DOMAIN AddColumns(w, p, {}).cols = {}
BY DEF AddColumns, Shape, Parts

\* The columns that an import adds for the headers fresh.
Strings(more, p, fresh) == \A col \in more : \E h \in fresh : col = StringColumn(p, Norm[h])

\* They are rows of the table, of the product that the import is for.
LEMMA StringColumns ==
    ASSUME NEW p \in Products, NEW fresh, fresh \subseteq Headers, NEW more,
           Strings(more, p, fresh)
    PROVE  /\ more \subseteq ColumnRow
           /\ \A col \in more : col.product = p
           /\ fresh = {} => more = {}
<1>1. ASSUME NEW n \in Headers PROVE /\ StringColumn(p, n) \in ColumnRow
                                     /\ StringColumn(p, n).product = p
  BY DEF StringColumn, ColumnRow
<1>2. \A h \in fresh : Norm[h] \in Headers
  BY InventoryConstantsOK
<1> QED
  BY <1>1, <1>2 DEF Strings

\* import_setups_for_product: the columns are added, then the rows validated.
LEMMA ImportAcceptCarries ==
    ASSUME TypesInv, NEW s \in Sessions, ImportAccept(s), Working(proc[s]),
           DesignsNothing(proc[s])
    PROVE  \E v : Continues(s, v) /\ Carried(v, proc[s]) /\ v.pc # "accept"
<1> DEFINE w == proc[s]
           p == w.product
           names == {n \in {Norm[h] : h \in w.fresh} \ Mandatory :
                        Named(columns, p, n) = {}}
           more == {StringColumn(p, n) : n \in names}
           ready == AddColumns(w, p, more)
           pc == IF RowErrors(Template(ready), p, w.book) THEN "write" ELSE Ready(w.book)
           v == [ready EXCEPT !.pc = pc]
<1>1. w.pc = "accept" /\ p \in products /\ Spare(more) # {} /\ Continues(s, v)
  BY DEF ImportAccept
<1>2. TablesTyped
  BY DEF TypesInv
<1>3. /\ Shape(w) /\ PutTyped(w)
      /\ w.row = Null /\ w.book # Null /\ w.book \in Books /\ w.fresh \subseteq Headers
      /\ p \in Products /\ p # Null /\ w.k = 1
  BY <1>1, <1>2, NothingIsNothing DEF Working, KindTyped, TablesTyped
<1>4. Strings(more, p, w.fresh)
  BY DEF Strings
<1>5. more \subseteq ColumnRow /\ (\A col \in more : col.product = p)
      /\ (w.fresh = {} => more = {})
  <2> HIDE DEF w, more, p
  <2> QED
    BY <1>3, <1>4, StringColumns
<1>6. DOMAIN w.cols = {} /\ DOMAIN w.orders = {}
  BY <1>1 DEF DesignsNothing
<1> HIDE DEF w, p, more
<1>7. /\ Shape(ready) /\ Same(ready, w)
      /\ ready.new = w.new /\ ready.put = w.put /\ ready.orders = w.orders
      /\ ready.k = w.k
      /\ DOMAIN ready.cols \subseteq FreeColumns
      /\ \A c \in DOMAIN ready.cols : ready.cols[c] \in ColumnRow
  BY <1>1, <1>2, <1>3, <1>5, AddFields
<1>8. more = {} => DOMAIN ready.cols = {}
  BY <1>3, AddsNothing
<1>9. Ordered(columns) /\ ColsTyped(ready) => Ordered(Template(ready))
  BY <1>1, <1>3, <1>5, <1>6, AddsInOrder
<1> HIDE DEF ready
<1>10. /\ pc \in {"write", "rows"}
       /\ pc = "rows" => /\ ~RowErrors(Template(ready), p, w.book)
                         /\ w.k \in 1..Len(w.book.rows)
  BY <1>3, BookRows DEF Ready
<1> HIDE DEF pc
<1>11. /\ Shape(v) /\ Same(v, ready)
       /\ v.pc = pc /\ v.new = ready.new /\ v.put = ready.put /\ v.cols = ready.cols
       /\ v.orders = ready.orders /\ v.k = ready.k
  BY <1>7, PcFields
<1> HIDE DEF v
<1>12. Same(v, w)
  BY <1>7, <1>11 DEF Same
<1>13. ColsTyped(ready) /\ ColsTyped(v)
  BY <1>6, <1>7, <1>11 DEF ColsTyped, FreeColumns
<1>14. PutTyped(v)
  BY <1>3, <1>7, <1>11, PcPuts
<1>15. v.book = w.book /\ v.product = p /\ v.fresh = w.fresh /\ v.row = Null
       /\ v.at = w.at
  BY <1>3, <1>12 DEF Same, p
<1>16. Working(v)
  BY <1>3, <1>7, <1>10, <1>11, <1>12, <1>13, <1>14, <1>15, WorksOn DEF w
<1>17. DesignsNothing(v)
  <2>1. ~v.designs => w.fresh = {}
    BY <1>12 DEF Same, DesignsNothing, w
  <2>2. ~v.designs => DOMAIN v.cols = {} /\ DOMAIN v.orders = {}
    BY <1>5, <1>6, <1>7, <1>8, <1>11, <2>1
  <2> QED
    BY <1>10, <1>11, <1>15, <2>1, <2>2 DEF DesignsNothing
<1>18. Template(v) = Template(ready) /\ Template(w) = columns
  BY <1>2, <1>6, <1>11, TemplateSame, TemplateUntouched
<1>19. ASSUME AloneOK(w) PROVE AloneOK(v)
  <2>1. ASSUME v.at = edits PROVE Imports(v)
    <3>1. Untouched(w) /\ w.k = 1
      BY <1>1, <1>3, <1>15, <1>19, <2>1 DEF AloneOK, Imports, w
    <3>2. Untouched(v) /\ v.k = 1
      BY <1>7, <1>11, <3>1 DEF Untouched
    <3>3. Filled(v, Template(v), View(v))
      BY <3>2, NothingIsNothing DEF Filled, Untouched, LiveIn, View
    <3>4. Done(v, v.k)
      <4>1. DOMAIN v.book.rows = 1..Len(v.book.rows)
        BY <1>3, <1>15, BookRows
      <4> QED
        BY <3>2, <3>3, <4>1 DEF Done
    <3> QED
      BY <1>10, <1>11, <1>15, <1>18, <3>2, <3>4 DEF Imports
  <2> QED
    BY <1>15, <2>1 DEF AloneOK
<1>20. Ordered(columns) => Ordered(Template(v))
  BY <1>9, <1>13, <1>18
<1>21. Carried(v, w)
  BY <1>7, <1>11, <1>12, <1>16, <1>17, <1>19, <1>20 DEF Carried
<1> QED
  BY <1>1, <1>10, <1>11, <1>21 DEF w, v, ready, more, pc, p

\* Requests that have put the same see the same setups.
LEMMA ViewSame ==
    ASSUME NEW v, NEW w, v.put = w.put, v.new = w.new
    PROVE  View(v) = View(w)
BY DEF View

\* A setup that w does not write looks as it did.
LEMMA ViewElsewhere ==
    ASSUME TablesTyped, NEW w, PutTyped(w), NEW v, PutTyped(v), NEW j \in Ids,
           v.put[j] = w.put[j], j \in v.new <=> j \in w.new
    PROVE  /\ j \in LiveIn(View(v)) <=> j \in LiveIn(View(w))
           /\ View(v)[j] = View(w)[j]
<1>1. j \in LiveIn(View(v)) <=> j \in LiveIn(View(w))
  BY ViewRows
<1>2. CASE j \in LiveIn(View(w))
  <2>1. View(v)[j] \in SetupRow /\ View(w)[j] \in SetupRow
        /\ \A f \in Fields : View(v)[j][f] = View(w)[j][f]
    BY <1>1, <1>2, ViewRows
  <2> QED
    BY <1>1, <2>1 DEF SetupRow
<1>3. CASE j \notin LiveIn(View(w))
  BY <1>1, <1>3, ViewRows
<1> QED
  BY <1>2, <1>3

\* A setup that is written looks as it was written.
LEMMA WriteViews ==
    ASSUME TablesTyped, NEW w, Shape(w), PutTyped(w), NEW i, i \in LiveIn(View(w)),
           NEW new, \A f \in Fields : f \in DOMAIN new => Fits(f, new[f])
    PROVE  LET v == Write(w, i, new) IN
           /\ i \in Ids /\ i \in LiveIn(View(v))
           /\ \A f \in Fields :
                View(v)[i][f] = IF f \in DOMAIN new THEN new[f] ELSE View(w)[i][f]
<1> DEFINE v == Write(w, i, new)
<1>1. i \in Ids
  BY DEF LiveIn, View
<1>2. /\ v.new = w.new /\ PutTyped(v)
      /\ \A f \in Fields :
            v.put[i][f] = IF f \in DOMAIN new /\ new[f] # View(w)[i][f] THEN new[f]
                          ELSE w.put[i][f]
  BY <1>1, WriteFields, WritePuts
<1> HIDE DEF v
<1>3. i \in LiveIn(View(v))
  BY <1>1, <1>2, ViewRows
<1>4. \A f \in Fields : f \in DOMAIN new => new[f] # Kept
  BY KeptFitsNothing
<1>5. ASSUME NEW f \in Fields
      PROVE  View(v)[i][f] = IF f \in DOMAIN new THEN new[f] ELSE View(w)[i][f]
  <2>1. /\ View(v)[i][f] = IF v.put[i][f] = Kept THEN setups[i][f] ELSE v.put[i][f]
        /\ View(w)[i][f] = IF w.put[i][f] = Kept THEN setups[i][f] ELSE w.put[i][f]
    BY <1>1, <1>2, <1>3, ViewRows
  <2> QED
    BY <1>2, <1>4, <2>1
<1> QED
  BY <1>1, <1>3, <1>5 DEF v

\* A setup that is inserted looks as it was inserted.
LEMMA InsertViews ==
    ASSUME TablesTyped, NEW w, Shape(w), PutTyped(w), NEW i \in Ids,
           NEW new, \A f \in Fixed : Fits(f, new[f])
    PROVE  LET v == Insert(w, i, new) IN
           /\ i \in LiveIn(View(v))
           /\ \A f \in Fields :
                View(v)[i][f] = IF f \in Fixed THEN new[f] ELSE Null
<1> DEFINE v == Insert(w, i, new)
<1>1. /\ v.new = w.new \union {i} /\ PutTyped(v)
      /\ \A f \in Fields : v.put[i][f] = IF f \in Fixed THEN new[f] ELSE Null
  BY InsertFields, InsertPuts
<1> HIDE DEF v
<1>2. i \in LiveIn(View(v))
  BY <1>1, ViewRows
<1>3. \A f \in Fields :
        View(v)[i][f] = IF v.put[i][f] = Kept THEN setups[i][f] ELSE v.put[i][f]
  BY <1>1, <1>2, ViewRows
<1>4. \A f \in Fields : v.put[i][f] # Kept
  BY <1>1 DEF PutTyped
<1> QED
  BY <1>1, <1>2, <1>3, <1>4 DEF v

\* A row of a workbook without custom cells.
Bare(r) == r.custom = <<>>

\* It has no cells.
LEMMA BareDomain == ASSUME NEW r, Bare(r) PROVE DOMAIN r.custom = {}
BY DEF Bare

\* What row r of a workbook, for product p, puts in the fixed fields.
FixedOf(r, p) == [f \in Fixed |-> IF f = "product" THEN p ELSE r[f]]

\* The fixed fields of a row of a workbook fit.
LEMMA FixedOfFits ==
    ASSUME NEW r \in BookRow, NEW p \in Products
    PROVE  /\ DOMAIN FixedOf(r, p) = Fixed
           /\ \A f \in Fixed : Fits(f, FixedOf(r, p)[f])
           /\ \A f \in {"ip", "host", "owner"} : FixedOf(r, p)[f] = r[f]
<1>1. /\ DOMAIN FixedOf(r, p) = Fixed
      /\ \A f \in Fixed : FixedOf(r, p)[f] = IF f = "product" THEN p ELSE r[f]
  BY DEF FixedOf
<1>2. r.ip \in Ips /\ r.host \in Hosts /\ r.owner \in Owners \union {Null}
  BY DEF BookRow
<1>3. ASSUME NEW f \in Fixed PROVE Fits(f, FixedOf(r, p)[f])
  BY <1>1, <1>2, FixedFields DEF Fits, Fixed
<1> QED
  BY <1>1, <1>3, FixedFields

\* v is w with other setups put.
Follows(v, w) ==
    /\ Shape(v) /\ PutTyped(v) /\ Same(v, w)
    /\ v.cols = w.cols /\ v.orders = w.orders /\ v.k = w.k

\* v sees in setup i what row r asks for; nothing of it was in i before unless an
\* address of i was that of r, and all else is as w has put it.
Lands(v, w, i, r) ==
    /\ i \in Ids /\ i \in LiveIn(View(v))
    /\ \A f \in {"ip", "host", "owner"} : View(v)[i][f] = r[f]
    /\ \A j \in Ids : j # i => v.put[j] = w.put[j] /\ (j \in v.new <=> j \in w.new)
    /\ i \in LiveIn(View(w)) => View(w)[i]["ip"] = r.ip \/ View(w)[i]["host"] = r.host

\* Where ImportRow puts row r.
Goal(w, i, r) ==
    \/ i \in Matching(View(w), r.ip, r.host)
    \/ /\ Matching(View(w), r.ip, r.host) = {}
       /\ i \in FreeIds /\ i \notin w.new

RowUpserted(w, i, r, p) ==
    Upserted(w, i, Matching(View(w), r.ip, r.host), FixedOf(r, p))

\* A row is upserted: one setup, that no earlier row is in, looks like it.
LEMMA UpsertedFields ==
    ASSUME TablesTyped, NEW w, Shape(w), PutTyped(w), NEW r \in BookRow, NEW p \in Products,
           NEW i, Goal(w, i, r)
    PROVE  LET u == RowUpserted(w, i, r, p) IN Follows(u, w) /\ Lands(u, w, i, r)
<1> DEFINE row == FixedOf(r, p)
           found == Matching(View(w), r.ip, r.host)
           u == RowUpserted(w, i, r, p)
<1>0. u = Upserted(w, i, found, row)
  BY DEF RowUpserted
<1>1. /\ DOMAIN row = Fixed
      /\ \A f \in Fixed : Fits(f, row[f])
      /\ \A f \in {"ip", "host", "owner"} : row[f] = r[f]
  BY FixedOfFits
<1> HIDE DEF row, u
<1>2. CASE i \in found
  <2>1. /\ i \in LiveIn(View(w))
        /\ View(w)[i]["ip"] = r.ip \/ View(w)[i]["host"] = r.host
    BY <1>2 DEF Matching
  <2>2. u = Write(w, i, row)
    BY <1>0, <1>2 DEF Upserted
  <2>3. \A f \in Fields : f \in DOMAIN row => Fits(f, row[f])
    BY <1>1
  <2>4. /\ i \in Ids /\ i \in LiveIn(View(u))
        /\ \A f \in Fields :
              View(u)[i][f] = IF f \in DOMAIN row THEN row[f] ELSE View(w)[i][f]
    BY <2>1, <2>2, <2>3, WriteViews
  <2>5. /\ Shape(u) /\ PutTyped(u) /\ Same(u, w) /\ u.pc = w.pc
        /\ u.cols = w.cols /\ u.orders = w.orders /\ u.k = w.k /\ u.new = w.new
        /\ \A j \in Ids : j # i => u.put[j] = w.put[j]
    BY <2>2, <2>3, <2>4, WriteFields, WritePuts
  <2>6. \A f \in {"ip", "host", "owner"} : View(u)[i][f] = r[f]
    BY <1>1, <2>4, FixedFields
  <2> QED
    BY <2>1, <2>4, <2>5, <2>6 DEF u, Follows, Lands
<1>3. CASE i \notin found
  <2>1. u = Insert(w, i, row) /\ i \in Ids /\ setups[i] = Unborn /\ i \notin w.new
    BY <1>0, <1>3 DEF Goal, Upserted, FreeIds
  <2>2. i \notin LiveIn(View(w))
    BY <2>1, ViewRows DEF LiveIn, NoRow
  <2>3. /\ i \in LiveIn(View(u))
        /\ \A f \in Fields : View(u)[i][f] = IF f \in Fixed THEN row[f] ELSE Null
    BY <1>1, <2>1, InsertViews
  <2>4. /\ Shape(u) /\ PutTyped(u) /\ Same(u, w) /\ u.pc = w.pc
        /\ u.cols = w.cols /\ u.orders = w.orders /\ u.k = w.k
        /\ u.new = w.new \union {i}
        /\ \A j \in Ids : j # i => u.put[j] = w.put[j]
    BY <1>1, <2>1, InsertFields, InsertPuts
  <2>5. \A f \in {"ip", "host", "owner"} : View(u)[i][f] = r[f]
    BY <1>1, <2>3, FixedFields
  <2> QED
    BY <2>1, <2>2, <2>3, <2>4, <2>5 DEF u, Follows, Lands
<1> QED
  BY <1>2, <1>3

\* The columns of p that ask for a value.
Needed(T, p) == {c \in ColumnsOf(T, p) : Needs(T[c])}

\* Filled is about those columns.
LEMMA FilledNeeded ==
    ASSUME NEW w, NEW T, NEW S
    PROVE  Filled(w, T, S) <=>
            \A i \in LiveIn(S), c \in Needed(T, w.product) :
                i \in w.new \/ (\E f \in Fields : w.put[i][f] # Kept) => S[i][c] # Null
BY Zenon DEF Filled, Needed

\* What fills the columns does so for whoever sees the same and put no more.
LEMMA FilledSame ==
    ASSUME NEW v, NEW y, y.new = v.new, y.put = v.put, y.product = v.product,
           NEW T, NEW S
    PROVE  Filled(v, T, S) <=> Filled(y, T, S)
<1> DEFINE All(w) == \A i \in LiveIn(S), c \in Needed(T, w.product) :
                i \in w.new \/ (\E f \in Fields : w.put[i][f] # Kept) => S[i][c] # Null
<1>1. Filled(v, T, S) <=> All(v)
  BY FilledNeeded
<1>2. Filled(y, T, S) <=> All(y)
  BY FilledNeeded
<1>3. All(v) <=> All(y)
  OBVIOUS
<1> QED
  BY <1>1, <1>2, <1>3

\* If nothing lacks, a required column has been given.
LEMMA LackingNeeded ==
    ASSUME NEW T, NEW p, NEW given, ~Lacking(T, p, given)
    PROVE  \A c \in Needed(T, p) : T[c].name \in DOMAIN given /\ c \in ColumnsOf(T, p)
BY Zenon DEF Lacking, Needed

Valued(given) == \A n \in DOMAIN given : given[n] \in Values

\* v is u with the values given set in setup i, each in the column of its name.
Sets(v, u, i, p, given) ==
    /\ Follows(v, u) /\ v.new = u.new
    /\ \A j \in Ids : j # i => v.put[j] = u.put[j]
    /\ i \in LiveIn(View(v))
    /\ \A f \in {"ip", "host", "owner"} : View(v)[i][f] = View(u)[i][f]
    /\ \A c \in ColumnsOf(Template(u), p) :
        Template(u)[c].name \in DOMAIN given
            => View(v)[i][c] = given[Template(u)[c].name]

\* What SetSetupValues sets and what it leaves alone.
LEMMA SetFields ==
    ASSUME TablesTyped, NEW u, Shape(u), PutTyped(u), ColsTyped(u), NEW p, NEW given,
           Valued(given), NEW i \in Ids, i \in LiveIn(View(u))
    PROVE  Sets(SetSetupValues(u, i, p, given), u, i, p, given)
<1> DEFINE T == Template(u)
           new == Serialized(T, p, given)
           v == SetSetupValues(u, i, p, given)
<1>1. IsTemplate(T)
  BY TemplateTyped
<1> HIDE DEF T
<1>2. /\ DOMAIN new \subseteq ColumnIds
      /\ \A c \in DOMAIN new :
            new[c] = IF T[c].name \in DOMAIN given THEN given[T[c].name]
                     ELSE T[c].default
      /\ \A c \in ColumnsOf(T, p) :
            c \in DOMAIN new <=> T[c].name \in DOMAIN given \/ T[c].default # Null
      /\ \A f \in Fields : f \in DOMAIN new => Fits(f, new[f])
  BY <1>1, SerializedFits DEF Valued
<1>3. v = Write(u, i, new)
  BY DEF SetSetupValues, T
<1> HIDE DEF new
<1>4. /\ Shape(v) /\ PutTyped(v) /\ Same(v, u) /\ v.pc = u.pc /\ v.new = u.new
      /\ v.cols = u.cols /\ v.orders = u.orders /\ v.k = u.k
      /\ \A j \in Ids : j # i => v.put[j] = u.put[j]
  BY <1>2, <1>3, WriteFields, WritePuts
<1>5. /\ i \in LiveIn(View(v))
      /\ \A f \in Fields :
            View(v)[i][f] = IF f \in DOMAIN new THEN new[f] ELSE View(u)[i][f]
  BY <1>2, <1>3, WriteViews
<1> HIDE DEF v
<1>6. \A f \in {"ip", "host", "owner"} : f \in Fields /\ f \notin DOMAIN new
  BY <1>2, FixedFields
<1>7. ASSUME NEW c \in ColumnsOf(T, p), T[c].name \in DOMAIN given
      PROVE  View(v)[i][c] = given[T[c].name]
  BY <1>2, <1>5, <1>7, FixedFields
<1> QED
  BY <1>4, <1>5, <1>6, <1>7 DEF v, T, Follows, Sets

\* When row k is in setup i, the rows up to k are written: the earlier ones are in
\* other setups.
LEMMA RowDone ==
    ASSUME TablesTyped, NEW w, PutTyped(w), NEW v, Follows(v, w),
           w.book \in Books, w.k \in 1..Len(w.book.rows), Done(w, w.k),
           NEW r, r = w.book.rows[w.k], NEW i, Lands(v, w, i, r),
           w.product # Null =>
            /\ \A n \in DOMAIN r.custom : \E c \in ColumnsOf(Template(w), w.product) :
                Template(w)[c].name = n /\ View(v)[i][c] = r.custom[n]
            /\ \A c \in Needed(Template(w), w.product) : View(v)[i][c] # Null
    PROVE  Done(v, w.k + 1)
<1> DEFINE T == Template(w)
           p == w.product
           rows == w.book.rows
<1>0. /\ i \in Ids /\ i \in LiveIn(View(v))
      /\ \A f \in {"ip", "host", "owner"} : View(v)[i][f] = r[f]
      /\ i \in LiveIn(View(w)) => View(w)[i]["ip"] = r.ip \/ View(w)[i]["host"] = r.host
  BY DEF Lands
<1>1. \A j \in Ids : j # i => /\ j \in LiveIn(View(v)) <=> j \in LiveIn(View(w))
                              /\ View(v)[j] = View(w)[j]
                              /\ v.put[j] = w.put[j] /\ (j \in v.new <=> j \in w.new)
  BY ViewElsewhere DEF Lands, Follows
<1>2. v.book = w.book /\ v.product = p /\ Template(v) = T
  BY TemplateSame DEF Same, Follows
<1>3. DOMAIN rows = 1..Len(rows) /\ Len(rows) \in Nat
  BY BookRows
<1>4. \A j : j \in LiveIn(View(w)) \/ j \in LiveIn(View(v)) => j \in Ids
  BY DEF LiveIn, View
<1>5. ASSUME Disjoint(w.book), NEW k \in DOMAIN rows, k < w.k + 1
      PROVE  Landed(rows[k], p, T, View(v))
  <2>1. CASE k = w.k
    BY <1>0, <2>1 DEF Landed
  <2>2. CASE k # w.k
    <3>1. k < w.k
      BY <1>3, <1>5, <2>2
    <3>2. Landed(rows[k], p, T, View(w))
      BY <1>5, <3>1 DEF Done
    <3>3. PICK j \in LiveIn(View(w)) :
            /\ \A f \in {"ip", "host", "owner"} : View(w)[j][f] = rows[k][f]
            /\ p # Null => \A n \in DOMAIN rows[k].custom : \E c \in ColumnsOf(T, p) :
                    T[c].name = n /\ View(w)[j][c] = rows[k].custom[n]
      BY <3>2 DEF Landed
    <3>4. rows[k].ip # r.ip /\ rows[k].host # r.host
      BY <1>3, <1>5, <2>2 DEF Disjoint
    <3>5. View(w)[j]["ip"] = rows[k].ip /\ View(w)[j]["host"] = rows[k].host
      BY <3>3
    <3>6. j # i
      BY <1>0, <3>3, <3>4, <3>5
    <3>7. j \in LiveIn(View(v)) /\ View(v)[j] = View(w)[j]
      BY <1>1, <1>4, <3>6
    <3> HIDE DEF rows, T, p
    <3> QED
      BY <3>3, <3>7 DEF Landed
  <2> QED
    BY <2>1, <2>2
<1>6. ASSUME p # Null PROVE Filled(v, T, View(v))
  <2>1. \A j \in LiveIn(View(w)), c \in Needed(T, p) :
            j \in w.new \/ (\E f \in Fields : w.put[j][f] # Kept) => View(w)[j][c] # Null
    BY <1>6, FilledNeeded DEF Done
  <2>2. ASSUME NEW j \in LiveIn(View(v)), NEW c \in Needed(T, p),
               j \in v.new \/ (\E f \in Fields : v.put[j][f] # Kept)
        PROVE  View(v)[j][c] # Null
    <3>1. CASE j = i
      BY <1>6, <3>1
    <3>2. CASE j # i
      BY <1>1, <1>4, <2>1, <2>2, <3>2
    <3> QED
      BY <3>1, <3>2
  <2> HIDE DEF T, p
  <2> QED
    BY <1>2, <2>2, FilledNeeded
<1> QED
  BY <1>2, <1>5, <1>6 DEF Done

\* What ImportRow makes of u, into which row r has been upserted.
RowSet(u, w, i, r, p) ==
    IF w.product = Null \/ Bare(r) THEN u ELSE SetSetupValues(u, i, p, r.custom)

\* The custom values of r are set, each in the column of its name.
RowFills(v, w, i, r) ==
    w.product # Null =>
        \A c \in ColumnsOf(Template(w), w.product) :
            Template(w)[c].name \in DOMAIN r.custom
                => View(v)[i][c] = r.custom[Template(w)[c].name]

\* The same, for the cells of a row.
LEMMA RowSetFields ==
    ASSUME TablesTyped, NEW w, Shape(w), PutTyped(w), ColsTyped(w), NEW r \in BookRow,
           NEW p \in Products, w.product # Null => p = w.product, NEW i, Goal(w, i, r)
    PROVE  LET v == RowSet(RowUpserted(w, i, r, p), w, i, r, p) IN
           Follows(v, w) /\ Lands(v, w, i, r) /\ RowFills(v, w, i, r)
<1> DEFINE u == RowUpserted(w, i, r, p)
           v == RowSet(u, w, i, r, p)
           T == Template(w)
<1>1. Follows(u, w) /\ Lands(u, w, i, r)
  BY UpsertedFields
<1>2. Valued(r.custom)
  BY DEF BookRow, Valued
<1> HIDE DEF u
<1>3. Shape(u) /\ PutTyped(u) /\ Same(u, w) /\ u.cols = w.cols /\ u.orders = w.orders
      /\ u.k = w.k /\ i \in Ids /\ i \in LiveIn(View(u))
  BY <1>1 DEF Follows, Lands
<1>4. Template(u) = T
  BY <1>3, TemplateSame
<1>5. ColsTyped(u)
  BY <1>3, ColsSame
<1>6. CASE w.product = Null \/ Bare(r)
  <2>1. v = u
    BY <1>6 DEF RowSet
  <2>2. w.product # Null => DOMAIN r.custom = {}
    BY <1>6, BareDomain
  <2>3. RowFills(u, w, i, r)
    BY <2>2 DEF RowFills
  <2> QED
    BY <1>1, <2>1, <2>3 DEF u
<1>7. CASE ~(w.product = Null \/ Bare(r))
  <2>1. v = SetSetupValues(u, i, p, r.custom) /\ p = w.product
    BY <1>7 DEF RowSet
  <2> HIDE DEF v, T
  <2>2. Sets(v, u, i, p, r.custom)
    BY <1>2, <1>3, <1>5, <2>1, SetFields
  <2>3. Follows(v, w)
    BY <1>1, <2>2 DEF Follows, Same, Sets
  <2>4. Lands(v, w, i, r)
    BY <1>1, <2>2 DEF Lands, Sets
  <2>5. RowFills(v, w, i, r)
    BY <1>4, <2>1, <2>2 DEF RowFills, T, Sets
  <2> QED
    BY <2>3, <2>4, <2>5 DEF v, u
<1> QED
  BY <1>6, <1>7

\* A row whose custom values are valid is done.
LEMMA RowFilled ==
    ASSUME TablesTyped, NEW w, Working(w), w.book # Null, w.pc = "rows", Done(w, w.k),
           NEW r, r = w.book.rows[w.k], NEW i, NEW v,
           Follows(v, w), Lands(v, w, i, r), RowFills(v, w, i, r),
           w.product # Null => ~Invalid(Template(w), w.product, r.custom)
    PROVE  Done(v, w.k + 1)
<1> DEFINE T == Template(w)
<1>1. PutTyped(w) /\ w.book \in Books /\ w.k \in 1..Len(w.book.rows)
  BY DEF Working, KindTyped
<1>2. \A n \in DOMAIN r.custom : r.custom[n] \in Values
  <2>1. r \in BookRow
    BY <1>1, BookRows
  <2> QED
    BY <2>1 DEF BookRow
<1>3. ASSUME w.product # Null
      PROVE  /\ \A n \in DOMAIN r.custom : \E c \in ColumnsOf(T, w.product) :
                    T[c].name = n /\ View(v)[i][c] = r.custom[n]
             /\ \A c \in Needed(T, w.product) : View(v)[i][c] # Null
  <2>1. ~Lacking(T, w.product, r.custom)
        /\ \A n \in DOMAIN r.custom : Named(T, w.product, n) # {}
    BY <1>3 DEF Invalid
  <2>2. \A c \in Needed(T, w.product) : /\ T[c].name \in DOMAIN r.custom
                                        /\ c \in ColumnsOf(T, w.product)
    BY <2>1, LackingNeeded
  <2>3. \A n \in DOMAIN r.custom : \E c \in ColumnsOf(T, w.product) : T[c].name = n
    BY <2>1 DEF Named
  <2>4. \A c \in ColumnsOf(T, w.product) :
            T[c].name \in DOMAIN r.custom => View(v)[i][c] = r.custom[T[c].name]
    BY <1>3 DEF RowFills
  <2> HIDE DEF T
  <2>5. \A c \in Needed(T, w.product) : View(v)[i][c] # Null
    BY <1>2, <2>2, <2>4, NothingIsNothing
  <2> QED
    BY <2>3, <2>4, <2>5
<1> QED
  BY <1>1, <1>3, RowDone

\* What the validation of the custom values of row r refuses.
RowBad(w, r, p) == w.product # Null /\ ~Bare(r) /\ Invalid(Template(w), p, r.custom)

\* A request that has put more, at pc, with row k next.
At(v, pc, k) == [v EXCEPT !.pc = pc, !.k = k]

\* A request that follows another in what it puts carries it on.
LEMMA FollowsCarries ==
    ASSUME NEW w, Working(w), DesignsNothing(w), w.book # Null, NEW v, Follows(v, w),
           NEW pc \in {"write", "rows"}, NEW k, pc = "rows" => k \in 1..Len(w.book.rows),
           AloneOK(w) => AloneOK(At(v, pc, k))
    PROVE  Carried(At(v, pc, k), w) /\ At(v, pc, k).pc # "accept"
<1> DEFINE y == At(v, pc, k)
<1>1. DOMAIN v = Parts
  BY DEF Follows, Shape
<1>2. /\ DOMAIN y = DOMAIN v /\ Same(y, v) /\ y.pc = pc /\ y.k = k
      /\ y.new = v.new /\ y.put = v.put /\ y.cols = v.cols /\ y.orders = v.orders
  BY <1>1 DEF Parts, Same, At
<1> HIDE DEF y
<1>3. Shape(y) /\ PutTyped(y)
  BY <1>2, PcPuts DEF Shape, Follows
<1>4. Same(y, w) /\ y.cols = w.cols /\ y.orders = w.orders
  BY <1>2 DEF Same, Follows
<1>5. ColsTyped(y)
  BY <1>4, ColsSame DEF Working
<1>6. y.book = w.book
  BY <1>4 DEF Same
<1>7. Working(y)
  BY <1>2, <1>3, <1>4, <1>5, <1>6, WorksOn
<1>8. DesignsNothing(y)
  BY <1>2, <1>4, DesignsSame
<1>9. Template(y) = Template(w)
  BY <1>4, TemplateSame
<1> QED
  BY <1>2, <1>4, <1>7, <1>8, <1>9 DEF Carried, y

\* The rows that are done when v goes on at another row, or to its commit.
LEMMA FollowsDone ==
    ASSUME NEW w, NEW v, Follows(v, w), NEW n, Done(v, n), NEW pc, NEW k
    PROVE  Done(At(v, pc, k), n)
<1> DEFINE y == At(v, pc, k)
<1>1. DOMAIN v = Parts
  BY DEF Follows, Shape
<1>2. /\ y.new = v.new /\ y.put = v.put /\ y.cols = v.cols /\ y.orders = v.orders
      /\ y.book = v.book /\ y.product = v.product
  BY <1>1 DEF Parts, At
<1> HIDE DEF y
<1>3. View(y) = View(v) /\ Template(y) = Template(v)
  BY <1>2, ViewSame, TemplateSame
<1>4. Filled(v, Template(v), View(v)) <=> Filled(y, Template(y), View(y))
  <2>1. Filled(v, Template(v), View(v)) <=> Filled(y, Template(v), View(v))
    BY <1>2, FilledSame
  <2> QED
    BY <1>3, <2>1
<1> QED
  BY <1>2, <1>3, <1>4 DEF Done, y

\* The web layer commits the rows so far; or the next row is written, if any.
RowStops(u) == [u EXCEPT !.pc = "write"]
RowGoesOn(v, w) ==
    [v EXCEPT !.pc = IF w.k = Len(w.book.rows) THEN "write" ELSE "rows",
              !.k = IF w.k = Len(w.book.rows) THEN v.k ELSE v.k + 1]

\* A row that is refused: with nothing else committed, there is none.
LEMMA RowStopsCarries ==
    ASSUME NEW w, Working(w), DesignsNothing(w), w.pc = "rows", NEW u, Follows(u, w),
           NEW p, w.product # Null => p = w.product, RowBad(w, w.book.rows[w.k], p)
    PROVE  Carried(RowStops(u), w) /\ RowStops(u).pc # "accept"
<1> DEFINE x == RowStops(u)
<1>1. /\ w.row = Null /\ w.book \in Books /\ w.book # Null /\ w.k \in 1..Len(w.book.rows)
      /\ w.k \in DOMAIN w.book.rows
  BY BookRows DEF Working, KindTyped
<1>2. ASSUME AloneOK(w) PROVE w.at # edits
  <2>1. ASSUME w.at = edits PROVE ~RowErrors(Template(w), w.product, w.book)
    BY <1>1, <1>2, <2>1 DEF AloneOK, Imports, RowBad
  <2>2. RowErrors(Template(w), w.product, w.book)
    BY <1>1 DEF RowErrors, RowBad
  <2> QED
    BY <2>1, <2>2
<1>3. DOMAIN u = Parts /\ u.k = w.k /\ u.at = w.at
  BY DEF Follows, Shape, Same
<1> DEFINE pc == "write"
           k == w.k
<1>4. x = At(u, pc, k) /\ x.at = w.at
  BY <1>3 DEF Parts, RowStops, At
<1>5. AloneOK(w) => AloneOK(x)
  BY <1>2, <1>4 DEF AloneOK
<1> HIDE DEF x
<1>6. pc \in {"write", "rows"} /\ k \in 1..Len(w.book.rows)
  BY <1>1
<1> HIDE DEF pc, k
<1>7. Carried(x, w) /\ x.pc # "accept"
  BY <1>1, <1>4, <1>5, <1>6, FollowsCarries
<1> QED
  BY <1>7 DEF x

\* A row that is written.
LEMMA RowGoesOnCarries ==
    ASSUME TablesTyped, NEW w, Working(w), DesignsNothing(w), w.pc = "rows",
           NEW i, NEW v, Follows(v, w), Lands(v, w, i, w.book.rows[w.k]),
           RowFills(v, w, i, w.book.rows[w.k])
    PROVE  Carried(RowGoesOn(v, w), w) /\ RowGoesOn(v, w).pc # "accept"
<1> DEFINE r == w.book.rows[w.k]
           pc == IF w.k = Len(w.book.rows) THEN "write" ELSE "rows"
           k == IF w.k = Len(w.book.rows) THEN w.k ELSE w.k + 1
           y == RowGoesOn(v, w)
<1>1. /\ w.row = Null /\ w.book \in Books /\ w.book # Null
      /\ w.k \in 1..Len(w.book.rows) /\ Len(w.book.rows) \in Nat
      /\ w.k \in DOMAIN w.book.rows
  BY BookRows DEF Working, KindTyped
<1>2. v.k = w.k /\ Same(v, w) /\ DOMAIN v = Parts
  BY DEF Follows, Shape
<1>3. pc \in {"write", "rows"} /\ k \in 1..Len(w.book.rows)
  BY <1>1
<1>4. y = At(v, pc, k)
  BY <1>2 DEF RowGoesOn, At
<1>5. \/ w.k = Len(w.book.rows) /\ pc = "write" /\ k = w.k
      \/ pc = "rows" /\ k = w.k + 1
  OBVIOUS
<1> HIDE DEF pc, k, y
<1>6. /\ y.pc = pc /\ y.k = k
      /\ y.at = w.at /\ y.row = w.row /\ y.book = w.book /\ y.product = w.product
      /\ y.cols = v.cols /\ y.orders = v.orders
  BY <1>2, <1>4 DEF Parts, Same, At
<1>7. Template(y) = Template(w)
  <2>1. y.cols = w.cols /\ y.orders = w.orders
    BY <1>6 DEF Follows
  <2> QED
    BY <2>1, TemplateSame
<1>8. ASSUME AloneOK(w) PROVE AloneOK(y)
  <2>1. ASSUME w.at = edits PROVE Imports(y)
    <3>1. /\ Done(w, w.k)
          /\ w.product # Null => ~RowErrors(Template(w), w.product, w.book)
      BY <1>1, <1>8, <2>1 DEF AloneOK, Imports
    <3>2. w.product # Null => ~Invalid(Template(w), w.product, r.custom)
      BY <1>1, <3>1 DEF RowErrors
    <3>3. Done(v, w.k + 1)
      <4>1. r = w.book.rows[w.k]
        OBVIOUS
      <4> HIDE DEF r
      <4> QED
        BY <1>1, <3>1, <3>2, <4>1, RowFilled, Zenon
    <3>4. Done(y, w.k + 1)
      BY <1>4, <3>3, FollowsDone
    <3>5. CASE w.k = Len(w.book.rows) /\ pc = "write" /\ k = w.k
      BY <1>6, <3>4, <3>5 DEF Imports
    <3>6. CASE pc = "rows" /\ k = w.k + 1
      BY <1>6, <1>7, <3>1, <3>4, <3>6 DEF Imports
    <3> QED
      BY <1>5, <3>5, <3>6
  <2> QED
    BY <1>1, <1>6, <2>1 DEF AloneOK
<1>9. Carried(y, w) /\ y.pc # "accept"
  BY <1>1, <1>3, <1>4, <1>8, FollowsCarries
<1> QED
  BY <1>9 DEF y

\* import_setups, import_setups_for_product: the rows are written one by one.
LEMMA ImportRowCarries ==
    ASSUME TypesInv, NEW s \in Sessions, ImportRow(s), Working(proc[s]),
           DesignsNothing(proc[s])
    PROVE  \E v : /\ Continues(s, v)
                  /\ v = Idle \/ (Carried(v, proc[s]) /\ v.pc # "accept")
<1> DEFINE w == proc[s]
           r == w.book.rows[w.k]
           p == IF w.product = Null THEN r.product ELSE w.product
           found == Matching(View(w), r.ip, r.host)
<1>1. /\ w.pc = "rows" /\ p \in products
      /\ found = {} => FreeIds \ w.new # {}
  BY DEF ImportRow
<1>2. PICK i \in IF found # {} THEN found ELSE {CHOOSE j \in FreeIds : j \notin w.new} :
        LET u == RowUpserted(w, i, r, p)
            v == RowSet(u, w, i, r, p)
        IN IF RowBad(w, r, p) THEN Continues(s, IF w.web THEN RowStops(u) ELSE Idle)
           ELSE Continues(s, RowGoesOn(v, w))
  BY DEF ImportRow, RowUpserted, RowSet, RowBad, FixedOf, Bare, RowStops, RowGoesOn
<1> DEFINE u == RowUpserted(w, i, r, p)
           v == RowSet(u, w, i, r, p)
<1>3. p \in Products /\ (w.product # Null => p = w.product) /\ TablesTyped
  BY <1>1 DEF TypesInv, TablesTyped
<1>4. Goal(w, i, r)
  BY <1>1, <1>2 DEF Goal
<1>5. \/ RowBad(w, r, p) /\ (Continues(s, RowStops(u)) \/ Continues(s, Idle))
      \/ ~RowBad(w, r, p) /\ Continues(s, RowGoesOn(v, w))
  BY <1>2
<1>6. /\ Shape(w) /\ PutTyped(w) /\ ColsTyped(w) /\ w.book \in Books
      /\ w.k \in 1..Len(w.book.rows)
  BY <1>1 DEF Working, KindTyped
<1>7. r \in BookRow
  BY <1>6, BookRows
<1> HIDE DEF p
<1>8. Follows(u, w)
  BY <1>3, <1>4, <1>6, <1>7, UpsertedFields
<1>9. Follows(v, w) /\ Lands(v, w, i, r) /\ RowFills(v, w, i, r)
  BY <1>3, <1>4, <1>6, <1>7, RowSetFields
<1> HIDE DEF u, v
<1>10. RowBad(w, r, p) => Carried(RowStops(u), w) /\ RowStops(u).pc # "accept"
  BY <1>1, <1>3, <1>8, RowStopsCarries
<1>11. Carried(RowGoesOn(v, w), w) /\ RowGoesOn(v, w).pc # "accept"
  BY <1>1, <1>3, <1>9, RowGoesOnCarries
<1> QED
  BY <1>5, <1>10, <1>11

-----------------------------------------------------------------------------
(* Steps of sessions that leave the tables alone                            *)

\* Idle is no request.
LEMMA IdleOrWorking ==
    /\ Idle.pc = "idle"
    /\ \A v : Working(v) => v.pc # "idle" /\ v # Idle
<1>1. Idle.pc = "idle"
  BY DEF Idle
<1>2. ASSUME NEW v, Working(v) PROVE v.pc # "idle"
  BY <1>2 DEF Working, KindTyped
<1> QED
  BY <1>1, <1>2

\* A busy session has a request, the others are idle.
LEMMA BusyWorks ==
    ASSUME ProcTyped, NEW t
    PROVE  /\ t \in Busy => t \in Sessions /\ Working(proc[t])
           /\ t \in Sessions /\ t \notin Busy => proc[t] = Idle
BY IdleOrWorking DEF ProcTyped, Busy

\* One session becomes v.
LEMMA BusyStep ==
    ASSUME ProcTyped, NEW s \in Sessions, NEW v, v = Idle \/ Working(v),
           proc' = [proc EXCEPT ![s] = v]
    PROVE  /\ ProcTyped'
           /\ \A t \in Sessions : proc'[t] = IF t = s THEN v ELSE proc[t]
           /\ \A t : t \in Busy' <=> /\ t \in Sessions
                                     /\ IF t = s THEN v # Idle ELSE t \in Busy
<1>1. \A t \in Sessions : proc'[t] = IF t = s THEN v ELSE proc[t]
  BY DEF ProcTyped
<1>2. DOMAIN proc' = Sessions
  BY DEF ProcTyped
<1>3. ProcTyped'
  BY <1>1, <1>2 DEF ProcTyped
<1>4. \A t : t \in Busy' <=> t \in Sessions /\ proc'[t].pc # "idle"
  BY DEF Busy
<1>5. \A t : t \in Busy <=> t \in Sessions /\ proc[t].pc # "idle"
  BY DEF Busy
<1>6. v # Idle <=> v.pc # "idle"
  BY IdleOrWorking
<1> QED
  BY <1>1, <1>3, <1>4, <1>5, <1>6

\* What is seen depends on the tables only.
LEMMA SameView ==
    ASSUME NEW w, UNCHANGED tables
    PROVE  Template(w)' = Template(w) /\ View(w)' = View(w)
BY DEF tables, Template, View

\* So what is done stays done,
LEMMA SameDone ==
    ASSUME NEW w, NEW n, UNCHANGED tables
    PROVE  Done(w, n)' <=> Done(w, n)
BY SameView DEF Done

\* an import is as far as it was,
LEMMA SameImports ==
    ASSUME NEW w, UNCHANGED tables
    PROVE  Imports(w)' <=> Imports(w)
<1>1. Done(w, w.k)' <=> Done(w, w.k)
  BY SameDone
<1>2. Done(w, Len(w.book.rows) + 1)' <=> Done(w, Len(w.book.rows) + 1)
  BY SameDone
<1>3. RowErrors(Template(w), w.product, w.book)' <=> RowErrors(Template(w), w.product, w.book)
  BY SameView
<1> QED
  BY <1>1, <1>2, <1>3 DEF Imports

\* as long as nothing is committed.
LEMMA SameAlone ==
    ASSUME NEW w, UNCHANGED tables, UNCHANGED edits
    PROVE  AloneOK(w)' <=> AloneOK(w)
BY SameImports DEF AloneOK

\* A session that is idle again, or that has a request that fits the tables.
Sound(v) == /\ Working(v) /\ DesignsNothing(v) /\ AloneOK(v)
            /\ v.at <= edits

\* One session becomes v and nothing is committed: the others are as they were.
LEMMA ProcStep ==
    ASSUME IInv, NEW s \in Sessions, NEW v, v = Idle \/ Sound(v),
           proc' = [proc EXCEPT ![s] = v], UNCHANGED tables, UNCHANGED edits
    PROVE  /\ ProcTyped' /\ AloneInv' /\ Keys(products, columns, setups)'
           /\ \A t \in Busy' : DesignsNothing(proc'[t])
           /\ \A t \in Sessions : proc'[t] = IF t = s THEN v ELSE proc[t]
           /\ \A t : t \in Busy' <=> /\ t \in Sessions
                                     /\ IF t = s THEN v # Idle ELSE t \in Busy
<1>1. ProcTyped
  BY DEF IInv, TypesInv
<1>2. /\ ProcTyped'
      /\ \A t \in Sessions : proc'[t] = IF t = s THEN v ELSE proc[t]
      /\ \A t : t \in Busy' <=> /\ t \in Sessions
                                /\ IF t = s THEN v # Idle ELSE t \in Busy
  BY <1>1, BusyStep DEF Sound
<1>3. Keys(products, columns, setups)'
  BY DEF IInv, TypesInv, tables
<1>4. \A t \in Busy : DesignsNothing(proc[t]) /\ AloneOK(proc[t]) /\ proc[t].at <= edits
  BY DEF IInv, PlacesInv, AloneInv
<1>5. ASSUME NEW t \in Busy'
      PROVE  DesignsNothing(proc'[t]) /\ AloneOK(proc'[t]) /\ proc'[t].at <= edits
  BY <1>2, <1>4 DEF Sound
<1>6. AloneInv'
  <2>1. ASSUME NEW t \in Busy' PROVE AloneOK(proc[t])' /\ (proc[t].at <= edits)'
    <3>1. PICK w : w = proc'[t]
      OBVIOUS
    <3>2. AloneOK(w)' <=> AloneOK(w)
      BY SameAlone
    <3> QED
      BY <1>5, <3>1, <3>2
  <2> QED
    BY <2>1 DEF AloneInv
<1> QED
  BY <1>2, <1>3, <1>5, <1>6

\* A request that begins changes no table.
LEMMA BeginsTyped ==
    ASSUME IInv, NEW s \in Sessions, NEW v, Begins(s, v), Started(v)
    PROVE  /\ TablesTyped' /\ proc[s] = Idle /\ Sound(v) /\ UNCHANGED tables
           /\ UNCHANGED edits /\ UNCHANGED uploads /\ proc' = [proc EXCEPT ![s] = v]
           /\ s \notin Busy
<1>1. TablesTyped /\ edits \in Nat
  BY DEF IInv, TypesInv, TablesTyped
<1>2. /\ UNCHANGED tables /\ UNCHANGED edits /\ UNCHANGED uploads
      /\ proc[s] = Idle /\ proc' = [proc EXCEPT ![s] = v]
  BY DEF Begins, Goes
<1>3. crossed' \in BOOLEAN
  BY <1>1, Zenon DEF Begins, TablesTyped
<1>4. TablesTyped'
  BY <1>1, <1>2, <1>3 DEF TablesTyped, tables
<1>5. Sound(v)
  BY <1>1 DEF Started, Sound
<1>6. s \notin Busy
  BY <1>2, IdleOrWorking DEF Busy
<1> QED
  BY <1>2, <1>4, <1>5, <1>6

\* Two templates are not changed at once, unless crossed says so.
LEMMA BeginsPlaces ==
    ASSUME IInv, NEW s \in Sessions, NEW v, Begins(s, v), Started(v)
    PROVE  PlacesInv'
<1>1. /\ proc[s] = Idle /\ Sound(v) /\ UNCHANGED tables /\ UNCHANGED edits
      /\ proc' = [proc EXCEPT ![s] = v] /\ s \notin Busy
  BY BeginsTyped
<1>2. /\ \A t \in Busy' : DesignsNothing(proc'[t])
      /\ \A t \in Sessions : proc'[t] = IF t = s THEN v ELSE proc[t]
      /\ \A t : t \in Busy' <=> /\ t \in Sessions
                                /\ IF t = s THEN v # Idle ELSE t \in Busy
  BY <1>1, ProcStep
<1>3. ASSUME ~crossed'
      PROVE  /\ \A t, u \in Busy' : proc'[t].designs /\ proc'[u].designs => t = u
             /\ Ordered(columns)'
             /\ \A t \in Busy' : Ordered(Template(proc[t]))'
  <2>1. ~crossed /\ (v.designs => \A t \in Busy : ~proc[t].designs)
    BY <1>3 DEF Begins
  <2>2. /\ \A t, u \in Busy : proc[t].designs /\ proc[u].designs => t = u
        /\ Ordered(columns)
        /\ \A t \in Busy : Ordered(Template(proc[t]))
    BY <2>1 DEF IInv, PlacesInv
  <2>3. \A t, u \in Busy' : proc'[t].designs /\ proc'[u].designs => t = u
    BY <1>1, <1>2, <2>1, <2>2
  <2>4. Ordered(columns)'
    BY <1>1, <2>2 DEF tables
  <2>5. ASSUME NEW t \in Busy' PROVE Ordered(Template(proc[t]))'
    <3>1. PICK w : w = proc'[t]
      OBVIOUS
    <3>2. Ordered(Template(w))
      BY <1>2, <2>2, <3>1 DEF Started
    <3>3. Template(w)' = Template(w)
      BY <1>1, SameView
    <3> QED
      BY <3>1, <3>2, <3>3
  <2> QED
    BY <2>3, <2>4, <2>5
<1> QED
  BY <1>2, <1>3 DEF PlacesInv

\* A request begins that confirms no upload.
LEMMA BeginsStep ==
    ASSUME IInv, NEW s \in Sessions, UNCHANGED pending,
           \E v : Begins(s, v) /\ Started(v) /\ v.token = 0
    PROVE  IInv' /\ edits' = edits /\ UNCHANGED tables
<1>1. PICK v : Begins(s, v) /\ Started(v) /\ v.token = 0
  OBVIOUS
<1>2. /\ TablesTyped' /\ Sound(v) /\ UNCHANGED tables /\ UNCHANGED edits
      /\ UNCHANGED uploads /\ proc' = [proc EXCEPT ![s] = v] /\ s \notin Busy
  BY <1>1, BeginsTyped
<1>3. /\ ProcTyped' /\ AloneInv' /\ Keys(products, columns, setups)'
      /\ \A t \in Sessions : proc'[t] = IF t = s THEN v ELSE proc[t]
      /\ \A t : t \in Busy' <=> /\ t \in Sessions
                                /\ IF t = s THEN v # Idle ELSE t \in Busy
  BY <1>2, ProcStep
<1>4. PendingTyped'
  BY <1>2 DEF IInv, TypesInv, PendingTyped
<1>5. TokensInv'
  <2>1. uploads \in Nat
    BY DEF IInv, TypesInv, TablesTyped
  <2>2. \A t \in Busy : t \in Sessions
    BY DEF Busy
  <2>3. /\ \A u, x \in pending : u.token = x.token => u = x
        /\ \A t \in Busy : proc[t].token <= uploads
        /\ \A t \in Busy : proc[t].token # 0 =>
            /\ \A u \in Busy : proc[u].token = proc[t].token => u = t
            /\ \A u \in pending : u.token # proc[t].token
    BY DEF IInv, TokensInv, ConfirmedOnce
  <2>4. \A t \in Busy' : proc'[t].token <= uploads
    BY <1>1, <1>3, <2>1, <2>3
  <2>5. ASSUME NEW t \in Busy', proc'[t].token # 0
        PROVE  /\ \A u \in Busy' : proc'[u].token = proc'[t].token => u = t
               /\ \A u \in pending : u.token # proc'[t].token
    BY <1>1, <1>3, <2>3, <2>5
  <2> QED
    BY <1>2, <2>3, <2>4, <2>5 DEF TokensInv, ConfirmedOnce
<1>6. PlacesInv'
  BY <1>1, BeginsPlaces
<1> QED
  BY <1>2, <1>3, <1>4, <1>5, <1>6 DEF IInv, TypesInv

\* An upload is confirmed: its token is taken from those that wait.
LEMMA ConfirmsStep ==
    ASSUME IInv, NEW s \in Sessions, NEW u \in pending, pending' = pending \ {u},
           NEW v, Begins(s, v), Started(v), v.token = u.token
    PROVE  IInv' /\ edits' = edits /\ UNCHANGED tables
<1>2. /\ TablesTyped' /\ Sound(v) /\ UNCHANGED tables /\ UNCHANGED edits
      /\ UNCHANGED uploads /\ proc' = [proc EXCEPT ![s] = v] /\ s \notin Busy
  BY BeginsTyped
<1>3. /\ ProcTyped' /\ AloneInv' /\ Keys(products, columns, setups)'
      /\ \A t \in Sessions : proc'[t] = IF t = s THEN v ELSE proc[t]
      /\ \A t : t \in Busy' <=> /\ t \in Sessions
                                /\ IF t = s THEN v # Idle ELSE t \in Busy
  BY <1>2, ProcStep
<1>4. PendingTyped'
  BY <1>2 DEF IInv, TypesInv, PendingTyped
<1>5. TokensInv'
  <2>1. uploads \in Nat /\ u.token \in 1..uploads
    BY DEF IInv, TypesInv, TablesTyped, PendingTyped
  <2>2. \A t \in Busy : t \in Sessions
    BY DEF Busy
  <2>3. /\ \A y, x \in pending : y.token = x.token => y = x
        /\ \A t \in Busy : proc[t].token <= uploads
        /\ \A t \in Busy : proc[t].token # 0 =>
            /\ \A r \in Busy : proc[r].token = proc[t].token => r = t
            /\ \A y \in pending : y.token # proc[t].token
    BY DEF IInv, TokensInv, ConfirmedOnce
  <2>4. \A t \in Busy' : proc'[t].token <= uploads
    BY <1>3, <2>1, <2>3
  <2>5. ASSUME NEW t \in Busy', proc'[t].token # 0
        PROVE  /\ \A r \in Busy' : proc'[r].token = proc'[t].token => r = t
               /\ \A y \in pending' : y.token # proc'[t].token
    BY <1>3, <2>3, <2>5
  <2> QED
    BY <1>2, <2>3, <2>4, <2>5 DEF TokensInv, ConfirmedOnce
<1>6. PlacesInv'
  BY BeginsPlaces
<1> QED
  BY <1>2, <1>3, <1>4, <1>5, <1>6 DEF IInv, TypesInv

\* A request goes on, or is rolled back.
LEMMA ContinuesStep ==
    ASSUME IInv, NEW s \in Busy,
           \E v : Continues(s, v) /\ (v = Idle \/ (Carried(v, proc[s]) /\ v.pc # "accept"))
    PROVE  IInv' /\ edits' = edits /\ UNCHANGED tables
<1>1. PICK v : Continues(s, v) /\ (v = Idle \/ (Carried(v, proc[s]) /\ v.pc # "accept"))
  OBVIOUS
<1>2. /\ UNCHANGED tables /\ UNCHANGED edits /\ UNCHANGED uploads /\ UNCHANGED crossed
      /\ UNCHANGED pending /\ proc' = [proc EXCEPT ![s] = v] /\ s \in Sessions
  BY <1>1 DEF Continues, Goes, history, Busy
<1>3. AloneOK(proc[s]) /\ proc[s].at <= edits
  BY DEF IInv, AloneInv
<1>4. v = Idle \/ (Sound(v) /\ Same(v, proc[s]))
  BY <1>1, <1>3 DEF Carried, Sound, Same
<1>5. /\ ProcTyped' /\ AloneInv' /\ Keys(products, columns, setups)'
      /\ \A t \in Busy' : DesignsNothing(proc'[t])
      /\ \A t \in Sessions : proc'[t] = IF t = s THEN v ELSE proc[t]
      /\ \A t : t \in Busy' <=> /\ t \in Sessions
                                /\ IF t = s THEN v # Idle ELSE t \in Busy
  BY <1>2, <1>4, ProcStep
<1>6. TablesTyped' /\ PendingTyped'
  BY <1>2 DEF IInv, TypesInv, TablesTyped, PendingTyped, tables
<1>7. \A t \in Busy' : /\ t \in Busy
                       /\ proc'[t].token = proc[t].token
                       /\ proc'[t].designs = proc[t].designs
  BY <1>4, <1>5 DEF Same
<1>8. TokensInv'
  <2>1. /\ \A y, x \in pending : y.token = x.token => y = x
        /\ \A t \in Busy : proc[t].token <= uploads
        /\ \A t \in Busy : proc[t].token # 0 =>
            /\ \A r \in Busy : proc[r].token = proc[t].token => r = t
            /\ \A y \in pending : y.token # proc[t].token
    BY DEF IInv, TokensInv, ConfirmedOnce
  <2>2. \A t \in Busy' : proc'[t].token <= uploads
    BY <1>7, <2>1
  <2>3. ASSUME NEW t \in Busy', proc'[t].token # 0
        PROVE  /\ \A r \in Busy' : proc'[r].token = proc'[t].token => r = t
               /\ \A y \in pending : y.token # proc'[t].token
    BY <1>7, <2>1, <2>3
  <2> QED
    BY <1>2, <2>1, <2>2, <2>3 DEF TokensInv, ConfirmedOnce
<1>9. PlacesInv'
  <2>1. ASSUME ~crossed'
        PROVE  /\ \A t, u \in Busy' : proc'[t].designs /\ proc'[u].designs => t = u
               /\ Ordered(columns)'
               /\ \A t \in Busy' : Ordered(Template(proc[t]))'
    <3>1. ~crossed
      BY <1>2, <2>1
    <3>2. /\ \A t, u \in Busy : proc[t].designs /\ proc[u].designs => t = u
          /\ Ordered(columns)
          /\ \A t \in Busy : Ordered(Template(proc[t]))
      BY <3>1 DEF IInv, PlacesInv
    <3>3. \A t, u \in Busy' : proc'[t].designs /\ proc'[u].designs => t = u
      BY <1>7, <3>2
    <3>4. Ordered(columns)'
      BY <1>2, <3>2 DEF tables
    <3>5. ASSUME NEW t \in Busy' PROVE Ordered(Template(proc[t]))'
      <4>1. PICK w : w = proc'[t]
        OBVIOUS
      <4>2. Ordered(Template(w))
        BY <1>1, <1>5, <1>7, <3>2, <4>1 DEF Carried
      <4>3. Template(w)' = Template(w)
        BY <1>2, SameView
      <4> QED
        BY <4>1, <4>2, <4>3
    <3> QED
      BY <3>3, <3>4, <3>5
  <2> QED
    BY <1>5, <2>1 DEF PlacesInv
<1> QED
  BY <1>2, <1>5, <1>6, <1>8, <1>9 DEF IInv, TypesInv

-----------------------------------------------------------------------------
(* Requests that commit                                                     *)

\* The setups that a request sees are rows of the table.
LEMMA ViewTyped ==
    ASSUME NEW w, TablesTyped, PutTyped(w)
    PROVE  View(w) \in [Ids -> NoRow \union SetupRow]
<1>1. View(w) = [i \in Ids |-> View(w)[i]]
  BY DEF View
<1>2. ASSUME NEW i \in Ids PROVE View(w)[i] \in NoRow \union SetupRow
  BY ViewRows DEF TablesTyped
<1> QED
  BY <1>1, <1>2

\* What the constraints let through keeps the keys.
LEMMA CommitKeys ==
    ASSUME TablesTyped, Keys(products, columns, setups), NEW w, PutTyped(w), ColsTyped(w),
           Consistent(w, Template(w), View(w))
    PROVE  Keys(products, Template(w), View(w))
<1>1. PICK T : T = Template(w)
  OBVIOUS
<1>2. PICK V : V = View(w)
  OBVIOUS
<1>3. /\ Unique(V)
      /\ \A i \in LiveIn(V) :
            /\ V[i]["product"] \in products
            /\ \A c \in ColumnIds : V[i][c] # Null => T[c] \notin NoRow
      /\ \A c \in DOMAIN w.cols :
            /\ T[c].product \in products
            /\ Named(T, T[c].product, T[c].name) = {c}
  BY <1>1, <1>2 DEF Consistent
<1>4. IsTemplate(T)
  BY <1>1, TemplateTyped
<1>5. \A c \in ColumnIds : T[c] \notin NoRow => c \in LiveIn(T)
  BY <1>4, ColumnsTyped DEF LiveIn
<1>6. ASSUME NEW c \in LiveIn(T), c \notin DOMAIN w.cols
      PROVE  /\ c \in LiveIn(columns)
             /\ T[c].product = columns[c].product
             /\ T[c].name = columns[c].name
  <2>1. c \in ColumnIds
    BY <1>4, ColumnsTyped
  <2> QED
    BY <1>1, <1>6, <2>1, TemplateRows
<1>7. /\ \A c \in LiveIn(columns) : columns[c].product \in products
      /\ \A c, d \in LiveIn(columns) :
            columns[c].product = columns[d].product /\ columns[c].name = columns[d].name
                => c = d
  BY DEF Keys
<1>8. \A c \in LiveIn(T) : T[c].product \in products
  BY <1>3, <1>6, <1>7
<1>9. ASSUME NEW c \in LiveIn(T), NEW d \in LiveIn(T), c \in DOMAIN w.cols,
             T[c].product = T[d].product, T[c].name = T[d].name
      PROVE  c = d
  <2>1. d \in Named(T, T[c].product, T[c].name)
    BY <1>9 DEF Named, ColumnsOf
  <2> QED
    BY <1>3, <1>9, <2>1
<1>10. ASSUME NEW c \in LiveIn(T), NEW d \in LiveIn(T),
              T[c].product = T[d].product, T[c].name = T[d].name
       PROVE  c = d
  <2>1. CASE c \in DOMAIN w.cols
    BY <1>9, <1>10, <2>1
  <2>2. CASE d \in DOMAIN w.cols
    BY <1>9, <1>10, <2>2
  <2>3. CASE c \notin DOMAIN w.cols /\ d \notin DOMAIN w.cols
    BY <1>6, <1>7, <1>10, <2>3
  <2> QED
    BY <2>1, <2>2, <2>3
<1>11. Keys(products, T, V)
  BY <1>3, <1>5, <1>8, <1>10 DEF Keys
<1> QED
  BY <1>1, <1>2, <1>11

\* No session but s has a request that it had not; s is idle.
LEMMA EndsTokens ==
    ASSUME IInv, NEW s \in Sessions, proc' = [proc EXCEPT ![s] = Idle],
           UNCHANGED <<pending, uploads>>
    PROVE  TokensInv'
<1>1. ProcTyped
  BY DEF IInv, TypesInv
<1>2. /\ \A t \in Sessions : proc'[t] = IF t = s THEN Idle ELSE proc[t]
      /\ \A t : t \in Busy' <=> /\ t \in Sessions
                                /\ IF t = s THEN Idle # Idle ELSE t \in Busy
  BY <1>1, BusyStep
<1>3. \A t \in Busy' : t \in Busy /\ proc'[t] = proc[t]
  BY <1>2
<1>4. /\ \A y, x \in pending : y.token = x.token => y = x
      /\ \A t \in Busy : proc[t].token <= uploads
      /\ \A t \in Busy : proc[t].token # 0 =>
            /\ \A r \in Busy : proc[r].token = proc[t].token => r = t
            /\ \A y \in pending : y.token # proc[t].token
  BY DEF IInv, TokensInv, ConfirmedOnce
<1>5. \A t \in Busy' : proc'[t].token <= uploads
  BY <1>3, <1>4
<1>6. ASSUME NEW t \in Busy', proc'[t].token # 0
      PROVE  /\ \A r \in Busy' : proc'[r].token = proc'[t].token => r = t
             /\ \A y \in pending : y.token # proc'[t].token
  BY <1>3, <1>4, <1>6
<1> QED
  BY <1>4, <1>5, <1>6 DEF TokensInv, ConfirmedOnce

\* Whoever does not change a template sees the one that is committed; only one
\* request changes templates.
LEMMA CommitPlaces ==
    ASSUME IInv, NEW s \in Busy, proc' = [proc EXCEPT ![s] = Idle],
           columns' = Template(proc[s]), proc[s].pc = "write", UNCHANGED crossed,
           TablesTyped'
    PROVE  PlacesInv'
<1>1. ProcTyped /\ TablesTyped /\ s \in Sessions
  BY DEF IInv, TypesInv, Busy
<1>2. /\ \A t \in Sessions : proc'[t] = IF t = s THEN Idle ELSE proc[t]
      /\ \A t : t \in Busy' <=> /\ t \in Sessions
                                /\ IF t = s THEN Idle # Idle ELSE t \in Busy
  BY <1>1, BusyStep
<1>3. \A t \in Busy' : t \in Busy /\ proc'[t] = proc[t] /\ t # s
  BY <1>2
<1>4. \A t \in Busy' : DesignsNothing(proc'[t])
  BY <1>3 DEF IInv, PlacesInv
<1>5. ASSUME ~crossed'
      PROVE  /\ \A t, u \in Busy' : proc'[t].designs /\ proc'[u].designs => t = u
             /\ Ordered(columns)'
             /\ \A t \in Busy' : Ordered(Template(proc[t]))'
  <2>1. /\ \A t, u \in Busy : proc[t].designs /\ proc[u].designs => t = u
        /\ \A t \in Busy : Ordered(Template(proc[t])) /\ DesignsNothing(proc[t])
    BY <1>5 DEF IInv, PlacesInv
  <2>2. \A t, u \in Busy' : proc'[t].designs /\ proc'[u].designs => t = u
    BY <1>3, <2>1
  <2>3. Ordered(columns')
    BY <2>1
  <2>4. ASSUME NEW t \in Busy' PROVE Ordered(Template(proc[t]))'
    <3>1. PICK w : w = proc'[t]
      OBVIOUS
    <3>2. w = proc[t] /\ t \in Busy /\ t # s
      BY <1>3, <3>1
    <3>3. CASE w.designs
      <4>1. ~proc[s].designs
        BY <2>1, <3>2, <3>3
      <4>2. DOMAIN proc[s].cols = {} /\ DOMAIN proc[s].orders = {}
        BY <2>1, <4>1 DEF DesignsNothing
      <4>3. columns' = columns
        BY <1>1, <4>2, TemplateUntouched
      <4>4. Template(w)' = Template(w)
        BY <4>3 DEF Template
      <4> QED
        BY <2>1, <3>1, <3>2, <4>4
    <3>4. CASE ~w.designs
      <4>1. DOMAIN w.cols = {} /\ DOMAIN w.orders = {}
        BY <2>1, <3>2, <3>4 DEF DesignsNothing
      <4>2. Template(w)' = columns'
        BY <4>1 DEF Template, TablesTyped
      <4> QED
        BY <2>3, <3>1, <4>2
    <3> QED
      BY <3>3, <3>4
  <2> QED
    BY <2>2, <2>3, <2>4
<1> QED
  BY <1>4, <1>5 DEF PlacesInv

\* A commit keeps the invariant.
LEMMA CommitStep ==
    ASSUME IInv, NEW s \in Sessions, Commit(s)
    PROVE  IInv'
<1>1. PICK w : w = proc[s]
  OBVIOUS
<1>2. /\ w.pc = "write" /\ Consistent(w, Template(w), View(w))
      /\ columns' = Template(w) /\ setups' = View(w)
      /\ edits' = IF <<Template(w), View(w)>> = <<columns, setups>> THEN edits
                  ELSE edits + 1
      /\ proc' = [proc EXCEPT ![s] = Idle]
      /\ UNCHANGED <<products, pending, uploads, crossed>>
  BY <1>1 DEF Commit, Goes
<1>3. ProcTyped /\ TablesTyped /\ Keys(products, columns, setups) /\ PendingTyped
  BY DEF IInv, TypesInv
<1>4. s \in Busy /\ Working(w)
  BY <1>1, <1>2, <1>3, BusyWorks DEF Busy
<1>5. PutTyped(w) /\ ColsTyped(w)
  BY <1>4 DEF Working
<1>6. TablesTyped'
  <2>1. columns' \in [ColumnIds -> NoRow \union ColumnRow]
    BY <1>2, <1>3, <1>5, TemplateTyped DEF IsTemplate
  <2>2. setups' \in [Ids -> NoRow \union SetupRow]
    BY <1>2, <1>3, <1>5, ViewTyped
  <2>3. edits' \in Nat
    BY <1>2, <1>3 DEF TablesTyped
  <2> QED
    BY <1>2, <1>3, <2>1, <2>2, <2>3 DEF TablesTyped
<1>7. Keys(products, columns, setups)'
  BY <1>2, <1>3, <1>5, CommitKeys
<1>8. /\ ProcTyped'
      /\ \A t \in Sessions : proc'[t] = IF t = s THEN Idle ELSE proc[t]
      /\ \A t : t \in Busy' <=> /\ t \in Sessions
                                /\ IF t = s THEN Idle # Idle ELSE t \in Busy
  BY <1>2, <1>3, BusyStep
<1>9. PendingTyped'
  BY <1>2, <1>3 DEF PendingTyped
<1>10. TokensInv'
  BY <1>2, EndsTokens
<1>11. PlacesInv'
  BY <1>1, <1>2, <1>4, <1>6, CommitPlaces
<1>12. AloneInv'
  <2>1. ASSUME NEW t \in Busy' PROVE (proc[t].at <= edits)' /\ AloneOK(proc[t])'
    <3>1. PICK x : x = proc'[t]
      OBVIOUS
    <3>2. x = proc[t] /\ t \in Busy
      BY <1>8, <3>1
    <3>3. x.at <= edits /\ AloneOK(x) /\ x.at \in Nat
      BY <1>3, <3>2, BusyWorks DEF IInv, AloneInv, Working
    <3>4. CASE edits' = edits + 1
      <4>1. edits \in Nat
        BY <1>3 DEF TablesTyped
      <4>2. x.at <= edits' /\ x.at # edits'
        BY <3>3, <3>4, <4>1
      <4>3. AloneOK(x)'
        BY <4>2 DEF AloneOK
      <4> QED
        BY <3>1, <4>2, <4>3
    <3>5. CASE edits' # edits + 1
      <4>1. edits' = edits /\ UNCHANGED tables
        BY <1>2, <3>5 DEF tables
      <4>2. AloneOK(x)'
        BY <3>3, <4>1, SameAlone
      <4> QED
        BY <3>1, <3>3, <4>1, <4>2
    <3> QED
      BY <3>4, <3>5
  <2> QED
    BY <2>1 DEF AloneInv
<1> QED
  BY <1>6, <1>7, <1>8, <1>9, <1>10, <1>11, <1>12 DEF IInv, TypesInv

-----------------------------------------------------------------------------
(* What is changed at once                                                  *)

\* The columns of D are columns of C, in their places.
Thinner(D, C) ==
    \A c \in LiveIn(D) :
        /\ c \in LiveIn(C)
        /\ D[c].product = C[c].product
        /\ D[c].name = C[c].name
        /\ D[c].order = C[c].order

\* The keys hold for part of the rows that still have what they refer to.
LEMMA ThinnerKeys ==
    ASSUME NEW P, NEW C, NEW S, Keys(P, C, S), NEW Q, NEW D, NEW R, Thinner(D, C),
           \A i \in LiveIn(R) :
                /\ i \in LiveIn(S) /\ R[i] = S[i] /\ S[i]["product"] \in Q
                /\ \A c \in ColumnIds : S[i][c] # Null => c \in LiveIn(D),
           \A c \in LiveIn(D) : C[c].product \in Q
    PROVE  Keys(Q, D, R)
<1>1. Unique(R)
  BY DEF Keys, Unique
<1>2. \A i \in LiveIn(R) :
        /\ R[i]["product"] \in Q
        /\ \A c \in ColumnIds : R[i][c] # Null => c \in LiveIn(D)
  OBVIOUS
<1>3. \A c, d \in LiveIn(D) :
        /\ D[c].product \in Q
        /\ D[c].product = D[d].product /\ D[c].name = D[d].name => c = d
  BY DEF Keys, Thinner
<1> QED
  BY <1>1, <1>2, <1>3 DEF Keys

\* Part of the columns have different places too.
LEMMA ThinnerOrdered ==
    ASSUME NEW C, NEW D, Thinner(D, C), Ordered(C)
    PROVE  Ordered(D)
BY DEF Thinner, Ordered

\* Then a request sees fewer columns too.
LEMMA ThinnerTemplate ==
    ASSUME TablesTyped, TablesTyped', Thinner(columns', columns),
           NEW w, ColsTyped(w)
    PROVE  Thinner(Template(w)', Template(w))
<1>1. PICK T : T = Template(w)'
  OBVIOUS
<1>2. /\ DOMAIN T = ColumnIds
      /\ \A c \in ColumnIds :
            T[c] = IF c \in DOMAIN w.cols THEN w.cols[c]
                   ELSE IF c \in DOMAIN w.orders /\ columns'[c] \notin NoRow
                        THEN [columns'[c] EXCEPT !.order = w.orders[c]]
                        ELSE columns'[c]
  BY <1>1 DEF Template
<1>3. ASSUME NEW c \in LiveIn(T)
      PROVE  /\ c \in LiveIn(Template(w))
             /\ T[c].product = Template(w)[c].product
             /\ T[c].name = Template(w)[c].name
             /\ T[c].order = Template(w)[c].order
  <2>1. c \in ColumnIds /\ T[c] \notin NoRow
    BY <1>2 DEF LiveIn
  <2>2. CASE c \in DOMAIN w.cols
    BY <1>2, <2>1, <2>2, TemplateRows
  <2>3. CASE c \notin DOMAIN w.cols
    <3>1. columns'[c] \notin NoRow /\ columns'[c] \in NoRow \union ColumnRow
          /\ DOMAIN columns' = ColumnIds
      BY <1>2, <2>1, <2>3 DEF TablesTyped
    <3>2. c \in LiveIn(columns')
      BY <2>1, <3>1 DEF LiveIn
    <3>3. /\ c \in LiveIn(columns)
          /\ columns'[c].product = columns[c].product
          /\ columns'[c].name = columns[c].name
          /\ columns'[c].order = columns[c].order
      BY <3>2 DEF Thinner
    <3>4. CASE c \in DOMAIN w.orders
      <4>1. T[c] = [columns'[c] EXCEPT !.order = w.orders[c]]
        BY <1>2, <2>1, <2>3, <3>1, <3>4
      <4>2. /\ T[c].product = columns[c].product
            /\ T[c].name = columns[c].name
            /\ T[c].order = w.orders[c]
        BY <3>1, <3>3, <4>1 DEF ColumnRow
      <4> QED
        BY <2>1, <2>3, <3>3, <3>4, <4>2, TemplateRows
    <3>5. CASE c \notin DOMAIN w.orders
      <4>1. T[c] = columns'[c]
        BY <1>2, <2>1, <2>3, <3>5
      <4> QED
        BY <2>1, <2>3, <3>3, <3>5, <4>1, TemplateRows
    <3> QED
      BY <3>4, <3>5
  <2> QED
    BY <2>2, <2>3
<1> QED
  BY <1>1, <1>3 DEF Thinner

\* A change at once takes columns away or none, and is a commit of its own.
LEMMA AtOnceStep ==
    ASSUME IInv, AtOnce, TablesTyped', Keys(products, columns, setups)',
           Thinner(columns', columns)
    PROVE  IInv'
<1>1. /\ edits' = edits + 1
      /\ UNCHANGED <<pending, uploads, proc, crossed>>
  BY DEF AtOnce
<1>2. TablesTyped /\ PendingTyped /\ ProcTyped
  BY DEF IInv, TypesInv
<1>3. PendingTyped' /\ ProcTyped' /\ Busy' = Busy
  BY <1>1, <1>2 DEF PendingTyped, ProcTyped, Busy
<1>4. TokensInv'
  BY <1>1, <1>3 DEF IInv, TokensInv, ConfirmedOnce
<1>5. PlacesInv'
  <2>1. \A t \in Busy' : DesignsNothing(proc'[t])
    BY <1>1, <1>3 DEF IInv, PlacesInv
  <2>2. ASSUME ~crossed'
        PROVE  /\ \A t, u \in Busy' : proc'[t].designs /\ proc'[u].designs => t = u
               /\ Ordered(columns)'
               /\ \A t \in Busy' : Ordered(Template(proc[t]))'
    <3>1. /\ \A t, u \in Busy : proc[t].designs /\ proc[u].designs => t = u
          /\ Ordered(columns)
          /\ \A t \in Busy : Ordered(Template(proc[t]))
      BY <1>1, <2>2 DEF IInv, PlacesInv
    <3>2. \A t, u \in Busy' : proc'[t].designs /\ proc'[u].designs => t = u
      BY <1>1, <1>3, <3>1
    <3>3. Ordered(columns')
      BY <3>1, ThinnerOrdered
    <3>4. ASSUME NEW t \in Busy' PROVE Ordered(Template(proc[t]))'
      <4>1. PICK w : w = proc'[t]
        OBVIOUS
      <4>2. w = proc[t] /\ t \in Busy
        BY <1>1, <1>3, <4>1
      <4>3. ColsTyped(w) /\ Ordered(Template(w))
        BY <1>2, <3>1, <4>2, BusyWorks DEF Working
      <4>4. Thinner(Template(w)', Template(w))
        BY <1>2, <4>3, ThinnerTemplate
      <4>5. Ordered(Template(w)')
        BY <4>3, <4>4, ThinnerOrdered
      <4> QED
        BY <4>1, <4>5
    <3> QED
      BY <3>2, <3>3, <3>4
  <2> QED
    BY <2>1, <2>2 DEF PlacesInv
<1>6. AloneInv'
  <2>1. ASSUME NEW t \in Busy' PROVE (proc[t].at <= edits)' /\ AloneOK(proc[t])'
    <3>1. PICK x : x = proc'[t]
      OBVIOUS
    <3>2. x = proc[t] /\ t \in Busy
      BY <1>1, <1>3, <3>1
    <3>3. x.at <= edits /\ x.at \in Nat /\ edits \in Nat
      BY <1>2, <3>2, BusyWorks DEF IInv, AloneInv, Working, TablesTyped
    <3>4. x.at <= edits' /\ x.at # edits'
      BY <1>1, <3>3
    <3>5. AloneOK(x)'
      BY <3>4 DEF AloneOK
    <3> QED
      BY <3>1, <3>4, <3>5
  <2> QED
    BY <2>1 DEF AloneInv
<1> QED
  BY <1>3, <1>4, <1>5, <1>6 DEF IInv, TypesInv

\* The live rows of the tables are typed.
LEMMA LiveTyped ==
    ASSUME TablesTyped
    PROVE  /\ DOMAIN columns = ColumnIds /\ DOMAIN setups = Ids
           /\ \A c \in LiveIn(columns) : c \in ColumnIds /\ columns[c] \in ColumnRow
           /\ \A c \in ColumnIds : columns[c] \notin NoRow => c \in LiveIn(columns)
           /\ \A i \in LiveIn(setups) : i \in Ids /\ setups[i] \in SetupRow
BY DEF TablesTyped, LiveIn

\* The parts of the invariant about the tables.
LEMMA KeysHold ==
    ASSUME IInv
    PROVE  /\ TablesTyped /\ Keys(products, columns, setups)
           /\ \A i \in LiveIn(setups) :
                /\ setups[i]["product"] \in products
                /\ \A c \in ColumnIds : setups[i][c] # Null => c \in LiveIn(columns)
           /\ \A c \in LiveIn(columns) : columns[c].product \in products
BY DEF IInv, TypesInv, Keys

\* update_column changes neither the keys nor the kind of a column.
LEMMA RevisedRow ==
    ASSUME NEW col \in ColumnRow, NEW v \in Revisions
    PROVE  /\ Revised(col, v) \in ColumnRow
           /\ Revised(col, v).product = col.product
           /\ Revised(col, v).name = col.name
           /\ Revised(col, v).order = col.order
           /\ Revised(col, v).kind = col.kind
<1>1. /\ v.required \in BOOLEAN /\ v.default \in Values \union {Null}
      /\ v.takes \in SUBSET Values /\ v.shows \in SUBSET Values
  BY InventoryConstantsOK
<1> QED
  BY <1>1 DEF Revised, ColumnRow

\* So the tables keep their keys.
LEMMA ColumnUpdateStep ==
    ASSUME IInv, NEW c \in ColumnIds, NEW v \in Revisions,
           ColumnUpdate(c, v)
    PROVE  IInv'
<1>1. /\ columns[c] \notin NoRow
      /\ columns' = [columns EXCEPT ![c] = Revised(columns[c], v)]
      /\ AtOnce /\ UNCHANGED <<products, setups>>
  BY DEF ColumnUpdate
<1>2. TablesTyped /\ Keys(products, columns, setups)
  BY KeysHold
<1>3. c \in LiveIn(columns) /\ columns[c] \in ColumnRow
  BY <1>1, <1>2, LiveTyped
<1>4. /\ DOMAIN columns' = ColumnIds
      /\ columns'[c] = Revised(columns[c], v)
      /\ \A d \in ColumnIds : d # c => columns'[d] = columns[d]
  BY <1>1, <1>2 DEF TablesTyped
<1>5. /\ columns'[c] \in ColumnRow
      /\ columns'[c].product = columns[c].product
      /\ columns'[c].name = columns[c].name
      /\ columns'[c].order = columns[c].order
  BY <1>3, <1>4, RevisedRow
<1>6. columns' \in [ColumnIds -> NoRow \union ColumnRow]
  <2>1. columns' = [d \in ColumnIds |-> columns'[d]]
    BY <1>1, <1>2 DEF TablesTyped
  <2> QED
    BY <1>2, <1>4, <1>5, <2>1 DEF TablesTyped
<1>7. \A d : d \in LiveIn(columns') <=> d \in LiveIn(columns)
  BY <1>2, <1>3, <1>4, <1>5, NothingIsNothing, LiveTyped DEF LiveIn
<1>8. Thinner(columns', columns)
  BY <1>2, <1>4, <1>5, <1>7, LiveTyped DEF Thinner
<1>9. Keys(products, columns', setups)
  BY <1>2, <1>7, <1>8, KeysHold, ThinnerKeys
<1>10. TablesTyped' /\ Keys(products, columns, setups)'
  <2>1. edits' \in Nat /\ uploads' \in Nat /\ crossed' \in BOOLEAN
    BY <1>1, <1>2 DEF AtOnce, TablesTyped
  <2> QED
    BY <1>1, <1>2, <1>6, <1>9, <2>1 DEF TablesTyped
<1> QED
  BY <1>1, <1>8, <1>10, AtOnceStep

\* delete_column takes away a column without values.
LEMMA ColumnDeleteStep ==
    ASSUME IInv, NEW c \in ColumnIds, ColumnDelete(c)
    PROVE  IInv'
<1>1. /\ Unused(c) /\ columns' = [columns EXCEPT ![c] = Gone]
      /\ AtOnce /\ UNCHANGED <<products, setups>>
  BY DEF ColumnDelete
<1>2. TablesTyped /\ Keys(products, columns, setups)
  BY KeysHold
<1>3. /\ DOMAIN columns' = ColumnIds
      /\ columns'[c] = Gone
      /\ \A d \in ColumnIds : d # c => columns'[d] = columns[d]
  BY <1>1, <1>2 DEF TablesTyped
<1>4. columns' \in [ColumnIds -> NoRow \union ColumnRow]
  BY <1>1, <1>2 DEF TablesTyped, NoRow
<1>5. \A d : d \in LiveIn(columns') <=> d \in LiveIn(columns) /\ d # c
  BY <1>2, <1>3, LiveTyped DEF LiveIn, NoRow
<1>6. Thinner(columns', columns)
  BY <1>2, <1>3, <1>5, LiveTyped DEF Thinner
<1>7. Keys(products, columns', setups)
  <2>1. \A i \in LiveIn(setups) : setups[i][c] = Null
    BY <1>1 DEF Unused
  <2> QED
    BY <1>2, <1>5, <1>6, <2>1, KeysHold, ThinnerKeys
<1>8. TablesTyped' /\ Keys(products, columns, setups)'
  <2>1. edits' \in Nat /\ uploads' \in Nat /\ crossed' \in BOOLEAN
    BY <1>1, <1>2 DEF AtOnce, TablesTyped
  <2> QED
    BY <1>1, <1>2, <1>4, <1>7, <2>1 DEF TablesTyped
<1> QED
  BY <1>1, <1>6, <1>8, AtOnceStep

\* A new product has no columns and no setups.
LEMMA ProductCreateStep ==
    ASSUME IInv, NEW p \in Products, ProductCreate(p)
    PROVE  IInv'
<1>1. /\ products' = products \union {p}
      /\ AtOnce /\ UNCHANGED <<columns, setups>>
  BY DEF ProductCreate
<1>2. TablesTyped /\ Keys(products, columns, setups)
  BY KeysHold
<1>3. Thinner(columns, columns)
  BY DEF Thinner
<1>4. Keys(products', columns, setups)
  BY <1>1, <1>2, <1>3, KeysHold, ThinnerKeys
<1>5. TablesTyped' /\ Keys(products, columns, setups)'
  <2>1. edits' \in Nat /\ uploads' \in Nat /\ crossed' \in BOOLEAN
    BY <1>1, <1>2 DEF AtOnce, TablesTyped
  <2>2. products' \subseteq Products
    BY <1>1, <1>2 DEF TablesTyped
  <2> QED
    BY <1>1, <1>2, <1>4, <2>1, <2>2 DEF TablesTyped
<1> QED
  BY <1>1, <1>3, <1>5, AtOnceStep

\* A product goes with its columns, and no setup is of it.
LEMMA ProductDeleteStep ==
    ASSUME IInv, NEW p \in Products, ProductDelete(p)
    PROVE  IInv'
<1>1. /\ products' = products \ {p}
      /\ \A i \in LiveIn(setups) : setups[i]["product"] # p
      /\ \A c \in ColumnsOf(columns, p) : Unused(c)
      /\ columns' = [c \in ColumnIds |-> IF c \in ColumnsOf(columns, p) THEN Gone
                                         ELSE columns[c]]
      /\ AtOnce /\ UNCHANGED setups
  BY DEF ProductDelete
<1>2. TablesTyped /\ Keys(products, columns, setups)
  BY KeysHold
<1>3. /\ DOMAIN columns' = ColumnIds
      /\ \A c \in ColumnIds : c \in ColumnsOf(columns, p) => columns'[c] = Gone
      /\ \A c \in ColumnIds : c \notin ColumnsOf(columns, p) => columns'[c] = columns[c]
  BY <1>1
<1>4. columns' \in [ColumnIds -> NoRow \union ColumnRow]
  BY <1>1, <1>2 DEF TablesTyped, NoRow
<1>5. \A c : c \in ColumnsOf(columns, p) <=> c \in LiveIn(columns) /\ columns[c].product = p
  BY DEF ColumnsOf
<1>6. \A d : d \in LiveIn(columns') <=> d \in LiveIn(columns) /\ columns[d].product # p
  BY <1>2, <1>3, <1>5, LiveTyped DEF LiveIn, NoRow
<1>7. Thinner(columns', columns)
  BY <1>2, <1>3, <1>5, <1>6, LiveTyped DEF Thinner
<1>8. Keys(products', columns', setups)
  <2>1. \A i \in LiveIn(setups), c \in LiveIn(columns) :
            columns[c].product = p => setups[i][c] = Null
    BY <1>1, <1>5 DEF Unused
  <2>2. \A i \in LiveIn(setups) :
            /\ setups[i]["product"] \in products'
            /\ \A c \in ColumnIds : setups[i][c] # Null => c \in LiveIn(columns')
    BY <1>1, <1>6, <2>1, KeysHold
  <2>3. \A c \in LiveIn(columns') : columns[c].product \in products'
    BY <1>1, <1>6, KeysHold
  <2> QED
    BY <1>2, <1>7, <2>2, <2>3, ThinnerKeys
<1>9. TablesTyped' /\ Keys(products, columns, setups)'
  <2>1. edits' \in Nat /\ uploads' \in Nat /\ crossed' \in BOOLEAN
    BY <1>1, <1>2 DEF AtOnce, TablesTyped
  <2>2. products' \subseteq Products
    BY <1>1, <1>2 DEF TablesTyped
  <2> QED
    BY <1>1, <1>2, <1>4, <1>8, <2>1, <2>2 DEF TablesTyped
<1> QED
  BY <1>1, <1>7, <1>9, AtOnceStep

\* A setup goes with its values.
LEMMA SetupDeleteStep ==
    ASSUME IInv, NEW i \in Ids, SetupDelete(i)
    PROVE  IInv'
<1>1. /\ setups' = [setups EXCEPT ![i] = Gone]
      /\ AtOnce /\ UNCHANGED <<products, columns>>
  BY DEF SetupDelete
<1>2. TablesTyped /\ Keys(products, columns, setups)
  BY KeysHold
<1>3. setups' \in [Ids -> NoRow \union SetupRow]
  BY <1>1, <1>2 DEF TablesTyped, NoRow
<1>4. \A j : j \in LiveIn(setups') => j \in LiveIn(setups) /\ setups'[j] = setups[j]
  BY <1>1, <1>2 DEF TablesTyped, LiveIn, NoRow
<1>5. Thinner(columns, columns)
  BY DEF Thinner
<1>6. Keys(products, columns, setups')
  BY <1>2, <1>4, <1>5, KeysHold, ThinnerKeys
<1>7. TablesTyped' /\ Keys(products, columns, setups)'
  <2>1. edits' \in Nat /\ uploads' \in Nat /\ crossed' \in BOOLEAN
    BY <1>1, <1>2 DEF AtOnce, TablesTyped
  <2> QED
    BY <1>1, <1>2, <1>3, <1>6, <2>1 DEF TablesTyped
<1> QED
  BY <1>1, <1>5, <1>7, AtOnceStep

-----------------------------------------------------------------------------
(* Uploads, the restart, and the invariant                                  *)

\* Neither the tables nor what sessions do are touched.
LEMMA StillStep ==
    ASSUME IInv, UNCHANGED <<tables, proc, history>>, uploads' \in Nat,
           PendingTyped', TokensInv'
    PROVE  IInv'
<1>1. /\ UNCHANGED tables /\ UNCHANGED edits /\ UNCHANGED crossed /\ UNCHANGED proc
      /\ UNCHANGED columns
  BY DEF tables, history
<1>2. TablesTyped' /\ ProcTyped' /\ Keys(products, columns, setups)' /\ Busy' = Busy
  BY <1>1 DEF IInv, TypesInv, TablesTyped, ProcTyped, tables, Busy
<1>3. PlacesInv'
  <2>1. \A w : Template(w)' = Template(w)
    BY <1>1 DEF Template
  <2>2. \A t \in Busy : Template(proc[t])' = Template(proc[t])
    <3>1. TAKE t \in Busy
    <3>2. PICK w : w = proc[t]
      OBVIOUS
    <3> QED
      BY <1>1, <2>1, <3>2
  <2> QED
    BY <1>1, <1>2, <2>2 DEF IInv, PlacesInv
<1>4. AloneInv'
  <2>1. ASSUME NEW t \in Busy' PROVE (proc[t].at <= edits)' /\ AloneOK(proc[t])'
    <3>1. PICK x : x = proc'[t]
      OBVIOUS
    <3>2. x = proc[t] /\ t \in Busy
      BY <1>1, <1>2, <3>1
    <3>3. x.at <= edits /\ AloneOK(x)
      BY <3>2 DEF IInv, AloneInv
    <3>4. AloneOK(x)'
      BY <1>1, <3>3, SameAlone
    <3> QED
      BY <1>1, <3>1, <3>3, <3>4
  <2> QED
    BY <2>1 DEF AloneInv
<1> QED
  BY <1>2, <1>3, <1>4 DEF IInv, TypesInv

\* An upload that is held has a token that nobody has had.
LEMMA ImportHeldStep ==
    ASSUME IInv, ImportHeld
    PROVE  IInv'
<1>1. PICK b \in Books, p \in products :
        pending' = pending \union {[token |-> uploads + 1, book |-> b, product |-> p]}
  BY DEF ImportHeld
<1>2. uploads' = uploads + 1 /\ UNCHANGED <<tables, proc, history>>
  BY DEF ImportHeld
<1>3. /\ uploads \in Nat /\ p \in Products
      /\ \A u \in pending : /\ u.token \in 1..uploads
                            /\ u.book \in Books /\ u.product \in Products
  BY DEF IInv, TypesInv, TablesTyped, PendingTyped
<1> DEFINE held == [token |-> uploads + 1, book |-> b, product |-> p]
<1>4. held.token = uploads + 1 /\ held.book = b /\ held.product = p
  OBVIOUS
<1> HIDE DEF held
<1>5. \A u : u \in pending' <=> u \in pending \/ u = held
  BY <1>1 DEF held
<1>6. PendingTyped'
  BY <1>2, <1>3, <1>4, <1>5 DEF PendingTyped
<1>7. TokensInv'
  <2>1. /\ \A u, v \in pending : u.token = v.token => u = v
        /\ \A t \in Busy : proc[t].token <= uploads
        /\ \A t \in Busy : proc[t].token # 0 =>
            /\ \A r \in Busy : proc[r].token = proc[t].token => r = t
            /\ \A u \in pending : u.token # proc[t].token
    BY DEF IInv, TokensInv, ConfirmedOnce
  <2>2. Busy' = Busy /\ proc' = proc
    BY <1>2 DEF Busy
  <2>3. \A t \in Busy : proc[t].token \in Nat
    BY BusyWorks DEF IInv, TypesInv, Working
  <2>4. \A u, v \in pending' : u.token = v.token => u = v
    BY <1>3, <1>4, <1>5, <2>1
  <2>5. \A t \in Busy : proc[t].token <= uploads'
    BY <1>2, <1>3, <2>1, <2>3
  <2>6. \A t \in Busy, u \in pending' : proc[t].token # 0 => u.token # proc[t].token
    BY <1>3, <1>4, <1>5, <2>1, <2>3
  <2> QED
    BY <2>1, <2>2, <2>4, <2>5, <2>6 DEF TokensInv, ConfirmedOnce
<1> QED
  BY <1>2, <1>3, <1>6, <1>7, StillStep

\* An upload that is rejected is waiting no more.
LEMMA ImportRejectStep ==
    ASSUME IInv, ImportReject
    PROVE  IInv'
<1>1. pending' \subseteq pending /\ UNCHANGED <<tables, uploads, proc, history>>
  BY DEF ImportReject, TakeOut
<1>2. PendingTyped' /\ Busy' = Busy /\ uploads' \in Nat
  BY <1>1 DEF IInv, TypesInv, TablesTyped, PendingTyped, Busy
<1>3. TokensInv'
  BY <1>1, <1>2 DEF IInv, TokensInv, ConfirmedOnce
<1> QED
  BY <1>1, <1>2, <1>3, StillStep

\* After a restart nothing waits and nobody works.
LEMMA RestartStep ==
    ASSUME IInv, Restart
    PROVE  IInv'
<1>1. /\ pending' = {} /\ proc' = [s \in Sessions |-> Idle]
      /\ UNCHANGED <<products, columns, setups, uploads, edits, crossed>>
  BY DEF Restart, tables, history
<1>2. Busy' = {} /\ ProcTyped'
  BY <1>1, IdleOrWorking DEF Busy, ProcTyped
<1>3. TablesTyped' /\ PendingTyped' /\ Keys(products, columns, setups)'
  BY <1>1 DEF IInv, TypesInv, TablesTyped, PendingTyped
<1>4. TokensInv'
  BY <1>1, <1>2 DEF TokensInv, ConfirmedOnce
<1>5. PlacesInv'
  BY <1>1, <1>2 DEF IInv, PlacesInv
<1>6. AloneInv'
  BY <1>2 DEF AloneInv
<1> QED
  BY <1>2, <1>3, <1>4, <1>5, <1>6 DEF IInv, TypesInv

\* A rollback changes no table.
LEMMA AbortStep ==
    ASSUME IInv, NEW s \in Sessions, Abort(s)
    PROVE  IInv' /\ UNCHANGED tables
<1>1. s \in Busy
  BY BusyWorks DEF Abort, IInv, TypesInv
<1>2. \E v : Continues(s, v) /\ (v = Idle \/ (Carried(v, proc[s]) /\ v.pc # "accept"))
  BY DEF Abort
<1> QED
  BY <1>1, <1>2, ContinuesStep

\* The tables at the start are as assumed.
LEMMA InitHolds == Init => IInv
<1> SUFFICES ASSUME Init PROVE IInv
  OBVIOUS
<1>1. /\ products = FirstProducts
      /\ columns = [c \in ColumnIds |-> IF c \in DOMAIN FirstColumns
                                        THEN FirstColumns[c] ELSE Unborn]
      /\ setups = [i \in Ids |-> IF i \in DOMAIN FirstSetups THEN FirstSetups[i]
                                 ELSE Unborn]
      /\ pending = {} /\ uploads = 0 /\ proc = [s \in Sessions |-> Idle]
      /\ edits = 0 /\ crossed = FALSE
  BY DEF Init
<1>2. /\ \A c \in DOMAIN FirstColumns : c \in ColumnIds /\ FirstColumns[c] \in ColumnRow
      /\ \A i \in DOMAIN FirstSetups : i \in Ids /\ FirstSetups[i] \in SetupRow
  BY FirstTablesOK
<1>3. TablesTyped
  BY <1>1, <1>2, FirstTablesOK DEF TablesTyped, NoRow
<1>4. Busy = {} /\ ProcTyped
  BY <1>1, IdleOrWorking DEF Busy, ProcTyped
<1>5. /\ \A c : c \in LiveIn(columns) <=> c \in DOMAIN FirstColumns
      /\ \A c \in DOMAIN FirstColumns : columns[c] = FirstColumns[c]
  BY <1>1, <1>2, NothingIsNothing DEF LiveIn, NoRow
<1>6. /\ \A i : i \in LiveIn(setups) <=> i \in DOMAIN FirstSetups
      /\ \A i \in DOMAIN FirstSetups : setups[i] = FirstSetups[i]
  BY <1>1, <1>2, NothingIsNothing DEF LiveIn, NoRow
<1>7. /\ \A c, d \in DOMAIN FirstColumns :
            /\ FirstColumns[c].product = FirstColumns[d].product
            /\ \/ FirstColumns[c].name = FirstColumns[d].name
               \/ FirstColumns[c].order = FirstColumns[d].order
            => c = d
      /\ \A c \in DOMAIN FirstColumns : FirstColumns[c].product \in FirstProducts
  BY FirstTablesOK
<1>8. Ordered(columns)
  BY <1>5, <1>7 DEF Ordered
<1>9. /\ \A i, j \in DOMAIN FirstSetups :
            \/ FirstSetups[i]["ip"] = FirstSetups[j]["ip"]
            \/ FirstSetups[i]["host"] = FirstSetups[j]["host"]
            => i = j
      /\ \A i \in DOMAIN FirstSetups :
            /\ FirstSetups[i]["product"] \in FirstProducts
            /\ \A c \in ColumnIds : FirstSetups[i][c] # Null => c \in DOMAIN FirstColumns
  BY FirstTablesOK
<1>10. Keys(products, columns, setups)
  <2>1. Unique(setups)
    BY <1>6, <1>9 DEF Unique
  <2>2. \A i \in LiveIn(setups) :
            /\ setups[i]["product"] \in products
            /\ \A c \in ColumnIds : setups[i][c] # Null => c \in LiveIn(columns)
    BY <1>1, <1>5, <1>6, <1>9
  <2>3. \A c, d \in LiveIn(columns) :
            /\ columns[c].product \in products
            /\ columns[c].product = columns[d].product
               /\ columns[c].name = columns[d].name => c = d
    BY <1>1, <1>5, <1>7
  <2> QED
    BY <2>1, <2>2, <2>3 DEF Keys
<1>11. PendingTyped /\ TokensInv /\ AloneInv
  BY <1>1, <1>4 DEF PendingTyped, TokensInv, ConfirmedOnce, AloneInv
<1>12. PlacesInv
  BY <1>4, <1>8 DEF PlacesInv
<1> QED
  BY <1>3, <1>4, <1>10, <1>11, <1>12 DEF IInv, TypesInv

\* Every step of a session keeps the invariant; what writes a setup is a commit.
LEMMA ServeStep ==
    ASSUME IInv, NEW s \in Sessions, Serve(s)
    PROVE  IInv' /\ (UNCHANGED setups \/ Commit(s))
<1>1. TypesInv /\ ProcTyped
  BY DEF IInv, TypesInv
<1>2. ASSUME s \in Busy PROVE Working(proc[s]) /\ DesignsNothing(proc[s])
  BY <1>1, <1>2, BusyWorks DEF IInv, PlacesInv
<1>3. CASE CreateRead(s)
  BY <1>1, <1>3, CreateReadStarts, BeginsStep DEF CreateRead, tables
<1>4. CASE UpdateRead(s)
  BY <1>1, <1>4, UpdateReadStarts, BeginsStep DEF UpdateRead, tables
<1>5. CASE ValuesRead(s)
  BY <1>1, <1>5, ValuesReadStarts, BeginsStep DEF ValuesRead, tables
<1>6. CASE FormOpen(s)
  BY <1>1, <1>6, FormOpenStarts, BeginsStep DEF FormOpen, tables
<1>7. CASE ColumnAdd(s)
  BY <1>1, <1>7, ColumnAddStarts, BeginsStep DEF ColumnAdd, tables
<1>8. CASE ColumnsReorder(s)
  BY <1>1, <1>8, ColumnsReorderStarts, BeginsStep DEF ColumnsReorder, tables
<1>9. CASE PlainImport(s)
  BY <1>1, <1>9, PlainImportStarts, BeginsStep DEF PlainImport, tables
<1>10. CASE ProductImport(s)
  BY <1>1, <1>10, ProductImportStarts, BeginsStep DEF ProductImport, tables
<1>11. CASE ImportConfirm(s)
  BY <1>1, <1>11, ImportConfirmStarts, ConfirmsStep DEF tables
<1>12. CASE FormSave(s)
  <2>1. s \in Busy
    BY <1>12 DEF FormSave, Busy
  <2> QED
    BY <1>1, <1>2, <1>12, <2>1, FormSaveCarries, ContinuesStep DEF tables
<1>13. CASE ImportAccept(s)
  <2>1. s \in Busy
    BY <1>13 DEF ImportAccept, Busy
  <2> QED
    BY <1>1, <1>2, <1>13, <2>1, ImportAcceptCarries, ContinuesStep DEF tables
<1>14. CASE ImportRow(s)
  <2>1. s \in Busy
    BY <1>14 DEF ImportRow, Busy
  <2> QED
    BY <1>1, <1>2, <1>14, <2>1, ImportRowCarries, ContinuesStep DEF tables
<1>15. CASE Commit(s)
  BY <1>15, CommitStep
<1>16. CASE Abort(s)
  BY <1>16, AbortStep DEF tables
<1> QED
  BY <1>3, <1>4, <1>5, <1>6, <1>7, <1>8, <1>9, <1>10, <1>11, <1>12, <1>13, <1>14, <1>15,
     <1>16 DEF Serve

\* Every other step keeps it too.
LEMMA AdministerStep ==
    ASSUME IInv, Administer
    PROVE  IInv'
BY ColumnUpdateStep, ColumnDeleteStep, ProductCreateStep, ProductDeleteStep,
   SetupDeleteStep, ImportHeldStep, ImportRejectStep, RestartStep DEF Administer

\* The invariant of the inventory.
THEOREM InventoryInvariant == Spec => []IInv
<1>1. Init => IInv
  BY InitHolds
<1>2. IInv /\ [Next]_vars => IInv'
  <2> SUFFICES ASSUME IInv, [Next]_vars PROVE IInv'
    OBVIOUS
  <2>1. CASE Administer
    BY <2>1, AdministerStep
  <2>2. ASSUME NEW s \in Sessions, Serve(s) PROVE IInv'
    BY <2>2, ServeStep
  <2>3. CASE UNCHANGED vars
    <3>1. UNCHANGED <<tables, proc, history>> /\ UNCHANGED <<pending, uploads>>
      BY <2>3 DEF vars
    <3>2. PendingTyped' /\ Busy' = Busy /\ uploads' \in Nat
      BY <3>1 DEF IInv, TypesInv, TablesTyped, PendingTyped, Busy
    <3>3. TokensInv'
      BY <3>1, <3>2 DEF IInv, TokensInv, ConfirmedOnce
    <3> QED
      BY <3>1, <3>2, <3>3, StillStep
  <2> QED
    BY <2>1, <2>2, <2>3 DEF Next
<1> QED
  BY <1>1, <1>2, PTL DEF Spec

\* The tables have their types and keep their unique and foreign keys.
THEOREM TypesHold == Spec => []TypeOK
<1>1. IInv => TypeOK
  <2> SUFFICES ASSUME IInv PROVE TypeOK
    OBVIOUS
  <2>1. TablesTyped /\ PendingTyped /\ Keys(products, columns, setups)
    BY DEF IInv, TypesInv
  <2>2. /\ \A i, j \in LiveIn(setups) :
            setups[i]["ip"] = setups[j]["ip"] \/ setups[i]["host"] = setups[j]["host"]
                => i = j
    BY <2>1 DEF Keys, Unique
  <2>3. /\ products \subseteq Products
        /\ \A c \in ColumnIds : columns[c] \in NoRow \union ColumnRow
        /\ \A i \in Ids : setups[i] \in NoRow \/ setups[i] \in SetupRow
        /\ edits \in Nat
        /\ crossed \in BOOLEAN
    BY <2>1 DEF TablesTyped
  <2> QED
    BY <2>1, <2>2, <2>3, Zenon DEF TypeOK, Keys, PendingTyped
<1> QED
  BY <1>1, InventoryInvariant, PTL

\* The columns of a template have different places unless templates were changed
\* by two requests at once.
THEOREM PlacesNeedRace == Spec => []OrderNeedsRace
<1>1. IInv => OrderNeedsRace
  BY DEF IInv, PlacesInv, Ordered, OrderNeedsRace
<1> QED
  BY <1>1, InventoryInvariant, PTL

\* An upload is imported at most once, however often the dialog is submitted.
THEOREM UploadsOnce == Spec => []ConfirmedOnce
<1>1. IInv => ConfirmedOnce
  BY DEF IInv, TokensInv
<1> QED
  BY <1>1, InventoryInvariant, PTL

-----------------------------------------------------------------------------
(* What forms have put                                                      *)

\* What a form may write depends on the tables and on what has been committed.
LEMMA SameForms ==
    ASSUME NEW w, UNCHANGED tables, UNCHANGED edits
    PROVE  FormOK(w)' <=> FormOK(w)
BY DEF tables, FormOK, Steady, Current, Overwritten, ColumnsOf, LiveIn

\* After another commit a form is no more current, and may write what it might.
LEMMA FormLasts ==
    ASSUME NEW w, FormOK(w), w.at # edits', Steady(w)'
    PROVE  FormOK(w)'
BY DEF FormOK, Current, Overwritten

\* One session becomes v and nothing is committed.
LEMMA FormsProc ==
    ASSUME IInv, FormsInv, NEW s \in Sessions, NEW v, v = Idle \/ Working(v),
           proc' = [proc EXCEPT ![s] = v], UNCHANGED tables, UNCHANGED edits,
           v # Idle => \A c \in DOMAIN v.cols :
                            c \in FreeColumns \/ (s \in Busy /\ c \in DOMAIN proc[s].cols),
           v # Idle => (v.row # Null => FormOK(v))
    PROVE  FormsInv'
<1>1. /\ \A t \in Sessions : proc'[t] = IF t = s THEN v ELSE proc[t]
      /\ \A t : t \in Busy' <=> /\ t \in Sessions
                                /\ IF t = s THEN v # Idle ELSE t \in Busy
  BY BusyStep DEF IInv, TypesInv
<1>2. ColsInv'
  <2>1. \A t \in Busy : \A c : c \in DOMAIN proc[t].cols =>
            /\ columns[c] = Unborn /\ c \notin FreeColumns
            /\ \A r \in Busy : c \in DOMAIN proc[r].cols => r = t
    BY DEF FormsInv, ColsInv, FreeColumns
  <2>2. \A c \in FreeColumns : columns[c] = Unborn
    BY DEF FreeColumns
  <2>3. ASSUME NEW t \in Busy', NEW c \in DOMAIN proc'[t].cols
        PROVE  /\ columns'[c] = Unborn
               /\ \A r \in Busy' : c \in DOMAIN proc'[r].cols => r = t
    <3>1. columns' = columns
      BY DEF tables
    <3> QED
      BY <1>1, <2>1, <2>2, <2>3, <3>1
  <2> QED
    BY <2>3 DEF ColsInv
<1>3. ASSUME NEW t \in Busy', proc'[t].row # Null PROVE FormOK(proc[t])'
  <2>1. PICK w : w = proc'[t]
    OBVIOUS
  <2>2. FormOK(w)
    BY <1>1, <1>3, <2>1 DEF FormsInv
  <2>3. FormOK(w)'
    BY <2>2, SameForms
  <2> QED
    BY <2>1, <2>3
<1> QED
  BY <1>2, <1>3 DEF FormsInv

\* A request begins: a form with what is in the tables, a column with a new id.
LEMMA FormsBegin ==
    ASSUME IInv, FormsInv, NEW s \in Sessions, NEW v, Begins(s, v), Started(v)
    PROVE  FormsInv'
<1>1. /\ UNCHANGED tables /\ UNCHANGED edits /\ proc' = [proc EXCEPT ![s] = v]
  BY BeginsTyped
<1>2. /\ Working(v) /\ DOMAIN v.cols \subseteq FreeColumns
      /\ v.row # Null => FormOK(v)
  BY DEF Started
<1> QED
  BY <1>1, <1>2, FormsProc

\* A request goes on, or is rolled back.
LEMMA FormsContinue ==
    ASSUME IInv, FormsInv, NEW s \in Busy, NEW v, Continues(s, v),
           v = Idle \/ Carried(v, proc[s]),
           v # Idle => (v.row # Null => FormOK(v))
    PROVE  FormsInv'
<1>1. /\ UNCHANGED tables /\ UNCHANGED edits /\ proc' = [proc EXCEPT ![s] = v]
      /\ s \in Sessions
  BY DEF Continues, Goes, history, Busy
<1>2. v # Idle => Working(v) /\ DOMAIN v.cols \subseteq DOMAIN proc[s].cols \union FreeColumns
  BY DEF Carried
<1> QED
  BY <1>1, <1>2, FormsProc

\* A column that lives and was asked for is received if it is sent: no other
\* column of the form has its name.
LEMMA ReceivedAsked ==
    ASSUME NEW y, Steady(y),
           \A c, x \in DOMAIN y.asked : y.asked[c].name = y.asked[x].name => c = x,
           NEW p, NEW d \in DOMAIN y.asked, d \in ColumnsOf(columns, p)
    PROVE  /\ y.asked[d].kind = columns[d].kind
           /\ d \in Received(y, p) <=> d \in Sent(y)
           /\ d \in Sent(y) => Raw(y, d) = IF columns[d].kind = "BOOLEAN" THEN Checked
                                           ELSE Input(y, d)
           /\ d \in Sent(y) <=> (columns[d].kind = "BOOLEAN" => Input(y, d) # Null)
<1>1. columns[d] \notin NoRow
  BY DEF ColumnsOf, LiveIn
<1>2. columns[d].name = y.asked[d].name /\ columns[d].kind = y.asked[d].kind
  BY <1>1 DEF Steady
<1>3. Sent(y) \subseteq DOMAIN y.asked
  BY DEF Sent
<1>4. \A c \in Sent(y) : y.asked[c].name = columns[d].name => c = d
  BY <1>2, <1>3
<1>5. d \in Received(y, p) <=> d \in Sent(y)
  BY <1>2, <1>4 DEF Received
<1>6. ASSUME d \in Sent(y)
      PROVE  Raw(y, d) = IF columns[d].kind = "BOOLEAN" THEN Checked ELSE Input(y, d)
  <2> DEFINE c == CHOOSE x \in Sent(y) : y.asked[x].name = columns[d].name
  <2>1. c = d
    BY <1>2, <1>4, <1>6
  <2>2. Raw(y, d) = IF columns[d].kind = "BOOLEAN" THEN Checked ELSE Input(y, c)
    BY DEF Raw
  <2> HIDE DEF c
  <2> QED
    BY <2>1, <2>2
<1>7. d \in Sent(y) <=> (columns[d].kind = "BOOLEAN" => Input(y, d) # Null)
  BY <1>2 DEF Sent
<1> QED
  BY <1>2, <1>5, <1>6, <1>7

\* What was shown and not edited is received, unless its column is gone.
LEMMA ShownGiven ==
    ASSUME TypesInv, NEW y, FormOK(y), y.row \in SetupRow, NEW p,
           NEW d \in ColumnsOf(columns, p), d \in ColumnIds, d # y.edit.field, Shown(y, d)
    PROVE  LET given == Given(y, p) IN
           columns[d].name \in DOMAIN given /\ given[columns[d].name] = y.row[d]
<1>1. d \in DOMAIN y.asked /\ y.row[d] \in Shows(y.asked[d]) /\ y.asked[d] \in ColumnRow
  BY DEF Shown, FormOK
<1>2. /\ y.asked[d].kind = columns[d].kind
      /\ d \in Received(y, p) <=> d \in Sent(y)
      /\ d \in Sent(y) => Raw(y, d) = IF columns[d].kind = "BOOLEAN" THEN Checked
                                      ELSE Input(y, d)
      /\ d \in Sent(y) <=> (columns[d].kind = "BOOLEAN" => Input(y, d) # Null)
  BY <1>1, ReceivedAsked DEF FormOK
<1>3. Input(y, d) = y.row[d]
  BY DEF Input
<1>4. y.row[d] # Null
  <2>1. Shows(y.asked[d]) \subseteq Values
    BY <1>1, InventoryConstantsOK DEF Shows, ColumnRow
  <2> QED
    BY <1>1, <2>1, NothingIsNothing
<1>5. d \in Received(y, p) /\ Raw(y, d) = y.row[d]
  <2>1. columns[d].kind = "BOOLEAN" => y.row[d] = Checked
    BY <1>1, <1>2 DEF Shows
  <2> QED
    BY <1>2, <1>3, <1>4, <2>1
<1> QED
  BY <1>4, <1>5, GivenRaw

\* What was not shown and not edited is not received by a form that is current.
LEMMA HiddenBlank ==
    ASSUME TypesInv, NEW y, FormOK(y), y.at = edits, NEW p, p = setups[y.id]["product"],
           NEW d \in ColumnsOf(columns, p), d # y.edit.field, ~Shown(y, d)
    PROVE  columns[d].name \notin DOMAIN Given(y, p)
<1>1. d \in DOMAIN y.asked
  BY DEF FormOK, Current
<1>2. /\ d \in Received(y, p) <=> d \in Sent(y)
      /\ d \in Sent(y) => Raw(y, d) = IF columns[d].kind = "BOOLEAN" THEN Checked
                                      ELSE Input(y, d)
      /\ d \in Sent(y) <=> (columns[d].kind = "BOOLEAN" => Input(y, d) # Null)
  BY <1>1, ReceivedAsked DEF FormOK
<1>3. Input(y, d) = Null
  BY DEF Input
<1>4. ~(d \in Received(y, p) /\ Raw(y, d) # Null)
  BY <1>2, <1>3
<1> QED
  BY <1>4, GivenRaw

\* A form that is saved writes what was edited, what it showed, and what it could
\* not show.
LEMMA FormSaved ==
    ASSUME TypesInv, NEW w, Working(w), w.row # Null, w.pc = "form", FormOK(w),
           NEW e \in Edits(w), NEW y, y = Edited(w, e), NEW u, Saved(u, y)
    PROVE  FormOK(u)
<1>1. /\ Same(y, w) /\ y.pc = "write" /\ y.edit = e
      /\ y.new = w.new /\ y.put = w.put /\ y.cols = w.cols /\ y.orders = w.orders
      /\ y.row \in SetupRow /\ y.id \in Ids /\ y.id = w.id
  BY EditedFields
<1>2. \A i \in Ids, f \in Fields : y.put[i][f] = Kept
  BY <1>1 DEF FormOK
<1>3. y.asked = w.asked /\ y.row = w.row /\ y.at = w.at /\ y.id = w.id
  BY <1>1 DEF Same
<1>4. FormOK(y)
  <2>1. Steady(y) /\ Current(y)
    BY <1>3 DEF FormOK, Steady, Current
  <2> QED
    BY <1>1, <1>2, <1>3, <2>1 DEF FormOK
<1> DEFINE i == y.id
           p == setups[i]["product"]
           given == Given(y, p)
<1>5. Template(y) = columns
  BY <1>1, TemplateUntouched DEF FormOK, TypesInv
<1>6. /\ Same(u, y) /\ u.pc = "write" /\ u.edit = y.edit
      /\ u.new = y.new /\ u.cols = y.cols /\ u.orders = y.orders
      /\ \A j \in Ids : j # i => u.put[j] = y.put[j]
      /\ \A f \in Fields :
            \/ u.put[i][f] = y.put[i][f]
            \/ f \in FormKeys /\ u.put[i][f] = Input(y, f)
            \/ /\ f \in ColumnsOf(columns, p)
               /\ columns[f].name \in DOMAIN given
               /\ u.put[i][f] = given[columns[f].name]
            \/ /\ f \in ColumnsOf(columns, p)
               /\ columns[f].name \notin DOMAIN given
               /\ columns[f].default # Null
               /\ u.put[i][f] = columns[f].default
  BY <1>1, <1>5 DEF Saved
<1>7. \A d \in ColumnsOf(columns, p) : d \in ColumnIds /\ d # "owner"
  BY FixedFields DEF ColumnsOf, LiveIn, TypesInv, TablesTyped
<1>8. \A d \in ColumnsOf(columns, p) :
        /\ d # y.edit.field /\ Shown(y, d) =>
            columns[d].name \in DOMAIN given /\ given[columns[d].name] = y.row[d]
        /\ d # y.edit.field /\ ~Shown(y, d) /\ y.at = edits =>
            columns[d].name \notin DOMAIN given
  BY <1>1, <1>4, <1>7, ShownGiven, HiddenBlank
<1> HIDE DEF given, p
<1>9. ASSUME NEW f \in Fields, u.put[i][f] # Kept, f # y.edit.field
      PROVE  Overwritten(y, f, u.put[i][f])
  <2>1. u.put[i][f] # y.put[i][f]
    BY <1>1, <1>2, <1>9
  <2>2. CASE f \in FormKeys /\ u.put[i][f] = Input(y, f)
    <3>1. Shown(y, f) \/ f = "owner"
      BY <2>2, FixedFields DEF Shown, FormKeys
    <3> QED
      BY <1>9, <2>2, <3>1 DEF Overwritten, Input
  <2>3. CASE /\ f \in ColumnsOf(columns, p)
             /\ columns[f].name \in DOMAIN given
             /\ u.put[i][f] = given[columns[f].name]
    BY <1>7, <1>8, <1>9, <2>3 DEF Overwritten
  <2>4. CASE /\ f \in ColumnsOf(columns, p)
             /\ columns[f].name \notin DOMAIN given
             /\ columns[f].default # Null
             /\ u.put[i][f] = columns[f].default
    BY <1>7, <1>8, <1>9, <2>4 DEF Overwritten
  <2> QED
    BY <1>6, <2>1, <2>2, <2>3, <2>4
<1>10. /\ u.asked = y.asked /\ u.row = y.row /\ u.at = y.at /\ u.id = y.id
       /\ u.listed = y.listed
  BY <1>6 DEF Same
<1>11. \A f \in Fields : Overwritten(y, f, u.put[i][f]) => Overwritten(u, f, u.put[i][f])
  BY <1>10 DEF Overwritten, Shown
<1>12. ASSUME NEW j \in Ids, NEW f \in Fields, u.put[j][f] # Kept
       PROVE  /\ u.pc # "form" /\ j = u.id
              /\ f = u.edit.field \/ Overwritten(u, f, u.put[j][f])
  <2>1. j = i
    BY <1>2, <1>6, <1>12
  <2> QED
    BY <1>6, <1>9, <1>10, <1>11, <1>12, <2>1
<1>13. Steady(u) /\ Current(u)
  BY <1>4, <1>10 DEF FormOK, Steady, Current
<1> QED
  BY <1>4, <1>6, <1>10, <1>12, <1>13 DEF FormOK

\* Columns that are not inserted keep their names and their kinds while they live.
Lasts(D, C, c) ==
    /\ D[c] = Unborn <=> C[c] = Unborn
    /\ D[c] \notin NoRow => /\ C[c] \notin NoRow
                            /\ D[c].name = C[c].name
                            /\ D[c].kind = C[c].kind

\* So a form stays steady.
LEMMA SteadyLasts ==
    ASSUME NEW w, Steady(w), \A c \in DOMAIN w.asked : Lasts(columns', columns, c)
    PROVE  Steady(w)'
BY DEF Steady, Lasts

\* What is changed at once inserts no column.
LEMMA FormsAtOnce ==
    ASSUME IInv, FormsInv, AtOnce, \A c \in ColumnIds : Lasts(columns', columns, c)
    PROVE  FormsInv'
<1>1. edits' = edits + 1 /\ proc' = proc /\ Busy' = Busy
  BY DEF AtOnce, Busy
<1>2. \A t \in Busy : /\ Working(proc[t]) /\ proc[t].at <= edits
                      /\ proc[t].at \in Nat /\ edits \in Nat
  BY BusyWorks DEF IInv, TypesInv, AloneInv, Working, TablesTyped
<1>3. ColsInv'
  <2>1. \A t \in Busy : DOMAIN proc[t].cols \subseteq ColumnIds
    BY <1>2 DEF Working, ColsTyped
  <2> QED
    BY <1>1, <2>1 DEF FormsInv, ColsInv, Lasts
<1>4. ASSUME NEW t \in Busy', proc'[t].row # Null PROVE FormOK(proc[t])'
  <2>1. PICK w : w = proc'[t]
    OBVIOUS
  <2>2. w = proc[t] /\ t \in Busy
    BY <1>1, <2>1
  <2>3. FormOK(w) /\ DOMAIN w.asked \subseteq ColumnIds
    BY <1>2, <1>4, <2>1, <2>2 DEF FormsInv, Working, KindTyped
  <2>4. w.at # edits'
    BY <1>1, <1>2, <2>2
  <2>5. Steady(w)'
    BY <2>3, SteadyLasts DEF FormOK
  <2>6. FormOK(w)'
    BY <2>3, <2>4, <2>5, FormLasts
  <2> QED
    BY <2>1, <2>6
<1> QED
  BY <1>3, <1>4 DEF FormsInv

\* A commit inserts the columns that it has, and no form asked for these.
LEMMA FormsCommit ==
    ASSUME IInv, FormsInv, NEW s \in Sessions, Commit(s)
    PROVE  FormsInv'
<1>1. PICK w : w = proc[s]
  OBVIOUS
<1>2. /\ w.pc = "write"
      /\ columns' = Template(w) /\ setups' = View(w)
      /\ edits' = IF <<Template(w), View(w)>> = <<columns, setups>> THEN edits
                  ELSE edits + 1
      /\ proc' = [proc EXCEPT ![s] = Idle]
      /\ UNCHANGED products
  BY <1>1 DEF Commit, Goes
<1>3. ProcTyped /\ TablesTyped
  BY DEF IInv, TypesInv
<1>4. s \in Busy /\ Working(w) /\ ColsTyped(w)
  BY <1>1, <1>2, <1>3, BusyWorks DEF Busy, Working
<1>5. /\ \A t \in Sessions : proc'[t] = IF t = s THEN Idle ELSE proc[t]
      /\ \A t : t \in Busy' <=> /\ t \in Sessions
                                /\ IF t = s THEN Idle # Idle ELSE t \in Busy
  BY <1>2, <1>3, BusyStep
<1>6. ASSUME NEW c \in ColumnIds, c \notin DOMAIN w.cols PROVE Lasts(columns', columns, c)
  <2>1. columns'[c] = IF c \in DOMAIN w.orders /\ columns[c] \notin NoRow
                      THEN [columns[c] EXCEPT !.order = w.orders[c]]
                      ELSE columns[c]
    BY <1>2, <1>6 DEF Template
  <2>2. CASE columns[c] \in NoRow
    BY <2>1, <2>2 DEF Lasts
  <2>3. CASE columns[c] \notin NoRow
    <3>1. columns[c] \in ColumnRow
      BY <1>3, <2>3 DEF TablesTyped
    <3>2. columns'[c].name = columns[c].name /\ columns'[c].kind = columns[c].kind
      BY <2>1, <3>1 DEF ColumnRow
    <3>3. columns'[c] \in ColumnRow
      BY <1>4, <2>1, <3>1 DEF ColsTyped, ColumnRow
    <3> QED
      BY <2>3, <3>2, <3>3, NothingIsNothing DEF Lasts, NoRow
  <2> QED
    BY <2>2, <2>3
<1>7. \A t \in Busy' : /\ t \in Busy /\ t # s /\ proc'[t] = proc[t] /\ Working(proc[t])
                       /\ DOMAIN proc[t].cols \subseteq ColumnIds
                       /\ DOMAIN proc[t].asked \subseteq ColumnIds
  BY <1>3, <1>5, BusyWorks DEF Working, ColsTyped, KindTyped
<1>8. \A c \in DOMAIN w.cols : columns[c] = Unborn
  BY <1>1, <1>4 DEF FormsInv, ColsInv
<1>9. ColsInv'
  <2>1. ASSUME NEW t \in Busy', NEW c \in DOMAIN proc'[t].cols
        PROVE  /\ columns'[c] = Unborn
               /\ \A r \in Busy' : c \in DOMAIN proc'[r].cols => r = t
    <3>1. /\ columns[c] = Unborn
          /\ \A r \in Busy : c \in DOMAIN proc[r].cols => r = t
      BY <1>7, <2>1 DEF FormsInv, ColsInv
    <3>2. c \notin DOMAIN w.cols /\ c \in ColumnIds
      BY <1>1, <1>4, <1>7, <2>1, <3>1
    <3>3. columns'[c] = Unborn
      BY <1>6, <3>1, <3>2 DEF Lasts
    <3> QED
      BY <1>7, <3>1, <3>3
  <2> QED
    BY <2>1 DEF ColsInv
<1>10. ASSUME NEW t \in Busy', proc'[t].row # Null PROVE FormOK(proc[t])'
  <2>1. PICK x : x = proc'[t]
    OBVIOUS
  <2>2. x = proc[t] /\ t \in Busy /\ Working(x) /\ DOMAIN x.asked \subseteq ColumnIds
    BY <1>7, <2>1
  <2>3. FormOK(x) /\ x.at <= edits /\ x.at \in Nat /\ edits \in Nat
    BY <1>3, <1>10, <2>1, <2>2 DEF FormsInv, IInv, AloneInv, Working, TablesTyped
  <2>4. CASE edits' = edits + 1
    <3>1. x.at # edits'
      BY <2>3, <2>4
    <3>2. \A c \in DOMAIN x.asked : columns[c] # Unborn
      BY <2>3 DEF FormOK, Steady
    <3>3. \A c \in DOMAIN x.asked : Lasts(columns', columns, c)
      BY <1>6, <1>8, <2>2, <3>2
    <3>4. Steady(x)'
      BY <2>3, <3>3, SteadyLasts DEF FormOK
    <3>5. FormOK(x)'
      BY <2>3, <3>1, <3>4, FormLasts
    <3> QED
      BY <2>1, <3>5
  <2>5. CASE edits' # edits + 1
    <3>1. edits' = edits /\ UNCHANGED tables
      BY <1>2, <2>5 DEF tables
    <3>2. FormOK(x)'
      BY <2>3, <3>1, SameForms
    <3> QED
      BY <2>1, <3>2
  <2> QED
    BY <2>4, <2>5
<1> QED
  BY <1>9, <1>10 DEF FormsInv

\* Neither the tables nor what sessions do are touched.
LEMMA FormsStill ==
    ASSUME FormsInv, UNCHANGED <<tables, proc, history>>
    PROVE  FormsInv'
<1>1. /\ UNCHANGED tables /\ UNCHANGED edits /\ UNCHANGED proc /\ UNCHANGED columns
      /\ Busy' = Busy
  BY DEF tables, history, Busy
<1>2. ColsInv'
  BY <1>1 DEF FormsInv, ColsInv
<1>3. ASSUME NEW t \in Busy', proc'[t].row # Null PROVE FormOK(proc[t])'
  <2>1. PICK x : x = proc'[t]
    OBVIOUS
  <2>2. FormOK(x)
    BY <1>1, <1>3, <2>1 DEF FormsInv
  <2>3. FormOK(x)'
    BY <1>1, <2>2, SameForms
  <2> QED
    BY <2>1, <2>3
<1> QED
  BY <1>2, <1>3 DEF FormsInv

\* Every step of a session keeps what forms have put.
LEMMA FormsServe ==
    ASSUME IInv, FormsInv, NEW s \in Sessions, Serve(s)
    PROVE  FormsInv'
<1>1. TypesInv /\ ProcTyped
  BY DEF IInv, TypesInv
<1>2. ASSUME s \in Busy PROVE Working(proc[s]) /\ DesignsNothing(proc[s])
  BY <1>1, <1>2, BusyWorks DEF IInv, PlacesInv
<1>3. ASSUME NEW v, Begins(s, v), Started(v) PROVE FormsInv'
  BY <1>3, FormsBegin
<1>4. CASE CreateRead(s)
  BY <1>1, <1>3, <1>4, CreateReadStarts
<1>5. CASE UpdateRead(s)
  BY <1>1, <1>3, <1>5, UpdateReadStarts
<1>6. CASE ValuesRead(s)
  BY <1>1, <1>3, <1>6, ValuesReadStarts
<1>7. CASE FormOpen(s)
  BY <1>1, <1>3, <1>7, FormOpenStarts
<1>8. CASE ColumnAdd(s)
  BY <1>1, <1>3, <1>8, ColumnAddStarts
<1>9. CASE ColumnsReorder(s)
  BY <1>1, <1>3, <1>9, ColumnsReorderStarts
<1>10. CASE PlainImport(s)
  BY <1>1, <1>3, <1>10, PlainImportStarts
<1>11. CASE ProductImport(s)
  BY <1>1, <1>3, <1>11, ProductImportStarts
<1>12. CASE ImportConfirm(s)
  BY <1>1, <1>3, <1>12, ImportConfirmStarts
<1>13. CASE FormSave(s)
  <2>1. s \in Busy /\ proc[s].pc = "form"
    BY <1>13 DEF FormSave, Busy
  <2>2. PICK w : w = proc[s]
    OBVIOUS
  <2>3. Working(w) /\ DesignsNothing(w) /\ w.row # Null /\ w.book = Null /\ ColsTyped(w)
    BY <1>2, <2>1, <2>2 DEF Working, KindTyped
  <2>4. FormOK(w)
    BY <2>1, <2>2, <2>3 DEF FormsInv
  <2>5. PICK e \in Edits(w) : \E u : Continues(s, u) /\ Saved(u, Edited(w, e))
    BY <1>1, <1>13, <2>2, <2>3, FormSaves
  <2>6. PICK u : Continues(s, u) /\ Saved(u, Edited(w, e))
    BY <2>5
  <2>7. PICK y : y = Edited(w, e)
    OBVIOUS
  <2>8. FormOK(u)
    BY <1>1, <2>1, <2>2, <2>3, <2>4, <2>6, <2>7, FormSaved
  <2>9. u = Idle \/ Carried(u, w)
    BY <1>1, <2>3, <2>6, SavedCarries
  <2> QED
    BY <2>1, <2>2, <2>6, <2>8, <2>9, FormsContinue
<1>14. ASSUME s \in Busy, proc[s].book # Null, NEW v, Continues(s, v),
              v = Idle \/ Carried(v, proc[s])
       PROVE  FormsInv'
  <2>1. proc[s].row = Null
    BY <1>2, <1>14 DEF Working, KindTyped
  <2>2. v # Idle => v.row = Null
    BY <1>14, <2>1 DEF Carried, Same
  <2> QED
    BY <1>14, <2>2, FormsContinue
<1>15. CASE ImportAccept(s)
  <2>1. s \in Busy /\ proc[s].pc = "accept"
    BY <1>15 DEF ImportAccept, Busy
  <2>2. proc[s].book # Null
    BY <1>2, <2>1 DEF Working, KindTyped
  <2> QED
    BY <1>1, <1>2, <1>14, <1>15, <2>1, <2>2, ImportAcceptCarries
<1>16. CASE ImportRow(s)
  <2>1. s \in Busy /\ proc[s].pc = "rows"
    BY <1>16 DEF ImportRow, Busy
  <2>2. proc[s].book # Null
    BY <1>2, <2>1 DEF Working, KindTyped
  <2> QED
    BY <1>1, <1>2, <1>14, <1>16, <2>1, <2>2, ImportRowCarries
<1>17. CASE Commit(s)
  BY <1>17, FormsCommit
<1>18. CASE Abort(s)
  <2>1. s \in Busy /\ Continues(s, Idle)
    BY <1>1, <1>18, BusyWorks DEF Abort
  <2> QED
    BY <2>1, FormsContinue
<1> QED
  BY <1>4, <1>5, <1>6, <1>7, <1>8, <1>9, <1>10, <1>11, <1>12, <1>13, <1>15, <1>16, <1>17,
     <1>18 DEF Serve

\* So does every other step.
LEMMA FormsAdminister ==
    ASSUME IInv, FormsInv, Administer
    PROVE  FormsInv'
<1>1. TablesTyped /\ DOMAIN columns = ColumnIds
  BY DEF IInv, TypesInv, TablesTyped
<1>2. ASSUME NEW c \in ColumnIds, NEW v \in Revisions, ColumnUpdate(c, v) PROVE FormsInv'
  <2>1. /\ columns[c] \notin NoRow
        /\ columns' = [columns EXCEPT ![c] = Revised(columns[c], v)]
        /\ AtOnce
    BY <1>2 DEF ColumnUpdate
  <2>2. columns[c] \in ColumnRow
    BY <1>1, <2>1 DEF TablesTyped
  <2>3. /\ columns'[c] \in ColumnRow
        /\ columns'[c].name = columns[c].name /\ columns'[c].kind = columns[c].kind
        /\ \A d \in ColumnIds : d # c => columns'[d] = columns[d]
    BY <1>1, <2>1, <2>2, RevisedRow
  <2>4. ASSUME NEW d \in ColumnIds PROVE Lasts(columns', columns, d)
    BY <2>1, <2>3, NothingIsNothing DEF Lasts, NoRow
  <2> QED
    BY <2>1, <2>4, FormsAtOnce
<1>3. ASSUME NEW c \in ColumnIds, ColumnDelete(c) PROVE FormsInv'
  <2>1. /\ columns[c] \notin NoRow /\ columns' = [columns EXCEPT ![c] = Gone] /\ AtOnce
    BY <1>3 DEF ColumnDelete
  <2>2. ASSUME NEW d \in ColumnIds PROVE Lasts(columns', columns, d)
    BY <1>1, <2>1, NothingIsNothing DEF Lasts, NoRow
  <2> QED
    BY <2>1, <2>2, FormsAtOnce
<1>4. ASSUME NEW p \in Products, ProductDelete(p) PROVE FormsInv'
  <2>1. /\ columns' = [c \in ColumnIds |-> IF c \in ColumnsOf(columns, p) THEN Gone
                                           ELSE columns[c]]
        /\ AtOnce
    BY <1>4 DEF ProductDelete
  <2>2. \A c \in ColumnsOf(columns, p) : columns[c] \notin NoRow
    BY DEF ColumnsOf, LiveIn
  <2>3. ASSUME NEW d \in ColumnIds PROVE Lasts(columns', columns, d)
    BY <2>1, <2>2, NothingIsNothing DEF Lasts, NoRow
  <2> QED
    BY <2>1, <2>3, FormsAtOnce
<1>5. ASSUME AtOnce, UNCHANGED columns PROVE FormsInv'
  <2>1. \A d \in ColumnIds : Lasts(columns', columns, d)
    BY <1>5 DEF Lasts
  <2> QED
    BY <1>5, <2>1, FormsAtOnce
<1>6. ASSUME NEW p \in Products, ProductCreate(p) PROVE FormsInv'
  BY <1>5, <1>6 DEF ProductCreate
<1>7. ASSUME NEW i \in Ids, SetupDelete(i) PROVE FormsInv'
  BY <1>5, <1>7 DEF SetupDelete
<1>8. CASE ImportHeld \/ ImportReject
  BY <1>8, FormsStill DEF ImportHeld, ImportReject
<1>9. CASE Restart
  <2>1. Busy' = {}
    BY <1>9, IdleOrWorking DEF Restart, Busy
  <2> QED
    BY <2>1 DEF FormsInv, ColsInv
<1> QED
  BY <1>2, <1>3, <1>4, <1>6, <1>7, <1>8, <1>9 DEF Administer

\* What forms have put, in every state.
THEOREM FormsInvariant == Spec => [](IInv /\ FormsInv)
<1>1. Init => FormsInv
  <2> SUFFICES ASSUME Init PROVE FormsInv
    OBVIOUS
  <2>1. Busy = {}
    BY IdleOrWorking DEF Init, Busy
  <2> QED
    BY <2>1 DEF FormsInv, ColsInv
<1>2. IInv /\ FormsInv /\ [Next]_vars => FormsInv'
  <2> SUFFICES ASSUME IInv, FormsInv, [Next]_vars PROVE FormsInv'
    OBVIOUS
  <2>1. CASE Administer
    BY <2>1, FormsAdminister
  <2>2. ASSUME NEW s \in Sessions, Serve(s) PROVE FormsInv'
    BY <2>2, FormsServe
  <2>3. CASE UNCHANGED vars
    BY <2>3, FormsStill DEF vars
  <2> QED
    BY <2>1, <2>2, <2>3 DEF Next
<1> QED
  BY <1>1, <1>2, InventoryInvariant, PTL DEF Spec

-----------------------------------------------------------------------------
(* What a request commits                                                   *)

\* A setup that changes while a request ends has been written by that request.
LEMMA WhoWrites ==
    ASSUME IInv, Next, NEW s \in Busy, proc'[s] = Idle, setups' # setups
    PROVE  Commit(s)
<1>1. ProcTyped /\ s \in Sessions /\ proc[s] # Idle
  BY IdleOrWorking DEF IInv, TypesInv, Busy
<1>2. CASE Administer
  <2>1. ASSUME NEW i \in Ids, SetupDelete(i) PROVE FALSE
    <3>1. UNCHANGED proc
      BY <2>1 DEF SetupDelete, AtOnce
    <3> QED
      BY <1>1, <3>1
  <2>2. ASSUME NEW c \in ColumnIds, NEW v \in Revisions,
               ColumnUpdate(c, v)
        PROVE  FALSE
    BY <2>2 DEF ColumnUpdate
  <2>3. ASSUME NEW c \in ColumnIds, ColumnDelete(c) PROVE FALSE
    BY <2>3 DEF ColumnDelete
  <2>4. ASSUME NEW p \in Products, ProductCreate(p) \/ ProductDelete(p) PROVE FALSE
    BY <2>4 DEF ProductCreate, ProductDelete
  <2>5. ~ImportHeld /\ ~ImportReject /\ ~Restart
    BY DEF ImportHeld, ImportReject, Restart, tables
  <2> QED
    BY <1>2, <2>1, <2>2, <2>3, <2>4, <2>5 DEF Administer
<1>3. ASSUME NEW t \in Sessions, Serve(t) PROVE Commit(s)
  <2>1. Commit(t)
    BY <1>3, ServeStep
  <2>2. proc' = [proc EXCEPT ![t] = Idle]
    BY <2>1 DEF Commit, Goes
  <2>3. t = s
    BY <1>1, <2>2 DEF ProcTyped
  <2> QED
    BY <2>1, <2>3
<1> QED
  BY <1>2, <1>3 DEF Next

\* What it has written is what it saw.
LEMMA WhatIsWritten ==
    ASSUME IInv, NEW s \in Busy, Commit(s), NEW w, w = proc[s], w.at = edits
    PROVE  /\ TablesTyped /\ Working(w) /\ w.pc = "write"
           /\ columns' = Template(w) /\ setups' = View(w)
           /\ w.book # Null => Imports(w)
BY BusyWorks DEF IInv, TypesInv, AloneInv, AloneOK, Commit

\* The rows of an import were done when it saw them all.
LEMMA WholeStep ==
    ASSUME IInv, NEW s \in Busy, Commit(s), setups' # setups, NEW w, w = proc[s],
           w.book # Null, w.at = edits
    PROVE  /\ Disjoint(w.book) =>
                \A k \in DOMAIN w.book.rows :
                    Landed(w.book.rows[k], w.product, columns', setups')
           /\ w.product # Null => Filled(w, columns', setups')
<1>1. /\ TablesTyped /\ Working(w) /\ w.pc = "write"
      /\ columns' = Template(w) /\ setups' = View(w) /\ Imports(w)
  BY WhatIsWritten
<1>2. ~Untouched(w)
  BY <1>1, ViewUntouched DEF Working
<1>3. Done(w, Len(w.book.rows) + 1)
  BY <1>1, <1>2 DEF Imports
<1>4. \A k \in DOMAIN w.book.rows : k < Len(w.book.rows) + 1
  BY <1>1, BookRows DEF Working, KindTyped
<1> QED
  BY <1>1, <1>3, <1>4 DEF Done

\* "All-or-nothing": an import that is committed is whole, unless something was
\* committed since its rows were validated.
THEOREM ImportsAreWhole == Spec => ImportIsWhole
<1> DEFINE Whole ==
        \A s \in Busy :
         LET w == proc[s] IN
         /\ w.book # Null
         /\ proc'[s] = Idle /\ setups' # setups
         /\ w.at = edits
         => /\ Disjoint(w.book) =>
                \A k \in DOMAIN w.book.rows :
                    Landed(w.book.rows[k], w.product, columns', setups')
            /\ w.product # Null => Filled(w, columns', setups')
<1>1. IInv /\ [Next]_vars => [Whole]_vars
  <2> SUFFICES ASSUME IInv, Next PROVE Whole
    OBVIOUS
  <2>1. ASSUME NEW s \in Busy, NEW w, w = proc[s], w.book # Null, proc'[s] = Idle,
               setups' # setups, w.at = edits
        PROVE  /\ Disjoint(w.book) =>
                    \A k \in DOMAIN w.book.rows :
                        Landed(w.book.rows[k], w.product, columns', setups')
               /\ w.product # Null => Filled(w, columns', setups')
    BY <2>1, WhoWrites, WholeStep
  <2> QED
    BY <2>1, Zenon
<1>2. QED
  BY <1>1, InventoryInvariant, PTL DEF Spec, ImportIsWhole

\* What a form commits has been put by it.
LEMMA UneditedStep ==
    ASSUME IInv, FormsInv, NEW s \in Busy, Commit(s), NEW w, w = proc[s], w.row # Null
    PROVE  /\ \A i \in Ids \ {w.id} : setups'[i] = setups[i]
           /\ \A f \in Fields :
                \/ setups'[w.id][f] = setups[w.id][f]
                \/ f = w.edit.field
                \/ Overwritten(w, f, setups'[w.id][f])
<1>1. /\ TablesTyped /\ Working(w) /\ w.pc = "write"
      /\ setups' = View(w) /\ FormOK(w)
  BY BusyWorks DEF IInv, TypesInv, FormsInv, Commit
<1>2. PutTyped(w) /\ w.id \in Ids /\ w.new = {}
  BY <1>1 DEF Working, KindTyped, FormOK
<1>3. ASSUME NEW i \in Ids \ {w.id} PROVE setups'[i] = setups[i]
  <2>1. \A f \in Fields : w.put[i][f] = Kept
    BY <1>1 DEF FormOK
  <2>2. CASE i \in LiveIn(View(w))
    <3>1. i \in LiveIn(setups)
      BY <1>1, <1>2, <2>2, ViewRows
    <3>2. /\ setups[i] \in SetupRow /\ View(w)[i] \in SetupRow
          /\ \A f \in Fields : View(w)[i][f] = setups[i][f]
      BY <1>1, <1>2, <2>1, <2>2, <3>1, LiveTyped, ViewRows
    <3> QED
      BY <1>1, <3>2 DEF SetupRow
  <2>3. CASE i \notin LiveIn(View(w))
    BY <1>1, <1>2, <2>3, ViewRows
  <2> QED
    BY <2>2, <2>3
<1>4. CASE w.id \in LiveIn(View(w))
  <2>1. \A f \in Fields : setups'[w.id][f] = IF w.put[w.id][f] = Kept THEN setups[w.id][f]
                                             ELSE w.put[w.id][f]
    BY <1>1, <1>2, <1>4, ViewRows
  <2>2. \A f \in Fields : w.put[w.id][f] # Kept =>
            f = w.edit.field \/ Overwritten(w, f, w.put[w.id][f])
    BY <1>1, <1>2 DEF FormOK
  <2> QED
    BY <1>3, <2>1, <2>2
<1>5. CASE w.id \notin LiveIn(View(w))
  <2>1. setups'[w.id] = setups[w.id]
    BY <1>1, <1>2, <1>5, ViewRows
  <2> QED
    BY <1>3, <2>1
<1> QED
  BY <1>4, <1>5

\* Saving the form changes no other setup and, beside the field that was edited,
\* only those that go back to what was rendered and those it could not show.
THEOREM FormsWriteBack == Spec => UneditedAsRendered
<1> DEFINE AsRendered ==
        \A s \in Busy :
         LET w == proc[s] IN
         w.row # Null /\ proc'[s] = Idle /\ setups' # setups
         => /\ \A i \in Ids \ {w.id} : setups'[i] = setups[i]
            /\ \A f \in Fields :
                \/ setups'[w.id][f] = setups[w.id][f]
                \/ f = w.edit.field
                \/ Overwritten(w, f, setups'[w.id][f])
<1>1. IInv /\ FormsInv /\ [Next]_vars => [AsRendered]_vars
  <2> SUFFICES ASSUME IInv, FormsInv, Next PROVE AsRendered
    OBVIOUS
  <2>1. ASSUME NEW s \in Busy, NEW w, w = proc[s], w.row # Null, proc'[s] = Idle,
               setups' # setups
        PROVE  /\ \A i \in Ids \ {w.id} : setups'[i] = setups[i]
               /\ \A f \in Fields :
                    \/ setups'[w.id][f] = setups[w.id][f]
                    \/ f = w.edit.field
                    \/ Overwritten(w, f, setups'[w.id][f])
    BY <2>1, WhoWrites, UneditedStep
  <2> QED
    BY <2>1, Zenon
<1>2. QED
  BY <1>1, FormsInvariant, PTL DEF Spec, UneditedAsRendered

=============================================================================
