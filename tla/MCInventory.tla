----------------------------- MODULE MCInventory -----------------------------
(* Two products; p1 has a text column and a dropdown whose word v1 its      *)
(* input does not show, p2 a checkbox; a setup of each product.  A workbook *)
(* whose second row matches one setup by its ip and another by its host,    *)
(* and one with two headers, of which the second is not normalised.         *)
EXTENDS InventoryProperties, TLC

CONSTANTS s1, s2, p1, p2, p3, i1, i2, i3, c1, c2, c3, c4, a1, a2, a3, m1, m2, m3,
          n1, serial, bios, user, rack, Rack, yes, v1, v2

MCNorm == [h \in Headers |-> IF h = Rack THEN rack ELSE h]

Column(p, n, o, kind, required, default, shows) ==
    [product |-> p, name |-> n, order |-> o, kind |-> kind, required |-> required,
     default |-> default, takes |-> IF kind = "BOOLEAN" THEN {yes, v1} ELSE {v1, v2},
     shows |-> shows]

MCFirstColumns == (c1 :> Column(p1, serial, 2, "TEXT", FALSE, Null, {v1, v2}))
               @@ (c2 :> Column(p1, bios, 0, "DROPDOWN", FALSE, v2, {v2}))
               @@ (c3 :> Column(p2, serial, 0, "BOOLEAN", FALSE, yes, {}))

Setup(p, a, m, c, v) ==
    [f \in Fields |-> CASE f = "product" -> p [] f = "ip" -> a [] f = "host" -> m
                        [] f = "owner" -> n1 [] f = c -> v [] OTHER -> Null]

MCFirstSetups == (i1 :> [Setup(p1, a1, m1, c1, v1) EXCEPT ![c2] = v1])
              @@ (i2 :> Setup(p2, a2, m2, c3, v1))

Row(p, a, m, n, custom) ==
    [product |-> p, ip |-> a, host |-> m, owner |-> n, good |-> TRUE, custom |-> custom]

Book(headers, rows) == [headers |-> headers, rows |-> rows]

Plainly == Book({}, <<Row(p1, a1, m1, Null, <<>>), Row(p2, a3, m3, n1, <<>>)>>)
Serials == Book({serial}, <<Row(p1, a3, m3, n1, <<>>), Row(p1, a2, m2, Null, serial :> v2)>>)
Racks == Book({rack, user}, <<Row(p1, a1, m1, n1, rack :> v1), Row(p1, a3, m3, n1, <<>>)>>)
Mixed == Book({}, <<Row(p1, a3, m3, n1, <<>>), Row(p2, a1, m2, Null, <<>>)>>)
Capital == Book({serial, Rack}, <<Row(p1, a3, m3, n1, Rack :> v1)>>)

Blank == Book({}, <<>>)

MCBooks == {Plainly, Serials, Racks, Mixed, Blank}
MCCapital == {Capital, Racks}

Entered(p, a, m, n) == [product |-> p, ip |-> a, host |-> m, owner |-> n]
MCRows == {Entered(p2, a3, m3, Null)}

Revision(required, default, takes, shows) ==
    [required |-> required, default |-> default, takes |-> takes, shows |-> shows]

MCRevisions == {Revision(TRUE, Null, {v1, v2}, {v2}), Revision(FALSE, v1, {v1}, {})}

MCNewColumns == {Column(p1, rack, 0, "TEXT", TRUE, Null, {v1, v2}),
                 Column(p1, Rack, 0, "BOOLEAN", FALSE, yes, {})}

Interchangeable == Permutations(Sessions)
=============================================================================
