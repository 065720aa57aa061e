------------------------------ MODULE MCRouting ------------------------------
(* Four groups.  g1 is above g2 for swaps, g2 and g3 are children of g1     *)
(* for borrows; g4 is empty; an edge that may be added closes a cycle.      *)
EXTENDS RoutingProperties, TLC

CONSTANTS s1, g1, g2, g3, g4, u1, u2, u3, x1, x2

Edge(p, c, s) == [parent |-> p, child |-> c, scope |-> s]

MCChart == {Edge(g1, g2, "BOTH"), Edge(g1, g3, "BORROW")}

MCNewEdges == {Edge(g2, g1, "BOTH"), Edge(g3, g2, "SWAP"), Edge(g1, g3, "SWAP")}

Posted(role, g, G, good) ==
    [role |-> role, group |-> g, also |-> G, good |-> good]

\* A manager of g1 and a lead of g2, who also is in g3; u3 is a user of g2.
MCStaff == (u1 :> Posted("MANAGER", g1, {}, TRUE))
        @@ (u2 :> Posted("LEAD", g2, {g3}, TRUE))
        @@ (u3 :> Posted("USER", g2, {}, TRUE))

\* Promoted to lead of g3, made owner, demoted, disabled.
MCPostings == {Posted("LEAD", g3, {}, TRUE), Posted("OWNER", g1, {}, TRUE),
               Posted("USER", g4, {g3}, TRUE), Posted("LEAD", g2, {}, FALSE)}

MCHeld == (x1 :> g2) @@ (x2 :> g3)
=============================================================================
