------------------------------ MODULE MCBorrow ------------------------------
(* Two groups that lend to each other.  u1 leads g1, u2 leads g2, u3 is an *)
(* owner, whose group is g2.  Borrows from g1 are routed to u1; nobody is   *)
(* routed for g2, so the flat permission decides there.                     *)
EXTENDS BorrowProperties, TLC

CONSTANTS s1, s2, w1, w2, x1, x2, g1, g2, u1, u2, u3

MCGroupOf == [u \in Users |-> IF u = u1 THEN g1 ELSE g2]

MCGroupsOf == [u \in Users |-> {MCGroupOf[u]}]

MCRouted == g1 :> {u1} @@ g2 :> {}

Interchangeable == Permutations(Sessions) \union Permutations(Setups)
=============================================================================
