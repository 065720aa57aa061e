------------------------------- MODULE Lending -------------------------------
(***************************************************************************)
(* What borrowing promises: a setup that another group may use is lent to  *)
(* one group at a time, by one step, and comes back by one step.           *)
(***************************************************************************)
CONSTANTS Setups, Groups

VARIABLE lent   \* the pairs <<setup, group it is lent to>>

Free(x) == \A g \in Groups : <<x, g>> \notin lent

Init == lent = {}

Lend(x, g) == Free(x) /\ lent' = lent \union {<<x, g>>}

GiveBack(x, g) == <<x, g>> \in lent /\ lent' = lent \ {<<x, g>>}

Next == \E x \in Setups, g \in Groups : Lend(x, g) \/ GiveBack(x, g)

Spec == Init /\ [][Next]_lent
=============================================================================
