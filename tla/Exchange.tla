------------------------------ MODULE Exchange ------------------------------
(***************************************************************************)
(* What swapping promises, without requests, sessions or tables: values    *)
(* change places between two setups, or are corrected on one and then      *)
(* known to be.                                                            *)
(***************************************************************************)
CONSTANTS Setups, Columns, Cells

VARIABLES
    held,        \* held[x][c]: what setup x has in column c
    corrected    \* the cells that have been corrected

vars == <<held, corrected>>

Init ==
    /\ held \in [Setups -> [Columns -> Cells]]
    /\ corrected = {}

\* a and b exchange what they have in the columns of C.
Trade(a, b, C) ==
    /\ held' = [held EXCEPT
          ![a] = [c \in Columns |-> IF c \in C THEN held[b][c] ELSE held[a][c]],
          ![b] = [c \in Columns |-> IF c \in C THEN held[a][c] ELSE held[b][c]]]
    /\ UNCHANGED corrected

Correct(x) ==
    \E row \in [Columns -> Cells] :
        /\ held' = [held EXCEPT ![x] = row]
        /\ corrected' = corrected
              \union {<<x, c>> : c \in {d \in Columns : row[d] # held[x][d]}}

Next ==
    \/ \E a, b \in Setups, C \in SUBSET Columns : a # b /\ Trade(a, b, C)
    \/ \E x \in Setups : Correct(x)

Spec == Init /\ [][Next]_vars
=============================================================================
