---------------------------- MODULE MCReservations ----------------------------
(* Instances of Reservations for TLC: the constants are in the .cfg files.   *)
EXTENDS ReservationProperties, TLC

CONSTANTS s1, s2, w1, w2, x1, x2, u1, u2

\* Sessions, scheduler processes and setups are interchangeable: no action
\* names one.  Used by the runs that check safety only.
Interchangeable ==
    Permutations(Sessions) \union Permutations(Sweepers)
        \union Permutations(Setups)
=============================================================================
