------------------------------ MODULE Calendar ------------------------------
(***************************************************************************)
(* What the reservation component promises, without tables, sessions or    *)
(* jobs: a calendar of bookings in which a setup is never promised twice   *)
(* for the same instant.  A booking is made only if it is free of conflict *)
(* with the bookings held; bookings are given up, one or several at once.  *)
(***************************************************************************)
EXTENDS Naturals

CONSTANTS Setups, Users, MaxTime

VARIABLE held    \* the bookings in force, each with the number it was given

Time == 0..MaxTime

Bookings == [id : Nat \ {0}, setup : Setups, user : Users,
             from : Time, until : Time]

SharesInstant(a, b) ==
    \E t \in Time : /\ a.from <= t /\ t < a.until
                    /\ b.from <= t /\ t < b.until

Clash(a, b) == a.setup = b.setup /\ SharesInstant(a, b)

Init == held = {}

Book(b) ==
    /\ b.from < b.until
    /\ \A h \in held : h.id # b.id /\ ~Clash(h, b)
    /\ held' = held \union {b}

Release == \E gone \in SUBSET held : held' = held \ gone

\* TLC evaluates the first conjunct before it looks for the booking made.
Next ==
    \/ Release
    \/ \E b \in held' : b \in Bookings /\ b \notin held /\ Book(b)

Spec == Init /\ [][Next]_held
=============================================================================
