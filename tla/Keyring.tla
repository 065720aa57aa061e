------------------------------- MODULE Keyring -------------------------------
(***************************************************************************)
(* What accounts and their tokens promise, without requests, rows or       *)
(* clocks: a key is cut only at an open door, is exchanged once, and goes  *)
(* when the lock of its owner is changed.                                  *)
(***************************************************************************)
EXTENDS Naturals

CONSTANTS
    Owners,
    Ids       \* names of keys: numbers

VARIABLES
    open,   \* the owners whose door is open
    lock,   \* [Owners -> Nat]: how often the lock was changed
    keys    \* keys in use: an id, the entry from which the key descends, its
            \* owner and the lock it was cut for

keyring == <<open, lock, keys>>

Init ==
    /\ open \subseteq Owners
    /\ lock = [o \in Owners |-> 0]
    /\ keys = {}

\* A key that fits the lock as it is.
Cut(o, id, line) == [id |-> id, line |-> line, owner |-> o, fits |-> lock[o]]

\* The id of a new key is above those in use.
Fresh(id) == \A k \in keys : k.id < id

\* Each entry begins a line of its own ...
Enter(o) ==
    /\ o \in open
    /\ \E id \in Ids : Fresh(id) /\ keys' = keys \union {Cut(o, id, id)}
    /\ UNCHANGED <<open, lock>>

\* ... in which there is one key at a time.
Exchange(k) ==
    /\ k.owner \in open
    /\ \E id \in Ids :
        /\ Fresh(id)
        /\ keys' = (keys \ {k}) \union {Cut(k.owner, id, k.line)}
    /\ UNCHANGED <<open, lock>>

Drop(k) ==
    /\ keys' = keys \ {k}
    /\ UNCHANGED <<open, lock>>

ChangeLock(o) ==
    /\ lock' = [lock EXCEPT ![o] = @ + 1]
    /\ keys' = {k \in keys : k.owner # o}
    /\ UNCHANGED open

\* Doors open and close; keys stay, and open nothing meanwhile.
Door ==
    /\ open' \subseteq Owners
    /\ UNCHANGED <<lock, keys>>

Next ==
    \/ \E o \in Owners : Enter(o) \/ ChangeLock(o)
    \/ \E k \in keys : Exchange(k) \/ Drop(k)
    \/ Door

Spec == Init /\ [][Next]_keyring
=============================================================================
