----------------------------- MODULE MCAccounts -----------------------------
(* Sessions are interchangeable; the account is still to be registered.     *)
EXTENDS AccountProperties, TLC

CONSTANTS s1, s2, u1

Interchangeable == Permutations(Sessions)
=============================================================================
