-------------------------------- MODULE Tables --------------------------------
(***************************************************************************)
(* A database table is a sequence of rows whose ids are the positions.     *)
(* What proofs need to know of rewriting rows in place and inserting one.  *)
(***************************************************************************)
EXTENDS Naturals, Sequences, SequenceTheorems, TLAPS

\* A function on 1..n is a sequence of length n.
LEMMA TableIsSeq ==
    ASSUME NEW S, NEW n \in Nat, NEW f \in [1..n -> S]
    PROVE  f \in Seq(S) /\ Len(f) = n /\ DOMAIN f = 1..n
<1>1. f \in Seq(S)
  BY SeqDef
<1>2. DOMAIN f = 1..n /\ DOMAIN f = 1..Len(f) /\ Len(f) \in Nat
  BY <1>1, LenProperties
<1>3. Len(f) = n
  BY <1>2
<1> QED
  BY <1>1, <1>2, <1>3

\* Appending a row leaves the rows before it alone.
LEMMA AppendRow ==
    ASSUME NEW S, NEW t \in Seq(S), NEW r \in S
    PROVE  /\ Append(t, r) \in Seq(S)
           /\ Len(Append(t, r)) = Len(t) + 1
           /\ DOMAIN Append(t, r) = 1..(Len(t) + 1)
           /\ \A i \in 1..Len(t) : Append(t, r)[i] = t[i]
           /\ Append(t, r)[Len(t) + 1] = r
<1>1. Append(t, r) \in Seq(S) /\ Len(Append(t, r)) = Len(t) + 1
  OBVIOUS
<1>2. DOMAIN Append(t, r) = 1..(Len(t) + 1)
  BY <1>1, LenProperties
<1> QED
  BY <1>1, <1>2

\* Writing one entry leaves the others alone.
LEMMA WriteEntry ==
    ASSUME NEW S, NEW t \in Seq(S), NEW i \in 1..Len(t), NEW v \in S
    PROVE  /\ [t EXCEPT ![i] = v] \in Seq(S)
           /\ Len([t EXCEPT ![i] = v]) = Len(t)
           /\ DOMAIN [t EXCEPT ![i] = v] = 1..Len(t)
           /\ \A j \in 1..Len(t) :
                [t EXCEPT ![i] = v][j] = IF j = i THEN v ELSE t[j]
<1>1. Len(t) \in Nat /\ DOMAIN t = 1..Len(t) /\ t \in [1..Len(t) -> S]
  BY LenProperties
<1>2. [t EXCEPT ![i] = v] \in [1..Len(t) -> S]
  BY <1>1
<1> QED
  BY <1>1, <1>2, TableIsSeq
=============================================================================
