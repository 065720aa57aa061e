------------------------------- MODULE MCSwap -------------------------------
(* Up to three setups, each with a value of its own in f1 and in c1, x3    *)
(* with none in f2 and c2.  The templates: a plain column c1 that does not *)
(* take v3; on x3 also a required c2, which nobody has filled in; or       *)
(* everywhere a c2 with a default.  u1 may swap x1 and x2, u2 x2 and x3.   *)
EXTENDS SwapProperties, SequencesExt

CONSTANTS x1, x2, x3, f1, f2, c1, c2, v1, v2, v3, u1, u2, s1, s2

MCStock == [x \in Setups |-> [d \in Columns |->
    CASE x = x1 -> IF d = c2 THEN Null ELSE v1
      [] x = x2 -> IF d = c2 THEN Null ELSE v2
      [] OTHER  -> IF d \in {f2, c2} THEN Null ELSE v3]]

Plain == [required |-> FALSE, default |-> Null, allowed |-> Values]
PlainTemplate ==
    [x \in Setups |-> [d \in {c1} |-> [Plain EXCEPT !.allowed = Values \ {v3}]]]
StrictTemplate == [x \in Setups |->
    IF x = x3 THEN [d \in {c1, c2} |-> [Plain EXCEPT !.required = (d = c2)]]
    ELSE [d \in {c1} |-> Plain]]
DefaultTemplate == [x \in Setups |->
    [d \in {c1, c2} |-> [Plain EXCEPT !.default = IF d = c2 THEN v1 ELSE Null]]]

MCHolds == [u \in Users |-> Setups \ {IF u = u1 THEN x3 ELSE x1}]
MCDeciders == [x \in Setups |-> Users]

OneFixed == {<<f1>>}
FixedThenCustom == {<<f1>>, <<f1, c1>>}
Mixed == {<<f1>>, <<c1, f2>>}

Interchangeable == Permutations(Sessions)

-----------------------------------------------------------------------------
(* Assigned says in one formula what the code does call by call.            *)

OneCall(x, row, c, v) ==
    [d \in Columns |->
        IF c \in Fixed THEN IF d = c THEN v ELSE row[d]
        ELSE IF d \in Fixed THEN row[d]
        ELSE IF d = c /\ v # Null THEN v
        ELSE IF Default(x, d) # Null THEN Default(x, d) ELSE row[d]]

CallByCall(x, row, new, cols, n) ==
    FoldLeft(LAMBDA r, c : OneCall(x, r, c, new[c]), row, SubSeq(cols, 1, n))

ASSUME \A x \in Setups, n \in 0..2, row, new \in {Stock[y] : y \in Setups} :
        \A cols \in {q \in [1..2 -> Columns] : q[1] # q[2]} :
            Assigned(x, row, new, cols, n) = CallByCall(x, row, new, cols, n)
=============================================================================
