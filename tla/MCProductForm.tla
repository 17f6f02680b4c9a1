---------------------------- MODULE MCProductForm ----------------------------
(* ProductForm on small sets. *)
EXTENDS ProductForm

CONSTANTS a, b, e, c1

TwoPhotos == {a, b}

\* One file may be anything.
OneSuspect == {k \in [TwoPhotos -> Kinds] : k[a] = "fine"}
OneMedium == {e}
OneCall == {c1}

\* Only selects as SelectSeq does.
ASSUME OnlySelects ==
    \A n \in 0..4 : \A s \in [1..n -> 1..3] : \A S \in SUBSET (1..3) :
        Only(s, S) = SelectSeq(s, LAMBDA x : x \in S)
=============================================================================
