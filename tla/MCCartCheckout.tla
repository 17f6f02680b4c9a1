--------------------------- MODULE MCCartCheckout ---------------------------
(* CartCheckout on small sets. *)
EXTENDS CartCheckout, TLC

CONSTANTS r1, r2, d1, d2, bag, none

TwoSlots == {r1, r2}
OneDraft == {d1}
TwoDrafts == {d1, d2}
OneProduct == {bag}

\* What the product page asks for, alone or with more than a line may hold.
OneUnit == {1}
AnyAdd == {1, MaxQty + 1}

Symmetry == Permutations(Slots) \cup Permutations(Drafts)
=============================================================================
