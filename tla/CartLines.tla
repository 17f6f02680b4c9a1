------------------------------ MODULE CartLines ------------------------------
(***************************************************************************)
(* The raw {product_id: qty} map kept in the session by                    *)
(* app/services/cart_service.py, and the arithmetic its mutations do.      *)
(* A line that is absent from the map is a quantity of 0: the code pops a  *)
(* line whenever its quantity would not be positive.                       *)
(***************************************************************************)
EXTENDS Integers

CONSTANTS
    Products,   \* the product ids a cart can name
    MaxQty      \* MAX_QTY, the cap on one line

ASSUME MaxQtyAssumption == MaxQty \in Nat \ {0}

Lines == [Products -> 0..MaxQty]

NoLines == [p \in Products |-> 0]

\* Mutant: _clamp_qty forgets the cap.
ClampQtyNoCap(q) == IF q < 0 THEN 0 ELSE q

\* _clamp_qty: whatever number is asked for, a quantity in 0..MaxQty.
ClampQty(q) == IF q < 0 THEN 0 ELSE IF q > MaxQty THEN MaxQty ELSE q

\* add: accumulates on the line; the sum is clamped again.
AddLine(raw, p, q) == [raw EXCEPT ![p] = ClampQty(@ + ClampQty(q))]

\* set_qty: absolute quantity, 0 pops the line.
SetLine(raw, p, q) == [raw EXCEPT ![p] = ClampQty(q)]

RemoveLine(raw, p) == [raw EXCEPT ![p] = 0]

\* remove_quantities: subtract the lines of a completed checkout, popping the
\* lines that do not stay positive.
RemoveQuantities(raw, items) ==
    [p \in Products |->
        IF raw[p] > ClampQty(items[p]) THEN raw[p] - ClampQty(items[p]) ELSE 0]

\* build: keep the lines whose product is still purchasable.
Prune(raw, purchasable) ==
    [p \in Products |-> IF p \in purchasable THEN raw[p] ELSE 0]
=============================================================================
