----------------------------- MODULE ProductList -----------------------------
(***************************************************************************)
(* The products table of the legacy catalogue and the page of the admin    *)
(* panel that lists it (app/admin, app/repositories/product_repository.py, *)
(* the first half of static/js/admin.js): dragging rows, toggling and      *)
(* deleting products.                                                      *)
(*                                                                         *)
(* A drag posts the whole order and nobody waits for the answer, so two    *)
(* drags can be served at once.  A request loads rows and commits later;   *)
(* the commit writes the columns that differ from what was loaded, and     *)
(* raises if a row it updates is gone.                                     *)
(***************************************************************************)
EXTENDS Integers, FiniteSets, Sequences, SequencesExt, Functions

CONSTANTS
    Calls,       \* requests of the list page that may be served at once
    NoProduct,   \* the table has no product with that id
    MaxProducts, \* bound: ids, given in ascending order and never again
    MaxCalls     \* bound: requests the list page sends

Ids == 1..MaxProducts
Row == [position: Nat, published: BOOLEAN]

ASSUME ListAssumption ==
    /\ MaxProducts \in Nat /\ MaxProducts >= 2
    /\ MaxCalls \in Nat
    /\ NoProduct \notin Row

VARIABLES
    products,  \* the table
    born,      \* how many ids have been given
    page,      \* the rows of the list page, as dragged
    call,      \* call[c]: a request of the list page
    calls      \* requests left before MaxCalls

listVars == <<products, born, page, call, calls>>

Table == [Ids -> Row \cup {NoProduct}]
Alive == {p \in Ids : products[p] # NoProduct}

NoCall == [pc |-> "idle"]
Call == {NoCall} \cup [pc: {"toggle"}, product: Ids, loaded: Table]
                 \cup [pc: {"load"}, order: Seq(Ids)]
                 \cup [pc: {"reorder"}, order: Seq(Ids), loaded: Table]

ListTypeOK ==
    /\ products \in Table
    /\ born \in 0..MaxProducts /\ Alive \subseteq 1..born
    /\ page \in Seq(1..born)
    /\ call \in [Calls -> Call]
    /\ calls \in 0..MaxCalls

\* Two products, between which there was a third one.
ListInit ==
    /\ products = [p \in Ids |-> IF p > 2 THEN NoProduct
                                 ELSE [position |-> 2 * (p - 1), published |-> TRUE]]
    /\ born = 2
    /\ page = <<1, 2>>
    /\ call = [c \in Calls |-> NoCall]
    /\ calls = MaxCalls

\* get_all: by position, then by id.
ListedBefore(table, p, q) ==
    \/ table[p].position < table[q].position
    \/ table[p].position = table[q].position /\ p < q

Listed(table, some) ==
    CHOOSE s \in SetToSeqs(some) :
        \A k, l \in DOMAIN s : k < l => ListedBefore(table, s[k], s[l])

\* The elements of s that are in S, in their order: the n-th has n - 1 before it.
Only(s, S) ==
    LET at == {i \in DOMAIN s : s[i] \in S}
    IN [n \in 1..Cardinality(at) |->
           s[CHOOSE i \in at : Cardinality({j \in at : j < i}) = n - 1]]

\* Mutant: the new product takes the number of products as its place.
CountPosition(table) == Cardinality({p \in Ids : table[p] # NoProduct})

\* next_position: after the one with the highest position.
NextPosition(table) ==
    LET some == {p \in Ids : table[p] # NoProduct}
        last == CHOOSE p \in some : \A q \in some : table[q].position <= table[p].position
    IN IF some = {} THEN 0 ELSE table[last].position + 1

(***************************************************************************)
(* The page.                                                               *)
(***************************************************************************)
\* products_list (bound: only if something is still to be asked from it)
OpenList ==
    /\ calls > 0
    /\ page' = Listed(products, Alive)
    /\ page' # page
    /\ UNCHANGED <<products, born, call, calls>>

\* What the page shows then (bound: forgotten if nothing more is asked from it).
Shows(rows) == page' = IF calls' = 0 THEN <<>> ELSE rows

Send(c, fields) ==
    /\ call[c].pc = "idle" /\ calls > 0
    /\ calls' = calls - 1
    /\ call' = [call EXCEPT ![c] = fields]

\* A row is dropped at another place of the page, which posts its whole order.
Drag(c) ==
    /\ \E i, j \in DOMAIN page :
         /\ i # j
         /\ LET order == InsertAt(RemoveAt(page, i), j, page[i])
            IN Send(c, [pc |-> "load", order |-> order]) /\ Shows(order)
    /\ UNCHANGED <<products, born>>

(***************************************************************************)
(* The handlers.                                                           *)
(***************************************************************************)
\* products_reorder reads the products one after another, those it is given ...
LoadOrder(c) ==
    /\ call[c].pc = "load"
    /\ call' = [call EXCEPT ![c] = [pc |-> "reorder", order |-> call[c].order,
                                    loaded |-> products]]
    /\ UNCHANGED <<products, born, page, calls>>

\* Place of p in the order, from 0.
Place(order, p) == (CHOOSE i \in DOMAIN order : order[i] = p) - 1

\* ... and gives each that it found its place.  Only a place that is not the
\* one that was loaded is written.
Moved(q) == {p \in Range(q.order) : /\ q.loaded[p] # NoProduct
                                    /\ q.loaded[p].position # Place(q.order, p)}

\* Mutant: only the first product that moved is written.
MoveOne(c) ==
    LET q == call[c]
    IN /\ q.pc = "reorder"
       /\ call' = [call EXCEPT ![c] = NoCall]
       /\ IF Moved(q) = {} \/ ~(Moved(q) \subseteq Alive) THEN UNCHANGED products
          ELSE LET p == CHOOSE p \in Moved(q) : \A o \in Moved(q) : p <= o
               IN products' = [products EXCEPT ![p].position = Place(q.order, p)]
       /\ UNCHANGED <<born, page, calls>>

Reorder(c) ==
    LET q == call[c]
    IN /\ q.pc = "reorder"
       /\ call' = [call EXCEPT ![c] = NoCall]
       /\ products' = IF Moved(q) \subseteq Alive
                      THEN [p \in Ids |-> IF p \in Moved(q)
                                          THEN [products[p] EXCEPT !.position = Place(q.order, p)]
                                          ELSE products[p]]
                      ELSE products
       /\ UNCHANGED <<born, page, calls>>

\* product_toggle
LoadToggle(c) ==
    /\ \E p \in Range(page) \cap Alive :
         Send(c, [pc |-> "toggle", product |-> p, loaded |-> products])
    /\ Shows(page)
    /\ UNCHANGED <<products, born>>

Toggle(c) ==
    LET p == call[c].product
    IN /\ call[c].pc = "toggle"
       /\ call' = [call EXCEPT ![c] = NoCall]
       /\ products' = IF p \in Alive
                      THEN [products EXCEPT ![p].published = ~call[c].loaded[p].published]
                      ELSE products
       /\ UNCHANGED <<born, calls>>
       /\ Shows(Listed(products', Alive))

ListStep(c) == Drag(c) \/ LoadOrder(c) \/ Reorder(c) \/ LoadToggle(c) \/ Toggle(c)

(***************************************************************************)
(* Properties.                                                             *)
(***************************************************************************)
\* After a drag is served, with nobody moving products meanwhile, the products
\* of the page are listed in the order it shows: those that were not dragged
\* too, and whatever gaps deletions left in the positions.
ReorderedAsDropped ==
    [][\A c \in Calls :
        LET q == call[c]
        IN (/\ q.pc = "reorder" /\ call'[c].pc = "idle"
            /\ \A p \in Ids : q.loaded[p] = products[p]) =>
             Listed(products', Range(q.order) \cap Alive)
               = Only(q.order, Alive)]_listVars
=============================================================================
