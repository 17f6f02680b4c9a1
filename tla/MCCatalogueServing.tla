------------------------- MODULE MCCatalogueServing -------------------------
(* CatalogueServing on small sets. *)
EXTENDS CatalogueServing

CONSTANTS i1, w1, w2

OneInstance == {i1}
OneWorker == {w1}
TwoWorkers == {w1, w2}

\* Threads of one process; of two workers one is asked for every page, the other
\* for none: it only runs the writes it is given.
Together == [w \in Workers |-> i1]
FirstAsked == [w \in Workers |-> IF w = w1 THEN Pages ELSE {}]
=============================================================================
