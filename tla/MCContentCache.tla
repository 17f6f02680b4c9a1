--------------------------- MODULE MCContentCache ---------------------------
(* ContentCache on small sets. *)
EXTENDS ContentCache

CONSTANTS r1, r2, e1, e2

OneReader == {r1}
TwoReaders == {r1, r2}
OneEditor == {e1}
TwoEditors == {e1, e2}
=============================================================================
