------------------------------ MODULE MCGallery ------------------------------
(***************************************************************************)
(* Small galleries for TLC.  Directory names and requests are alike.       *)
(***************************************************************************)
EXTENDS Gallery, TLC

ItemSymmetry == Permutations(Items) \cup Permutations(Requests)
=============================================================================
