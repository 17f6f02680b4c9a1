---------------------------- MODULE MCMirrorSync ----------------------------
(* MirrorSync on small sets. *)
EXTENDS MirrorSync, TLC

CONSTANTS w1, w2, h1, none, unborn, gone

TwoProducts == 1..2
OneColumn == {"price"}
Bits == 0..1
TwoRunners == {w1, w2}
OneHandler == {h1}
=============================================================================
