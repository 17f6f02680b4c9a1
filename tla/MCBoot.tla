------------------------------- MODULE MCBoot -------------------------------
(***************************************************************************)
(* Instances of Boot.                                                      *)
(***************************************************************************)
EXTENDS Boot, TLC

CONSTANTS w1, w2, k1, k2, s1, s2, a1

TwoWorkers == {w1, w2}
TwoKeys == {k1, k2}
TwoSeeds == {s1, s2}
OneShop == {a1}
TwoWidths == {400, 1000}

=============================================================================
