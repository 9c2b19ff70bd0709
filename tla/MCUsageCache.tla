--------------------------- MODULE MCUsageCache ---------------------------
(***************************************************************************)
(* Instances of UsageCache for TLC.                                        *)
(***************************************************************************)
EXTENDS UsageCache

CONSTANTS r1, r2, w1, w2

Swaps == Permutations(Workers)
============================================================================
