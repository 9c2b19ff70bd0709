----------------------------- MODULE MCHomeOps -----------------------------
(***************************************************************************)
(* Instances of HomeOps for TLC: two names, two files, one link, and two   *)
(* requests in flight.                                                     *)
(***************************************************************************)
EXTENDS HomeOps, TLC

CONSTANTS a, b, f1, f2, l, w1, w2

LinkToB == [x \in Links |-> b]

FilesAndWorkers == Permutations(Files) \cup Permutations(Workers)
============================================================================
