------------------------------ MODULE MCShell ------------------------------
(* An instance of Shell for TLC. *)
EXTENDS Shell, TLC

CONSTANTS index, app, r1, r2, A, B

\* The two renders are interchangeable, and so are the two contents.
Sym == Permutations(Requests) \cup Permutations(Contents)
============================================================================
