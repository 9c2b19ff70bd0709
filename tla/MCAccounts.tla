---------------------------- MODULE MCAccounts ----------------------------
(***************************************************************************)
(* Instances of Accounts for TLC: a few accounts, sessions, machine tokens *)
(* and requests in flight.                                                 *)
(***************************************************************************)
EXTENDS Accounts, TLC

CONSTANTS a1, a2, s1, t1, r1, r2

Symmetric ==
    Permutations(Ids) \cup Permutations(Reqs)
===========================================================================
