---------------------------- MODULE MCProvision ----------------------------
(***************************************************************************)
(* Instances of Provision for TLC: a few slot names, one account of the    *)
(* host, one reserved name, and up to two jobs at a time.                  *)
(***************************************************************************)
EXTENDS Provision, TLC

CONSTANTS
    s1, s2, s3,        \* slot names an administrator may choose
    host1, root,       \* an account of the host, a reserved name
    u1,                \* a panel account
    p1, b1             \* jobs

SlotSymmetry == Permutations({s1, s2})
============================================================================
