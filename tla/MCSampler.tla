----------------------------- MODULE MCSampler -----------------------------
(* An instance of Sampler for TLC. *)
EXTENDS Sampler, TLC

CONSTANTS r1, u1, u2
============================================================================
