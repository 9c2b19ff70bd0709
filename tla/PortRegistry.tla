--------------------------- MODULE PortRegistry ---------------------------
(***************************************************************************)
(* What the slot registry promises, without the steps that build a slot:   *)
(* a slot holds at most one shell port, the port it is given is the lowest *)
(* one nobody holds, and it keeps that port until it is released.          *)
(* Provision.tla is shown to implement this with one job at a time.        *)
(***************************************************************************)
EXTENDS Naturals

CONSTANTS
    Names,       \* slot names
    Base, Top,   \* the window of shell ports
    NoPort       \* a slot that holds none

VARIABLE port    \* slot name -> the port it holds

Free == {p \in Base..Top : \A n \in Names : port[n] # p}

Init == port = [n \in Names |-> NoPort]

\* A slot without a port takes the lowest free one.
Claim(n) ==
    /\ port[n] = NoPort
    /\ \E p \in Free : /\ \A q \in Free : p <= q
                       /\ port' = [port EXCEPT ![n] = p]

\* A slot gives its port back.
Release(n) ==
    /\ port[n] # NoPort
    /\ port' = [port EXCEPT ![n] = NoPort]

Next == \E n \in Names : Claim(n) \/ Release(n)

Spec == Init /\ [][Next]_port
===========================================================================
