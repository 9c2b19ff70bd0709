------------------------------ MODULE Sampler ------------------------------
(***************************************************************************)
(* The sampler of app/main.py, the background task of the panel: it takes  *)
(* a sample, inserts it, prunes the table, and every so often asks the     *)
(* tunnel for its address in a thread of its own, beside the requests that *)
(* ask for it.  A sample that fails makes the next wait longer.            *)
(***************************************************************************)
EXTENDS Tunnel

CONSTANTS
    Loop,          \* the thread the sampler asks from
    Every,         \* samples between two probes of the tunnel (10)
    MaxBackoff     \* the longest extra wait, in waits of 30 s (20)

ASSUME SamplerConstantsOK ==
    Loop \in Callers /\ Every \in Nat \ {0} /\ MaxBackoff \in Nat \ {0}

VARIABLES
    pc,            \* where the loop is
    tick, backoff,
    broken         \* a sample cannot be taken, stored or the table pruned

loopVars == <<pc, tick, backoff>>
vars == <<tunnelVars, pc, tick, backoff, broken>>

Start == pc = "sample" /\ tick = 0 /\ backoff = 0

Init == TunnelInit /\ Start /\ broken = FALSE

---------------------------------------------------------------------------
(* The loop.                                                                *)

\* min(backoff + 30, 600) if backoff else 30
Longer == IF backoff < MaxBackoff THEN backoff + 1 ELSE MaxBackoff

SampleFails ==
    /\ pc = "sample" /\ broken
    /\ pc' = "asleep" /\ backoff' = Longer
    /\ UNCHANGED tick /\ UNCHANGED tunnelVars

Sampled ==
    /\ pc = "sample" /\ ~broken
    /\ tick' = (tick + 1) % Every
    /\ IF tick' = 0 THEN pc' = "probing" /\ Begin(Loop)
                    ELSE pc' = "asleep" /\ UNCHANGED tunnelVars

\* Mutant: a sample that works does not end the longer waits.
Sample_KeepsBackoff == Sampled /\ UNCHANGED backoff

\* Taken, inserted and the table pruned
Sample == Sampled /\ backoff' = 0

\* The probe is over, or has raised: either way it is no fault of the sample.
Probed ==
    /\ pc = "probing" /\ pc' = "asleep"
    /\ \/ Forget(Loop)
       \/ call' = [call EXCEPT ![Loop] = NoCall]
          /\ UNCHANGED <<url, ts, file, events, found>> /\ UNCHANGED world
    /\ UNCHANGED <<tick, backoff>>

Wake == pc = "asleep" /\ pc' = "sample" /\ UNCHANGED <<tick, backoff>> /\ UNCHANGED tunnelVars

SamplerStep == (SampleFails \/ Sample \/ Probed \/ Wake) /\ UNCHANGED broken

---------------------------------------------------------------------------
(* Everything else.                                                         *)

Request(c) == c # Loop /\ (Begin(c) \/ Forget(c))

Asking(c) == Current(c) /\ UNCHANGED loopVars /\ UNCHANGED broken

\* The disk fills up, /proc cannot be read, the database is locked; or not.
Fault ==
    /\ Event /\ broken' = ~broken
    /\ UNCHANGED <<url, ts, file, call, found>> /\ UNCHANGED world /\ UNCHANGED loopVars

Reboot == Restart /\ pc' = "sample" /\ tick' = 0 /\ backoff' = 0 /\ UNCHANGED broken

Others ==
    /\ Refresh \/ Change \/ Tick \/ \E c \in Callers : Request(c)
    /\ UNCHANGED loopVars /\ UNCHANGED broken

Next == SamplerStep \/ (\E c \in Callers : Asking(c)) \/ Others \/ Fault \/ Reboot

Spec == Init /\ [][Next]_vars

\* The event loop goes on with the task; a provider that hangs is killed after
\* 15 s, so a thread's call goes on too.
Fairness == WF_vars(SamplerStep) /\ WF_vars(Asking(Loop))

FairSpec == Spec /\ Fairness

---------------------------------------------------------------------------
(* Properties.                                                              *)

TypeOK ==
    /\ TunnelTypeOK
    /\ pc \in {"sample", "probing", "asleep"}
    /\ tick \in 0..(Every - 1) /\ backoff \in 0..MaxBackoff
    /\ broken \in BOOLEAN

\* When the machine is well for good the loop samples at its usual pace again,
\* whatever failed before and whatever the tunnel's provider does ("Repeated
\* failures must not spin at 30s intervals forever").
PaceRecovers == <>[]~broken => <>[](backoff = 0)
============================================================================
