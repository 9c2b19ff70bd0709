--------------------------- MODULE SamplerProofs ---------------------------
(***************************************************************************)
(* What calls of the tunnel are told, for any number of callers and        *)
(* addresses, any TTL and any faults.                                      *)
(***************************************************************************)
EXTENDS Sampler, TLAPS

\* lastPublic is about the past, and the public address is public now.
WorldInv ==
    /\ \A u \in Urls : lastPublic[u] <= clock
    /\ lastPublic[public] = clock

\* A cached address was public when its entry was stamped or later, and what was
\* found is remembered.
CacheInv ==
    /\ url # None => lastPublic[url] >= ts
    /\ found => url # None

\* What a call has seen so far
CallInv(c) ==
    LET q == call[c] IN
    /\ q.at <= clock
    /\ q.owed => found
    /\ q.pc = "cached" /\ ~q.excused /\ url # None => q.at - ts < Ttl
    /\ q.pc \in {"truncate", "write", "store"} => q.got \in Urls /\ lastPublic[q.got] >= q.at
    /\ q.pc = "read" => q.excused
    /\ q.pc = "done" /\ q.owed => q.answer # None
    /\ q.pc = "done" /\ q.answer # None /\ ~q.excused
          => /\ q.answer \in Urls
             /\ lastPublic[q.answer] >= q.at \/ lastPublic[q.answer] > q.at - Ttl

IInv ==
    /\ TypeOK /\ WorldInv /\ CacheInv
    /\ \A c \in Callers : CallInv(c)

LEMMA InitIInv == Init => IInv
<1> USE TunnelConstantsOK, SamplerConstantsOK DEF TunnelConstantsOK, SamplerConstantsOK
<1> SUFFICES ASSUME Init PROVE IInv
  OBVIOUS
<1>1. public \in Urls
  BY DEF Init, TunnelInit
<1>2. NoCall \in Call
  BY DEF NoCall, Call, Answer
<1>3. TypeOK
  <2>1. TunnelTypeOK
    <3>1. lastPublic \in [Urls -> (-Ttl)..MaxTime] /\ ts \in (-Ttl)..MaxTime
      BY DEF Init, TunnelInit, Never
    <3>2. url \in Urls \cup {None} /\ file \in Urls \cup {None, Empty, Mangled}
      BY DEF Init, TunnelInit
    <3>3. call \in [Callers -> Call] /\ found \in BOOLEAN
      BY <1>2 DEF Init, TunnelInit
    <3>4. clock \in 0..MaxTime /\ events \in 0..MaxEvents
      BY DEF Init, TunnelInit
    <3> QED
      BY <1>1, <3>1, <3>2, <3>3, <3>4 DEF TunnelTypeOK
  <2>2. tick \in 0..(Every - 1) /\ backoff \in 0..MaxBackoff
    BY DEF Init, Start
  <2>3. pc \in {"sample", "probing", "asleep"} /\ broken \in BOOLEAN
    BY DEF Init, Start
  <2> QED
    BY <2>1, <2>2, <2>3 DEF TypeOK
<1>4. WorldInv /\ CacheInv
  BY <1>1 DEF Init, TunnelInit, WorldInv, CacheInv, Never
<1>5. \A c \in Callers : CallInv(c)
  <2>1. \A c \in Callers : call[c].at = 0 /\ call[c].pc = "idle" /\ ~call[c].owed
    BY DEF Init, TunnelInit, NoCall
  <2>2. clock = 0
    BY DEF Init, TunnelInit
  <2> SUFFICES ASSUME NEW c \in Callers PROVE CallInv(c)
    OBVIOUS
  <2>3. call[c].at <= clock
    BY <2>1, <2>2
  <2> QED
    BY <2>1, <2>3 DEF CallInv
<1> QED
  BY <1>3, <1>4, <1>5 DEF IInv

---------------------------------------------------------------------------
(* Every step, as far as the tunnel sees it                                  *)

Cleared(c) ==
    /\ call' = [call EXCEPT ![c] = NoCall]
    /\ UNCHANGED <<url, ts, file, events, found>> /\ UNCHANGED world

EventOnly == Event /\ UNCHANGED <<url, ts, file, call, found>> /\ UNCHANGED world

TunnelStep ==
    \/ UNCHANGED tunnelVars
    \/ \E c \in Callers : Begin(c) \/ Current(c) \/ Cleared(c)
    \/ Refresh \/ Change \/ Tick \/ Restart \/ EventOnly

LEMMA StepShape == [Next]_vars => TunnelStep
<1> USE SamplerConstantsOK DEF SamplerConstantsOK
<1> SUFFICES ASSUME [Next]_vars PROVE TunnelStep
  OBVIOUS
<1>1. CASE UNCHANGED vars
  BY <1>1 DEF vars, TunnelStep
<1>2. CASE SamplerStep
  BY <1>2 DEF SamplerStep, SampleFails, Sample, Sampled, Probed, Wake, Forget, Cleared, TunnelStep
<1>3. ASSUME NEW c \in Callers, Asking(c) PROVE TunnelStep
  BY <1>3 DEF Asking, TunnelStep
<1>4. CASE Others
  BY <1>4 DEF Others, Request, Forget, Cleared, TunnelStep
<1>5. CASE Fault
  BY <1>5 DEF Fault, EventOnly, TunnelStep
<1>6. CASE Reboot
  BY <1>6 DEF Reboot, TunnelStep
<1> QED
  BY <1>1, <1>2, <1>3, <1>4, <1>5, <1>6 DEF Next

\* The loop's own variables
LEMMA LoopStep ==
    ASSUME TypeOK, [Next]_vars
    PROVE  /\ pc' \in {"sample", "probing", "asleep"}
           /\ tick' \in 0..(Every - 1) /\ backoff' \in 0..MaxBackoff
           /\ broken' \in BOOLEAN
<1> USE SamplerConstantsOK DEF SamplerConstantsOK
<1>1. /\ pc \in {"sample", "probing", "asleep"}
      /\ tick \in 0..(Every - 1) /\ backoff \in 0..MaxBackoff
  BY DEF TypeOK
<1>2. broken' \in BOOLEAN
  BY DEF TypeOK, Next, SamplerStep, Asking, Others, Fault, Reboot, vars
<1>3. CASE UNCHANGED loopVars
  BY <1>1, <1>2, <1>3 DEF loopVars
<1>4. CASE SampleFails
  <2>1. Longer \in 0..MaxBackoff
    BY <1>1 DEF Longer
  <2> QED
    BY <1>1, <1>2, <1>4, <2>1 DEF SampleFails
<1>5. CASE Sample
  <2>1. (tick + 1) % Every \in 0..(Every - 1)
    BY <1>1
  <2>2. pc' \in {"sample", "probing", "asleep"}
    BY <1>5 DEF Sample, Sampled
  <2> QED
    BY <1>2, <1>5, <2>1, <2>2 DEF Sample, Sampled
<1>6. CASE Probed \/ Wake
  BY <1>1, <1>2, <1>6 DEF Probed, Wake
<1>7. CASE Reboot
  BY <1>2, <1>7 DEF Reboot
<1> QED
  BY <1>3, <1>4, <1>5, <1>6, <1>7 DEF Next, SamplerStep, Asking, Others, Fault, vars, loopVars

---------------------------------------------------------------------------
(* Steps of calls.                                                          *)

\* The others see nothing of a step that leaves cache and world alone.
LEMMA OthersKeep ==
    ASSUME IInv, NEW c \in Callers,
           \A d \in Callers \ {c} : call'[d] = call[d],
           UNCHANGED <<url, ts, found>>, UNCHANGED world
    PROVE  \A d \in Callers \ {c} : CallInv(d)'
<1> SUFFICES ASSUME NEW d \in Callers \ {c} PROVE CallInv(d)'
  OBVIOUS
<1>1. CallInv(d) /\ call'[d] = call[d]
  BY DEF IInv
<1> QED
  BY <1>1 DEF CallInv, world

\* A call that begins, goes on, or is cleared: all but the store
LEMMA QuietStep ==
    ASSUME IInv, NEW c \in Callers,
           UNCHANGED <<url, ts, found, events>>, UNCHANGED world,
           file' \in Urls \cup {None, Empty, Mangled},
           NEW q \in Call, call' = [call EXCEPT ![c] = q],
           CallInv(c)'
    PROVE  TunnelTypeOK' /\ WorldInv' /\ CacheInv' /\ \A d \in Callers : CallInv(d)'
<1>1. TunnelTypeOK'
  BY DEF IInv, TypeOK, TunnelTypeOK, world
<1>2. WorldInv' /\ CacheInv'
  BY DEF IInv, WorldInv, CacheInv, world
<1>3. \A d \in Callers \ {c} : call'[d] = call[d]
  BY DEF IInv, TypeOK, TunnelTypeOK
<1> QED
  BY <1>1, <1>2, <1>3, OthersKeep

Kept == UNCHANGED <<url, ts, found, events>> /\ UNCHANGED world

\* Flags are flags, whatever they are set to.
LEMMA FlagSet ==
    ASSUME NEW q \in Call
    PROVE  [q EXCEPT !.excused = TRUE] \in Call /\ [q EXCEPT !.owed = FALSE] \in Call
BY DEF Call

LEMMA CallStep ==
    ASSUME IInv, NEW c \in Callers, Begin(c) \/ Current(c) \/ Cleared(c)
    PROVE  TunnelTypeOK' /\ WorldInv' /\ CacheInv' /\ \A d \in Callers : CallInv(d)'
<1> USE TunnelConstantsOK DEF TunnelConstantsOK
<1> DEFINE q == call[c]
           Goal == TunnelTypeOK' /\ WorldInv' /\ CacheInv' /\ \A d \in Callers : CallInv(d)'
<1>1. /\ q \in Call /\ CallInv(c) /\ WorldInv /\ CacheInv /\ call \in [Callers -> Call]
      /\ file \in Urls \cup {None, Empty, Mangled} /\ url \in Urls \cup {None}
      /\ public \in Urls /\ found \in BOOLEAN
  BY DEF IInv, TypeOK, TunnelTypeOK
<1>2. /\ clock \in 0..MaxTime /\ ts \in (-Ttl)..MaxTime /\ q.at \in 0..MaxTime
      /\ lastPublic \in [Urls -> (-Ttl)..MaxTime]
  BY <1>1 DEF IInv, TypeOK, TunnelTypeOK, Call
<1>3. ASSUME NEW r \in Call, call' = [call EXCEPT ![c] = r], Kept, CallInv(c)',
             file' \in Urls \cup {None, Empty, Mangled}
      PROVE  Goal
  BY <1>3, QuietStep DEF Kept
<1>4. NoCall \in Call
  BY DEF NoCall, Call, Answer
<1>5. CASE Cleared(c)
  <2>1. Kept /\ file' = file /\ call' = [call EXCEPT ![c] = NoCall] /\ call'[c] = NoCall
    BY <1>1, <1>5 DEF Cleared, Kept
  <2>2. clock' = clock
    BY <2>1 DEF Kept, world
  <2>3. CallInv(c)'
    BY <1>2, <2>1, <2>2 DEF CallInv, NoCall
  <2> QED
    BY <1>1, <1>3, <1>4, <2>1, <2>3
<1>6. CASE Begin(c)
  <2> DEFINE r == [NoCall EXCEPT !.pc = "look", !.at = clock, !.owed = found]
  <2>1. Kept /\ file' = file /\ call' = [call EXCEPT ![c] = r] /\ call'[c] = r
    BY <1>1, <1>6 DEF Begin, Kept
  <2>2. r \in Call
    BY <1>1, <1>2, <1>4 DEF NoCall, Call
  <2>3. /\ r.at = clock /\ r.owed = found /\ r.pc = "look" /\ clock' = clock /\ found' = found
    BY <2>1 DEF NoCall, Kept, world
  <2>4. CallInv(c)'
    <3> HIDE DEF r
    <3>1. r.at <= clock'
      BY <1>2, <2>3
    <3> QED
      BY <2>1, <2>3, <3>1 DEF CallInv
  <2> QED
    BY <1>1, <1>3, <2>1, <2>2, <2>4
<1>7. CASE Look(c)
  <2> DEFINE step == IF url # None /\ q.at - ts < Ttl THEN "cached" ELSE "probe"
             r == [q EXCEPT !.pc = step]
  <2>1. Kept /\ file' = file /\ call' = [call EXCEPT ![c] = r] /\ call'[c] = r
    BY <1>1, <1>7 DEF Look, Goto, Kept
  <2>2. r \in Call
    BY <1>1 DEF Call
  <2>3. CallInv(c)'
    <3>1. /\ r.at = q.at /\ r.owed = q.owed /\ r.pc = step
          /\ clock' = clock /\ found' = found /\ url' = url /\ ts' = ts
      BY <1>1, <2>1 DEF Call, Kept, world
    <3> HIDE DEF r
    <3>2. step = "cached" => q.at - ts < Ttl
      OBVIOUS
    <3>3. step \in {"cached", "probe"}
      OBVIOUS
    <3> HIDE DEF step
    <3> QED
      BY <1>1, <2>1, <3>1, <3>2, <3>3 DEF CallInv
  <2> QED
    BY <1>1, <1>3, <2>1, <2>2, <2>3
<1>8. CASE AnswerCached(c)
  <2> DEFINE r == [q EXCEPT !.pc = "done", !.got = None, !.answer = url]
  <2>1. Kept /\ file' = file /\ call' = [call EXCEPT ![c] = r] /\ call'[c] = r /\ q.pc = "cached"
    BY <1>1, <1>8 DEF AnswerCached, Finish, Kept, At
  <2>2. r \in Call
    BY <1>1 DEF Call, Answer
  <2>3. /\ r.at = q.at /\ r.owed = q.owed /\ r.pc = "done" /\ r.answer = url
        /\ r.excused = q.excused
        /\ clock' = clock /\ found' = found /\ lastPublic' = lastPublic
    BY <1>1, <2>1 DEF Call, Kept, world
  <2>4. url # None /\ ~q.excused => lastPublic[url] > q.at - Ttl /\ url \in Urls
    <3>1. url # None /\ ~q.excused => q.at - ts < Ttl /\ lastPublic[url] >= ts
      BY <1>1, <2>1 DEF CallInv, CacheInv
    <3> QED
      BY <1>1, <1>2, <3>1
  <2>5. q.at <= clock /\ (q.owed => found) /\ (found => url # None)
    BY <1>1 DEF CallInv, CacheInv
  <2>6. CallInv(c)'
    <3> HIDE DEF r
    <3> QED
      BY <2>1, <2>3, <2>4, <2>5 DEF CallInv
  <2> QED
    BY <1>1, <1>3, <2>1, <2>2, <2>6
<1>9. CASE Probe(c)
  <2>1. PICK u \in {public, None} :
           call' = [call EXCEPT ![c].got = u, ![c].excused = (u = None),
                                ![c].pc = IF u = None THEN "read" ELSE "truncate"]
    BY <1>9 DEF Probe
  <2> DEFINE step == IF u = None THEN "read" ELSE "truncate"
             r == [q EXCEPT !.got = u, !.excused = (u = None), !.pc = step]
  <2>2. Kept /\ file' = file /\ call' = [call EXCEPT ![c] = r] /\ call'[c] = r
    BY <1>1, <1>9, <2>1 DEF Probe, Kept
  <2>3. r \in Call
    BY <1>1 DEF Call
  <2>4. /\ r.at = q.at /\ r.owed = q.owed /\ r.pc = step /\ r.got = u
        /\ r.excused = (u = None)
        /\ clock' = clock /\ found' = found /\ lastPublic' = lastPublic
    BY <1>1, <2>2 DEF Call, Kept, world
  <2>5. step = "truncate" => u \in Urls /\ lastPublic[u] >= q.at
    BY <1>1, <1>2 DEF CallInv, WorldInv
  <2>6. step = "read" => u = None
    OBVIOUS
  <2>7. step \in {"read", "truncate"} /\ q.at <= clock /\ (q.owed => found)
    BY <1>1 DEF CallInv
  <2>8. CallInv(c)'
    <3> HIDE DEF r, step
    <3> QED
      BY <2>2, <2>4, <2>5, <2>6, <2>7 DEF CallInv
  <2> QED
    BY <1>1, <1>3, <2>2, <2>3, <2>8
<1>10. CASE Truncate(c) \/ Write(c)
  <2>1. PICK step \in {"write", "store"} : call' = [call EXCEPT ![c].pc = step]
    BY <1>10 DEF Truncate, Write, Goto
  <2> DEFINE r == [q EXCEPT !.pc = step]
  <2>2. /\ Kept /\ call' = [call EXCEPT ![c] = r] /\ call'[c] = r
        /\ q.pc \in {"truncate", "write"}
    BY <1>1, <1>10, <2>1 DEF Truncate, Write, Kept, At
  <2>3. file' \in Urls \cup {None, Empty, Mangled}
    BY <1>1, <1>10 DEF Truncate, Write, CallInv, At
  <2>4. r \in Call
    BY <1>1 DEF Call
  <2>5. /\ r.at = q.at /\ r.owed = q.owed /\ r.pc = step /\ r.got = q.got
        /\ clock' = clock /\ found' = found /\ lastPublic' = lastPublic
    BY <1>1, <2>2 DEF Call, Kept, world
  <2>6. CallInv(c)'
    <3> HIDE DEF r
    <3> QED
      BY <1>1, <2>2, <2>5 DEF CallInv
  <2> QED
    BY <1>3, <2>2, <2>3, <2>4, <2>6
<1>11. CASE ReadFile(c)
  <2>1. PICK a \in {url, IF file \in {None, Empty} THEN url ELSE file} : Finish(c, a)
    BY <1>11 DEF ReadFile
  <2> DEFINE r == [q EXCEPT !.pc = "done", !.got = None, !.answer = a]
  <2>2. Kept /\ file' = file /\ call' = [call EXCEPT ![c] = r] /\ call'[c] = r /\ q.pc = "read"
    BY <1>1, <1>11, <2>1 DEF ReadFile, Finish, Kept, At
  <2>3. r \in Call
    BY <1>1 DEF Call, Answer
  <2>4. /\ r.at = q.at /\ r.owed = q.owed /\ r.pc = "done" /\ r.answer = a
        /\ r.excused = q.excused
        /\ clock' = clock /\ found' = found
    BY <1>1, <2>2 DEF Call, Kept, world
  <2>5. q.at <= clock /\ (q.owed => found) /\ (found => a # None) /\ q.excused
    BY <1>1, <2>2 DEF CallInv, CacheInv
  <2>6. CallInv(c)'
    <3> HIDE DEF r
    <3> QED
      BY <2>2, <2>4, <2>5 DEF CallInv
  <2> QED
    BY <1>1, <1>3, <2>2, <2>3, <2>6
<1>12. CASE Store(c)
  <2> DEFINE r == [q EXCEPT !.pc = "done", !.got = None, !.answer = q.got]
  <2>1. /\ q.pc = "store" /\ q.got \in Urls /\ lastPublic[q.got] >= q.at /\ q.at <= clock
    BY <1>1, <1>12 DEF Store, Stored, CallInv, At
  <2>2. /\ url' = q.got /\ ts' = q.at /\ found' = TRUE
        /\ file' = file /\ events' = events
        /\ clock' = clock /\ lastPublic' = lastPublic /\ public' = public
    BY <1>12 DEF Store, Stored, world
  <2>3. /\ call'[c] = r
        /\ \A d \in Callers \ {c} :
              call'[d] = IF call[d].pc = "cached" THEN [call[d] EXCEPT !.excused = TRUE]
                                                  ELSE call[d]
        /\ DOMAIN call' = Callers /\ call' = [d \in Callers |-> call'[d]]
    BY <1>1, <1>12 DEF Store, Stored, Overtaken
  <2>4. r \in Call
    BY <1>1, <2>1 DEF Call, Answer
  <2>5. ASSUME NEW d \in Callers PROVE call'[d] \in Call
    <3> HIDE DEF r
    <3>1. call[d] \in Call
      BY <1>1
    <3> QED
      BY <2>3, <2>4, <3>1, FlagSet
  <2>6. TunnelTypeOK'
    <3>1. call' \in [Callers -> Call]
      BY <2>3, <2>5
    <3>2. ts' \in (-Ttl)..MaxTime
      BY <1>2, <2>2
    <3> QED
      BY <2>1, <2>2, <3>1, <3>2 DEF IInv, TypeOK, TunnelTypeOK
  <2>7. WorldInv' /\ CacheInv'
    BY <1>1, <2>1, <2>2 DEF WorldInv, CacheInv
  <2>8. CallInv(c)'
    <3>1. /\ r.at = q.at /\ r.pc = "done" /\ r.answer = q.got
      BY <1>1 DEF Call
    <3> HIDE DEF r
    <3> QED
      BY <1>1, <2>1, <2>2, <2>3, <3>1 DEF CallInv
  <2>9. ASSUME NEW d \in Callers \ {c} PROVE CallInv(d)'
    <3>1. CallInv(d) /\ call[d] \in Call
      BY <1>1 DEF IInv
    <3>2. CASE call[d].pc = "cached"
      <4>1. call'[d].pc = "cached" /\ call'[d].excused /\ call'[d].at = call[d].at
        BY <2>3, <3>1, <3>2 DEF Call
      <4> QED
        BY <2>2, <3>1, <4>1 DEF CallInv
    <3>3. CASE call[d].pc # "cached"
      <4>1. call'[d] = call[d]
        BY <2>3, <3>3
      <4> QED
        BY <2>2, <3>1, <3>3, <4>1 DEF CallInv
    <3> QED
      BY <3>2, <3>3
  <2> QED
    BY <2>6, <2>7, <2>8, <2>9
<1> QED
  BY <1>5, <1>6, <1>7, <1>8, <1>9, <1>10, <1>11, <1>12 DEF Current

---------------------------------------------------------------------------
(* Everything else that happens.                                            *)

LEMMA WorldStep ==
    ASSUME IInv, Refresh \/ Change \/ Tick \/ Restart \/ EventOnly \/ UNCHANGED tunnelVars
    PROVE  TunnelTypeOK' /\ WorldInv' /\ CacheInv' /\ \A d \in Callers : CallInv(d)'
<1> USE TunnelConstantsOK DEF TunnelConstantsOK
<1>1. /\ TunnelTypeOK /\ WorldInv /\ CacheInv /\ call \in [Callers -> Call]
      /\ \A d \in Callers : CallInv(d) /\ call[d] \in Call
  BY DEF IInv, TypeOK, TunnelTypeOK
<1>2. /\ clock \in 0..MaxTime /\ ts \in (-Ttl)..MaxTime /\ events \in 0..MaxEvents
      /\ lastPublic \in [Urls -> (-Ttl)..MaxTime] /\ public \in Urls
      /\ \A d \in Callers : call[d].at \in 0..MaxTime
  BY <1>1 DEF TunnelTypeOK, Call
<1>3. CASE Refresh
  <2>1. \A d \in Callers : call'[d] = [call[d] EXCEPT !.owed = FALSE]
    BY <1>3 DEF Refresh
  <2>2. \A d \in Callers : call'[d] \in Call
    BY <1>1, <2>1, FlagSet
  <2>3. TunnelTypeOK'
    <3>1. call' \in [Callers -> Call]
      BY <1>3, <2>2 DEF Refresh
    <3>2. ts' \in (-Ttl)..MaxTime /\ events' \in 0..MaxEvents
      BY <1>2, <1>3 DEF Refresh, Never, Event
    <3> QED
      BY <1>1, <1>3, <3>1, <3>2 DEF Refresh, TunnelTypeOK
  <2>4. WorldInv' /\ CacheInv'
    BY <1>1, <1>3 DEF Refresh, WorldInv, CacheInv
  <2>5. ASSUME NEW d \in Callers PROVE CallInv(d)'
    <3>1. /\ ~call'[d].owed /\ call'[d].at = call[d].at /\ call'[d].pc = call[d].pc
          /\ call'[d].got = call[d].got /\ call'[d].answer = call[d].answer
          /\ call'[d].excused = call[d].excused
      BY <1>1, <2>1 DEF Call
    <3> QED
      BY <1>1, <1>3, <3>1 DEF Refresh, CallInv
  <2> QED
    BY <2>3, <2>4, <2>5
<1>4. CASE Restart
  <2>1. NoCall \in Call
    BY DEF NoCall, Call, Answer
  <2>2. TunnelTypeOK'
    <3>1. ts' \in (-Ttl)..MaxTime /\ events' \in 0..MaxEvents
      BY <1>2, <1>4 DEF Restart, Never, Event
    <3> QED
      BY <1>1, <1>4, <2>1, <3>1 DEF Restart, TunnelTypeOK
  <2>3. WorldInv' /\ CacheInv'
    BY <1>1, <1>4 DEF Restart, WorldInv, CacheInv
  <2>4. ASSUME NEW d \in Callers PROVE CallInv(d)'
    <3>1. call'[d].at = 0 /\ ~call'[d].owed /\ call'[d].pc = "idle" /\ clock' = clock
      BY <1>4 DEF Restart, NoCall
    <3>2. call'[d].at <= clock'
      BY <1>2, <3>1
    <3> QED
      BY <3>1, <3>2 DEF CallInv
  <2> QED
    BY <2>2, <2>3, <2>4
<1>5. CASE Change
  <2>1. PICK u \in Urls : public' = u /\ lastPublic' = [lastPublic EXCEPT ![u] = clock]
    BY <1>5 DEF Change
  <2>2. /\ \A v \in Urls : lastPublic'[v] >= lastPublic[v] /\ lastPublic'[v] <= clock
        /\ lastPublic'[u] = clock
    BY <1>1, <1>2, <2>1 DEF WorldInv
  <2>3. TunnelTypeOK'
    <3>1. lastPublic' \in [Urls -> (-Ttl)..MaxTime] /\ events' \in 0..MaxEvents
      BY <1>2, <1>5, <2>1 DEF Change, Event
    <3> QED
      BY <1>1, <1>5, <2>1, <3>1 DEF Change, TunnelTypeOK
  <2>4. lastPublic' \in [Urls -> Int]
    BY <2>3 DEF TunnelTypeOK
  <2>5. WorldInv' /\ CacheInv'
    BY <1>1, <1>2, <1>5, <2>1, <2>2, <2>4 DEF Change, WorldInv, CacheInv, TunnelTypeOK
  <2>6. ASSUME NEW d \in Callers PROVE CallInv(d)'
    BY <1>1, <1>2, <1>5, <2>2, <2>4 DEF Change, CallInv
  <2> QED
    BY <2>3, <2>5, <2>6
<1>6. CASE Tick
  <2>1. /\ clock' = clock + 1 /\ lastPublic' = [lastPublic EXCEPT ![public] = clock + 1]
        /\ clock' \in 0..MaxTime
    BY <1>2, <1>6 DEF Tick
  <2>2. /\ \A v \in Urls : lastPublic'[v] >= lastPublic[v] /\ lastPublic'[v] <= clock'
        /\ lastPublic'[public] = clock'
    BY <1>1, <1>2, <2>1 DEF WorldInv
  <2>3. TunnelTypeOK'
    <3>1. lastPublic' \in [Urls -> (-Ttl)..MaxTime]
      BY <1>2, <2>1
    <3> QED
      BY <1>1, <1>6, <2>1, <3>1 DEF Tick, TunnelTypeOK
  <2>4. lastPublic' \in [Urls -> Int]
    BY <2>3 DEF TunnelTypeOK
  <2>5. WorldInv' /\ CacheInv'
    BY <1>1, <1>2, <1>6, <2>2, <2>4 DEF Tick, WorldInv, CacheInv, TunnelTypeOK
  <2>6. ASSUME NEW d \in Callers PROVE CallInv(d)'
    BY <1>1, <1>2, <1>6, <2>1, <2>2, <2>4 DEF Tick, CallInv
  <2> QED
    BY <2>3, <2>5, <2>6
<1>7. CASE EventOnly \/ UNCHANGED tunnelVars
  <2>1. /\ UNCHANGED <<url, ts, file, call, found>> /\ UNCHANGED world
        /\ events' \in 0..MaxEvents
    BY <1>2, <1>7 DEF EventOnly, Event, tunnelVars, world
  <2> QED
    BY <1>1, <2>1 DEF world, TunnelTypeOK, WorldInv, CacheInv, CallInv
<1> QED
  BY <1>3, <1>4, <1>5, <1>6, <1>7

LEMMA IInvStep == IInv /\ [Next]_vars => IInv'
<1> SUFFICES ASSUME IInv, [Next]_vars PROVE IInv'
  OBVIOUS
<1>1. TunnelTypeOK' /\ WorldInv' /\ CacheInv' /\ \A d \in Callers : CallInv(d)'
  BY StepShape, CallStep, WorldStep DEF TunnelStep
<1>2. TypeOK'
  BY <1>1, LoopStep DEF IInv, TypeOK
<1> QED
  BY <1>1, <1>2 DEF IInv

\* The cache and what every call has seen agree through every step of the loop,
\* the callers and the world.
THEOREM SamplerInvariant == Spec => []IInv
BY InitIInv, IInvStep, PTL DEF Spec

---------------------------------------------------------------------------

\* The type invariant of the sampler and of the tunnel's cache, for any callers,
\* addresses, TTL and faults.
THEOREM TypeCorrect == Spec => []TypeOK
<1>1. IInv => TypeOK
  BY DEF IInv
<1> QED
  BY <1>1, SamplerInvariant, PTL

\* A call whose probe worked, or that found the cache fresh, answers an address
\* that was public less than a TTL before it began, unless an older call stored
\* between its look at the cache and its second read.
THEOREM AddressesAreRecent == Spec => []AnswersAreRecent
<1>1. IInv => AnswersAreRecent
  BY DEF IInv, CallInv, AnswersAreRecent
<1> QED
  BY <1>1, SamplerInvariant, PTL

\* An address that was found is answered until somebody asks to forget it, even
\* while probes and the cache file fail.
THEOREM AddressesAreKept == Spec => []NeverForgets
<1>1. IInv => NeverForgets
  BY DEF IInv, CallInv, NeverForgets
<1> QED
  BY <1>1, SamplerInvariant, PTL
=============================================================================
