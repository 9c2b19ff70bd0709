------------------------------- MODULE Tunnel -------------------------------
(***************************************************************************)
(* app/tunnel.py: the panel's public address, asked of a provider program  *)
(* and kept for Ttl in a cache that every thread of the process shares and *)
(* in a file that outlives it.  A call takes the time, looks at the cache, *)
(* runs the provider, writes the file and stores what it found; other      *)
(* calls, refreshes and a restart happen between these steps.              *)
(***************************************************************************)
EXTENDS Integers

CONSTANTS
    Callers,       \* threads that ask for the address
    Urls, None,
    Empty,         \* the file after open(.., "w") has truncated it
    Mangled,       \* one address written over a longer one
    Ttl,           \* cache_seconds
    MaxTime,       \* bound: how long a run lasts
    MaxEvents      \* bound: refreshes, changes of address, restarts and faults

ASSUME TunnelConstantsOK ==
    /\ Ttl \in Nat /\ MaxTime \in Nat /\ MaxEvents \in Nat
    /\ Urls # {} /\ None \notin Urls /\ Empty \notin Urls /\ Mangled \notin Urls
    /\ Empty # None /\ Mangled # None

VARIABLES
    url, ts,       \* _cache
    file,          \* cache_file, None when there is none
    call,          \* caller -> where its call of current is
    public,        \* the address the tunnel has
    clock,
    events,        \* refreshes, changes, restarts and faults so far
    lastPublic,    \* address -> when it was the public one last
    found          \* an address was stored and no refresh forgot it since

world == <<public, clock, lastPublic>>
tunnelVars == <<url, ts, file, call, public, clock, events, lastPublic, found>>

Answer == Urls \cup {None, Mangled}

\* owed: an address had been found when it began, and no refresh came since.
\* excused: its probe failed, or another call stored between its look at the
\* cache and its answer.
Call == [pc : {"idle", "look", "cached", "probe", "truncate", "write", "store", "read", "done"},
         at : 0..MaxTime, got : Urls \cup {None}, answer : Answer,
         owed : BOOLEAN, excused : BOOLEAN]

NoCall == [pc |-> "idle", at |-> 0, got |-> None, answer |-> None,
           owed |-> FALSE, excused |-> FALSE]

\* Long before: older than any entry may be.
Never == -Ttl

TunnelInit ==
    /\ url = None /\ ts = Never
    /\ file \in {None} \cup Urls
    /\ call = [c \in Callers |-> NoCall]
    /\ public = CHOOSE u \in Urls : TRUE
    /\ clock = 0
    /\ events = 0
    /\ lastPublic = [u \in Urls |-> IF u = public THEN 0 ELSE Never]
    /\ found = FALSE

Event == events < MaxEvents /\ events' = events + 1

At(c, pc) == call[c].pc = pc
Goto(c, pc) == call' = [call EXCEPT ![c].pc = pc]
Finish(c, answer) ==
    call' = [call EXCEPT ![c].pc = "done", ![c].got = None, ![c].answer = answer]

\* now = time.time()
Begin(c) ==
    /\ At(c, "idle")
    /\ call' = [call EXCEPT ![c] = [NoCall EXCEPT !.pc = "look", !.at = clock, !.owed = found]]
    /\ UNCHANGED <<url, ts, file, events, found>> /\ UNCHANGED world

Look(c) ==
    /\ At(c, "look")
    /\ Goto(c, IF url # None /\ call[c].at - ts < Ttl THEN "cached" ELSE "probe")
    /\ UNCHANGED <<url, ts, file, events, found>> /\ UNCHANGED world

\* The answer is read from the cache a second time.
AnswerCached(c) ==
    /\ At(c, "cached")
    /\ Finish(c, url)
    /\ UNCHANGED <<url, ts, file, events, found>> /\ UNCHANGED world

\* _run_provider: what it prints, or nothing when it fails or times out
Probe(c) ==
    /\ At(c, "probe")
    /\ \E u \in {public, None} :
          call' = [call EXCEPT ![c].got = u, ![c].excused = (u = None),
                               ![c].pc = IF u = None THEN "read" ELSE "truncate"]
    /\ UNCHANGED <<url, ts, file, events, found>> /\ UNCHANGED world

\* open(cache_file, "w"); a file that cannot be opened is left alone
Truncate(c) ==
    /\ At(c, "truncate")
    /\ \/ file' = Empty /\ Goto(c, "write")
       \/ UNCHANGED file /\ Goto(c, "store")
    /\ UNCHANGED <<url, ts, events, found>> /\ UNCHANGED world

\* The address goes to the beginning of the file, over whatever another call
\* has written there since, or the disk is full.
Write(c) ==
    /\ At(c, "write")
    /\ Goto(c, "store")
    /\ \/ file' = call[c].got
       \/ file \notin {Empty, call[c].got} /\ file' = Mangled
       \/ UNCHANGED file
    /\ UNCHANGED <<url, ts, events, found>> /\ UNCHANGED world

\* The others that have looked and not answered yet
Overtaken(c, calls) ==
    [d \in Callers |-> IF d # c /\ calls[d].pc = "cached"
                       THEN [calls[d] EXCEPT !.excused = TRUE] ELSE calls[d]]

Stored(c) ==
    /\ At(c, "store")
    /\ call' = Overtaken(c, [call EXCEPT ![c].pc = "done", ![c].got = None, ![c].answer = call[c].got])
    /\ url' = call[c].got /\ found' = TRUE
    /\ UNCHANGED <<file, events>> /\ UNCHANGED world

\* Mutant: the entry is stamped with the time it is stored at.
Store_StampsLate(c) == Stored(c) /\ ts' = clock

\* The entry is as old as the call: its age counts from before the probe.
Store(c) == Stored(c) /\ ts' = call[c].at

\* Mutant: what is cached is not asked for.
ReadFile_Only(c) ==
    /\ At(c, "read")
    /\ Finish(c, IF file \in {None, Empty} THEN None ELSE file)
    /\ UNCHANGED <<url, ts, file, events, found>> /\ UNCHANGED world

\* Without an address of its own a call answers the file's, or the old one.
ReadFile(c) ==
    /\ At(c, "read")
    /\ \/ Finish(c, IF file \in {None, Empty} THEN url ELSE file)
       \/ Finish(c, url)
    /\ UNCHANGED <<url, ts, file, events, found>> /\ UNCHANGED world

Current(c) ==
    \/ Look(c) \/ AnswerCached(c) \/ Probe(c)
    \/ Truncate(c) \/ Write(c) \/ Store(c) \/ ReadFile(c)

Forget(c) == At(c, "done") /\ call' = [call EXCEPT ![c] = NoCall]
             /\ UNCHANGED <<url, ts, file, events, found>> /\ UNCHANGED world

\* refresh: the POST, or a GET that asks for it before its own call.  A call
\* that has probed by then still stores what it found.
Refresh ==
    /\ Event
    /\ url' = None /\ ts' = Never /\ found' = FALSE
    /\ call' = [c \in Callers |-> [call[c] EXCEPT !.owed = FALSE]]
    /\ UNCHANGED <<file, public, clock, lastPublic>>

---------------------------------------------------------------------------
(* The world.                                                               *)

\* The tunnel comes back under another address.
Change ==
    /\ Event
    /\ \E u \in Urls \ {public} :
          /\ public' = u
          /\ lastPublic' = [lastPublic EXCEPT ![u] = clock]
    /\ UNCHANGED <<url, ts, file, call, clock, found>>

Tick ==
    /\ clock < MaxTime /\ clock' = clock + 1
    /\ lastPublic' = [lastPublic EXCEPT ![public] = clock + 1]
    /\ UNCHANGED <<url, ts, file, call, public, events, found>>

\* The process is stopped or dies, and starts with an empty cache.
Restart ==
    /\ Event
    /\ url' = None /\ ts' = Never /\ found' = FALSE
    /\ call' = [c \in Callers |-> NoCall]
    /\ UNCHANGED <<file, public, clock, lastPublic>>

---------------------------------------------------------------------------
(* Properties.                                                              *)

TunnelTypeOK ==
    /\ url \in Urls \cup {None} /\ ts \in (-Ttl)..MaxTime
    /\ file \in Urls \cup {None, Empty, Mangled}
    /\ call \in [Callers -> Call]
    /\ public \in Urls /\ clock \in 0..MaxTime /\ events \in 0..MaxEvents
    /\ lastPublic \in [Urls -> (-Ttl)..MaxTime]
    /\ found \in BOOLEAN

\* A call whose probe did not fail answers an address that was public since it
\* began, or less than Ttl before, however many calls share the cache.
\* Not kept when another call, slower and older, stores between the look at the
\* cache and the second read, and not after a failed probe: the file may be as
\* old as one likes.
AnswersAreRecent ==
    \A c \in Callers :
        call[c].pc = "done" /\ call[c].answer # None /\ ~call[c].excused
        => \/ lastPublic[call[c].answer] >= call[c].at
           \/ lastPublic[call[c].answer] > call[c].at - Ttl

\* Once an address was found, every call answers one, whatever fails, until
\* somebody asks to forget it; a call that began before that may answer none.
NeverForgets ==
    \A c \in Callers :
        call[c].pc = "done" /\ call[c].owed => call[c].answer # None

\* Not kept: two calls that have both truncated the file write one address over
\* the other.
AnswersAreAddresses == \A c \in Callers : call[c].answer # Mangled
============================================================================
