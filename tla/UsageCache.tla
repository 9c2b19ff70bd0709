---------------------------- MODULE UsageCache ----------------------------
(***************************************************************************)
(* The quota cache of routes/files.py: _quota walks a whole home in a      *)
(* thread and keeps the result for _USAGE_TTL; every mutation of the panel *)
(* ends with bust_usage_cache.  The event loop runs other requests during  *)
(* a walk and during a mutation, and the slot's shell changes the home     *)
(* without telling anybody.  An administrator's root is "/", which holds    *)
(* every home and has no entry of its own.  A size is the number of        *)
(* changes made so far.                                                    *)
(***************************************************************************)
EXTENDS Naturals, Sequences, SequencesExt

CONSTANTS
    Roots,            \* the homes
    Workers,          \* requests in flight
    TTL,              \* _USAGE_TTL
    Limit,            \* homes the cache holds
    Partial,          \* whether a mutation can fail half-way
    Shell,            \* whether the slots' shells are used
    MaxTime, MaxSize, \* bounds of the run
    None

ASSUME ConstantsOK ==
    /\ TTL \in Nat \ {0} /\ Limit \in Nat /\ MaxTime \in Nat /\ MaxSize \in Nat
    /\ Partial \in BOOLEAN /\ Shell \in BOOLEAN
    /\ None \notin Roots /\ Roots \cap Workers = {}

VARIABLES
    now,
    size,       \* home -> its size
    told,       \* home -> the size after the last change a client was told of
    past,       \* home -> time -> what told was when that moment passed
    cache,      \* _usage_cache, in the order its keys were first put in
    job,        \* worker -> the request it serves
    missed      \* requests and homes whose result, or whose entry, a mutation
                \* overtook: it was told of after the disk was read, and no bust
                \* of that home followed

vars == <<now, size, told, past, cache, job, missed>>

\* asof is when the size was read off the disk.
Entry == [root : Roots, ts : 0..MaxTime, used : 0..MaxSize, asof : 0..MaxTime]

Job == [pc : {"idle", "walk", "store", "answered", "mutate", "bust", "failed"},
        root : Roots \cup {None},
        at : 0..MaxTime,        \* when it arrived
        floor : 0..MaxSize,     \* what clients had been told by then
        owed : 0..MaxSize,      \* what they had been told a TTL before
        top : BOOLEAN,          \* whether its root is "/", and not the home
        used : 0..MaxSize, asof : 0..MaxTime]

Idle == [pc |-> "idle", root |-> None, at |-> 0, floor |-> 0, owed |-> 0, top |-> FALSE,
         used |-> 0, asof |-> 0]

Init ==
    /\ now = 0
    /\ size = [r \in Roots |-> 0]
    /\ told = [r \in Roots |-> 0]
    /\ past = [r \in Roots |-> [t \in 0..MaxTime |-> 0]]
    /\ cache = <<>>
    /\ job = [w \in Workers |-> Idle]
    /\ missed = {}

\* A request that arrives now
Asked(step, r, used, asof) ==
    [pc |-> step, root |-> r, at |-> now, floor |-> told[r],
     owed |-> IF now < TTL THEN 0 ELSE past[r][now - TTL],
     top |-> FALSE, used |-> used, asof |-> asof]

At(w, step) == job[w].pc = step

Hits(r) == {i \in DOMAIN cache : cache[i].root = r /\ now < cache[i].ts + TTL}

\* _usage_cache[key] = ...: a key keeps its place; a new one goes to the end,
\* and the first one makes room for it.
Put(e) ==
    LET Known == {i \in DOMAIN cache : cache[i].root = e.root}
        Grown == IF Known = {} THEN Append(cache, e)
                 ELSE [i \in DOMAIN cache |-> IF i \in Known THEN e ELSE cache[i]]
    IN IF Len(Grown) > Limit THEN Tail(Grown) ELSE Grown

Dropped(r) ==
    IF \E i \in DOMAIN cache : cache[i].root = r
    THEN RemoveAt(cache, CHOOSE i \in DOMAIN cache : cache[i].root = r)
    ELSE cache

---------------------------------------------------------------------------
(* /api/quota and the listing of a directory.                               *)

QuotaArrives(w, r) ==
    /\ At(w, "idle")
    /\ \/ \E i \in Hits(r) :
             job' = [job EXCEPT ![w] = Asked("answered", r, cache[i].used, cache[i].asof)]
          /\ missed' = IF r \in missed THEN missed \cup {w} ELSE missed \ {w}
       \/ /\ Hits(r) = {}
          /\ job' = [job EXCEPT ![w] = Asked("walk", r, 0, 0)]
          /\ missed' = missed \ {w}
    /\ UNCHANGED <<now, size, told, past, cache>>

\* disk_usage, in a thread
Walk(w) ==
    /\ At(w, "walk")
    /\ job' = [job EXCEPT ![w] = [@ EXCEPT !.pc = "store", !.used = size[job[w].root],
                                           !.asof = now]]
    /\ UNCHANGED <<now, size, told, past, cache, missed>>

\* What a request stores takes the place of what its home had.
Overtaken(w) ==
    IF w \in missed THEN missed \cup {job[w].root} ELSE missed \ {job[w].root}

\* Mutant of Store: the entry is stamped when the walk ends.
Store_StampsEnd(w) ==
    /\ At(w, "store")
    /\ cache' = Put([root |-> job[w].root, ts |-> now,
                     used |-> job[w].used, asof |-> job[w].asof])
    /\ job' = [job EXCEPT ![w].pc = "answered"]
    /\ missed' = Overtaken(w)
    /\ UNCHANGED <<now, size, told, past>>

\* Back on the loop: the entry is stamped with the time the walk began.
Store(w) ==
    /\ At(w, "store")
    /\ cache' = Put([root |-> job[w].root, ts |-> job[w].at,
                     used |-> job[w].used, asof |-> job[w].asof])
    /\ job' = [job EXCEPT ![w].pc = "answered"]
    /\ missed' = Overtaken(w)
    /\ UNCHANGED <<now, size, told, past>>

---------------------------------------------------------------------------
(* write, mkdir, delete, move, copy, upload and unzip.                      *)

\* From the home's own user, or from an administrator, through "/".
MutationArrives(w, r) ==
    /\ At(w, "idle")
    /\ \E t \in BOOLEAN :
          job' = [job EXCEPT ![w] = [Asked("mutate", r, 0, 0) EXCEPT !.top = t]]
    /\ UNCHANGED <<now, size, told, past, cache, missed>>

\* In a thread; refused at once, it changes nothing.  An upload of two files can
\* store one and be refused for the next, and an archive fail at a later member.
Mutate(w) ==
    LET r == job[w].root IN
    /\ At(w, "mutate")
    /\ \/ /\ size[r] < MaxSize
          /\ size' = [size EXCEPT ![r] = @ + 1]
          /\ \E step \in {"bust"} \cup (IF Partial THEN {"failed"} ELSE {}) :
                job' = [job EXCEPT ![w].pc = step, ![w].used = size[r] + 1]
       \/ job' = [job EXCEPT ![w] = Idle] /\ UNCHANGED size
    /\ UNCHANGED <<now, told, past, cache, missed>>

\* The walks of this home that have read the disk and not stored it yet
Reading(r) == {w \in Workers : At(w, "store") /\ job[w].root = r}

Tell(w) ==
    LET r == job[w].root IN
    /\ told' = [told EXCEPT ![r] = IF job[w].used > @ THEN job[w].used ELSE @]
    /\ job' = [job EXCEPT ![w] = Idle]

\* The homes whose entry outlives the response: "/" is not their key.
Outlives(w) == IF job[w].top THEN {job[w].root} ELSE {}

\* Mutant of Bust: the response goes out with the entry still there.
Bust_Keeps(w) ==
    /\ At(w, "bust")
    /\ Tell(w)
    /\ missed' = missed \cup Reading(job[w].root) \cup Outlives(w)
    /\ UNCHANGED <<now, size, past, cache>>

\* bust_usage_cache, which drops the key of the root it was reached through and
\* no other, and the response
Bust(w) ==
    /\ At(w, "bust")
    /\ cache' = IF job[w].top THEN cache ELSE Dropped(job[w].root)
    /\ Tell(w)
    /\ missed' = missed \cup Reading(job[w].root) \cup Outlives(w)
    /\ UNCHANGED <<now, size, past>>

\* The 400 of a request that failed half-way: raised before the bust.
Fail(w) ==
    /\ At(w, "failed")
    /\ Tell(w)
    /\ missed' = missed \cup Reading(job[w].root) \cup {job[w].root}
    /\ UNCHANGED <<now, size, past, cache>>

---------------------------------------------------------------------------

Reply(w) ==
    /\ At(w, "answered")
    /\ job' = [job EXCEPT ![w] = Idle]
    /\ UNCHANGED <<now, size, told, past, cache, missed>>

Tick ==
    /\ now < MaxTime
    /\ now' = now + 1
    /\ past' = [r \in Roots |-> [past[r] EXCEPT ![now] = told[r]]]
    /\ UNCHANGED <<size, told, cache, job, missed>>

ShellWrites(r) ==
    /\ Shell /\ size[r] < MaxSize
    /\ size' = [size EXCEPT ![r] = @ + 1]
    /\ UNCHANGED <<now, told, past, cache, job, missed>>

Serve(w) ==
    \/ \E r \in Roots : QuotaArrives(w, r) \/ MutationArrives(w, r)
    \/ Walk(w) \/ Store(w) \/ Mutate(w) \/ Bust(w) \/ Fail(w) \/ Reply(w)

Next ==
    \/ \E w \in Workers : Serve(w)
    \/ \E r \in Roots : ShellWrites(r)
    \/ Tick

Spec == Init /\ [][Next]_vars

---------------------------------------------------------------------------
(* Properties.                                                              *)

\* The cache has one entry per home and never more than its limit.
TypeOK ==
    /\ now \in 0..MaxTime
    /\ size \in [Roots -> 0..MaxSize]
    /\ told \in [Roots -> 0..MaxSize]
    /\ past \in [Roots -> [0..MaxTime -> 0..MaxSize]]
    /\ job \in [Workers -> Job]
    /\ missed \subseteq Roots \cup Workers
    /\ Len(cache) <= Limit
    /\ \A i \in DOMAIN cache : cache[i] \in Entry
    /\ \A i, k \in DOMAIN cache : cache[i].root = cache[k].root => i = k

\* However long walks take and however they overlap, a quota that is answered
\* was read off the disk less than a TTL before the request arrived (_quota
\* stamps an entry with the start of its walk).
AnswersAreRecent ==
    \A w \in Workers : At(w, "answered") => job[w].at < job[w].asof + TTL

\* A quota asked for after the panel has answered a mutation of that home
\* counts the mutation (bust_usage_cache: "Drop a cached quota after a
\* mutation").  Three mutations can be missed: one answered between the walk
\* that read the disk and its store, what a request had changed before it was
\* refused, and one made through "/".  They are counted once a TTL
\* has passed since their answer, however many walks and stores came between.
CountsWhatWasTold ==
    \A w \in Workers : At(w, "answered") =>
       job[w].used >= IF w \in missed THEN job[w].owed ELSE job[w].floor
============================================================================
