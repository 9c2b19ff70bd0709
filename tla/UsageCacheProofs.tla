------------------------- MODULE UsageCacheProofs -------------------------
(***************************************************************************)
(* The quota cache stays well formed, and never answers with anything      *)
(* older than its TTL, for any number of homes, requests and entries.      *)
(***************************************************************************)
EXTENDS UsageCache, TLAPS

\* A sequence without its i-th element: the ones behind it move up.
LEMMA RemoveAtMovesUp ==
    ASSUME NEW S, NEW s \in Seq(S), NEW i \in 1..Len(s)
    PROVE  /\ RemoveAt(s, i) \in Seq(S)
           /\ Len(RemoveAt(s, i)) = Len(s) - 1
           /\ \A k \in 1..(Len(s) - 1) :
                 RemoveAt(s, i)[k] = IF k < i THEN s[k] ELSE s[k + 1]
<1> DEFINE front == SubSeq(s, 1, i - 1)
           back == SubSeq(s, i + 1, Len(s))
<1>1. front \in Seq(S) /\ Len(front) = i - 1
      /\ \A k \in 1..(i - 1) : front[k] = s[k]
  OBVIOUS
<1>2. back \in Seq(S) /\ Len(back) = Len(s) - i
      /\ \A k \in 1..(Len(s) - i) : back[k] = s[i + k]
  OBVIOUS
<1>3. RemoveAt(s, i) = front \o back
  BY DEF RemoveAt
<1> HIDE DEF front, back
<1>4. RemoveAt(s, i) \in Seq(S) /\ Len(RemoveAt(s, i)) = Len(s) - 1
  BY <1>1, <1>2, <1>3
<1>5. ASSUME NEW k \in 1..(Len(s) - 1)
      PROVE  RemoveAt(s, i)[k] = IF k < i THEN s[k] ELSE s[k + 1]
  <2>1. CASE k < i
    BY <1>1, <1>2, <1>3, <2>1
  <2>2. CASE ~(k < i)
    <3>1. (front \o back)[k] = back[k - (i - 1)]
      BY <1>1, <1>2, <2>2
    <3>2. k - (i - 1) \in 1..(Len(s) - i)
      BY <2>2
    <3> QED
      BY <1>2, <1>3, <2>2, <3>1, <3>2
  <2> QED
    BY <2>1, <2>2
<1> QED
  BY <1>4, <1>5

Wellformed(c) ==
    /\ c \in Seq(Entry)
    /\ Len(c) <= Limit
    /\ \A i, k \in DOMAIN c : c[i].root = c[k].root => i = k

\* No entry is stamped later than it was read.
HonestStamps(c) == \A i \in DOMAIN c : c[i].ts <= c[i].asof

\* What a request keeps while others run: it is about a home, and it arrived
\* before it read the disk.
JobsInOrder ==
    \A w \in Workers :
       /\ job[w].pc # "idle" => job[w].root \in Roots
       /\ At(w, "walk") => job[w].at <= now
       /\ At(w, "store") => job[w].at <= job[w].asof
       /\ At(w, "answered") => job[w].at < job[w].asof + TTL

IInv ==
    /\ now \in 0..MaxTime
    /\ size \in [Roots -> 0..MaxSize]
    /\ told \in [Roots -> 0..MaxSize]
    /\ past \in [Roots -> [0..MaxTime -> 0..MaxSize]]
    /\ job \in [Workers -> Job]
    /\ Wellformed(cache)
    /\ HonestStamps(cache)
    /\ JobsInOrder

---------------------------------------------------------------------------

\* Storing an entry keeps the cache within its limit, with one entry per home.
LEMMA PutKeepsShape ==
    ASSUME Wellformed(cache), HonestStamps(cache), NEW e \in Entry, e.ts <= e.asof
    PROVE  Wellformed(Put(e)) /\ HonestStamps(Put(e))
<1> DEFINE Known == {i \in DOMAIN cache : cache[i].root = e.root}
           Grown == IF Known = {} THEN Append(cache, e)
                    ELSE [i \in DOMAIN cache |-> IF i \in Known THEN e ELSE cache[i]]
<1> USE ConstantsOK DEF ConstantsOK
<1>0. cache \in Seq(Entry) /\ Len(cache) \in Nat /\ DOMAIN cache = 1..Len(cache)
  BY DEF Wellformed
<1>1. /\ Grown \in Seq(Entry) /\ Len(Grown) <= Len(cache) + 1
      /\ Len(Grown) > Limit => Known = {}
      /\ HonestStamps(Grown)
      /\ \A i, k \in DOMAIN Grown : Grown[i].root = Grown[k].root => i = k
  <2>1. CASE Known = {}
    <3>1. Grown = Append(cache, e)
      BY <2>1
    <3>2. /\ Grown \in Seq(Entry) /\ Len(Grown) = Len(cache) + 1
          /\ Grown[Len(cache) + 1] = e
          /\ \A i \in 1..Len(cache) : Grown[i] = cache[i] /\ cache[i].root # e.root
      BY <1>0, <2>1, <3>1
    <3> HIDE DEF Grown
    <3> QED
      BY <1>0, <2>1, <3>2 DEF HonestStamps, Wellformed
  <2>2. CASE Known # {}
    <3> DEFINE g == [i \in 1..Len(cache) |-> IF i \in Known THEN e ELSE cache[i]]
    <3>1. Grown = g
      BY <1>0, <2>2
    <3> HIDE DEF Grown
    <3>2. \A i \in 1..Len(cache) : g[i] \in Entry
      BY <1>0
    <3>3. g \in Seq(Entry) /\ Len(g) = Len(cache) /\ DOMAIN g = 1..Len(cache)
      BY <1>0, <3>2
    <3>4. \A i \in 1..Len(cache) : g[i].root = cache[i].root
      BY <1>0
    <3>5. \A i \in 1..Len(cache) : g[i].ts <= g[i].asof
      BY <1>0 DEF HonestStamps
    <3> HIDE DEF g
    <3>6. Len(g) <= Limit
      BY <3>3 DEF Wellformed
    <3>7. \A i, k \in DOMAIN g : g[i].root = g[k].root => i = k
      BY <1>0, <3>3, <3>4 DEF Wellformed
    <3>8. HonestStamps(g)
      BY <3>3, <3>5 DEF HonestStamps
    <3> QED
      BY SMTT(40), <1>0, <3>1, <3>3, <3>6, <3>7, <3>8
  <2> QED
    BY <2>1, <2>2
<1>2. Put(e) = IF Len(Grown) > Limit THEN Tail(Grown) ELSE Grown
  BY DEF Put
<1> HIDE DEF Grown, Known
<1>3. CASE Len(Grown) > Limit
  <2>1. /\ Tail(Grown) \in Seq(Entry) /\ Len(Tail(Grown)) = Len(Grown) - 1
        /\ \A i \in 1..(Len(Grown) - 1) : Tail(Grown)[i] = Grown[i + 1]
    BY <1>0, <1>1, <1>3
  <2> DEFINE t == Tail(Grown)
  <2>2. DOMAIN Grown = 1..Len(Grown) /\ DOMAIN t = 1..(Len(Grown) - 1)
    BY <1>1, <2>1
  <2>3. Len(t) <= Limit
    BY <1>0, <1>1, <2>1 DEF Wellformed
  <2>4. HonestStamps(t)
    BY <1>1, <2>1, <2>2 DEF HonestStamps
  <2>5. \A i, k \in DOMAIN t : t[i].root = t[k].root => i = k
    BY <1>1, <2>1, <2>2
  <2>6. Put(e) = t
    BY <1>2, <1>3
  <2> HIDE DEF t
  <2> QED
    BY <2>1, <2>3, <2>4, <2>5, <2>6 DEF Wellformed, t
<1>4. CASE ~(Len(Grown) > Limit)
  <2>1. Put(e) = Grown /\ Len(Grown) <= Limit
    BY <1>1, <1>2, <1>4
  <2> QED
    BY <1>1, <2>1 DEF Wellformed
<1> QED
  BY <1>3, <1>4

\* So does dropping one.
LEMMA DroppedKeepsShape ==
    ASSUME Wellformed(cache), HonestStamps(cache), NEW r
    PROVE  Wellformed(Dropped(r)) /\ HonestStamps(Dropped(r))
<1> USE ConstantsOK DEF ConstantsOK
<1>1. CASE \E i \in DOMAIN cache : cache[i].root = r
  <2> DEFINE n == CHOOSE i \in DOMAIN cache : cache[i].root = r
  <2>1. n \in 1..Len(cache)
    BY <1>1 DEF Wellformed
  <2>2. Dropped(r) = RemoveAt(cache, n)
    BY <1>1 DEF Dropped
  <2> HIDE DEF n
  <2>3. /\ Dropped(r) \in Seq(Entry)
        /\ Len(Dropped(r)) = Len(cache) - 1
        /\ \A k \in 1..(Len(cache) - 1) :
              Dropped(r)[k] = IF k < n THEN cache[k] ELSE cache[k + 1]
    <3>1. cache \in Seq(Entry)
      BY DEF Wellformed
    <3>2. /\ RemoveAt(cache, n) \in Seq(Entry)
          /\ Len(RemoveAt(cache, n)) = Len(cache) - 1
          /\ \A k \in 1..(Len(cache) - 1) :
                RemoveAt(cache, n)[k] = IF k < n THEN cache[k] ELSE cache[k + 1]
      BY <2>1, <3>1, RemoveAtMovesUp
    <3> QED
      BY <2>2, <3>2
  <2> DEFINE d == Dropped(r)
  <2>4. DOMAIN d = 1..(Len(cache) - 1) /\ DOMAIN cache = 1..Len(cache)
    <3>1. cache \in Seq(Entry) /\ d \in Seq(Entry) /\ Len(d) = Len(cache) - 1
      BY <2>3 DEF Wellformed
    <3> HIDE DEF d
    <3> QED
      BY <3>1
  <2>5. Len(d) <= Limit
    BY <2>3 DEF Wellformed
  <2>6. HonestStamps(d)
    <3>1. \A k \in 1..(Len(cache) - 1) : d[k] = IF k < n THEN cache[k] ELSE cache[k + 1]
      BY <2>3
    <3>2. \A k \in 1..(Len(cache) - 1) : k \in 1..Len(cache) /\ k + 1 \in 1..Len(cache)
      BY <2>1
    <3> HIDE DEF d
    <3> QED
      BY <2>4, <3>1, <3>2 DEF HonestStamps
  <2>7. \A i, k \in DOMAIN d : d[i].root = d[k].root => i = k
    <3> DEFINE was(i) == IF i < n THEN i ELSE i + 1
    <3>1. \A i \in DOMAIN d : was(i) \in DOMAIN cache /\ d[i] = cache[was(i)]
      BY <2>1, <2>3, <2>4
    <3>2. \A i, k \in DOMAIN d : was(i) = was(k) => i = k
      BY <2>1, <2>4
    <3> HIDE DEF was, d
    <3> QED
      BY <3>1, <3>2 DEF Wellformed
  <2> QED
    BY <2>3, <2>5, <2>6, <2>7 DEF Wellformed
<1>2. CASE ~\E i \in DOMAIN cache : cache[i].root = r
  BY <1>2 DEF Dropped
<1> QED
  BY <1>1, <1>2

---------------------------------------------------------------------------

LEMMA IdleIsAJob == Idle \in Job /\ Idle.pc = "idle"
  BY ConstantsOK DEF Idle, Job, ConstantsOK

\* What a request that arrives now is told is in range.
LEMMA AskedIsAJob ==
    ASSUME IInv, NEW r \in Roots, NEW n \in 0..MaxSize, NEW t \in 0..MaxTime,
           NEW step \in {"walk", "answered", "mutate"}
    PROVE  Asked(step, r, n, t) \in Job
<1>1. now \in 0..MaxTime /\ TTL \in Nat /\ MaxTime \in Nat /\ MaxSize \in Nat
  BY ConstantsOK DEF IInv, ConstantsOK
<1>2. told[r] \in 0..MaxSize /\ past[r] \in [0..MaxTime -> 0..MaxSize]
  BY DEF IInv
<1> DEFINE old == IF now < TTL THEN 0 ELSE past[r][now - TTL]
<1>3. old \in 0..MaxSize
  <2>1. ~(now < TTL) => now - TTL \in 0..MaxTime
    BY <1>1
  <2> QED
    BY <1>1, <1>2, <2>1
<1>4. Asked(step, r, n, t) = [pc |-> step, root |-> r, at |-> now, floor |-> told[r],
                              owed |-> old, top |-> FALSE, used |-> n, asof |-> t]
  BY DEF Asked
<1> HIDE DEF old
<1> QED
  BY <1>1, <1>2, <1>3, <1>4 DEF Job

\* A response changes what clients know and frees the worker.
LEMMA TellingKeepsOrder ==
    ASSUME IInv, NEW w \in Workers, Tell(w), UNCHANGED now
    PROVE  /\ told' \in [Roots -> 0..MaxSize]
           /\ job' \in [Workers -> Job]
           /\ JobsInOrder'
<1>0. told \in [Roots -> 0..MaxSize] /\ job \in [Workers -> Job] /\ JobsInOrder
  BY DEF IInv
<1>1. job' = [job EXCEPT ![w] = Idle] /\ job[w].used \in 0..MaxSize
  BY <1>0 DEF Tell, Job
<1>2. told' \in [Roots -> 0..MaxSize]
  BY <1>0, <1>1 DEF Tell
<1>3. job' \in [Workers -> Job] /\ JobsInOrder'
  BY <1>0, <1>1, IdleIsAJob DEF JobsInOrder, At
<1> QED
  BY <1>2, <1>3

LEMMA InitOrdered == Init => IInv
  BY ConstantsOK DEF Init, IInv, Job, Idle, Wellformed, HonestStamps, JobsInOrder,
     ConstantsOK, At

LEMMA StepKeepsOrder == IInv /\ [Next]_vars => IInv'
<1> SUFFICES ASSUME IInv, [Next]_vars PROVE IInv'
  OBVIOUS
<1> USE ConstantsOK DEF ConstantsOK
<1>0. /\ now \in 0..MaxTime /\ size \in [Roots -> 0..MaxSize]
      /\ told \in [Roots -> 0..MaxSize] /\ job \in [Workers -> Job]
      /\ past \in [Roots -> [0..MaxTime -> 0..MaxSize]]
      /\ Wellformed(cache) /\ HonestStamps(cache) /\ JobsInOrder
  BY DEF IInv
<1>1. ASSUME NEW w \in Workers, NEW r \in Roots, QuotaArrives(w, r) PROVE IInv'
  <2>0. UNCHANGED <<now, size, told, past, cache>>
    BY <1>1 DEF QuotaArrives
  <2>1. PICK a \in Job :
           /\ job' = [job EXCEPT ![w] = a]
           /\ a.pc = "walk" => a.at <= now
           /\ a.pc = "answered" => a.at < a.asof + TTL
           /\ a.pc # "store" /\ a.root \in Roots
    <3>1. CASE Hits(r) = {}
      <4> DEFINE b == Asked("walk", r, 0, 0)
      <4>0. 0 \in 0..MaxSize /\ 0 \in 0..MaxTime
        OBVIOUS
      <4>1. b \in Job /\ b.pc = "walk" /\ b.at = now /\ b.root = r
        BY <4>0, AskedIsAJob DEF Asked
      <4>2. job' = [job EXCEPT ![w] = b]
        BY <1>1, <3>1 DEF QuotaArrives
      <4>3. b.at <= now
        BY <1>0, <4>1
      <4> HIDE DEF b
      <4> QED
        BY <4>1, <4>2, <4>3
    <3>2. CASE Hits(r) # {}
      <4>1. PICK i \in Hits(r) :
               job' = [job EXCEPT ![w] = Asked("answered", r, cache[i].used, cache[i].asof)]
        BY <1>1, <3>2 DEF QuotaArrives
      <4> DEFINE b == Asked("answered", r, cache[i].used, cache[i].asof)
      <4>2. cache[i] \in Entry /\ now < cache[i].ts + TTL /\ cache[i].ts <= cache[i].asof
        BY <1>0 DEF Hits, Wellformed, HonestStamps
      <4>3. now < cache[i].asof + TTL
        BY SMTT(40), <1>0, <4>2 DEF Entry
      <4>4. b \in Job /\ b.pc = "answered" /\ b.at = now /\ b.asof = cache[i].asof
            /\ b.root = r
        BY <4>2, AskedIsAJob DEF Asked, Entry
      <4>5. job' = [job EXCEPT ![w] = b]
        BY <4>1
      <4> HIDE DEF b
      <4> QED
        BY <4>3, <4>4, <4>5
    <3> QED
      BY <3>1, <3>2
  <2>2. job' \in [Workers -> Job]
    BY <1>0, <2>1
  <2>3. JobsInOrder'
    BY <1>0, <2>0, <2>1 DEF JobsInOrder, At
  <2> QED
    BY <1>0, <2>0, <2>2, <2>3 DEF IInv
<1>2. ASSUME NEW w \in Workers, Walk(w) PROVE IInv'
  <2> DEFINE b == [job[w] EXCEPT !.pc = "store", !.used = size[job[w].root],
                                 !.asof = now]
  <2>1. job[w].root \in Roots /\ job[w].at <= now
    BY <1>0, <1>2 DEF Walk, At, JobsInOrder
  <2>2. job[w] \in Job /\ size[job[w].root] \in 0..MaxSize
    BY <1>0, <2>1
  <2>3. job' = [job EXCEPT ![w] = b] /\ UNCHANGED <<now, size, told, past, cache>>
    BY <1>0, <1>2 DEF Walk
  <2>4. b \in Job /\ b.pc = "store" /\ b.at <= b.asof /\ b.root \in Roots
    BY <1>0, <2>1, <2>2 DEF Job
  <2> HIDE DEF b
  <2>5. job' \in [Workers -> Job] /\ JobsInOrder'
    BY <1>0, <2>3, <2>4 DEF JobsInOrder, At
  <2> QED
    BY <1>0, <2>3, <2>5 DEF IInv
<1>3. ASSUME NEW w \in Workers, Store(w) PROVE IInv'
  <2> DEFINE e == [root |-> job[w].root, ts |-> job[w].at,
                   used |-> job[w].used, asof |-> job[w].asof]
  <2>1. job[w].root \in Roots
    BY <1>0, <1>3 DEF Store, JobsInOrder, At, Job
  <2>2. e \in Entry /\ e.ts <= e.asof
    BY <1>0, <1>3, <2>1 DEF Store, JobsInOrder, At, Job, Entry
  <2>3. cache' = Put(e)
    BY <1>3 DEF Store
  <2> HIDE DEF e
  <2>4. Wellformed(cache') /\ HonestStamps(cache')
    BY <1>0, <2>2, <2>3, PutKeepsShape
  <2>5. job' \in [Workers -> Job]
    <3> DEFINE b == [job[w] EXCEPT !.pc = "answered"]
    <3>1. job[w] \in Job
      BY <1>0
    <3>2. b \in Job
      BY <3>1 DEF Job
    <3>3. job' = [job EXCEPT ![w] = b]
      BY <1>3 DEF Store
    <3> HIDE DEF b
    <3> QED
      BY <1>0, <3>2, <3>3
  <2>6. JobsInOrder'
    BY <1>0, <1>3 DEF Store, JobsInOrder, At, Job
  <2> QED
    BY <1>0, <1>3, <2>4, <2>5, <2>6 DEF Store, IInv
<1>4. ASSUME NEW w \in Workers, NEW r \in Roots, MutationArrives(w, r) PROVE IInv'
  <2>0. PICK t \in BOOLEAN :
           job' = [job EXCEPT ![w] = [Asked("mutate", r, 0, 0) EXCEPT !.top = t]]
    BY <1>4 DEF MutationArrives
  <2> DEFINE b == Asked("mutate", r, 0, 0)
             a == [b EXCEPT !.top = t]
  <2>1. a \in Job /\ a.pc = "mutate" /\ a.root = r
    <3>1. 0 \in 0..MaxSize /\ 0 \in 0..MaxTime
      OBVIOUS
    <3>2. b \in Job /\ b.pc = "mutate" /\ b.root = r
      BY <3>1, AskedIsAJob DEF Asked
    <3> HIDE DEF b
    <3> QED
      BY <3>2 DEF Job
  <2>2. job' = [job EXCEPT ![w] = a] /\ UNCHANGED <<now, size, told, past, cache>>
    BY <1>4, <2>0 DEF MutationArrives
  <2> HIDE DEF a, b
  <2>3. job' \in [Workers -> Job] /\ JobsInOrder'
    BY <1>0, <2>1, <2>2 DEF JobsInOrder, At
  <2> QED
    BY <1>0, <2>2, <2>3 DEF IInv
<1>5. ASSUME NEW w \in Workers, Mutate(w) PROVE IInv'
  <2>0. UNCHANGED <<now, told, past, cache>>
    BY <1>5 DEF Mutate
  <2>1. CASE job' = [job EXCEPT ![w] = Idle] /\ UNCHANGED size
    <3>1. job' \in [Workers -> Job] /\ JobsInOrder'
      BY <1>0, <2>0, <2>1, IdleIsAJob DEF JobsInOrder, At
    <3> QED
      BY <1>0, <2>0, <2>1, <3>1 DEF IInv
  <2>2. CASE /\ size[job[w].root] < MaxSize
             /\ size' = [size EXCEPT ![job[w].root] = @ + 1]
             /\ \E step \in {"bust", "failed"} :
                   job' = [job EXCEPT ![w].pc = step, ![w].used = size[job[w].root] + 1]
    <3>1. job[w].root \in Roots
      BY <1>0, <1>5 DEF Mutate, JobsInOrder, At, Job
    <3>2. size' \in [Roots -> 0..MaxSize] /\ size[job[w].root] + 1 \in 0..MaxSize
      BY <1>0, <2>2, <3>1
    <3>3. PICK step \in {"bust", "failed"} :
             job' = [job EXCEPT ![w].pc = step, ![w].used = size[job[w].root] + 1]
      BY <2>2
    <3> DEFINE b == [job[w] EXCEPT !.pc = step, !.used = size[job[w].root] + 1]
    <3>a. b \in Job /\ job' = [job EXCEPT ![w] = b]
      <4>1. job[w] \in Job
        BY <1>0
      <4>2. b \in Job
        BY <3>2, <4>1 DEF Job
      <4>3. job' = [job EXCEPT ![w] = b]
        BY <1>0, <3>3
      <4> QED
        BY <4>2, <4>3
    <3>b. b.pc \in {"bust", "failed"} /\ b.root = job[w].root
      BY <1>0 DEF Job
    <3> HIDE DEF b
    <3>4. job' \in [Workers -> Job]
      BY <1>0, <3>a
    <3>5. JobsInOrder'
      BY <1>0, <2>0, <3>1, <3>a, <3>b DEF JobsInOrder, At
    <3> QED
      BY <1>0, <2>0, <3>2, <3>4, <3>5 DEF IInv
  <2> QED
    BY <1>5, <2>1, <2>2 DEF Mutate
<1>6. ASSUME NEW w \in Workers, Bust(w) PROVE IInv'
  <2>1. Wellformed(cache') /\ HonestStamps(cache')
    <3>1. cache' = cache \/ cache' = Dropped(job[w].root)
      BY <1>6 DEF Bust
    <3> QED
      BY <1>0, <3>1, DroppedKeepsShape
  <2> QED
    BY <1>0, <1>6, <2>1, TellingKeepsOrder DEF Bust, IInv
<1>7. ASSUME NEW w \in Workers, Fail(w) PROVE IInv'
  BY <1>0, <1>7, TellingKeepsOrder DEF Fail, IInv
<1>8. ASSUME NEW w \in Workers, Reply(w) PROVE IInv'
  <2>1. job' \in [Workers -> Job] /\ JobsInOrder'
    BY <1>0, <1>8, IdleIsAJob DEF Reply, JobsInOrder, At
  <2> QED
    BY <1>0, <1>8, <2>1 DEF Reply, IInv
<1>9. ASSUME NEW r \in Roots, ShellWrites(r) PROVE IInv'
  BY <1>0, <1>9 DEF ShellWrites, IInv, JobsInOrder, At
<1>10. CASE Tick
  <2>1. now' \in 0..MaxTime /\ now <= now'
    BY <1>0, <1>10 DEF Tick
  <2>2. JobsInOrder'
    BY <1>0, <1>10, <2>1 DEF Tick, JobsInOrder, At, Job
  <2>3. past' \in [Roots -> [0..MaxTime -> 0..MaxSize]]
    BY <1>0, <1>10 DEF Tick
  <2> QED
    BY <1>0, <1>10, <2>1, <2>2, <2>3 DEF Tick, IInv
<1>11. CASE UNCHANGED vars
  BY SMTT(40), <1>0, <1>11 DEF vars, IInv, JobsInOrder, At
<1> QED
  BY <1>1, <1>2, <1>3, <1>4, <1>5, <1>6, <1>7, <1>8, <1>9, <1>10, <1>11
     DEF Next, Serve

\* What a mutation overtakes is a request, or the home of one.
LEMMA OvertakenAreKnown ==
    ASSUME IInv, missed \subseteq Roots \cup Workers, [Next]_vars
    PROVE  missed' \subseteq Roots \cup Workers
<1>0. \A w \in Workers : job[w].pc # "idle" => job[w].root \in Roots
  BY DEF IInv, JobsInOrder
<1>1. ASSUME NEW w \in Workers, NEW r \in Roots, QuotaArrives(w, r)
      PROVE  missed' \subseteq Roots \cup Workers
  BY <1>1 DEF QuotaArrives
<1>2. ASSUME NEW w \in Workers, Store(w) PROVE missed' \subseteq Roots \cup Workers
  BY <1>0, <1>2 DEF Store, Overtaken, At
<1>3. ASSUME NEW w \in Workers, Bust(w) PROVE missed' \subseteq Roots \cup Workers
  BY <1>0, <1>3 DEF Bust, Reading, Outlives, At
<1>4. ASSUME NEW w \in Workers, Fail(w) PROVE missed' \subseteq Roots \cup Workers
  BY <1>0, <1>4 DEF Fail, Reading, At
<1>5. CASE UNCHANGED missed
  BY <1>5
<1> QED
  BY <1>1, <1>2, <1>3, <1>4, <1>5
     DEF Next, Serve, Walk, MutationArrives, Mutate, Reply, ShellWrites, Tick, vars

LEMMA OvertakenType == Spec => [](missed \subseteq Roots \cup Workers)
<1>1. Init => missed \subseteq Roots \cup Workers
  BY DEF Init
<1>2. IInv /\ missed \subseteq Roots \cup Workers /\ [Next]_vars
         => (missed \subseteq Roots \cup Workers)'
  BY OvertakenAreKnown
<1> QED
  BY <1>1, <1>2, InitOrdered, StepKeepsOrder, PTL DEF Spec

LEMMA AlwaysOrdered == Spec => []IInv
  BY InitOrdered, StepKeepsOrder, PTL DEF Spec

\* The cache keeps one entry per home and never more than its limit, however
\* walks and mutations overlap (routes/files.py: "bounded: oldest entry out").
THEOREM TypeCorrect == Spec => []TypeOK
<1>1. IInv /\ missed \subseteq Roots \cup Workers => TypeOK
  BY DEF IInv, TypeOK, Wellformed
<1> QED
  BY <1>1, AlwaysOrdered, OvertakenType, PTL

\* A quota never comes from further back than the TTL, however long the walk
\* that found it took (_quota stamps an entry with the start of its walk).
THEOREM NothingStale == Spec => []AnswersAreRecent
<1>1. IInv => AnswersAreRecent
  BY DEF IInv, AnswersAreRecent, JobsInOrder
<1> QED
  BY <1>1, AlwaysOrdered, PTL

---------------------------------------------------------------------------
(* Nothing told is missed, unless a mutation overtook the walk.             *)

\* After a store there are the new entry and those of the other homes.
LEMMA PutHas ==
    ASSUME Wellformed(cache), NEW e \in Entry, NEW i \in DOMAIN Put(e)
    PROVE  \/ Put(e)[i] = e
           \/ \E k \in DOMAIN cache : Put(e)[i] = cache[k] /\ cache[k].root # e.root
<1> DEFINE Known == {k \in DOMAIN cache : cache[k].root = e.root}
           Grown == IF Known = {} THEN Append(cache, e)
                    ELSE [k \in DOMAIN cache |-> IF k \in Known THEN e ELSE cache[k]]
           Has(x) == x = e \/ \E k \in DOMAIN cache : x = cache[k] /\ cache[k].root # e.root
<1>0. cache \in Seq(Entry) /\ DOMAIN cache = 1..Len(cache)
  BY DEF Wellformed
<1>1. Grown \in Seq(Entry) /\ \A k \in 1..Len(Grown) : Has(Grown[k])
  <2>1. CASE Known = {}
    <3>1. /\ Append(cache, e) \in Seq(Entry) /\ Len(Append(cache, e)) = Len(cache) + 1
          /\ Append(cache, e)[Len(cache) + 1] = e
          /\ \A k \in 1..Len(cache) : Append(cache, e)[k] = cache[k]
      BY <1>0
    <3> QED
      BY <1>0, <2>1, <3>1
  <2>2. CASE Known # {}
    <3> DEFINE g == [k \in 1..Len(cache) |-> IF k \in Known THEN e ELSE cache[k]]
    <3>1. g \in Seq(Entry) /\ Len(g) = Len(cache)
      BY <1>0
    <3>2. Grown = g
      BY <1>0, <2>2
    <3>3. \A k \in 1..Len(cache) : Has(g[k])
      BY <1>0
    <3> QED
      BY SMTT(40), <3>1, <3>2, <3>3
  <2> QED
    BY <2>1, <2>2
<1>2. Put(e) = IF Len(Grown) > Limit THEN Tail(Grown) ELSE Grown
  BY DEF Put
<1> HIDE DEF Grown, Known, Has
<1>3. CASE Len(Grown) > Limit
  <2>1. Limit \in Nat
    BY ConstantsOK DEF ConstantsOK
  <2>2. /\ DOMAIN Tail(Grown) = 1..(Len(Grown) - 1)
        /\ \A k \in 1..(Len(Grown) - 1) : Tail(Grown)[k] = Grown[k + 1]
    BY <1>1, <1>3, <2>1
  <2>3. Has(Put(e)[i])
    BY <1>1, <1>2, <1>3, <2>2
  <2> QED
    BY <2>3 DEF Has
<1>4. CASE ~(Len(Grown) > Limit)
  <2>1. Has(Put(e)[i])
    BY <1>1, <1>2, <1>4
  <2> QED
    BY <2>1 DEF Has
<1> QED
  BY <1>3, <1>4

\* After a bust there are the entries of the other homes.
LEMMA DroppedHas ==
    ASSUME Wellformed(cache), NEW r \in Roots, NEW i \in DOMAIN Dropped(r)
    PROVE  \E k \in DOMAIN cache : Dropped(r)[i] = cache[k] /\ cache[k].root # r
<1>0. cache \in Seq(Entry) /\ DOMAIN cache = 1..Len(cache)
      /\ \A j, k \in DOMAIN cache : cache[j].root = cache[k].root => j = k
  BY DEF Wellformed
<1>1. CASE \E j \in DOMAIN cache : cache[j].root = r
  <2> DEFINE n == CHOOSE j \in DOMAIN cache : cache[j].root = r
  <2>1. n \in 1..Len(cache) /\ cache[n].root = r
    BY <1>0, <1>1
  <2>2. Dropped(r) = RemoveAt(cache, n)
    BY SMTT(40), <1>1 DEF Dropped
  <2> HIDE DEF n
  <2>3. /\ RemoveAt(cache, n) \in Seq(Entry)
        /\ Len(RemoveAt(cache, n)) = Len(cache) - 1
        /\ \A k \in 1..(Len(cache) - 1) :
              RemoveAt(cache, n)[k] = IF k < n THEN cache[k] ELSE cache[k + 1]
    BY <1>0, <2>1, RemoveAtMovesUp
  <2>4. i \in 1..(Len(cache) - 1)
    BY <2>2, <2>3
  <2> DEFINE k == IF i < n THEN i ELSE i + 1
  <2>5. k \in 1..Len(cache) /\ k # n
    BY <1>0, <2>1, <2>4
  <2>6. Dropped(r)[i] = cache[k]
    BY <2>2, <2>3, <2>4
  <2> HIDE DEF k
  <2> QED
    BY <1>0, <2>1, <2>5, <2>6
<1>2. CASE ~\E j \in DOMAIN cache : cache[j].root = r
  BY <1>2 DEF Dropped
<1> QED
  BY <1>1, <1>2

\* A home is never told to be larger than it is.
SizesAreTold ==
    /\ \A r \in Roots : told[r] <= size[r]
    /\ \A w \in Workers : job[w].pc \in {"bust", "failed"} => job[w].used <= size[job[w].root]

\* An answer that no mutation overtook counts all that was told when it was
\* asked for.
CountsAll == \A w \in Workers : At(w, "answered") /\ w \notin missed => job[w].used >= job[w].floor

\* So does whatever is on its way to an answer, with all that was told so far.
CountsTold ==
    /\ \A w \in Workers : job[w].pc \in {"walk", "store"} => job[w].floor <= told[job[w].root]
    /\ \A w \in Workers : At(w, "store") /\ w \notin missed => told[job[w].root] <= job[w].used
    /\ \A i \in DOMAIN cache : cache[i].root \notin missed => told[cache[i].root] <= cache[i].used
    /\ CountsAll

\* Whatever was read off the disk, overtaken or not, counts all that had been
\* told before the moment it was read.
Remembers ==
    /\ \A r \in Roots, t \in 0..MaxTime : past[r][t] <= told[r]
    /\ \A w \in Workers :
          /\ At(w, "walk") => job[w].owed <= told[job[w].root]
          /\ At(w, "store") =>
                /\ job[w].asof <= now
                /\ \A t \in 0..MaxTime :
                      t < job[w].asof => past[job[w].root][t] <= job[w].used
          /\ job[w].pc \in {"store", "answered"} => job[w].owed <= job[w].used
    /\ \A i \in DOMAIN cache :
          /\ cache[i].asof <= now
          /\ \A t \in 0..MaxTime :
                t < cache[i].asof => past[cache[i].root][t] <= cache[i].used

CInv == IInv /\ SizesAreTold /\ CountsTold /\ Remembers

LEMMA CountingStep == CInv /\ [Next]_vars => (SizesAreTold /\ CountsTold)'
<1> SUFFICES ASSUME CInv, [Next]_vars PROVE SizesAreTold' /\ CountsTold'
  OBVIOUS
<1> USE ConstantsOK DEF ConstantsOK
<1>0. /\ size \in [Roots -> 0..MaxSize] /\ told \in [Roots -> 0..MaxSize]
      /\ job \in [Workers -> Job] /\ Wellformed(cache)
      /\ \A w \in Workers : job[w].pc # "idle" => job[w].root \in Roots
      /\ SizesAreTold /\ CountsTold
  BY DEF CInv, IInv, JobsInOrder
<1>a. IInv /\ IInv'
  BY StepKeepsOrder DEF CInv
<1>b. now \in 0..MaxTime
  BY <1>a DEF IInv
<1>c. \A i \in DOMAIN cache : cache[i] \in Entry /\ cache[i].root \in Roots
  <2>1. cache \in Seq(Entry)
    BY <1>0 DEF Wellformed
  <2>2. \A i \in DOMAIN cache : cache[i] \in Entry
    BY <2>1
  <2> QED
    BY <2>2 DEF Entry
<1>1. ASSUME NEW w \in Workers, NEW r \in Roots, QuotaArrives(w, r)
      PROVE  SizesAreTold' /\ CountsTold'
  <2>1. UNCHANGED <<now, size, told, cache>>
    BY <1>1 DEF QuotaArrives
  <2>2. CASE Hits(r) = {}
    <3> DEFINE b == Asked("walk", r, 0, 0)
    <3>1. b \in Job /\ b.pc = "walk" /\ b.floor = told[r] /\ b.root = r
      <4>1. 0 \in 0..MaxSize /\ 0 \in 0..MaxTime
        OBVIOUS
      <4> QED
        BY <1>a, <4>1, AskedIsAJob DEF Asked
    <3>2. job' = [job EXCEPT ![w] = b] /\ missed' = missed \ {w}
      BY <1>1, <2>2 DEF QuotaArrives
    <3> HIDE DEF b
    <3>3. SizesAreTold'
      BY <1>0, <2>1, <3>1, <3>2 DEF SizesAreTold
    <3>4. \A x \in Workers : job'[x] = IF x = w THEN b ELSE job[x]
      BY <1>0, <3>2
    <3>5. \A q \in Roots : q \in missed' <=> q \in missed
      BY <3>2
    <3>6. CountsTold'
      BY <1>0, <1>c, <2>1, <3>1, <3>2, <3>4, <3>5 DEF CountsTold, CountsAll, At
    <3> QED
      BY <3>3, <3>6
  <2>3. CASE Hits(r) # {}
    <3>1. PICK i \in Hits(r) :
             job' = [job EXCEPT ![w] = Asked("answered", r, cache[i].used, cache[i].asof)]
      BY <1>1, <2>3 DEF QuotaArrives
    <3> DEFINE b == Asked("answered", r, cache[i].used, cache[i].asof)
    <3>2. i \in DOMAIN cache /\ cache[i] \in Entry /\ cache[i].root = r
      BY <1>c DEF Hits
    <3>3. /\ b \in Job /\ b.pc = "answered" /\ b.floor = told[r] /\ b.root = r
          /\ b.used = cache[i].used
      BY <1>a, <3>2, AskedIsAJob DEF Asked, Entry
    <3>4. job' = [job EXCEPT ![w] = b]
          /\ missed' = IF r \in missed THEN missed \cup {w} ELSE missed \ {w}
      BY <1>1, <2>3, <3>1 DEF QuotaArrives
    <3>5. r \notin missed => b.floor <= b.used
      BY <1>0, <3>2, <3>3 DEF CountsTold
    <3> HIDE DEF b
    <3>6. SizesAreTold'
      BY <1>0, <2>1, <3>3, <3>4 DEF SizesAreTold
    <3>7. \A x \in Workers : job'[x] = IF x = w THEN b ELSE job[x]
      BY <1>0, <3>4
    <3>8. \A q \in Roots : q \in missed' <=> q \in missed
      BY <3>4
    <3>9. w \in missed' <=> r \in missed
      BY <3>4
    <3>10. \A x \in Workers \ {w} : x \in missed' <=> x \in missed
      BY <3>4
    <3>11. CountsTold'
      BY <1>0, <1>c, <2>1, <3>3, <3>5, <3>7, <3>8, <3>9, <3>10
         DEF CountsTold, CountsAll, At
    <3> QED
      BY <3>6, <3>11
  <2> QED
    BY <2>2, <2>3
<1>2. ASSUME NEW w \in Workers, Walk(w) PROVE SizesAreTold' /\ CountsTold'
  <2> DEFINE b == [job[w] EXCEPT !.pc = "store", !.used = size[job[w].root], !.asof = now]
  <2>1. job[w].root \in Roots /\ job[w] \in Job /\ job[w].pc = "walk"
    BY <1>0, <1>2 DEF Walk, At
  <2>2. /\ b.pc = "store" /\ b.root = job[w].root /\ b.floor = job[w].floor
        /\ b.used = size[job[w].root]
    BY <2>1 DEF Job
  <2>3. job' = [job EXCEPT ![w] = b] /\ UNCHANGED <<now, size, told, cache, missed>>
    BY <1>0, <1>2 DEF Walk
  <2>4. told[job[w].root] <= b.used
    BY <1>0, <2>1, <2>2 DEF SizesAreTold
  <2> HIDE DEF b
  <2>5. SizesAreTold'
    BY <1>0, <2>1, <2>2, <2>3 DEF SizesAreTold
  <2>6. CountsTold'
    BY <1>0, <2>1, <2>2, <2>3, <2>4 DEF CountsTold, CountsAll, At
  <2> QED
    BY <2>5, <2>6
<1>3. ASSUME NEW w \in Workers, Store(w) PROVE SizesAreTold' /\ CountsTold'
  <2> DEFINE e == [root |-> job[w].root, ts |-> job[w].at,
                   used |-> job[w].used, asof |-> job[w].asof]
  <2>1. job[w].root \in Roots /\ job[w] \in Job /\ job[w].pc = "store"
    BY <1>0, <1>3 DEF Store, At
  <2>2. e \in Entry /\ e.root = job[w].root /\ e.used = job[w].used
    BY <2>1 DEF Entry, Job
  <2>3. cache' = Put(e) /\ missed' = Overtaken(w) /\ UNCHANGED <<size, told>>
    BY <1>3 DEF Store
  <2>4. \A x \in Workers :
           /\ job'[x].pc = IF x = w THEN "answered" ELSE job[x].pc
           /\ job'[x].root = job[x].root /\ job'[x].used = job[x].used
           /\ job'[x].floor = job[x].floor
    <3>1. job' = [job EXCEPT ![w].pc = "answered"]
      BY <1>3 DEF Store
    <3> DEFINE b == [job[w] EXCEPT !.pc = "answered"]
    <3>2. b.pc = "answered" /\ b.root = job[w].root /\ b.used = job[w].used
          /\ b.floor = job[w].floor
      BY <2>1 DEF Job
    <3>3. job' = [job EXCEPT ![w] = b]
      BY <1>0, <3>1
    <3> HIDE DEF b
    <3> QED
      BY <1>0, <3>2, <3>3
  <2> HIDE DEF e
  <2>5. w \notin missed => told[job[w].root] <= job[w].used
                          /\ job[w].floor <= job[w].used
    <3>1. job[w].floor \in Nat /\ told[job[w].root] \in Nat /\ job[w].used \in Nat
      BY <1>0, <2>1 DEF Job
    <3> QED
      BY <1>0, <2>1, <3>1 DEF CountsTold, At
  <2>6. SizesAreTold'
    <3>1. UNCHANGED <<size, told>>
      BY <2>3
    <3> QED
      BY <1>0, <2>4, <3>1 DEF SizesAreTold
  <2>7. \A x \in Workers : x \in missed' <=> x \in missed
    BY <2>1, <2>3 DEF Overtaken
  <2>8. \A q \in Roots : q \in missed' <=> IF q = job[w].root THEN w \in missed
                                                               ELSE q \in missed
    BY <2>1, <2>3 DEF Overtaken
  <2>9. ASSUME NEW i \in DOMAIN cache', cache'[i].root \notin missed'
        PROVE  told'[cache'[i].root] <= cache'[i].used
    <3>1. CASE cache'[i] = e
      BY <2>1, <2>2, <2>3, <2>5, <2>8, <2>9, <3>1
    <3>2. CASE \E k \in DOMAIN cache : cache'[i] = cache[k] /\ cache[k].root # e.root
      <4>1. PICK k \in DOMAIN cache : cache'[i] = cache[k] /\ cache[k].root # e.root
        BY <3>2
      <4>2. cache[k].root \in Roots
        BY <1>c
      <4> QED
        BY <1>0, <2>2, <2>3, <2>8, <2>9, <4>1, <4>2 DEF CountsTold
    <3> QED
      BY <1>0, <2>2, <2>3, <3>1, <3>2, PutHas
  <2>10. \A x \in Workers : job'[x].pc = "answered" /\ x \notin missed'
                               => job'[x].used >= job'[x].floor
    <3>1. \A x \in Workers : job[x].used \in Nat /\ job[x].floor \in Nat
      BY <1>0 DEF Job
    <3>2. \A x \in Workers : job[x].pc = "answered" /\ x \notin missed
                               => job[x].used >= job[x].floor
      BY <1>0 DEF CountsTold, CountsAll, At
    <3> QED
      BY <2>4, <2>5, <2>7, <3>1, <3>2
  <2>11. \A x \in Workers : job'[x].pc \in {"walk", "store"}
                               => job'[x].floor <= told'[job'[x].root]
    BY <1>0, <2>3, <2>4 DEF CountsTold
  <2>12. \A x \in Workers : job'[x].pc = "store" /\ x \notin missed'
                               => told'[job'[x].root] <= job'[x].used
    BY <1>0, <2>3, <2>4, <2>7 DEF CountsTold, At
  <2> QED
    BY <2>6, <2>9, <2>10, <2>11, <2>12 DEF CountsTold, CountsAll, At
<1>4. ASSUME NEW w \in Workers, NEW r \in Roots, MutationArrives(w, r)
      PROVE  SizesAreTold' /\ CountsTold'
  <2>0. PICK t \in BOOLEAN :
           job' = [job EXCEPT ![w] = [Asked("mutate", r, 0, 0) EXCEPT !.top = t]]
    BY <1>4 DEF MutationArrives
  <2> DEFINE a == [Asked("mutate", r, 0, 0) EXCEPT !.top = t]
  <2>1. a.pc = "mutate"
    BY DEF Asked
  <2>2. job' = [job EXCEPT ![w] = a] /\ UNCHANGED <<now, size, told, cache, missed>>
    BY <1>4, <2>0 DEF MutationArrives
  <2> HIDE DEF a
  <2> QED
    BY <1>0, <2>1, <2>2 DEF SizesAreTold, CountsTold, CountsAll, At
<1>5. ASSUME NEW w \in Workers, Mutate(w) PROVE SizesAreTold' /\ CountsTold'
  <2>1. UNCHANGED <<told, cache, missed>>
        /\ job[w].root \in Roots
    BY <1>0, <1>5 DEF Mutate, At
  <2>2. CASE job' = [job EXCEPT ![w] = Idle] /\ UNCHANGED size
    BY <1>0, <2>1, <2>2, IdleIsAJob DEF SizesAreTold, CountsTold, CountsAll, At
  <2>3. CASE /\ size' = [size EXCEPT ![job[w].root] = @ + 1]
             /\ \E step \in {"bust", "failed"} :
                   job' = [job EXCEPT ![w].pc = step, ![w].used = size[job[w].root] + 1]
    <3>1. \A q \in Roots : size'[q] = IF q = job[w].root THEN size[q] + 1 ELSE size[q]
      BY <1>0, <2>3
    <3>2. \A q \in Roots : size[q] \in Nat /\ told[q] \in Nat
      BY <1>0
    <3>3. /\ job'[w].pc \in {"bust", "failed"} /\ job'[w].root = job[w].root
          /\ job'[w].used = size[job[w].root] + 1
          /\ \A x \in Workers \ {w} : job'[x] = job[x]
      BY <1>0, <2>3 DEF Job
    <3>4. \A x \in Workers : job[x].used \in Nat
      BY <1>0 DEF Job
    <3>5. SizesAreTold'
      BY <1>0, <2>1, <3>1, <3>2, <3>3, <3>4 DEF SizesAreTold
    <3>6. CountsTold'
      BY <1>0, <2>1, <3>3 DEF CountsTold, CountsAll, At
    <3> QED
      BY <3>5, <3>6
  <2> QED
    BY <1>5, <2>2, <2>3 DEF Mutate
<1>6. ASSUME NEW w \in Workers, job[w].pc \in {"bust", "failed"}, Tell(w),
             Reading(job[w].root) \subseteq missed', missed \subseteq missed',
             UNCHANGED size
      PROVE  /\ SizesAreTold'
             /\ \A q \in Roots : q # job[w].root => told'[q] = told[q]
             /\ (\A i \in DOMAIN cache' : cache'[i].root \notin missed'
                                            => told'[cache'[i].root] <= cache'[i].used)
                   => CountsTold'
  <2> DEFINE r == job[w].root
  <2>1. r \in Roots /\ job[w].used \in 0..MaxSize /\ job[w].used <= size[r]
    BY <1>0, <1>6 DEF SizesAreTold, Job
  <2>2. /\ \A q \in Roots : told'[q] = IF q = r /\ job[w].used > told[q]
                                        THEN job[w].used ELSE told[q]
        /\ job' = [job EXCEPT ![w] = Idle]
    BY <1>0, <1>6, <2>1 DEF Tell
  <2>3. \A q \in Roots : told[q] \in Nat /\ size[q] \in Nat /\ told'[q] \in Nat
    BY <1>0, <2>1, <2>2
  <2>4. \A x \in Workers : job[x].floor \in Nat /\ job[x].used \in Nat
    BY <1>0 DEF Job
  <2>5. \A x \in Workers : job'[x] = IF x = w THEN Idle ELSE job[x]
    BY <1>0, <2>2
  <2>6. SizesAreTold'
    BY <1>0, <1>6, <2>1, <2>2, <2>3, <2>5, IdleIsAJob DEF SizesAreTold
  <2>7. \A x \in Workers : job'[x].pc \in {"walk", "store"}
                              => job'[x].floor <= told'[job'[x].root]
    BY <1>0, <2>1, <2>2, <2>3, <2>4, <2>5, IdleIsAJob DEF CountsTold
  <2>8. \A x \in Workers : job'[x].pc = "store" /\ x \notin missed'
                              => told'[job'[x].root] <= job'[x].used
    BY <1>0, <1>6, <2>1, <2>2, <2>5, IdleIsAJob DEF CountsTold, At, Reading
  <2>9. CountsAll'
    BY <1>0, <1>6, <2>5, IdleIsAJob DEF CountsTold, CountsAll, At
  <2>10. \A q \in Roots : q # r => told'[q] = told[q]
    BY <2>2
  <2> QED
    BY <2>6, <2>7, <2>8, <2>9, <2>10 DEF CountsTold, At
<1>7. ASSUME NEW w \in Workers, Bust(w) PROVE SizesAreTold' /\ CountsTold'
  <2>1. /\ job[w].pc = "bust" /\ Tell(w) /\ UNCHANGED size
        /\ missed' = missed \cup Reading(job[w].root) \cup Outlives(w)
        /\ cache' = IF job[w].top THEN cache ELSE Dropped(job[w].root)
        /\ job[w].root \in Roots
    BY <1>0, <1>7 DEF Bust, At
  <2>2. /\ SizesAreTold'
        /\ \A q \in Roots : q # job[w].root => told'[q] = told[q]
    BY <1>6, <2>1
  <2>3. ASSUME NEW i \in DOMAIN cache', cache'[i].root \notin missed'
        PROVE  told'[cache'[i].root] <= cache'[i].used
    <3>1. PICK k \in DOMAIN cache : cache'[i] = cache[k] /\ cache[k].root # job[w].root
      <4>1. CASE job[w].top
        BY <2>1, <2>3, <4>1 DEF Outlives
      <4>2. CASE ~job[w].top
        BY <1>0, <2>1, <4>2, DroppedHas
      <4> QED
        BY <4>1, <4>2
    <3>2. cache[k].root \in Roots
      BY <1>c
    <3> QED
      BY <1>0, <2>1, <2>2, <2>3, <3>1, <3>2 DEF CountsTold
  <2> QED
    BY <1>6, <2>1, <2>2, <2>3
<1>8. ASSUME NEW w \in Workers, Fail(w) PROVE SizesAreTold' /\ CountsTold'
  <2>1. /\ job[w].pc = "failed" /\ Tell(w) /\ UNCHANGED <<size, cache>>
        /\ missed' = missed \cup Reading(job[w].root) \cup {job[w].root}
    BY <1>8 DEF Fail, At
  <2>2. /\ SizesAreTold'
        /\ \A q \in Roots : q # job[w].root => told'[q] = told[q]
    BY <1>6, <2>1
  <2>3. ASSUME NEW i \in DOMAIN cache', cache'[i].root \notin missed'
        PROVE  told'[cache'[i].root] <= cache'[i].used
    <3>1. cache[i].root \in Roots /\ i \in DOMAIN cache
      BY <1>c, <2>1
    <3> QED
      BY <1>0, <2>1, <2>2, <2>3, <3>1 DEF CountsTold
  <2> QED
    BY <1>6, <2>1, <2>2, <2>3
<1>9. ASSUME NEW w \in Workers, Reply(w) PROVE SizesAreTold' /\ CountsTold'
  BY <1>0, <1>9, IdleIsAJob DEF Reply, SizesAreTold, CountsTold, CountsAll, At
<1>10. ASSUME NEW r \in Roots, ShellWrites(r) PROVE SizesAreTold' /\ CountsTold'
  <2>1. /\ UNCHANGED <<told, cache, job, missed>>
        /\ \A q \in Roots : size'[q] = IF q = r THEN size[q] + 1 ELSE size[q]
    BY <1>0, <1>10 DEF ShellWrites
  <2>2. \A q \in Roots : size[q] \in Nat /\ told[q] \in Nat
    BY <1>0
  <2>3. \A w \in Workers : job[w].used \in Nat
    BY <1>0 DEF Job
  <2>4. SizesAreTold'
    BY <1>0, <2>1, <2>2, <2>3 DEF SizesAreTold
  <2>5. CountsTold'
    BY <1>0, <2>1 DEF CountsTold, CountsAll, At
  <2> QED
    BY <2>4, <2>5
<1>11. ASSUME Tick \/ UNCHANGED vars PROVE SizesAreTold' /\ CountsTold'
  <2>1. UNCHANGED <<size, told, cache, job, missed>>
    BY <1>11 DEF Tick, vars
  <2> QED
    BY <1>0, <2>1 DEF SizesAreTold, CountsTold, CountsAll, At
<1>12. SizesAreTold' /\ CountsTold'
  <2>1. CASE \E w \in Workers : Serve(w)
    <3>1. PICK w \in Workers : Serve(w)
      BY <2>1
    <3> QED
      BY <1>1, <1>2, <1>3, <1>4, <1>5, <1>7, <1>8, <1>9, <3>1 DEF Serve
  <2> QED
    BY <1>10, <1>11, <2>1 DEF Next
<1> QED
  BY <1>12

LEMMA RememberingStep == CInv /\ [Next]_vars => Remembers'
<1> SUFFICES ASSUME CInv, [Next]_vars PROVE Remembers'
  OBVIOUS
<1> USE ConstantsOK DEF ConstantsOK
<1>0. /\ now \in 0..MaxTime /\ size \in [Roots -> 0..MaxSize] /\ told \in [Roots -> 0..MaxSize]
      /\ past \in [Roots -> [0..MaxTime -> 0..MaxSize]] /\ job \in [Workers -> Job]
      /\ Wellformed(cache) /\ HonestStamps(cache)
      /\ \A w \in Workers : job[w].pc # "idle" => job[w].root \in Roots
      /\ SizesAreTold /\ Remembers
  BY DEF CInv, IInv, JobsInOrder
<1>a. \A i \in DOMAIN cache : cache[i] \in Entry /\ cache[i].root \in Roots
  <2>1. cache \in Seq(Entry)
    BY <1>0 DEF Wellformed
  <2>2. \A i \in DOMAIN cache : cache[i] \in Entry
    BY <2>1
  <2> QED
    BY <2>2 DEF Entry
<1>b. \A r \in Roots, t \in 0..MaxTime : past[r][t] \in 0..MaxSize /\ past[r][t] <= told[r]
  BY <1>0 DEF Remembers
<1>1. ASSUME NEW w \in Workers, NEW r \in Roots, QuotaArrives(w, r) PROVE Remembers'
  <2>1. UNCHANGED <<now, told, past, cache>>
    BY <1>1 DEF QuotaArrives
  <2>2. CASE Hits(r) = {}
    <3> DEFINE b == Asked("walk", r, 0, 0)
    <3>1. b.pc = "walk" /\ b.root = r /\ b.owed <= told[r]
      <4>1. b.owed = IF now < TTL THEN 0 ELSE past[r][now - TTL]
        BY DEF Asked
      <4>2. ~(now < TTL) => now - TTL \in 0..MaxTime
        BY <1>0
      <4> QED
        BY <1>0, <1>b, <4>1, <4>2 DEF Asked
    <3>2. job' = [job EXCEPT ![w] = b]
      BY <1>1, <2>2 DEF QuotaArrives
    <3> HIDE DEF b
    <3> QED
      BY <1>0, <2>1, <3>1, <3>2 DEF Remembers, At
  <2>3. CASE Hits(r) # {}
    <3>1. PICK i \in Hits(r) :
             job' = [job EXCEPT ![w] = Asked("answered", r, cache[i].used, cache[i].asof)]
      BY <1>1, <2>3 DEF QuotaArrives
    <3> DEFINE b == Asked("answered", r, cache[i].used, cache[i].asof)
    <3>2. /\ i \in DOMAIN cache /\ cache[i] \in Entry /\ cache[i].root = r
          /\ now < cache[i].ts + TTL
      BY <1>a DEF Hits
    <3>3. cache[i].ts <= cache[i].asof
      BY <1>0, <3>2 DEF HonestStamps
    <3>4. b.pc = "answered" /\ b.owed <= b.used
      <4>1. b.owed = IF now < TTL THEN 0 ELSE past[r][now - TTL]
        BY DEF Asked
      <4>2. b.used = cache[i].used /\ cache[i].used \in 0..MaxSize
        BY <3>2 DEF Asked, Entry
      <4>3. ~(now < TTL) => now - TTL \in 0..MaxTime /\ now - TTL < cache[i].asof
        BY <1>0, <3>2, <3>3 DEF Entry
      <4>4. \A t \in 0..MaxTime : t < cache[i].asof => past[r][t] <= cache[i].used
        BY <1>0, <3>2 DEF Remembers
      <4> QED
        BY <4>1, <4>2, <4>3, <4>4 DEF Asked
    <3> HIDE DEF b
    <3> QED
      BY <1>0, <2>1, <3>1, <3>4 DEF Remembers, At, b
  <2> QED
    BY <2>2, <2>3
<1>2. ASSUME NEW w \in Workers, Walk(w) PROVE Remembers'
  <2> DEFINE b == [job[w] EXCEPT !.pc = "store", !.used = size[job[w].root], !.asof = now]
  <2>1. job[w].root \in Roots /\ job[w] \in Job /\ job[w].pc = "walk"
    BY <1>0, <1>2 DEF Walk, At
  <2>2. /\ b.pc = "store" /\ b.root = job[w].root /\ b.owed = job[w].owed
        /\ b.used = size[job[w].root] /\ b.asof = now
    BY <2>1 DEF Job
  <2>3. job' = [job EXCEPT ![w] = b] /\ UNCHANGED <<now, told, past, cache>>
    BY <1>0, <1>2 DEF Walk
  <2>4. /\ told[job[w].root] <= b.used /\ b.owed <= b.used
        /\ \A t \in 0..MaxTime : past[job[w].root][t] <= b.used
    <3>1. told[job[w].root] <= size[job[w].root] /\ job[w].owed <= told[job[w].root]
      BY <1>0, <2>1 DEF SizesAreTold, Remembers, At
    <3>2. told[job[w].root] \in Nat /\ size[job[w].root] \in Nat /\ job[w].owed \in Nat
      BY <1>0, <2>1 DEF Job
    <3> HIDE DEF b
    <3> QED
      BY <1>b, <2>1, <2>2, <3>1, <3>2
  <2> HIDE DEF b
  <2>5. now <= now
    BY <1>0
  <2> QED
    BY <1>0, <2>1, <2>2, <2>3, <2>4, <2>5 DEF Remembers, At
<1>3. ASSUME NEW w \in Workers, Store(w) PROVE Remembers'
  <2> DEFINE e == [root |-> job[w].root, ts |-> job[w].at,
                   used |-> job[w].used, asof |-> job[w].asof]
  <2>1. job[w].root \in Roots /\ job[w] \in Job /\ job[w].pc = "store"
    BY <1>0, <1>3 DEF Store, At
  <2>2. e \in Entry /\ e.root = job[w].root /\ e.used = job[w].used /\ e.asof = job[w].asof
    BY <2>1 DEF Entry, Job
  <2>3. cache' = Put(e) /\ UNCHANGED <<now, told, past>>
    BY <1>3 DEF Store
  <2>4. \A x \in Workers :
           /\ job'[x].pc = IF x = w THEN "answered" ELSE job[x].pc
           /\ job'[x].root = job[x].root /\ job'[x].used = job[x].used
           /\ job'[x].owed = job[x].owed /\ job'[x].asof = job[x].asof
    <3>1. job' = [job EXCEPT ![w].pc = "answered"]
      BY <1>3 DEF Store
    <3> DEFINE b == [job[w] EXCEPT !.pc = "answered"]
    <3>2. b.pc = "answered" /\ b.root = job[w].root /\ b.used = job[w].used
          /\ b.owed = job[w].owed /\ b.asof = job[w].asof
      BY <2>1 DEF Job
    <3>3. job' = [job EXCEPT ![w] = b]
      BY <1>0, <3>1
    <3> HIDE DEF b
    <3> QED
      BY <1>0, <3>2, <3>3
  <2> HIDE DEF e
  <2>5. ASSUME NEW i \in DOMAIN cache'
        PROVE  /\ cache'[i].asof <= now
               /\ \A t \in 0..MaxTime :
                     t < cache'[i].asof => past[cache'[i].root][t] <= cache'[i].used
    <3>1. CASE cache'[i] = e
      BY <1>0, <2>1, <2>2, <3>1 DEF Remembers, At
    <3>2. CASE \E k \in DOMAIN cache : cache'[i] = cache[k]
      BY <1>0, <3>2 DEF Remembers
    <3> QED
      BY <1>0, <2>2, <2>3, <3>1, <3>2, PutHas
  <2>6. job[w].owed <= job[w].used
    BY <1>0, <2>1 DEF Remembers
  <2>7. \A x \in Workers :
           /\ job'[x].pc = "walk" => job'[x].owed <= told'[job'[x].root]
           /\ job'[x].pc = "store" =>
                 /\ job'[x].asof <= now'
                 /\ \A t \in 0..MaxTime :
                       t < job'[x].asof => past'[job'[x].root][t] <= job'[x].used
           /\ job'[x].pc \in {"store", "answered"} => job'[x].owed <= job'[x].used
    BY <1>0, <2>3, <2>4, <2>6 DEF Remembers, At
  <2>8. \A r \in Roots, t \in 0..MaxTime : past'[r][t] <= told'[r]
    BY <1>b, <2>3
  <2> QED
    BY <2>3, <2>5, <2>7, <2>8 DEF Remembers, At
<1>4. ASSUME NEW w \in Workers, NEW r \in Roots, MutationArrives(w, r) PROVE Remembers'
  <2>0. PICK t \in BOOLEAN :
           job' = [job EXCEPT ![w] = [Asked("mutate", r, 0, 0) EXCEPT !.top = t]]
    BY <1>4 DEF MutationArrives
  <2> DEFINE a == [Asked("mutate", r, 0, 0) EXCEPT !.top = t]
  <2>1. a.pc = "mutate"
    BY DEF Asked
  <2>2. job' = [job EXCEPT ![w] = a] /\ UNCHANGED <<now, told, past, cache>>
    BY <1>4, <2>0 DEF MutationArrives
  <2> HIDE DEF a
  <2> QED
    BY <1>0, <2>1, <2>2 DEF Remembers, At
<1>5. ASSUME NEW w \in Workers, Mutate(w) PROVE Remembers'
  <2>1. UNCHANGED <<now, told, past, cache>>
    BY <1>5 DEF Mutate
  <2>2. job'[w].pc \in {"idle", "bust", "failed"}
        /\ \A x \in Workers \ {w} : job'[x] = job[x]
    <3>1. CASE job' = [job EXCEPT ![w] = Idle]
      BY <1>0, <3>1, IdleIsAJob
    <3>2. CASE \E step \in {"bust", "failed"} :
                  job' = [job EXCEPT ![w].pc = step, ![w].used = size[job[w].root] + 1]
      BY SMTT(40), <1>0, <3>2 DEF Job
    <3> QED
      BY <1>5, <3>1, <3>2 DEF Mutate
  <2> QED
    BY <1>0, <2>1, <2>2 DEF Remembers, At
<1>6. ASSUME NEW w \in Workers, Bust(w) \/ Fail(w) PROVE Remembers'
  <2>1. /\ job[w].root \in Roots /\ job[w].used \in 0..MaxSize /\ UNCHANGED <<now, past>>
        /\ cache' = cache \/ cache' = Dropped(job[w].root)
    BY <1>0, <1>6 DEF Bust, Fail, At, Job
  <2>2. job' = [job EXCEPT ![w] = Idle]
    BY <1>6 DEF Bust, Fail, Tell
  <2>3. \A q \in Roots : told'[q] \in Nat /\ told[q] <= told'[q]
    <3>1. told' = [told EXCEPT ![job[w].root] = IF job[w].used > @ THEN job[w].used ELSE @]
      BY <1>6 DEF Bust, Fail, Tell
    <3> QED
      BY <1>0, <2>1, <3>1
  <2>4. \A x \in Workers : job'[x] = IF x = w THEN Idle ELSE job[x]
    BY <1>0, <2>2
  <2>5. \A i \in DOMAIN cache' : \E k \in DOMAIN cache : cache'[i] = cache[k]
    BY <1>0, <2>1, DroppedHas
  <2>6. \A r \in Roots, t \in 0..MaxTime : past'[r][t] <= told'[r]
    BY <1>0, <1>b, <2>1, <2>3
  <2>7. ASSUME NEW x \in Workers, job'[x].pc = "walk" PROVE job'[x].owed <= told'[job'[x].root]
    <3>1. job'[x] = job[x]
      BY <2>4, <2>7, IdleIsAJob
    <3>a. job[x].owed \in Nat /\ job[x].root \in Roots
      BY <1>0, <2>7, <3>1 DEF Job
    <3>2. job[x].owed <= told[job[x].root] /\ told[job[x].root] \in Nat
      BY <1>0, <2>7, <3>1, <3>a DEF Remembers, At
    <3> QED
      BY <2>3, <3>1, <3>a, <3>2
  <2>8. \A x \in Workers :
           /\ job'[x].pc = "store" =>
                 /\ job'[x].asof <= now'
                 /\ \A t \in 0..MaxTime :
                       t < job'[x].asof => past'[job'[x].root][t] <= job'[x].used
           /\ job'[x].pc \in {"store", "answered"} => job'[x].owed <= job'[x].used
    BY <1>0, <2>1, <2>4, IdleIsAJob DEF Remembers, At
  <2>9. \A i \in DOMAIN cache' :
           /\ cache'[i].asof <= now'
           /\ \A t \in 0..MaxTime :
                 t < cache'[i].asof => past'[cache'[i].root][t] <= cache'[i].used
    BY <1>0, <2>1, <2>5 DEF Remembers
  <2> QED
    BY <2>6, <2>7, <2>8, <2>9 DEF Remembers, At
<1>7. ASSUME NEW w \in Workers, Reply(w) PROVE Remembers'
  <2>1. job' = [job EXCEPT ![w] = Idle] /\ UNCHANGED <<now, told, past, cache>>
    BY <1>7 DEF Reply
  <2> QED
    BY <1>0, <2>1, IdleIsAJob DEF Remembers, At
\* What is written down is what was told up to now; nothing was read later.
<1>8. CASE Tick
  <2>1. /\ now < now' /\ now' \in Nat /\ UNCHANGED <<told, cache, job>>
        /\ \A r \in Roots, t \in 0..MaxTime :
              past'[r][t] = IF t = now THEN told[r] ELSE past[r][t]
    BY <1>0, <1>8 DEF Tick
  <2>2. ASSUME NEW r \in Roots, NEW t \in 0..MaxTime PROVE past'[r][t] <= told'[r]
    <3>1. told[r] \in Nat /\ told'[r] = told[r]
      BY <1>0, <2>1
    <3> QED
      BY <1>b, <2>1, <3>1
  <2>3. ASSUME NEW w \in Workers, job[w].pc = "store"
        PROVE  /\ job[w].asof <= now'
               /\ \A t \in 0..MaxTime :
                     t < job[w].asof => past'[job[w].root][t] <= job[w].used
    <3>1. job[w].asof <= now /\ job[w].asof \in 0..MaxTime /\ job[w].root \in Roots
      BY <1>0, <2>3 DEF Remembers, At, Job
    <3>2. \A t \in 0..MaxTime : t < job[w].asof => past[job[w].root][t] <= job[w].used
      BY <1>0, <2>3 DEF Remembers, At
    <3>3. \A t \in 0..MaxTime :
             t < job[w].asof => past'[job[w].root][t] = past[job[w].root][t]
      BY SMTT(40), <1>0, <2>1, <3>1
    <3>4. job[w].asof <= now'
      BY <1>0, <2>1, <3>1
    <3> QED
      BY <3>2, <3>3, <3>4
  <2>4. ASSUME NEW i \in DOMAIN cache
        PROVE  /\ cache[i].asof <= now'
               /\ \A t \in 0..MaxTime :
                     t < cache[i].asof => past'[cache[i].root][t] <= cache[i].used
    <3>1. cache[i].asof <= now /\ cache[i].asof \in 0..MaxTime /\ cache[i].root \in Roots
      BY <1>0, <1>a DEF Remembers, Entry
    <3>2. \A t \in 0..MaxTime : t < cache[i].asof => past[cache[i].root][t] <= cache[i].used
      BY <1>0 DEF Remembers
    <3>3. \A t \in 0..MaxTime :
             t < cache[i].asof => past'[cache[i].root][t] = past[cache[i].root][t]
      BY <1>0, <2>1, <3>1
    <3>4. cache[i].asof <= now'
      BY <1>0, <2>1, <3>1
    <3> QED
      BY <3>2, <3>3, <3>4
  <2>5. \A w \in Workers :
           /\ At(w, "walk") => job[w].owed <= told[job[w].root]
           /\ job[w].pc \in {"store", "answered"} => job[w].owed <= job[w].used
    BY <1>0 DEF Remembers
  <2> QED
    BY <2>1, <2>2, <2>3, <2>4, <2>5 DEF Remembers, At
<1>9. ASSUME UNCHANGED <<now, told, past, cache, job>> PROVE Remembers'
  BY <1>0, <1>9 DEF Remembers, At
<1> QED
  BY <1>1, <1>2, <1>3, <1>4, <1>5, <1>6, <1>7, <1>8, <1>9
     DEF Next, Serve, ShellWrites, vars

\* A quota asked for after a mutation was answered counts it, with any number
\* of homes and requests; one that the bust did not reach (answered between
\* another walk and its store, made by a request that was refused half-way, or
\* through "/") is counted a TTL later (bust_usage_cache: "Drop a cached quota
\* after a mutation").
THEOREM MutationsCount == Spec => []CountsWhatWasTold
<1>1. Init => CInv
  <2>1. Init => IInv
    BY InitOrdered
  <2>2. Init => SizesAreTold /\ CountsTold
    BY DEF Init, Idle, SizesAreTold, CountsTold, CountsAll, At
  <2>3. Init => Remembers
    BY DEF Init, Idle, Remembers, At
  <2> QED
    BY <2>1, <2>2, <2>3 DEF CInv
<1>2. CInv => CountsWhatWasTold
  BY DEF CInv, CountsTold, CountsAll, Remembers, CountsWhatWasTold, At
<1>3. CInv /\ [Next]_vars => CInv'
  BY CountingStep, RememberingStep, StepKeepsOrder DEF CInv
<1> QED
  BY <1>1, <1>2, <1>3, PTL DEF Spec
=============================================================================
