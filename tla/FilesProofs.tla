---------------------------- MODULE FilesProofs ----------------------------
(***************************************************************************)
(* What a download promises and sends, for files and chunks of any size;   *)
(* what the mutations of a directory keep, for any number of names, files, *)
(* links and requests; what unpacking an archive writes, for any archive   *)
(* and any home.                                                           *)
(***************************************************************************)
EXTENDS Delivery, HomeOps, Unzip, SequenceTheorems, WellFoundedInduction, TLAPS

(***************************************************************************)
(* Downloads.                                                              *)
(***************************************************************************)

\* What _parse_range may say of a header
Granted(h, size, p) ==
    \/ /\ p = Ignored
       /\ h \in {Absent, Bad} \/ Bad \in {h.first, h.last} \/ (h.first = Absent /\ h.last = Absent)
    \/ p = Unsatisfiable /\ Asked(h, size) = {}
    \/ \E i, k \in 0..size : /\ i <= k /\ p = Slice(i, k)
                             /\ i..(k - 1) = Asked(h, size)

\* _parse_range ignores a header, finds nothing to send, or names the positions
\* the header asks for.
LEMMA ParsedIsWhatWasAsked ==
    ASSUME NEW h \in Headers, NEW size \in 0..MaxSize
    PROVE  Granted(h, size, Parsed(h, size))
<1> USE SizesOK DEF SizesOK
<1>1. CASE h \in {Absent, Bad}
  BY <1>1 DEF Parsed, Granted
<1>2. CASE h \notin {Absent, Bad} /\ h.first = Absent
  <2>1. h.last \in -1..(MaxSize + 1) \cup {Absent, Bad}
    BY <1>2 DEF Headers
  <2>2. CASE h.last \notin Int
    BY <1>2, <2>1, <2>2 DEF Parsed, Granted
  <2>3. CASE h.last \in Int
    <3>1. Parsed(h, size) = SuffixRange(h.last, size)
      BY <1>2, <2>3 DEF Parsed
    <3>2. Asked(h, size) = {i \in 0..(size - 1) : i >= size - h.last}
      BY <1>2 DEF Asked
    <3>3. CASE h.last <= 0
      BY <2>3, <3>1, <3>2, <3>3 DEF SuffixRange, Granted
    <3>4. CASE h.last > 0
      <4> DEFINE i == IF h.last < size THEN size - h.last ELSE 0
      <4>1. Parsed(h, size) = Slice(i, size)
        BY <2>3, <3>1, <3>4 DEF SuffixRange
      <4>2. i \in 0..size /\ i <= size
        BY <2>3, <3>4
      <4>3. i..(size - 1) = Asked(h, size)
        BY <2>3, <3>2, <3>4
      <4> HIDE DEF i
      <4> QED
        BY <4>1, <4>2, <4>3 DEF Granted
    <3> QED
      BY <2>3, <3>3, <3>4
  <2> QED
    BY <2>2, <2>3
<1>3. CASE h \notin {Absent, Bad} /\ h.first # Absent
  <2>1. /\ h.first \in 0..(MaxSize + 1) \cup {Bad}
        /\ h.last \in -1..(MaxSize + 1) \cup {Absent, Bad}
    BY <1>3 DEF Headers
  <2>2. CASE h.first = Bad \/ h.last = Bad
    BY <1>3, <2>2 DEF Parsed, Granted
  <2>3. CASE h.first # Bad /\ h.last # Bad
    <3> DEFINE end == IF h.last = Absent THEN size ELSE h.last + 1
               k == Lesser(end, size)
    <3>1. Parsed(h, size) = PlainRange(h.first, h.last, size)
      BY <1>3, <2>3 DEF Parsed
    <3>2. h.first \in Nat /\ end \in Int /\ k \in Int
      BY <2>1, <2>3 DEF Lesser
    <3>3. \A i \in 0..(size - 1) :
             i \in Asked(h, size) <=> h.first <= i /\ i < end
      BY <1>3, <2>1, <2>3 DEF Asked
    <3>4. Asked(h, size) \subseteq 0..(size - 1)
      BY DEF Asked
    <3>5. CASE h.first >= size \/ end <= h.first
      <4>1. Parsed(h, size) = Unsatisfiable
        BY <3>1, <3>5 DEF PlainRange
      <4>2. Asked(h, size) = {}
        BY <3>2, <3>3, <3>4, <3>5
      <4> QED
        BY <4>1, <4>2 DEF Granted
    <3>6. CASE ~(h.first >= size \/ end <= h.first)
      <4>1. Parsed(h, size) = Slice(h.first, k)
        BY <3>1, <3>6 DEF PlainRange
      <4>2. h.first \in 0..size /\ k \in 0..size /\ h.first <= k
        BY <3>2, <3>6 DEF Lesser
      <4>3. k <= end /\ k <= size /\ (k = end \/ k = size)
        BY <3>2 DEF Lesser
      <4> HIDE DEF k, end
      <4>4. \A i \in h.first..(k - 1) : i \in Asked(h, size)
        BY <3>2, <3>3, <4>3
      <4>5. \A i \in Asked(h, size) : i \in h.first..(k - 1)
        BY <3>2, <3>3, <3>4, <4>3
      <4>6. h.first..(k - 1) = Asked(h, size)
        BY <4>4, <4>5
      <4> QED
        BY <4>1, <4>2, <4>6 DEF Granted
    <3> QED
      BY <3>5, <3>6
  <2> QED
    BY <2>2, <2>3
<1> QED
  BY <1>1, <1>2, <1>3

---------------------------------------------------------------------------

\* What __init__ decided, and what __call__ may rely on
Promise ==
    /\ resp.start \in 0..MaxSize /\ resp.end \in 0..MaxSize /\ resp.length \in 0..MaxSize
    /\ resp.start <= resp.end
    /\ resp.status # 416 => resp.length = resp.end - resp.start

Progress ==
    /\ pc = "start" => sent = 0 /\ body = 0
    /\ pc = "read" => resp.start <= sent /\ sent < resp.end /\ body = sent - resp.start
    /\ pc = "send" => /\ resp.start <= sent /\ sent <= resp.end
                      /\ body + chunk = sent - resp.start
    /\ pc = "final" => body <= resp.end - resp.start
                       /\ (shrunk \/ body = resp.end - resp.start)
    /\ pc \in {"close", "done"} => shrunk \/ body = resp.end - resp.start
    /\ body <= resp.end - resp.start
    /\ finals = IF pc \in {"close", "done"} THEN 1 ELSE 0
    /\ closed = IF pc \in {"done", "gone"} THEN 1 ELSE 0
    /\ ~shrunk => len >= resp.end

ResponseInv ==
    /\ len \in 0..MaxSize /\ shrunk \in BOOLEAN
    /\ pc \in {"start", "read", "send", "final", "close", "broken", "done", "gone"}
    /\ sent \in 0..MaxSize /\ chunk \in 0..Chunk /\ body \in 0..MaxSize
    /\ RangeIsWhatWasAsked
    /\ Promise
    /\ Progress

LEMMA InitKeepsPromise == DeliveryInit => ResponseInv
<1> SUFFICES ASSUME DeliveryInit PROVE ResponseInv
  OBVIOUS
<1> USE SizesOK DEF SizesOK
<1>1. PICK h \in Headers : resp = Response(h, len)
  BY DEF DeliveryInit
<1>2. len \in 0..MaxSize
  BY DEF DeliveryInit
<1> DEFINE p == Parsed(h, len)
<1>3. Granted(h, len, p)
  BY <1>2, ParsedIsWhatWasAsked
<1>4. resp = [header |-> h, size |-> len,
              status |-> CASE p.kind = "unsat" -> 416 [] p.kind = "range" -> 206
                           [] p.kind = "ignored" -> 200,
              start |-> IF p.kind = "range" THEN p.start ELSE 0,
              end |-> IF p.kind = "range" THEN p.end ELSE len,
              length |-> CASE p.kind = "unsat" -> 0 [] p.kind = "range" -> p.end - p.start
                           [] p.kind = "ignored" -> len]
  BY <1>1 DEF Response
<1> HIDE DEF p
<1>5. Promise /\ RangeIsWhatWasAsked /\ resp.end <= len
  <2>1. CASE p = Ignored /\ (h \in {Absent, Bad} \/ Bad \in {h.first, h.last}
                               \/ (h.first = Absent /\ h.last = Absent))
    BY <1>2, <1>4, <2>1 DEF Promise, RangeIsWhatWasAsked, Ignored
  <2>2. CASE p = Unsatisfiable /\ Asked(h, len) = {}
    BY <1>2, <1>4, <2>2 DEF Promise, RangeIsWhatWasAsked, Unsatisfiable
  <2>3. CASE \E i, k \in 0..len : /\ i <= k /\ p = Slice(i, k)
                                  /\ i..(k - 1) = Asked(h, len)
    <3>1. PICK i \in 0..len, k \in 0..len : /\ i <= k /\ p = Slice(i, k)
                                            /\ i..(k - 1) = Asked(h, len)
      BY <2>3
    <3>2. /\ resp.header = h /\ resp.size = len /\ resp.status = 206
          /\ resp.start = i /\ resp.end = k /\ resp.length = k - i
      BY <1>4, <3>1 DEF Slice
    <3> QED
      BY <1>2, <3>1, <3>2 DEF Promise, RangeIsWhatWasAsked
  <2> QED
    BY <1>3, <2>1, <2>2, <2>3 DEF Granted
<1>6. /\ pc = "start" /\ sent = 0 /\ chunk = 0 /\ body = 0 /\ finals = 0 /\ closed = 0
      /\ shrunk = FALSE
  BY DEF DeliveryInit
<1>7. 0 \in 0..MaxSize /\ 0 \in 0..Chunk
  OBVIOUS
<1>8. Progress
  BY <1>2, <1>5, <1>6 DEF Progress, Promise
<1> QED
  BY <1>2, <1>5, <1>6, <1>7, <1>8 DEF ResponseInv

LEMMA StepKeepsPromise == ResponseInv /\ [DeliveryNext]_deliveryVars => ResponseInv'
<1> SUFFICES ASSUME ResponseInv, [DeliveryNext]_deliveryVars PROVE ResponseInv'
  OBVIOUS
<1> USE SizesOK DEF SizesOK
<1>1. CASE Start
  BY <1>1 DEF Start, ResponseInv, Promise, Progress, RangeIsWhatWasAsked
<1>2. CASE Read
  <2> DEFINE n == Lesser(Lesser(Chunk, resp.end - sent), IF len > sent THEN len - sent ELSE 0)
  <2>1. n \in 0..Chunk /\ n <= resp.end - sent /\ (n = 0 => len <= sent)
    BY <1>2 DEF Read, ResponseInv, Promise, Progress, Lesser
  <2>2. /\ pc = "read" /\ chunk' = n /\ sent' = sent + n
        /\ pc' = IF n = 0 THEN "final" ELSE "send"
        /\ UNCHANGED <<len, shrunk, resp, body, finals, closed>>
    BY <1>2 DEF Read
  <2> HIDE DEF n
  <2>3. /\ sent' \in 0..MaxSize /\ chunk' \in 0..Chunk
        /\ resp.start <= sent' /\ sent' <= resp.end
        /\ body + chunk' = sent' - resp.start
    BY <2>1, <2>2 DEF ResponseInv, Promise, Progress
  <2>4. n = 0 => shrunk
    BY <2>1, <2>2 DEF ResponseInv, Promise, Progress
  <2>5. Progress'
    BY <2>2, <2>3, <2>4 DEF ResponseInv, Progress
  <2> QED
    BY <2>2, <2>3, <2>5 DEF ResponseInv, Promise, RangeIsWhatWasAsked
<1>3. CASE Send
  BY <1>3 DEF Send, ResponseInv, Promise, Progress, RangeIsWhatWasAsked
<1>4. CASE SendFinal
  BY <1>4 DEF SendFinal, ResponseInv, Promise, Progress, RangeIsWhatWasAsked
<1>5. CASE Close
  BY <1>5 DEF Close, ResponseInv, Promise, Progress, RangeIsWhatWasAsked
<1>6. CASE Raise
  BY <1>6 DEF Raise, ResponseInv, Promise, Progress, RangeIsWhatWasAsked
<1>7. CASE ShellResizes
  <2>1. PICK k \in 0..MaxSize : len' = k /\ shrunk' = (shrunk \/ k < resp.end)
    BY <1>7 DEF ShellResizes
  <2>2. shrunk' \in BOOLEAN /\ (shrunk => shrunk') /\ (~shrunk' => len' >= resp.end)
    <3>1. CASE k < resp.end
      BY <2>1, <3>1 DEF ResponseInv
    <3>2. CASE ~(k < resp.end)
      <4>1. shrunk' = shrunk /\ len' >= resp.end
        BY <2>1, <3>2 DEF ResponseInv, Promise
      <4> QED
        BY <4>1 DEF ResponseInv
    <3> QED
      BY <3>1, <3>2
  <2> QED
    BY <1>7, <2>1, <2>2 DEF ShellResizes, ResponseInv, Promise, Progress, RangeIsWhatWasAsked
<1>8. CASE UNCHANGED deliveryVars
  BY <1>8 DEF deliveryVars, ResponseInv, Promise, Progress, RangeIsWhatWasAsked
<1> QED
  BY <1>1, <1>2, <1>3, <1>4, <1>5, <1>6, <1>7, <1>8 DEF DeliveryNext, Call, Over

LEMMA AlwaysPromised == DeliverySpec => []ResponseInv
  BY InitKeepsPromise, StepKeepsPromise, PTL DEF DeliverySpec

\* The response stays within its file, its chunk size and its one last message,
\* and closes its descriptor at most once.
THEOREM ResponseTypeCorrect == DeliverySpec => []ResponseTypeOK
<1>1. ResponseInv => ResponseTypeOK
  BY DEF ResponseInv, ResponseTypeOK, Promise, Progress
<1> QED
  BY <1>1, AlwaysPromised, PTL

\* A 206 names exactly the positions asked for, a 416 means there are none.
THEOREM RangesAreRight == DeliverySpec => []RangeIsWhatWasAsked
<1>1. ResponseInv => RangeIsWhatWasAsked
  BY DEF ResponseInv
<1> QED
  BY <1>1, AlwaysPromised, PTL

\* The body never outgrows Content-Length and falls short of it only when the
\* file became too short or the client left.
THEOREM BodiesFit == DeliverySpec => []BodyFitsItsLength
<1>1. ResponseInv => BodyFitsItsLength
  BY DEF ResponseInv, BodyFitsItsLength, Promise, Progress
<1> QED
  BY <1>1, AlwaysPromised, PTL

(***************************************************************************)
(* Mutations.                                                              *)
(***************************************************************************)

Chunks == Workers \cup {Old, Torn}

\* The steps an operation goes through
StepsOf(kind) ==
    CASE kind = "upload" -> {"open", "write", "abort", "ok", "refused"}
      [] kind = "write" -> {"open", "write", "ok", "refused"}
      [] kind = "move" -> {"stat", "rename", "ok", "refused"}
      [] kind = "copy" -> {"stat", "source", "link", "read", "create", "copy",
                           "ok", "refused"}
      [] kind = "remove" -> {"unlink", "ok", "refused"}
      [] kind = "none" -> {"idle"}

Sending(j) == j.kind \in {"upload", "write"} /\ j.pc \in {"write", "abort", "ok"}

JobOK(j) ==
    /\ j.pc \in StepsOf(j.kind)
    /\ j.kind = "none" => j = Idle
    /\ j.kind # "none" => j.name \in Names
    /\ j.kind \in {"move", "copy"} => j.to \in Names
    /\ j.pc = "open" => j.to = None
    /\ j.pc \in {"open", "stat", "source", "link", "read", "create"} =>
          j.sent = 0 /\ j.fd = None
    /\ Sending(j) => j.fd \in Files /\ j.to \in Names /\ j.sent <= j.len
    /\ j.pc \in {"create", "copy"} => j.src \in Files
    /\ j.pc = "copy" => j.fd \in Files
    /\ j.kind = "copy" /\ j.fd # None => j.src \in Files /\ j.src # j.fd

Jobs == \A w \in Workers : JobOK(job[w])

Types ==
    /\ entry \in [Names -> Files \cup Links \cup {None}]
    /\ content \in [Files -> Seq(Chunks)]
    /\ \A f \in Files : Len(content[f]) <= MaxLen
    /\ job \in [Workers -> Job] /\ alone \in Workers \cup {None}

Has(f, c) == \E i \in 1..Len(content[f]) : content[f][i] = c

\* The chunks of a request are there as long as it runs.
ChunksOfTheBusy == \A f \in Files, w \in Workers : Has(f, w) => job[w].pc # "idle"

\* No name leads to a chunk of w.
Vanished(w) == \A n \in Names : entry[n] \in Files => ~Has(entry[n], w)

\* What the chunks of an upload or a write can be
Sent(w) == IF job[w].kind = "write" THEN {w} ELSE {w, Torn}

\* What is true of a request as long as nobody disturbs it
Undisturbed(w) ==
    /\ \A x \in Workers : x # w => job[x].pc = "idle"
    /\ job[w].pc = "open" => \A f \in Files : ~Has(f, w)
    /\ Sending(job[w]) =>
          /\ entry[job[w].to] = job[w].fd
          /\ job[w].twin \/ \A m \in Names : entry[m] = job[w].fd => m = job[w].to
          /\ Len(content[job[w].fd]) = job[w].sent
          /\ \A i \in 1..job[w].sent : content[job[w].fd][i] \in Sent(w)
          /\ \A f \in Files : Has(f, w) => f = job[w].fd
          /\ job[w].pc = "ok" => job[w].sent = job[w].len
    /\ Answered(w, "upload", "refused") /\ job[w].to \in {None, job[w].name}
          /\ ~job[w].twin => Vanished(w)
    /\ job[w].kind = "copy" /\ job[w].fd # None =>
          /\ job[w].sent = Len(content[job[w].fd])
          /\ job[w].sent <= Len(content[job[w].src])
          /\ \A i \in 1..job[w].sent : content[job[w].fd][i] = content[job[w].src][i]
          /\ job[w].pc = "ok" => job[w].sent = Len(content[job[w].src])

AloneInv == \A w \in Workers : alone = w => Undisturbed(w)

IInv == Types /\ Jobs /\ ChunksOfTheBusy /\ AloneInv

---------------------------------------------------------------------------
(* Chunks.                                                                  *)

\* A chunk that is stored is there, what was there before stays, and between
\* the two there are zeros.
LEMMA StoredShape ==
    ASSUME NEW s \in Seq(Chunks), NEW k \in Nat \ {0}, NEW c \in Chunks
    PROVE  /\ Stored(s, k, c) \in Seq(Chunks)
           /\ Len(Stored(s, k, c)) = IF k > Len(s) THEN k ELSE Len(s)
           /\ Stored(s, k, c)[k] = c
           /\ \A i \in 1..Len(s) : i # k => Stored(s, k, c)[i] = s[i]
           /\ \A i \in 1..Len(Stored(s, k, c)) : 
                 i # k /\ i > Len(s) => Stored(s, k, c)[i] = Torn
<1> DEFINE n == IF k > Len(s) THEN k ELSE Len(s)
           e(i) == IF i = k THEN c ELSE IF i <= Len(s) THEN s[i] ELSE Torn
<1>1. Len(s) \in Nat /\ n \in Nat /\ k \in 1..n /\ Len(s) <= n
  BY LenProperties
<1>2. \A i \in 1..n : e(i) \in Chunks
  <2>1. \A i \in 1..Len(s) : s[i] \in Chunks
    BY ElementOfSeq
  <2> QED
    BY <1>1, <2>1 DEF Chunks
<1>3. Stored(s, k, c) = [i \in 1..n |-> e(i)]
  BY DEF Stored
<1> HIDE DEF n, e
<1>4. [i \in 1..n |-> e(i)] \in Seq(Chunks) /\ Len([i \in 1..n |-> e(i)]) = n
  <2>1. [i \in 1..n |-> e(i)] \in [1..n -> Chunks]
    BY <1>2
  <2> QED
    BY <1>1, <2>1, SeqDef, LenProperties
<1> QED
  BY <1>1, <1>3, <1>4 DEF n, e

\* An empty file has no chunks; a chunk of a file is one of Chunks.
LEMMA ChunksAre ==
    ASSUME Types, NEW f \in Files
    PROVE  /\ content[f] \in Seq(Chunks) /\ Len(content[f]) \in 0..MaxLen
           /\ \A i \in 1..Len(content[f]) : content[f][i] \in Chunks
           /\ DOMAIN content[f] = 1..Len(content[f])
BY ConstantsOK, LenProperties, ElementOfSeq DEF ConstantsOK, Types

---------------------------------------------------------------------------
(* One request moves at a time.                                             *)

Moved(w, j) == job' = [job EXCEPT ![w] = j] /\ j \in Job /\ JobOK(j)

LEMMA OneJobMoves ==
    ASSUME Types, Jobs, NEW w \in Workers, NEW j, Moved(w, j)
    PROVE  /\ job' \in [Workers -> Job] /\ Jobs'
           /\ job'[w] = j
           /\ \A x \in Workers : x # w => job'[x] = job[x]
<1>1. \A x \in Workers : job'[x] = IF x = w THEN j ELSE job[x]
  BY DEF Types, Moved
<1>2. job' \in [Workers -> Job]
  BY DEF Types, Moved
<1> QED
  BY <1>1, <1>2 DEF Jobs, Moved

LEMMA KindsAre ==
    ASSUME Types, Jobs, NEW w \in Workers
    PROVE  /\ job[w] \in Job /\ JobOK(job[w])
           /\ job[w].kind \in {"upload", "write", "move", "copy", "remove", "none"}
           /\ job[w].pc \in Steps \cup {"idle", "ok", "refused"}
BY ConstantsOK DEF ConstantsOK, Types, Jobs, Job

\* Where a request stands says which operation it is.
LEMMA StepSaysKind ==
    ASSUME Types, Jobs, NEW w \in Workers
    PROVE  /\ At(w, "open") => job[w].kind \in {"upload", "write"}
           /\ At(w, "write") => job[w].kind \in {"upload", "write"}
           /\ At(w, "abort") => job[w].kind = "upload"
           /\ At(w, "unlink") => job[w].kind = "remove"
           /\ At(w, "stat") => job[w].kind \in {"move", "copy"}
           /\ At(w, "rename") => job[w].kind = "move"
           /\ job[w].pc \in {"source", "link", "read", "create", "copy"} =>
                 job[w].kind = "copy"
           /\ At(w, "idle") <=> job[w].kind = "none"
           /\ At(w, "idle") => job[w] = Idle
BY KindsAre DEF JobOK, StepsOf, At

Refusal(j) == [j EXCEPT !.pc = "refused", !.len = 0, !.sent = 0, !.fd = None, !.src = None]

LEMMA RefuseMoves ==
    ASSUME Types, Jobs, NEW w \in Workers, job[w].kind # "none", Refuse(w)
    PROVE  Moved(w, Refusal(job[w]))
<1> DEFINE j == Refusal(job[w])
<1>1. /\ job[w] \in Job /\ JobOK(job[w])
      /\ job[w].kind \in {"upload", "write", "move", "copy", "remove"}
  BY KindsAre
<1>2. job' = [job EXCEPT ![w] = j]
  BY DEF Refuse, Refusal, Types
<1>3. /\ j.pc = "refused" /\ j.kind = job[w].kind /\ j.fd = None
      /\ j.name = job[w].name /\ j.to = job[w].to
      /\ j \in Job
  <2>1. 0 \in 0..MaxLen
    BY ConstantsOK DEF ConstantsOK
  <2> QED
    BY <1>1, <2>1 DEF Job, Refusal
<1>4. JobOK(j)
  BY <1>1, <1>3 DEF JobOK, StepsOf, Sending
<1> QED
  BY <1>2, <1>3, <1>4 DEF Moved

LEMMA GotoMoves ==
    ASSUME Types, Jobs, NEW w \in Workers, NEW step \in Steps \cup {"ok", "refused"},
           Goto(w, step),
           step \in StepsOf(job[w].kind),
           job[w].kind # "none",
           step \notin {"open", "stat", "create", "copy"},
           step \in {"source", "link", "read"} => job[w].sent = 0 /\ job[w].fd = None,
           Sending([job[w] EXCEPT !.pc = step]) => Sending(job[w])
    PROVE  Moved(w, [job[w] EXCEPT !.pc = step])
<1> DEFINE j == [job[w] EXCEPT !.pc = step]
<1>1. /\ job[w] \in Job /\ JobOK(job[w])
      /\ job[w].kind \in {"upload", "write", "move", "copy", "remove"}
  BY KindsAre
<1>2. job' = [job EXCEPT ![w] = j]
  BY DEF Goto, Types
<1>3. j \in Job /\ j.pc = step /\ j.kind = job[w].kind /\ j.fd = job[w].fd
      /\ j.name = job[w].name /\ j.to = job[w].to /\ j.sent = job[w].sent
      /\ j.len = job[w].len /\ j.src = job[w].src
  BY <1>1 DEF Job
<1>4. Sending(j) => Sending(job[w])
  OBVIOUS
<1> HIDE DEF j
<1>5. JobOK(j)
  BY <1>1, <1>3, <1>4 DEF JobOK
<1> QED
  BY <1>2, <1>3, <1>5 DEF j, Moved

Requested(kind, n, m, size) ==
    [Idle EXCEPT !.pc = FirstStep(kind), !.kind = kind, !.name = n, !.to = m, !.len = size]

LEMMA BeginMoves ==
    ASSUME Types, Jobs, NEW w \in Workers, NEW kind \in Kinds, NEW n \in Names,
           NEW m \in Names \cup {None}, NEW size \in 0..MaxLen,
           kind \in {"move", "copy"} => m \in Names,
           kind \in {"upload", "write"} => m = None,
           Begin(w, kind, n, m, size)
    PROVE  /\ Moved(w, Requested(kind, n, m, size))
           /\ Requested(kind, n, m, size).pc \notin {"write", "abort", "ok", "refused"}
           /\ Requested(kind, n, m, size).fd = None
<1> DEFINE j == Requested(kind, n, m, size)
<1>1. job' = [job EXCEPT ![w] = j]
  BY DEF Begin, Requested
<1>2. kind \in {"upload", "write", "move", "copy", "remove"}
  BY ConstantsOK DEF ConstantsOK
<1>3. /\ j.pc = FirstStep(kind) /\ j.kind = kind /\ j.name = n /\ j.to = m
      /\ j.len = size /\ j.sent = 0 /\ j.fd = None /\ j.src = None
  BY DEF Requested, Idle
<1>4. j \in Job
  <2>1. 0 \in 0..MaxLen
    BY ConstantsOK DEF ConstantsOK
  <2>2. FirstStep(kind) \in Steps \cup {"idle", "ok", "refused"}
    BY <1>2 DEF FirstStep, Steps
  <2>3. Idle \in [pc : Steps \cup {"idle", "ok", "refused"}, kind : Kinds \cup {"none"},
                  name : Names \cup {None}, to : Names \cup {None},
                  len : 0..MaxLen, sent : 0..MaxLen,
                  fd : Files \cup {None}, src : Files \cup {None}, twin : BOOLEAN]
    BY <2>1 DEF Idle
  <2> QED
    BY <2>2, <2>3 DEF Job, Requested
<1> HIDE DEF j
<1>5. JobOK(j) /\ j.pc \notin {"write", "abort", "ok", "refused"}
  BY <1>2, <1>3 DEF JobOK, StepsOf, FirstStep, Sending
<1> QED
  BY <1>1, <1>3, <1>4, <1>5 DEF Moved, j

\* An upload or a write opens the file that is there, or a fresh one.
LEMMA OpenMoves ==
    ASSUME Types, Jobs, NEW w \in Workers, OpenForWrite(w)
    PROVE  \/ \E n \in Names, f \in Files :
                 /\ entry[n] = f \/ (entry[n] = None /\ Fresh(f))
                 /\ entry' = [entry EXCEPT ![n] = f]
                 /\ content' = [content EXCEPT ![f] = <<>>]
                 /\ Moved(w, [job[w] EXCEPT !.pc = "write", !.fd = f, !.to = n,
                                            !.twin = Twin(f, n)])
           \/ UNCHANGED <<entry, content>> /\ Refuse(w)
<1>1. PICK n \in Names :
         LET Found == IF entry[n] = None THEN {f \in Files : Fresh(f)}
                                         ELSE {entry[n]} \cap Files
         IN \/ \E f \in Found :
                  /\ entry' = [entry EXCEPT ![n] = f]
                  /\ content' = [content EXCEPT ![f] = <<>>]
                  /\ job' = [job EXCEPT ![w].pc = "write", ![w].fd = f, ![w].to = n,
                                         ![w].twin = Twin(f, n)]
            \/ Refuse(w) /\ UNCHANGED <<entry, content>>
  BY DEF OpenForWrite
<1> DEFINE Found == IF entry[n] = None THEN {f \in Files : Fresh(f)}
                                       ELSE {entry[n]} \cap Files
<1>2. SUFFICES ASSUME NEW f \in Found,
                      entry' = [entry EXCEPT ![n] = f],
                      content' = [content EXCEPT ![f] = <<>>],
                      job' = [job EXCEPT ![w].pc = "write", ![w].fd = f, ![w].to = n,
                                         ![w].twin = Twin(f, n)]
               PROVE  Moved(w, [job[w] EXCEPT !.pc = "write", !.fd = f, !.to = n,
                                              !.twin = Twin(f, n)])
  BY <1>1
<1> DEFINE j == [job[w] EXCEPT !.pc = "write", !.fd = f, !.to = n, !.twin = Twin(f, n)]
<1>3. f \in Files /\ Twin(f, n) \in BOOLEAN
  BY DEF Twin
<1>4. job' = [job EXCEPT ![w] = j]
  BY <1>2 DEF Types
<1>5. /\ job[w] \in Job /\ JobOK(job[w]) /\ At(w, "open")
      /\ job[w].kind \in {"upload", "write"}
  BY KindsAre, StepSaysKind DEF OpenForWrite
<1>6. /\ j \in Job /\ j.pc = "write" /\ j.kind = job[w].kind /\ j.fd = f
      /\ j.name = job[w].name /\ j.to = n /\ j.sent = job[w].sent
      /\ j.len = job[w].len /\ j.src = job[w].src
  BY <1>3, <1>5 DEF Job, Steps
<1> HIDE DEF j
<1>7. j.sent = 0 /\ j.len \in 0..MaxLen
  BY <1>5, <1>6 DEF JobOK, At, Job
<1>8. JobOK(j)
  BY <1>3, <1>5, <1>6, <1>7, ConstantsOK DEF JobOK, StepsOf, ConstantsOK
<1> QED
  BY <1>4, <1>6, <1>8 DEF j, Moved

\* A chunk is stored in the file that is held and nowhere else.
LEMMA StoreMoves ==
    ASSUME Types, Jobs, NEW w \in Workers, NEW c \in Chunks, Store(w, c),
           job[w].pc \in {"write", "copy"}, job[w].sent < MaxLen,
           At(w, "write") => job[w].sent < job[w].len
    PROVE  /\ Moved(w, [job[w] EXCEPT !.sent = job[w].sent + 1])
           /\ job[w].fd \in Files /\ job[w].sent + 1 \in 1..MaxLen
           /\ content' \in [Files -> Seq(Chunks)]
           /\ content'[job[w].fd] = Stored(content[job[w].fd], job[w].sent + 1, c)
           /\ \A f \in Files : /\ f # job[w].fd => content'[f] = content[f]
                               /\ Len(content'[f]) <= MaxLen
<1> DEFINE k == job[w].sent + 1
           j == [job[w] EXCEPT !.sent = k]
           d == job[w].fd
<1>1. /\ job[w] \in Job /\ JobOK(job[w]) 
      /\ job[w].kind \in {"upload", "write", "copy"}
      /\ At(w, "write") => job[w].kind \in {"upload", "write"}
      /\ At(w, "copy") => job[w].kind = "copy"
  BY KindsAre, StepSaysKind DEF At
<1>2. d \in Files /\ job[w].sent \in 0..MaxLen /\ job[w].len \in 0..MaxLen
  BY <1>1 DEF JobOK, Sending, Job, At
<1>3. k \in 1..MaxLen /\ k \in Nat \ {0} /\ (At(w, "write") => k <= job[w].len)
  BY <1>2, ConstantsOK DEF ConstantsOK
<1>4. job' = [job EXCEPT ![w] = j]
  BY DEF Store, Types
<1>5. /\ j \in Job /\ j.pc = job[w].pc /\ j.kind = job[w].kind /\ j.fd = d
      /\ j.name = job[w].name /\ j.to = job[w].to /\ j.sent = k
      /\ j.len = job[w].len /\ j.src = job[w].src
  <2>1. k \in 0..MaxLen
    BY <1>3
  <2> QED
    BY <1>1, <2>1 DEF Job
<1> HIDE DEF j
<1>6. JobOK(j)
  BY <1>1, <1>2, <1>3, <1>5 DEF JobOK, StepsOf, Sending, At
<1>7. content' = [content EXCEPT ![d] = Stored(content[d], k, c)]
  BY <1>2 DEF Store, Types
<1> HIDE DEF d, k
<1>8. /\ Stored(content[d], k, c) \in Seq(Chunks)
      /\ Len(Stored(content[d], k, c)) <= MaxLen
  <2>1. content[d] \in Seq(Chunks) /\ Len(content[d]) \in 0..MaxLen
    BY <1>2, ChunksAre
  <2>2. /\ Stored(content[d], k, c) \in Seq(Chunks)
        /\ Len(Stored(content[d], k, c)) = IF k > Len(content[d]) THEN k ELSE Len(content[d])
    BY <1>3, <2>1, StoredShape
  <2> QED
    BY <1>3, <2>1, <2>2
<1>9. /\ content' \in [Files -> Seq(Chunks)]
      /\ content'[d] = Stored(content[d], k, c)
      /\ \A f \in Files : f # d => content'[f] = content[f]
  BY <1>2, <1>7, <1>8 DEF Types
<1>10. \A f \in Files : Len(content'[f]) <= MaxLen
  BY <1>8, <1>9 DEF Types
<1> QED
  BY <1>2, <1>3, <1>4, <1>5, <1>6, <1>9, <1>10 DEF j, k, d, Moved

\* A copy is created where nothing is, in a file nobody has.
LEMMA CreateMoves ==
    ASSUME Types, Jobs, NEW w \in Workers, CreateCopy(w)
    PROVE  \/ \E f \in Files :
                 /\ entry[job[w].to] = None /\ Fresh(f)
                 /\ entry' = [entry EXCEPT ![job[w].to] = f]
                 /\ content' = [content EXCEPT ![f] = <<>>]
                 /\ Moved(w, [job[w] EXCEPT !.pc = "copy", !.fd = f])
           \/ UNCHANGED <<entry, content>> /\ Refuse(w)
<1>1. SUFFICES ASSUME NEW f \in Files, entry[job[w].to] = None, Fresh(f),
                      entry' = [entry EXCEPT ![job[w].to] = f],
                      content' = [content EXCEPT ![f] = <<>>],
                      job' = [job EXCEPT ![w].pc = "copy", ![w].fd = f]
               PROVE  Moved(w, [job[w] EXCEPT !.pc = "copy", !.fd = f])
  BY DEF CreateCopy
<1> DEFINE j == [job[w] EXCEPT !.pc = "copy", !.fd = f]
<1>2. job' = [job EXCEPT ![w] = j]
  BY <1>1 DEF Types
<1>3. job[w] \in Job /\ JobOK(job[w]) /\ job[w].pc = "create" /\ job[w].kind = "copy"
  BY KindsAre, StepSaysKind DEF CreateCopy, At
<1>4. /\ j \in Job /\ j.pc = "copy" /\ j.kind = "copy" /\ j.fd = f
      /\ j.name = job[w].name /\ j.to = job[w].to /\ j.sent = job[w].sent
      /\ j.len = job[w].len /\ j.src = job[w].src
  BY <1>3 DEF Job, Steps
<1>5. job[w].src # f
  BY <1>1 DEF Fresh
<1> HIDE DEF j
<1>6. JobOK(j)
  BY <1>3, <1>4, <1>5 DEF JobOK, StepsOf, Sending
<1> QED
  BY <1>2, <1>4, <1>6 DEF j, Moved

\* A response takes no file away that has a name, and none of its chunks but
\* those of the request, which are old from now on.
LEMMA ReplyLeaves ==
    ASSUME Types, NEW w \in Workers, Reply(w)
    PROVE  /\ content' \in [Files -> Seq(Chunks)]
           /\ \A f \in Files : Len(content'[f]) <= MaxLen
           /\ \A f \in Files : \A i \in 1..Len(content'[f]) :
                 /\ i \in 1..Len(content[f])
                 /\ content'[f][i] = IF content[f][i] \in {w, Torn} THEN Old ELSE content[f][i]
<1> DEFINE Gone(f) == /\ \A n \in Names : entry[n] # f
                      /\ \A x \in Workers \ {w} : f \notin {job[x].fd, job[x].src}
           aged(f) == [i \in DOMAIN content[f] |->
                          IF content[f][i] \in {w, Torn} THEN Old ELSE content[f][i]]
<1>1. content' = [f \in Files |-> IF Gone(f) THEN <<>> ELSE aged(f)]
  BY DEF Reply
<1> HIDE DEF Gone
<1>2. ASSUME NEW f \in Files
      PROVE  /\ aged(f) \in Seq(Chunks) /\ Len(aged(f)) = Len(content[f])
             /\ \A i \in 1..Len(content[f]) :
                   aged(f)[i] = IF content[f][i] \in {w, Torn} THEN Old ELSE content[f][i]
  <2> DEFINE n == Len(content[f])
  <2>1. /\ n \in Nat /\ DOMAIN content[f] = 1..n
        /\ \A i \in 1..n : content[f][i] \in Chunks
    BY ChunksAre, ConstantsOK DEF ConstantsOK
  <2> HIDE DEF n
  <2>2. \A i \in 1..n : (IF content[f][i] \in {w, Torn} THEN Old ELSE content[f][i]) \in Chunks
    BY <2>1 DEF Chunks
  <2>3. aged(f) \in [1..n -> Chunks]
    BY <2>1, <2>2
  <2>4. aged(f) \in Seq(Chunks) /\ Len(aged(f)) = n
    BY <2>1, <2>3, SeqDef, LenProperties
  <2> QED
    BY <2>1, <2>4 DEF n
<1> HIDE DEF aged
<1>3. <<>> \in Seq(Chunks) /\ Len(<<>>) = 0
  BY EmptySeq
<1>4. MaxLen \in Nat
  BY ConstantsOK DEF ConstantsOK
<1>5. content' \in [Files -> Seq(Chunks)]
  BY <1>1, <1>2, <1>3
<1>6. ASSUME NEW f \in Files
      PROVE  /\ Len(content'[f]) <= MaxLen
             /\ \A i \in 1..Len(content'[f]) :
                   /\ i \in 1..Len(content[f])
                   /\ content'[f][i] = IF content[f][i] \in {w, Torn} THEN Old ELSE content[f][i]
  <2>1. CASE Gone(f)
    BY <1>1, <1>3, <1>4, <2>1
  <2>2. CASE ~Gone(f)
    <3>1. content'[f] = aged(f)
      BY <1>1, <2>2
    <3> QED
      BY <1>2, <3>1 DEF Types
  <2> QED
    BY <2>1, <2>2
<1> QED
  BY <1>5, <1>6

---------------------------------------------------------------------------
(* Types.                                                                   *)

Entries == [Names -> Files \cup Links \cup {None}]
Contents == {c \in [Files -> Seq(Chunks)] : \A f \in Files : Len(c[f]) <= MaxLen}

\* A step of a request moves that request only, and leaves a directory and files.
LEMMA WorkShape ==
    ASSUME Types, Jobs, NEW w \in Workers, Work(w)
    PROVE  /\ entry' \in Entries /\ content' \in Contents
           /\ \E j : Moved(w, j)
<1> DEFINE j == job[w]
           Goal == /\ entry' \in Entries /\ content' \in Contents
                   /\ \E jj : Moved(w, jj)
<1> USE ConstantsOK DEF ConstantsOK
<1>a. /\ entry \in Entries /\ content \in Contents
      /\ j \in Job /\ JobOK(j)
      /\ j.kind \in {"upload", "write", "move", "copy", "remove", "none"}
  BY KindsAre DEF Types, Entries, Contents
<1>b. ASSUME j.kind # "none", Refuse(w) PROVE \E jj : Moved(w, jj)
  BY <1>b, RefuseMoves
<1>c. <<>> \in Seq(Chunks) /\ Len(<<>>) <= MaxLen
  BY EmptySeq
<1>d. \A n \in Names, x \in Files \cup Links \cup {None} : [entry EXCEPT ![n] = x] \in Entries
  BY <1>a DEF Entries
<1>e. \A f \in Files : [content EXCEPT ![f] = <<>>] \in Contents
  BY <1>a, <1>c DEF Contents
<1> SUFFICES Goal
  OBVIOUS
<1> HIDE DEF Goal
<1>1. CASE OpenForWrite(w)
  <2>1. CASE UNCHANGED <<entry, content>> /\ Refuse(w)
    <3>1. j.kind # "none"
      BY <1>1, StepSaysKind DEF OpenForWrite
    <3> QED
      BY <1>a, <1>b, <2>1, <3>1 DEF Goal
  <2>2. CASE \E n \in Names, f \in Files :
                 /\ entry[n] = f \/ (entry[n] = None /\ Fresh(f))
                 /\ entry' = [entry EXCEPT ![n] = f]
                 /\ content' = [content EXCEPT ![f] = <<>>]
                 /\ Moved(w, [job[w] EXCEPT !.pc = "write", !.fd = f, !.to = n,
                                            !.twin = Twin(f, n)])
    <3>1. PICK n \in Names, f \in Files :
                 /\ entry' = [entry EXCEPT ![n] = f]
                 /\ content' = [content EXCEPT ![f] = <<>>]
                 /\ Moved(w, [job[w] EXCEPT !.pc = "write", !.fd = f, !.to = n,
                                            !.twin = Twin(f, n)])
      BY <2>2
    <3>2. entry' \in Entries /\ content' \in Contents
      BY <1>d, <1>e, <3>1
    <3>3. \E jj : Moved(w, jj)
      BY <3>1
    <3> QED
      BY <3>2, <3>3 DEF Goal
  <2> QED
    BY <1>1, <2>1, <2>2, OpenMoves
<1>2. ASSUME NEW c \in Chunks, Store(w, c), UNCHANGED entry,
             j.pc \in {"write", "copy"}, j.sent < MaxLen,
             At(w, "write") => j.sent < j.len
      PROVE  Goal
  <2>1. /\ Moved(w, [job[w] EXCEPT !.sent = job[w].sent + 1])
        /\ content' \in [Files -> Seq(Chunks)]
        /\ \A f \in Files : Len(content'[f]) <= MaxLen
    BY <1>2, StoreMoves
  <2> QED
    BY <1>2, <1>a, <2>1 DEF Goal, Contents
<1>3. ASSUME NEW step \in {"ok", "abort"}, Goto(w, step), At(w, "write"), UNCHANGED <<entry, content>>,
             step = "abort" => j.kind = "upload"
      PROVE  Goal
  <2>1. j.kind \in {"upload", "write"}
    BY <1>3, StepSaysKind
  <2>2. [job[w] EXCEPT !.pc = step].pc = step /\ [job[w] EXCEPT !.pc = step].kind = j.kind
    BY <1>a DEF Job
  <2>3. Sending(j)
    BY <1>3, <2>1 DEF Sending, At
  <2>4. step \in StepsOf(j.kind)
    BY <1>3, <2>1 DEF StepsOf
  <2>5. Moved(w, [job[w] EXCEPT !.pc = step])
    BY <1>3, <2>1, <2>3, <2>4, GotoMoves DEF Steps
  <2> QED
    BY <1>3, <1>a, <2>5 DEF Goal
<1>4. w \in Chunks /\ Torn \in Chunks
  BY DEF Chunks
<1>5. At(w, "write") => j.sent \in 0..MaxLen /\ j.len \in 0..MaxLen /\ j.sent <= j.len
                        /\ (j.sent < j.len => j.sent < MaxLen)
  <2>1. At(w, "write") => Sending(j)
    BY StepSaysKind DEF Sending, At
  <2> QED
    BY <1>a, <2>1 DEF JobOK, Job
<1>6. CASE UploadChunk(w)
  <2>1. /\ At(w, "write") /\ j.kind = "upload" /\ UNCHANGED entry
        /\ \/ Goto(w, "ok") /\ UNCHANGED content
           \/ Goto(w, "abort") /\ UNCHANGED content
           \/ j.sent < j.len /\ Store(w, w)
           \/ j.sent < j.len /\ Store(w, Torn)
    BY <1>6 DEF UploadChunk
  <2>2. CASE Goto(w, "ok") /\ UNCHANGED content
    BY <1>3, <2>1, <2>2
  <2>3. CASE Goto(w, "abort") /\ UNCHANGED content
    BY <1>3, <2>1, <2>3
  <2>4. ASSUME NEW c \in Chunks, j.sent < j.len, Store(w, c) PROVE Goal
    <3>1. j.pc \in {"write", "copy"} /\ j.sent < MaxLen
      BY <1>5, <2>1, <2>4 DEF At
    <3> QED
      BY <1>2, <2>1, <2>4, <3>1
  <2> QED
    BY <1>4, <2>1, <2>2, <2>3, <2>4
<1>7. CASE WriteChunk(w)
  <2>1. /\ At(w, "write") /\ j.kind = "write" /\ UNCHANGED entry
        /\ \/ Goto(w, "ok") /\ UNCHANGED content
           \/ Refuse(w) /\ UNCHANGED content
           \/ j.sent < j.len /\ Store(w, w)
    BY <1>7 DEF WriteChunk
  <2>2. CASE Refuse(w) /\ UNCHANGED content
    BY <1>a, <1>b, <2>1, <2>2 DEF Goal
  <2>3. CASE Goto(w, "ok") /\ UNCHANGED content
    BY <1>3, <2>1, <2>3
  <2>4. CASE j.sent < j.len /\ Store(w, w)
    <3>1. j.pc \in {"write", "copy"} /\ j.sent < MaxLen
      BY <1>5, <2>1, <2>4 DEF At
    <3> QED
      BY <1>2, <1>4, <2>1, <2>4, <3>1
  <2> QED
    BY <2>1, <2>2, <2>3, <2>4
<1>8. CASE Abort(w)
  <2>1. j.kind = "upload" /\ j.name \in Names
    BY <1>8, <1>a, StepSaysKind DEF Abort, JobOK
  <2> QED
    BY <1>8, <1>a, <1>b, <1>d, <2>1 DEF Abort, Goal
<1>9. ASSUME NEW step \in {"ok", "rename", "source", "link", "read"}, Goto(w, step),
             j.kind \in {"move", "copy", "remove"}, step \in StepsOf(j.kind),
             step \in {"source", "link", "read"} => j.pc \in {"stat", "source"}
      PROVE  \E jj : Moved(w, jj)
  <2>1. [job[w] EXCEPT !.pc = step].kind = j.kind
    BY <1>a DEF Job
  <2>2. step \in {"source", "link", "read"} => j.sent = 0 /\ j.fd = None
    BY <1>9, <1>a DEF JobOK
  <2>3. Moved(w, [job[w] EXCEPT !.pc = step])
    BY <1>9, <2>1, <2>2, GotoMoves DEF Steps, Sending
  <2> QED
    BY <2>3
<1>10. CASE Unlink(w)
  <2>1. j.kind = "remove" /\ j.name \in Names
    BY <1>10, <1>a, StepSaysKind DEF Unlink, JobOK
  <2>2. "ok" \in StepsOf(j.kind)
    BY <2>1 DEF StepsOf
  <2>3. \E jj : Moved(w, jj)
    BY <1>9, <1>10, <1>b, <2>1, <2>2 DEF Unlink
  <2> QED
    BY <1>10, <1>a, <1>d, <2>1, <2>3 DEF Unlink, Goal
<1>11. CASE StatTarget(w)
  <2>1. j.kind \in {"move", "copy"}
    BY <1>11, StepSaysKind DEF StatTarget
  <2>2. (j.kind = "move" => "rename" \in StepsOf(j.kind))
        /\ (j.kind = "copy" => "source" \in StepsOf(j.kind))
    BY <2>1 DEF StepsOf
  <2>3. /\ j.pc = "stat" /\ UNCHANGED <<entry, content>>
        /\ Refuse(w) \/ Goto(w, IF j.kind = "move" THEN "rename" ELSE "source")
    BY <1>11 DEF StatTarget, At
  <2>4. CASE Refuse(w)
    BY <1>b, <1>a, <2>1, <2>3, <2>4 DEF Goal
  <2>5. CASE j.kind = "move" /\ Goto(w, "rename")
    BY <1>9, <1>a, <2>1, <2>2, <2>3, <2>5 DEF Goal
  <2>6. CASE j.kind = "copy" /\ Goto(w, "source")
    BY <1>9, <1>a, <2>1, <2>2, <2>3, <2>6 DEF Goal
  <2> QED
    BY <2>1, <2>3, <2>4, <2>5, <2>6
<1>12. CASE Rename(w)
  <2>1. j.kind = "move" /\ j.name \in Names /\ j.to \in Names
    BY <1>12, <1>a, StepSaysKind DEF Rename, JobOK
  <2>2. "ok" \in StepsOf(j.kind)
    BY <2>1 DEF StepsOf
  <2>3. \E jj : Moved(w, jj)
    BY <1>9, <1>12, <1>b, <2>1, <2>2 DEF Rename
  <2>4. entry' \in Entries
    BY <1>12, <1>a, <2>1 DEF Rename, Entries
  <2> QED
    BY <1>12, <1>a, <2>3, <2>4 DEF Rename, Goal
<1>13. CASE StatSource(w)
  <2>1. j.kind = "copy"
    BY <1>13, StepSaysKind DEF StatSource, At
  <2>2. "link" \in StepsOf(j.kind) /\ "read" \in StepsOf(j.kind)
    BY <2>1 DEF StepsOf
  <2>3. /\ j.pc = "source" /\ UNCHANGED <<entry, content>>
        /\ Refuse(w) \/ Goto(w, "link") \/ Goto(w, "read")
    BY <1>13 DEF StatSource, At
  <2>4. \E jj : Moved(w, jj)
    BY <1>9, <1>b, <2>1, <2>2, <2>3
  <2> QED
    BY <1>a, <2>3, <2>4 DEF Goal
<1>14. CASE CopyLink(w)
  <2>1. j.kind = "copy" /\ j.name \in Names /\ j.to \in Names
    BY <1>14, <1>a, StepSaysKind DEF CopyLink, JobOK, At
  <2>2. "ok" \in StepsOf(j.kind)
    BY <2>1 DEF StepsOf
  <2>3. \E jj : Moved(w, jj)
    BY <1>9, <1>14, <1>b, <2>1, <2>2 DEF CopyLink
  <2>4. entry' \in Entries
    BY <1>14, <1>a, <2>1 DEF CopyLink, Entries
  <2> QED
    BY <1>14, <1>a, <2>3, <2>4 DEF CopyLink, Goal
<1>15. CASE OpenSource(w)
  <2> DEFINE x == entry[j.name]
             k == [j EXCEPT !.pc = "create", !.src = x]
  <2>1. j.kind = "copy" /\ j.pc = "read"
    BY <1>15, StepSaysKind DEF OpenSource, At
  <2>2. ASSUME x \in Files, job' = [job EXCEPT ![w].pc = "create", ![w].src = x]
        PROVE  Moved(w, k)
    <3>1. job' = [job EXCEPT ![w] = k]
      BY <2>2 DEF Types
    <3>2. /\ k \in Job /\ k.pc = "create" /\ k.kind = "copy" /\ k.src = x
          /\ k.name = j.name /\ k.to = j.to /\ k.sent = j.sent /\ k.fd = j.fd
      BY <1>a, <2>1, <2>2 DEF Job, Steps
    <3> HIDE DEF k
    <3>3. JobOK(k)
      BY <1>a, <2>1, <2>2, <3>2 DEF JobOK, StepsOf, Sending
    <3> QED
      BY <3>1, <3>2, <3>3 DEF Moved
  <2>3. \E jj : Moved(w, jj)
    BY <1>15, <1>b, <2>1, <2>2 DEF OpenSource
  <2> QED
    BY <1>15, <1>a, <2>3 DEF OpenSource, Goal
<1>16. CASE CreateCopy(w)
  <2>1. j.kind = "copy"
    BY <1>16, StepSaysKind DEF CreateCopy, At
  <2>2. CASE Refuse(w) /\ UNCHANGED <<entry, content>>
    BY <1>a, <1>b, <2>1, <2>2 DEF Goal
  <2>3. CASE \E f \in Files :
                /\ entry[j.to] = None /\ Fresh(f)
                /\ entry' = [entry EXCEPT ![j.to] = f]
                /\ content' = [content EXCEPT ![f] = <<>>]
                /\ Moved(w, [j EXCEPT !.pc = "copy", !.fd = f])
    <3>1. j.to \in Names
      BY <1>a, <2>1 DEF JobOK
    <3>2. Goal
      <4>1. PICK f \in Files :
                /\ entry' = [entry EXCEPT ![j.to] = f]
                /\ content' = [content EXCEPT ![f] = <<>>]
                /\ Moved(w, [j EXCEPT !.pc = "copy", !.fd = f])
        BY <2>3
      <4>2. entry' \in Entries /\ content' \in Contents
        BY <1>d, <1>e, <3>1, <4>1
      <4>3. \E jj : Moved(w, jj)
        BY <4>1
      <4> QED
        BY <4>2, <4>3 DEF Goal
    <3> QED
      BY <3>2
  <2> QED
    BY <1>16, <2>2, <2>3, CreateMoves
<1>17. CASE CopyChunk(w)
  <2>1. j.kind = "copy" /\ j.pc = "copy" /\ j.src \in Files
    BY <1>17, <1>a, StepSaysKind DEF CopyChunk, At, JobOK
  <2>2. "ok" \in StepsOf(j.kind)
    BY <2>1 DEF StepsOf
  <2>3. /\ UNCHANGED entry
        /\ \/ Goto(w, "ok") /\ UNCHANGED content
           \/ Refuse(w) /\ UNCHANGED content
           \/ /\ j.sent < Len(content[j.src])
              /\ Store(w, content[j.src][j.sent + 1])
    BY <1>17 DEF CopyChunk
  <2>4. CASE Goto(w, "ok") /\ UNCHANGED content
    BY <1>9, <1>a, <2>1, <2>2, <2>3, <2>4 DEF Goal
  <2>5. CASE Refuse(w) /\ UNCHANGED content
    BY <1>b, <1>a, <2>1, <2>3, <2>5 DEF Goal
  <2>6. CASE /\ j.sent < Len(content[j.src])
             /\ Store(w, content[j.src][j.sent + 1])
    <3>1. /\ Len(content[j.src]) \in 0..MaxLen
          /\ \A i \in 1..Len(content[j.src]) : content[j.src][i] \in Chunks
      BY <2>1, ChunksAre
    <3>2. j.sent \in 0..MaxLen
      BY <1>a DEF Job
    <3>3. j.sent + 1 \in 1..Len(content[j.src]) /\ j.sent < MaxLen
      BY <2>6, <3>1, <3>2
    <3>4. content[j.src][j.sent + 1] \in Chunks
      BY <3>1, <3>3
    <3>5. At(w, "write") => j.sent < j.len
      BY <2>1 DEF At
    <3> DEFINE c == content[j.src][j.sent + 1]
    <3>6. c \in Chunks /\ Store(w, c)
      BY <2>6, <3>4
    <3> HIDE DEF c
    <3> QED
      BY <1>2, <2>1, <2>3, <3>3, <3>5, <3>6
  <2> QED
    BY <2>3, <2>4, <2>5, <2>6
<1>18. CASE Reply(w)
  <2>1. j.pc \in {"ok", "refused"} /\ job' = [job EXCEPT ![w] = Idle] /\ UNCHANGED entry
    BY <1>18 DEF Reply
  <2>2. Moved(w, Idle)
    <3>1. Idle \in Job
      BY DEF Idle, Job
    <3>2. JobOK(Idle)
      BY DEF Idle, JobOK, StepsOf, Sending
    <3> QED
      BY <2>1, <3>1, <3>2 DEF Moved
  <2>3. content' \in Contents
    BY <1>18, ReplyLeaves DEF Contents
  <2> QED
    BY <1>a, <2>1, <2>2, <2>3 DEF Goal
<1> QED
  BY <1>1, <1>6, <1>7, <1>8, <1>10, <1>11, <1>12, <1>13, <1>14, <1>15, <1>16, <1>17, <1>18
     DEF Work

\* A request names what its operation needs.
LEMMA RequestIs ==
    ASSUME Request
    PROVE  \E w \in Workers, kind \in Kinds, n \in Names, m \in Names \cup {None},
              size \in 0..MaxLen :
              /\ kind \in {"move", "copy"} => m \in Names
              /\ kind \in {"upload", "write"} => m = None
              /\ Begin(w, kind, n, m, size)
<1>1. PICK w \in Workers, kind \in Kinds, n \in Names :
         IF kind \in {"upload", "write"}
         THEN \E size \in 1..MaxLen : Begin(w, kind, n, None, size)
         ELSE IF kind = "remove" THEN Begin(w, kind, n, None, 0)
         ELSE \E m \in Names : Begin(w, kind, n, m, 0)
  BY DEF Request
<1>2. 0 \in 0..MaxLen /\ 1..MaxLen \subseteq 0..MaxLen
  BY ConstantsOK DEF ConstantsOK
<1>3. CASE kind \in {"upload", "write"}
  <2>1. PICK size \in 1..MaxLen : Begin(w, kind, n, None, size)
    BY <1>1, <1>3
  <2>2. kind \notin {"move", "copy"} /\ size \in 0..MaxLen
    BY <1>2, <1>3
  <2> QED
    BY <2>1, <2>2
<1>4. CASE kind = "remove"
  BY <1>1, <1>2, <1>4
<1>5. CASE kind \notin {"upload", "write"} /\ kind # "remove"
  BY <1>1, <1>2, <1>5
<1> QED
  BY <1>3, <1>4, <1>5

LEMMA StepKeepsTypes == Types /\ Jobs /\ [Next]_vars => Types' /\ Jobs'
<1> SUFFICES ASSUME Types, Jobs, [Next]_vars PROVE Types' /\ Jobs'
  OBVIOUS
<1>1. ASSUME NEW w \in Workers, NEW j, Moved(w, j), entry' \in Entries,
             content' \in Contents, alone' \in Workers \cup {None}
      PROVE  Types' /\ Jobs'
  <2>1. job' \in [Workers -> Job] /\ Jobs'
    BY <1>1, OneJobMoves
  <2> QED
    BY <1>1, <2>1 DEF Types, Entries, Contents
<1>2. entry \in Entries /\ content \in Contents
  BY DEF Types, Entries, Contents
<1>3. CASE Request
  <2>1. PICK w \in Workers, kind \in Kinds, n \in Names, m \in Names \cup {None},
             size \in 0..MaxLen :
              /\ kind \in {"move", "copy"} => m \in Names
              /\ kind \in {"upload", "write"} => m = None
              /\ Begin(w, kind, n, m, size)
    BY <1>3, RequestIs
  <2>2. Moved(w, Requested(kind, n, m, size))
    BY <2>1, BeginMoves
  <2>3. UNCHANGED <<entry, content>> /\ alone' \in Workers \cup {None}
    BY <2>1 DEF Begin
  <2> QED
    BY <1>1, <1>2, <2>2, <2>3
<1>4. ASSUME NEW w \in Workers, Work(w), alone' = IF alone = w THEN w ELSE None
      PROVE  Types' /\ Jobs'
  <2>1. PICK j : Moved(w, j)
    BY <1>4, WorkShape
  <2>2. entry' \in Entries /\ content' \in Contents
    BY <1>4, WorkShape
  <2> QED
    BY <1>1, <1>4, <2>1, <2>2
<1>5. CASE Shell /\ alone' = None
  <2>1. job' = job /\ entry' \in Entries /\ content' \in Contents
    <3>1. PICK n \in ShellNames :
             \/ \E x \in Files \cup Links : ShellCreates(n, x)
             \/ ShellRemoves(n)
             \/ \E m \in Names : ShellRenames(n, m)
             \/ \E m \in Names : ShellLinks(n, m)
      BY <1>5 DEF Shell
    <3>2. n \in Names
      BY ConstantsOK DEF ConstantsOK
    <3>3. CASE \E x \in Files \cup Links : ShellCreates(n, x)
      <4>1. PICK x \in Files \cup Links : ShellCreates(n, x)
        BY <3>3
      <4>2. <<Old>> \in Seq(Chunks) /\ Len(<<Old>>) <= MaxLen
        BY ConstantsOK DEF ConstantsOK, Chunks
      <4>3. content' \in Contents
        BY <1>2, <4>1, <4>2 DEF ShellCreates, Contents
      <4> QED
        BY <1>2, <3>2, <4>1, <4>3 DEF ShellCreates, Entries
    <3>4. CASE ShellRemoves(n)
      BY <1>2, <3>2, <3>4 DEF ShellRemoves, Entries
    <3>5. CASE \E m \in Names : ShellRenames(n, m)
      BY <1>2, <3>2, <3>5 DEF ShellRenames, Entries
    <3>6. CASE \E m \in Names : ShellLinks(n, m)
      BY <1>2, <3>2, <3>6 DEF ShellLinks, Entries
    <3> QED
      BY <3>1, <3>3, <3>4, <3>5, <3>6
  <2> QED
    BY <1>5, <2>1 DEF Types, Jobs, Entries, Contents
<1>6. CASE UNCHANGED vars
  BY <1>6 DEF vars, Types, Jobs
<1> QED
  BY <1>3, <1>4, <1>5, <1>6 DEF Next

---------------------------------------------------------------------------
(* Whose chunks there are.                                                  *)

LEMMA StoredHas ==
    ASSUME Types, Jobs, NEW w \in Workers, NEW c \in Chunks, Store(w, c),
           job[w].pc \in {"write", "copy"}, job[w].sent < MaxLen,
           At(w, "write") => job[w].sent < job[w].len,
           NEW f \in Files, NEW v \in Workers, Has(f, v)'
    PROVE  Has(f, v) \/ (f = job[w].fd /\ v = c)
<1> DEFINE d == job[w].fd
           k == job[w].sent + 1
           s == content[d]
<1>1. /\ d \in Files /\ k \in 1..MaxLen
      /\ content'[d] = Stored(s, k, c)
      /\ f # d => content'[f] = content[f]
  BY StoreMoves
<1>2. PICK i \in 1..Len(content'[f]) : content'[f][i] = v
  BY DEF Has
<1>3. CASE f # d
  BY <1>1, <1>2, <1>3 DEF Has
<1>4. CASE f = d
  <2>1. s \in Seq(Chunks) /\ Len(s) \in Nat
    BY <1>1, ChunksAre, ConstantsOK DEF ConstantsOK
  <2>2. k \in Nat \ {0}
    BY <1>1, ConstantsOK DEF ConstantsOK
  <2> HIDE DEF s, k
  <2>3. /\ Len(Stored(s, k, c)) = IF k > Len(s) THEN k ELSE Len(s)
        /\ Stored(s, k, c)[k] = c
        /\ \A x \in 1..Len(s) : x # k => Stored(s, k, c)[x] = s[x]
        /\ \A x \in 1..Len(Stored(s, k, c)) : x # k /\ x > Len(s) => Stored(s, k, c)[x] = Torn
    <3>1. Len(Stored(s, k, c)) = IF k > Len(s) THEN k ELSE Len(s)
      BY <2>1, <2>2, StoredShape
    <3>2. Stored(s, k, c)[k] = c
      BY <2>1, <2>2, StoredShape
    <3>3. \A x \in 1..Len(s) : x # k => Stored(s, k, c)[x] = s[x]
      BY <2>1, <2>2, StoredShape
    <3>4. \A x \in 1..Len(Stored(s, k, c)) :
             x # k /\ x > Len(s) => Stored(s, k, c)[x] = Torn
      BY <2>1, <2>2, StoredShape
    <3> QED
      BY <3>1, <3>2, <3>3, <3>4
  <2>4. v # Torn
    BY ConstantsOK DEF ConstantsOK
  <2>5. v = c \/ (i \in 1..Len(s) /\ s[i] = v)
    BY <1>1, <1>2, <1>4, <2>1, <2>2, <2>3, <2>4
  <2> QED
    BY <1>4, <2>5 DEF Has, s, d
<1> QED
  BY <1>3, <1>4

\* Only a response ends a request.
LEMMA WorkGoesOn ==
    ASSUME Types, Jobs, NEW w \in Workers, Work(w)
    PROVE  /\ job[w].pc # "idle"
           /\ ~Reply(w) => /\ job'[w].kind = job[w].kind /\ job'[w].name = job[w].name
                           /\ job'[w].pc # "idle"
<1> DEFINE Goal == /\ job[w].pc # "idle"
                   /\ ~Reply(w) => /\ job'[w].kind = job[w].kind
                                   /\ job'[w].name = job[w].name
                                   /\ job'[w].pc # "idle"
<1> SUFFICES Goal
  OBVIOUS
<1>1. job[w] \in Job /\ job \in [Workers -> Job]
  BY KindsAre DEF Types
<1>a. ASSUME Refuse(w), job[w].pc # "idle" PROVE Goal
  <2>1. job'[w] = Refusal(job[w])
    BY <1>1, <1>a DEF Refuse, Refusal
  <2>2. /\ Refusal(job[w]).kind = job[w].kind /\ Refusal(job[w]).name = job[w].name
        /\ Refusal(job[w]).pc = "refused"
    BY <1>1 DEF Refusal, Job
  <2> QED
    BY <1>a, <2>1, <2>2
<1>b. ASSUME NEW step, step # "idle", Goto(w, step), job[w].pc # "idle" PROVE Goal
  BY <1>1, <1>b DEF Goto, Job
<1>c. ASSUME NEW c, Store(w, c), job[w].pc # "idle" PROVE Goal
  BY <1>1, <1>c DEF Store, Job
<1>2. CASE OpenForWrite(w)
  <2>1. job[w].pc # "idle"
    BY <1>2 DEF OpenForWrite, At
  <2>2. ASSUME NEW f, NEW n,
               job' = [job EXCEPT ![w].pc = "write", ![w].fd = f, ![w].to = n,
                                  ![w].twin = Twin(f, n)]
        PROVE  Goal
    BY <1>1, <2>1, <2>2 DEF Job
  <2> HIDE DEF Goal
  <2> QED
    BY <1>2, <1>a, <2>1, <2>2 DEF OpenForWrite
<1>11. CASE OpenSource(w)
  <2>1. job[w].pc # "idle"
    BY <1>11 DEF OpenSource, At
  <2>2. ASSUME NEW f, job' = [job EXCEPT ![w].pc = "create", ![w].src = f]
        PROVE  Goal
    BY <1>1, <2>1, <2>2 DEF Job
  <2> HIDE DEF Goal
  <2> QED
    BY <1>11, <1>a, <2>1, <2>2 DEF OpenSource
<1>12. CASE CreateCopy(w)
  <2>1. job[w].pc # "idle"
    BY <1>12 DEF CreateCopy, At
  <2>2. ASSUME NEW f, job' = [job EXCEPT ![w].pc = "copy", ![w].fd = f]
        PROVE  Goal
    BY <1>1, <2>1, <2>2 DEF Job
  <2> HIDE DEF Goal
  <2> QED
    BY <1>12, <1>a, <2>1, <2>2 DEF CreateCopy
<1> HIDE DEF Goal
<1>3. CASE UploadChunk(w)
  BY <1>3, <1>b, <1>c DEF UploadChunk, At
<1>4. CASE Abort(w)
  BY <1>4, <1>a DEF Abort, At
<1>5. CASE WriteChunk(w)
  BY <1>5, <1>a, <1>b, <1>c DEF WriteChunk, At
<1>6. CASE Unlink(w)
  BY <1>6, <1>a, <1>b DEF Unlink, At
<1>7. CASE StatTarget(w)
  BY <1>7, <1>a, <1>b DEF StatTarget, At
<1>8. CASE Rename(w)
  BY <1>8, <1>a, <1>b DEF Rename, At
<1>9. CASE StatSource(w)
  BY <1>9, <1>a, <1>b DEF StatSource, At
<1>10. CASE CopyLink(w)
  BY <1>10, <1>a, <1>b DEF CopyLink, At
<1>13. CASE CopyChunk(w)
  BY <1>13, <1>a, <1>b, <1>c DEF CopyChunk, At
<1>14. CASE Reply(w)
  BY <1>14 DEF Reply, Goal
<1> QED
  BY <1>2, <1>3, <1>4, <1>5, <1>6, <1>7, <1>8, <1>9, <1>10, <1>11, <1>12, <1>13, <1>14
     DEF Work

\* The chunks of a step were there, or are those of the request it is a step of.
LEMMA WorkChunks ==
    ASSUME Types, Jobs, NEW w \in Workers, Work(w),
           NEW f \in Files, NEW v \in Workers, Has(f, v)'
    PROVE  /\ v # w => \E g \in Files : Has(g, v)
           /\ ~Reply(w) \/ v # w
<1> DEFINE j == job[w]
<1>1. j \in Job /\ JobOK(j)
  BY KindsAre
<1>2. CASE UNCHANGED content /\ ~Reply(w)
  BY <1>2 DEF Has
<1>3. ASSUME NEW g \in Files, content' = [content EXCEPT ![g] = <<>>], ~Reply(w)
      PROVE  Has(f, v) /\ ~Reply(w)
  <2>1. f # g
    BY <1>3 DEF Types, Has
  <2>2. content'[f] = content[f]
    BY <1>3, <2>1 DEF Types
  <2> QED
    BY <1>3, <2>2 DEF Has
<1>4. Reply(w) => At(w, "ok") \/ At(w, "refused")
  BY DEF Reply, At
<1>5. CASE OpenForWrite(w)
  <2>1. ~Reply(w)
    BY <1>4, <1>5 DEF OpenForWrite, At
  <2>2. UNCHANGED content \/ \E g \in Files : content' = [content EXCEPT ![g] = <<>>]
    BY <1>5, OpenMoves
  <2> QED
    BY <1>2, <1>3, <2>1, <2>2
<1>6. CASE CreateCopy(w)
  <2>1. ~Reply(w)
    BY <1>4, <1>6 DEF CreateCopy, At
  <2>2. UNCHANGED content \/ \E g \in Files : content' = [content EXCEPT ![g] = <<>>]
    BY <1>6, CreateMoves
  <2> QED
    BY <1>2, <1>3, <2>1, <2>2
<1>7. CASE Abort(w) \/ Unlink(w) \/ StatTarget(w) \/ Rename(w) \/ StatSource(w)
           \/ CopyLink(w) \/ OpenSource(w)
  <2>1. UNCHANGED content
    BY <1>7 DEF Abort, Unlink, StatTarget, Rename, StatSource, CopyLink, OpenSource
  <2>2. ~Reply(w)
    BY <1>4, <1>7 DEF Abort, Unlink, StatTarget, Rename, StatSource, CopyLink, OpenSource, At
  <2> QED
    BY <1>2, <2>1, <2>2
<1>8. w \in Chunks /\ Torn \in Chunks /\ v # Torn
  BY ConstantsOK DEF Chunks, ConstantsOK
<1>9. CASE UploadChunk(w) \/ WriteChunk(w)
  <2>1. /\ At(w, "write")
        /\ \/ UNCHANGED content
           \/ j.sent < j.len /\ \E c \in {w, Torn} : Store(w, c)
    BY <1>9 DEF UploadChunk, WriteChunk
  <2>2. ~Reply(w)
    BY <1>4, <2>1 DEF At
  <2>3. ASSUME NEW c \in {w, Torn}, j.sent < j.len, Store(w, c)
        PROVE  v # w => Has(f, v)
    <3>1. j.sent < MaxLen /\ c \in Chunks
      BY <1>1, <1>8, <2>3, ConstantsOK DEF Job, ConstantsOK
    <3>2. Has(f, v) \/ v = c
      BY <2>1, <2>3, <3>1, StoredHas DEF At
    <3> QED
      BY <1>8, <2>3, <3>2
  <2> QED
    BY <1>2, <2>1, <2>2, <2>3
<1>10. CASE CopyChunk(w)
  <2>1. At(w, "copy") /\ j.pc = "copy" /\ j.src \in Files
    BY <1>1, <1>10 DEF CopyChunk, At, JobOK
  <2>2. ~Reply(w) /\ ~At(w, "write")
    BY <1>4, <2>1 DEF At
  <2>3. CASE UNCHANGED content
    BY <1>2, <2>2, <2>3
  <2>4. CASE j.sent < Len(content[j.src]) /\ Store(w, content[j.src][j.sent + 1])
    <3> DEFINE c == content[j.src][j.sent + 1]
    <3>1. /\ Len(content[j.src]) \in 0..MaxLen
          /\ \A i \in 1..Len(content[j.src]) : content[j.src][i] \in Chunks
      BY <2>1, ChunksAre
    <3>2. j.sent \in 0..MaxLen
      BY <1>1 DEF Job
    <3>3. j.sent + 1 \in 1..Len(content[j.src]) /\ j.sent < MaxLen
      BY <2>4, <3>1, <3>2, ConstantsOK DEF ConstantsOK
    <3>4. c \in Chunks /\ Store(w, c)
      BY <2>4, <3>1, <3>3
    <3>5. c = v => Has(j.src, v)
      BY <3>3 DEF Has
    <3> HIDE DEF c
    <3>6. Has(f, v) \/ v = c
      BY <2>1, <2>2, <3>3, <3>4, StoredHas
    <3> QED
      BY <2>1, <2>2, <3>5, <3>6
  <2> QED
    BY <1>10, <2>3, <2>4 DEF CopyChunk
<1>11. CASE Reply(w)
  <2>1. PICK i \in 1..Len(content'[f]) : content'[f][i] = v
    BY DEF Has
  <2>2. i \in 1..Len(content[f]) /\ v = IF content[f][i] \in {w, Torn} THEN Old ELSE content[f][i]
    BY <1>11, <2>1, ReplyLeaves
  <2>3. v # Old
    BY ConstantsOK DEF ConstantsOK
  <2> QED
    BY <2>2, <2>3 DEF Has
<1> QED
  BY <1>5, <1>6, <1>7, <1>9, <1>10, <1>11 DEF Work

LEMMA StepKeepsChunks == Types /\ Jobs /\ ChunksOfTheBusy /\ [Next]_vars => ChunksOfTheBusy'
<1> SUFFICES ASSUME Types, Jobs, ChunksOfTheBusy, [Next]_vars,
                    NEW f \in Files, NEW v \in Workers, Has(f, v)'
             PROVE  job'[v].pc # "idle"
  BY DEF ChunksOfTheBusy
<1>1. Has(f, v) => job[v].pc # "idle"
  BY DEF ChunksOfTheBusy
<1>2. CASE Request
  <2>1. PICK w \in Workers, kind \in Kinds, n \in Names, m \in Names \cup {None},
             size \in 0..MaxLen :
              /\ kind \in {"move", "copy"} => m \in Names
              /\ kind \in {"upload", "write"} => m = None
              /\ Begin(w, kind, n, m, size)
    BY <1>2, RequestIs
  <2>2. Moved(w, Requested(kind, n, m, size))
    BY <2>1, BeginMoves
  <2>3. UNCHANGED content /\ At(w, "idle")
    BY <2>1 DEF Begin
  <2>4. v # w /\ job[v].pc # "idle"
    BY <1>1, <2>3 DEF Has, At
  <2> QED
    BY <2>2, <2>4, OneJobMoves
<1>3. ASSUME NEW w \in Workers, Work(w) PROVE job'[v].pc # "idle"
  <2>1. v # w => \E g \in Files : Has(g, v)
    BY <1>3, WorkChunks
  <2>2. v = w => ~Reply(w)
    BY <1>3, WorkChunks
  <2>3. PICK j : Moved(w, j)
    BY <1>3, WorkShape
  <2>4. CASE v # w
    <3>1. job'[v] = job[v]
      BY <2>3, <2>4, OneJobMoves
    <3> QED
      BY <2>1, <2>4, <3>1 DEF ChunksOfTheBusy
  <2>5. CASE v = w
    BY <1>3, <2>2, <2>5, WorkGoesOn
  <2> QED
    BY <2>4, <2>5
<1>4. CASE Shell
  <2>1. job' = job
    BY <1>4 DEF Shell, ShellCreates, ShellRemoves, ShellRenames, ShellLinks
  <2>2. UNCHANGED content \/ \E x \in Files : content' = [content EXCEPT ![x] = <<Old>>]
    BY <1>4 DEF Shell, ShellCreates, ShellRemoves, ShellRenames, ShellLinks
  <2>3. v # Old
    BY ConstantsOK DEF ConstantsOK
  <2>4. Has(f, v)
    <3>1. CASE UNCHANGED content
      BY <3>1 DEF Has
    <3>2. ASSUME NEW x \in Files, content' = [content EXCEPT ![x] = <<Old>>]
          PROVE  Has(f, v)
      <4>1. f # x
        BY <2>3, <3>2 DEF Has, Types
      <4>2. content'[f] = content[f]
        BY <3>2, <4>1 DEF Types
      <4> QED
        BY <4>2 DEF Has
    <3> QED
      BY <2>2, <3>1, <3>2
  <2> QED
    BY <1>1, <2>1, <2>4
<1>5. CASE UNCHANGED vars
  BY <1>1, <1>5 DEF vars, Has
<1> QED
  BY <1>2, <1>3, <1>4, <1>5 DEF Next

---------------------------------------------------------------------------
(* A request that nobody disturbs.                                          *)

OthersIdle(w) == \A x \in Workers : x # w => job[x].pc = "idle"

\* Nothing is asked of a request that stores nothing.
LEMMA NothingStored ==
    ASSUME NEW w \in Workers, OthersIdle(w)', ~Sending(job'[w]), job'[w].pc # "open",
           job'[w].kind = "copy" => job'[w].fd = None,
           job'[w].kind # "upload" \/ job'[w].pc # "refused"
    PROVE  Undisturbed(w)'
BY DEF Undisturbed, OthersIdle, Answered

\* A chunk stored right behind a file's last one lengthens it by one, and the file
\* has nothing but what it had and the new chunk.
LEMMA StoredAtEnd ==
    ASSUME NEW s \in Seq(Chunks), NEW c \in Chunks, NEW S, c \in S,
           \A i \in 1..Len(s) : s[i] \in S
    PROVE  /\ Len(Stored(s, Len(s) + 1, c)) = Len(s) + 1
           /\ \A i \in 1..(Len(s) + 1) : Stored(s, Len(s) + 1, c)[i] \in S
<1>1. Len(s) \in Nat
  BY LenProperties
<1> DEFINE n == Len(s) + 1
<1>2. n \in Nat \ {0} /\ n > Len(s)
  BY <1>1
<1>3. Stored(s, n, c) = [i \in 1..n |-> IF i = n THEN c ELSE s[i]]
  BY <1>1 DEF Stored
<1>4. Len(Stored(s, n, c)) = n
  BY <1>2, <1>3
<1>5. \A i \in 1..n : (IF i = n THEN c ELSE s[i]) \in S
  BY <1>1
<1> QED
  BY <1>3, <1>4, <1>5

\* A chunk appended by an undisturbed upload or write
LEMMA UndisturbedStore ==
    ASSUME Types, Jobs, NEW w \in Workers, Undisturbed(w), OthersIdle(w)',
           At(w, "write"), job[w].sent < job[w].len, UNCHANGED entry,
           NEW c \in Sent(w), Store(w, c)
    PROVE  Undisturbed(w)'
<1> DEFINE j == job[w]
           d == j.fd
           k == j.sent + 1
           s == content[d]
<1> USE ConstantsOK DEF ConstantsOK
<1>1. /\ j \in Job /\ JobOK(j) /\ j.kind \in {"upload", "write"} /\ j.pc = "write"
  BY KindsAre, StepSaysKind DEF At
<1>2. j.sent \in 0..MaxLen /\ j.len \in 0..MaxLen /\ c \in Chunks /\ Sending(j)
  BY <1>1 DEF Job, Chunks, Sending, Sent
<1>3. j.sent < MaxLen /\ ~At(w, "copy")
  BY <1>1, <1>2 DEF At
<1>4. /\ Moved(w, [job[w] EXCEPT !.sent = job[w].sent + 1])
      /\ d \in Files /\ k \in 1..MaxLen
      /\ content'[d] = Stored(s, k, c)
      /\ \A f \in Files : f # d => content'[f] = content[f]
  BY <1>1, <1>2, <1>3, StoreMoves DEF At
<1>5. /\ job'[w].pc = "write" /\ job'[w].kind = j.kind /\ job'[w].fd = d
      /\ job'[w].to = j.to /\ job'[w].sent = k /\ job'[w].twin = j.twin
  <2>1. job'[w] = [job[w] EXCEPT !.sent = job[w].sent + 1]
    BY <1>4, OneJobMoves
  <2> QED
    BY <1>1, <2>1 DEF Job
<1>6. /\ entry[j.to] = d /\ Len(s) = j.sent
      /\ j.twin \/ \A m \in Names : entry[m] = d => m = j.to
      /\ \A i \in 1..j.sent : s[i] \in Sent(w)
      /\ \A f \in Files : Has(f, w) => f = d
  BY <1>2 DEF Undisturbed
<1>7. s \in Seq(Chunks)
  BY <1>4, ChunksAre
<1>8. k \in Nat \ {0} /\ k > Len(s)
  BY <1>2, <1>4, <1>6
<1>9. /\ Len(Stored(s, k, c)) = k
      /\ \A i \in 1..k : Stored(s, k, c)[i] \in Sent(w)
  <2>1. k = Len(s) + 1 /\ c \in Chunks
    BY <1>2, <1>6
  <2> HIDE DEF s, k
  <2>2. \A i \in 1..Len(s) : s[i] \in Sent(w)
    BY <1>6
  <2> QED
    BY <1>7, <2>1, <2>2, StoredAtEnd
<1>10. \A f \in Files : Has(f, w)' => f = d
  BY <1>4, <1>6 DEF Has
<1> HIDE DEF d, k
<1>11. Len(content'[d]) = k /\ \A i \in 1..k : content'[d][i] \in Sent(w)
  BY <1>4, <1>9
<1>12. Sent(w)' = Sent(w)
  BY <1>5 DEF Sent
<1> HIDE DEF j
<1>13. /\ entry'[j.to] = d
       /\ j.twin \/ \A m \in Names : entry'[m] = d => m = j.to
  BY <1>6
<1> HIDE DEF Sent
<1> QED
  BY <1>1, <1>5, <1>10, <1>11, <1>12, <1>13 DEF Undisturbed, Sending, OthersIdle, Answered

\* What an undisturbed request keeps
LEMMA WorkUndisturbed ==
    ASSUME Types, Jobs, NEW w \in Workers, Undisturbed(w), Work(w)
    PROVE  Undisturbed(w)'
<1> DEFINE j == job[w]
           Goal == Undisturbed(w)'
<1> USE ConstantsOK DEF ConstantsOK
<1> SUFFICES Goal
  OBVIOUS
<1> HIDE DEF Goal
<1>1. j \in Job /\ JobOK(j) /\ job \in [Workers -> Job]
  BY KindsAre DEF Types
<1>2. OthersIdle(w)'
  <2>1. PICK k : Moved(w, k)
    BY WorkShape
  <2> QED
    BY <2>1, OneJobMoves DEF OthersIdle, Undisturbed
<1>3. ASSUME ~Sending(job'[w]), job'[w].pc # "open",
             job'[w].kind = "copy" => job'[w].fd = None,
             job'[w].kind # "upload" \/ job'[w].pc # "refused"
      PROVE  Goal
  BY <1>2, <1>3, NothingStored DEF Goal
<1>4. ASSUME Refuse(w) 
      PROVE  /\ job'[w].kind = j.kind /\ job'[w].pc = "refused" /\ job'[w].fd = None
             /\ job'[w].name = j.name /\ job'[w].to = j.to /\ job'[w].twin = j.twin
             /\ (j.kind # "upload" => Goal)
  <2>1. job'[w] = Refusal(j)
    BY <1>1, <1>4 DEF Refuse, Refusal
  <2>2. /\ job'[w].kind = j.kind /\ job'[w].pc = "refused" /\ job'[w].fd = None
        /\ job'[w].name = j.name /\ job'[w].to = j.to /\ job'[w].twin = j.twin
    BY <1>1, <2>1 DEF Refusal, Job
  <2>3. ~Sending(job'[w])
    BY <2>2 DEF Sending
  <2> QED
    BY <1>3, <2>2, <2>3
<1>5. ASSUME NEW step, Goto(w, step)
      PROVE  /\ job'[w].kind = j.kind /\ job'[w].pc = step /\ job'[w].fd = j.fd
             /\ job'[w].name = j.name /\ job'[w].to = j.to /\ job'[w].sent = j.sent
             /\ job'[w].len = j.len /\ job'[w].src = j.src /\ job'[w].twin = j.twin
  BY <1>1, <1>5 DEF Goto, Job
<1>6. ASSUME NEW step, Goto(w, step), step # "open",
             j.kind \in {"move", "remove"} \/ (j.kind = "copy" /\ j.fd = None)
      PROVE  Goal
  <2>1. /\ job'[w].kind = j.kind /\ job'[w].pc = step /\ job'[w].fd = j.fd
    BY <1>5, <1>6
  <2>2. ~Sending(job'[w])
    BY <1>6, <2>1 DEF Sending
  <2> QED
    BY <1>3, <1>6, <2>1, <2>2
<1>7. CASE OpenForWrite(w)
  <2>1. j.pc = "open" /\ j.kind \in {"upload", "write"}
    BY <1>7, StepSaysKind DEF OpenForWrite, At
  <2>2. /\ j.to = None /\ j.sent = 0
        /\ \A f \in Files : ~Has(f, w)
    BY <1>1, <2>1 DEF JobOK, Undisturbed
  <2>3. CASE UNCHANGED <<entry, content>> /\ Refuse(w)
    <3>1. Vanished(w)'
      BY <2>2, <2>3 DEF Has, Vanished
    <3>2. ~Sending(job'[w])
      BY <1>4, <2>3 DEF Sending
    <3> QED
      BY <1>2, <1>4, <2>1, <2>3, <3>1, <3>2 DEF Goal, Undisturbed, OthersIdle, Answered
  <2>4. ASSUME NEW n \in Names, NEW f \in Files,
               entry' = [entry EXCEPT ![n] = f],
               content' = [content EXCEPT ![f] = <<>>],
               Moved(w, [job[w] EXCEPT !.pc = "write", !.fd = f, !.to = n,
                                       !.twin = Twin(f, n)])
        PROVE  Goal
    <3>1. job'[w] = [job[w] EXCEPT !.pc = "write", !.fd = f, !.to = n, !.twin = Twin(f, n)]
      BY <2>4, OneJobMoves
    <3>2. /\ job'[w].pc = "write" /\ job'[w].fd = f /\ job'[w].to = n
          /\ job'[w].twin = Twin(f, n)
          /\ job'[w].sent = 0 /\ job'[w].kind \in {"upload", "write"}
      BY <1>1, <2>1, <2>2, <3>1 DEF Job
    <3>3. entry'[n] = f /\ content'[f] = <<>>
      BY <2>4 DEF Types
    <3>4. \A g \in Files : ~Has(g, w)'
      <4>1. \A g \in Files : g # f => content'[g] = content[g]
        BY <2>4 DEF Types
      <4> QED
        BY <2>2, <3>3, <4>1 DEF Has
    <3>5. ~Twin(f, n) => \A m \in Names : entry'[m] = f => m = n
      BY <2>4 DEF Twin, Types
    <3>6. job'[w].twin \/ \A m \in Names : entry'[m] = job'[w].fd => m = job'[w].to
      BY <3>2, <3>5
    <3> QED
      BY <1>2, <3>2, <3>3, <3>4, <3>6 DEF Goal, Undisturbed, OthersIdle, Answered, Sending
  <2> QED
    BY <1>7, <2>3, <2>4, OpenMoves
<1>8. ASSUME NEW step \in {"ok", "abort"}, Goto(w, step), UNCHANGED <<entry, content>>,
             At(w, "write"), step = "ok" => j.sent = j.len
      PROVE  Goal
  <2>1. j.kind \in {"upload", "write"} /\ Sending(j)
    BY <1>8, StepSaysKind DEF At, Sending
  <2>2. /\ job'[w].kind = j.kind /\ job'[w].pc = step /\ job'[w].fd = j.fd
        /\ job'[w].to = j.to /\ job'[w].sent = j.sent /\ job'[w].len = j.len
        /\ job'[w].twin = j.twin
    BY <1>5, <1>8
  <2>3. /\ entry[j.to] = j.fd /\ Len(content[j.fd]) = j.sent
        /\ j.twin \/ \A m \in Names : entry[m] = j.fd => m = j.to
        /\ \A i \in 1..j.sent : content[j.fd][i] \in Sent(w)
        /\ \A f \in Files : Has(f, w) => f = j.fd
    BY <2>1 DEF Undisturbed
  <2>4. \A f \in Files : Has(f, w)' => f = j.fd
    BY <1>8, <2>3 DEF Has
  <2>5. Sent(w)' = Sent(w)
    BY <2>2 DEF Sent
  <2> HIDE DEF j
  <2> QED
    BY <1>2, <1>8, <2>1, <2>2, <2>3, <2>4, <2>5 DEF Goal, Undisturbed, OthersIdle, Answered, Sending
<1>9. ASSUME NEW c \in Sent(w), At(w, "write"), j.sent < j.len, Store(w, c), UNCHANGED entry
      PROVE  Goal
  BY <1>2, <1>9, UndisturbedStore DEF Goal
<1>10. CASE UploadChunk(w)
  <2>1. At(w, "write") /\ UNCHANGED entry /\ Sent(w) = {w, Torn}
    BY <1>10 DEF UploadChunk, Sent
  <2>2. \/ j.sent = j.len /\ Goto(w, "ok") /\ UNCHANGED content
        \/ Goto(w, "abort") /\ UNCHANGED content
        \/ j.sent < j.len /\ \E c \in {w, Torn} : Store(w, c)
    BY <1>10 DEF UploadChunk
  <2> QED
    BY <1>8, <1>9, <2>1, <2>2
<1>11. CASE WriteChunk(w)
  <2>1. At(w, "write") /\ UNCHANGED entry /\ j.kind = "write"
    BY <1>11 DEF WriteChunk
  <2>2. \/ j.sent = j.len /\ Goto(w, "ok") /\ UNCHANGED content
        \/ Refuse(w)
        \/ j.sent < j.len /\ \E c \in Sent(w) : Store(w, c)
    BY <1>11, <2>1 DEF WriteChunk, Sent
  <2> QED
    BY <1>4, <1>8, <1>9, <2>1, <2>2
<1>12. CASE Abort(w)
  <2>1. /\ Refuse(w) /\ UNCHANGED content /\ j.pc = "abort"
        /\ entry' = [entry EXCEPT ![j.name] = None]
    BY <1>12 DEF Abort, At
  <2>2. j.kind = "upload" /\ Sending(j) /\ j.name \in Names /\ j.to \in Names /\ j.fd \in Files
    BY <1>1, <1>12, <2>1, StepSaysKind DEF Abort, Sending, JobOK
  <2>3. /\ entry[j.to] = j.fd
        /\ j.twin \/ \A m \in Names : entry[m] = j.fd => m = j.to
        /\ \A f \in Files : Has(f, w) => f = j.fd
    BY <2>2 DEF Undisturbed
  <2>4. ASSUME j.to = j.name, ~j.twin, NEW n \in Names, entry'[n] \in Files
        PROVE  ~(\E i \in 1..Len(content'[entry'[n]]) : content'[entry'[n]][i] = w)
    <3>1. n # j.name /\ entry'[n] = entry[n]
      BY <2>1, <2>2, <2>4 DEF Types
    <3>2. entry[n] # j.fd
      BY <2>2, <2>3, <2>4, <3>1
    <3>3. ~Has(entry[n], w)
      BY <2>3, <2>4, <3>1, <3>2
    <3>4. entry'[n] = entry[n] /\ content' = content
      BY <2>1, <3>1
    <3> QED
      BY <3>3, <3>4 DEF Has
  <2>5. /\ job'[w].kind = "upload" /\ job'[w].pc = "refused" /\ job'[w].fd = None
        /\ job'[w].name = j.name /\ job'[w].to = j.to /\ job'[w].twin = j.twin
    BY <1>4, <2>1, <2>2
  <2>6. job'[w].to \in {None, job'[w].name} => j.to = j.name
    BY <2>2, <2>5
  <2>7. j.to = j.name /\ ~j.twin => Vanished(w)'
    BY <2>4 DEF Vanished, Has
  <2>8. ~Sending(job'[w])
    BY <2>5 DEF Sending
  <2> HIDE DEF j
  <2> QED
    BY <1>2, <2>5, <2>6, <2>7, <2>8 DEF Goal, Undisturbed, OthersIdle, Answered
<1>13. CASE Unlink(w)
  <2>1. j.kind = "remove" /\ (Refuse(w) \/ Goto(w, "ok"))
    BY <1>13, StepSaysKind DEF Unlink
  <2> QED
    BY <1>4, <1>6, <2>1
<1>14. CASE StatTarget(w)
  <2>1. /\ j.pc = "stat" /\ j.kind \in {"move", "copy"}
        /\ Refuse(w) \/ Goto(w, "rename") \/ Goto(w, "source")
    BY <1>14, StepSaysKind DEF StatTarget, At
  <2>2. j.fd = None
    BY <1>1, <2>1 DEF JobOK
  <2> QED
    BY <1>4, <1>6, <2>1, <2>2
<1>15. CASE Rename(w)
  <2>1. j.kind = "move" /\ (Refuse(w) \/ Goto(w, "ok"))
    BY <1>15, StepSaysKind DEF Rename
  <2> QED
    BY <1>4, <1>6, <2>1
<1>16. CASE StatSource(w)
  <2>1. /\ j.pc = "source" /\ j.kind = "copy"
        /\ Refuse(w) \/ Goto(w, "link") \/ Goto(w, "read")
    BY <1>16, StepSaysKind DEF StatSource, At
  <2>2. j.fd = None
    BY <1>1, <2>1 DEF JobOK
  <2> QED
    BY <1>4, <1>6, <2>1, <2>2
<1>17. CASE CopyLink(w)
  <2>1. j.pc = "link" /\ j.kind = "copy" /\ (Refuse(w) \/ Goto(w, "ok"))
    BY <1>17, StepSaysKind DEF CopyLink, At
  <2>2. j.fd = None
    BY <1>1, <2>1 DEF JobOK
  <2> QED
    BY <1>4, <1>6, <2>1, <2>2
<1>18. CASE OpenSource(w)
  <2>1. j.pc = "read" /\ j.kind = "copy"
    BY <1>18, StepSaysKind DEF OpenSource, At
  <2>2. j.fd = None
    BY <1>1, <2>1 DEF JobOK
  <2>3. ASSUME NEW x, job' = [job EXCEPT ![w].pc = "create", ![w].src = x] PROVE Goal
    <3>1. job'[w].pc = "create" /\ job'[w].kind = "copy" /\ job'[w].fd = None
      BY <1>1, <2>1, <2>2, <2>3 DEF Job
    <3>2. ~Sending(job'[w])
      BY <3>1 DEF Sending
    <3> QED
      BY <1>3, <3>1, <3>2
  <2> QED
    BY <1>4, <1>18, <2>1, <2>3 DEF OpenSource
<1>19. CASE CreateCopy(w)
  <2>1. j.pc = "create" /\ j.kind = "copy"
    BY <1>19, StepSaysKind DEF CreateCopy, At
  <2>2. ASSUME NEW f \in Files, Fresh(f), content' = [content EXCEPT ![f] = <<>>],
               Moved(w, [j EXCEPT !.pc = "copy", !.fd = f])
        PROVE  Goal
    <3>1. job'[w] = [j EXCEPT !.pc = "copy", !.fd = f]
      BY <2>2, OneJobMoves
    <3>2. /\ job'[w].pc = "copy" /\ job'[w].kind = "copy" /\ job'[w].fd = f
          /\ job'[w].sent = 0 /\ job'[w].src = j.src
      BY <1>1, <2>1, <3>1 DEF Job, JobOK
    <3>3. content'[f] = <<>> /\ Len(content'[f]) = 0
      BY <2>2 DEF Types
    <3>4. j.src \in Files /\ j.src # f
      BY <1>1, <2>1, <2>2 DEF JobOK, Fresh
    <3>5. Len(content'[j.src]) \in Nat
      <4>1. content'[j.src] = content[j.src]
        BY <2>2, <3>4 DEF Types
      <4> QED
        BY <3>4, <4>1, ChunksAre
    <3>6. ~Sending(job'[w])
      BY <3>2 DEF Sending
    <3> HIDE DEF j
    <3> QED
      BY <1>2, <3>2, <3>3, <3>5, <3>6 DEF Goal, Undisturbed, OthersIdle, Answered
  <2>3. CASE Refuse(w)
    BY <1>4, <2>1, <2>3
  <2> QED
    BY <1>19, <2>2, <2>3, CreateMoves
<1>20. CASE CopyChunk(w)
  <2> DEFINE d == j.fd
             t == content[j.src]
  <2>1. /\ j.pc = "copy" /\ j.kind = "copy" /\ At(w, "copy") /\ UNCHANGED entry
        /\ j.src \in Files /\ d \in Files /\ j.src # d /\ d # None
    BY <1>1, <1>20, StepSaysKind DEF CopyChunk, At, JobOK
  <2>2. /\ j.sent = Len(content[d]) /\ j.sent <= Len(t)
        /\ \A i \in 1..j.sent : content[d][i] = t[i]
    BY <2>1 DEF Undisturbed
  <2>3. /\ t \in Seq(Chunks) /\ Len(t) \in 0..MaxLen
        /\ \A i \in 1..Len(t) : t[i] \in Chunks
    BY <2>1, ChunksAre
  <2>4. content[d] \in Seq(Chunks) /\ j.sent \in 0..MaxLen
    BY <1>1, <2>1, ChunksAre DEF Job
  <2>5. CASE j.sent >= Len(t) /\ Goto(w, "ok") /\ UNCHANGED content
    <3>1. /\ job'[w].kind = "copy" /\ job'[w].pc = "ok" /\ job'[w].fd = d
          /\ job'[w].sent = j.sent /\ job'[w].src = j.src
      BY <1>5, <2>1, <2>5
    <3>2. j.sent = Len(t)
      BY <2>2, <2>3, <2>4, <2>5
    <3>3. ~Sending(job'[w])
      BY <3>1 DEF Sending
    <3>4. /\ j.sent = Len(content'[d]) /\ j.sent = Len(content'[j.src])
          /\ \A i \in 1..j.sent : content'[d][i] = content'[j.src][i]
      BY <2>2, <2>5, <3>2
    <3> HIDE DEF j, d
    <3>5. j.sent <= j.sent
      BY <2>4
    <3> QED
      BY <1>2, <3>1, <3>3, <3>4, <3>5 DEF Goal, Undisturbed, OthersIdle, Answered
  <2>6. CASE Refuse(w)
    BY <1>4, <2>1, <2>6
  <2>7. CASE j.sent < Len(t) /\ Store(w, t[j.sent + 1])
    <3> DEFINE k == j.sent + 1
               c == t[k]
               s == content[d]
    <3>1. k \in 1..Len(t) /\ k \in Nat \ {0} /\ j.sent < MaxLen
      BY <2>3, <2>4, <2>7
    <3>2. c \in Chunks /\ Store(w, c) /\ ~At(w, "write")
      BY <2>1, <2>3, <2>7, <3>1 DEF At
    <3> HIDE DEF c
    <3>3. /\ Moved(w, [job[w] EXCEPT !.sent = job[w].sent + 1])
          /\ content'[job[w].fd] = Stored(content[job[w].fd], job[w].sent + 1, c)
          /\ \A f \in Files : f # job[w].fd => content'[f] = content[f]
      BY <2>1, <3>1, <3>2, StoreMoves
    <3>4. /\ job'[w].pc = "copy" /\ job'[w].kind = "copy" /\ job'[w].fd = d
          /\ job'[w].src = j.src /\ job'[w].sent = k
      <4>1. job'[w] = [job[w] EXCEPT !.sent = job[w].sent + 1]
        BY <3>3, OneJobMoves
      <4> QED
        BY <1>1, <2>1, <4>1 DEF Job
    <3>5. content'[d] = Stored(s, k, c) /\ content'[j.src] = t
      BY <2>1, <3>3
    <3>6. Len(s) = j.sent /\ s \in Seq(Chunks) /\ k > Len(s)
      BY <2>2, <2>4
    <3>7. /\ Len(Stored(s, k, c)) = k
          /\ \A i \in 1..k : Stored(s, k, c)[i] = t[i]
      <4>1. Len(s) \in Nat /\ k = Len(s) + 1 /\ \A i \in 1..Len(s) : s[i] = t[i]
        BY <2>2, <2>4, <3>6
      <4>2. t[k] = c
        BY DEF c
      <4>a. s \in Seq(Chunks) /\ k \in Nat \ {0} /\ c \in Chunks /\ k > Len(s)
        BY <3>1, <3>2, <3>6
      <4> HIDE DEF s, k, t
      <4>3. Len(Stored(s, k, c)) = k
        BY <4>a, StoredShape
      <4>4. Stored(s, k, c)[k] = c
        BY <4>a, StoredShape
      <4>5. \A i \in 1..Len(s) : i # k => Stored(s, k, c)[i] = s[i]
        BY <4>a, StoredShape
      <4> QED
        BY <4>1, <4>2, <4>3, <4>4, <4>5
    <3>8. ~Sending(job'[w])
      BY <3>4 DEF Sending
    <3>9. k <= Len(t) /\ job'[w].pc # "ok" /\ job'[w].pc # "open" /\ job'[w].kind # "upload"
      BY <2>3, <3>1, <3>4
    <3> HIDE DEF k, s, t, d, j
    <3> QED
      BY <1>2, <3>4, <3>5, <3>7, <3>8, <3>9 DEF Goal, Undisturbed, OthersIdle, Answered
  <2> QED
    BY <1>20, <2>5, <2>6, <2>7 DEF CopyChunk
<1>21. CASE Reply(w)
  <2>1. job'[w] = Idle
    BY <1>1, <1>21 DEF Reply
  <2>2. Idle.pc = "idle" /\ Idle.kind = "none"
    BY DEF Idle
  <2>3. ~Sending(job'[w])
    BY <2>1, <2>2 DEF Sending
  <2> QED
    BY <1>3, <2>1, <2>2, <2>3
<1> QED
  BY <1>7, <1>10, <1>11, <1>12, <1>13, <1>14, <1>15, <1>16, <1>17, <1>18, <1>19, <1>20, <1>21
     DEF Work

\* Whoever is alone afterwards was so before, or begins while nothing runs.
LEMMA StepKeepsAlone ==
    Types /\ Jobs /\ ChunksOfTheBusy /\ AloneInv /\ [Next]_vars => AloneInv'
<1> SUFFICES ASSUME Types, Jobs, ChunksOfTheBusy, AloneInv, [Next]_vars,
                    NEW v \in Workers, alone' = v
             PROVE  Undisturbed(v)'
  BY DEF AloneInv
<1>1. v # None
  BY ConstantsOK DEF ConstantsOK
<1>2. CASE Request
  <2>1. PICK w \in Workers, kind \in Kinds, n \in Names, m \in Names \cup {None},
             size \in 0..MaxLen :
              /\ kind \in {"move", "copy"} => m \in Names
              /\ kind \in {"upload", "write"} => m = None
              /\ Begin(w, kind, n, m, size)
    BY <1>2, RequestIs
  <2>2. v = w /\ (\A x \in Workers : job[x].pc = "idle") /\ UNCHANGED <<entry, content>>
    BY <1>1, <2>1 DEF Begin, At
  <2>3. Moved(w, Requested(kind, n, m, size))
    BY <2>1, BeginMoves
  <2>4. /\ Requested(kind, n, m, size).pc \notin {"write", "abort", "ok", "refused"}
        /\ Requested(kind, n, m, size).fd = None
    BY <2>1, BeginMoves
  <2>5. /\ job'[w].pc \notin {"write", "abort", "ok", "refused"} /\ job'[w].fd = None
        /\ OthersIdle(w)'
    BY <2>2, <2>3, <2>4, OneJobMoves DEF OthersIdle
  <2>6. \A f \in Files : ~Has(f, w)'
    BY <2>2 DEF ChunksOfTheBusy, Has
  <2> QED
    BY <2>2, <2>5, <2>6 DEF Undisturbed, OthersIdle, Sending, Answered
<1>3. ASSUME NEW w \in Workers, Work(w), alone' = IF alone = w THEN w ELSE None
      PROVE  Undisturbed(v)'
  <2>1. v = w /\ alone = w
    BY <1>1, <1>3
  <2>2. Undisturbed(w)
    BY <2>1 DEF AloneInv
  <2> QED
    BY <1>3, <2>1, <2>2, WorkUndisturbed
<1>4. CASE Shell /\ alone' = None
  BY <1>1, <1>4
<1>5. CASE UNCHANGED vars
  <2>1. Undisturbed(v) /\ UNCHANGED <<entry, content, job>>
    BY <1>5 DEF vars, AloneInv
  <2> QED
    BY <2>1 DEF Undisturbed, Sending, Has, Answered, Vanished, Sent
<1> QED
  BY <1>2, <1>3, <1>4, <1>5 DEF Next

LEMMA InitHolds == Init => IInv
<1> SUFFICES ASSUME Init PROVE IInv
  OBVIOUS
<1> USE ConstantsOK DEF ConstantsOK
<1>1. <<>> \in Seq(Chunks) /\ Len(<<>>) = 0
  BY EmptySeq
<1>2. Idle \in Job
  BY DEF Idle, Job
<1>3. JobOK(Idle)
  BY DEF Idle, JobOK, StepsOf, Sending
<1>4. Types /\ Jobs
  BY <1>1, <1>2, <1>3 DEF Init, Types, Jobs
<1>5. ChunksOfTheBusy
  BY <1>1 DEF Init, ChunksOfTheBusy, Has
<1>6. AloneInv
  BY DEF Init, AloneInv
<1> QED
  BY <1>4, <1>5, <1>6 DEF IInv

LEMMA StepHolds == IInv /\ [Next]_vars => IInv'
  BY StepKeepsTypes, StepKeepsChunks, StepKeepsAlone DEF IInv

LEMMA Always == Spec => []IInv
  BY InitHolds, StepHolds, PTL DEF Spec

\* Every name leads to an inode or nothing, every file holds chunks somebody
\* sent, and a request that writes holds a file.
THEOREM TypeCorrect == Spec => []TypeOK
<1>1. IInv => TypeOK
  <2> SUFFICES ASSUME IInv PROVE TypeOK
    OBVIOUS
  <2>1. ASSUME NEW f \in Files, NEW i \in DOMAIN content[f]
        PROVE  content[f][i] \in Workers \cup {Old, Torn}
    BY <2>1, ChunksAre DEF IInv, Chunks
  <2>2. ASSUME NEW w \in Workers, job[w].pc \in {"write", "copy"}
        PROVE  job[w].fd # None
    <3>1. job[w].fd \in Files
      BY <2>2, KindsAre, StepSaysKind DEF IInv, JobOK, Sending, At
    <3> QED
      BY <3>1, ConstantsOK DEF ConstantsOK
  <2> QED
    BY <2>1, <2>2 DEF IInv, Types, TypeOK
<1> QED
  BY <1>1, Always, PTL

\* An upload that is refused for its size or because the disk is full leaves
\* nothing under any name, unless it was disturbed, led through a symlink or
\* opened a file with a second name.
THEOREM RejectedUploadsVanish == Spec => []RejectedLeavesNothing
<1>1. IInv => RejectedLeavesNothing
  <2> SUFFICES ASSUME IInv, NEW w \in Workers, alone = w, Answered(w, "upload", "refused"),
                      job[w].to \in {None, job[w].name}, ~job[w].twin,
                      NEW n \in Names, entry[n] \in Files, NEW i \in DOMAIN content[entry[n]]
               PROVE  content[entry[n]][i] # w
    BY DEF RejectedLeavesNothing
  <2>1. ~Has(entry[n], w)
    BY DEF IInv, AloneInv, Undisturbed, Vanished
  <2>2. DOMAIN content[entry[n]] = 1..Len(content[entry[n]])
    BY ChunksAre DEF IInv
  <2> QED
    BY <2>1, <2>2 DEF Has
<1> QED
  BY <1>1, Always, PTL

\* Where an undisturbed upload or write is answered ok there are as many chunks
\* as were sent, all its own; only an upload's can be short ones.
THEOREM StoredIsWhatWasSent == Spec => []StoredIsSent
<1>1. IInv => StoredIsSent
  <2> SUFFICES ASSUME IInv, NEW w \in Workers, NEW kind \in {"upload", "write"},
                      alone = w, Answered(w, kind, "ok")
               PROVE  /\ entry[job[w].to] = job[w].fd
                      /\ Len(content[job[w].fd]) = job[w].len
                      /\ \A i \in 1..job[w].len :
                            content[job[w].fd][i] \in
                               IF kind = "write" THEN {w} ELSE {w, Torn}
    BY DEF StoredIsSent
  <2>1. Sending(job[w]) /\ job[w].pc = "ok" /\ job[w].kind = kind
    BY DEF Sending, Answered
  <2> QED
    BY <2>1 DEF IInv, AloneInv, Undisturbed, Sent
<1> QED
  BY <1>1, Always, PTL

\* An undisturbed copy that is answered ok is its source, chunk by chunk.
THEOREM CopiesAreWhole == Spec => []CopyIsWhole
<1>1. IInv => CopyIsWhole
  <2> SUFFICES ASSUME IInv, NEW w \in Workers, alone = w, Answered(w, "copy", "ok"),
                      job[w].fd # None
               PROVE  content[job[w].fd] = content[job[w].src]
    BY DEF CopyIsWhole
  <2>1. job[w].kind = "copy" /\ job[w].pc = "ok"
    BY DEF Answered
  <2>2. job[w].fd \in Files /\ job[w].src \in Files
    BY <2>1, KindsAre DEF IInv, JobOK, Job
  <2>3. /\ content[job[w].fd] \in Seq(Chunks) /\ content[job[w].src] \in Seq(Chunks)
    BY <2>2, ChunksAre DEF IInv
  <2>4. /\ Len(content[job[w].fd]) = Len(content[job[w].src])
        /\ \A i \in 1..Len(content[job[w].fd]) :
              content[job[w].fd][i] = content[job[w].src][i]
    BY <2>1 DEF IInv, AloneInv, Undisturbed
  <2> QED
    BY <2>3, <2>4, SeqEqual
<1> QED
  BY <1>1, Always, PTL

---------------------------------------------------------------------------
(* What a step never does.                                                  *)

\* A request that has moved has made a step of its own.
LEMMA WhoMoved ==
    ASSUME Types, Jobs, [Next]_vars, NEW w \in Workers, job'[w] # job[w]
    PROVE  Work(w) \/ UNCHANGED entry
<1>1. CASE Request
  BY <1>1 DEF Request, Begin
<1>2. ASSUME NEW x \in Workers, Work(x) PROVE Work(w)
  <2>1. PICK j : Moved(x, j)
    BY <1>2, WorkShape
  <2>2. x = w
    BY <2>1, OneJobMoves
  <2> QED
    BY <1>2, <2>2
<1>3. CASE Shell
  BY <1>3 DEF Shell, ShellCreates, ShellRemoves, ShellRenames, ShellLinks
<1>4. CASE UNCHANGED vars
  BY <1>4 DEF vars
<1> QED
  BY <1>1, <1>2, <1>3, <1>4 DEF Next

\* A copy takes no name that leads somewhere, whatever was put there since it
\* looked.
THEOREM CopiesOverwriteNothing == Spec => CopyNeverOverwrites
<1>1. IInv /\ [Next]_vars =>
        [\A w \in Workers, n \in Names :
            job[w].kind = "copy" /\ job'[w] # job[w] /\ entry[n] # None
               => entry'[n] = entry[n]]_vars
  <2> SUFFICES ASSUME Types, Jobs, [Next]_vars, NEW w \in Workers, NEW n \in Names,
                      job[w].kind = "copy", job'[w] # job[w], entry[n] # None
               PROVE  entry'[n] = entry[n]
    BY DEF IInv
  <2>1. Work(w) \/ UNCHANGED entry
    BY WhoMoved
  <2>2. CASE UNCHANGED entry
    BY <2>2
  <2>3. CASE CopyLink(w)
    BY <2>3 DEF CopyLink, Types
  <2>4. CASE CreateCopy(w)
    BY <2>4, CreateMoves DEF Types
  <2>5. CASE OpenForWrite(w) \/ Abort(w) \/ Unlink(w) \/ Rename(w)
    BY <2>5, StepSaysKind DEF OpenForWrite, Abort, Unlink, Rename
  <2>6. CASE UploadChunk(w) \/ WriteChunk(w) \/ CopyChunk(w) \/ StatTarget(w)
             \/ StatSource(w) \/ OpenSource(w) \/ Reply(w)
    BY <2>6 DEF UploadChunk, WriteChunk, CopyChunk, StatTarget, StatSource, OpenSource, Reply
  <2> QED
    BY <2>1, <2>2, <2>3, <2>4, <2>5, <2>6 DEF Work
<1> QED
  BY <1>1, Always, PTL DEF Spec, CopyNeverOverwrites

\* What a move finds at its source is under one of the two names afterwards.
THEOREM MovesLoseNothing == Spec => MoveLosesNothing
<1>1. IInv /\ [Next]_vars =>
        [\A w \in Workers : job[w].kind = "move" /\ job'[w] # job[w]
            => \A n \in Names : entry[n] # None =>
                  \/ \E m \in Names : entry'[m] = entry[n]
                  \/ \E m \in Names : entry'[n] = entry[m] /\ entry[m] # None]_vars
  <2> SUFFICES ASSUME Types, Jobs, [Next]_vars, NEW w \in Workers,
                      job[w].kind = "move", job'[w] # job[w],
                      NEW n \in Names, entry[n] # None
               PROVE  \/ \E m \in Names : entry'[m] = entry[n]
                      \/ \E m \in Names : entry'[n] = entry[m] /\ entry[m] # None
    BY DEF IInv
  <2>1. Work(w) \/ UNCHANGED entry
    BY WhoMoved
  <2>2. CASE UNCHANGED entry
    BY <2>2
  <2>3. CASE Rename(w)
    <3> DEFINE s == job[w].name
               t == job[w].to
    <3>1. s \in Names /\ t \in Names
      BY KindsAre DEF JobOK
    <3>2. CASE UNCHANGED entry
      BY <3>2
    <3>3. CASE entry[s] # None /\ entry' = [entry EXCEPT ![s] = None, ![t] = entry[s]]
      <4>1. entry'[t] = entry[s]
        BY <3>1, <3>3 DEF Types
      <4>2. n # s /\ n # t => entry'[n] = entry[n]
        BY <3>1, <3>3 DEF Types
      <4> QED
        BY <3>1, <3>3, <4>1, <4>2
    <3> QED
      BY <2>3, <3>2, <3>3 DEF Rename
  <2>4. CASE OpenForWrite(w) \/ Abort(w) \/ Unlink(w) \/ CopyLink(w) \/ CreateCopy(w)
    BY <2>4, StepSaysKind DEF OpenForWrite, Abort, Unlink, CopyLink, CreateCopy, At
  <2>5. CASE UploadChunk(w) \/ WriteChunk(w) \/ CopyChunk(w) \/ StatTarget(w)
             \/ StatSource(w) \/ OpenSource(w) \/ Reply(w)
    BY <2>5 DEF UploadChunk, WriteChunk, CopyChunk, StatTarget, StatSource, OpenSource, Reply
  <2> QED
    BY <2>1, <2>2, <2>3, <2>4, <2>5 DEF Work
<1> QED
  BY <1>1, Always, PTL DEF Spec, MoveLosesNothing

(***************************************************************************)
(* Archives.                                                               *)
(***************************************************************************)

\* A set of numbers that is not empty has a least one.
LEMMA LeastOf ==
    ASSUME NEW T \in SUBSET Nat, T # {}
    PROVE  \E x \in T : \A y \in T : x <= y
<1> DEFINE R == {ss \in Nat \X Nat : ss[1] < ss[2]}
<1>1. IsWellFoundedOn(R, Nat)
  BY NatLessThanWellFounded DEF OpToRel
<1> HIDE DEF R
<1>2. PICK x \in T : \A y \in T : <<y, x>> \notin R
  BY <1>1, WFMin
<1>3. \A y \in T : ~(y < x)
  BY <1>2 DEF R
<1> QED
  BY <1>3

LEMMA MinIs ==
    ASSUME NEW T \in SUBSET Nat, T # {}
    PROVE  Min(T) \in T /\ \A y \in T : Min(T) <= y
BY LeastOf DEF Min

\* A path with no ".." in it ends where it says.
LEMMA LandsWhereItSays ==
    ASSUME NEW path \in Seq(Parts \cup {Up}), \A i \in 1..Len(path) : path[i] # Up
    PROVE  Lands(path) = path
<1> DEFINE Step(f, n) == IF n = 0 THEN <<>>
                         ELSE IF path[n] # Up THEN Append(f[n - 1], path[n])
                         ELSE IF f[n - 1] = <<>> THEN <<>> ELSE Front(f[n - 1])
           Is(f) == f = [n \in 0..Len(path) |-> Step(f, n)]
           dir[n \in 0..Len(path)] ==
             IF n = 0 THEN <<>>
             ELSE IF path[n] # Up THEN Append(dir[n - 1], path[n])
             ELSE IF dir[n - 1] = <<>> THEN <<>> ELSE Front(dir[n - 1])
           g == [n \in 0..Len(path) |-> SubSeq(path, 1, n)]
<1>1. Lands(path) = dir[Len(path)]
  BY DEF Lands
<1>2. dir = CHOOSE f : Is(f)
  OBVIOUS
<1> HIDE DEF dir
<1>3. Len(path) \in Nat
  BY LenProperties
<1>4. \A n \in 1..Len(path) : SubSeq(path, 1, n) = Append(SubSeq(path, 1, n - 1), path[n])
  OBVIOUS
<1>5. SubSeq(path, 1, 0) = <<>> /\ SubSeq(path, 1, Len(path)) = path
  BY SubSeqEmpty, SubSeqFull, <1>3
<1>6. Is(g)
  <2>1. ASSUME NEW n \in 0..Len(path) PROVE SubSeq(path, 1, n) = Step(g, n)
    <3>1. CASE n = 0
      BY <1>5, <3>1
    <3>2. CASE n # 0
      <4>1. n \in 1..Len(path) /\ n - 1 \in 0..Len(path)
        BY <1>3, <3>2
      <4>2. g[n - 1] = SubSeq(path, 1, n - 1)
        BY <4>1
      <4>3. path[n] # Up
        BY <4>1
      <4> HIDE DEF g
      <4>4. Step(g, n) = Append(g[n - 1], path[n])
        BY <3>2, <4>3
      <4> QED
        BY <1>4, <4>1, <4>2, <4>4
    <3> QED
      BY <3>1, <3>2
  <2> QED
    BY <2>1
<1> HIDE DEF g
<1>7. Is(dir)
  <2> HIDE DEF Is
  <2> QED
    BY <1>2, <1>6
<1>8. \A n \in 0..Len(path) : dir[n] = Step(dir, n)
  BY <1>7
<1>9. \A n \in 0..Len(path) : dir[n] = SubSeq(path, 1, n)
  <2> DEFINE Wrong == {n \in 0..Len(path) : dir[n] # SubSeq(path, 1, n)}
  <2>1. SUFFICES ASSUME Wrong # {} PROVE FALSE
    OBVIOUS
  <2>2. Wrong \in SUBSET Nat
    BY <1>3
  <2> HIDE DEF Wrong
  <2>3. PICK n \in Wrong : \A k \in Wrong : n <= k
    BY <2>1, <2>2, LeastOf
  <2>4. n \in 0..Len(path) /\ dir[n] # SubSeq(path, 1, n)
    BY <2>3 DEF Wrong
  <2>5. n # 0
    BY <1>5, <1>8, <2>4
  <2>6. n - 1 \in 0..Len(path) /\ n \in 1..Len(path)
    BY <1>3, <2>4, <2>5
  <2>7. n - 1 \notin Wrong
    BY <2>2, <2>3
  <2>8. dir[n - 1] = SubSeq(path, 1, n - 1)
    BY <2>6, <2>7 DEF Wrong
  <2>9. dir[n] = Append(dir[n - 1], path[n])
    <3>1. path[n] # Up
      BY <2>6
    <3>2. dir[n] = Step(dir, n)
      BY <1>8, <2>4
    <3>3. Step(dir, n) = Append(dir[n - 1], path[n])
      BY <2>5, <3>1
    <3> QED
      BY <3>2, <3>3
  <2> QED
    BY <1>4, <2>4, <2>6, <2>8, <2>9
<1>10. Len(path) \in 0..Len(path)
  BY <1>3
<1> QED
  BY <1>1, <1>5, <1>9, <1>10

\* What the first pass has seen to
Passed ==
    /\ ~TooBig(archive)
    /\ \A i \in Writable(archive) : ~archive[i].link /\ Safe(archive[i])

\* What an archive may change: what its files are, and the directories above
MayChange(p) == \E i \in Writable(archive) :
               PathOf(i) = p \/ (p \in Parents(PathOf(i)) /\ home[p] = Dir)

\* The members that have been written are the first ones, and each is where its
\* name leads, or a later one is.
UnzipInv ==
    /\ archive \in Archives
    /\ home \in [Paths -> {Nothing, Dir, Kept, Part} \cup Nat]
    /\ before \in [Paths -> {Nothing, Dir, Kept}]
    /\ phase \in {"check", "parents", "member", "ok", "refused", "failed"}
    /\ plan \subseteq Writable(archive)
    /\ phase \in {"check", "refused"} => home = before
    /\ phase = "ok" => plan = {}
    /\ phase = "member" => plan # {}
    /\ phase \notin {"check", "refused"} =>
          /\ Passed
          /\ \A i \in Writable(archive) \ plan, k \in plan : i < k
    /\ phase \notin {"check", "refused", "failed"} =>
          \A i \in Writable(archive) \ plan : home[PathOf(i)] \in i..Len(archive)
    /\ \A p \in Paths : home[p] # before[p] => MayChange(p)

LEMMA ArchiveIs ==
    ASSUME archive \in Archives
    PROVE  /\ archive \in Seq(Member) /\ DOMAIN archive = 1..Len(archive)
           /\ Len(archive) \in Nat
           /\ \A i \in DOMAIN archive : archive[i] \in Member
           /\ Writable(archive) \subseteq 1..Len(archive)
<1>1. archive \in Seq(Member)
  BY ArchivesOK DEF ArchivesOK
<1>2. DOMAIN archive = 1..Len(archive) /\ Len(archive) \in Nat
  BY <1>1, LenProperties
<1>3. \A i \in DOMAIN archive : archive[i] \in Member
  BY <1>1, <1>2, ElementOfSeq
<1> QED
  BY <1>1, <1>2, <1>3 DEF Writable

\* A member that is safe goes below the directory it is unpacked in.
LEMMA SafeGoesBelow ==
    ASSUME archive \in Archives, NEW i \in DOMAIN archive, Safe(archive[i])
    PROVE  /\ PathOf(i) = Dest \o archive[i].name
           /\ PathOf(i) \in Paths
           /\ ~Outside(archive[i])
<1> DEFINE m == archive[i]
           path == Dest \o m.name
<1>1. m \in Member /\ ~m.rooted /\ Up \notin Range(m.name)
  BY ArchiveIs DEF Safe
<1>2. m.name \in Seq(Parts \cup {Up})
  BY <1>1 DEF Member
<1>3. PICK n \in 1..Depth : Dest \in [1..n -> Parts]
  BY ArchivesOK DEF ArchivesOK, Paths
<1>4. Depth \in Nat /\ Up \notin Parts
  BY ArchivesOK DEF ArchivesOK
<1>5. Dest \in Seq(Parts) /\ Len(Dest) = n /\ n \in Nat
  <2>1. n \in Nat
    BY <1>3, <1>4
  <2>2. Dest \in Seq(Parts)
    BY <1>3, <2>1, SeqDef
  <2>3. DOMAIN Dest = 1..n /\ DOMAIN Dest = 1..Len(Dest) /\ Len(Dest) \in Nat
    BY <1>3, <2>2, LenProperties
  <2> QED
    BY <2>1, <2>2, <2>3
<1>6. Dest \in Seq(Parts \cup {Up})
  BY <1>5, SeqMonotonic
<1>7. Len(m.name) \in Nat /\ DOMAIN m.name = 1..Len(m.name)
  BY <1>2, LenProperties
<1>8. \A k \in 1..Len(m.name) : m.name[k] \in Parts
  <2>1. \A k \in 1..Len(m.name) : m.name[k] \in Parts \cup {Up}
    BY <1>2, ElementOfSeq
  <2>2. \A k \in 1..Len(m.name) : m.name[k] # Up
    BY <1>1, <1>7 DEF Range
  <2> QED
    BY <2>1, <2>2
<1>9. /\ path \in Seq(Parts \cup {Up}) /\ Len(path) = Len(Dest) + Len(m.name)
      /\ \A k \in 1..Len(path) :
            path[k] = IF k <= Len(Dest) THEN Dest[k] ELSE m.name[k - Len(Dest)]
  BY <1>2, <1>6, ConcatProperties
<1> HIDE DEF path, m
<1>10. \A k \in 1..Len(path) : path[k] \in Parts
  <2> SUFFICES ASSUME NEW k \in 1..Len(path) PROVE path[k] \in Parts
    OBVIOUS
  <2>1. CASE k <= Len(Dest)
    <3>1. k \in 1..n /\ path[k] = Dest[k]
      BY <1>5, <1>7, <1>9, <2>1
    <3> QED
      BY <1>3, <3>1
  <2>2. CASE ~(k <= Len(Dest))
    <3>1. k - Len(Dest) \in 1..Len(m.name) /\ path[k] = m.name[k - Len(Dest)]
      BY <1>5, <1>7, <1>9, <2>2
    <3> QED
      BY <1>8, <3>1
  <2> QED
    BY <2>1, <2>2
<1>11. Lands(path) = path
  BY <1>4, <1>9, <1>10, LandsWhereItSays
<1>12. PathOf(i) = path
  BY <1>11 DEF PathOf, path, m
<1>13. Len(path) \in 1..Depth
  <2>1. n + Len(m.name) <= Depth
    BY <1>1, <1>5, ArchivesOK DEF ArchivesOK, m
  <2> QED
    BY <1>3, <1>4, <1>5, <1>7, <1>9, <2>1
<1>14. path \in [1..Len(path) -> Parts]
  <2>1. path \in [1..Len(path) -> Parts \cup {Up}]
    BY <1>9, LenProperties
  <2> QED
    BY <1>10, <2>1
<1>15. path \in Paths
  BY <1>13, <1>14 DEF Paths
<1>16. IsPrefix(Dest, path)
  <2>1. SubSeq(path, 1, Len(Dest)) = Dest
    BY <1>2, <1>6, SubSeqOfConcat1, SubSeqFull DEF path, m
  <2>2. SubSeq(Dest, 1, Len(Dest)) = Dest
    BY <1>5, SubSeqFull
  <2>3. Len(Dest) <= Len(path)
    BY <1>5, <1>7, <1>9
  <2> QED
    BY <2>1, <2>2, <2>3 DEF IsPrefix
<1>17. ~Outside(m)
  BY <1>1, <1>11, <1>16 DEF Outside, path, m
<1> QED
  BY <1>12, <1>15, <1>17 DEF path, m

LEMMA PassedAreSafe ==
    ASSUME archive \in Archives, Passed, NEW i \in Writable(archive)
    PROVE  /\ i \in DOMAIN archive /\ i \in 1..Len(archive)
           /\ PathOf(i) \in Paths /\ ~Outside(archive[i])
<1>1. i \in DOMAIN archive
  BY DEF Writable
<1>2. Safe(archive[i])
  BY DEF Passed
<1> QED
  BY <1>1, <1>2, ArchiveIs, SafeGoesBelow

LEMMA ArchiveBegins == UnzipInit => UnzipInv
<1> SUFFICES ASSUME UnzipInit PROVE UnzipInv
  OBVIOUS
<1>1. home \in [Paths -> {Nothing, Dir, Kept}] /\ before = home
  BY ArchivesOK DEF ArchivesOK, UnzipInit
<1> QED
  BY <1>1 DEF UnzipInit, UnzipInv

LEMMA ArchiveGoesOn == UnzipInv /\ [UnzipNext]_unzipVars => UnzipInv'
<1> SUFFICES ASSUME UnzipInv, [UnzipNext]_unzipVars PROVE UnzipInv'
  OBVIOUS
<1>1. /\ DOMAIN archive = 1..Len(archive) /\ Len(archive) \in Nat
      /\ Writable(archive) \subseteq 1..Len(archive)
      /\ \A i \in DOMAIN archive : archive[i] \in Member
  BY ArchiveIs DEF UnzipInv
<1>2. {Nothing, Dir, Kept} \cap Nat = {}
  BY ArchivesOK DEF ArchivesOK
<1>3. CASE Check
  <2>1. phase = "check" /\ home = before /\ UNCHANGED <<home, archive, before>>
    BY <1>3 DEF Check, UnzipInv
  <2>2. CASE phase' = "refused" /\ UNCHANGED plan
    BY <2>1, <2>2 DEF UnzipInv, PathOf, MayChange
  <2>3. CASE phase' = "parents" /\ plan' = Writable(archive) /\ Passed
    <3>1. Writable(archive) \ plan' = {} /\ Writable(archive') \ plan' = {}
      BY <2>1, <2>3
    <3>2. Passed'
      BY <2>1, <2>3 DEF Passed
    <3> QED
      BY <2>1, <2>3, <3>1, <3>2 DEF UnzipInv, PathOf, MayChange
  <2>4. ~(\/ TooBig(archive)
          \/ \E i \in Writable(archive) : archive[i].link \/ ~Safe(archive[i])) => Passed
    BY DEF Passed
  <2> QED
    BY <1>3, <2>2, <2>3, <2>4 DEF Check
<1>4. CASE Finish
  BY <1>4 DEF Finish, UnzipInv, Passed, PathOf, MayChange
<1>5. CASE MakeParents
  <2> DEFINE Above == Parents(PathOf(Coming))
  <2>1. /\ phase = "parents" /\ plan # {} /\ UNCHANGED <<archive, before, plan>>
        /\ phase' \in {"member", "failed"}
    BY <1>5 DEF MakeParents
  <2>2. PICK reach \in 1..Len(PathOf(Coming)) :
          /\ \A q \in Above : Len(q) < reach => home[q] \in {Nothing, Dir}
          /\ home' = [q \in Paths |-> IF q \in Above /\ Len(q) < reach THEN Dir ELSE home[q]]
    BY <1>5 DEF MakeParents
  <2>3. ASSUME NEW q \in Paths
        PROVE  home'[q] = home[q] \/ (home'[q] = Dir /\ home[q] \notin Nat /\ q \in Above)
    <3>1. CASE q \in Above /\ Len(q) < reach
      BY <1>2, <2>2, <3>1
    <3>2. CASE ~(q \in Above /\ Len(q) < reach)
      BY <2>2, <3>2
    <3> QED
      BY <3>1, <3>2
  <2>4. home' \in [Paths -> {Nothing, Dir, Kept, Part} \cup Nat]
    BY <2>2 DEF UnzipInv
  <2>5. Coming \in Writable(archive)
    <3>1. plan \in SUBSET Nat /\ plan \subseteq Writable(archive)
      BY <1>1 DEF UnzipInv
    <3> QED
      BY <2>1, <3>1, MinIs DEF Coming
  <2> HIDE DEF Above
  <2>6. ASSUME NEW i \in Writable(archive) \ plan
        PROVE  home'[PathOf(i)] \in i..Len(archive)
    <3>1. PathOf(i) \in Paths /\ home[PathOf(i)] \in i..Len(archive) /\ i \in 1..Len(archive)
      BY <2>1, PassedAreSafe DEF UnzipInv
    <3>2. home[PathOf(i)] \in Nat
      BY <1>1, <3>1
    <3> QED
      BY <2>3, <3>1, <3>2
  <2>7. Passed' /\ archive' = archive /\ \A i : PathOf(i)' = PathOf(i)
    BY <2>1 DEF UnzipInv, Passed, PathOf
  <2>8. \A p \in Paths : home'[p] # before[p] => MayChange(p)'
    <3> SUFFICES ASSUME NEW p \in Paths, home'[p] # before[p] PROVE MayChange(p)'
      OBVIOUS
    <3>1. CASE home'[p] = home[p]
      BY <2>7, <3>1 DEF UnzipInv, MayChange
    <3>2. CASE home'[p] = Dir /\ p \in Above
      BY <2>5, <2>7, <3>2 DEF MayChange, Above
    <3> QED
      BY <2>3, <3>1, <3>2
  <2> QED
    BY <2>1, <2>4, <2>6, <2>7, <2>8 DEF UnzipInv
<1>6. CASE WriteMember
  <2> DEFINE k == Coming
             p == PathOf(k)
  <2>1. /\ phase = "member" /\ plan # {} /\ Passed /\ UNCHANGED <<archive, before>>
        /\ \/ phase' = "failed" /\ UNCHANGED <<home, plan>>
           \/ phase' = "failed" /\ home' = [home EXCEPT ![p] = Part] /\ UNCHANGED plan
           \/ /\ phase' = "parents" /\ plan' = plan \ {k}
              /\ home' = [home EXCEPT ![p] = k]
    BY <1>6 DEF WriteMember, UnzipInv
  <2>2. /\ k \in plan /\ \A y \in plan : k <= y
        /\ k \in Writable(archive)
    <3>1. plan \in SUBSET Nat /\ plan \subseteq Writable(archive)
      BY <1>1 DEF UnzipInv
    <3> QED
      BY <2>1, <3>1, MinIs DEF Coming
  <2>3. p \in Paths /\ k \in 1..Len(archive) /\ k \in DOMAIN archive
    BY <2>1, <2>2, PassedAreSafe DEF UnzipInv
  <2> HIDE DEF k, p
  <2>4. Passed' /\ archive' = archive /\ \A i : PathOf(i)' = PathOf(i)
    BY <2>1 DEF Passed, PathOf
  <2>5. CASE phase' = "failed" /\ UNCHANGED <<home, plan>>
    BY <2>1, <2>4, <2>5 DEF UnzipInv, PathOf, MayChange
  <2>7. CASE phase' = "failed" /\ home' = [home EXCEPT ![p] = Part] /\ UNCHANGED plan
    <3>1. /\ home' \in [Paths -> {Nothing, Dir, Kept, Part} \cup Nat]
          /\ \A q \in Paths : q # p => home'[q] = home[q]
      BY <2>3, <2>7 DEF UnzipInv
    <3>2. \A q \in Paths : home'[q] # before[q] => MayChange(q)'
      <4>1. PathOf(k) = p
        BY DEF p
      <4> QED
        BY <2>2, <2>4, <3>1, <4>1 DEF UnzipInv, MayChange
    <3> QED
      BY <2>1, <2>4, <2>7, <3>1, <3>2 DEF UnzipInv
  <2>6. CASE /\ phase' = "parents" /\ plan' = plan \ {k}
             /\ home' = [home EXCEPT ![p] = k]
    <3>1. /\ home' \in [Paths -> {Nothing, Dir, Kept, Part} \cup Nat]
          /\ home'[p] = k
          /\ \A q \in Paths : q # p => home'[q] = home[q]
      BY <1>1, <2>3, <2>6 DEF UnzipInv
    <3>2. \A i \in Writable(archive) \ plan', y \in plan' : i < y
      <4> SUFFICES ASSUME NEW i \in Writable(archive) \ plan', NEW y \in plan' PROVE i < y
        OBVIOUS
      <4>1. y \in plan /\ y # k /\ y \in Nat /\ k \in Nat /\ k <= y
        BY <1>1, <2>2, <2>3, <2>6 DEF UnzipInv
      <4>2. CASE i = k
        BY <4>1, <4>2
      <4>3. CASE i # k
        BY <2>1, <2>6, <4>1, <4>3 DEF UnzipInv
      <4> QED
        BY <4>2, <4>3
    <3>3. ASSUME NEW i \in Writable(archive) \ plan'
          PROVE  home'[PathOf(i)] \in i..Len(archive)
      <4>1. PathOf(i) \in Paths /\ i \in 1..Len(archive)
        BY <2>1, PassedAreSafe DEF UnzipInv
      <4>2. CASE i = k
        BY <1>1, <2>3, <3>1, <4>1, <4>2 DEF p
      <4>3. CASE i # k
        <5>1. i \in Writable(archive) \ plan /\ i < k
          BY <2>1, <2>2, <2>6, <3>3, <4>3 DEF UnzipInv
        <5>2. home[PathOf(i)] \in i..Len(archive)
          BY <2>1, <5>1 DEF UnzipInv
        <5>3. k \in i..Len(archive)
          BY <1>1, <2>3, <4>1, <5>1
        <5> QED
          BY <3>1, <4>1, <5>2, <5>3
      <4> QED
        BY <4>2, <4>3
    <3>4. \A q \in Paths : home'[q] # before[q] => MayChange(q)'
      <4>1. PathOf(k) = p
        BY DEF p
      <4> QED
        BY <2>2, <2>4, <3>1, <4>1 DEF UnzipInv, MayChange
    <3>5. plan' \subseteq Writable(archive)
      BY <2>6 DEF UnzipInv
    <3> QED
      BY <2>1, <2>4, <2>6, <3>1, <3>2, <3>3, <3>4, <3>5 DEF UnzipInv, PathOf
  <2> QED
    BY <2>1, <2>5, <2>6, <2>7
<1>7. CASE UNCHANGED unzipVars
  BY <1>7 DEF unzipVars, UnzipInv, Passed, PathOf, MayChange
<1> QED
  BY <1>3, <1>4, <1>5, <1>6, <1>7 DEF UnzipNext, Done

LEMMA ArchiveAlways == UnzipSpec => []UnzipInv
  BY ArchiveBegins, ArchiveGoesOn, PTL DEF UnzipSpec

\* An archive with a symlink, a file that leads out, or too much in it leaves the
\* home as it was, for any archive, home and caps; a member whose name ends in "/"
\* is neither, whatever its mode and wherever its name leads.
THEOREM BadArchivesWriteNothing == UnzipSpec => []BadArchiveWritesNothing
<1>1. UnzipInv => BadArchiveWritesNothing
  <2> SUFFICES ASSUME UnzipInv, home # before,
                      \/ TooBig(archive)
                      \/ \E i \in DOMAIN archive :
                            ~archive[i].dir /\ (archive[i].link \/ Outside(archive[i]))
               PROVE  FALSE
    BY DEF BadArchiveWritesNothing
  <2>1. Passed
    BY DEF UnzipInv
  <2>2. PICK i \in Writable(archive) : archive[i].link \/ Outside(archive[i])
    BY <2>1 DEF Passed, Writable
  <2> QED
    BY <2>1, <2>2, PassedAreSafe DEF UnzipInv, Passed
<1> QED
  BY <1>1, ArchiveAlways, PTL

\* What is answered ok is unpacked, file by file, and nothing else changed but the
\* directories above them.
THEOREM OkIsUnpacked == UnzipSpec => []OkMeansUnpacked
<1>1. UnzipInv => OkMeansUnpacked
  BY DEF UnzipInv, OkMeansUnpacked, MayChange
<1> QED
  BY <1>1, ArchiveAlways, PTL

---------------------------------------------------------------------------
(* A home is a tree.                                                        *)

LEMMA ParentsAre ==
    ASSUME NEW p \in Paths
    PROVE  /\ Len(p) \in Nat
           /\ \A q \in Parents(p) : /\ q \in Paths /\ Len(q) \in Nat /\ Len(q) < Len(p)
                                    /\ Parents(q) \subseteq Parents(p)
<1>1. PICK n \in 1..Depth : p \in [1..n -> Parts]
  BY DEF Paths
<1>2. n \in Nat /\ Depth \in Nat
  BY <1>1, ArchivesOK DEF ArchivesOK
<1>3. p \in Seq(Parts) /\ Len(p) = n
  <2>1. p \in Seq(Parts)
    BY <1>1, <1>2, SeqDef
  <2>2. DOMAIN p = 1..n /\ DOMAIN p = 1..Len(p) /\ Len(p) \in Nat
    BY <1>1, <2>1, LenProperties
  <2> QED
    BY <1>2, <2>1, <2>2
<1>4. ASSUME NEW q \in Parents(p)
      PROVE  /\ q \in Paths /\ Len(q) \in Nat /\ Len(q) < Len(p)
             /\ Parents(q) \subseteq Parents(p)
  <2>1. PICK k \in 1..(n - 1) : q = SubSeq(p, 1, k)
    BY <1>3 DEF Parents
  <2>2. k \in 1..n /\ 1 \in 1..n + 1
    BY <1>2
  <2>3. /\ q \in Seq(Parts) /\ Len(q) = k
    BY <1>2, <1>3, <2>1, <2>2, SubSeqProperties
  <2>4. q \in [1..k -> Parts]
    BY <2>3, LenProperties
  <2>5. q \in Paths
    <3>1. k \in 1..Depth
      BY <1>1, <1>2, <2>2
    <3> QED
      BY <2>4, <3>1 DEF Paths
  <2>6. ASSUME NEW r \in Parents(q) PROVE r \in Parents(p)
    <3>1. PICK i \in 1..(k - 1) : r = SubSeq(q, 1, i)
      BY <2>3 DEF Parents
    <3>2. i \in 1..(n - 1) /\ i <= k
      BY <1>2, <2>1, <3>1
    <3>3. SubSeq(SubSeq(p, 1, k), 1, i) = SubSeq(p, 1, i)
      <4>1. 1 \in 1..Len(p) /\ k \in 1..Len(p) /\ 1 \in 1..(k - 1 + 1) /\ i \in 1..(k - 1 + 1)
        BY <1>2, <1>3, <2>2, <3>1, <3>2
      <4> QED
        BY <1>3, <4>1
    <3> QED
      BY <1>3, <2>1, <3>1, <3>2, <3>3 DEF Parents
  <2> QED
    BY <1>2, <1>3, <2>1, <2>3, <2>5, <2>6
<1> QED
  BY <1>2, <1>3, <1>4

\* The parents of what is written next are directories by then.
TreeInv ==
    /\ home \in [Paths -> {Nothing, Dir, Kept, Part} \cup DOMAIN archive]
    /\ IsTree(home)
    /\ phase = "member" => \A q \in Parents(PathOf(Coming)) : home[q] = Dir

LEMMA TreeGoesOn == UnzipInv /\ TreeInv /\ [UnzipNext]_unzipVars => TreeInv'
<1> SUFFICES ASSUME UnzipInv, TreeInv, [UnzipNext]_unzipVars PROVE TreeInv'
  OBVIOUS
<1> DEFINE Same == UNCHANGED <<home, archive>> /\ phase' # "member"
<1>1. CASE Same
  BY <1>1 DEF TreeInv, IsTree
<1>2. ASSUME plan # {}, phase \in {"parents", "member"}
      PROVE  Coming \in DOMAIN archive /\ PathOf(Coming) \in Paths
  <2>1. Passed /\ plan \in SUBSET Nat /\ plan \subseteq Writable(archive) /\ archive \in Archives
    BY <1>2, ArchiveIs DEF UnzipInv
  <2>2. Coming \in plan
    BY <1>2, <2>1, MinIs DEF Coming
  <2> QED
    BY <2>1, <2>2, PassedAreSafe
<1>3. CASE MakeParents
  <2> DEFINE Above == Parents(PathOf(Coming))
  <2>0. PICK reach \in 1..Len(PathOf(Coming)) :
          /\ home' = [q \in Paths |-> IF q \in Above /\ Len(q) < reach THEN Dir ELSE home[q]]
          /\ \/ reach = Len(PathOf(Coming)) /\ phase' = "member"
             \/ phase' = "failed"
    BY <1>3 DEF MakeParents
  <2> DEFINE Made(q) == q \in Above /\ Len(q) < reach
  <2>1. /\ phase = "parents" /\ plan # {} /\ UNCHANGED <<archive, before, plan>>
        /\ home' = [q \in Paths |-> IF Made(q) THEN Dir ELSE home[q]]
    BY <1>3, <2>0 DEF MakeParents
  <2>2. PathOf(Coming) \in Paths
    BY <1>2, <2>1
  <2>3. \A q \in Above : /\ q \in Paths /\ Len(q) \in Nat /\ Parents(q) \subseteq Above
                        /\ Len(q) < Len(PathOf(Coming))
    BY <2>2, ParentsAre
  <2>4. ASSUME NEW q \in Above, Made(q), NEW r \in Parents(q) PROVE Made(r)
    <3>1. r \in Above /\ Len(r) \in Nat /\ Len(q) \in Nat /\ Len(r) < Len(q)
      BY <2>3, ParentsAre
    <3>2. reach \in Nat
      BY <2>2, ParentsAre
    <3> QED
      BY <2>4, <3>1, <3>2
  <2>5. PathOf(Coming)' = PathOf(Coming)
    BY <2>1 DEF PathOf, Coming
  <2>6. phase' = "member" => \A q \in Above : home'[q] = Dir
    <3> SUFFICES ASSUME phase' = "member", NEW q \in Above PROVE home'[q] = Dir
      OBVIOUS
    <3>1. reach = Len(PathOf(Coming))
      BY <2>0
    <3> QED
      BY <2>0, <2>3, <3>1
  <2> HIDE DEF Made
  <2>7. IsTree(home')
    <3> SUFFICES ASSUME NEW p \in Paths, home'[p] # Nothing, NEW q \in Parents(p)
                 PROVE  home'[q] = Dir
      BY DEF IsTree
    <3>1. q \in Paths
      BY ParentsAre
    <3>2. CASE Made(p)
      <4>1. p \in Above
        BY <3>2 DEF Made
      <4> QED
        BY <2>1, <2>4, <3>1, <3>2, <4>1
    <3>3. CASE ~Made(p)
      <4>1. home[q] = Dir
        BY <2>1, <3>3 DEF TreeInv, IsTree
      <4> QED
        BY <2>1, <3>1, <4>1
    <3> QED
      BY <3>2, <3>3
  <2>8. home' \in [Paths -> {Nothing, Dir, Kept, Part} \cup DOMAIN archive']
    BY <2>1 DEF TreeInv
  <2>9. (\A q \in Parents(PathOf(Coming)) : home[q] = Dir)' <=> \A q \in Above : home'[q] = Dir
    BY <2>5
  <2>10. IsTree(home)'
    BY <2>7 DEF IsTree
  <2> QED
    BY <2>6, <2>8, <2>9, <2>10 DEF TreeInv
<1>4. CASE WriteMember
  <2> DEFINE k == Coming
             p == PathOf(k)
  <2>1. /\ phase = "member" /\ plan # {} /\ UNCHANGED <<archive, before>>
        /\ \A q \in Parents(p) : home[q] = Dir
    BY <1>4 DEF WriteMember, UnzipInv, TreeInv
  <2>2. k \in DOMAIN archive /\ p \in Paths
    BY <1>2, <2>1
  <2> HIDE DEF k, p
  <2>3. CASE phase' = "failed" /\ UNCHANGED <<home, plan>>
    BY <1>1, <2>1, <2>3
  <2>4. ASSUME NEW x \in {k, Part}, phase' # "member", home[p] # Dir,
               home' = [home EXCEPT ![p] = x]
        PROVE  TreeInv'
    <3>1. /\ home' \in [Paths -> {Nothing, Dir, Kept, Part} \cup DOMAIN archive']
          /\ \A q \in Paths : q # p => home'[q] = home[q]
      BY <2>1, <2>2, <2>4 DEF TreeInv
    <3>2. IsTree(home')
      <4> SUFFICES ASSUME NEW y \in Paths, home'[y] # Nothing, NEW q \in Parents(y)
                   PROVE  home'[q] = Dir
        BY DEF IsTree
      <4>1. q \in Paths
        BY ParentsAre
      <4>2. home[q] = Dir
        BY <2>1, <3>1 DEF TreeInv, IsTree
      <4> QED
        BY <2>4, <3>1, <4>1, <4>2
    <3>3. IsTree(home)'
      BY <3>2 DEF IsTree
    <3> QED
      BY <2>4, <3>1, <3>3 DEF TreeInv
  <2> QED
    BY <1>4, <2>3, <2>4 DEF WriteMember, k, p
<1>5. CASE Check \/ Finish
  BY <1>1, <1>5 DEF Check, Finish
<1>6. CASE UNCHANGED unzipVars
  BY <1>6 DEF unzipVars, TreeInv, IsTree, PathOf, Coming
<1> QED
  BY <1>3, <1>4, <1>5, <1>6 DEF UnzipNext, Done

\* An unpacking leaves a tree: no member is put below a file, or over a
\* directory that holds anything.
THEOREM HomeStaysATree == UnzipSpec => []HomeOK
<1>1. UnzipInit => TreeInv
  BY ArchivesOK DEF ArchivesOK, UnzipInit, TreeInv
<1>2. UnzipInv /\ TreeInv => HomeOK
  BY DEF UnzipInv, TreeInv, HomeOK, Writable
<1> QED
  BY <1>1, <1>2, ArchiveAlways, TreeGoesOn, PTL DEF UnzipSpec
=============================================================================
