----------------------------- MODULE Delivery -----------------------------
(***************************************************************************)
(* fileserv.py: one response over a descriptor opened beforehand.  The     *)
(* Range header decides what is promised; the body is read chunk by chunk  *)
(* while the slot's shell makes the file longer or shorter and the client  *)
(* may go away.  Positions in the file stand for its bytes.                *)
(***************************************************************************)
EXTENDS Integers

CONSTANTS
    MaxSize,    \* of the file
    Chunk,      \* CHUNK
    Absent, Bad   \* a part of the header that is absent, or not a number

ASSUME SizesOK ==
    /\ MaxSize \in Nat /\ Chunk \in Nat \ {0}
    /\ Absent \notin Int /\ Bad \notin Int

VARIABLES
    len,        \* the file's length by now
    shrunk,     \* it was shorter than the response needs at some time
    resp,       \* what __init__ decided
    pc,
    sent,       \* the next position to read
    chunk,      \* the bytes read and not sent yet
    body,       \* bytes of the body sent so far
    finals,     \* messages with more_body False
    closed      \* how often the descriptor was closed

deliveryVars == <<len, shrunk, resp, pc, sent, chunk, body, finals, closed>>

\* "bytes=first-last"; a header in another unit or with several ranges is Bad.
Headers == [first : 0..(MaxSize + 1) \cup {Absent, Bad},
            last : -1..(MaxSize + 1) \cup {Absent, Bad}] \cup {Absent, Bad}

Lesser(i, k) == IF i < k THEN i ELSE k

---------------------------------------------------------------------------
(* The header.                                                              *)

Ignored == [kind |-> "ignored", start |-> 0, end |-> 0]
Unsatisfiable == [kind |-> "unsat", start |-> 0, end |-> 0]
Slice(i, k) == [kind |-> "range", start |-> i, end |-> k]

SuffixRange(n, size) ==
    IF n <= 0 THEN Unsatisfiable
    ELSE Slice(IF n < size THEN size - n ELSE 0, size)

\* Mutant of PlainRange: the last position is taken as exclusive.
PlainRange_Exclusive(start, last, size) ==
    LET end == IF last = Absent THEN size ELSE last IN
    IF start >= size \/ end <= start THEN Unsatisfiable
    ELSE Slice(start, Lesser(end, size))

PlainRange(start, last, size) ==
    LET end == IF last = Absent THEN size ELSE last + 1 IN
    IF start >= size \/ end <= start THEN Unsatisfiable
    ELSE Slice(start, Lesser(end, size))

\* _parse_range
Parsed(h, size) ==
    IF h \in {Absent, Bad} THEN Ignored
    ELSE IF h.first = Absent
         THEN IF h.last \in Int THEN SuffixRange(h.last, size) ELSE Ignored
    ELSE IF h.first = Bad \/ h.last = Bad THEN Ignored
    ELSE PlainRange(h.first, h.last, size)

\* FdFileResponse.__init__: status, what __call__ will send, Content-Length
Response(h, size) ==
    LET p == Parsed(h, size) IN
    [header |-> h, size |-> size,
     status |-> CASE p.kind = "unsat" -> 416 [] p.kind = "range" -> 206
                  [] p.kind = "ignored" -> 200,
     start |-> IF p.kind = "range" THEN p.start ELSE 0,
     end |-> IF p.kind = "range" THEN p.end ELSE size,
     length |-> CASE p.kind = "unsat" -> 0 [] p.kind = "range" -> p.end - p.start
                  [] p.kind = "ignored" -> size]

DeliveryInit ==
    /\ len \in 0..MaxSize
    /\ \E h \in Headers : resp = Response(h, len)
    /\ pc = "start" /\ sent = 0 /\ chunk = 0 /\ body = 0
    /\ finals = 0 /\ closed = 0 /\ shrunk = FALSE

---------------------------------------------------------------------------
(* __call__                                                                 *)

Start ==
    /\ pc = "start"
    /\ IF resp.end <= resp.start
       THEN pc' = "final" /\ UNCHANGED sent
       ELSE pc' = "read" /\ sent' = resp.start
    /\ UNCHANGED <<len, shrunk, resp, chunk, body, finals, closed>>

\* No more than the range, and nothing once the file has become too short.
Read ==
    LET n == Lesser(Lesser(Chunk, resp.end - sent), IF len > sent THEN len - sent ELSE 0)
    IN
    /\ pc = "read"
    /\ chunk' = n /\ sent' = sent + n
    /\ pc' = IF n = 0 THEN "final" ELSE "send"
    /\ UNCHANGED <<len, shrunk, resp, body, finals, closed>>

\* Mutant of Send: the last chunk does not end the body.
Send_Open ==
    /\ pc = "send"
    /\ body' = body + chunk
    /\ UNCHANGED finals
    /\ pc' = IF sent < resp.end THEN "read" ELSE "close"
    /\ UNCHANGED <<len, shrunk, resp, sent, chunk, closed>>

\* The last chunk of the range is the last message.
Send ==
    /\ pc = "send"
    /\ body' = body + chunk
    /\ IF sent < resp.end
       THEN pc' = "read" /\ UNCHANGED finals
       ELSE pc' = "close" /\ finals' = finals + 1
    /\ UNCHANGED <<len, shrunk, resp, sent, chunk, closed>>

\* An empty message ends a body that is empty or was cut short.
SendFinal ==
    /\ pc = "final"
    /\ finals' = finals + 1
    /\ pc' = "close"
    /\ UNCHANGED <<len, shrunk, resp, sent, chunk, body, closed>>

\* send raises because the client is gone, or os.read fails.
Raise ==
    /\ pc \in {"start", "read", "send", "final"}
    /\ pc' = "broken"
    /\ UNCHANGED <<len, shrunk, resp, sent, chunk, body, finals, closed>>

\* Mutant of Close: only a body that was sent to its end is closed.
Close_NoFinally ==
    /\ pc \in {"close", "broken"}
    /\ closed' = IF pc = "close" THEN closed + 1 ELSE closed
    /\ pc' = IF pc = "close" THEN "done" ELSE "gone"
    /\ UNCHANGED <<len, shrunk, resp, sent, chunk, body, finals>>

\* finally
Close ==
    /\ pc \in {"close", "broken"}
    /\ closed' = closed + 1
    /\ pc' = IF pc = "close" THEN "done" ELSE "gone"
    /\ UNCHANGED <<len, shrunk, resp, sent, chunk, body, finals>>

---------------------------------------------------------------------------

ShellResizes ==
    /\ pc \notin {"done", "gone"}
    /\ \E k \in 0..MaxSize :
          /\ len' = k
          /\ shrunk' = (shrunk \/ k < resp.end)
    /\ UNCHANGED <<resp, pc, sent, chunk, body, finals, closed>>

Over == pc \in {"done", "gone"} /\ UNCHANGED deliveryVars

Call == Start \/ Read \/ Send \/ SendFinal \/ Close

DeliveryNext == Call \/ Raise \/ ShellResizes \/ Over

DeliverySpec == DeliveryInit /\ [][DeliveryNext]_deliveryVars

\* The loop and the reading threads go on, and a client reads or goes away.
FairDelivery == DeliverySpec /\ WF_deliveryVars(Call \/ Raise)

---------------------------------------------------------------------------
(* Properties.                                                              *)

ResponseTypeOK ==
    /\ len \in 0..MaxSize /\ shrunk \in BOOLEAN
    /\ pc \in {"start", "read", "send", "final", "close", "broken", "done", "gone"}
    /\ sent \in 0..MaxSize /\ chunk \in 0..Chunk /\ body \in 0..MaxSize
    /\ finals \in 0..1 /\ closed \in 0..1
    /\ resp.start \in 0..MaxSize /\ resp.end \in 0..MaxSize /\ resp.length \in 0..MaxSize

\* The positions a header asks for, read as HTTP defines it
Asked(h, size) ==
    {i \in 0..(size - 1) :
        IF h.first = Absent THEN i >= size - h.last
        ELSE i >= h.first /\ (h.last = Absent \/ i <= h.last)}

\* A 206 promises exactly the positions the header asked for, a 416 is answered
\* when there are none, and a header that is ignored names no range at all.
RangeIsWhatWasAsked ==
    LET h == resp.header IN
    \/ resp.status = 200 /\ (h \in {Absent, Bad} \/ Bad \in {h.first, h.last}
                                \/ (h.first = Absent /\ h.last = Absent))
    \/ resp.status = 206 /\ resp.start..(resp.end - 1) = Asked(h, resp.size)
    \/ resp.status = 416 /\ Asked(h, resp.size) = {}

\* Whatever happens to the file while it is sent, the body is never longer than
\* Content-Length; it is complete unless the file became too short or the
\* client left; and one last message ends it.
BodyFitsItsLength ==
    resp.status # 416 =>
        /\ body <= resp.length
        /\ pc = "done" => finals = 1 /\ (shrunk \/ body = resp.length)

\* A range that cannot be satisfied is answered without the file: only an
\* ignored header gets the full body (_parse_range: "a full body is a valid
\* response to a multi-range request").  Not kept: __call__ takes the range that
\* is missing for the whole file.
RefusedRangeSendsNothing == resp.status = 416 => body = 0

\* The descriptor is closed exactly once in the end, whether the body was sent,
\* cut short or abandoned (FdFileResponse: "closes it exactly once").
ClosedAtLast == <>[](closed = 1)
============================================================================
