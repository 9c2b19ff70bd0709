------------------------------ MODULE HomeOps ------------------------------
(***************************************************************************)
(* The mutations the panel makes to the names of one directory of a home:  *)
(* upload and write (routes/files.py, _stream_to_disk; safepath.py,        *)
(* open_write_fd, abort_write), rename, copy and remove.  Each runs in     *)
(* steps, beside other requests and beside the slot's shell, and goes back *)
(* to its path by name between two steps.  How a path is walked is         *)
(* SafeWalk's subject; here a path is a name of the directory.             *)
(***************************************************************************)
EXTENDS Naturals, Sequences, FiniteSets

CONSTANTS
    Names,        \* the names of the directory
    Files, Links, \* inodes
    Target,       \* the name each link leads to
    Workers,      \* requests in flight
    Kinds,        \* what they do: upload, write, move, copy, remove
    ShellNames,   \* the names somebody puts and takes things at from the slot's
                  \* shell meanwhile, or moves them from
    Cap, MaxLen,  \* max_upload_mb and the longest body, in chunks
    Faults,       \* "short": os.write stores less; "nospace": it fails
    None, Old, Torn

ASSUME ConstantsOK ==
    /\ Cap \in Nat /\ MaxLen \in Nat \ {0}
    /\ Target \in [Links -> Names]
    /\ ShellNames \subseteq Names
    /\ Files \cap Links = {} /\ None \notin Files \cup Links \cup Names \cup Workers
    /\ Kinds \subseteq {"upload", "write", "move", "copy", "remove"}
    /\ Faults \subseteq {"short", "nospace"}
    /\ Old # Torn /\ {Old, Torn} \cap Workers = {}

VARIABLES
    entry,      \* name -> inode or None
    content,    \* file -> its chunks: who sent them, Torn if short, Old once that is over
    job,        \* worker -> the operation it runs
    alone       \* the worker nobody has disturbed since its request arrived

vars == <<entry, content, job, alone>>

Steps == {"open", "write", "abort", "unlink", "stat", "rename", "source", "link",
          "read", "create", "copy"}

Job == [pc : Steps \cup {"idle", "ok", "refused"},
        kind : Kinds \cup {"none"},
        name : Names \cup {None},
        to : Names \cup {None},      \* of an upload or a write: where links led it
        len : 0..MaxLen, sent : 0..MaxLen,
        fd : Files \cup {None}, src : Files \cup {None},
        twin : BOOLEAN]              \* the file opened had another name (history)

Idle == [pc |-> "idle", kind |-> "none", name |-> None, to |-> None,
         len |-> 0, sent |-> 0, fd |-> None, src |-> None, twin |-> FALSE]

At(w, step) == job[w].pc = step
Goto(w, step) == job' = [job EXCEPT ![w].pc = step]

\* Whatever raised, every descriptor was closed on the way out.
Refuse(w) ==
    job' = [job EXCEPT ![w] = [@ EXCEPT !.pc = "refused", !.len = 0, !.sent = 0,
                                        !.fd = None, !.src = None]]

Init ==
    /\ entry = [n \in Names |-> None]
    /\ content = [f \in Files |-> <<>>]
    /\ job = [w \in Workers |-> Idle]
    /\ alone = None

\* An inode no name leads to and nobody holds.
Fresh(f) ==
    /\ \A n \in Names : entry[n] # f
    /\ \A w \in Workers : f \notin {job[w].fd, job[w].src}

\* Some name but n leads to file f as well: a hard link.
Twin(f, n) == \E m \in Names \ {n} : entry[m] = f

\* A chain of symlinks leads from n to m, its end; a loop ends at a link.
Leads(n, m) ==
    LET last == Cardinality(Links) + 1
        Hop(k) == IF entry[k] \in Links THEN Target[entry[k]] ELSE k
    IN \E p \in [0..last -> Names] :
          /\ p[0] = n /\ p[last] = m
          /\ \A i \in 1..last : p[i] = Hop(p[i - 1])

\* Chunk k of a file is written; what lies between its end and k reads as zeros.
Stored(chunks, k, c) ==
    [i \in 1..(IF k > Len(chunks) THEN k ELSE Len(chunks)) |->
        IF i = k THEN c ELSE IF i <= Len(chunks) THEN chunks[i] ELSE Torn]

---------------------------------------------------------------------------
(* Requests.                                                                *)

FirstStep(kind) ==
    CASE kind \in {"upload", "write"} -> "open"
      [] kind \in {"move", "copy"} -> "stat"
      [] kind = "remove" -> "unlink"

Begin(w, kind, n, m, len) ==
    /\ At(w, "idle")
    /\ alone' = IF \A x \in Workers : At(x, "idle") THEN w ELSE None
    /\ job' = [job EXCEPT ![w] =
                  [Idle EXCEPT !.pc = FirstStep(kind), !.kind = kind,
                               !.name = n, !.to = m, !.len = len]]
    /\ UNCHANGED <<entry, content>>

\* The response; the chunks it left, whole or not, are part of the tree from now
\* on, and a file that has neither a name nor a holder any more is gone.
Reply(w) ==
    LET Gone(f) ==
          /\ \A n \in Names : entry[n] # f
          /\ \A x \in Workers \ {w} : f \notin {job[x].fd, job[x].src}
    IN
    /\ job[w].pc \in {"ok", "refused"}
    /\ job' = [job EXCEPT ![w] = Idle]
    /\ content' = [f \in Files |->
                      IF Gone(f) THEN <<>>
                      ELSE [i \in DOMAIN content[f] |->
                               IF content[f][i] \in {w, Torn} THEN Old ELSE content[f][i]]]
    /\ UNCHANGED entry

---------------------------------------------------------------------------
(* Upload and write.                                                        *)

\* Mutant of OpenForWrite: the file is opened without O_TRUNC.
OpenForWrite_Keeps(w) ==
    \E n \in Names :
       /\ At(w, "open") /\ Leads(job[w].name, n)
       /\ \/ /\ entry[n] \in Files
             /\ job' = [job EXCEPT ![w].pc = "write", ![w].fd = entry[n], ![w].to = n,
                                   ![w].twin = Twin(entry[n], n)]
             /\ UNCHANGED <<entry, content>>
          \/ \E f \in Files :
                /\ entry[n] = None /\ Fresh(f)
                /\ entry' = [entry EXCEPT ![n] = f]
                /\ content' = [content EXCEPT ![f] = <<>>]
                /\ job' = [job EXCEPT ![w].pc = "write", ![w].fd = f, ![w].to = n]

\* O_CREAT | O_TRUNC at the end of the links; a loop of links is refused, and
\* so is a file when there is no inode left.
OpenForWrite(w) ==
    \E n \in Names :
       LET Found == IF entry[n] = None THEN {f \in Files : Fresh(f)}
                                       ELSE {entry[n]} \cap Files
       IN
       /\ At(w, "open") /\ Leads(job[w].name, n)
       /\ \/ \E f \in Found :
                /\ entry' = [entry EXCEPT ![n] = f]
                /\ content' = [content EXCEPT ![f] = <<>>]
                /\ job' = [job EXCEPT ![w].pc = "write", ![w].fd = f, ![w].to = n,
                                      ![w].twin = Twin(f, n)]
          \/ /\ Found = {}
             /\ Refuse(w)
             /\ UNCHANGED <<entry, content>>

Store(w, c) ==
    LET f == job[w].fd
        k == job[w].sent + 1
    IN /\ content' = [content EXCEPT ![f] = Stored(@, k, c)]
       /\ job' = [job EXCEPT ![w].sent = k]

\* Mutant of UploadChunk: the refused upload is not aborted.
UploadChunk_NoAbort(w) ==
    /\ At(w, "write") /\ job[w].kind = "upload"
    /\ IF job[w].sent = job[w].len THEN Goto(w, "ok") /\ UNCHANGED content
       ELSE IF job[w].sent + 1 > Cap THEN Refuse(w) /\ UNCHANGED content
       ELSE Store(w, w)
    /\ UNCHANGED entry

\* One turn of _stream_to_disk's loop.  os.write's count is not looked at, so a
\* short write goes unnoticed; only one that stores nothing raises.
UploadChunk(w) ==
    /\ At(w, "write") /\ job[w].kind = "upload"
    /\ \/ job[w].sent = job[w].len /\ Goto(w, "ok") /\ UNCHANGED content
       \/ /\ job[w].sent < job[w].len
          /\ IF job[w].sent + 1 > Cap
             THEN Goto(w, "abort") /\ UNCHANGED content
             ELSE \/ Store(w, w)
                  \/ "short" \in Faults /\ Store(w, Torn)
                  \/ "nospace" \in Faults /\ Goto(w, "abort") /\ UNCHANGED content
    /\ UNCHANGED entry

\* abort_write removes the path by its name, whatever has that name by now.
Abort(w) ==
    /\ At(w, "abort")
    /\ entry' = [entry EXCEPT ![job[w].name] = None]
    /\ Refuse(w)
    /\ UNCHANGED content

\* _write_parts: a buffered file, which writes all or raises; no cap, and a
\* failed write stays where it got.
WriteChunk(w) ==
    /\ At(w, "write") /\ job[w].kind = "write"
    /\ \/ job[w].sent = job[w].len /\ Goto(w, "ok") /\ UNCHANGED content
       \/ job[w].sent < job[w].len /\ Store(w, w)
       \/ /\ "nospace" \in Faults /\ job[w].sent < job[w].len
          /\ Refuse(w) /\ UNCHANGED content
    /\ UNCHANGED entry

---------------------------------------------------------------------------
(* Remove, move and copy.                                                   *)

Unlink(w) ==
    LET n == job[w].name IN
    /\ At(w, "unlink")
    /\ IF entry[n] = None THEN Refuse(w) ELSE Goto(w, "ok")
    /\ entry' = [entry EXCEPT ![n] = None]
    /\ UNCHANGED content

\* "target exists", for a move and for a copy
StatTarget(w) ==
    /\ At(w, "stat")
    /\ IF entry[job[w].to] # None THEN Refuse(w)
       ELSE Goto(w, IF job[w].kind = "move" THEN "rename" ELSE "source")
    /\ UNCHANGED <<entry, content>>

\* Mutant of Rename: the target is removed before the source is looked at.
Rename_Early(w) ==
    LET n == job[w].name
        m == job[w].to
    IN
    /\ At(w, "rename")
    /\ entry' = [entry EXCEPT ![n] = None, ![m] = entry[n]]
    /\ Goto(w, IF entry[n] = None THEN "refused" ELSE "ok")
    /\ UNCHANGED content

\* rename(2) replaces whatever has the target's name by now; of two names of one
\* file it does nothing, and says it did.
Rename(w) ==
    LET n == job[w].name
        m == job[w].to
    IN
    /\ At(w, "rename")
    /\ IF entry[n] = None
       THEN Refuse(w) /\ UNCHANGED entry
       ELSE /\ IF entry[n] = entry[m] /\ entry[n] \in Files
               THEN UNCHANGED entry
               ELSE entry' = [entry EXCEPT ![n] = None, ![m] = entry[n]]
            /\ Goto(w, "ok")
    /\ UNCHANGED content

StatSource(w) ==
    LET x == entry[job[w].name] IN
    /\ At(w, "source")
    /\ IF x = None THEN Refuse(w) ELSE Goto(w, IF x \in Links THEN "link" ELSE "read")
    /\ UNCHANGED <<entry, content>>

\* readlink and symlink: the link itself is copied, never what it leads to.
CopyLink(w) ==
    LET n == job[w].name
        m == job[w].to
    IN
    /\ At(w, "link")
    /\ IF entry[n] \in Links /\ entry[m] = None
       THEN entry' = [entry EXCEPT ![m] = entry[n]] /\ Goto(w, "ok")
       ELSE Refuse(w) /\ UNCHANGED entry
    /\ UNCHANGED content

\* O_NOFOLLOW: a link that was swapped in is refused.
OpenSource(w) ==
    LET x == entry[job[w].name] IN
    /\ At(w, "read")
    /\ IF x \in Files
       THEN job' = [job EXCEPT ![w].pc = "create", ![w].src = x]
       ELSE Refuse(w)
    /\ UNCHANGED <<entry, content>>

\* Mutant of CreateCopy: the target is opened without O_EXCL.
CreateCopy_Opens(w) ==
    /\ At(w, "create")
    /\ \/ \E f \in Files :
             /\ Fresh(f)
             /\ entry' = [entry EXCEPT ![job[w].to] = f]
             /\ content' = [content EXCEPT ![f] = <<>>]
             /\ job' = [job EXCEPT ![w].pc = "copy", ![w].fd = f]
       \/ /\ ~\E f \in Files : Fresh(f)
          /\ Refuse(w)
          /\ UNCHANGED <<entry, content>>

\* O_CREAT | O_EXCL
CreateCopy(w) ==
    LET Free == IF entry[job[w].to] = None THEN {f \in Files : Fresh(f)} ELSE {}
    IN
    /\ At(w, "create")
    /\ \/ \E f \in Free :
             /\ entry' = [entry EXCEPT ![job[w].to] = f]
             /\ content' = [content EXCEPT ![f] = <<>>]
             /\ job' = [job EXCEPT ![w].pc = "copy", ![w].fd = f]
       \/ /\ Free = {}
          /\ Refuse(w)
          /\ UNCHANGED <<entry, content>>

\* Mutant of CopyChunk: a failed copy is reported as done.
CopyChunk_Silent(w) ==
    LET chunks == content[job[w].src] IN
    /\ At(w, "copy")
    /\ \/ job[w].sent >= Len(chunks) /\ Goto(w, "ok") /\ UNCHANGED content
       \/ job[w].sent < Len(chunks) /\ Store(w, chunks[job[w].sent + 1])
       \/ /\ "nospace" \in Faults /\ job[w].sent < Len(chunks)
          /\ Goto(w, "ok") /\ UNCHANGED content
    /\ UNCHANGED entry

\* Up to the end the source has by then; a failed copy stays where it got.
CopyChunk(w) ==
    LET chunks == content[job[w].src] IN
    /\ At(w, "copy")
    /\ \/ job[w].sent >= Len(chunks) /\ Goto(w, "ok") /\ UNCHANGED content
       \/ job[w].sent < Len(chunks) /\ Store(w, chunks[job[w].sent + 1])
       \/ /\ "nospace" \in Faults /\ job[w].sent < Len(chunks)
          /\ Refuse(w) /\ UNCHANGED content
    /\ UNCHANGED entry

---------------------------------------------------------------------------
(* The slot's shell.                                                        *)

ShellCreates(n, x) ==
    /\ entry[n] = None
    /\ x \in Files => Fresh(x)
    /\ entry' = [entry EXCEPT ![n] = x]
    /\ content' = IF x \in Files THEN [content EXCEPT ![x] = <<Old>>] ELSE content
    /\ UNCHANGED job

ShellRemoves(n) ==
    /\ entry[n] # None
    /\ entry' = [entry EXCEPT ![n] = None]
    /\ UNCHANGED <<content, job>>

ShellRenames(n, m) ==
    /\ n # m /\ entry[n] # None
    /\ entry' = [entry EXCEPT ![n] = None, ![m] = entry[n]]
    /\ UNCHANGED <<content, job>>

\* ln: from now on the file has both names.
ShellLinks(n, m) ==
    /\ entry[n] = None /\ entry[m] \in Files
    /\ entry' = [entry EXCEPT ![n] = entry[m]]
    /\ UNCHANGED <<content, job>>

Shell ==
    \E n \in ShellNames :
       \/ \E x \in Files \cup Links : ShellCreates(n, x)
       \/ ShellRemoves(n)
       \/ \E m \in Names : ShellRenames(n, m) \/ ShellLinks(n, m)

\* An empty body is an open and nothing more, and is left out.
Request ==
    \E w \in Workers, kind \in Kinds, n \in Names :
       IF kind \in {"upload", "write"}
       THEN \E len \in 1..MaxLen : Begin(w, kind, n, None, len)
       ELSE IF kind = "remove" THEN Begin(w, kind, n, None, 0)
       ELSE \E m \in Names : Begin(w, kind, n, m, 0)

Work(w) ==
    \/ OpenForWrite(w) \/ UploadChunk(w) \/ Abort(w) \/ WriteChunk(w)
    \/ Unlink(w) \/ StatTarget(w) \/ Rename(w)
    \/ StatSource(w) \/ CopyLink(w) \/ OpenSource(w) \/ CreateCopy(w) \/ CopyChunk(w)
    \/ Reply(w)

Next ==
    \/ Request
    \/ \E w \in Workers : Work(w) /\ alone' = IF alone = w THEN w ELSE None
    \/ Shell /\ alone' = None

Spec == Init /\ [][Next]_vars

---------------------------------------------------------------------------
(* Properties.                                                              *)

TypeOK ==
    /\ entry \in [Names -> Files \cup Links \cup {None}]
    /\ \A f \in Files : \A i \in DOMAIN content[f] :
          content[f][i] \in Workers \cup {Old, Torn}
    /\ job \in [Workers -> Job] /\ alone \in Workers \cup {None}
    /\ \A w \in Workers : job[w].pc \in {"write", "copy"} => job[w].fd # None

Answered(w, kind, pc) == job[w].kind = kind /\ job[w].pc = pc

\* An upload nobody disturbs and no symlink leads elsewhere, when it is refused
\* for its size or because the disk is full, leaves nothing of it under any
\* name (_stream_to_disk: "a rejected upload cannot leave a half-written file
\* behind").  Not kept: of a file with a second name, a hard link, the abort
\* takes away one name only, and what was written stays under the other.
RejectedLeavesNothing ==
    \A w \in Workers :
        /\ alone = w /\ Answered(w, "upload", "refused")
        /\ job[w].to \in {None, job[w].name} /\ ~job[w].twin
        => \A n \in Names : entry[n] \in Files =>
               \A i \in DOMAIN content[entry[n]] : content[entry[n]][i] # w

\* Where an upload or a write nobody disturbs is answered ok there are as many
\* chunks as were sent and nothing of what was there before, and of a write
\* each is whole (_stream_to_disk: a "failed upload is aborted").  Not kept:
\* of an upload, whose os.write may store a chunk short unnoticed.
StoredIsSent ==
    \A w \in Workers, kind \in {"upload", "write"} :
        alone = w /\ Answered(w, kind, "ok") =>
            /\ entry[job[w].to] = job[w].fd
            /\ Len(content[job[w].fd]) = job[w].len
            /\ \A i \in 1..job[w].len :
                  content[job[w].fd][i] \in IF kind = "write" THEN {w} ELSE {w, Torn}

\* A copy nobody disturbs that is answered ok has every chunk of its source,
\* although the source was read while the copy was written.
CopyIsWhole ==
    \A w \in Workers :
        alone = w /\ Answered(w, "copy", "ok") /\ job[w].fd # None =>
            content[job[w].fd] = content[job[w].src]

\* Whatever the shell and other requests put at the target after it was found
\* absent, a copy never replaces it.
CopyNeverOverwrites ==
    [][\A w \in Workers, n \in Names :
          job[w].kind = "copy" /\ job'[w] # job[w] /\ entry[n] # None
             => entry'[n] = entry[n]]_vars

\* A move that finds something else at its source than it started with, or
\* nothing, moves what is there or is refused: it never leaves both names empty.
MoveLosesNothing ==
    [][\A w \in Workers : job[w].kind = "move" /\ job'[w] # job[w]
          => \A n \in Names : entry[n] # None =>
                \/ \E m \in Names : entry'[m] = entry[n]
                \/ \E m \in Names : entry'[n] = entry[m] /\ entry[m] # None]_vars

\* A move never replaces what has its target's name (routes/files.py answers
\* "target exists"; app/files.py: "no TOCTOU races").  Not kept: the target is
\* looked for first and renamed over later.
MoveNeverOverwrites ==
    [][\A w \in Workers : job[w].kind = "move" /\ job'[w] # job[w]
          /\ entry[job[w].to] # None
             => entry'[job[w].to] = entry[job[w].to]]_vars

\* What a failed upload takes away is its own: the file it opened, with nothing
\* in it but its own chunks (_stream_to_disk: "its partial file removed").  Not
\* kept: of two uploads of one name the refused one removes what the other
\* stored, and one through a symlink removes the link.
AbortTakesItsOwn ==
    [][\A w \in Workers, n \in Names :
          At(w, "abort") /\ job'[w] # job[w] /\ entry'[n] # entry[n]
             => /\ entry[n] = job[w].fd
                /\ \A i \in DOMAIN content[entry[n]] :
                      content[entry[n]][i] \in {w, Torn}]_vars
============================================================================
