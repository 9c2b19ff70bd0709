------------------------------ MODULE TreeOps ------------------------------
(***************************************************************************)
(* Copying and removing whole directories: safepath's copy and remove once *)
(* stat has said that the entry is a directory (files and symlinks are     *)
(* HomeOps), with _entries, _copytree_fd, _rmtree_fd and _mkdir_at.  Each   *)
(* request works through descriptors, in its own thread, while other        *)
(* requests and the slot's shell rename, link and unlink entries between   *)
(* its system calls.  A directory lists what it holds once and then acts on *)
(* the names of that list, whatever they have come to mean.                *)
(***************************************************************************)
EXTENDS Naturals, Sequences, FiniteSets, FiniteSetsExt, SequencesExt

CONSTANTS
    Home,             \* the root of the home
    Inside,           \* its directories, linked or still to be made
    Outside,          \* a directory of the host
    Names,
    Links, Target,    \* symlinks, and the directory each leads to
    Mine, Secret,     \* a file of the home, a file of the host
    Torn,             \* a file whose copy was cut short
    Pipe,             \* a FIFO of the home
    Nothing, None,
    InitialTree,      \* the entries of the home to begin with
    Sources, Targets, \* what requests name, as <<directory, name>>
    Workers,
    MaxFds,           \* descriptors the process may have open
    MayFill,          \* whether the disk can fill up
    MaxMoves          \* bound: what the shell does in a run

Dirs == Inside \cup {Outside}
Files == {Mine, Secret, Torn, Pipe}
Things == Inside \cup Links \cup Files \cup {Nothing}

ASSUME ConstantsOK ==
    /\ IsFiniteSet(Inside) /\ Home \in Inside /\ Outside \notin Inside
    /\ Target \in [Links -> Dirs]
    /\ MaxFds \in Nat /\ MaxMoves \in Nat /\ MayFill \in BOOLEAN
    /\ Sources \subseteq Inside \X Names /\ Targets \subseteq Inside \X Names
    /\ InitialTree \in [Inside -> [Names -> Things \ {Secret, Torn}]]
    \* The directories still to be made are empty.
    /\ \A d \in Inside \ {Home} :
          (\A c \in Inside, n \in Names : InitialTree[c][n] # d)
              => \A n \in Names : InitialTree[d][n] = Nothing

ASSUME KindsDiffer ==
    /\ Secret \notin {Mine, Torn, Pipe, Nothing} /\ Nothing \notin {Mine, Torn, Pipe}
    /\ Mine # Torn /\ Pipe \notin {Mine, Torn}
    /\ Inside \cap Links = {}
    /\ (Files \cup {Nothing}) \cap (Dirs \cup Links) = {}
    /\ None \notin Dirs \cup Links \cup Files \cup {Nothing}

VARIABLES
    entry,      \* directory -> name -> what the name stands for
    job,        \* worker -> its request
    held,       \* worker -> descriptors its request has open, or left open
    moves,      \* what the shell has done
    ours,       \* worker -> directories that were, since its removal opened its
                \* target, in the target or in another of these
    alone       \* worker -> nobody else has done anything since it began

vars == <<entry, job, held, moves, ours, alone>>

Places == Dirs \X Names
Kinds == {"dir", "link", "file"}

\* What one call of _copytree_fd or _rmtree_fd has on its stack.  `name` is
\* the entry its caller reached it by.
Frame == [src : Inside, dst : Inside \cup {None}, name : Names,
          todo : SUBSET (Names \X Kinds)]

CopySteps == {"opensrc", "stuck", "mkdir", "chown", "opendst", "list", "next"}
RemoveSteps == {"enter", "list", "next", "rmdir"}
Ends == {"ok", "failed"}
Steps == {"idle"} \cup CopySteps \cup RemoveSteps \cup Ends

Job == [op : {"copy", "remove", "none"}, pc : Steps,
        from : Places \cup {None},   \* the source, or what is to be removed
        to : Places \cup {None},
        stack : Seq(Frame),          \* innermost call first
        item : Names \cup {None},    \* the entry the innermost call is at
        half : Inside \cup {None},   \* a source opened before its destination
        skipped : BOOLEAN]           \* an entry was passed over for want of
                                     \* descriptors or space

Idle == [op |-> "none", pc |-> "idle", from |-> None, to |-> None,
         stack |-> <<>>, item |-> None, half |-> None, skipped |-> FALSE]

Init ==
    /\ entry = [d \in Dirs |-> IF d = Outside THEN [n \in Names |-> Secret]
                                              ELSE InitialTree[d]]
    /\ job = [w \in Workers |-> Idle]
    /\ held = [w \in Workers |-> 0]
    /\ moves = 0
    /\ ours = [w \in Workers |-> {}]
    /\ alone = [w \in Workers |-> TRUE]

---------------------------------------------------------------------------
(* Descriptors and entries.                                                 *)

Spare == MaxFds - MapThenSumSet(LAMBDA w : held[w], Workers)

At(place) == entry[place[1]][place[2]]

\* Removed directories can still be open, but nothing can be made in them.
Linked(d) == d \in {Home, Outside} \/ \E place \in Places : At(place) = d

\* Directories that mkdir can make: neither linked nor open.
Opened(d) ==
    \E w \in Workers :
        \/ job[w].half = d
        \/ \E i \in DOMAIN job[w].stack : d \in {job[w].stack[i].src, job[w].stack[i].dst}
        \/ \E place \in {job[w].from, job[w].to} : place # None /\ place[1] = d
Unmade == {d \in Inside : ~Linked(d) /\ ~Opened(d)}

\* Which of them is made makes no difference.
Made == CHOOSE d \in Unmade : TRUE

Kind(x) == IF x \in Inside THEN "dir" ELSE IF x \in Links THEN "link" ELSE "file"

\* Mutant: a directory is opened through a symlink.
OpenDir_Follow(x) == IF x \in Links THEN Target[x] ELSE IF x \in Inside THEN x ELSE None

\* os.open with O_NOFOLLOW | O_DIRECTORY
OpenDir(x) == IF x \in Inside THEN x ELSE None

Put(place, x) == entry' = [entry EXCEPT ![place[1]][place[2]] = x]

---------------------------------------------------------------------------
(* The calls of one request.                                                *)

Top(w) == Head(job[w].stack)
AtTop(w) == job[w].stack = <<>>
Is(w, op, step) == job[w].op = op /\ job[w].pc = step

\* The entry a step is about: the request's own, or one of the innermost call.
SrcPlace(w) == IF AtTop(w) THEN job[w].from ELSE <<Top(w).src, job[w].item>>
DstPlace(w) == IF AtTop(w) THEN job[w].to ELSE <<Top(w).dst, job[w].item>>

Becomes(w, j) == job' = [job EXCEPT ![w] = j]
Goto(w, step) == Becomes(w, [job[w] EXCEPT !.pc = step])
Hold(w, n) == held' = [held EXCEPT ![w] = n]

End(w, how) ==
    Becomes(w, [job[w] EXCEPT !.pc = how, !.stack = <<>>, !.item = None, !.half = None])

\* The stack with another list for the innermost call
Left(w, todo) == <<[Top(w) EXCEPT !.todo = todo]>> \o Tail(job[w].stack)

\* An exception unwinds every call; each closes what it opened.
Fail(w) == End(w, "failed") /\ Hold(w, 0) /\ UNCHANGED entry

\* copy: the parents are walked to (SafeWalk), then stat finds nothing at the
\* target and a directory at the source.
BeginCopy(w, from, to) ==
    /\ job[w].pc = "idle"
    /\ Linked(from[1]) /\ Linked(to[1]) /\ Spare >= 2
    /\ At(to) = Nothing /\ At(from) \in Inside
    /\ Becomes(w, [Idle EXCEPT !.op = "copy", !.pc = "opensrc", !.from = from, !.to = to])
    /\ Hold(w, 2)
    /\ UNCHANGED entry

\* remove: the parent is walked to, and stat finds a directory.
BeginRemove(w, from) ==
    /\ job[w].pc = "idle"
    /\ Linked(from[1]) /\ Spare >= 1
    /\ At(from) \in Inside
    /\ Becomes(w, [Idle EXCEPT !.op = "remove", !.pc = "enter", !.from = from])
    /\ Hold(w, 1)
    /\ UNCHANGED entry

\* The source is opened: by copy itself before the target is made, and there a
\* file that took the directory's place opens too, a FIFO only once another
\* process opens its other end; by _copytree_fd after.
OpenSource(w) ==
    LET x == At(SrcPlace(w)) IN
    /\ job[w].pc = "opensrc"
    /\ IF /\ Spare >= 1
          /\ x \in Inside \/ (AtTop(w) /\ x \in Files) \/ OpenDir(x) # None
       THEN /\ Becomes(w, [job[w] EXCEPT !.half = OpenDir(x),
                                         !.pc = IF x = Pipe THEN "stuck"
                                                ELSE IF AtTop(w) THEN "mkdir" ELSE "opendst"])
            /\ Hold(w, held[w] + 1)
            /\ UNCHANGED entry
       ELSE Fail(w)

AfterMkdir(w) == IF AtTop(w) THEN "opendst" ELSE "opensrc"

\* _mkdir_at: an entry that is there already is left as it is, whatever it is.
MakeDir(w) ==
    LET place == DstPlace(w) IN
    /\ job[w].pc = "mkdir"
    /\ IF At(place) # Nothing
       THEN Goto(w, AfterMkdir(w)) /\ UNCHANGED <<entry, held>>
       ELSE IF ~Linked(place[1]) THEN Fail(w)
       ELSE \/ Unmade # {} /\ Put(place, Made) /\ Goto(w, "chown") /\ UNCHANGED held
            \/ (Unmade = {} \/ MayFill) /\ Fail(w)

\* The new directory is opened by name, changed and closed.
ChownDir(w) ==
    /\ job[w].pc = "chown"
    /\ IF Spare >= 1 /\ OpenDir(At(DstPlace(w))) # None
       THEN Goto(w, AfterMkdir(w)) /\ UNCHANGED <<entry, held>>
       ELSE Fail(w)

Push(w, src, dst, name) ==
    Becomes(w, [job[w] EXCEPT
        !.pc = "list", !.half = None, !.item = None,
        !.stack = <<[src |-> src, dst |-> dst, name |-> name, todo |-> {}]>> \o @])

\* Mutant: nothing is closed when the destination cannot be opened.
OpenDest_Leak(w) ==
    LET d == OpenDir(At(DstPlace(w))) IN
    /\ job[w].pc = "opendst"
    /\ UNCHANGED entry
    /\ IF Spare >= 1 /\ d # None /\ job[w].half # None
       THEN Push(w, job[w].half, d, DstPlace(w)[2]) /\ Hold(w, held[w] + 1)
       ELSE End(w, "failed") /\ UNCHANGED held

\* _copytree_fd opens both before its try: when the second fails the first
\* stays open.  At the top a source that is no directory fails here too, when
\* it is first listed.
OpenDest(w) ==
    LET d == OpenDir(At(DstPlace(w))) IN
    /\ job[w].pc = "opendst"
    /\ UNCHANGED entry
    /\ IF Spare >= 1 /\ d # None /\ job[w].half # None
       THEN Push(w, job[w].half, d, DstPlace(w)[2]) /\ Hold(w, held[w] + 1)
       ELSE End(w, "failed") /\ Hold(w, IF AtTop(w) THEN 0 ELSE 1)

\* A removal opens its target, or a directory it found.
Enter(w) ==
    LET d == OpenDir(At(SrcPlace(w))) IN
    /\ job[w].pc = "enter"
    /\ IF Spare >= 1 /\ d # None
       THEN Push(w, d, None, SrcPlace(w)[2]) /\ Hold(w, held[w] + 1) /\ UNCHANGED entry
       ELSE Fail(w)

\* _entries: names and kinds, no symlink followed
Listing(d) ==
    {<<n, Kind(entry[d][n])>> : n \in {m \in Names : entry[d][m] # Nothing}}

\* scandir needs a descriptor of its own for as long as it reads.
List(w) ==
    /\ job[w].pc = "list"
    /\ IF Spare >= 1
       THEN /\ Becomes(w, [job[w] EXCEPT !.pc = "next",
                                         !.stack = Left(w, Listing(Top(w).src))])
            /\ UNCHANGED <<entry, held>>
       ELSE Fail(w)

\* The loop takes an entry off its list.
Taken(w, e) == Left(w, Top(w).todo \ {e})
Take(w, e) == Becomes(w, [job[w] EXCEPT !.stack = Taken(w, e)])

\* A directory of the list: made anew on the other side, or gone into.
TakeDir(w, e) ==
    /\ job[w].pc = "next" /\ e[2] = "dir"
    /\ Becomes(w, [job[w] EXCEPT !.stack = Taken(w, e), !.item = e[1],
                                 !.pc = IF job[w].op = "copy" THEN "mkdir" ELSE "enter"])
    /\ UNCHANGED <<entry, held>>

\* Mutant: a link that cannot be made is tried again.
TakeLink_Again(w, e) ==
    LET place == <<Top(w).dst, e[1]>>
        x == entry[Top(w).src][e[1]]
    IN
    /\ Is(w, "copy", "next") /\ e[2] = "link"
    /\ x \in Links /\ At(place) = Nothing /\ Linked(place[1])
    /\ Take(w, e) /\ Put(place, x) /\ UNCHANGED held

\* readlink and symlink; what fails is passed over, on a full disk too.
TakeLink(w, e) ==
    LET place == <<Top(w).dst, e[1]>>
        x == entry[Top(w).src][e[1]]
        free == x \in Links /\ At(place) = Nothing /\ Linked(place[1])
    IN
    /\ Is(w, "copy", "next") /\ e[2] = "link"
    /\ \/ free /\ Take(w, e) /\ Put(place, x)
       \/ /\ ~free \/ MayFill
          /\ Becomes(w, [job[w] EXCEPT !.stack = Taken(w, e), !.skipped = @ \/ free])
          /\ UNCHANGED entry
    /\ UNCHANGED held

\* A file that is open, x, is copied: its copy is created and both are duplicated
\* for the transfer.  What cannot be opened or created is passed over; a transfer
\* that fails ends the copy, and its own duplicate of a directory is never
\* closed.  Of the descriptors all this takes, `opened` are open.
CopyFile(w, name, x, calls, opened) ==
    LET place == <<Top(w).dst, name>>
        free == x \in Files \cup Inside /\ At(place) = Nothing /\ Linked(place[1])
        on == [job[w] EXCEPT !.pc = "next", !.item = None, !.stack = calls]
        room == Spare + opened
        kept == held[w] - opened
    IN
    \/ /\ ~free \/ room < 2 \/ MayFill
       /\ Becomes(w, [on EXCEPT !.skipped = @ \/ free])
       /\ Hold(w, kept) /\ UNCHANGED entry
    \/ /\ free /\ x \in Files /\ room >= 4
       /\ Becomes(w, on) /\ Hold(w, kept) /\ Put(place, x)
    \/ /\ free /\ room >= 2 /\ (x \in Inside \/ room < 4 \/ MayFill)
       /\ End(w, "failed") /\ Put(place, Torn)
       /\ Hold(w, IF x \in Inside /\ room >= 3 THEN 1 ELSE 0)

\* Mutant: a file that is in the way is written over.
TakeFile_Overwrite(w, e) ==
    LET place == <<Top(w).dst, e[1]>>
        x == entry[Top(w).src][e[1]]
    IN
    /\ Is(w, "copy", "next") /\ e[2] = "file"
    /\ Take(w, e)
    /\ IF x \in Files /\ Linked(place[1]) THEN Put(place, x) ELSE UNCHANGED entry
    /\ UNCHANGED held

\* Mutant: a transfer that fails is passed over.
TakeFile_PassOver(w, e) ==
    LET place == <<Top(w).dst, e[1]>>
        x == entry[Top(w).src][e[1]]
    IN
    /\ Is(w, "copy", "next") /\ e[2] = "file"
    /\ Take(w, e) /\ UNCHANGED held
    /\ IF x \notin Files \/ At(place) # Nothing \/ ~Linked(place[1]) \/ Spare < 2
       THEN UNCHANGED entry
       ELSE Put(place, IF Spare < 4 THEN Torn ELSE x)

\* A file of the list: open(2) of a FIFO does not return before another process
\* has opened its other end.
TakeFile(w, e) ==
    LET x == entry[Top(w).src][e[1]] IN
    /\ Is(w, "copy", "next") /\ e[2] = "file"
    /\ IF x = Pipe /\ Spare >= 1
       THEN /\ Becomes(w, [job[w] EXCEPT !.pc = "stuck", !.stack = Taken(w, e), !.item = e[1]])
            /\ Hold(w, held[w] + 1)
            /\ UNCHANGED entry
       ELSE CopyFile(w, e[1], x, Taken(w, e), 0)

\* unlink takes whatever the name has come to mean, but never a directory.
TakeOther(w, e) ==
    LET place == <<Top(w).src, e[1]>> IN
    /\ Is(w, "remove", "next") /\ e[2] # "dir"
    /\ IF At(place) \in Links \cup Files
       THEN Take(w, e) /\ Put(place, Nothing) /\ UNCHANGED held
       ELSE Fail(w)

\* A call returns when its list is done, and closes its directories.
Return(w) ==
    /\ job[w].pc = "next" /\ Top(w).todo = {}
    /\ UNCHANGED entry
    /\ LET rest == Tail(job[w].stack) IN
       \/ /\ job[w].op = "remove"
          /\ Becomes(w, [job[w] EXCEPT !.pc = "rmdir", !.stack = rest, !.item = Top(w).name])
          /\ Hold(w, held[w] - 1)
       \/ /\ job[w].op = "copy" /\ rest # <<>>
          /\ Becomes(w, [job[w] EXCEPT !.stack = rest, !.item = None])
          /\ Hold(w, held[w] - 2)
       \/ job[w].op = "copy" /\ rest = <<>> /\ End(w, "ok") /\ Hold(w, 0)

\* The directory a call emptied is removed by its name.
RmDir(w) ==
    LET x == At(SrcPlace(w)) IN
    /\ job[w].pc = "rmdir"
    /\ IF x \notin Inside \/ \E n \in Names : entry[x][n] # Nothing THEN Fail(w)
       ELSE /\ Put(SrcPlace(w), Nothing)
            /\ IF AtTop(w) THEN End(w, "ok") /\ Hold(w, 0)
                           ELSE Goto(w, "next") /\ UNCHANGED held

---------------------------------------------------------------------------
(* The slot's shell.                                                        *)

\* A directory and those in it, at whatever depth
Below(x) ==
    LET within[k \in Nat] ==
            IF k = 0 THEN {x}
            ELSE LET S == within[k - 1] IN
                 S \cup (Inside \cap {At(place) : place \in S \X Names})
    IN within[Cardinality(Inside)]

Reachable(place) == place[1] \in Inside /\ Linked(place[1])

\* mv; a directory cannot go below itself.
ShellMoves(p, q) ==
    /\ At(p) # Nothing /\ At(q) = Nothing
    /\ At(p) \in Inside => q[1] \notin Below(At(p))
    /\ entry' = [d \in Dirs |-> [n \in Names |->
                    CASE <<d, n>> = p -> Nothing
                      [] <<d, n>> = q -> At(p)
                      [] OTHER -> entry[d][n]]]

\* ln -s, touch, mkfifo, rm, rmdir
ShellPuts(p) ==
    \/ At(p) = Nothing /\ \E x \in Links \cup {Mine, Pipe} : Put(p, x)
    \/ At(p) \in Links \cup Files /\ Put(p, Nothing)
    \/ At(p) \in Inside /\ (\A n \in Names : entry[At(p)][n] = Nothing) /\ Put(p, Nothing)

Shell ==
    /\ moves < MaxMoves /\ moves' = moves + 1
    /\ \E p \in Places : Reachable(p) /\ (\/ ShellPuts(p)
                                          \/ \E q \in Places : Reachable(q) /\ ShellMoves(p, q))
    /\ UNCHANGED <<job, held>>

\* A process opens the other end of the FIFO that a request waits at, and feeds
\* it what a file of the home may hold.
Feed(w) ==
    /\ job[w].pc = "stuck"
    /\ IF AtTop(w) THEN Goto(w, "mkdir") /\ UNCHANGED <<entry, held>>
                   ELSE CopyFile(w, job[w].item, Mine, job[w].stack, 1)

---------------------------------------------------------------------------
(* The whole.                                                               *)

Begin(w) ==
    \E from \in Sources : BeginRemove(w, from) \/ \E to \in Targets : BeginCopy(w, from, to)

Continue(w) ==
    \/ OpenSource(w) \/ MakeDir(w) \/ ChownDir(w) \/ OpenDest(w)
    \/ Enter(w) \/ List(w) \/ Return(w) \/ RmDir(w)
    \/ /\ job[w].pc = "next"
       /\ \E e \in Top(w).todo :
             TakeDir(w, e) \/ TakeLink(w, e) \/ TakeFile(w, e) \/ TakeOther(w, e)

Ended(w) == job[w].pc \in Ends
Removing(w) == job[w].op = "remove" /\ ~Ended(w)

\* The directories a removal may touch, after this step
Target0(w) == {d \in Dirs : job[w].pc = "enter" /\ AtTop(w)
                            /\ job'[w].stack # <<>> /\ Head(job'[w].stack).src = d}
Grown(w) == ours[w] \cup Target0(w)
                \cup {x \in Inside : \E d \in ours[w], n \in Names : entry'[d][n] = x}

Disturbed(S) == alone' = [v \in Workers |-> alone[v] /\ (v \in S \/ job[v].pc = "idle")]

Watched == ours' = [v \in Workers |-> IF Removing(v)' THEN Grown(v) ELSE {}]

Carry(w) == Continue(w) /\ UNCHANGED moves /\ Disturbed({w}) /\ Watched

Next ==
    \/ \E w \in Workers : \/ Begin(w) /\ UNCHANGED moves /\ Disturbed({w}) /\ Watched
                          \/ Carry(w)
    \/ Shell /\ Disturbed({}) /\ Watched
    \/ (\E w \in Workers : Feed(w)) /\ UNCHANGED moves /\ Disturbed({}) /\ Watched

Spec == Init /\ [][Next]_vars

\* A thread that runs a request goes on with it, but at a FIFO it waits for
\* another process.
Fairness == \A w \in Workers : WF_job(Continue(w))

FairSpec == Spec /\ Fairness

---------------------------------------------------------------------------
(* Properties.                                                              *)

TypeOK ==
    /\ entry \in [Dirs -> [Names -> Things]]
    /\ job \in [Workers -> Job]
    /\ held \in [Workers -> Nat]
    /\ moves \in 0..MaxMoves
    /\ ours \in [Workers -> SUBSET Dirs]
    /\ alone \in [Workers -> BOOLEAN]

\* Whatever the shell swaps for a symlink while requests run, nothing of the
\* host changes and no file of it comes into the home (safepath.py:
\* "following would let a slot drag root-owned files into its home").
OutsideUntouched ==
    /\ \A n \in Names : entry[Outside][n] = Secret
    /\ \A place \in Inside \X Names : At(place) # Secret

\* A request that is over has closed its descriptors, whichever of its calls
\* failed and however deep; a copy that failed has left at most one.
\* Not kept: that it leaves none.  _copytree_fd opens a source before its try,
\* and a duplicate that fdopen refuses is not closed.
DescriptorsReturned ==
    \A w \in Workers :
        /\ job[w].pc = "ok" => held[w] = 0
        /\ job[w].pc = "failed" => held[w] <= (IF job[w].op = "copy" THEN 1 ELSE 0)

\* A copy, into itself or into a directory that appeared at its target too,
\* adds entries and changes none; a removal changes only its own entry and
\* directories that were in its target after it had opened it, or in one of
\* those, wherever the shell has moved them since.
KeepsToItsOwn ==
    [][\A w \in Workers : job'[w] # job[w] =>
          \A p \in Places : At(p)' # At(p) =>
              IF job[w].op = "copy" THEN At(p) = Nothing
              ELSE p = job[w].from \/ p[1] \in ours[w]]_vars

\* Two trees hold the same files and links under the same names.
Alike(x, y) ==
    LET alike[k \in 0..Cardinality(Inside)] ==
            IF k = 0 THEN Inside \X Inside
            ELSE {pair \in Inside \X Inside :
                     \A n \in Names :
                        LET c == entry[pair[1]][n]
                            d == entry[pair[2]][n]
                        IN (c = d /\ c \notin Inside) \/ <<c, d>> \in alike[k - 1]}
    IN <<x, y>> \in alike[Cardinality(Inside)]

\* A copy that nobody disturbed and that answers ok is whole.  Not kept
\* without `skipped`: a file that finds no spare descriptor, and a file or symlink
\* that the full disk has no room to create, is passed over, and the copy still
\* answers ok.
OkCopyIsWhole ==
    \A w \in Workers :
        job[w].op = "copy" /\ job[w].pc = "ok" /\ alone[w] /\ ~job[w].skipped
            => Alike(At(job[w].from), At(job[w].to))

\* Every request ends, a copy of a directory into itself too: it goes on into
\* what it has just made, until there is no descriptor left.  Not kept of a copy
\* that meets a FIFO, which is opened without O_NONBLOCK: it waits there for as long
\* as the slot pleases.
WalksEnd == \A w \in Workers : job[w].pc # "idle" ~> Ended(w) \/ job[w].pc = "stuck"
============================================================================
