----------------------------- MODULE SafeWalk -----------------------------
(***************************************************************************)
(* The anchored walk of app/safepath.py (kernel backend) and the file      *)
(* operations that are one walk per path: reading, listing, writing and    *)
(* mkdir.  The walk holds directory descriptors; every system call is a    *)
(* step, and between two of them the owner of the home changes the tree    *)
(* from their shell.                                                       *)
(***************************************************************************)
EXTENDS Naturals, Sequences, FiniteSets

CONSTANTS
    Dirs, Files, Links,   \* inodes a home may have
    Pipes,                \* those of Files that are FIFOs
    Root,                 \* the home itself
    Names,                \* entry names
    Target,               \* of each link: a sequence of names and Up, or Absolute
    Paths,                \* the paths the panel is asked for (split_rel's results)
    MaxHops,              \* MAX_SYMLINK_HOPS
    Up, Absolute, None, Outside

ASSUME ConstantsOK ==
    /\ Root \in Dirs
    /\ MaxHops \in Nat
    /\ Target \in [Links -> Seq(Names \cup {Up}) \cup {Absolute}]
    /\ Paths \subseteq Seq(Names) \ {<<>>}
    /\ Up \notin Names
    /\ Pipes \subseteq Files
    /\ Dirs \cap (Files \cup Links) = {} /\ Files \cap Links = {}
    /\ None \notin Dirs \cup Files \cup Links
    /\ Outside \notin Dirs \cup Files \cup Links

VARIABLES
    entry,      \* the entries of each directory
    pc,         \* of the panel's operation
    asked,      \* the request's kind and path
    kind,       \* what it does with the path it walks
    todo,       \* the paths it still has to walk after this one
    stack,      \* the descriptors the walk holds, the root first
    rest,       \* the components it has still to descend
    name,       \* the component that was no plain directory
    hops,       \* symlinks expanded so far
    fds,        \* descriptors open
    result,     \* what the operation reached, None when it was refused
    quiet       \* nobody else touched the tree during the operation

walk == <<stack, rest, name, hops, fds>>
vars == <<entry, pc, asked, kind, todo, walk, result, quiet>>

Inodes == Dirs \cup Files \cup Links
Kinds == {"read", "list", "create", "mkdir"}

NoRequest == [kind |-> "read", path |-> <<>>]

Top == stack[Len(stack)]
Popped == SubSeq(stack, 1, Len(stack) - 1)
Linked(x) == \E d \in Dirs, n \in Names : entry[d][n] = x

\* A directory that is new to the tree.
Fresh(d) ==
    /\ d # Root /\ ~Linked(d)
    /\ \A n \in Names : entry[d][n] = None
    /\ \A i \in DOMAIN stack : stack[i] # d

\* The directories below d, d among them.
Subtree(d) ==
    LET Down[k \in Nat] ==
          IF k = 0 THEN {d}
          ELSE Down[k - 1] \cup {entry[c][n] : c \in Down[k - 1] \cap Dirs, n \in Names}
    IN Down[Cardinality(Dirs)]

Put(d, n, x) == entry' = [entry EXCEPT ![d][n] = x]

Init ==
    /\ entry = [d \in Dirs |-> [n \in Names |-> None]]
    /\ pc = "idle" /\ asked = NoRequest /\ kind = "read" /\ todo = <<>>
    /\ stack = <<>> /\ rest = <<>> /\ name = None /\ hops = 0 /\ fds = 0
    /\ result = None /\ quiet = TRUE

---------------------------------------------------------------------------
(* The slot's shell.                                                        *)

Touch ==
    /\ quiet' = (pc = "idle")
    /\ UNCHANGED <<pc, asked, kind, todo, walk, result>>

ShellCreates(d, n, x) ==
    /\ entry[d][n] = None
    /\ x \in Dirs => Fresh(x)
    /\ Put(d, n, x)
    /\ Touch

\* rm, rmdir, or mv to a place outside the home
ShellRemoves(d, n) ==
    /\ entry[d][n] # None
    /\ Put(d, n, None)
    /\ Touch

\* rename(2), over anything but a directory
ShellRenames(d, n, e, m) ==
    /\ <<d, n>> # <<e, m>>
    /\ entry[d][n] # None /\ entry[e][m] \notin Dirs
    /\ entry[d][n] \in Dirs => e \notin Subtree(entry[d][n])
    /\ entry' = [entry EXCEPT ![e][m] = entry[d][n], ![d][n] = None]
    /\ Touch

---------------------------------------------------------------------------
(* The walk.                                                                *)

Open(path) ==                      \* _walk's first lines
    /\ stack' = <<Root>> /\ fds' = fds + 1
    /\ rest' = path /\ hops' = 0 /\ name' = None
    /\ pc' = "walk"

\* _mkdirs walks to every prefix in turn.
PathPrefixes(path) == [i \in 1..Len(path) |-> SubSeq(path, 1, i)]

\* A write makes the parent directories first.
Goals(k, path) ==
    CASE k \in {"read", "list"} -> <<[kind |-> k, path |-> path]>>
      [] k = "mkdir" -> [i \in 1..Len(path) |-> [kind |-> k, path |-> PathPrefixes(path)[i]]]
      [] k = "create" -> [i \in 1..Len(path) |->
                             [kind |-> IF i = Len(path) THEN "create" ELSE "mkdir",
                              path |-> PathPrefixes(path)[i]]]

Begin(k, path) ==
    /\ pc = "idle"
    /\ asked' = [kind |-> k, path |-> path]
    /\ kind' = Head(Goals(k, path)).kind
    /\ todo' = Tail(Goals(k, path))
    /\ Open(Head(Goals(k, path)).path)
    /\ UNCHANGED <<entry, result, quiet>>

\* Every descriptor is closed, the exception reaches the route.
Refuse ==
    /\ fds' = fds - Len(stack)
    /\ stack' = <<>> /\ rest' = <<>> /\ name' = None /\ hops' = 0
    /\ pc' = "done" /\ todo' = <<>>
    /\ UNCHANGED <<asked, kind, result, quiet>>

Stay == UNCHANGED <<asked, kind, todo, result, quiet>>

\* open(2) of a FIFO does not return, unless a process has it open at the other
\* end.
Enter(x) ==
    /\ stack' = Append(stack, x) /\ fds' = fds + 1
    /\ rest' = Tail(rest)
    /\ pc' \in IF x \in Pipes THEN {"walk", "stuck"} ELSE {"walk"}
    /\ UNCHANGED <<name, hops>> /\ Stay

\* Mutant of Pop: the descriptor is not closed.
Pop_Leaks ==
    /\ stack' = Popped
    /\ UNCHANGED fds

Pop ==
    /\ stack' = Popped
    /\ fds' = fds - 1

\* ".." pops a descriptor, never the root's.
Climb ==
    /\ pc = "walk" /\ rest # <<>> /\ Head(rest) = Up
    /\ IF Len(stack) = 1
       THEN Refuse
       ELSE /\ Pop
            /\ rest' = Tail(rest)
            /\ UNCHANGED <<pc, name, hops>> /\ Stay
    /\ UNCHANGED entry

AtLeaf == Len(rest) = 1

\* For mkdir the walk ends at the parent.
Parent ==
    /\ pc = "walk" /\ rest # <<>> /\ Head(rest) # Up
    /\ AtLeaf /\ kind = "mkdir"
    /\ pc' = "found" /\ name' = Head(rest) /\ rest' = <<>>
    /\ UNCHANGED <<entry, stack, hops, fds>> /\ Stay

\* The errnos after which the entry is taken for a symlink: a leaf reports one
\* with ELOOP, except that O_DIRECTORY makes it ENOTDIR, which only counts in
\* the middle of a path - where a file reports it too.
LooksLikeLink(x) ==
    IF AtLeaf THEN kind # "list" /\ x \in Links
              ELSE x \in Links \cup Files

\* Mutant of Opened: without O_NOFOLLOW the kernel follows an absolute link.
Opened_Follows(x) ==
    IF x \in Links /\ Target[x] = Absolute THEN Outside
    ELSE IF x \in Dirs \cup Files THEN x ELSE None

\* What open(2) hands out, None for an error, with O_NOFOLLOW always.
Opened(x) ==
    CASE ~AtLeaf \/ kind = "list" -> IF x \in Dirs THEN x ELSE None
      [] kind = "read" /\ AtLeaf -> IF x \in Dirs \cup Files THEN x ELSE None
      [] kind = "create" /\ AtLeaf -> IF x \in Files THEN x ELSE None

\* Mutant of Expand: no expansion is counted.
Expand_Uncounted ==
    /\ pc' = "link"
    /\ name' = Head(rest) /\ rest' = Tail(rest)
    /\ UNCHANGED <<stack, fds, hops>> /\ Stay

Expand ==
    IF hops + 1 > MaxHops
    THEN Refuse
    ELSE /\ pc' = "link" /\ hops' = hops + 1
         /\ name' = Head(rest) /\ rest' = Tail(rest)
         /\ UNCHANGED <<stack, fds>> /\ Stay

Hop ==
    /\ pc = "walk" /\ rest # <<>> /\ Head(rest) # Up
    /\ ~(AtLeaf /\ kind = "mkdir")
    /\ LET x == entry[Top][Head(rest)] IN
       \/ /\ Opened(x) # None
          /\ Enter(Opened(x))
          /\ UNCHANGED entry
       \/ /\ x = None /\ AtLeaf /\ kind = "create"        \* O_CREAT
          /\ \E f \in Files \ Pipes : Put(Top, Head(rest), f) /\ Enter(f)
       \/ /\ Opened(x) = None /\ LooksLikeLink(x)
          /\ Expand
          /\ UNCHANGED entry
       \/ /\ Opened(x) = None /\ ~LooksLikeLink(x)
          /\ ~(x = None /\ AtLeaf /\ kind = "create")
          /\ Refuse
          /\ UNCHANGED entry

\* Mutant of Spliced: the target comes after the components that are left.
Spliced_After(x) == rest \o Target[x]

\* The target's components take the link's place.
Spliced(x) == Target[x] \o rest

\* The target is read through the descriptor; the entry may be another one by
\* now, or no link at all.
ReadLink ==
    /\ pc = "link"
    /\ LET x == entry[Top][name] IN
       IF x \in Links /\ Target[x] # Absolute
       THEN /\ rest' = Spliced(x)
            /\ pc' = "walk" /\ name' = None
            /\ UNCHANGED <<stack, hops, fds>> /\ Stay
       ELSE Refuse
    /\ UNCHANGED entry

Arrived ==
    /\ pc = "walk" /\ rest = <<>>
    /\ IF kind = "mkdir" THEN Refuse               \* "root has no parent"
       ELSE /\ pc' = "found"
            /\ UNCHANGED walk /\ Stay
    /\ UNCHANGED entry

---------------------------------------------------------------------------
(* What the operation does where the walk ends.                             *)

\* The walk's descriptors are closed; the next path follows, or the response.
Finish(x) ==
    IF todo = <<>>
    THEN /\ fds' = fds - Len(stack)
         /\ stack' = <<>> /\ rest' = <<>> /\ name' = None /\ hops' = 0
         /\ pc' = "done" /\ result' = x
         /\ UNCHANGED <<asked, kind, todo, quiet>>
    ELSE /\ kind' = Head(todo).kind /\ todo' = Tail(todo)
         /\ stack' = <<Root>> /\ fds' = fds - Len(stack) + 1
         /\ rest' = Head(todo).path /\ hops' = 0 /\ name' = None
         /\ pc' = "walk"
         /\ UNCHANGED <<asked, result, quiet>>

\* A directory is no file to read or to write, a file no directory to list.
Use ==
    /\ pc = "found" /\ kind # "mkdir" /\ Top \notin Pipes
    /\ IF kind = "list" <=> Top \in Dirs THEN Finish(Top) ELSE Refuse
    /\ UNCHANGED entry

\* _mkdir_at: whatever has the name is left alone; a new directory is opened
\* for its chown, which fails when it is no directory any more.
MakeDir ==
    /\ pc = "found" /\ kind = "mkdir"
    /\ IF entry[Top][name] # None
       THEN Finish(Top) /\ UNCHANGED entry
       ELSE \/ \E d \in Dirs :
                 /\ Fresh(d)
                 /\ Put(Top, name, d)
                 /\ pc' = "chown"
                 /\ UNCHANGED walk /\ Stay
            \/ /\ ~\E d \in Dirs : Fresh(d)          \* the disk is full
               /\ Refuse /\ UNCHANGED entry

ChownDir ==
    /\ pc = "chown"
    /\ IF entry[Top][name] \in Dirs THEN Finish(Top) ELSE Refuse
    /\ UNCHANGED entry

\* The response.
Reply ==
    /\ pc = "done"
    /\ pc' = "idle" /\ asked' = NoRequest /\ kind' = "read"
    /\ result' = None /\ quiet' = TRUE
    /\ UNCHANGED <<entry, todo, walk>>

WalkStep ==
    Climb \/ Parent \/ Hop \/ ReadLink \/ Arrived \/ Use \/ MakeDir \/ ChownDir \/ Reply

\* Whoever has a FIFO open at the other end lets the thread go on, to what it
\* reads and writes there or to a broken pipe.
Peer ==
    /\ \/ pc = "stuck" /\ pc' = "walk" /\ UNCHANGED walk /\ Stay
       \/ /\ pc = "found" /\ kind \in {"read", "create"} /\ Top \in Pipes
          /\ (Finish(Top) \/ Refuse)
    /\ UNCHANGED entry

Request == \E path \in Paths, k \in Kinds : Begin(k, path)

Shell ==
    \E d \in Dirs, n \in Names :
       \/ \E x \in Inodes \ {Root} : ShellCreates(d, n, x)
       \/ ShellRemoves(d, n)
       \/ \E e \in Dirs, m \in Names : ShellRenames(d, n, e, m)

Next == Request \/ WalkStep \/ Peer \/ Shell

Spec == Init /\ [][Next]_vars

\* The panel's thread goes on whatever the shell does, but for the system calls
\* that wait for another process.
FairSpec == Spec /\ WF_vars(WalkStep)

---------------------------------------------------------------------------
(* Properties.                                                              *)

TypeOK ==
    /\ entry \in [Dirs -> [Names -> Inodes \cup {None}]]
    /\ pc \in {"idle", "walk", "stuck", "link", "found", "chown", "done"}
    /\ kind \in Kinds
    /\ stack \in Seq(Dirs \cup Files \cup {Outside})
    /\ rest \in Seq(Names \cup {Up})
    /\ name \in Names \cup {None}
    /\ hops \in 0..MaxHops /\ fds \in Nat
    /\ result \in Dirs \cup Files \cup {None, Outside}
    /\ quiet \in BOOLEAN

\* Whatever the shell swaps in at whatever moment, the walk only ever holds the
\* home's own inodes, and all but the last are directories.
StaysInside ==
    \A i \in DOMAIN stack :
        /\ stack[i] \in Dirs \cup Files
        /\ i < Len(stack) => stack[i] \in Dirs

\* No path through the walk leaks a descriptor or closes one twice.
NoDescriptorLeft == fds = Len(stack) /\ (pc \in {"idle", "done"} => fds = 0)

\* The walk ends although the shell keeps swapping links under it.  Not kept of
\* one that meets a FIFO, which _walk opens without O_NONBLOCK: the owner of the
\* home holds its thread for as long as they please.
AtPipe == pc = "stuck" \/ (pc = "found" /\ Top \in Pipes)

WalkEnds == (pc # "idle") ~> (pc = "idle" \/ AtPipe)
============================================================================
