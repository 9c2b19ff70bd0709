------------------------------- MODULE Unzip -------------------------------
(***************************************************************************)
(* extract_zip of safepath.py behind /api/files/unzip: one pass over the   *)
(* archive's directory decides, a second pass writes.  A home is a map     *)
(* from paths to what is there; symlinks and how a path is walked are      *)
(* SafeWalk's subject.                                                     *)
(***************************************************************************)
EXTENDS Naturals, SequencesExt, FiniteSetsExt

CONSTANTS
    Parts, Up,          \* components, and ".."
    Depth,              \* of the longest path
    Archives, Homes,    \* what can be asked for: archives, homes they are in
    ZipPath, Dest,        \* the archive's path, and where it is unpacked
    MaxFiles, MaxBytes, \* MAX_ZIP_FILES, MAX_ZIP_BYTES
    Nothing, Dir, Kept,
    Part                \* a file that the full disk has cut short

Paths == UNION {[1..n -> Parts] : n \in 1..Depth}

\* A member is a directory when its name ends in "/", a symlink when its mode says
\* so, whatever its name.  Its size is the one its header declares; one that is not
\* sound is encrypted, compressed in an unknown way, or has the wrong checksum.
Member == [dir : BOOLEAN, link : BOOLEAN, rooted : BOOLEAN,
           name : Seq(Parts \cup {Up}), size : Nat, sound : BOOLEAN]

Parents(p) == {SubSeq(p, 1, n) : n \in 1..(Len(p) - 1)}

\* Whatever is there is in a directory.
IsTree(h) == \A p \in Paths : h[p] # Nothing => \A q \in Parents(p) : h[q] = Dir

\* Every member that can be written has a path of the home.
ASSUME ArchivesOK ==
    /\ Up \notin Parts /\ Depth \in Nat
    /\ ZipPath \in Paths /\ Dest \in Paths
    /\ \A x \in Archives : x \in Seq(Member)
    /\ \A x \in Archives : \A i \in DOMAIN x :
          Up \notin Range(x[i].name) => Len(Dest) + Len(x[i].name) <= Depth
    /\ Homes \subseteq [Paths -> {Nothing, Dir, Kept}]
    /\ \A h \in Homes : IsTree(h)
    /\ {Nothing, Dir, Kept, Part} \cap Nat = {} /\ Dir \notin {Nothing, Kept, Part}
    /\ MaxFiles \in Nat /\ MaxBytes \in Nat

VARIABLES
    home,       \* path -> Nothing, Dir, Kept, Part, or the member written there
    archive,    \* what the request unpacks
    before,     \* the home when it began
    plan,       \* the members still to write, by their place in the archive
    phase

unzipVars == <<home, archive, before, plan, phase>>

UnzipInit ==
    /\ archive \in Archives
    /\ home \in Homes
    /\ before = home
    /\ plan = {}
    /\ phase = "check"

---------------------------------------------------------------------------
(* What a member's name means.                                              *)

\* Mutant of Safe: only a name that begins with ".." escapes.
Safe_First(m) == ~m.rooted /\ (m.name = <<>> \/ Head(m.name) # Up)

\* _safe_member
Safe(m) == ~m.rooted /\ Up \notin Range(m.name)

\* Where the walk of a path ends: ".." leaves a directory.
Lands(path) ==
    LET dir[n \in 0..Len(path)] ==
          IF n = 0 THEN <<>>
          ELSE IF path[n] # Up THEN Append(dir[n - 1], path[n])
          ELSE IF dir[n - 1] = <<>> THEN <<>> ELSE Front(dir[n - 1])
    IN dir[Len(path)]

TooBig(x) ==
    \/ Len(x) > MaxFiles
    \/ MapThenSumSet(LAMBDA i : x[i].size, DOMAIN x) > MaxBytes

---------------------------------------------------------------------------
(* The two passes.                                                          *)

\* Directories are skipped: they come into being as parents of files only.
Writable(x) == {i \in DOMAIN x : ~x[i].dir}

\* Where a member of the archive goes, and the next one that does
PathOf(i) == Lands(Dest \o archive[i].name)
Coming == Min(plan)

\* The first pass looks at headers only.
Check ==
    /\ phase = "check"
    /\ IF \/ TooBig(archive)
          \/ \E i \in Writable(archive) : archive[i].link \/ ~Safe(archive[i])
       THEN phase' = "refused" /\ UNCHANGED plan
       ELSE phase' = "parents" /\ plan' = Writable(archive)
    /\ UNCHANGED <<home, archive, before>>

Finish ==
    /\ phase = "parents" /\ plan = {}
    /\ phase' = "ok"
    /\ UNCHANGED <<home, archive, before, plan>>

\* _mkdir_parts: one directory after the other, up to a file in the way or to one
\* that the full disk has no room for.
MakeParents ==
    /\ phase = "parents" /\ plan # {}
    /\ LET Above == Parents(PathOf(Coming)) IN
       \E reach \in 1..Len(PathOf(Coming)) :
          /\ \A q \in Above : Len(q) < reach => home[q] \in {Nothing, Dir}
          /\ home' = [q \in Paths |-> IF q \in Above /\ Len(q) < reach THEN Dir ELSE home[q]]
          /\ \/ reach = Len(PathOf(Coming)) /\ phase' = "member"
             \/ (\E q \in Above : Len(q) = reach /\ home[q] # Dir) /\ phase' = "failed"
    /\ UNCHANGED <<archive, before, plan>>

\* The member can be read: the archive was not replaced by one of its members.
Readable(m) == m.sound /\ home[ZipPath] = Kept

\* Mutant of WriteMember: a member that cannot be read is left out.
WriteMember_Silent ==
    LET p == PathOf(Coming) IN
    /\ phase = "member"
    /\ home' = IF Readable(archive[Coming]) /\ home[p] # Dir
               THEN [home EXCEPT ![p] = Coming] ELSE home
    /\ phase' = "parents"
    /\ plan' = plan \ {Coming}
    /\ UNCHANGED <<archive, before>>

\* z.read, then _write_parts over what is there, which is emptied first: when the
\* disk is full a file that was there is lost.
WriteMember ==
    LET p == PathOf(Coming) IN
    /\ phase = "member"
    /\ \/ /\ Readable(archive[Coming]) /\ home[p] # Dir
          /\ home' = [home EXCEPT ![p] = Coming]
          /\ plan' = plan \ {Coming}
          /\ phase' = "parents"
       \/ /\ Readable(archive[Coming]) /\ home[p] # Dir
          /\ home' = [home EXCEPT ![p] = Part]
          /\ phase' = "failed" /\ UNCHANGED plan
       \/ /\ ~Readable(archive[Coming]) \/ home[p] \in {Nothing, Dir}
          /\ phase' = "failed" /\ UNCHANGED <<home, plan>>
    /\ UNCHANGED <<archive, before>>

Done == phase \in {"ok", "refused", "failed"} /\ UNCHANGED unzipVars

UnzipNext == Check \/ MakeParents \/ WriteMember \/ Finish \/ Done

UnzipSpec == UnzipInit /\ [][UnzipNext]_unzipVars

---------------------------------------------------------------------------
(* Properties.                                                              *)

\* A home stays a tree.
HomeOK ==
    /\ home \in [Paths -> {Nothing, Dir, Kept, Part} \cup DOMAIN archive]
    /\ phase \in {"check", "parents", "member", "ok", "refused", "failed"}
    /\ plan \subseteq DOMAIN archive
    /\ IsTree(home)

Outside(m) == m.rooted \/ ~IsPrefix(Dest, Lands(Dest \o m.name))

\* An archive that holds a symlink, a file that leads out of the directory it is
\* unpacked in, or more than the caps allow leaves the home as it was, wherever in
\* the archive the bad member is (extract_zip: "Symlink members, .. members and
\* absolute members abort the whole operation before anything is written").  Not
\* kept of a member whose name ends in "/": it is skipped before its mode and its
\* name are looked at, and the others are unpacked.
BadArchiveWritesNothing ==
    (\/ TooBig(archive)
     \/ \E i \in DOMAIN archive :
           ~archive[i].dir /\ (archive[i].link \/ Outside(archive[i])))
       => home = before

\* What is answered ok is unpacked: every file is where its name leads, or a later
\* one of that name is, and nothing else changed but directories above them.  Not
\* kept: that a directory of the archive is made, when it holds no file.
OkMeansUnpacked ==
    phase = "ok" =>
        /\ \A i \in Writable(archive) : home[PathOf(i)] \in i..Len(archive)
        /\ \A p \in Paths : home[p] # before[p] =>
              \E i \in Writable(archive) :
                 PathOf(i) = p \/ (p \in Parents(PathOf(i)) /\ home[p] = Dir)

\* An archive is unpacked as a whole or not at all (safepath.py: "whole archive
\* validated before the first byte is written").  Not kept: a member that cannot
\* be read or written fails after the ones before it were unpacked.
AllOrNothing == phase = "failed" => home = before
============================================================================
