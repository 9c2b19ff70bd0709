--------------------------- MODULE SafeWalkProofs ---------------------------
(***************************************************************************)
(* What holds of the walk for every home, every set of links and whatever  *)
(* the shell does between two of its system calls: it is well typed, it    *)
(* never holds anything but the home's own inodes, no way out of it leaks  *)
(* a descriptor, and in a tree nobody touches it hands out what the        *)
(* portable backend would.                                                 *)
(***************************************************************************)
EXTENDS SafeFallback, SequenceTheorems, WellFoundedInduction, TLAPS

Nodes == Dirs \cup Files
Comps == Names \cup {Up}
Goal == [kind : Kinds, path : Seq(Names)]

---------------------------------------------------------------------------
(* The invariant.                                                           *)

Resting == pc \in {"idle", "done"}

\* The walk is about to look a name up in the directory on top.
Descending ==
    \/ pc \in {"walk", "stuck"} /\ rest # <<>>
    \/ pc \in {"link", "chown"}
    \/ pc = "found" /\ kind = "mkdir"

EntryInv == entry \in [Dirs -> [Names -> Inodes \cup {None}]]

\* Every descriptor but the last is a directory, the last one too while there
\* is something left to look up in it.
StackInv ==
    /\ stack \in Seq(Nodes)
    /\ fds = Len(stack)
    /\ Resting <=> stack = <<>>
    /\ \A i \in 1..Len(stack) : i < Len(stack) => stack[i] \in Dirs
    /\ Descending => Top \in Dirs

ShapeInv ==
    /\ pc \in {"idle", "walk", "stuck", "link", "found", "chown", "done"}
    /\ kind \in Kinds
    /\ todo \in Seq(Goal)
    /\ rest \in Seq(Comps)
    /\ name \in Names \cup {None}
    /\ hops \in 0..MaxHops
    /\ result \in Nodes \cup {None, Outside}
    /\ quiet \in BOOLEAN

WalkInv == StackInv /\ ShapeInv

LEMMA InvGivesProperties ==
  ASSUME EntryInv, WalkInv
  PROVE  TypeOK /\ StaysInside /\ NoDescriptorLeft
<1>1. stack \in Seq(Dirs \cup Files \cup {Outside})
  BY SeqMonotonic DEF WalkInv, StackInv, Nodes
<1>2. DOMAIN stack = 1..Len(stack) /\ Len(stack) \in Nat
  BY LenProperties DEF WalkInv, StackInv
<1>3. TypeOK
  BY <1>1, <1>2, Zenon DEF TypeOK, EntryInv, WalkInv, StackInv, ShapeInv, Comps, Nodes
<1>4. StaysInside
  BY <1>2, ElementOfSeq DEF StaysInside, WalkInv, StackInv, Nodes
<1>5. NoDescriptorLeft
  BY EmptySeq DEF NoDescriptorLeft, WalkInv, StackInv, Resting
<1> QED
  BY <1>3, <1>4, <1>5
---------------------------------------------------------------------------
(* The forms a step gives the stack.                                        *)

LEMMA StackFacts ==
  ASSUME StackInv
  PROVE  /\ Len(stack) \in Nat
         /\ ~Resting => stack # <<>> /\ Len(stack) >= 1 /\ Top \in Nodes
<1>1. Len(stack) \in Nat
  BY LenProperties DEF StackInv
<1>2. ASSUME ~Resting PROVE stack # <<>> /\ Len(stack) >= 1 /\ Top \in Nodes
  <2>1. stack # <<>> /\ Len(stack) \in Nat \ {0}
    BY <1>2, EmptySeq DEF StackInv
  <2> QED
    BY <2>1, ElementOfSeq DEF StackInv, Top
<1> QED
  BY <1>1, <1>2

LEMMA StartStack ==
  ASSUME stack' = <<Root>>, fds' = 1, pc' = "walk"
  PROVE  StackInv'
  BY ConstantsOK DEF StackInv, Nodes, Resting, Top

LEMMA EndStack ==
  ASSUME stack' = <<>>, fds' = 0, pc' \in {"idle", "done"}
  PROVE  StackInv'
  BY DEF StackInv, Resting, Descending

LEMMA PushStack ==
  ASSUME StackInv, pc' \in {"walk", "stuck"}, Top \in Dirs, ~Resting,
         NEW x \in Nodes, rest' # <<>> => x \in Dirs,
         stack' = Append(stack, x), fds' = fds + 1
  PROVE  StackInv'
<1>1. stack' \in Seq(Nodes) /\ stack' # <<>> /\ Len(stack') = Len(stack) + 1
      /\ (\A i \in 1..Len(stack) : stack'[i] = stack[i]) /\ Top' = x
  BY AppendProperties DEF StackInv, Top
<1>2. \A i \in 1..Len(stack') : i < Len(stack') => stack'[i] \in Dirs
  BY <1>1, StackFacts DEF StackInv, Top
<1> QED
  BY <1>1, <1>2, StackFacts DEF StackInv, Resting, Descending

\* The first n elements of a sequence.
LEMMA FrontOfSeq ==
  ASSUME NEW S, NEW s \in Seq(S), NEW n \in 1..Len(s)
  PROVE  /\ SubSeq(s, 1, n) \in Seq(S)
         /\ Len(SubSeq(s, 1, n)) = n
         /\ \A i \in 1..n : SubSeq(s, 1, n)[i] = s[i]
<1>1. \A i \in 1..n : s[i] \in S
  BY ElementOfSeq
<1>2. /\ SubSeq(s, 1, n) \in Seq(S)
      /\ Len(SubSeq(s, 1, n)) = n
  BY <1>1
<1>3. \A i \in 1..n : SubSeq(s, 1, n)[i] = s[i]
  OBVIOUS
<1> QED
  BY <1>2, <1>3

LEMMA PopStack ==
  ASSUME StackInv, pc' = "walk", ~Resting, Len(stack) # 1, Pop
  PROVE  StackInv'
<1> DEFINE n == Len(stack) - 1
<1>1. n \in Nat \ {0}
  BY StackFacts
<1>2. \A i \in 1..n : stack[i] \in Nodes /\ stack[i] \in Dirs
  BY <1>1, ElementOfSeq DEF StackInv
<1>3. stack' \in Seq(Nodes) /\ Len(stack') = n /\ \A i \in 1..n : stack'[i] = stack[i]
  <2>1. stack' = SubSeq(stack, 1, n)
    BY DEF Pop, Popped
  <2>2. /\ SubSeq(stack, 1, n) \in Seq(Nodes)
        /\ Len(SubSeq(stack, 1, n)) = n
        /\ \A i \in 1..n : SubSeq(stack, 1, n)[i] = stack[i]
    <3>1. stack \in Seq(Nodes)
      BY DEF StackInv
    <3>2. n \in 1..Len(stack)
      <4>1. Len(stack) \in Nat
        BY StackFacts
      <4>2. \A k \in Nat : k - 1 \in Nat \ {0} => k - 1 \in 1..k
        OBVIOUS
      <4> HIDE DEF n
      <4>3. n = Len(stack) - 1
        BY DEF n
      <4> QED
        BY <1>1, <4>1, <4>2, <4>3
    <3> QED
      BY <3>1, <3>2, FrontOfSeq
  <2> QED
    BY <2>1, <2>2
<1>4. stack' # <<>>
  BY <1>1, <1>3, EmptySeq
<1>5. Top' \in Dirs
  BY <1>1, <1>2, <1>3 DEF Top
<1> QED
  BY <1>1, <1>2, <1>3, <1>4, <1>5, StackFacts DEF StackInv, Resting, Pop

LEMMA KeepStack ==
  ASSUME StackInv, UNCHANGED <<stack, fds>>, Resting' <=> Resting,
         Descending' => Descending
  PROVE  StackInv'
  BY DEF StackInv, Top

LEMMA HeadTail ==
  ASSUME NEW S, NEW s \in Seq(S), s # <<>>
  PROVE  Head(s) \in S /\ Tail(s) \in Seq(S)
  BY HeadTailProperties

LEMMA GoalsFacts ==
  ASSUME NEW k \in Kinds, NEW path \in Seq(Names), path # <<>>
  PROVE  Goals(k, path) \in Seq(Goal) /\ Goals(k, path) # <<>>
<1> DEFINE n == Len(path)
<1>1. n \in Nat \ {0}
  BY EmptySeq
<1>2. \A i \in 1..n : PathPrefixes(path)[i] \in Seq(Names)
  <2> SUFFICES ASSUME NEW i \in 1..n PROVE SubSeq(path, 1, i) \in Seq(Names)
    BY DEF PathPrefixes
  <2>1. \A m \in 1..i : path[m] \in Names
    BY <1>1, ElementOfSeq
  <2> QED
    BY <2>1, SubSeqProperties
<1>3. CASE k \in {"read", "list"}
  <2>1. [kind |-> k, path |-> path] \in Goal
    BY DEF Goal
  <2>2. Goals(k, path) = <<[kind |-> k, path |-> path]>>
    BY <1>3, Zenon DEF Goals
  <2> QED
    BY <2>1, <2>2
<1>4. CASE k = "mkdir"
  <2> DEFINE g(i) == [kind |-> k, path |-> PathPrefixes(path)[i]]
  <2>1. \A i \in 1..n : g(i) \in Goal
    BY <1>2, <1>4 DEF Goal, Kinds
  <2>2. Goals(k, path) = [i \in 1..n |-> g(i)]
    BY <1>4 DEF Goals
  <2> QED
    BY <1>1, <2>1, <2>2
<1>5. CASE k = "create"
  <2> DEFINE g(i) == [kind |-> IF i = Len(path) THEN "create" ELSE "mkdir",
                      path |-> PathPrefixes(path)[i]]
  <2>1. \A i \in 1..n : g(i) \in Goal
    BY <1>2, <1>5 DEF Goal, Kinds
  <2>2. Goals(k, path) = [i \in 1..n |-> g(i)]
    BY <1>5 DEF Goals
  <2> QED
    BY <1>1, <2>1, <2>2
<1> QED
  BY <1>3, <1>4, <1>5 DEF Kinds
---------------------------------------------------------------------------
(* The steps of the walk.                                                   *)

LEMMA InitWalk == Init => EntryInv /\ WalkInv
<1>1. Init => EntryInv
  BY DEF Init, EntryInv
<1>2. Init => StackInv
  BY DEF Init, StackInv, Resting, Descending
<1>3. Init => ShapeInv
  BY ConstantsOK DEF Init, ShapeInv, Kinds
<1> QED
  BY <1>1, <1>2, <1>3 DEF WalkInv

LEMMA RefuseStep ==
  ASSUME WalkInv, Refuse
  PROVE  WalkInv'
<1>1. fds' = 0
  BY StackFacts DEF WalkInv, StackInv, Refuse
<1>2. StackInv'
  BY <1>1, EndStack DEF Refuse
<1>3. ShapeInv'
  BY ConstantsOK DEF Refuse, WalkInv, ShapeInv
<1> QED
  BY <1>2, <1>3 DEF WalkInv

LEMMA EnterStep ==
  ASSUME WalkInv, pc = "walk", rest # <<>>, NEW x \in Nodes,
         ~AtLeaf => x \in Dirs, Enter(x)
  PROVE  WalkInv'
<1>1. Tail(rest) \in Seq(Comps) /\ Len(Tail(rest)) = Len(rest) - 1
  BY HeadTailProperties DEF WalkInv, ShapeInv
<1>5. rest' = Tail(rest)
  BY DEF Enter
<1>2. rest' # <<>> => x \in Dirs
  BY <1>1, <1>5, EmptySeq DEF AtLeaf, WalkInv, ShapeInv
<1>3. StackInv'
  BY <1>2, PushStack DEF WalkInv, StackInv, Descending, Resting, Enter
<1>4. ShapeInv'
  BY <1>1 DEF Enter, Stay, WalkInv, ShapeInv
<1> QED
  BY <1>3, <1>4 DEF WalkInv

LEMMA ExpandStep ==
  ASSUME WalkInv, pc = "walk", rest # <<>>, Head(rest) # Up, Expand
  PROVE  WalkInv'
<1>1. CASE Refuse
  BY <1>1, RefuseStep
<1>2. CASE /\ hops + 1 <= MaxHops
           /\ pc' = "link" /\ hops' = hops + 1
           /\ name' = Head(rest) /\ rest' = Tail(rest)
           /\ UNCHANGED <<stack, fds>> /\ Stay
  <2>1. Head(rest) \in Names /\ Tail(rest) \in Seq(Comps)
    BY HeadTail DEF WalkInv, ShapeInv, Comps
  <2>2. StackInv'
    BY <1>2, KeepStack DEF WalkInv, Resting, Descending
  <2>3. ShapeInv'
    BY <1>2, <2>1, ConstantsOK DEF Stay, WalkInv, ShapeInv
  <2> QED
    BY <2>2, <2>3 DEF WalkInv
<1> QED
  BY <1>1, <1>2, ConstantsOK DEF Expand, WalkInv, ShapeInv

LEMMA FinishStep ==
  ASSUME WalkInv, NEW x \in Nodes, Finish(x)
  PROVE  WalkInv'
<1>1. CASE todo = <<>>
  <2>1. StackInv'
    BY <1>1, StackFacts, EndStack DEF Finish, WalkInv, StackInv
  <2>2. ShapeInv'
    BY <1>1, ConstantsOK DEF Finish, WalkInv, ShapeInv
  <2> QED
    BY <2>1, <2>2 DEF WalkInv
<1>2. CASE todo # <<>>
  <2>1. Head(todo) \in Goal /\ Tail(todo) \in Seq(Goal)
    BY <1>2, HeadTail DEF WalkInv, ShapeInv
  <2>2. Head(todo).path \in Seq(Comps) /\ Head(todo).kind \in Kinds
    BY <2>1, SeqMonotonic DEF Goal, Comps
  <2>3. StackInv'
    BY <1>2, StackFacts, StartStack DEF Finish, WalkInv, StackInv
  <2>4. ShapeInv'
    <3>1. /\ kind' = Head(todo).kind /\ todo' = Tail(todo)
          /\ rest' = Head(todo).path /\ hops' = 0 /\ name' = None /\ pc' = "walk"
          /\ UNCHANGED <<result, quiet>>
      BY <1>2, Zenon DEF Finish
    <3>2. 0 \in 0..MaxHops
      BY ConstantsOK
    <3> QED
      BY <2>1, <2>2, <3>1, <3>2, Zenon DEF WalkInv, ShapeInv
  <2> QED
    BY <2>3, <2>4 DEF WalkInv
<1> QED
  BY <1>1, <1>2

LEMMA BeginStep ==
  ASSUME WalkInv, NEW k \in Kinds, NEW path \in Paths, Begin(k, path)
  PROVE  WalkInv' /\ UNCHANGED entry
<1>1. Goals(k, path) \in Seq(Goal) /\ Goals(k, path) # <<>>
  BY GoalsFacts, ConstantsOK
<1>2. Head(Goals(k, path)) \in Goal /\ Tail(Goals(k, path)) \in Seq(Goal)
  BY <1>1, HeadTail
<1>3. Head(Goals(k, path)).path \in Seq(Comps) /\ Head(Goals(k, path)).kind \in Kinds
  BY <1>2, SeqMonotonic DEF Goal, Comps
<1>4. fds' = 1
  BY StackFacts, EmptySeq DEF Begin, Open, WalkInv, StackInv, Resting
<1>5. StackInv'
  BY <1>4, StartStack DEF Begin, Open
<1>6. ShapeInv'
  BY <1>2, <1>3, ConstantsOK DEF Begin, Open, WalkInv, ShapeInv
<1> QED
  BY <1>5, <1>6 DEF WalkInv, Begin
---------------------------------------------------------------------------
(* What the shell does keeps the tree a tree of known inodes, and the walk  *)
(* as it was.                                                               *)

LEMMA PutStep ==
  ASSUME EntryInv, NEW d, NEW n, NEW x \in Inodes \cup {None}, Put(d, n, x)
  PROVE  EntryInv'
  BY DEF EntryInv, Put

LEMMA TouchStep ==
  ASSUME WalkInv, Touch
  PROVE  WalkInv'
<1>1. StackInv'
  BY DEF Touch, walk, WalkInv, StackInv, Resting, Descending, Top
<1>2. ShapeInv'
  BY DEF Touch, walk, WalkInv, ShapeInv
<1> QED
  BY <1>1, <1>2 DEF WalkInv

LEMMA ShellStep ==
  ASSUME EntryInv, WalkInv, Shell
  PROVE  EntryInv' /\ WalkInv'
<1>1. PICK d \in Dirs, n \in Names :
        \/ \E x \in Inodes \ {Root} : ShellCreates(d, n, x)
        \/ ShellRemoves(d, n)
        \/ \E e \in Dirs, m \in Names : ShellRenames(d, n, e, m)
  BY DEF Shell
<1>2. CASE \E x \in Inodes \ {Root} : ShellCreates(d, n, x)
  BY <1>2, PutStep, TouchStep DEF ShellCreates
<1>3. CASE ShellRemoves(d, n)
  BY <1>3, PutStep, TouchStep DEF ShellRemoves
<1>4. ASSUME NEW e \in Dirs, NEW m \in Names, ShellRenames(d, n, e, m)
      PROVE  EntryInv' /\ WalkInv'
  <2>1. EntryInv'
    BY <1>4 DEF ShellRenames, EntryInv
  <2> QED
    BY <1>4, <2>1, TouchStep DEF ShellRenames
<1> QED
  BY <1>1, <1>2, <1>3, <1>4

---------------------------------------------------------------------------
(* One lemma per action that does more than one thing.                      *)

\* What open(2) hands out is in the home, and a directory unless it is the leaf.
LEMMA OpenedFacts ==
  ASSUME NEW x, kind \in Kinds, ~(AtLeaf /\ kind = "mkdir"), Opened(x) # None
  PROVE  Opened(x) \in Nodes /\ (~AtLeaf => Opened(x) \in Dirs)
<1>1. CASE ~AtLeaf \/ kind = "list"
  BY <1>1 DEF Opened, Nodes
<1>2. CASE AtLeaf /\ kind = "read"
  BY <1>2 DEF Opened, Nodes
<1>3. CASE AtLeaf /\ kind = "create"
  BY <1>3 DEF Opened, Nodes
<1> QED
  BY <1>1, <1>2, <1>3 DEF Kinds
LEMMA ClimbStep ==
  ASSUME WalkInv, Climb
  PROVE  WalkInv'
<1>1. CASE Refuse
  BY <1>1, RefuseStep
<1>2. CASE /\ Len(stack) # 1 /\ Pop /\ rest' = Tail(rest)
           /\ UNCHANGED <<pc, name, hops>> /\ Stay
  <2>1. StackInv'
    BY <1>2, PopStack DEF Climb, WalkInv, Resting
  <2>2. Tail(rest) \in Seq(Comps)
    BY HeadTail DEF Climb, WalkInv, ShapeInv
  <2>3. ShapeInv'
    BY <1>2, <2>2 DEF Stay, WalkInv, ShapeInv
  <2> QED
    BY <2>1, <2>3 DEF WalkInv
<1> QED
  BY <1>1, <1>2 DEF Climb

LEMMA ParentStep ==
  ASSUME WalkInv, Parent
  PROVE  WalkInv'
<1>1. Head(rest) \in Names
  BY HeadTail DEF Parent, WalkInv, ShapeInv, Comps
<1>2. StackInv'
  BY KeepStack DEF Parent, WalkInv, Resting, Descending
<1>3. ShapeInv'
  BY <1>1 DEF Parent, Stay, WalkInv, ShapeInv
<1> QED
  BY <1>2, <1>3 DEF WalkInv

LEMMA HopStep ==
  ASSUME EntryInv, WalkInv, Hop
  PROVE  EntryInv' /\ WalkInv'
<1> DEFINE x == entry[Top][Head(rest)]
<1>1. /\ pc = "walk" /\ rest # <<>> /\ Head(rest) # Up
      /\ ~(AtLeaf /\ kind = "mkdir") /\ kind \in Kinds
  BY DEF Hop, WalkInv, ShapeInv
<1>2. CASE Opened(x) # None /\ Enter(Opened(x)) /\ UNCHANGED entry
  <2>1. Opened(x) \in Nodes /\ (~AtLeaf => Opened(x) \in Dirs)
    BY <1>1, <1>2, OpenedFacts
  <2>2. WalkInv'
    BY <1>1, <1>2, <2>1, EnterStep
  <2> QED
    BY <1>2, <2>2 DEF EntryInv
<1>3. ASSUME AtLeaf, NEW f \in Files \ Pipes, Put(Top, Head(rest), f), Enter(f)
      PROVE  EntryInv' /\ WalkInv'
  <2>1. WalkInv'
    BY <1>1, <1>3, EnterStep DEF Nodes
  <2>2. EntryInv'
    BY <1>3, PutStep DEF Inodes
  <2> QED
    BY <2>1, <2>2
<1>4. CASE Expand /\ UNCHANGED entry
  BY <1>1, <1>4, ExpandStep DEF EntryInv
<1>5. CASE Refuse /\ UNCHANGED entry
  BY <1>5, RefuseStep DEF EntryInv
<1> QED
  BY <1>2, <1>3, <1>4, <1>5 DEF Hop

LEMMA ReadLinkStep ==
  ASSUME WalkInv, ReadLink
  PROVE  WalkInv'
<1> DEFINE x == entry[Top][name]
<1>1. CASE Refuse
  BY <1>1, RefuseStep
<1>2. CASE /\ x \in Links /\ Target[x] # Absolute
           /\ rest' = Spliced(x) /\ pc' = "walk" /\ name' = None
           /\ UNCHANGED <<stack, hops, fds>> /\ Stay
  <2>1. Target[x] \in Seq(Comps)
    BY <1>2, ConstantsOK DEF Comps
  <2>2. Spliced(x) \in Seq(Comps)
    BY <2>1, ConcatProperties DEF Spliced, WalkInv, ShapeInv
  <2>3. StackInv'
    BY <1>2, KeepStack DEF ReadLink, WalkInv, Resting, Descending
  <2>4. ShapeInv'
    BY <1>2, <2>2 DEF Stay, WalkInv, ShapeInv
  <2> QED
    BY <2>3, <2>4 DEF WalkInv
<1> QED
  BY <1>1, <1>2 DEF ReadLink

LEMMA ArrivedStep ==
  ASSUME WalkInv, Arrived
  PROVE  WalkInv'
<1>1. CASE Refuse
  BY <1>1, RefuseStep
<1>2. CASE kind # "mkdir" /\ pc' = "found" /\ UNCHANGED walk /\ Stay
  <2>1. StackInv'
    BY <1>2, KeepStack DEF Arrived, Stay, walk, WalkInv, Resting, Descending
  <2>2. ShapeInv'
    BY <1>2 DEF Stay, walk, WalkInv, ShapeInv
  <2> QED
    BY <2>1, <2>2 DEF WalkInv
<1> QED
  BY <1>1, <1>2 DEF Arrived

LEMMA UseStep ==
  ASSUME WalkInv, Use
  PROVE  WalkInv'
<1>1. Top \in Nodes
  BY StackFacts DEF Use, WalkInv, Resting
<1> QED
  BY <1>1, FinishStep, RefuseStep DEF Use

LEMMA MakeDirStep ==
  ASSUME EntryInv, WalkInv, MakeDir
  PROVE  EntryInv' /\ WalkInv'
<1>1. Top \in Nodes
  BY StackFacts DEF MakeDir, WalkInv, Resting
<1>2. CASE Finish(Top) /\ UNCHANGED entry
  BY <1>1, <1>2, FinishStep DEF EntryInv
<1>3. ASSUME NEW d \in Dirs, Put(Top, name, d), pc' = "chown", UNCHANGED walk, Stay
      PROVE  EntryInv' /\ WalkInv'
  <2>1. EntryInv'
    BY <1>3, PutStep DEF Inodes
  <2>2. StackInv'
    BY <1>3, KeepStack DEF MakeDir, walk, WalkInv, Resting, Descending
  <2>3. ShapeInv'
    BY <1>3 DEF Stay, walk, WalkInv, ShapeInv
  <2> QED
    BY <2>1, <2>2, <2>3 DEF WalkInv
<1>4. CASE Refuse /\ UNCHANGED entry
  BY <1>4, RefuseStep DEF EntryInv
<1> QED
  BY <1>2, <1>3, <1>4 DEF MakeDir

LEMMA ChownDirStep ==
  ASSUME WalkInv, ChownDir
  PROVE  WalkInv'
<1>1. Top \in Nodes
  BY StackFacts DEF ChownDir, WalkInv, Resting
<1> QED
  BY <1>1, FinishStep, RefuseStep DEF ChownDir

LEMMA ReplyStep ==
  ASSUME WalkInv, Reply
  PROVE  WalkInv'
<1>1. StackInv'
  BY DEF Reply, walk, WalkInv, StackInv, Resting, Descending, Top
<1>2. ShapeInv'
  BY DEF Reply, walk, WalkInv, ShapeInv, Kinds
<1> QED
  BY <1>1, <1>2 DEF WalkInv

LEMMA PeerStep ==
  ASSUME WalkInv, Peer
  PROVE  WalkInv'
<1>1. CASE pc = "stuck" /\ pc' = "walk" /\ UNCHANGED walk /\ Stay
  <2>1. StackInv'
    BY <1>1, KeepStack DEF walk, WalkInv, Resting, Descending
  <2>2. ShapeInv'
    BY <1>1 DEF Stay, walk, WalkInv, ShapeInv
  <2> QED
    BY <2>1, <2>2 DEF WalkInv
<1>2. CASE pc = "found" /\ (Finish(Top) \/ Refuse)
  <2>1. Top \in Nodes
    BY <1>2, StackFacts DEF WalkInv, Resting
  <2> QED
    BY <1>2, <2>1, FinishStep, RefuseStep
<1> QED
  BY <1>1, <1>2 DEF Peer

LEMMA WalkIsInductive ==
  ASSUME EntryInv, WalkInv, [Next]_vars
  PROVE  EntryInv' /\ WalkInv'
<1>1. CASE Request
  BY <1>1, BeginStep DEF Request, EntryInv
<1>2. CASE WalkStep
  <2>1. CASE Climb
    BY <2>1, ClimbStep DEF Climb, EntryInv
  <2>2. CASE Parent
    BY <2>2, ParentStep DEF Parent, EntryInv
  <2>3. CASE Hop
    BY <2>3, HopStep
  <2>4. CASE ReadLink
    BY <2>4, ReadLinkStep DEF ReadLink, EntryInv
  <2>5. CASE Arrived
    BY <2>5, ArrivedStep DEF Arrived, EntryInv
  <2>6. CASE Use
    BY <2>6, UseStep DEF Use, EntryInv
  <2>7. CASE MakeDir
    BY <2>7, MakeDirStep
  <2>8. CASE ChownDir
    BY <2>8, ChownDirStep DEF ChownDir, EntryInv
  <2>9. CASE Reply
    BY <2>9, ReplyStep DEF Reply, EntryInv
  <2> QED
    BY <1>2, <2>1, <2>2, <2>3, <2>4, <2>5, <2>6, <2>7, <2>8, <2>9 DEF WalkStep
<1>3. CASE Shell
  BY <1>3, ShellStep
<1>4. CASE UNCHANGED vars
  BY <1>4 DEF vars, walk, EntryInv, WalkInv, StackInv, ShapeInv, Resting, Descending, Top
<1>5. CASE Peer
  BY <1>5, PeerStep DEF Peer, EntryInv
<1> QED
  BY <1>1, <1>2, <1>3, <1>4, <1>5 DEF Next

---------------------------------------------------------------------------
(* The theorems.                                                            *)

LEMMA WalkAlways == Spec => [](EntryInv /\ WalkInv)
<1>1. EntryInv /\ WalkInv /\ [Next]_vars => (EntryInv /\ WalkInv)'
  BY WalkIsInductive
<1> QED
  BY <1>1, InitWalk, PTL DEF Spec

\* The walk is well typed: in particular it never expands more than MaxHops
\* symlinks, however the shell swaps them (safepath.py, _walk).
THEOREM TypeCorrect == Spec => []TypeOK
<1>1. EntryInv /\ WalkInv => TypeOK
  BY InvGivesProperties
<1> QED
  BY <1>1, WalkAlways, PTL

\* Whatever the shell swaps in between two system calls, every descriptor the
\* walk holds is an inode of the home, and what it looks names up in is a
\* directory (safepath.py, _walk's O_NOFOLLOW hops).
THEOREM WalkStaysInside == Spec => []StaysInside
<1>1. EntryInv /\ WalkInv => StaysInside
  BY InvGivesProperties
<1> QED
  BY <1>1, WalkAlways, PTL

\* Every way out of the walk closes what it opened, once (safepath.py, _walk's
\* except clause and the finally clauses of its callers).
THEOREM NothingLeaks == Spec => []NoDescriptorLeft
<1>1. EntryInv /\ WalkInv => NoDescriptorLeft
  BY InvGivesProperties
<1> QED
  BY <1>1, WalkAlways, PTL

---------------------------------------------------------------------------
(* How a path is resolved.                                                  *)

\* A set of numbers that is not empty has a least one.
LEMMA LeastOf ==
    ASSUME NEW T \in SUBSET Nat, T # {}
    PROVE  \E x \in T : \A y \in T : x <= y
<1> DEFINE R == {ss \in Nat \X Nat : ss[1] < ss[2]}
<1>1. IsWellFoundedOn(R, Nat)
  BY NatLessThanWellFounded DEF OpToRel
<1> HIDE DEF R
<1>2. PICK x \in T : \A y \in T : <<y, x>> \notin R
  BY <1>1, WFMin
<1>3. \A y \in T : ~(y < x)
  BY <1>2 DEF R
<1> QED
  BY <1>3

\* The first n steps of a path's resolution
Run(path, h, n) ==
    h = [k \in 0..n |-> IF k = 0 THEN Start(path) ELSE Advance(h[k - 1])]

LEMMA RunsExist ==
    ASSUME NEW path, NEW N \in Nat
    PROVE  \E h : Run(path, h, N)
<1> DEFINE Short == {n \in Nat : ~\E h : Run(path, h, n)}
<1>1. SUFFICES ASSUME Short # {} PROVE FALSE
  OBVIOUS
<1>2. PICK n \in Short : \A k \in Short : n <= k
  BY <1>1, LeastOf
<1>3. n \in Nat /\ ~\E h : Run(path, h, n)
  BY <1>2
<1>4. n # 0
  <2>1. ASSUME n = 0 PROVE FALSE
    <3> DEFINE h == [k \in 0..0 |-> Start(path)]
    <3>1. Run(path, h, 0)
      <4>1. \A k \in 0..0 : k = 0
        OBVIOUS
      <4> QED
        BY <4>1 DEF Run
    <3> QED
      BY <1>3, <2>1, <3>1
  <2> QED
    BY <2>1
<1>5. n - 1 \in Nat /\ n - 1 \notin Short
  BY <1>2, <1>3, <1>4
<1>6. PICK h : Run(path, h, n - 1)
  BY <1>5
<1> DEFINE g == [k \in 0..n |-> IF k = n THEN Advance(h[n - 1]) ELSE h[k]]
<1>7. \A k \in 0..(n - 1) : h[k] = IF k = 0 THEN Start(path) ELSE Advance(h[k - 1])
  BY <1>6 DEF Run
<1>8. ASSUME NEW k \in 0..n
      PROVE  g[k] = IF k = 0 THEN Start(path) ELSE Advance(g[k - 1])
  <2>1. CASE k = n
    <3>1. n - 1 \in 0..n /\ n - 1 # n
      BY <1>3, <1>4
    <3>2. g[n - 1] = h[n - 1] /\ g[n] = Advance(h[n - 1])
      BY <1>3, <3>1
    <3> HIDE DEF g
    <3> QED
      BY <1>4, <2>1, <3>2
  <2>2. CASE k # n /\ k = 0
    <3>1. k \in 0..(n - 1)
      BY <1>3, <1>4, <2>2
    <3> QED
      BY <1>7, <2>2, <3>1
  <2>3. CASE k # n /\ k # 0
    <3>1. k \in 0..(n - 1) /\ k - 1 \in 0..n /\ k - 1 # n
      BY <1>3, <2>3
    <3>2. g[k] = h[k] /\ g[k - 1] = h[k - 1]
      BY <2>3, <3>1
    <3>3. h[k] = Advance(h[k - 1])
      BY <1>7, <2>3, <3>1
    <3> HIDE DEF g
    <3> QED
      BY <2>3, <3>2, <3>3
  <2> QED
    BY <2>1, <2>2, <2>3
<1>9. Run(path, g, n)
  <2>1. g = [k \in 0..n |-> g[k]]
    OBVIOUS
  <2> HIDE DEF g
  <2> QED
    BY <1>8, <2>1 DEF Run
<1> QED
  BY <1>3, <1>9

\* Each step of the resolution is what Advance makes of the one before.
LEMMA WayGoesOn ==
    ASSUME NEW path, Longest(path) \in Nat
    PROVE  /\ Way(path)[0] = Start(path)
           /\ \A k \in 1..Longest(path) : Way(path)[k] = Advance(Way(path)[k - 1])
<1> DEFINE N == Longest(path)
           Is(h) == h = [k \in 0..N |-> IF k = 0 THEN Start(path) ELSE Advance(h[k - 1])]
           go[k \in 0..N] == IF k = 0 THEN Start(path) ELSE Advance(go[k - 1])
<1>1. Way(path) = go
  BY DEF Way
<1>2. go = CHOOSE h : Is(h)
  OBVIOUS
<1>3. \E h : Is(h)
  BY RunsExist DEF Run
<1> HIDE DEF go
<1>4. Is(go)
  <2> HIDE DEF Is
  <2> QED
    BY <1>2, <1>3
<1>5. \A k \in 0..N : go[k] = IF k = 0 THEN Start(path) ELSE Advance(go[k - 1])
  BY <1>4
<1>6. 0 \in 0..N /\ \A k \in 1..N : k \in 0..N /\ k # 0
  OBVIOUS
<1> HIDE DEF N
<1> QED
  BY <1>1, <1>5, <1>6 DEF N

\* A resolution that has ended stays where it is.
LEMMA WayEnds ==
    ASSUME NEW path, Longest(path) \in Nat,
           NEW k \in 0..Longest(path), Stopped(Way(path)[k])
    PROVE  Way(path)[Longest(path)] = Way(path)[k]
<1> DEFINE N == Longest(path)
           Moved == {j \in Nat : k <= j /\ j <= N /\ Way(path)[j] # Way(path)[k]}
<1>1. SUFFICES ASSUME Moved # {} PROVE FALSE
  BY k \in Nat /\ k <= N
<1>2. PICK j \in Moved : \A i \in Moved : j <= i
  BY <1>1, LeastOf
<1>3. j \in Nat /\ k < j /\ j <= N /\ Way(path)[j] # Way(path)[k]
  BY <1>2
<1>4. j - 1 \in Nat /\ k <= j - 1 /\ j - 1 <= N /\ j - 1 \notin Moved
  BY <1>2, <1>3
<1>5. Way(path)[j - 1] = Way(path)[k]
  BY <1>4
<1>6. Way(path)[j] = Advance(Way(path)[j - 1])
  BY <1>3, WayGoesOn
<1>7. Advance(Way(path)[k]) = Way(path)[k]
  BY DEF Advance
<1> QED
  BY <1>3, <1>5, <1>6, <1>7

---------------------------------------------------------------------------
(* What the walk and the portable backend have in common while nobody       *)
(* touches the tree.                                                        *)

\* A directory is in one place, and the home is in none.
OneParent ==
    \A c, e \in Dirs, m, n \in Names :
       /\ entry[c][n] # Root
       /\ entry[c][m] \in Dirs /\ entry[c][m] = entry[e][n] => c = e /\ m = n

\* A read or a listing is under way in a tree nobody has touched.
Looking == quiet /\ asked.kind \in {"read", "list"} /\ pc \notin {"idle", "done"}

\* The walk as a path half resolved: a link it is about to read is not used yet.
Halfway ==
    IF pc = "link"
    THEN [at |-> Top, rest |-> <<name>> \o rest, used |-> hops - 1]
    ELSE [at |-> Top, rest |-> rest, used |-> hops]

\* The walk is where the portable backend comes after k steps.
Passes(k) ==
    /\ Way(asked.path)[k] = Halfway
    /\ Len(Halfway.rest) + k <= Len(asked.path) + Halfway.used * LongestLink

LookingInv ==
    /\ pc \in {"walk", "stuck", "link", "found"}
    /\ kind = asked.kind /\ todo = <<>>
    /\ pc = "link" => name \in Names /\ hops > 0
    /\ pc = "found" => rest = <<>>
    /\ \A i \in 1..(Len(stack) - 1) : \E n \in Names : entry[stack[i]][n] = stack[i + 1]
    /\ \E k \in 0..Longest(asked.path) : Passes(k)

AgreeInv ==
    /\ OneParent
    /\ pc # "idle" => asked.kind \in Kinds /\ asked.path \in Paths
    /\ pc # "done" => result = None
    /\ Looking => LookingInv
    /\ WalkWithinFallback

LEMMA LongestIs ==
    ASSUME NEW path \in Seq(Names)
    PROVE  Longest(path) \in Nat /\ Len(path) \in Nat
BY ConstantsOK, FallbackOK, LenProperties DEF Longest

LEMMA HalfwayIs ==
    ASSUME WalkInv, Looking, LookingInv
    PROVE  Halfway.rest \in Seq(Comps) /\ Len(Halfway.rest) \in Nat /\ Halfway.used \in 0..MaxHops
<1>1. CASE pc = "link"
  <2>1. <<name>> \in Seq(Comps)
    BY <1>1 DEF LookingInv, Comps
  <2>2. <<name>> \o rest \in Seq(Comps)
    BY <2>1, ConcatProperties DEF WalkInv, ShapeInv
  <2>3. Halfway.rest = <<name>> \o rest /\ Halfway.used = hops - 1
    BY <1>1 DEF Halfway
  <2>4. hops - 1 \in 0..MaxHops
    BY <1>1, ConstantsOK DEF LookingInv, WalkInv, ShapeInv
  <2> QED
    BY <2>2, <2>3, <2>4, LenProperties
<1>2. CASE pc # "link"
  <2>1. Halfway.rest = rest /\ Halfway.used = hops
    BY <1>2 DEF Halfway
  <2> QED
    BY <2>1, LenProperties DEF WalkInv, ShapeInv
<1> QED
  BY <1>1, <1>2

\* The portable backend's way does not change with the walk.
LEMMA WayFixed ==
    ASSUME NEW path, UNCHANGED entry
    PROVE  Way(path)' = Way(path) /\ Longest(path)' = Longest(path)
BY DEF Way, Advance, Stopped, Above, At, Start, Longest

LEMMA WayStays ==
    ASSUME UNCHANGED <<entry, asked>>
    PROVE  Way(asked.path)' = Way(asked.path) /\ Longest(asked.path)' = Longest(asked.path)
BY DEF Way, Advance, Stopped, Above, At, Start, Longest

\* The portable backend takes the walk's next step, and has room for it.
LEMMA BothAdvance ==
    ASSUME WalkInv, AgreeInv, Looking, UNCHANGED <<entry, asked>>,
           Len(Halfway.rest) > 0, Halfway' = Advance(Halfway),
           Len(Halfway'.rest) \in Nat, Halfway'.used \in Nat,
           \/ Len(Halfway'.rest) = Len(Halfway.rest) - 1 /\ Halfway'.used = Halfway.used
           \/ /\ Len(Halfway'.rest) < Len(Halfway.rest) + LongestLink
              /\ Halfway'.used = Halfway.used + 1
    PROVE  \E j \in 0..Longest(asked.path)' : Passes(j)'
<1>1. LookingInv
  BY DEF AgreeInv
<1>2. PICK k \in 0..Longest(asked.path) : Passes(k)
  BY <1>1 DEF LookingInv
<1> DEFINE n == Len(asked.path)
           m == Len(Halfway.rest)
           u == Halfway.used
           L == LongestLink
<1>3. asked.path \in Seq(Names)
  BY ConstantsOK DEF AgreeInv, Looking
<1>4. n \in Nat /\ Longest(asked.path) \in Nat /\ m \in Nat /\ u \in 0..MaxHops /\ L \in Nat
  BY <1>1, <1>3, LongestIs, HalfwayIs, FallbackOK
<1>5. m + k <= n + u * L
  BY <1>2 DEF Passes
<1>6. u * L <= MaxHops * L
  BY <1>4, ConstantsOK
<1>7. Longest(asked.path) = n + MaxHops * L
  BY DEF Longest
<1>8. k + 1 \in 1..Longest(asked.path)
  <2> DEFINE p == u * L
             q == MaxHops * L
  <2>1. p \in Nat /\ q \in Nat
    BY <1>4, ConstantsOK
  <2> HIDE DEF p, q, n, m
  <2> QED
    BY <1>4, <1>5, <1>6, <1>7, <2>1 DEF p, q, m
<1>9. Way(asked.path)[k + 1] = Advance(Halfway)
  <2>1. (k + 1) - 1 = k
    BY <1>2
  <2> QED
    BY <1>2, <1>4, <1>8, <2>1, WayGoesOn DEF Passes
<1>10. Len(Halfway'.rest) + (k + 1) <= n + Halfway'.used * L
  <2>1. CASE Len(Halfway'.rest) = Len(Halfway.rest) - 1 /\ Halfway'.used = Halfway.used
    <3> DEFINE p == u * L
    <3>1. p \in Nat
      BY <1>4, ConstantsOK
    <3>2. Halfway'.used * L = p /\ m + k <= n + p
      BY <1>5, <2>1
    <3>3. Len(Halfway'.rest) = m - 1
      BY <2>1
    <3> HIDE DEF p, n, m, u, L
    <3>4. k \in Nat
      BY <1>2, <1>4
    <3>5. (m - 1) + (k + 1) <= n + p
      BY <1>4, <3>1, <3>2, <3>4
    <3> QED
      BY <3>2, <3>3, <3>5
  <2>2. CASE /\ Len(Halfway'.rest) < Len(Halfway.rest) + LongestLink
             /\ Halfway'.used = Halfway.used + 1
    <3> DEFINE p == u * L
    <3>1. p \in Nat
      BY <1>4, ConstantsOK
    <3>2. Halfway'.used * L = p + L /\ m + k <= n + p
      BY <1>4, <1>5, <2>2
    <3> DEFINE r == Len(Halfway'.rest)
    <3>3. r \in Nat /\ r < m + L
      BY <2>2
    <3> HIDE DEF p, n, m, u, L, r
    <3>4. r + (k + 1) <= n + (p + L)
      BY <1>4, <3>1, <3>2, <3>3
    <3> QED
      BY <3>2, <3>4 DEF r
  <2> QED
    BY <2>1, <2>2
<1>11. /\ Way(asked.path)' = Way(asked.path)
       /\ Longest(asked.path)' = Longest(asked.path)
       /\ asked' = asked
  BY WayStays
<1>12. Passes(k + 1)'
  BY <1>9, <1>10, <1>11 DEF Passes
<1>13. k + 1 \in 0..Longest(asked.path)'
  BY <1>4, <1>8, <1>11
<1> QED
  BY <1>12, <1>13

LEMMA PutKeepsOneParent ==
    ASSUME EntryInv, OneParent, NEW d \in Dirs, NEW n \in Names, NEW x,
           x # Root, x \in Dirs => ~Linked(x), Put(d, n, x)
    PROVE  OneParent'
<1>1. \A c \in Dirs, m \in Names :
         entry'[c][m] = IF c = d /\ m = n THEN x ELSE entry[c][m]
  BY DEF EntryInv, Put
<1>2. \A c \in Dirs, m \in Names : x \in Dirs => entry[c][m] # x
  BY DEF Linked
<1> QED
  BY <1>1, <1>2 DEF OneParent

LEMMA ShellKeepsOneParent ==
    ASSUME EntryInv, OneParent, Shell
    PROVE  OneParent'
<1>1. PICK d \in Dirs, n \in Names :
        \/ \E x \in Inodes \ {Root} : ShellCreates(d, n, x)
        \/ ShellRemoves(d, n)
        \/ \E e \in Dirs, m \in Names : ShellRenames(d, n, e, m)
  BY DEF Shell
<1>2. CASE \E x \in Inodes \ {Root} : ShellCreates(d, n, x)
  BY <1>2, PutKeepsOneParent DEF ShellCreates, Fresh
<1>3. CASE ShellRemoves(d, n)
  BY <1>3, PutKeepsOneParent, ConstantsOK DEF ShellRemoves
<1>4. ASSUME NEW e \in Dirs, NEW m \in Names, ShellRenames(d, n, e, m)
      PROVE  OneParent'
  <2>1. entry' = [entry EXCEPT ![e][m] = entry[d][n], ![d][n] = None] /\ <<d, n>> # <<e, m>>
    BY <1>4 DEF ShellRenames
  <2>2. \A c \in Dirs, k \in Names :
           entry'[c][k] = IF c = d /\ k = n THEN None
                          ELSE IF c = e /\ k = m THEN entry[d][n] ELSE entry[c][k]
    BY <2>1 DEF EntryInv
  <2>3. None # Root /\ None \notin Dirs
    BY ConstantsOK
  <2>4. \A c \in Dirs, k \in Names : entry'[c][k] # Root
    BY <2>2, <2>3 DEF OneParent
  <2>5. ASSUME NEW c \in Dirs, NEW k \in Names, NEW g \in Dirs, NEW l \in Names,
               entry'[c][k] \in Dirs, entry'[c][k] = entry'[g][l]
        PROVE  c = g /\ k = l
    <3>1. ~(c = d /\ k = n) /\ ~(g = d /\ l = n)
      BY <2>2, <2>3, <2>5
    <3>2. CASE (c = e /\ k = m) /\ (g = e /\ l = m)
      BY <3>2
    <3>3. CASE (c = e /\ k = m) /\ ~(g = e /\ l = m)
      <4>1. entry[d][n] \in Dirs /\ entry[d][n] = entry[g][l]
        BY <2>2, <2>5, <3>1, <3>3
      <4> QED
        BY <3>1, <4>1 DEF OneParent
    <3>4. CASE ~(c = e /\ k = m) /\ (g = e /\ l = m)
      <4>1. entry[d][n] \in Dirs /\ entry[d][n] = entry[c][k]
        BY <2>2, <2>5, <3>1, <3>4
      <4> QED
        BY <3>1, <4>1 DEF OneParent
    <3>5. CASE ~(c = e /\ k = m) /\ ~(g = e /\ l = m)
      <4>1. entry[c][k] \in Dirs /\ entry[c][k] = entry[g][l]
        BY <2>2, <2>5, <3>1, <3>5
      <4> QED
        BY <4>1 DEF OneParent
    <3> QED
      BY <3>2, <3>3, <3>4, <3>5
  <2> QED
    BY <2>4, <2>5 DEF OneParent
<1> QED
  BY <1>1, <1>2, <1>3, <1>4

\* Whatever a request does, a directory stays in one place.
LEMMA StepKeepsOneParent ==
    ASSUME EntryInv, WalkInv, OneParent, [Next]_vars
    PROVE  OneParent'
<1>1. CASE UNCHANGED entry
  BY <1>1 DEF OneParent
<1>2. CASE Hop
  <2>1. ASSUME NEW f \in Files \ Pipes, Put(Top, Head(rest), f)
        PROVE  OneParent'
    <3>1. Top \in Dirs
      BY <1>2 DEF Hop, WalkInv, StackInv, Descending
    <3>2. Head(rest) \in Names
      BY <1>2, HeadTail DEF Hop, WalkInv, ShapeInv, Comps
    <3> QED
      BY <2>1, <3>1, <3>2, PutKeepsOneParent, ConstantsOK
  <2> QED
    BY <1>1, <1>2, <2>1 DEF Hop
<1>3. CASE MakeDir
  <2>1. ASSUME NEW d \in Dirs, Fresh(d), Put(Top, name, d)
        PROVE  OneParent'
    <3>1. Top \in Dirs
      BY <1>3 DEF MakeDir, WalkInv, StackInv, Descending
    <3>2. CASE name \in Names
      BY <2>1, <3>1, <3>2, PutKeepsOneParent DEF Fresh
    <3>3. CASE name \notin Names
      <4>1. \A c \in Dirs, m \in Names : entry'[c][m] = entry[c][m]
        BY <2>1, <3>3 DEF Put, EntryInv
      <4> QED
        BY <4>1 DEF OneParent
    <3> QED
      BY <3>2, <3>3
  <2> QED
    BY <1>1, <1>3, <2>1 DEF MakeDir
<1>4. CASE Shell
  BY <1>4, ShellKeepsOneParent
<1>5. [Next]_vars => UNCHANGED entry \/ Hop \/ MakeDir \/ Shell
  BY DEF Next, Request, WalkStep, Begin, Climb, Parent, ReadLink, Arrived, Use, ChownDir,
         Peer, Reply, vars
<1> QED
  BY <1>1, <1>2, <1>3, <1>4, <1>5

\* A request that reads or lists nothing, or in a tree somebody has touched
LEMMA NotLooking ==
    ASSUME AgreeInv, OneParent', ~Looking, pc \notin {"idle", "done"},
           UNCHANGED <<asked, quiet>>, pc' # "idle", pc' # "done" => result' = result
    PROVE  AgreeInv'
<1>1. ~Looking' /\ ~Answered'
  BY DEF Looking, Answered
<1> QED
  BY <1>1 DEF AgreeInv, WalkWithinFallback

LEMMA StillLooking ==
    ASSUME AgreeInv, OneParent', Looking, UNCHANGED <<asked, quiet, result>>,
           pc' \in {"walk", "stuck", "link", "found"}, LookingInv'
    PROVE  AgreeInv'
BY DEF AgreeInv, Looking, Answered, WalkWithinFallback

\* What is refused hands out nothing.
LEMMA RefuseAgrees ==
    ASSUME AgreeInv, OneParent', pc \notin {"idle", "done"}, Refuse
    PROVE  AgreeInv'
BY DEF AgreeInv, Refuse, Looking, Answered, WalkWithinFallback

\* Every step of the walk but the last
LEMMA MoveAgrees ==
    ASSUME AgreeInv, OneParent', Looking,
           UNCHANGED <<entry, asked, kind, todo, quiet, result>>,
           pc' \in {"walk", "stuck", "link", "found"},
           pc' = "link" => name' \in Names /\ hops' > 0,
           pc' = "found" => rest' = <<>>,
           \A i \in 1..(Len(stack') - 1) : \E n \in Names : entry[stack'[i]][n] = stack'[i + 1],
           \E j \in 0..Longest(asked.path)' : Passes(j)'
    PROVE  AgreeInv'
<1>1. LookingInv'
  BY DEF AgreeInv, LookingInv
<1> QED
  BY <1>1, StillLooking

\* Reading a name as a link, and arriving, take no step of the way.
LEMMA SamePlace ==
    ASSUME AgreeInv, Looking, UNCHANGED <<entry, asked>>, Halfway' = Halfway
    PROVE  \E j \in 0..Longest(asked.path)' : Passes(j)'
<1>1. PICK k \in 0..Longest(asked.path) : Passes(k)
  BY DEF AgreeInv, LookingInv
<1>2. Passes(k)' /\ k \in 0..Longest(asked.path)'
  BY <1>1, WayStays DEF Passes
<1> QED
  BY <1>2

LEMMA BeginAgrees ==
    ASSUME AgreeInv, OneParent', NEW k \in Kinds, NEW path \in Paths, Begin(k, path)
    PROVE  AgreeInv'
<1>1. /\ pc = "idle" /\ pc' = "walk" /\ asked' = [kind |-> k, path |-> path]
      /\ kind' = Head(Goals(k, path)).kind /\ todo' = Tail(Goals(k, path))
      /\ stack' = <<Root>> /\ rest' = Head(Goals(k, path)).path /\ hops' = 0
      /\ result' = result /\ entry' = entry /\ quiet' = quiet
  BY DEF Begin, Open
<1>2. asked'.kind = k /\ asked'.path = path
  BY <1>1
<1>3. SUFFICES ASSUME Looking' PROVE LookingInv'
  BY <1>1, <1>2 DEF AgreeInv, WalkWithinFallback, Answered
<1>4. Goals(k, path) = <<[kind |-> k, path |-> path]>>
  BY <1>2, <1>3, Zenon DEF Goals, Looking
<1>5. kind' = k /\ todo' = <<>> /\ rest' = path
  BY <1>1, <1>4
<1>6. Top' = Root /\ Len(stack') = 1
  BY <1>1 DEF Top
<1>7. Halfway' = Start(path) /\ Halfway'.rest = path /\ Halfway'.used = 0
  BY <1>1, <1>5, <1>6 DEF Halfway, Start
<1>8. Longest(path) \in Nat /\ Len(path) \in Nat
  BY LongestIs, ConstantsOK
<1>9. Way(path)[0] = Start(path)
  BY <1>8, WayGoesOn
<1>10. Way(asked.path)' = Way(path) /\ Longest(asked.path)' = Longest(path)
  <2>1. asked'.path = path /\ entry' = entry
    BY <1>1, <1>2
  <2> QED
    BY <2>1, WayFixed
<1>11. Len(path) + 0 <= Len(path) + 0 * LongestLink
  BY <1>8, FallbackOK
<1>12. Passes(0)' /\ 0 \in 0..Longest(asked.path)'
  BY <1>2, <1>7, <1>8, <1>9, <1>10, <1>11 DEF Passes
<1> QED
  BY <1>1, <1>2, <1>5, <1>6, <1>12 DEF LookingInv

\* ".." leaves a directory for the one the walk came from.
LEMMA ClimbAgrees ==
    ASSUME EntryInv, WalkInv, AgreeInv, OneParent', Looking, Climb
    PROVE  AgreeInv'
<1>1. CASE Refuse
  BY <1>1, RefuseAgrees DEF Looking
<1>2. CASE /\ Len(stack) # 1 /\ Pop /\ rest' = Tail(rest)
           /\ UNCHANGED <<pc, name, hops>> /\ Stay
  <2>1. pc = "walk" /\ rest # <<>> /\ Head(rest) = Up /\ UNCHANGED entry
    BY DEF Climb
  <2> DEFINE n == Len(stack) - 1
  <2>2. n \in Nat \ {0} /\ Len(stack) = n + 1 /\ n \in 1..Len(stack) /\ n + 1 \in 1..Len(stack)
    <3>1. Len(stack) \in Nat /\ Len(stack) >= 1
      BY <2>1, StackFacts DEF WalkInv, Resting
    <3>2. Len(stack) # 1
      BY <1>2
    <3>3. \A k \in Nat : k >= 1 /\ k # 1 => /\ k - 1 \in Nat \ {0} /\ k = (k - 1) + 1
                                          /\ k - 1 \in 1..k /\ k \in 1..k
      OBVIOUS
    <3> HIDE DEF n
    <3> QED
      BY <3>1, <3>2, <3>3 DEF n
  <2>3. Len(stack') = n /\ \A i \in 1..n : stack'[i] = stack[i]
    <3>1. stack' = SubSeq(stack, 1, n) /\ stack \in Seq(Nodes)
      BY <1>2 DEF Pop, Popped, WalkInv, StackInv
    <3> QED
      BY <2>2, <3>1, FrontOfSeq
  <2>4. stack[n] \in Dirs /\ Top \in Dirs /\ Top = stack[n + 1]
    BY <2>1, <2>2 DEF WalkInv, StackInv, Descending, Top
  <2> HIDE DEF n
  <2>5. PICK m \in Names : entry[stack[n]][m] = Top
    BY <2>2, <2>4 DEF AgreeInv, LookingInv
  <2>6. Top # Root
    BY <2>4, <2>5 DEF AgreeInv, OneParent
  <2>7. Above(Top) = stack[n]
    <3> DEFINE Holders == {c \in Dirs : \E k \in Names : entry[c][k] = Top}
    <3>1. Holders = {stack[n]}
      BY <2>4, <2>5 DEF AgreeInv, OneParent
    <3>2. (CHOOSE c \in Holders : TRUE) = stack[n]
      BY <3>1
    <3> QED
      BY <2>4, <2>6, <3>1, <3>2 DEF Above
  <2>8. Halfway = [at |-> Top, rest |-> rest, used |-> hops]
    BY <2>1 DEF Halfway
  <2>9. Halfway' = [at |-> stack[n], rest |-> Tail(rest), used |-> hops]
    BY <1>2, <2>1, <2>2, <2>3 DEF Halfway, Top
  <2>10. Advance(Halfway) = [at |-> stack[n], rest |-> Tail(rest), used |-> hops]
    <3>1. ~Stopped(Halfway)
      BY <2>1, <2>4, <2>8 DEF Stopped
    <3>2. stack[n] \notin Links
      BY <2>4, ConstantsOK
    <3> QED
      BY <2>1, <2>4, <2>7, <2>8, <3>1, <3>2 DEF Advance
  <2>11. Len(rest) \in Nat /\ Len(rest) > 0 /\ Len(Tail(rest)) = Len(rest) - 1 /\ hops \in Nat
    BY <2>1, HeadTailProperties, EmptySeq, ConstantsOK DEF WalkInv, ShapeInv
  <2>12. \E j \in 0..Longest(asked.path)' : Passes(j)'
    BY <1>2, <2>1, <2>8, <2>9, <2>10, <2>11, BothAdvance DEF Stay
  <2>13. \A i \in 1..(Len(stack') - 1) : \E k \in Names : entry[stack'[i]][k] = stack'[i + 1]
    <3>1. \A i \in 1..(n - 1) : i \in 1..n /\ i + 1 \in 1..n /\ i \in 1..(Len(stack) - 1)
      BY <2>2
    <3> QED
      BY <2>3, <3>1 DEF AgreeInv, LookingInv
  <2> QED
    BY <1>2, <2>1, <2>12, <2>13, MoveAgrees DEF Stay
<1> QED
  BY <1>1, <1>2 DEF Climb

\* One name deeper, into a directory or the file at the end of a path
LEMMA EnterAgrees ==
    ASSUME EntryInv, WalkInv, AgreeInv, OneParent', Looking,
           pc = "walk", rest # <<>>, Head(rest) # Up,
           NEW x \in Nodes, x = entry[Top][Head(rest)], x \in Dirs \/ Len(rest) = 1,
           Enter(x), UNCHANGED entry
    PROVE  AgreeInv'
<1>1. /\ stack \in Seq(Nodes) /\ Top \in Dirs /\ Top = stack[Len(stack)]
      /\ Len(stack) \in Nat \ {0}
  BY StackFacts DEF WalkInv, StackInv, Descending, Resting, Top
<1>2. stack' = Append(stack, x) /\ rest' = Tail(rest) /\ UNCHANGED <<name, hops>>
      /\ pc' \in {"walk", "stuck"} /\ Stay
  BY DEF Enter
<1>3. /\ Len(stack') = Len(stack) + 1 /\ stack'[Len(stack) + 1] = x
      /\ \A i \in 1..Len(stack) : stack'[i] = stack[i]
  BY <1>1, <1>2, AppendProperties
<1>4. Head(rest) \in Names
  BY HeadTail DEF WalkInv, ShapeInv, Comps
<1>5. Halfway = [at |-> Top, rest |-> rest, used |-> hops]
  BY DEF Halfway
<1>6. Halfway' = [at |-> x, rest |-> Tail(rest), used |-> hops]
  BY <1>2, <1>3 DEF Halfway, Top
<1>7. Advance(Halfway) = [at |-> x, rest |-> Tail(rest), used |-> hops]
  <2>1. ~Stopped(Halfway)
    BY <1>1, <1>5 DEF Stopped
  <2>2. At(Top, Head(rest)) = x
    BY <1>1, ConstantsOK DEF At
  <2>3. x \notin Links /\ (x \in Dirs \/ (x \in Files /\ Len(rest) = 1))
    BY ConstantsOK DEF Nodes
  <2> QED
    BY <1>5, <2>1, <2>2, <2>3 DEF Advance
<1>8. Len(rest) \in Nat /\ Len(rest) > 0 /\ Len(Tail(rest)) = Len(rest) - 1 /\ hops \in Nat
  BY HeadTailProperties, EmptySeq, ConstantsOK DEF WalkInv, ShapeInv
<1>9. \E j \in 0..Longest(asked.path)' : Passes(j)'
  BY <1>2, <1>5, <1>6, <1>7, <1>8, BothAdvance DEF Stay
<1>10. \A i \in 1..(Len(stack') - 1) : \E k \in Names : entry[stack'[i]][k] = stack'[i + 1]
  <2>1. ASSUME NEW i \in 1..Len(stack)
        PROVE  \E k \in Names : entry[stack'[i]][k] = stack'[i + 1]
    <3>1. CASE i = Len(stack)
      BY <1>1, <1>3, <1>4, <3>1
    <3>2. CASE i # Len(stack)
      <4>1. i \in 1..(Len(stack) - 1) /\ i + 1 \in 1..Len(stack)
        BY <1>1, <3>2
      <4> QED
        BY <1>3, <4>1 DEF AgreeInv, LookingInv
    <3> QED
      BY <3>1, <3>2
  <2>2. Len(stack') - 1 = Len(stack)
    BY <1>1, <1>3
  <2> QED
    BY <2>1, <2>2
<1> QED
  BY <1>2, <1>9, <1>10, MoveAgrees DEF Stay

\* A link that is about to be read is no step of the way.
LEMMA ExpandAgrees ==
    ASSUME WalkInv, AgreeInv, OneParent', Looking,
           pc = "walk", rest # <<>>, Head(rest) # Up, Expand, UNCHANGED entry
    PROVE  AgreeInv'
<1>1. CASE Refuse
  BY <1>1, RefuseAgrees DEF Looking
<1>2. CASE /\ pc' = "link" /\ hops' = hops + 1
           /\ name' = Head(rest) /\ rest' = Tail(rest)
           /\ UNCHANGED <<stack, fds>> /\ Stay
  <2>1. Head(rest) \in Names /\ <<Head(rest)>> \o Tail(rest) = rest
    <3>1. rest \in Seq(Comps)
      BY DEF WalkInv, ShapeInv
    <3>2. Head(rest) \in Names
      BY <3>1, HeadTail DEF Comps
    <3> QED
      BY <3>1, <3>2
  <2>2. hops \in Nat /\ (hops + 1) - 1 = hops /\ hops + 1 > 0
    BY ConstantsOK DEF WalkInv, ShapeInv
  <2>3. Halfway' = Halfway
    BY <1>2, <2>1, <2>2 DEF Halfway, Top
  <2>4. \E j \in 0..Longest(asked.path)' : Passes(j)'
    BY <1>2, <2>3, SamePlace DEF Stay
  <2>5. \A i \in 1..(Len(stack') - 1) : \E k \in Names : entry[stack'[i]][k] = stack'[i + 1]
    BY <1>2 DEF AgreeInv, LookingInv
  <2> QED
    BY <1>2, <2>1, <2>2, <2>4, <2>5, MoveAgrees DEF Stay
<1> QED
  BY <1>1, <1>2 DEF Expand

LEMMA HopAgrees ==
    ASSUME EntryInv, WalkInv, AgreeInv, OneParent', Looking, Hop
    PROVE  AgreeInv'
<1> DEFINE x == entry[Top][Head(rest)]
<1>1. /\ pc = "walk" /\ rest # <<>> /\ Head(rest) # Up /\ kind \in {"read", "list"}
      /\ ~(AtLeaf /\ kind = "mkdir") /\ kind \in Kinds
  BY DEF Hop, WalkInv, ShapeInv, AgreeInv, LookingInv, Looking
<1>2. CASE Opened(x) # None /\ Enter(Opened(x)) /\ UNCHANGED entry
  <2>1. Opened(x) \in Nodes /\ (~AtLeaf => Opened(x) \in Dirs)
    BY <1>1, <1>2, OpenedFacts
  <2>2. Opened(x) = x
    <3>1. CASE ~AtLeaf \/ kind = "list"
      BY <1>2, <3>1 DEF Opened
    <3>2. CASE AtLeaf /\ kind = "read"
      BY <1>2, <3>2 DEF Opened
    <3> QED
      BY <1>1, <3>1, <3>2
  <2> HIDE DEF x
  <2>3. x \in Nodes /\ (x \in Dirs \/ Len(rest) = 1) /\ Enter(x)
    BY <1>2, <2>1, <2>2 DEF AtLeaf
  <2> QED
    BY <1>1, <1>2, <2>3, EnterAgrees DEF x
<1>3. CASE Expand /\ UNCHANGED entry
  BY <1>1, <1>3, ExpandAgrees
<1>4. CASE Refuse
  BY <1>4, RefuseAgrees DEF Looking
<1> QED
  BY <1>1, <1>2, <1>3, <1>4 DEF Hop

LEMMA AdvanceOverLink ==
    ASSUME NEW s, ~Stopped(s), NEW x \in Links, Target[x] # Absolute, ~(s.used + 1 > MaxHops),
           (IF Head(s.rest) = Up THEN Above(s.at) ELSE At(s.at, Head(s.rest))) = x
    PROVE  Advance(s) = [s EXCEPT !.rest = Target[x] \o Tail(s.rest), !.used = s.used + 1]
<1> DEFINE y == IF Head(s.rest) = Up THEN Above(s.at) ELSE At(s.at, Head(s.rest))
           over == s.used + 1 > MaxHops
<1>1. y = x /\ ~over
  OBVIOUS
<1>2. Advance(s) =
        CASE Stopped(s) -> s
          [] ~Stopped(s) /\ y \in Links ->
                IF Target[y] = Absolute \/ over
                THEN [s EXCEPT !.at = None]
                ELSE [s EXCEPT !.rest = Target[y] \o Tail(s.rest), !.used = s.used + 1]
          [] ~Stopped(s) /\ \/ y \in Dirs \cup {Outside}
                            \/ y \in Files /\ Len(s.rest) = 1 ->
                [s EXCEPT !.at = y, !.rest = Tail(s.rest)]
          [] OTHER -> [s EXCEPT !.at = Missing]
  BY DEF Advance
<1>3. y \notin Dirs \cup {Outside} /\ y \notin Files
  BY <1>1, ConstantsOK
<1> HIDE DEF y, over
<1> QED
  BY <1>1, <1>2, <1>3

\* A link's target takes its place.
LEMMA ReadLinkAgrees ==
    ASSUME EntryInv, WalkInv, AgreeInv, OneParent', Looking, ReadLink
    PROVE  AgreeInv'
<1> DEFINE x == entry[Top][name]
<1>1. CASE Refuse
  BY <1>1, RefuseAgrees DEF Looking
<1>2. CASE /\ x \in Links /\ Target[x] # Absolute
           /\ rest' = Spliced(x) /\ pc' = "walk" /\ name' = None
           /\ UNCHANGED <<stack, hops, fds>> /\ Stay
  <2>1. pc = "link" /\ name \in Names /\ hops > 0 /\ hops \in 0..MaxHops /\ UNCHANGED entry
    BY DEF ReadLink, AgreeInv, LookingInv, WalkInv, ShapeInv
  <2>2. Top \in Dirs /\ rest \in Seq(Comps)
    BY <2>1 DEF WalkInv, StackInv, ShapeInv, Descending
  <2>3. Target[x] \in Seq(Comps) /\ Len(Target[x]) <= LongestLink /\ Len(Target[x]) \in Nat
    <3>1. Target[x] \in Seq(Comps)
      BY <1>2, ConstantsOK DEF Comps
    <3> QED
      BY <1>2, <3>1, FallbackOK, LenProperties
  <2> HIDE DEF x
  <2>4. <<name>> \o rest \in Seq(Comps) /\ Head(<<name>> \o rest) = name
        /\ Tail(<<name>> \o rest) = rest /\ Len(<<name>> \o rest) = Len(rest) + 1
        /\ <<name>> \o rest # <<>>
    <3>1. name \in Comps
      BY <2>1 DEF Comps
    <3> QED
      BY <2>2, <3>1
  <2>5. Halfway = [at |-> Top, rest |-> <<name>> \o rest, used |-> hops - 1]
    BY <2>1 DEF Halfway
  <2>6. Halfway' = [at |-> Top, rest |-> Target[x] \o rest, used |-> hops]
    BY <1>2, <2>1 DEF Halfway, Top, Spliced
  <2>7. Advance(Halfway) = [at |-> Top, rest |-> Target[x] \o rest, used |-> hops]
    <3>1. ~Stopped(Halfway)
      BY <2>2, <2>4, <2>5 DEF Stopped
    <3>2. At(Top, name) = x /\ name # Up
      BY <2>1, <2>2, ConstantsOK DEF At, x
    <3>3. (hops - 1) + 1 = hops /\ ~(hops > MaxHops)
      BY <2>1, ConstantsOK
    <3> DEFINE s == Halfway
    <3>4. s.at = Top /\ s.rest = <<name>> \o rest /\ s.used = hops - 1
      BY <2>5
    <3>5. Head(s.rest) = name /\ Tail(s.rest) = rest /\ s.used + 1 = hops
      BY <2>4, <3>3, <3>4
    <3>6. (IF Head(s.rest) = Up THEN Above(s.at) ELSE At(s.at, Head(s.rest))) = x
      BY <3>2, <3>4, <3>5
    <3>7. Advance(s) = [s EXCEPT !.rest = Target[x] \o rest, !.used = hops]
      <4>1. Advance(s) = [s EXCEPT !.rest = Target[x] \o Tail(s.rest), !.used = s.used + 1]
        BY <1>2, <3>1, <3>3, <3>5, <3>6, AdvanceOverLink
      <4> QED
        BY <3>5, <4>1
    <3> QED
      BY <2>5, <3>7
  <2>8. /\ Len(rest) \in Nat
        /\ Len(Target[x] \o rest) = Len(Target[x]) + Len(rest)
        /\ Target[x] \o rest \in Seq(Comps)
    BY <2>2, <2>3, ConcatProperties, LenProperties
  <2>9. /\ Len(Halfway.rest) > 0 /\ Len(Halfway'.rest) \in Nat /\ Halfway'.used \in Nat
        /\ Len(Halfway'.rest) < Len(Halfway.rest) + LongestLink
        /\ Halfway'.used = Halfway.used + 1
    <3>1. /\ Halfway.rest = <<name>> \o rest /\ Halfway.used = hops - 1
          /\ Halfway'.rest = Target[x] \o rest /\ Halfway'.used = hops
      BY <2>5, <2>6
    <3> QED
      BY <2>1, <2>3, <2>4, <2>8, <3>1, FallbackOK, ConstantsOK
  <2>10. \E j \in 0..Longest(asked.path)' : Passes(j)'
    BY <1>2, <2>1, <2>6, <2>7, <2>9, BothAdvance DEF Stay
  <2>11. \A i \in 1..(Len(stack') - 1) : \E k \in Names : entry[stack'[i]][k] = stack'[i + 1]
    BY <1>2 DEF AgreeInv, LookingInv
  <2> QED
    BY <1>2, <2>1, <2>10, <2>11, MoveAgrees DEF Stay
<1> QED
  BY <1>1, <1>2 DEF ReadLink

LEMMA ArrivedAgrees ==
    ASSUME AgreeInv, OneParent', Looking, Arrived
    PROVE  AgreeInv'
<1>1. CASE Refuse
  BY <1>1, RefuseAgrees DEF Looking
<1>2. CASE pc' = "found" /\ UNCHANGED walk /\ Stay
  <2>1. pc = "walk" /\ rest = <<>> /\ UNCHANGED entry
    BY DEF Arrived
  <2>2. Halfway' = Halfway
    BY <1>2, <2>1 DEF Halfway, Top, walk
  <2>3. \E j \in 0..Longest(asked.path)' : Passes(j)'
    BY <1>2, <2>1, <2>2, SamePlace DEF Stay
  <2>4. \A i \in 1..(Len(stack') - 1) : \E k \in Names : entry[stack'[i]][k] = stack'[i + 1]
    BY <1>2 DEF walk, AgreeInv, LookingInv
  <2>5. UNCHANGED <<entry, asked, kind, todo, quiet, result>> /\ pc' = "found" /\ rest' = <<>>
    BY <1>2, <2>1 DEF Stay, walk
  <2> QED
    BY <2>3, <2>4, <2>5, MoveAgrees
<1> QED
  BY <1>1, <1>2 DEF Arrived

\* Where the walk ends the portable backend ends.
LEMMA UseAgrees ==
    ASSUME WalkInv, AgreeInv, OneParent', Looking,
           Use \/ (Peer /\ pc = "found")
    PROVE  AgreeInv'
<1>1. CASE Refuse
  BY <1>1, RefuseAgrees DEF Looking
<1>2. CASE ((kind = "list") <=> (Top \in Dirs)) /\ Finish(Top)
  <2>1. /\ pc = "found" /\ UNCHANGED entry /\ rest = <<>> /\ todo = <<>>
        /\ kind = asked.kind /\ kind \in {"read", "list"} /\ asked.path \in Paths
    BY DEF Use, Peer, Looking, AgreeInv, LookingInv
  <2>2. pc' = "done" /\ result' = Top /\ UNCHANGED <<asked, quiet>>
    BY <1>2, <2>1 DEF Finish
  <2>3. Halfway = [at |-> Top, rest |-> <<>>, used |-> hops]
    BY <2>1 DEF Halfway
  <2>4. PICK k \in 0..Longest(asked.path) : Way(asked.path)[k] = Halfway
    BY DEF AgreeInv, LookingInv, Passes
  <2>5. Longest(asked.path) \in Nat
    BY <2>1, LongestIs, ConstantsOK
  <2>6. Stopped(Way(asked.path)[k])
    BY <2>3, <2>4 DEF Stopped
  <2>7. Resolve(asked.path) = Top
    BY <2>3, <2>4, <2>5, <2>6, WayEnds DEF Resolve
  <2>8. Top \in Dirs \cup Files
    BY <2>1, StackFacts DEF WalkInv, Resting, Nodes
  <2>9. Fallback(asked.kind, asked.path) = Top
    <3>1. CASE asked.kind = "list"
      BY <1>2, <2>1, <2>7, <3>1 DEF Fallback
    <3>2. CASE asked.kind = "read"
      BY <1>2, <2>1, <2>7, <2>8, <3>2 DEF Fallback
    <3> QED
      BY <2>1, <3>1, <3>2
  <2>10. Fallback(asked.kind, asked.path)' = Fallback(asked.kind, asked.path)
    <3>1. Resolve(asked.path)' = Resolve(asked.path)
      BY <2>1, <2>2, WayStays DEF Resolve
    <3> QED
      BY <2>2, <3>1 DEF Fallback
  <2>11. WalkWithinFallback'
    BY <2>2, <2>9, <2>10 DEF WalkWithinFallback
  <2> QED
    BY <2>1, <2>2, <2>11 DEF AgreeInv, Looking
<1>3. CASE Peer /\ pc = "found" /\ Finish(Top)
  <2>1. kind = "read" /\ Top \notin Dirs
    BY <1>3, ConstantsOK DEF Peer, AgreeInv, LookingInv, Looking
  <2> QED
    BY <1>2, <1>3, <2>1
<1> QED
  BY <1>1, <1>2, <1>3 DEF Use, Peer

LEMMA AgreementBegins == Init => AgreeInv
BY ConstantsOK DEF Init, AgreeInv, OneParent, Looking, Answered, WalkWithinFallback, NoRequest

LEMMA AgreementGoesOn ==
    ASSUME EntryInv, WalkInv, AgreeInv, [Next]_vars
    PROVE  AgreeInv'
<1>1. OneParent'
  BY StepKeepsOneParent DEF AgreeInv
<1>2. CASE Request
  BY <1>1, <1>2, BeginAgrees DEF Request
<1>3. CASE WalkStep /\ ~Reply /\ ~Looking
  <2>1. /\ pc \notin {"idle", "done"} /\ UNCHANGED <<asked, quiet>>
        /\ pc' # "idle" /\ (pc' # "done" => result' = result)
    BY <1>3 DEF WalkStep, Climb, Parent, Hop, Enter, Expand, ReadLink, Arrived, Use, MakeDir,
                ChownDir, Finish, Refuse, Stay, walk
  <2> QED
    BY <1>1, <1>3, <2>1, NotLooking
<1>4. CASE WalkStep /\ ~Reply /\ Looking
  <2>1. ~Parent /\ ~MakeDir /\ ~ChownDir
    BY <1>4 DEF Parent, MakeDir, ChownDir, Looking, AgreeInv, LookingInv
  <2> QED
    BY <1>1, <1>4, <2>1, ClimbAgrees, HopAgrees, ReadLinkAgrees, ArrivedAgrees, UseAgrees
    DEF WalkStep
<1>5. CASE Reply
  BY <1>1, <1>5 DEF Reply, AgreeInv, Looking, Answered, WalkWithinFallback
<1>6. CASE Shell
  <2>1. Touch
    BY <1>6 DEF Shell, ShellCreates, ShellRemoves, ShellRenames
  <2> QED
    BY <1>1, <2>1 DEF Touch, AgreeInv, Looking, Answered, WalkWithinFallback
<1>7. CASE UNCHANGED vars
  <2>1. UNCHANGED <<entry, pc, asked, kind, todo, stack, rest, name, hops, result, quiet>>
    BY <1>7 DEF vars, walk
  <2>2. Looking => LookingInv'
    <3>1. Halfway' = Halfway
      BY <2>1 DEF Halfway, Top
    <3>2. Looking => \E j \in 0..Longest(asked.path)' : Passes(j)'
      BY <2>1, <3>1, SamePlace
    <3> QED
      BY <2>1, <3>2 DEF AgreeInv, LookingInv
  <2>3. WalkWithinFallback'
    <3>1. Fallback(asked.kind, asked.path)' = Fallback(asked.kind, asked.path)
      BY <2>1, WayStays DEF Fallback, Resolve
    <3> QED
      BY <2>1, <3>1 DEF AgreeInv, WalkWithinFallback, Answered
  <2> QED
    BY <1>1, <2>1, <2>2, <2>3 DEF AgreeInv, Looking
<1>8. CASE Peer
  <2>1. CASE ~Looking
    <3>1. /\ pc \notin {"idle", "done"} /\ UNCHANGED <<asked, quiet>>
          /\ pc' # "idle" /\ (pc' # "done" => result' = result)
      BY <1>8 DEF Peer, Finish, Refuse, Stay, walk
    <3> QED
      BY <1>1, <2>1, <3>1, NotLooking
  <2>2. CASE Looking /\ pc = "found"
    BY <1>1, <1>8, <2>2, UseAgrees
  <2>3. CASE Looking /\ pc = "stuck"
    <3>1. pc' = "walk" /\ UNCHANGED <<entry, walk>> /\ Stay
      BY <1>8, <2>3 DEF Peer
    <3>2. Halfway' = Halfway
      BY <2>3, <3>1 DEF Halfway, Top, walk
    <3>3. \E j \in 0..Longest(asked.path)' : Passes(j)'
      BY <2>3, <3>1, <3>2, SamePlace DEF Stay
    <3>4. \A i \in 1..(Len(stack') - 1) : \E k \in Names : entry[stack'[i]][k] = stack'[i + 1]
      BY <2>3, <3>1 DEF walk, AgreeInv, LookingInv
    <3>5. UNCHANGED <<entry, asked, kind, todo, quiet, result>>
      BY <3>1 DEF Stay
    <3> QED
      BY <1>1, <2>3, <3>1, <3>3, <3>4, <3>5, MoveAgrees
  <2> QED
    BY <1>8, <2>1, <2>2, <2>3 DEF Peer
<1> QED
  BY <1>2, <1>3, <1>4, <1>5, <1>6, <1>7, <1>8 DEF Next

\* In a tree nobody touches meanwhile, what the anchored walk hands out is what
\* the portable backend resolves the same path to, for any tree, links, paths
\* and hop limit (safepath.py: "public operations - identical contract on both
\* backends").
THEOREM WalkIsWithinFallback == Spec => []WalkWithinFallback
<1>1. EntryInv /\ WalkInv /\ AgreeInv /\ [Next]_vars => AgreeInv'
  BY AgreementGoesOn
<1>2. AgreeInv => WalkWithinFallback
  BY DEF AgreeInv
<1> QED
  BY <1>1, <1>2, AgreementBegins, WalkAlways, PTL DEF Spec
============================================================================
