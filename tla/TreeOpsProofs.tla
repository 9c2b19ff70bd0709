--------------------------- MODULE TreeOpsProofs ---------------------------
(***************************************************************************)
(* What holds of copying and removing directories for every tree, every    *)
(* number of requests and whatever the shell does between their calls: the *)
(* host is untouched, descriptors are given back, a request keeps to what  *)
(* is its own, and an undisturbed copy that answers ok is whole.           *)
(***************************************************************************)
EXTENDS TreeOps, SequenceTheorems, FiniteSetTheorems, WellFoundedInduction, TLAPS

---------------------------------------------------------------------------
(* The invariant.                                                           *)

\* What a call of a copy, or of a removal that may touch `own`, works on
Good(op, own) ==
    {f \in Frame : /\ op = "copy" => f.dst \in Inside
                   /\ op = "remove" => f.src \in own}

\* The source a copy opened and whose call has not begun, a FIFO it waits at too
Half(j) ==
    IF j.pc \in {"opendst", "stuck"} \/ (j.stack = <<>> /\ j.pc \in {"mkdir", "chown"})
    THEN 1 ELSE 0

HeldOK(j, h) ==
    \/ j.pc \in {"idle", "ok"} /\ h = 0
    \/ j.pc = "failed" /\ j.op = "copy" /\ h \in {0, 1}
    \/ j.pc = "failed" /\ j.op = "remove" /\ h = 0
    \/ /\ j.op = "copy" /\ j.pc \in CopySteps
       /\ h = 2 + (Len(j.stack) + Len(j.stack)) + Half(j)
    \/ /\ j.op = "remove" /\ j.pc \in RemoveSteps
       /\ h = 1 + Len(j.stack)

JobOK(j, h, own) ==
    /\ j \in Job
    /\ j.stack \in Seq(Good(j.op, own))
    /\ h \in Nat /\ HeldOK(j, h)
    /\ j.pc \in CopySteps \cup RemoveSteps => j.from \in Inside \X Names
    /\ j.pc \in CopySteps /\ j.op = "copy" => j.to \in Inside \X Names
    /\ j.pc \notin CopySteps \cup RemoveSteps => j.stack = <<>>
    /\ j.pc \in {"list", "next"} => j.stack # <<>>
    /\ j.pc \in (CopySteps \cup RemoveSteps) \ {"list", "next"} /\ j.stack # <<>>
          => j.item \in Names

TreeInv ==
    /\ TypeOK
    /\ OutsideUntouched
    /\ \A w \in Workers : JobOK(job[w], held[w], ours[w])

---------------------------------------------------------------------------
(* Stacks.                                                                  *)

LEMMA PushFacts ==
  ASSUME NEW S, NEW s \in Seq(S), NEW f \in S
  PROVE  /\ <<f>> \o s \in Seq(S)
         /\ Len(<<f>> \o s) = Len(s) + 1
         /\ <<f>> \o s # <<>>
<1>1. <<f>> \in Seq(S) /\ Len(<<f>>) = 1
  OBVIOUS
<1>2. <<f>> \o s \in Seq(S) /\ Len(<<f>> \o s) = 1 + Len(s) /\ Len(s) \in Nat
  BY <1>1, ConcatProperties, LenProperties
<1> QED
  BY <1>2, EmptySeq

LEMMA TopFacts ==
  ASSUME NEW w, NEW S, job[w].stack \in Seq(S), job[w].stack # <<>>
  PROVE  /\ Top(w) \in S
         /\ Tail(job[w].stack) \in Seq(S)
         /\ Len(Tail(job[w].stack)) \in Nat
         /\ Len(job[w].stack) = Len(Tail(job[w].stack)) + 1
<1>1. Len(job[w].stack) \in Nat /\ Len(Tail(job[w].stack)) = Len(job[w].stack) - 1
      /\ Tail(job[w].stack) \in Seq(S) /\ Head(job[w].stack) \in S
  BY HeadTailProperties, LenProperties
<1>2. Len(Tail(job[w].stack)) \in Nat
  BY <1>1, LenProperties
<1> QED
  BY <1>1, <1>2 DEF Top

\* A stack stays good when the removal may touch more.
LEMMA MoreIsOwn ==
  ASSUME NEW j, NEW h, NEW own, NEW more, own \subseteq more \/ j.op # "remove",
         JobOK(j, h, own)
  PROVE  JobOK(j, h, more)
<1>1. Good(j.op, own) \subseteq Good(j.op, more)
  BY DEF Good
<1>2. j.stack \in Seq(Good(j.op, more))
  BY <1>1, SeqMonotonic DEF JobOK
<1> QED
  BY <1>2 DEF JobOK

\* A job that waits at a step about an entry names one of the home.
LEMMA SrcIsInside ==
  ASSUME TreeInv, NEW w \in Workers,
         job[w].pc \in (CopySteps \cup RemoveSteps) \ {"list", "next"}
  PROVE  /\ SrcPlace(w) \in Inside \X Names
         /\ job[w].op = "remove" =>
              SrcPlace(w) = job[w].from \/ SrcPlace(w)[1] \in ours[w]
<1>1. JobOK(job[w], held[w], ours[w])
  BY DEF TreeInv
<1>2. CASE AtTop(w)
  BY <1>1, <1>2 DEF JobOK, SrcPlace, AtTop
<1>3. CASE ~AtTop(w)
  <2>1. Top(w) \in Good(job[w].op, ours[w]) /\ job[w].item \in Names
    BY <1>1, <1>3, TopFacts DEF JobOK, AtTop
  <2> QED
    BY <2>1, <1>3 DEF SrcPlace, Good, Frame
<1> QED
  BY <1>2, <1>3

LEMMA DstIsInside ==
  ASSUME TreeInv, NEW w \in Workers, job[w].op = "copy",
         job[w].pc \in CopySteps \ {"list", "next"}
  PROVE  DstPlace(w) \in Inside \X Names
<1>1. JobOK(job[w], held[w], ours[w])
  BY DEF TreeInv
<1>2. CASE AtTop(w)
  BY <1>1, <1>2 DEF JobOK, DstPlace, AtTop
<1>3. CASE ~AtTop(w)
  <2>1. Top(w) \in Good(job[w].op, ours[w]) /\ job[w].item \in Names
    BY <1>1, <1>3, TopFacts DEF JobOK, AtTop
  <2> QED
    BY <2>1, <1>3 DEF DstPlace, Good, Frame
<1> QED
  BY <1>2, <1>3

---------------------------------------------------------------------------
(* What a request does to the entries and to itself.                        *)

\* It leaves the entries alone, or puts something harmless where it may.
Touches(w) ==
    \/ UNCHANGED entry
    \/ \E place \in Inside \X Names, x \in Things \ {Secret} :
          /\ Put(place, x)
          /\ job[w].op = "copy" => At(place) = Nothing
          /\ job[w].op = "remove" => place = job[w].from \/ place[1] \in ours[w]

\* Its own state stays good.
Keeps(w, own) ==
    \E j, h : Becomes(w, j) /\ Hold(w, h) /\ JobOK(j, h, own)

LEMMA HomeEntries ==
  ASSUME TreeInv, NEW place \in Inside \X Names
  PROVE  At(place) \in Things \ {Secret}
BY DEF TreeInv, TypeOK, OutsideUntouched, At, Dirs

LEMMA EndKeeps ==
  ASSUME TreeInv, NEW w \in Workers, NEW how \in Ends, End(w, how),
         NEW h \in Nat, Hold(w, h),
         job[w].op \in {"copy", "remove"},
         h = 0 \/ (h = 1 /\ how = "failed" /\ job[w].op = "copy")
  PROVE  Keeps(w, ours[w])
<1> DEFINE j == [job[w] EXCEPT !.pc = how, !.stack = <<>>, !.item = None, !.half = None]
<1>1. job[w] \in Job
  BY DEF TreeInv, JobOK
<1>2. j \in Job /\ j.stack = <<>> /\ j.op = job[w].op /\ j.pc = how
  BY <1>1, EmptySeq DEF Job, Ends, Steps
<1>3. j.stack \in Seq(Good(j.op, ours[w]))
  BY <1>2, EmptySeq
<1>4. HeldOK(j, h)
  BY <1>2 DEF HeldOK, Ends
<1>5. JobOK(j, h, ours[w])
  BY <1>2, <1>3, <1>4 DEF JobOK, Ends, CopySteps, RemoveSteps
<1>6. Becomes(w, j)
  BY DEF End
<1> QED
  BY <1>5, <1>6 DEF Keeps

LEMMA FailKeeps ==
  ASSUME TreeInv, NEW w \in Workers, Fail(w), job[w].op \in {"copy", "remove"}
  PROVE  Keeps(w, ours[w]) /\ Touches(w)
BY EndKeeps DEF Fail, Touches, Ends

\* A request goes on to another step.
LEMMA GoesOn ==
  ASSUME TreeInv, NEW w \in Workers, NEW j, Becomes(w, j), NEW h, Hold(w, h),
         NEW own,
         j \in Job, j.op = job[w].op, j.from = job[w].from, j.to = job[w].to,
         job[w].pc \in CopySteps \cup RemoveSteps,
         j.pc \in CopySteps \cup RemoveSteps,
         j.stack \in Seq(Good(j.op, own)),
         h \in Nat, HeldOK(j, h),
         j.pc \in {"list", "next"} => j.stack # <<>>,
         j.pc \in (CopySteps \cup RemoveSteps) \ {"list", "next"} /\ j.stack # <<>>
           => j.item \in Names
  PROVE  Keeps(w, own)
<1>1. JobOK(job[w], held[w], ours[w])
  BY DEF TreeInv
<1>2. j.pc \in CopySteps /\ j.op = "copy" => job[w].pc \in CopySteps
  BY <1>1 DEF JobOK, HeldOK, CopySteps, RemoveSteps
<1>3. JobOK(j, h, own)
  BY <1>1, <1>2 DEF JobOK
<1> QED
  BY <1>3 DEF Keeps

LEMMA GotoKeeps ==
  ASSUME TreeInv, NEW w \in Workers, NEW step \in CopySteps \cup RemoveSteps,
         Goto(w, step), UNCHANGED held,
         job[w].pc \in CopySteps \cup RemoveSteps,
         HeldOK([job[w] EXCEPT !.pc = step], held[w]),
         step \in {"list", "next"} => job[w].stack # <<>>,
         job[w].pc \notin {"list", "next"}
  PROVE  Keeps(w, ours[w])
<1> DEFINE j == [job[w] EXCEPT !.pc = step]
<1>1. JobOK(job[w], held[w], ours[w]) /\ held \in [Workers -> Nat]
  BY DEF TreeInv, TypeOK
<1>2. j \in Job /\ j.op = job[w].op /\ j.from = job[w].from /\ j.to = job[w].to
      /\ j.stack = job[w].stack /\ j.item = job[w].item /\ j.pc = step
  BY <1>1 DEF JobOK, Job, Steps
<1>3. Becomes(w, j) /\ Hold(w, held[w])
  BY <1>1 DEF Goto, Hold
<1>4. j.stack \in Seq(Good(j.op, ours[w])) /\ held[w] \in Nat
  BY <1>1, <1>2 DEF JobOK
<1>5. j.stack # <<>> => j.item \in Names
  BY <1>1, <1>2 DEF JobOK
<1>6. HeldOK(j, held[w]) /\ (j.pc \in {"list", "next"} => j.stack # <<>>)
  BY <1>2
<1> HIDE DEF j
<1> QED
  BY <1>2, <1>3, <1>4, <1>5, <1>6, GoesOn
---------------------------------------------------------------------------
(* The steps of a request, one by one.                                      *)

LEMMA StepFacts ==
  ASSUME TreeInv, NEW w \in Workers
  PROVE  /\ JobOK(job[w], held[w], ours[w])
         /\ job[w] \in Job
         /\ Len(job[w].stack) \in Nat
         /\ held[w] \in Nat
         /\ UNCHANGED held => Hold(w, held[w])
BY LenProperties DEF TreeInv, JobOK, TypeOK, Hold

\* Where a request stands says what it is and what it holds.
LEMMA Running ==
  ASSUME TreeInv, NEW w \in Workers
  PROVE  /\ job[w].pc \in {"opensrc", "stuck", "mkdir", "chown", "opendst"} =>
              /\ job[w].op = "copy"
              /\ held[w] = 2 + (Len(job[w].stack) + Len(job[w].stack)) + Half(job[w])
         /\ job[w].pc \in {"enter", "rmdir"} =>
              job[w].op = "remove" /\ held[w] = 1 + Len(job[w].stack)
         /\ job[w].pc \in {"list", "next"} =>
              /\ job[w].stack # <<>>
              /\ \/ /\ job[w].op = "copy"
                    /\ held[w] = 2 + (Len(job[w].stack) + Len(job[w].stack))
                 \/ job[w].op = "remove" /\ held[w] = 1 + Len(job[w].stack)
<1>1. HeldOK(job[w], held[w]) /\ (job[w].pc \in {"list", "next"} => job[w].stack # <<>>)
  BY StepFacts DEF JobOK
<1>2. CASE job[w].pc \in {"opensrc", "stuck", "mkdir", "chown", "opendst"}
  BY <1>1, <1>2 DEF HeldOK, RemoveSteps
<1>3. CASE job[w].pc \in {"enter", "rmdir"}
  BY <1>1, <1>3 DEF HeldOK, CopySteps
<1>4. CASE job[w].pc \in {"list", "next"}
  <2>1. Half(job[w]) = 0 /\ Len(job[w].stack) \in Nat
    BY <1>4, StepFacts DEF Half
  <2> QED
    BY <1>1, <1>4, <2>1 DEF HeldOK
<1> QED
  BY <1>2, <1>3, <1>4

LEMMA OpenDirIsInside ==
  ASSUME NEW x PROVE OpenDir(x) \in Inside \cup {None}
BY DEF OpenDir

LEMMA BeginKeeps ==
  ASSUME TreeInv, NEW w \in Workers, Begin(w)
  PROVE  Keeps(w, ours[w]) /\ UNCHANGED entry
<1>2. Idle \in Job /\ Idle.stack = <<>>
  BY EmptySeq DEF Idle, Job, Steps
<1>3. ASSUME NEW from \in Sources, BeginRemove(w, from)
      PROVE  Keeps(w, ours[w]) /\ UNCHANGED entry
  <2> DEFINE j == [Idle EXCEPT !.op = "remove", !.pc = "enter", !.from = from]
  <2>1. from \in Inside \X Names
    BY <1>3, ConstantsOK
  <2>2. j \in Job /\ j.stack = <<>> /\ j.pc = "enter" /\ j.op = "remove" /\ j.from = from
    BY <1>2, <2>1 DEF Job, Idle, Places, Dirs, Steps, RemoveSteps
  <2>3. j.stack \in Seq(Good(j.op, ours[w])) /\ Len(j.stack) = 0
    BY <2>2, EmptySeq
  <2>4. Becomes(w, j) /\ Hold(w, 1) /\ UNCHANGED entry
    BY <1>3 DEF BeginRemove
  <2> HIDE DEF j
  <2>5. HeldOK(j, 1)
    BY <2>2, <2>3 DEF HeldOK, RemoveSteps
  <2>6. JobOK(j, 1, ours[w])
    BY <2>1, <2>2, <2>3, <2>5 DEF JobOK, CopySteps
  <2> QED
    BY <2>4, <2>6 DEF Keeps
<1>4. ASSUME NEW from \in Sources, NEW to \in Targets, BeginCopy(w, from, to)
      PROVE  Keeps(w, ours[w]) /\ UNCHANGED entry
  <2> DEFINE j == [Idle EXCEPT !.op = "copy", !.pc = "opensrc", !.from = from, !.to = to]
  <2>1. from \in Inside \X Names /\ to \in Inside \X Names
    BY <1>4, ConstantsOK
  <2>2. j \in Job /\ j.stack = <<>> /\ j.pc = "opensrc" /\ j.op = "copy"
        /\ j.from = from /\ j.to = to
    BY <1>2, <2>1 DEF Job, Idle, Places, Dirs, Steps, CopySteps
  <2>3. j.stack \in Seq(Good(j.op, ours[w])) /\ Len(j.stack) = 0
    BY <2>2, EmptySeq
  <2>4. Becomes(w, j) /\ Hold(w, 2) /\ UNCHANGED entry
    BY <1>4 DEF BeginCopy
  <2> HIDE DEF j
  <2>5. HeldOK(j, 2)
    BY <2>2, <2>3 DEF HeldOK, Half, CopySteps
  <2>6. JobOK(j, 2, ours[w])
    BY <2>1, <2>2, <2>3, <2>5 DEF JobOK
  <2> QED
    BY <2>4, <2>6 DEF Keeps
<1> QED
  BY <1>3, <1>4 DEF Begin

LEMMA OpenSourceKeeps ==
  ASSUME TreeInv, NEW w \in Workers, OpenSource(w)
  PROVE  Keeps(w, ours[w]) /\ Touches(w)
<1> DEFINE x == At(SrcPlace(w))
           d == OpenDir(x)
           step == IF x = Pipe THEN "stuck" ELSE IF AtTop(w) THEN "mkdir" ELSE "opendst"
           j == [job[w] EXCEPT !.half = d, !.pc = step]
<1>0. job[w].pc = "opensrc"
  BY DEF OpenSource
<1>1. job[w].pc = "opensrc" /\ job[w].op = "copy"
      /\ held[w] = 2 + (Len(job[w].stack) + Len(job[w].stack))
  <2>1. Half(job[w]) = 0
    BY <1>0 DEF Half
  <2> QED
    BY <1>0, <2>1, Running, StepFacts
<1>2. CASE Becomes(w, j) /\ Hold(w, held[w] + 1) /\ UNCHANGED entry
  <2>1. d \in Inside \cup {None} /\ step \in {"stuck", "mkdir", "opendst"}
    BY OpenDirIsInside
  <2>2. step = "mkdir" => job[w].stack = <<>>
    BY DEF AtTop
  <2> HIDE DEF d, step, x
  <2>3. j \in Job /\ j.op = job[w].op /\ j.from = job[w].from /\ j.to = job[w].to
        /\ j.stack = job[w].stack /\ j.item = job[w].item /\ j.pc = step
    BY <2>1, StepFacts DEF Job, Steps, CopySteps
  <2>4. HeldOK(j, held[w] + 1)
    BY <1>1, <2>1, <2>2, <2>3, StepFacts DEF HeldOK, Half, CopySteps
  <2>5. j.stack \in Seq(Good(j.op, ours[w])) /\ (j.stack # <<>> => j.item \in Names)
    BY <1>1, <2>3, StepFacts DEF JobOK, CopySteps
  <2>6. held[w] + 1 \in Nat /\ j.pc \notin {"list", "next"}
        /\ job[w].pc \in CopySteps \cup RemoveSteps /\ j.pc \in CopySteps \cup RemoveSteps
    BY <1>1, <2>1, <2>3, StepFacts DEF CopySteps
  <2>7. Becomes(w, j) /\ Hold(w, held[w] + 1)
    BY <1>2 DEF d, step, x
  <2> HIDE DEF j
  <2>8. Keeps(w, ours[w])
    BY <2>3, <2>4, <2>5, <2>6, <2>7, GoesOn
  <2> QED
    BY <1>2, <2>8 DEF Touches
<1>3. CASE Fail(w)
  BY <1>1, <1>3, FailKeeps
<1> QED
  BY <1>2, <1>3 DEF OpenSource

LEMMA MakeDirKeeps ==
  ASSUME TreeInv, NEW w \in Workers, MakeDir(w)
  PROVE  Keeps(w, ours[w]) /\ Touches(w)
<1> DEFINE place == DstPlace(w)
<1>0. job[w].pc = "mkdir"
  BY DEF MakeDir
<1>1. job[w].pc = "mkdir" /\ job[w].op = "copy"
  BY <1>0, Running
<1>2. place \in Inside \X Names
  BY <1>1, DstIsInside DEF CopySteps
<1>3. ASSUME NEW step \in {AfterMkdir(w), "chown"}, Goto(w, step), UNCHANGED held
      PROVE  Keeps(w, ours[w])
  <2>1. step \in CopySteps /\ step \notin {"list", "next"}
    BY DEF AfterMkdir, CopySteps
  <2>2. [job[w] EXCEPT !.pc = step].pc = step /\ [job[w] EXCEPT !.pc = step].op = "copy"
        /\ [job[w] EXCEPT !.pc = step].stack = job[w].stack
    BY <1>1, StepFacts DEF Job
  <2>3. Half([job[w] EXCEPT !.pc = step]) = Half(job[w]) /\ step \in CopySteps
    BY <1>1, <2>2 DEF Half, AfterMkdir, AtTop, CopySteps
  <2>4. HeldOK([job[w] EXCEPT !.pc = step], held[w])
    BY <1>1, <2>2, <2>3, Running DEF HeldOK
  <2> QED
    BY <1>1, <1>3, <2>1, <2>4, GotoKeeps DEF CopySteps
<1>4. CASE Fail(w)
  BY <1>1, <1>4, FailKeeps
<1>5. CASE Goto(w, AfterMkdir(w)) /\ UNCHANGED <<entry, held>>
  BY <1>3, <1>5 DEF Touches
<1>6. CASE At(place) = Nothing /\ Unmade # {} /\ Put(place, Made) /\ Goto(w, "chown")
           /\ UNCHANGED held
  <2>1. Made \in Inside
    BY <1>6 DEF Made, Unmade
  <2>2. Made \in Things \ {Secret}
    BY <2>1, KindsDiffer DEF Things, Files, Dirs
  <2>3. Touches(w)
    BY <1>1, <1>2, <1>6, <2>2 DEF Touches
  <2> QED
    BY <1>3, <1>6, <2>3
<1> QED
  BY <1>4, <1>5, <1>6 DEF MakeDir

LEMMA ChownDirKeeps ==
  ASSUME TreeInv, NEW w \in Workers, ChownDir(w)
  PROVE  Keeps(w, ours[w]) /\ Touches(w)
<1>0. job[w].pc = "chown"
  BY DEF ChownDir
<1>1. job[w].pc = "chown" /\ job[w].op = "copy"
  BY <1>0, Running
<1>2. CASE Fail(w)
  BY <1>1, <1>2, FailKeeps
<1>3. CASE Goto(w, AfterMkdir(w)) /\ UNCHANGED <<entry, held>>
  <2> DEFINE step == AfterMkdir(w)
  <2>1. step \in CopySteps /\ step \notin {"list", "next"}
    BY DEF AfterMkdir, CopySteps
  <2>2. [job[w] EXCEPT !.pc = step].pc = step /\ [job[w] EXCEPT !.pc = step].op = "copy"
        /\ [job[w] EXCEPT !.pc = step].stack = job[w].stack
    BY <1>1, StepFacts DEF Job
  <2>3. Half([job[w] EXCEPT !.pc = step]) = Half(job[w]) /\ step \in CopySteps
    BY <1>1, <2>2 DEF Half, AfterMkdir, AtTop, CopySteps
  <2>4. HeldOK([job[w] EXCEPT !.pc = step], held[w])
    BY <1>1, <2>2, <2>3, Running DEF HeldOK
  <2>5. Keeps(w, ours[w])
    BY <1>1, <1>3, <2>1, <2>4, GotoKeeps DEF CopySteps
  <2> QED
    BY <1>3, <2>5 DEF Touches
<1> QED
  BY <1>2, <1>3 DEF ChownDir

LEMMA GoodFrames ==
  ASSUME NEW op, NEW own, NEW seq \in Seq(Good(op, own))
  PROVE  seq \in Seq(Frame)
BY SeqMonotonic DEF Good

\* A request goes into a directory it opened.
LEMMA PushKeeps ==
  ASSUME TreeInv, NEW w \in Workers, NEW own,
         NEW src \in Inside, NEW dst \in Inside \cup {None}, NEW name \in Names,
         Push(w, src, dst, name), Hold(w, held[w] + 1),
         \/ job[w].op = "copy" /\ job[w].pc = "opendst" /\ dst \in Inside
         \/ job[w].op = "remove" /\ job[w].pc = "enter" /\ ours[w] \subseteq own /\ src \in own
  PROVE  Keeps(w, own)
<1> DEFINE f == [src |-> src, dst |-> dst, name |-> name, todo |-> {}]
           j == [job[w] EXCEPT !.pc = "list", !.half = None, !.item = None,
                               !.stack = <<f>> \o @]
<1>1. f \in Good(job[w].op, own)
  BY DEF Good, Frame
<1>2. JobOK(job[w], held[w], own)
  BY StepFacts, MoreIsOwn
<1>3. <<f>> \o job[w].stack \in Seq(Good(job[w].op, own))
      /\ Len(<<f>> \o job[w].stack) = Len(job[w].stack) + 1
      /\ <<f>> \o job[w].stack # <<>>
  <2> HIDE DEF f
  <2> QED
    BY <1>1, <1>2, PushFacts DEF JobOK
<1>4. <<f>> \o job[w].stack \in Seq(Frame)
  <2> HIDE DEF f
  <2> QED
    BY <1>3, GoodFrames
<1>5. j \in Job /\ j.op = job[w].op /\ j.from = job[w].from /\ j.to = job[w].to
      /\ j.stack = <<f>> \o job[w].stack /\ j.pc = "list"
  <2> HIDE DEF f
  <2> QED
    BY <1>4, StepFacts DEF Job, Steps, CopySteps
<1>6. Becomes(w, j)
  BY DEF Push
<1> HIDE DEF j, f
<1>7. HeldOK(j, held[w] + 1) /\ held[w] + 1 \in Nat
  <2>1. Half(j) = 0
    BY <1>5 DEF Half
  <2>2. CASE job[w].op = "copy" /\ job[w].pc = "opendst"
    <3>1. Half(job[w]) = 1
      BY <2>2 DEF Half
    <3>2. held[w] + 1 = 2 + (Len(j.stack) + Len(j.stack)) + 0
      BY <1>3, <1>5, <2>2, <3>1, Running, StepFacts
    <3> QED
      BY <1>5, <2>1, <2>2, <3>2, StepFacts DEF HeldOK, CopySteps
  <2>3. CASE job[w].op = "remove" /\ job[w].pc = "enter"
    BY <1>3, <1>5, <2>3, Running, StepFacts DEF HeldOK, RemoveSteps
  <2> QED
    BY <2>2, <2>3
<1> QED
  BY <1>3, <1>5, <1>6, <1>7, GoesOn DEF CopySteps, RemoveSteps

LEMMA OpenDestKeeps ==
  ASSUME TreeInv, NEW w \in Workers, OpenDest(w)
  PROVE  Keeps(w, ours[w]) /\ Touches(w)
<1> DEFINE d == OpenDir(At(DstPlace(w)))
<1>0. job[w].pc = "opendst" /\ UNCHANGED entry
  BY DEF OpenDest
<1>1. job[w].op = "copy"
  BY <1>0, Running
<1>2. CASE d # None /\ job[w].half # None /\ Push(w, job[w].half, d, DstPlace(w)[2])
           /\ Hold(w, held[w] + 1)
  <2>1. d \in Inside /\ job[w].half \in Inside /\ DstPlace(w)[2] \in Names
    BY <1>0, <1>1, <1>2, OpenDirIsInside, DstIsInside, StepFacts DEF Job, CopySteps
  <2> QED
    BY <1>0, <1>1, <1>2, <2>1, PushKeeps DEF Touches
<1>3. CASE End(w, "failed") /\ Hold(w, IF AtTop(w) THEN 0 ELSE 1)
  <2>1. Keeps(w, ours[w])
    BY <1>1, <1>3, EndKeeps DEF Ends
  <2> QED
    BY <1>0, <2>1 DEF Touches
<1> QED
  BY <1>2, <1>3 DEF OpenDest

LEMMA EnterKeeps ==
  ASSUME TreeInv, NEW w \in Workers, Enter(w), Watched
  PROVE  Keeps(w, ours'[w]) /\ Touches(w)
<1> DEFINE d == OpenDir(At(SrcPlace(w)))
<1>0. job[w].pc = "enter"
  BY DEF Enter
<1>1. job[w].op = "remove" /\ job \in [Workers -> Job]
  BY <1>0, Running DEF TreeInv, TypeOK
<1>2. CASE d # None /\ Push(w, d, None, SrcPlace(w)[2]) /\ Hold(w, held[w] + 1)
           /\ UNCHANGED entry
  <2>1. d \in Inside /\ d = At(SrcPlace(w)) /\ SrcPlace(w)[2] \in Names
    BY <1>0, <1>2, OpenDirIsInside, SrcIsInside DEF OpenDir, RemoveSteps
  <2>2. job'[w].op = "remove" /\ job'[w].pc = "list"
        /\ job'[w].stack = <<[src |-> d, dst |-> None, name |-> SrcPlace(w)[2], todo |-> {}]>>
                              \o job[w].stack
    BY <1>1, <1>2 DEF Push, Becomes, Job
  <2>3. ours'[w] = Grown(w)
    BY <2>2 DEF Watched, Removing, Ended, Ends
  <2>4. CASE AtTop(w)
    <3>1. job'[w].stack = <<[src |-> d, dst |-> None, name |-> SrcPlace(w)[2], todo |-> {}]>>
      BY <2>2, <2>4, EmptySeq DEF AtTop
    <3>2. d \in Target0(w)
      BY <1>0, <2>1, <2>4, <3>1 DEF Target0, Dirs
    <3> QED
      BY <1>0, <1>1, <1>2, <2>1, <2>3, <3>2, PushKeeps DEF Grown, Touches
  <2>5. CASE ~AtTop(w)
    <3>1. Top(w) \in Good(job[w].op, ours[w]) /\ job[w].item \in Names
      BY <1>0, <2>5, TopFacts, StepFacts DEF JobOK, AtTop, RemoveSteps
    <3>2. Top(w).src \in ours[w]
      BY <1>1, <3>1 DEF Good
    <3>3. entry'[Top(w).src][job[w].item] = d
      BY <1>2, <2>1, <2>5 DEF SrcPlace, At
    <3>4. d \in Grown(w)
      BY <2>1, <3>1, <3>2, <3>3 DEF Grown
    <3> QED
      BY <1>0, <1>1, <1>2, <2>1, <2>3, <3>4, PushKeeps DEF Grown, Touches
  <2> QED
    BY <2>4, <2>5
<1>3. CASE Fail(w)
  <2>1. Keeps(w, ours[w]) /\ Touches(w)
    BY <1>1, <1>3, FailKeeps
  <2>2. Keeps(w, ours'[w])
    <3>1. PICK j, h : Becomes(w, j) /\ Hold(w, h) /\ JobOK(j, h, ours[w])
      BY <2>1 DEF Keeps
    <3>2. job'[w] = j
      BY <1>1, <3>1 DEF Becomes
    <3>3. job'[w].stack = <<>>
      BY <1>1, <1>3 DEF Fail, End, Becomes, Job
    <3>4. JobOK(j, h, ours'[w])
      BY <3>1, <3>2, <3>3, EmptySeq DEF JobOK
    <3> QED
      BY <3>1, <3>4 DEF Keeps
  <2> QED
    BY <2>1, <2>2
<1> QED
  BY <1>2, <1>3 DEF Enter

\* The innermost call has a new list, or a shorter one.
LEMMA LeftFacts ==
  ASSUME TreeInv, NEW w \in Workers, job[w].pc \in {"list", "next"},
         NEW todo \in SUBSET (Names \X Kinds)
  PROVE  /\ Left(w, todo) \in Seq(Good(job[w].op, ours[w]))
         /\ Left(w, todo) \in Seq(Frame)
         /\ Len(Left(w, todo)) = Len(job[w].stack)
         /\ Left(w, todo) # <<>>
<1>1. Top(w) \in Good(job[w].op, ours[w])
      /\ Tail(job[w].stack) \in Seq(Good(job[w].op, ours[w]))
      /\ Len(job[w].stack) = Len(Tail(job[w].stack)) + 1
  BY Running, StepFacts, TopFacts DEF JobOK
<1>2. [Top(w) EXCEPT !.todo = todo] \in Good(job[w].op, ours[w])
  BY <1>1 DEF Good, Frame
<1> QED
  BY <1>1, <1>2, PushFacts, GoodFrames DEF Left

LEMMA LeftKeeps ==
  ASSUME TreeInv, NEW w \in Workers, job[w].pc \in {"list", "next"},
         NEW todo \in SUBSET (Names \X Kinds),
         NEW j \in Job, Becomes(w, j), UNCHANGED held,
         j.op = job[w].op, j.from = job[w].from, j.to = job[w].to,
         j.stack = Left(w, todo),
         \/ j.pc = "next"
         \/ j.pc = (IF job[w].op = "copy" THEN "mkdir" ELSE "enter") /\ j.item \in Names
  PROVE  Keeps(w, ours[w])
<1>1. j.stack \in Seq(Good(j.op, ours[w])) /\ Len(j.stack) = Len(job[w].stack)
      /\ j.stack # <<>>
  BY LeftFacts
<1>2. Half(j) = 0
  BY <1>1 DEF Half
<1>3. HeldOK(j, held[w])
  BY <1>1, <1>2, Running, StepFacts DEF HeldOK, CopySteps, RemoveSteps
<1>4. job[w].pc \in CopySteps \cup RemoveSteps /\ held[w] \in Nat /\ Hold(w, held[w])
      /\ j.pc \in CopySteps \cup RemoveSteps
  BY StepFacts DEF CopySteps, RemoveSteps
<1> QED
  BY <1>1, <1>3, <1>4, GoesOn

LEMMA ListKeeps ==
  ASSUME TreeInv, NEW w \in Workers, List(w)
  PROVE  Keeps(w, ours[w]) /\ Touches(w)
<1>0. job[w].pc = "list"
  BY DEF List
<1>1. job[w].op \in {"copy", "remove"}
  BY <1>0, Running
<1>2. CASE /\ Becomes(w, [job[w] EXCEPT !.pc = "next", !.stack = Left(w, Listing(Top(w).src))])
           /\ UNCHANGED <<entry, held>>
  <2> DEFINE todo == Listing(Top(w).src)
             j == [job[w] EXCEPT !.pc = "next", !.stack = Left(w, todo)]
  <2>1. todo \in SUBSET (Names \X Kinds)
    BY DEF Listing, Kind, Kinds
  <2> HIDE DEF todo
  <2>2. j \in Job /\ j.op = job[w].op /\ j.from = job[w].from /\ j.to = job[w].to
        /\ j.stack = Left(w, todo) /\ j.pc = "next"
    BY <1>0, <2>1, LeftFacts, StepFacts DEF Job, Steps, CopySteps
  <2>3. Becomes(w, j)
    BY <1>2 DEF todo
  <2> HIDE DEF j
  <2>4. Keeps(w, ours[w])
    BY <1>0, <1>2, <2>1, <2>2, <2>3, LeftKeeps
  <2> QED
    BY <1>2, <2>4 DEF Touches
<1>3. CASE Fail(w)
  BY <1>1, <1>3, FailKeeps
<1> QED
  BY <1>2, <1>3 DEF List

\* An entry the loop takes is a name of its list.
LEMMA TakenFacts ==
  ASSUME TreeInv, NEW w \in Workers, job[w].pc = "next", NEW e \in Top(w).todo
  PROVE  /\ e[1] \in Names
         /\ Top(w).todo \ {e} \in SUBSET (Names \X Kinds)
         /\ Top(w).src \in Inside
         /\ job[w].op = "copy" => Top(w).dst \in Inside
         /\ job[w].op = "remove" => Top(w).src \in ours[w]
         /\ job[w].op \in {"copy", "remove"}
         /\ Left(w, Top(w).todo \ {e}) \in Seq(Frame)
<1>1. Top(w) \in Good(job[w].op, ours[w])
  BY Running, StepFacts, TopFacts DEF JobOK
<1>2. Top(w).todo \ {e} \in SUBSET (Names \X Kinds) /\ e \in Names \X Kinds
  BY <1>1 DEF Good, Frame
<1>3. Left(w, Top(w).todo \ {e}) \in Seq(Frame)
  BY <1>2, LeftFacts
<1> QED
  BY <1>1, <1>2, <1>3, Running DEF Good, Frame

LEMMA TakeKeeps ==
  ASSUME TreeInv, NEW w \in Workers, job[w].pc = "next", NEW e \in Top(w).todo,
         NEW skip \in BOOLEAN,
         \/ Take(w, e)
         \/ Becomes(w, [job[w] EXCEPT !.stack = Taken(w, e), !.skipped = skip]),
         UNCHANGED held
  PROVE  Keeps(w, ours[w])
<1>1. Taken(w, e) \in Seq(Frame) /\ Taken(w, e) = Left(w, Top(w).todo \ {e})
      /\ Top(w).todo \ {e} \in SUBSET (Names \X Kinds)
  BY TakenFacts DEF Taken
<1>2. CASE Take(w, e)
  <2> DEFINE j == [job[w] EXCEPT !.stack = Taken(w, e)]
  <2>1. j \in Job /\ j.op = job[w].op /\ j.from = job[w].from /\ j.to = job[w].to
        /\ j.stack = Taken(w, e) /\ j.pc = "next"
    BY <1>1, StepFacts DEF Job
  <2>2. Becomes(w, j)
    BY <1>2 DEF Take
  <2> HIDE DEF j
  <2> QED
    BY <1>1, <2>1, <2>2, LeftKeeps
<1>3. CASE Becomes(w, [job[w] EXCEPT !.stack = Taken(w, e), !.skipped = skip])
  <2> DEFINE j == [job[w] EXCEPT !.stack = Taken(w, e), !.skipped = skip]
  <2>1. j \in Job /\ j.op = job[w].op /\ j.from = job[w].from /\ j.to = job[w].to
        /\ j.stack = Taken(w, e) /\ j.pc = "next"
    BY <1>1, StepFacts DEF Job
  <2>2. Becomes(w, j)
    BY <1>3
  <2> HIDE DEF j
  <2> QED
    BY <1>1, <2>1, <2>2, LeftKeeps
<1> QED
  BY <1>2, <1>3

LEMMA TakeDirKeeps ==
  ASSUME TreeInv, NEW w \in Workers, job[w].pc = "next", NEW e \in Top(w).todo, TakeDir(w, e)
  PROVE  Keeps(w, ours[w]) /\ Touches(w)
<1> DEFINE step == IF job[w].op = "copy" THEN "mkdir" ELSE "enter"
           j == [job[w] EXCEPT !.stack = Taken(w, e), !.item = e[1], !.pc = step]
<1>1. Taken(w, e) \in Seq(Frame) /\ Taken(w, e) = Left(w, Top(w).todo \ {e})
      /\ Top(w).todo \ {e} \in SUBSET (Names \X Kinds) /\ e[1] \in Names
  BY TakenFacts DEF Taken
<1>2. j \in Job /\ j.op = job[w].op /\ j.from = job[w].from /\ j.to = job[w].to
      /\ j.stack = Taken(w, e) /\ j.pc = step /\ j.item = e[1]
  BY <1>1, StepFacts DEF Job, Steps, CopySteps, RemoveSteps
<1>3. Becomes(w, j) /\ UNCHANGED <<entry, held>>
  BY DEF TakeDir
<1> HIDE DEF j
<1>4. Keeps(w, ours[w])
  BY <1>1, <1>2, <1>3, LeftKeeps
<1> QED
  BY <1>3, <1>4 DEF Touches

LEMMA TakeLinkKeeps ==
  ASSUME TreeInv, NEW w \in Workers, job[w].pc = "next", NEW e \in Top(w).todo, TakeLink(w, e)
  PROVE  Keeps(w, ours[w]) /\ Touches(w)
<1>1. Keeps(w, ours[w])
  <2> DEFINE free == /\ entry[Top(w).src][e[1]] \in Links
                     /\ At(<<Top(w).dst, e[1]>>) = Nothing
                     /\ Linked(Top(w).dst)
  <2>1. (job[w].skipped \/ free) \in BOOLEAN
    OBVIOUS
  <2>2. CASE Becomes(w, [job[w] EXCEPT !.stack = Taken(w, e), !.skipped = @ \/ free])
             /\ UNCHANGED held
    BY <2>1, <2>2, TakeKeeps
  <2>3. CASE Take(w, e) /\ UNCHANGED held
    BY <2>3, TakeKeeps
  <2> QED
    BY <2>2, <2>3 DEF TakeLink
<1>2. job[w].op = "copy"
  BY DEF TakeLink, Is
<1>3. Touches(w)
  <2> DEFINE place == <<Top(w).dst, e[1]>>
             x == entry[Top(w).src][e[1]]
  <2>1. CASE UNCHANGED entry
    BY <2>1 DEF Touches
  <2>2. CASE x \in Links /\ At(place) = Nothing /\ Put(place, x)
    <3>1. place \in Inside \X Names /\ x \in Things \ {Secret}
      BY <1>2, <2>2, TakenFacts, KindsDiffer DEF Things, Files
    <3> QED
      BY <1>2, <2>2, <3>1 DEF Touches
  <2> QED
    BY <2>1, <2>2 DEF TakeLink
<1> QED
  BY <1>1, <1>3

\* A file that is open is copied, passed over or fails.
LEMMA CopyFileKeeps ==
  ASSUME TreeInv, NEW w \in Workers, job[w].op = "copy",
         job[w].pc \in {"next", "stuck"}, job[w].stack # <<>>,
         NEW opened \in {0, 1},
         held[w] = 2 + (Len(job[w].stack) + Len(job[w].stack)) + opened,
         NEW name \in Names, NEW x \in Things \ {Secret},
         NEW calls \in Seq(Good(job[w].op, ours[w])),
         Len(calls) = Len(job[w].stack), calls # <<>>,
         CopyFile(w, name, x, calls, opened)
  PROVE  Keeps(w, ours[w]) /\ Touches(w)
<1> DEFINE place == <<Top(w).dst, name>>
           free == x \in Files \cup Inside /\ At(place) = Nothing /\ Linked(place[1])
           on == [job[w] EXCEPT !.pc = "next", !.item = None, !.stack = calls]
<1>1. place \in Inside \X Names /\ Torn \in Things \ {Secret}
  <2>1. Top(w) \in Good(job[w].op, ours[w])
    BY StepFacts, TopFacts DEF JobOK
  <2> QED
    BY <2>1, KindsDiffer DEF Good, Things, Files
<1>2. ASSUME NEW skip \in BOOLEAN, Becomes(w, [on EXCEPT !.skipped = skip]),
             Hold(w, held[w] - opened)
      PROVE  Keeps(w, ours[w])
  <2> DEFINE j == [on EXCEPT !.skipped = skip]
  <2>1. calls \in Seq(Frame)
    BY GoodFrames
  <2>2. j \in Job /\ j.op = job[w].op /\ j.from = job[w].from /\ j.to = job[w].to
        /\ j.stack = calls /\ j.pc = "next"
    BY <2>1, StepFacts DEF Job, Steps, CopySteps
  <2>3. Becomes(w, j)
    BY <1>2
  <2> HIDE DEF j
  <2>4. Len(calls) \in Nat
    BY StepFacts
  <2>5. HeldOK(j, held[w] - opened) /\ held[w] - opened \in Nat
    BY <2>2, <2>4 DEF HeldOK, Half, CopySteps
  <2> QED
    BY <1>2, <2>2, <2>3, <2>5, GoesOn DEF CopySteps
<1>3. CASE /\ Becomes(w, [on EXCEPT !.skipped = @ \/ free])
           /\ Hold(w, held[w] - opened) /\ UNCHANGED entry
  <2>1. on.skipped = job[w].skipped /\ (job[w].skipped \/ free) \in BOOLEAN
    BY StepFacts DEF Job
  <2>2. Keeps(w, ours[w])
    BY <1>2, <1>3, <2>1
  <2> QED
    BY <1>3, <2>2 DEF Touches
<1>4. CASE /\ free /\ Becomes(w, on) /\ Hold(w, held[w] - opened)
           /\ Put(place, x)
  <2>1. on = [on EXCEPT !.skipped = job[w].skipped] /\ job[w].skipped \in BOOLEAN
    BY StepFacts DEF Job
  <2>2. Keeps(w, ours[w])
    BY <1>2, <1>4, <2>1
  <2> QED
    BY <1>1, <1>4, <2>2 DEF Touches
<1>5. CASE /\ free /\ End(w, "failed") /\ Put(place, Torn)
           /\ Hold(w, IF x \in Inside /\ Spare + opened >= 3 THEN 1 ELSE 0)
  <2>1. Keeps(w, ours[w])
    BY <1>5, EndKeeps DEF Ends
  <2> QED
    BY <1>1, <1>5, <2>1 DEF Touches
<1> QED
  BY <1>3, <1>4, <1>5 DEF CopyFile

LEMMA TakeFileKeeps ==
  ASSUME TreeInv, NEW w \in Workers, job[w].pc = "next", NEW e \in Top(w).todo, TakeFile(w, e)
  PROVE  Keeps(w, ours[w]) /\ Touches(w)
<1> DEFINE x == entry[Top(w).src][e[1]]
           calls == Taken(w, e)
<1>1. job[w].op = "copy" /\ e[1] \in Names
  BY TakenFacts DEF TakeFile, Is
<1>2. x \in Things \ {Secret}
  <2>1. <<Top(w).src, e[1]>> \in Inside \X Names
    BY TakenFacts
  <2> QED
    BY <2>1, HomeEntries DEF At
<1>3. /\ calls \in Seq(Good(job[w].op, ours[w])) /\ calls \in Seq(Frame)
      /\ Len(calls) = Len(job[w].stack) /\ calls # <<>>
  BY TakenFacts, LeftFacts DEF Taken
<1>4. job[w].stack # <<>> /\ held[w] = 2 + (Len(job[w].stack) + Len(job[w].stack))
      /\ Len(job[w].stack) \in Nat
  BY <1>1, Running, StepFacts
<1>5. CASE /\ Becomes(w, [job[w] EXCEPT !.pc = "stuck", !.stack = calls, !.item = e[1]])
           /\ Hold(w, held[w] + 1) /\ UNCHANGED entry
  <2> DEFINE j == [job[w] EXCEPT !.pc = "stuck", !.stack = calls, !.item = e[1]]
  <2> HIDE DEF calls
  <2>1. j \in Job /\ j.op = job[w].op /\ j.from = job[w].from /\ j.to = job[w].to
        /\ j.stack = calls /\ j.pc = "stuck" /\ j.item = e[1]
    BY <1>1, <1>3, StepFacts DEF Job, Steps, CopySteps
  <2>2. Becomes(w, j)
    BY <1>5 DEF calls
  <2> HIDE DEF j
  <2>3. HeldOK(j, held[w] + 1) /\ held[w] + 1 \in Nat
    BY <1>1, <1>3, <1>4, <2>1 DEF HeldOK, Half, CopySteps
  <2>4. Keeps(w, ours[w])
    BY <1>1, <1>3, <1>5, <2>1, <2>2, <2>3, GoesOn DEF CopySteps
  <2> QED
    BY <1>5, <2>4 DEF Touches
<1>6. CASE CopyFile(w, e[1], x, calls, 0)
  <2> HIDE DEF x, calls
  <2>1. held[w] = 2 + (Len(job[w].stack) + Len(job[w].stack)) + 0
    BY <1>4
  <2> QED
    BY <1>1, <1>2, <1>3, <1>4, <1>6, <2>1, CopyFileKeeps
<1> QED
  BY <1>5, <1>6 DEF TakeFile

\* A copy that waited at a FIFO goes on.
LEMMA FeedKeeps ==
  ASSUME TreeInv, NEW w \in Workers, Feed(w)
  PROVE  Keeps(w, ours[w]) /\ Touches(w) /\ job[w].op = "copy"
<1>0. job[w].pc = "stuck"
  BY DEF Feed
<1>1. job[w].op = "copy" /\ Half(job[w]) = 1
      /\ held[w] = 2 + (Len(job[w].stack) + Len(job[w].stack)) + 1
  BY <1>0, Running DEF Half
<1>2. CASE AtTop(w)
  <2>1. Goto(w, "mkdir") /\ UNCHANGED <<entry, held>>
    BY <1>2 DEF Feed
  <2>2. /\ [job[w] EXCEPT !.pc = "mkdir"].pc = "mkdir"
        /\ [job[w] EXCEPT !.pc = "mkdir"].op = "copy"
        /\ [job[w] EXCEPT !.pc = "mkdir"].stack = job[w].stack
    BY <1>1, StepFacts DEF Job
  <2>3. HeldOK([job[w] EXCEPT !.pc = "mkdir"], held[w])
    BY <1>1, <1>2, <2>2 DEF HeldOK, Half, AtTop, CopySteps
  <2>4. Keeps(w, ours[w])
    BY <1>0, <2>1, <2>3, GotoKeeps DEF CopySteps
  <2> QED
    BY <1>1, <2>1, <2>4 DEF Touches
<1>3. CASE ~AtTop(w)
  <2>1. job[w].stack # <<>> /\ job[w].item \in Names
        /\ job[w].stack \in Seq(Good(job[w].op, ours[w]))
    BY <1>0, <1>3, StepFacts DEF AtTop, JobOK, CopySteps
  <2>2. Mine \in Things \ {Secret}
    BY KindsDiffer DEF Things, Files
  <2>3. CopyFile(w, job[w].item, Mine, job[w].stack, 1)
    BY <1>3 DEF Feed
  <2> QED
    BY <1>0, <1>1, <2>1, <2>2, <2>3, CopyFileKeeps
<1> QED
  BY <1>2, <1>3

LEMMA TakeOtherKeeps ==
  ASSUME TreeInv, NEW w \in Workers, job[w].pc = "next", NEW e \in Top(w).todo, TakeOther(w, e)
  PROVE  Keeps(w, ours[w]) /\ Touches(w)
<1> DEFINE place == <<Top(w).src, e[1]>>
<1>1. job[w].op = "remove"
  BY DEF TakeOther, Is
<1>2. CASE Take(w, e) /\ Put(place, Nothing) /\ UNCHANGED held
  <2>1. place \in Inside \X Names /\ place[1] \in ours[w]
    BY <1>1, TakenFacts
  <2>2. Nothing \in Things \ {Secret}
    BY KindsDiffer DEF Things
  <2>3. Keeps(w, ours[w])
    BY <1>2, TakeKeeps
  <2> QED
    BY <1>1, <1>2, <2>1, <2>2, <2>3 DEF Touches
<1>3. CASE Fail(w)
  BY <1>1, <1>3, FailKeeps
<1> QED
  BY <1>2, <1>3 DEF TakeOther

LEMMA ReturnKeeps ==
  ASSUME TreeInv, NEW w \in Workers, Return(w)
  PROVE  Keeps(w, ours[w]) /\ Touches(w)
<1> DEFINE rest == Tail(job[w].stack)
<1>0. job[w].pc = "next" /\ UNCHANGED entry
  BY DEF Return
<1>1. /\ Top(w) \in Good(job[w].op, ours[w])
      /\ rest \in Seq(Good(job[w].op, ours[w]))
      /\ Len(rest) \in Nat
      /\ Len(job[w].stack) = Len(rest) + 1
  BY <1>0, Running, StepFacts, TopFacts DEF JobOK
<1>2. rest \in Seq(Frame) /\ Top(w).name \in Names
  <2>1. Top(w).name \in Names
    BY <1>1 DEF Good, Frame
  <2>2. rest \in Seq(Frame)
    BY <1>1, GoodFrames
  <2> QED
    BY <2>1, <2>2
<1>3. CASE /\ job[w].op = "remove"
           /\ Becomes(w, [job[w] EXCEPT !.pc = "rmdir", !.stack = rest, !.item = Top(w).name])
           /\ Hold(w, held[w] - 1)
  <2> DEFINE j == [job[w] EXCEPT !.pc = "rmdir", !.stack = rest, !.item = Top(w).name]
  <2> HIDE DEF rest
  <2>1. j \in Job /\ j.op = job[w].op /\ j.from = job[w].from /\ j.to = job[w].to
        /\ j.stack = rest /\ j.pc = "rmdir" /\ j.item \in Names
    BY <1>2, StepFacts DEF Job, Steps, RemoveSteps
  <2>2. Becomes(w, j)
    BY <1>3 DEF rest
  <2> HIDE DEF j
  <2>3. held[w] - 1 = 1 + Len(rest)
    BY <1>0, <1>1, <1>3, Running
  <2>4. HeldOK(j, held[w] - 1) /\ held[w] - 1 \in Nat
    BY <1>1, <1>3, <2>1, <2>3 DEF HeldOK, RemoveSteps
  <2>5. Keeps(w, ours[w])
    BY <1>0, <1>1, <1>3, <2>1, <2>2, <2>4, GoesOn DEF RemoveSteps
  <2> QED
    BY <1>0, <2>5 DEF Touches
<1>4. CASE /\ job[w].op = "copy" /\ rest # <<>>
           /\ Becomes(w, [job[w] EXCEPT !.stack = rest, !.item = None])
           /\ Hold(w, held[w] - 2)
  <2> DEFINE j == [job[w] EXCEPT !.stack = rest, !.item = None]
  <2> HIDE DEF rest
  <2>1. j \in Job /\ j.op = job[w].op /\ j.from = job[w].from /\ j.to = job[w].to
        /\ j.stack = rest /\ j.pc = "next"
    BY <1>0, <1>2, StepFacts DEF Job
  <2>2. Becomes(w, j)
    BY <1>4 DEF rest
  <2>3. rest # <<>>
    BY <1>4 DEF rest
  <2> HIDE DEF j
  <2>4. held[w] - 2 = 2 + (Len(rest) + Len(rest)) /\ Half(j) = 0
    <3>1. held[w] = 2 + (Len(job[w].stack) + Len(job[w].stack))
      BY <1>0, <1>4, Running
    <3>2. Len(rest) \in Nat /\ Len(job[w].stack) = Len(rest) + 1
      BY <1>1 DEF rest
    <3>3. Half(j) = 0
      BY <2>1 DEF Half
    <3> QED
      BY <3>1, <3>2, <3>3
  <2>5. HeldOK(j, held[w] - 2) /\ held[w] - 2 \in Nat
    BY <1>1, <1>4, <2>1, <2>4 DEF HeldOK, CopySteps
  <2>6. Keeps(w, ours[w])
    BY <1>0, <1>1, <1>4, <2>1, <2>2, <2>3, <2>5, GoesOn DEF CopySteps
  <2> QED
    BY <1>0, <2>6 DEF Touches
<1>5. CASE job[w].op = "copy" /\ End(w, "ok") /\ Hold(w, 0)
  BY <1>0, <1>5, EndKeeps DEF Ends, Touches
<1> QED
  BY <1>3, <1>4, <1>5 DEF Return

LEMMA RmDirKeeps ==
  ASSUME TreeInv, NEW w \in Workers, RmDir(w)
  PROVE  Keeps(w, ours[w]) /\ Touches(w)
<1>0. job[w].pc = "rmdir"
  BY DEF RmDir
<1>1. job[w].op = "remove" /\ held[w] = 1 + Len(job[w].stack)
  BY <1>0, Running
<1>2. CASE Fail(w)
  BY <1>1, <1>2, FailKeeps
<1>3. CASE /\ Put(SrcPlace(w), Nothing)
           /\ IF AtTop(w) THEN End(w, "ok") /\ Hold(w, 0)
                          ELSE Goto(w, "next") /\ UNCHANGED held
  <2>1. Touches(w)
    <3>1. Nothing \in Things \ {Secret}
      BY KindsDiffer DEF Things
    <3>2. SrcPlace(w) \in Inside \X Names
          /\ (SrcPlace(w) = job[w].from \/ SrcPlace(w)[1] \in ours[w])
      BY <1>0, <1>1, SrcIsInside DEF RemoveSteps
    <3> QED
      BY <1>1, <1>3, <3>1, <3>2 DEF Touches
  <2>2. CASE AtTop(w)
    BY <1>1, <1>3, <2>1, <2>2, EndKeeps DEF Ends
  <2>3. CASE ~AtTop(w)
    <3>1. [job[w] EXCEPT !.pc = "next"].pc = "next"
          /\ [job[w] EXCEPT !.pc = "next"].op = "remove"
          /\ [job[w] EXCEPT !.pc = "next"].stack = job[w].stack
      BY <1>1, StepFacts DEF Job
    <3>2. HeldOK([job[w] EXCEPT !.pc = "next"], held[w])
      BY <1>1, <3>1 DEF HeldOK, RemoveSteps
    <3>3. Goto(w, "next") /\ UNCHANGED held /\ job[w].stack # <<>>
      BY <1>3, <2>3 DEF AtTop
    <3> QED
      BY <1>0, <2>1, <3>2, <3>3, GotoKeeps DEF Steps, CopySteps, RemoveSteps
  <2> QED
    BY <2>2, <2>3
<1> QED
  BY <1>2, <1>3 DEF RmDir

\* Whatever step a request takes
LEMMA ContinueKeeps ==
  ASSUME TreeInv, NEW w \in Workers, Continue(w), Watched
  PROVE  (Keeps(w, ours[w]) \/ Keeps(w, ours'[w])) /\ Touches(w)
<1>1. ASSUME job[w].pc = "next", NEW e \in Top(w).todo,
             TakeDir(w, e) \/ TakeLink(w, e) \/ TakeFile(w, e) \/ TakeOther(w, e)
      PROVE  Keeps(w, ours[w]) /\ Touches(w)
  BY <1>1, TakeDirKeeps, TakeLinkKeeps, TakeFileKeeps, TakeOtherKeeps
<1> QED
  BY <1>1, OpenSourceKeeps, MakeDirKeeps, ChownDirKeeps, OpenDestKeeps, EnterKeeps,
     ListKeeps, ReturnKeeps, RmDirKeeps DEF Continue
---------------------------------------------------------------------------
(* The invariant, step by step.                                             *)

LEMMA InitTree == Init => TreeInv
<1> SUFFICES ASSUME Init PROVE TreeInv
  OBVIOUS
<1>1. Idle \in Job /\ Idle.stack = <<>> /\ Idle.pc = "idle"
  BY EmptySeq DEF Idle, Job, Steps
<1>2. JobOK(Idle, 0, {})
  BY <1>1, EmptySeq DEF JobOK, HeldOK, CopySteps, RemoveSteps
<1>3. entry \in [Dirs -> [Names -> Things]]
  BY ConstantsOK DEF Init, Dirs, Things, Files
<1>4. OutsideUntouched
  BY ConstantsOK DEF Init, OutsideUntouched, At, Dirs
<1>5. TypeOK
  BY <1>1, <1>3, ConstantsOK DEF Init, TypeOK
<1> QED
  BY <1>2, <1>4, <1>5 DEF Init, TreeInv

\* Entries stay well typed, and the host's as they were.
LEMMA EntriesKept ==
  ASSUME TreeInv,
         \/ UNCHANGED entry
         \/ \E place \in Inside \X Names, x \in Things \ {Secret} : Put(place, x)
  PROVE  entry' \in [Dirs -> [Names -> Things]] /\ OutsideUntouched'
<1>1. CASE UNCHANGED entry
  BY <1>1 DEF TreeInv, TypeOK, OutsideUntouched, At
<1>2. ASSUME NEW place \in Inside \X Names, NEW x \in Things \ {Secret}, Put(place, x)
      PROVE  entry' \in [Dirs -> [Names -> Things]] /\ OutsideUntouched'
  BY <1>2, ConstantsOK DEF TreeInv, TypeOK, OutsideUntouched, At, Put, Dirs
<1> QED
  BY <1>1, <1>2

\* What a removal may touch only grows while it runs.
LEMMA OursGrows ==
  ASSUME TreeInv, Watched, entry' \in [Dirs -> [Names -> Things]]
  PROVE  /\ ours' \in [Workers -> SUBSET Dirs]
         /\ \A v \in Workers : Removing(v)' => ours[v] \subseteq ours'[v]
<1>1. \A v \in Workers : Grown(v) \in SUBSET Dirs /\ ours[v] \subseteq Grown(v)
  BY DEF TreeInv, TypeOK, Grown, Target0, Dirs
<1> QED
  BY <1>1 DEF Watched

\* Nobody's job is disturbed by what others do.
LEMMA OthersKept ==
  ASSUME TreeInv, Watched, entry' \in [Dirs -> [Names -> Things]], NEW v \in Workers,
         job'[v] = job[v], held'[v] = held[v]
  PROVE  JobOK(job'[v], held'[v], ours'[v])
<1>1. JobOK(job'[v], held'[v], ours[v])
  BY DEF TreeInv
<1>2. CASE Removing(v)'
  BY <1>1, <1>2, OursGrows, MoreIsOwn
<1>3. CASE ~Removing(v)'
  <2>1. job'[v].op # "remove" \/ job'[v].pc \in Ends
    BY <1>3 DEF Removing, Ended
  <2>2. CASE job'[v].op # "remove"
    BY <1>1, <2>2, MoreIsOwn
  <2>3. CASE job'[v].pc \in Ends
    BY <1>1, <2>3, EmptySeq DEF JobOK, Ends, CopySteps, RemoveSteps
  <2> QED
    BY <2>1, <2>2, <2>3
<1> QED
  BY <1>2, <1>3

LEMMA WorkerStep ==
  ASSUME TreeInv, Watched, NEW w \in Workers, NEW S, UNCHANGED moves, Disturbed(S),
         Keeps(w, ours[w]) \/ Keeps(w, ours'[w]),
         \/ UNCHANGED entry
         \/ \E place \in Inside \X Names, x \in Things \ {Secret} : Put(place, x)
  PROVE  TreeInv'
<1>1. entry' \in [Dirs -> [Names -> Things]] /\ OutsideUntouched'
  BY EntriesKept
<1>2. PICK j, h : /\ Becomes(w, j) /\ Hold(w, h)
                  /\ JobOK(j, h, ours[w]) \/ JobOK(j, h, ours'[w])
  BY DEF Keeps
<1>3. job \in [Workers -> Job] /\ held \in [Workers -> Nat] /\ moves \in 0..MaxMoves
      /\ alone \in [Workers -> BOOLEAN]
  BY DEF TreeInv, TypeOK
<1>4. j \in Job /\ h \in Nat
  BY <1>2 DEF JobOK
<1>5. job' \in [Workers -> Job] /\ held' \in [Workers -> Nat]
      /\ job'[w] = j /\ held'[w] = h
      /\ \A v \in Workers \ {w} : job'[v] = job[v] /\ held'[v] = held[v]
  BY <1>2, <1>3, <1>4 DEF Becomes, Hold
<1>6. JobOK(job'[w], held'[w], ours'[w])
  <2>1. CASE JobOK(j, h, ours'[w])
    BY <1>5, <2>1
  <2>2. CASE JobOK(j, h, ours[w])
    <3>1. CASE Removing(w)'
      BY <1>1, <1>5, <2>2, <3>1, OursGrows, MoreIsOwn
    <3>2. CASE ~Removing(w)'
      <4>1. j.op # "remove" \/ j.pc \in Ends
        BY <1>5, <3>2 DEF Removing, Ended
      <4>2. CASE j.op # "remove"
        BY <1>5, <2>2, <4>2, MoreIsOwn
      <4>3. CASE j.pc \in Ends
        BY <1>5, <2>2, <4>3, EmptySeq DEF JobOK, Ends, CopySteps, RemoveSteps
      <4> QED
        BY <4>1, <4>2, <4>3
    <3> QED
      BY <3>1, <3>2
  <2> QED
    BY <1>2, <2>1, <2>2
<1>7. \A v \in Workers : JobOK(job'[v], held'[v], ours'[v])
  BY <1>1, <1>5, <1>6, OthersKept
<1>8. alone' \in [Workers -> BOOLEAN]
  BY DEF Disturbed
<1>9. TypeOK'
  BY <1>1, <1>3, <1>5, <1>8, OursGrows DEF TypeOK
<1> QED
  BY <1>1, <1>7, <1>9 DEF TreeInv

\* What the shell does to the entries of the home
LEMMA ShellEntries ==
  ASSUME TreeInv, Shell
  PROVE  entry' \in [Dirs -> [Names -> Things]] /\ OutsideUntouched'
<1>1. ASSUME NEW p \in Places, Reachable(p), ShellPuts(p)
      PROVE  \E place \in Inside \X Names, x \in Things \ {Secret} : Put(place, x)
  <2>1. p \in Inside \X Names
    BY <1>1 DEF Reachable, Places
  <2>2. Nothing \in Things \ {Secret} /\ Links \cup {Mine, Pipe} \subseteq Things \ {Secret}
    BY KindsDiffer DEF Things, Files
  <2> QED
    BY <1>1, <2>1, <2>2 DEF ShellPuts
<1>2. ASSUME NEW p \in Places, NEW q \in Places, Reachable(p), Reachable(q), ShellMoves(p, q)
      PROVE  entry' \in [Dirs -> [Names -> Things]] /\ OutsideUntouched'
  <2>1. p \in Inside \X Names /\ q \in Inside \X Names /\ Nothing \in Things \ {Secret}
    BY <1>2, KindsDiffer DEF Reachable, Places, Things
  <2>2. At(p) \in Things \ {Secret}
    BY <2>1, HomeEntries
  <2>3. entry' = [d \in Dirs |-> [n \in Names |->
                    CASE <<d, n>> = p -> Nothing
                      [] <<d, n>> = q -> At(p)
                      [] OTHER -> entry[d][n]]]
    BY <1>2 DEF ShellMoves
  <2>4. \A d \in Dirs, n \in Names :
           /\ entry'[d][n] = Nothing \/ entry'[d][n] = At(p) \/ entry'[d][n] = entry[d][n]
           /\ d \notin Inside => entry'[d][n] = entry[d][n]
    BY <2>1, <2>3
  <2>5. \A d \in Dirs, n \in Names :
           entry[d][n] \in Things /\ (d \in Inside => entry[d][n] # Secret)
    <3>1. \A d \in Dirs, n \in Names : entry[d][n] \in Things
      BY DEF TreeInv, TypeOK
    <3>2. ASSUME NEW d \in Inside, NEW n \in Names PROVE entry[d][n] # Secret
      <4>1. <<d, n>> \in Inside \X Names
        OBVIOUS
      <4> QED
        BY <4>1 DEF TreeInv, OutsideUntouched, At
    <3> QED
      BY <3>1, <3>2
  <2>6. entry' \in [Dirs -> [Names -> Things]]
    BY <2>2, <2>3, <2>4, <2>5, <2>1
  <2>7. OutsideUntouched'
    BY <2>1, <2>2, <2>4, <2>5, ConstantsOK DEF OutsideUntouched, At, TreeInv, Dirs
  <2> QED
    BY <2>6, <2>7
<1> QED
  BY <1>1, <1>2, EntriesKept DEF Shell

LEMMA ShellStep ==
  ASSUME TreeInv, Shell, Watched, Disturbed({})
  PROVE  TreeInv'
<1>1. UNCHANGED <<job, held>> /\ moves < MaxMoves /\ moves' = moves + 1
  BY DEF Shell
<1>2. entry' \in [Dirs -> [Names -> Things]] /\ OutsideUntouched'
  BY ShellEntries
<1>3. \A v \in Workers : JobOK(job'[v], held'[v], ours'[v])
  BY <1>1, <1>2, OthersKept
<1>4. moves' \in 0..MaxMoves /\ alone' \in [Workers -> BOOLEAN]
  BY <1>1, ConstantsOK DEF TreeInv, TypeOK, Disturbed
<1>5. TypeOK'
  BY <1>1, <1>2, <1>4, OursGrows DEF TreeInv, TypeOK
<1> QED
  BY <1>2, <1>3, <1>5 DEF TreeInv

LEMMA NextTree == TreeInv /\ [Next]_vars => TreeInv'
<1> SUFFICES ASSUME TreeInv, [Next]_vars PROVE TreeInv'
  OBVIOUS
<1>1. ASSUME NEW w \in Workers, Begin(w), UNCHANGED moves, Disturbed({w}), Watched
      PROVE  TreeInv'
  BY <1>1, BeginKeeps, WorkerStep
<1>2. ASSUME NEW w \in Workers, Carry(w)
      PROVE  TreeInv'
  <2>1. Continue(w) /\ UNCHANGED moves /\ Disturbed({w}) /\ Watched
    BY <1>2 DEF Carry
  <2>2. (Keeps(w, ours[w]) \/ Keeps(w, ours'[w])) /\ Touches(w)
    BY <2>1, ContinueKeeps
  <2>3. \/ UNCHANGED entry
        \/ \E place \in Inside \X Names, x \in Things \ {Secret} : Put(place, x)
    BY <2>2 DEF Touches
  <2> QED
    BY <2>1, <2>2, <2>3, WorkerStep
<1>3. CASE Shell /\ Disturbed({}) /\ Watched
  BY <1>3, ShellStep
<1>4. ASSUME NEW w \in Workers, Feed(w), UNCHANGED moves, Disturbed({}), Watched
      PROVE  TreeInv'
  BY <1>4, FeedKeeps, WorkerStep DEF Touches
<1>5. CASE UNCHANGED vars
  BY <1>5 DEF vars, TreeInv, TypeOK, OutsideUntouched, At
<1> QED
  BY <1>1, <1>2, <1>3, <1>4, <1>5 DEF Next

\* Types, the untouched host and what each request holds stay true through
\* every step of requests and shell.
THEOREM TreeInvariant == Spec => []TreeInv
<1> QED
  BY InitTree, NextTree, PTL DEF Spec

---------------------------------------------------------------------------
(* A copy nobody disturbs.  What follows is about a tree E and the job j of *)
(* a copy, whose calls are counted from the outermost.                      *)

Depth(j) == Len(j.stack)
Calls(j) == 1..Depth(j)
Call(j, k) == j.stack[Depth(j) + 1 - k]
Inner(j) == Call(j, Depth(j))

Value(E, place) == E[place[1]][place[2]]
LinkedIn(E, d) == d \in {Home, Outside} \/ \E place \in Places : Value(E, place) = d
Grows(E, F) == \A place \in Places : Value(E, place) # Nothing => Value(F, place) = Value(E, place)

SrcOf(j) == IF Depth(j) = 0 THEN j.from ELSE <<Inner(j).src, j.item>>
DstOf(j) == IF Depth(j) = 0 THEN j.to ELSE <<Inner(j).dst, j.item>>

\* The innermost call is at an entry, or copy at its own.
AtEntry == {"opensrc", "mkdir", "chown", "opendst"}

\* The target of the entry has been made.
Begun(j) == \/ j.pc \in {"chown", "opendst"}
            \/ j.pc = "opensrc" /\ Depth(j) # 0

\* The source of the entry is open.
Halfway(j) == \/ j.pc = "opendst"
              \/ j.pc \in {"mkdir", "chown"} /\ Depth(j) = 0

CopyJob(j) ==
    /\ j.pc \in CopySteps /\ Depth(j) \in Nat
    /\ j.from \in Inside \X Names /\ j.to \in Inside \X Names
    /\ \A k \in Calls(j) : Call(j, k) \in Frame /\ Call(j, k).dst \in Inside
    /\ j.pc \in AtEntry /\ Depth(j) # 0 => j.item \in Names
    /\ j.pc \in {"list", "next"} => Depth(j) # 0

\* Each call works on what the entry it was reached by stands for, its list
\* says what its entries are, and the source that is open is the entry's.
Reached(E, j, k) ==
    LET f == Call(j, k) IN
    /\ f.src = IF k = 1 THEN Value(E, j.from) ELSE E[Call(j, k - 1).src][f.name]
    /\ f.dst = IF k = 1 THEN Value(E, j.to) ELSE E[Call(j, k - 1).dst][f.name]

ListedRight(E, f) ==
    \A e \in f.todo : E[f.src][e[1]] # Nothing /\ e[2] = Kind(E[f.src][e[1]])

Chained(E, j) ==
    /\ Value(E, j.from) \in Inside
    /\ \A k \in Calls(j) : Reached(E, j, k) /\ ListedRight(E, Call(j, k))
    /\ j.pc = "list" => Inner(j).todo = {}
    /\ j.pc \in AtEntry => Value(E, SrcOf(j)) \in Inside
    /\ Halfway(j) => j.half = Value(E, SrcOf(j))

\* A copy that goes into what it has made never comes to an end: its m-th
\* call copies what call m - c is making, which has an entry for what call
\* m - c + 1 is making, and so on.
DoomedAt(j, m, c) ==
    /\ Call(j, m).src = Call(j, m - c).dst
    /\ LET next == Call(j, m - c + 1).name IN
       \/ <<next, "dir">> \in Call(j, m).todo
       \/ m = Depth(j) /\ (j.pc = "list" \/ (j.pc \in AtEntry /\ j.item = next))

Doomed(j) == \E m, c \in Calls(j) : c < m /\ DoomedAt(j, m, c)

\* Under this name x and y have the same, or a directory and its copy.
Same(E, R, x, y, n) ==
    \/ E[x][n] = E[y][n] /\ E[x][n] \notin Inside
    \/ <<E[x][n], E[y][n]>> \in R

Making(j) == {Call(j, k).dst : k \in Calls(j)}

\* R pairs directories with copies of them that are finished.
Finished(E, j, R) ==
    /\ Depth(j) = 0 => R = {}
    /\ \A x, y \in Inside : <<x, y>> \in R =>
          /\ LinkedIn(E, x) /\ LinkedIn(E, y)
          /\ x \notin Making(j) /\ y \notin Making(j)
          /\ \A n \in Names : Same(E, R, x, y, n)

\* No call copies what is being made, and each makes its own.
Apart(j) ==
    \A k, l \in Calls(j) : /\ Call(j, k).src # Call(j, l).dst
                           /\ k # l => Call(j, k).dst # Call(j, l).dst

Waiting(j, k, n) == \/ \E e \in Call(j, k).todo : e[1] = n
                    \/ k = Depth(j) /\ j.pc = "list"

UnderWay(j, k, n) == \/ k < Depth(j) /\ n = Call(j, k + 1).name
                     \/ k = Depth(j) /\ j.pc \in AtEntry /\ n = j.item

\* What a call makes has nothing yet of what its list has, and the rest.
Progress(E, j, R, k) ==
    \A n \in Names :
       IF Waiting(j, k, n) THEN E[Call(j, k).dst][n] = Nothing /\ ~UnderWay(j, k, n)
       ELSE UnderWay(j, k, n) \/ Same(E, R, Call(j, k).src, Call(j, k).dst, n)

\* What was made for the entry is new.
Fresh(E, j, R) ==
    LET d == Value(E, DstOf(j)) IN
    IF ~Begun(j) THEN d = Nothing
    ELSE /\ d \in Inside /\ d # Value(E, SrcOf(j))
         /\ \A k \in Calls(j) : d # Call(j, k).src /\ d # Call(j, k).dst
         /\ \A x \in Inside : <<x, d>> \notin R /\ <<d, x>> \notin R
         /\ \A n \in Names : E[d][n] = Nothing

Sound(E, j, R) ==
    /\ Finished(E, j, R)
    /\ Apart(j)
    /\ \A k \in Calls(j) : Progress(E, j, R, k)
    /\ j.pc \in AtEntry => Fresh(E, j, R)

Pairings == SUBSET (Inside \X Inside)

UnderControl(E, j) == Chained(E, j) /\ (Doomed(j) \/ \E R \in Pairings : Sound(E, j, R))

\* Two trees are alike when a pairing of their directories says so.
Matched(E, x, y) ==
    \E R \in Pairings :
       /\ <<x, y>> \in R
       /\ \A s, d \in Inside : <<s, d>> \in R => \A n \in Names : Same(E, R, s, d, n)

---------------------------------------------------------------------------
(* Calls.                                                                   *)

Trees == [Dirs -> [Names -> Things]]

LEMMA CopyJobOK ==
  ASSUME NEW j, NEW h, NEW own, JobOK(j, h, own), j.op = "copy", j.pc \in CopySteps
  PROVE  CopyJob(j)
<1>1. j.stack \in Seq(Good("copy", own)) /\ Len(j.stack) \in Nat
  BY LenProperties DEF JobOK
<1>2. ASSUME NEW k \in Calls(j) PROVE Call(j, k) \in Good("copy", own)
  <2>1. Depth(j) + 1 - k \in 1..Len(j.stack)
    BY <1>1, <1>2 DEF Calls, Depth
  <2> QED
    BY <1>1, <2>1, ElementOfSeq DEF Call
<1>3. \A k \in Calls(j) : Call(j, k) \in Frame /\ Call(j, k).dst \in Inside
  BY <1>2 DEF Good
<1>4. Depth(j) = 0 <=> j.stack = <<>>
  BY <1>1, EmptySeq DEF Depth
<1> QED
  BY <1>1, <1>3, <1>4 DEF CopyJob, JobOK, Depth, AtEntry, CopySteps, RemoveSteps

\* Places a copy is at
LEMMA CopyPlaces ==
  ASSUME NEW j, CopyJob(j), j.pc \in AtEntry
  PROVE  /\ SrcOf(j) \in Inside \X Names /\ DstOf(j) \in Inside \X Names
         /\ SrcOf(j) \in Places /\ DstOf(j) \in Places
<1>1. SrcOf(j) \in Inside \X Names /\ DstOf(j) \in Inside \X Names
  <2>1. CASE Depth(j) = 0
    BY <2>1 DEF CopyJob, SrcOf, DstOf
  <2>2. CASE Depth(j) # 0
    <3>1. Depth(j) \in Calls(j)
      BY <2>2 DEF CopyJob, Calls
    <3>2. Inner(j) \in Frame /\ Inner(j).dst \in Inside /\ j.item \in Names
      BY <2>2, <3>1 DEF CopyJob, Inner
    <3>3. Inner(j).src \in Inside
      BY <3>2 DEF Frame
    <3> QED
      BY <2>2, <3>2, <3>3 DEF SrcOf, DstOf
  <2> QED
    BY <2>1, <2>2
<1> QED
  BY <1>1 DEF Places, Dirs

\* A call is in directories of the home, which are linked.
LEMMA CallFacts ==
  ASSUME NEW E \in Trees, NEW j, CopyJob(j), Chained(E, j), NEW k \in Calls(j)
  PROVE  /\ Call(j, k).src \in Inside /\ Call(j, k).dst \in Inside
         /\ Call(j, k).name \in Names
         /\ LinkedIn(E, Call(j, k).src) /\ LinkedIn(E, Call(j, k).dst)
         /\ k # 1 => k - 1 \in Calls(j)
<1>1. /\ Call(j, k).src \in Inside /\ Call(j, k).dst \in Inside /\ Call(j, k).name \in Names
  BY DEF CopyJob, Frame
<1>2. k # 1 => k - 1 \in Calls(j)
  BY DEF CopyJob, Calls
<1>3. CASE k = 1
  <2>1. j.from \in Places /\ j.to \in Places
    BY DEF CopyJob, Places, Dirs
  <2>2. Call(j, k).src = Value(E, j.from) /\ Call(j, k).dst = Value(E, j.to)
    BY <1>3 DEF Chained, Reached
  <2> QED
    BY <1>1, <1>2, <2>1, <2>2 DEF LinkedIn
<1>4. CASE k # 1
  <2>1. Call(j, k - 1).src \in Inside /\ Call(j, k - 1).dst \in Inside
    BY <1>2, <1>4 DEF CopyJob, Frame
  <2>2. <<Call(j, k - 1).src, Call(j, k).name>> \in Places
        /\ <<Call(j, k - 1).dst, Call(j, k).name>> \in Places
    BY <1>1, <2>1 DEF Places, Dirs
  <2>3. /\ Call(j, k).src = Value(E, <<Call(j, k - 1).src, Call(j, k).name>>)
        /\ Call(j, k).dst = Value(E, <<Call(j, k - 1).dst, Call(j, k).name>>)
    BY <1>4 DEF Chained, Reached, Value
  <2> QED
    BY <1>1, <1>2, <2>2, <2>3 DEF LinkedIn
<1> QED
  BY <1>3, <1>4

\* The calls of a job are those of another, but for the list of the innermost.
Alikened(j, i, todo) ==
    /\ Depth(i) = Depth(j) /\ i.from = j.from /\ i.to = j.to
    /\ \A k \in Calls(j) :
          /\ Call(i, k).src = Call(j, k).src /\ Call(i, k).dst = Call(j, k).dst
          /\ Call(i, k).name = Call(j, k).name
          /\ k # Depth(j) => Call(i, k).todo = Call(j, k).todo
    /\ Depth(j) # 0 => Inner(i).todo = todo

LEMMA ListOnly ==
  ASSUME NEW w, job[w].stack \in Seq(Frame), job[w].stack # <<>>,
         NEW todo, NEW i, i.stack = Left(w, todo), i.from = job[w].from, i.to = job[w].to
  PROVE  Alikened(job[w], i, todo) /\ Inner(job[w]) = Top(w) /\ Depth(job[w]) \in Nat \ {0}
<1> DEFINE s == job[w].stack
           f == [Top(w) EXCEPT !.todo = todo]
           N == Len(s)
<1>1. N \in Nat /\ N # 0 /\ Tail(s) \in Seq(Frame) /\ Len(Tail(s)) = N - 1
      /\ Head(s) \in Frame /\ Head(s) = s[1]
      /\ \A k \in 1..(N - 1) : Tail(s)[k] = s[k + 1]
  BY HeadTailProperties, LenProperties, EmptySeq
<1>2. i.stack = <<f>> \o Tail(s) /\ f = [Head(s) EXCEPT !.todo = todo]
  BY DEF Left, Top
<1>3. f.src = Head(s).src /\ f.dst = Head(s).dst /\ f.name = Head(s).name /\ f.todo = todo
  BY <1>1, <1>2 DEF Frame
<1> HIDE DEF f
<1>4. Len(i.stack) = N /\ i.stack[1] = f
      /\ \A k \in 2..N : i.stack[k] = Tail(s)[k - 1]
  BY <1>1, <1>2
<1>5. \A k \in 2..N : i.stack[k] = s[k]
  <2> TAKE k \in 2..N
  <2>1. k - 1 \in 1..(N - 1) /\ (k - 1) + 1 = k
    BY <1>1
  <2> QED
    BY <1>1, <1>4, <2>1
<1>6. Depth(i) = N /\ Depth(job[w]) = N
  BY <1>4 DEF Depth
<1>7. ASSUME NEW k \in 1..N
      PROVE  /\ Call(i, k).src = Call(job[w], k).src /\ Call(i, k).dst = Call(job[w], k).dst
             /\ Call(i, k).name = Call(job[w], k).name
             /\ k # N => Call(i, k).todo = Call(job[w], k).todo
  <2>1. Call(i, k) = i.stack[N + 1 - k] /\ Call(job[w], k) = s[N + 1 - k]
    BY <1>6 DEF Call
  <2>2. CASE k = N
    BY <1>1, <1>3, <1>4, <2>1, <2>2
  <2>3. CASE k # N
    <3>1. N + 1 - k \in 2..N
      BY <1>1, <2>3
    <3> QED
      BY <1>5, <2>1, <2>3, <3>1
  <2> QED
    BY <2>2, <2>3
<1>8. Inner(i) = f /\ Inner(job[w]) = Head(s)
  <2>1. N + 1 - N = 1
    BY <1>1
  <2> QED
    BY <1>1, <1>4, <1>6, <2>1 DEF Inner, Call
<1> QED
  BY <1>1, <1>3, <1>6, <1>7, <1>8 DEF Alikened, Calls, Top

LEMMA CallBegins ==
  ASSUME NEW j, j.stack \in Seq(Frame), NEW f \in Frame, NEW i, i.stack = <<f>> \o j.stack
  PROVE  /\ Depth(j) \in Nat /\ Depth(i) = Depth(j) + 1 /\ Call(i, Depth(j) + 1) = f
         /\ \A k \in Calls(j) : Call(i, k) = Call(j, k)
<1> DEFINE N == Len(j.stack)
<1>1. N \in Nat /\ Len(i.stack) = N + 1 /\ i.stack[1] = f
      /\ \A k \in 1..N : i.stack[k + 1] = j.stack[k]
  BY LenProperties
<1>2. Depth(j) = N /\ Depth(i) = N + 1
  BY <1>1 DEF Depth
<1>3. Call(i, N + 1) = f
  <2>1. (N + 1) + 1 - (N + 1) = 1
    BY <1>1
  <2> QED
    BY <1>1, <1>2, <2>1 DEF Call
<1>4. ASSUME NEW k \in 1..N PROVE Call(i, k) = Call(j, k)
  <2>1. N + 1 - k \in 1..N /\ (N + 1) + 1 - k = (N + 1 - k) + 1
    BY <1>1
  <2> QED
    BY <1>1, <1>2, <2>1 DEF Call
<1> QED
  BY <1>1, <1>2, <1>3, <1>4 DEF Calls

LEMMA CallReturns ==
  ASSUME NEW j, j.stack \in Seq(Frame), j.stack # <<>>, NEW i, i.stack = Tail(j.stack)
  PROVE  /\ Depth(j) \in Nat \ {0} /\ Depth(i) = Depth(j) - 1
         /\ \A k \in Calls(i) : Call(i, k) = Call(j, k)
         /\ Inner(j) = Head(j.stack)
<1> DEFINE N == Len(j.stack)
<1>1. N \in Nat /\ N # 0 /\ Len(i.stack) = N - 1
      /\ \A k \in 1..(N - 1) : i.stack[k] = j.stack[k + 1]
      /\ Head(j.stack) = j.stack[1]
  BY LenProperties, HeadTailProperties, EmptySeq
<1>2. Depth(j) = N /\ Depth(i) = N - 1
  BY <1>1 DEF Depth
<1>3. ASSUME NEW k \in 1..(N - 1) PROVE Call(i, k) = Call(j, k)
  <2>1. (N - 1) + 1 - k \in 1..(N - 1) /\ N + 1 - k = ((N - 1) + 1 - k) + 1
    BY <1>1
  <2> QED
    BY <1>1, <1>2, <2>1 DEF Call
<1>4. N + 1 - N = 1
  BY <1>1
<1> QED
  BY <1>1, <1>2, <1>3, <1>4 DEF Calls, Inner, Call

---------------------------------------------------------------------------
(* What a step leaves as it was.                                            *)

LEMMA StillLinked ==
  ASSUME NEW E, NEW F, Grows(E, F), NEW d, d # Nothing, LinkedIn(E, d)
  PROVE  LinkedIn(F, d)
BY DEF Grows, LinkedIn

\* Entries that are there stay as they are, so calls are reached as before.
LEMMA ChainGrows ==
  ASSUME NEW E \in Trees, NEW F \in Trees, Grows(E, F), NEW j, CopyJob(j), Chained(E, j)
  PROVE  Chained(F, j)
<1>1. \A d \in Inside : d # Nothing
  BY KindsDiffer DEF Dirs
<1>2. \A d \in Inside, n \in Names :
         E[d][n] # Nothing => F[d][n] = E[d][n]
  <2> TAKE d \in Inside, n \in Names
  <2>1. <<d, n>> \in Places
    BY DEF Places, Dirs
  <2> QED
    BY <2>1 DEF Grows, Value
<1>3. Value(F, j.from) = Value(E, j.from)
  BY <1>1 DEF Chained, Grows, CopyJob, Places, Dirs
<1>4. ASSUME NEW k \in Calls(j) PROVE Reached(F, j, k)
  <2>1. Call(j, k).src \in Inside /\ Call(j, k).dst \in Inside /\ Call(j, k).name \in Names
        /\ (k # 1 => k - 1 \in Calls(j))
    BY CallFacts
  <2>2. Reached(E, j, k)
    BY DEF Chained
  <2>3. CASE k = 1
    <3>1. j.to \in Places
      BY DEF CopyJob, Places, Dirs
    <3> QED
      BY <1>1, <1>3, <2>1, <2>2, <2>3, <3>1 DEF Reached, Grows
  <2>4. CASE k # 1
    <3>1. Call(j, k - 1).src \in Inside /\ Call(j, k - 1).dst \in Inside
      BY <2>1, <2>4, CallFacts
    <3> QED
      BY <1>1, <1>2, <2>1, <2>2, <2>4, <3>1 DEF Reached
  <2> QED
    BY <2>3, <2>4
<1>5. ASSUME NEW k \in Calls(j) PROVE ListedRight(F, Call(j, k))
  <2>1. Call(j, k) \in Frame /\ ListedRight(E, Call(j, k))
    BY DEF CopyJob, Chained
  <2>2. ASSUME NEW e \in Call(j, k).todo PROVE e[1] \in Names
    BY <2>1, <2>2 DEF Frame
  <2> QED
    BY <1>2, <2>1, <2>2 DEF ListedRight, Frame
<1>6. j.pc \in AtEntry => Value(F, SrcOf(j)) = Value(E, SrcOf(j))
  BY <1>1, CopyPlaces DEF Chained, Grows
<1>7. Halfway(j) => j.pc \in AtEntry
  BY DEF Halfway, AtEntry
<1> QED
  BY <1>3, <1>4, <1>5, <1>6, <1>7 DEF Chained

---------------------------------------------------------------------------
(* The steps of a copy.                                                     *)

SameCalls(j, i) ==
    /\ Depth(i) = Depth(j) /\ i.from = j.from /\ i.to = j.to /\ i.item = j.item
    /\ \A k \in Calls(j) : Call(i, k) = Call(j, k)

\* The calls go on where they are.
LEMMA SameChain ==
  ASSUME NEW E \in Trees, NEW j, CopyJob(j), NEW i, SameCalls(j, i),
         j.pc \in AtEntry, i.pc \in AtEntry
  PROVE  /\ SrcOf(i) = SrcOf(j) /\ DstOf(i) = DstOf(j) /\ Calls(i) = Calls(j)
         /\ \A k \in Calls(j) : /\ Call(i, k) = Call(j, k)
                                /\ k # 1 => k - 1 \in Calls(j)
                                /\ k < Depth(j) => k + 1 \in Calls(j)
         /\ Chained(E, j) /\ (Halfway(i) => i.half = Value(E, SrcOf(j))) => Chained(E, i)
         /\ Doomed(j) => Doomed(i)
<1>1. SrcOf(i) = SrcOf(j) /\ DstOf(i) = DstOf(j) /\ Calls(i) = Calls(j)
  <2>1. Depth(j) # 0 => Depth(j) \in Calls(j)
    BY DEF CopyJob, Calls
  <2> QED
    BY <2>1 DEF SameCalls, SrcOf, DstOf, Inner, Calls
<1>2. \A k \in Calls(j) : /\ Call(i, k) = Call(j, k)
                          /\ k # 1 => k - 1 \in Calls(j)
                          /\ k < Depth(j) => k + 1 \in Calls(j)
  BY DEF SameCalls, CopyJob, Calls
<1>3. ASSUME Chained(E, j), Halfway(i) => i.half = Value(E, SrcOf(j))
      PROVE  Chained(E, i)
  <2>1. i.pc # "list"
    BY DEF AtEntry
  <2>2. ASSUME NEW k \in Calls(j) PROVE Reached(E, i, k) /\ ListedRight(E, Call(i, k))
    BY <1>2, <1>3 DEF Chained, Reached, SameCalls
  <2> QED
    BY <1>1, <1>3, <2>1, <2>2 DEF Chained, SameCalls
<1>4. ASSUME Doomed(j) PROVE Doomed(i)
  <2>1. PICK m \in Calls(j), c \in Calls(j) : c < m /\ DoomedAt(j, m, c)
    BY <1>4 DEF Doomed
  <2>2. m - c \in Calls(j) /\ m - c + 1 \in Calls(j)
    BY <2>1 DEF Calls, CopyJob
  <2>3. DoomedAt(i, m, c)
    BY <1>2, <2>1, <2>2 DEF DoomedAt, SameCalls, AtEntry
  <2> QED
    BY <1>1, <2>1, <2>3 DEF Doomed
<1> QED
  BY <1>1, <1>2, <1>3, <1>4

\* The step from one system call at an entry to the next, in a tree that stays
LEMMA MovesOn ==
  ASSUME NEW E \in Trees, NEW j, CopyJob(j), UnderControl(E, j),
         NEW i, SameCalls(j, i), j.pc \in AtEntry, i.pc \in AtEntry,
         Halfway(i) => i.half = Value(E, SrcOf(j)),
         \/ Begun(i) <=> Begun(j)
         \/ ~Begun(j) /\ Value(E, DstOf(j)) # Nothing
  PROVE  UnderControl(E, i)
<1>1. SrcOf(i) = SrcOf(j) /\ DstOf(i) = DstOf(j) /\ Calls(i) = Calls(j)
  BY SameChain
<1>2. \A k \in Calls(j) : /\ Call(i, k) = Call(j, k)
                          /\ k # 1 => k - 1 \in Calls(j)
                          /\ k < Depth(j) => k + 1 \in Calls(j)
  BY SameChain
<1>3. Chained(E, i) /\ (Doomed(j) => Doomed(i))
  BY SameChain DEF UnderControl
<1>5. ASSUME NEW R \in Pairings, Sound(E, j, R) PROVE Sound(E, i, R)
  <2>1. Begun(i) <=> Begun(j)
    BY <1>5 DEF Sound, Fresh
  <2>2. Finished(E, i, R)
    <3>1. Making(i) = Making(j)
      BY <1>1, <1>2 DEF Making
    <3> QED
      BY <1>5, <3>1 DEF Sound, Finished, SameCalls
  <2>3. Apart(i)
    BY <1>1, <1>2, <1>5 DEF Sound, Apart
  <2>4. ASSUME NEW k \in Calls(i) PROVE Progress(E, i, R, k)
    <3>1. k \in Calls(j) /\ Progress(E, j, R, k)
      BY <1>1, <1>5, <2>4 DEF Sound
    <3>2. ASSUME NEW n PROVE (Waiting(i, k, n) <=> Waiting(j, k, n))
                             /\ (UnderWay(i, k, n) <=> UnderWay(j, k, n))
      BY <1>2, <3>1 DEF Waiting, UnderWay, SameCalls, AtEntry
    <3> QED
      BY <1>2, <3>1, <3>2 DEF Progress
  <2>5. Fresh(E, i, R)
    BY <1>1, <1>2, <1>5, <2>1 DEF Sound, Fresh
  <2> QED
    BY <2>2, <2>3, <2>4, <2>5 DEF Sound
<1> QED
  BY <1>3, <1>5 DEF UnderControl

\* A directory is made for the entry.
LEMMA MakesDir ==
  ASSUME NEW E \in Trees, NEW F \in Trees, NEW j, CopyJob(j), UnderControl(E, j),
         NEW i, SameCalls(j, i), j.pc = "mkdir", i.pc = "chown", i.half = j.half,
         NEW d \in Inside, ~LinkedIn(E, d), \A n \in Names : E[d][n] = Nothing,
         LinkedIn(E, DstOf(j)[1]), Value(E, DstOf(j)) = Nothing,
         \A k \in Calls(j) : d # Call(j, k).src /\ d # Call(j, k).dst,
         F = [E EXCEPT ![DstOf(j)[1]][DstOf(j)[2]] = d]
  PROVE  UnderControl(F, i)
<1> DEFINE p == DstOf(j)
<1>0. p \in Inside \X Names /\ SrcOf(j) \in Inside \X Names /\ SrcOf(j) \in Places /\ p \in Places
      /\ j.pc \in AtEntry /\ i.pc \in AtEntry /\ ~Begun(j) /\ Begun(i)
  BY CopyPlaces DEF AtEntry, Begun
<1>00. Inside \subseteq Dirs /\ Nothing \notin Inside
  BY KindsDiffer DEF Dirs
<1>1. SrcOf(i) = SrcOf(j) /\ DstOf(i) = DstOf(j) /\ Calls(i) = Calls(j)
  BY <1>0, SameChain
<1>2. \A k \in Calls(j) : /\ Call(i, k) = Call(j, k)
                          /\ k # 1 => k - 1 \in Calls(j)
                          /\ k < Depth(j) => k + 1 \in Calls(j)
  BY <1>0, SameChain
<1>3. /\ \A c \in Inside : c # p[1] => F[c] = E[c]
      /\ \A n \in Names : n # p[2] => F[p[1]][n] = E[p[1]][n]
      /\ F[p[1]][p[2]] = d
  BY <1>0, <1>00 DEF Trees
<1>4. Grows(E, F)
  BY <1>0, <1>3 DEF Grows, Value, Places, Trees
<1>5. Chained(E, j) /\ Chained(F, j)
  BY <1>4, ChainGrows DEF UnderControl
<1>6. Chained(F, i) /\ (Doomed(j) => Doomed(i))
  <2>1. Halfway(i) => i.half = Value(F, SrcOf(j))
    BY <1>5 DEF Chained, Halfway, SameCalls
  <2> QED
    BY <1>0, <1>5, <2>1, SameChain
<1>8. ASSUME NEW R \in Pairings, Sound(E, j, R) PROVE Sound(F, i, R)
  <2>1. Making(i) = Making(j) /\ (Depth(j) # 0 => p[1] \in Making(j) /\ p[2] = j.item)
    <3>1. Depth(j) # 0 => Depth(j) \in Calls(j)
      BY DEF CopyJob, Calls
    <3> QED
      BY <1>1, <1>2, <3>1 DEF Making, DstOf, Inner
  <2>2. Finished(F, i, R)
    <3>1. ASSUME NEW x \in Inside, NEW y \in Inside, <<x, y>> \in R
          PROVE  /\ LinkedIn(F, x) /\ LinkedIn(F, y)
                 /\ x \notin Making(i) /\ y \notin Making(i)
                 /\ \A n \in Names : Same(F, R, x, y, n)
      <4>1. /\ LinkedIn(E, x) /\ LinkedIn(E, y)
            /\ x \notin Making(j) /\ y \notin Making(j)
            /\ \A n \in Names : Same(E, R, x, y, n)
        BY <1>8, <3>1 DEF Sound, Finished
      <4>2. LinkedIn(F, x) /\ LinkedIn(F, y)
        BY <1>00, <1>4, <4>1, StillLinked
      <4>3. Depth(j) # 0
        BY <1>8, <3>1 DEF Sound, Finished
      <4>4. F[x] = E[x] /\ F[y] = E[y]
        BY <1>3, <2>1, <4>1, <4>3
      <4> QED
        BY <2>1, <4>1, <4>2, <4>4 DEF Same
    <3> QED
      BY <1>8, <3>1 DEF Sound, Finished, SameCalls
  <2>3. Apart(i) /\ Apart(j)
    BY <1>1, <1>2, <1>8 DEF Sound, Apart
  <2>4. ASSUME NEW k \in Calls(i) PROVE Progress(F, i, R, k)
    <3> DEFINE f == Call(j, k)
    <3>1. k \in Calls(j) /\ Progress(E, j, R, k) /\ Call(i, k) = f
          /\ f.src \in Inside /\ f.dst \in Inside
      BY <1>1, <1>2, <1>5, <1>8, <2>4, CallFacts DEF Sound
    <3>0. Depth(j) # 0 /\ Depth(j) \in Calls(j)
      BY <3>1 DEF CopyJob, Calls
    <3>2. ASSUME NEW n PROVE (Waiting(i, k, n) <=> Waiting(j, k, n))
                             /\ (UnderWay(i, k, n) <=> UnderWay(j, k, n))
      BY <1>2, <3>1 DEF Waiting, UnderWay, SameCalls, AtEntry
    <3>3. p[1] = Call(j, Depth(j)).dst /\ p[2] = j.item
      BY <3>0 DEF DstOf, Inner
    <3>4. F[f.src] = E[f.src]
      BY <1>3, <2>3, <3>0, <3>1, <3>3 DEF Apart
    <3>5. k # Depth(j) => F[f.dst] = E[f.dst]
      BY <1>3, <2>3, <3>0, <3>1, <3>3 DEF Apart
    <3>6. ASSUME NEW n \in Names
          PROVE  IF Waiting(i, k, n) THEN F[f.dst][n] = Nothing /\ ~UnderWay(i, k, n)
                 ELSE UnderWay(i, k, n) \/ Same(F, R, f.src, f.dst, n)
      <4>1. IF Waiting(j, k, n) THEN E[f.dst][n] = Nothing /\ ~UnderWay(j, k, n)
            ELSE UnderWay(j, k, n) \/ Same(E, R, f.src, f.dst, n)
        BY <3>1 DEF Progress
      <4>2. CASE UnderWay(j, k, n)
        BY <3>2, <4>1, <4>2
      <4>3. CASE ~UnderWay(j, k, n)
        <5>1. k = Depth(j) => n # p[2]
          BY <1>0, <3>3, <4>3 DEF UnderWay
        <5>2. F[f.dst][n] = E[f.dst][n]
          BY <1>3, <3>1, <3>3, <3>5, <5>1
        <5> QED
          BY <3>2, <3>4, <4>1, <4>3, <5>2 DEF Same
      <4> QED
        BY <4>2, <4>3
    <3> QED
      BY <3>1, <3>6 DEF Progress
  <2>5. Fresh(F, i, R)
    <3>1. Value(F, DstOf(i)) = d
      BY <1>1, <1>3 DEF Value
    <3>2. d # Value(F, SrcOf(i))
      <4>1. Value(E, SrcOf(j)) \in Inside /\ Value(F, SrcOf(j)) = Value(E, SrcOf(j))
        BY <1>0, <1>00, <1>4, <1>5 DEF Chained, Grows
      <4> QED
        BY <1>0, <1>1, <4>1 DEF LinkedIn
    <3>3. ASSUME NEW x \in Inside PROVE <<x, d>> \notin R /\ <<d, x>> \notin R
      BY <1>8 DEF Sound, Finished
    <3>4. \A n \in Names : F[d][n] = Nothing
      <4>1. d # p[1]
        OBVIOUS
      <4> QED
        BY <1>3, <4>1
    <3>5. \A k \in Calls(i) : d # Call(i, k).src /\ d # Call(i, k).dst
      BY <1>1, <1>2
    <3> QED
      BY <1>0, <3>1, <3>2, <3>3, <3>4, <3>5 DEF Fresh
  <2> QED
    BY <2>2, <2>3, <2>4, <2>5 DEF Sound
<1> QED
  BY <1>6, <1>8 DEF UnderControl

\* A call begins.
LEMMA GoesInto ==
  ASSUME NEW E \in Trees, NEW j, CopyJob(j), UnderControl(E, j), j.pc = "opendst",
         NEW i, i.pc = "list", i.from = j.from, i.to = j.to,
         Depth(i) = Depth(j) + 1, \A k \in Calls(j) : Call(i, k) = Call(j, k),
         NEW f, f.src = j.half, f.dst = Value(E, DstOf(j)), f.name = DstOf(j)[2], f.todo = {},
         f.dst \in Inside, Call(i, Depth(j) + 1) = f
  PROVE  UnderControl(E, i)
<1> DEFINE N == Depth(j)
<1>0. /\ N \in Nat /\ Calls(j) = 1..N /\ Calls(i) = Calls(j) \cup {N + 1}
      /\ Halfway(j) /\ Begun(j) /\ j.pc \in AtEntry /\ i.pc \notin AtEntry /\ ~Halfway(i)
      /\ N + 1 \notin Calls(j) /\ Depth(i) = N + 1 /\ Inner(i) = f /\ j.pc # "list"
  BY DEF CopyJob, Calls, Halfway, Begun, AtEntry, Inner
<1>1. Chained(E, j) /\ f.src = Value(E, SrcOf(j)) /\ f.src \in Inside
  BY <1>0 DEF UnderControl, Chained
<1>2. N # 0 => /\ N \in Calls(j) /\ f.name = j.item
               /\ f.src = E[Call(j, N).src][f.name] /\ f.dst = E[Call(j, N).dst][f.name]
  BY <1>0, <1>1 DEF SrcOf, DstOf, Inner, Value
<1>3. Chained(E, i)
  <2>1. ASSUME NEW k \in Calls(j) PROVE Reached(E, i, k) /\ ListedRight(E, Call(i, k))
    <3>1. Reached(E, j, k) /\ ListedRight(E, Call(j, k)) /\ (k # 1 => k - 1 \in Calls(j))
      BY <1>1, <2>1, CallFacts DEF Chained
    <3> QED
      BY <2>1, <3>1 DEF Reached
  <2>2. ListedRight(E, f)
    BY DEF ListedRight
  <2>3. Reached(E, i, N + 1)
    <3>1. CASE N = 0
      BY <1>0, <1>1, <3>1 DEF Reached, SrcOf, DstOf
    <3>2. CASE N # 0
      <4>1. (N + 1) - 1 = N /\ N + 1 # 1 /\ Call(i, N) = Call(j, N)
        BY <1>0, <1>2, <3>2
      <4> QED
        BY <1>2, <3>2, <4>1 DEF Reached
    <3> QED
      BY <3>1, <3>2
  <2> QED
    BY <1>0, <1>1, <2>1, <2>2, <2>3 DEF Chained
<1>4. ASSUME Doomed(j) PROVE Doomed(i)
  <2>1. PICK m \in Calls(j), c \in Calls(j) : c < m /\ DoomedAt(j, m, c)
    BY <1>4 DEF Doomed
  <2>2. /\ m \in 1..N /\ c \in 1..N /\ c < m
        /\ m - c \in Calls(j) /\ m - c + 1 \in Calls(j) /\ m - c + 1 # 1
        /\ m + 1 - c = m - c + 1 /\ (m - c + 1) - 1 = m - c
        /\ Call(j, m).src = Call(j, m - c).dst
    BY <1>0, <2>1 DEF DoomedAt
  <2> DEFINE next == Call(j, m - c + 1).name
  <2>3. CASE <<next, "dir">> \in Call(j, m).todo
    <3>1. DoomedAt(i, m, c)
      BY <2>2, <2>3 DEF DoomedAt
    <3> QED
      BY <1>0, <2>1, <3>1 DEF Doomed
  <2>4. CASE m = N /\ j.item = next
    <3>1. Reached(E, j, m - c + 1)
      BY <1>1, <2>2 DEF Chained
    <3>2. Call(j, m - c + 1).dst = E[Call(j, m - c).dst][next]
      BY <2>2, <3>1 DEF Reached
    <3>3. f.src = E[Call(j, m).src][next] /\ f.name = next
      BY <1>2, <2>2, <2>4
    <3>4. f.src = Call(j, m - c + 1).dst
      BY <2>2, <3>2, <3>3
    <3>5. Call(i, m + 1).src = Call(i, m + 1 - c).dst
      BY <2>2, <2>4, <3>4
    <3>6. DoomedAt(i, m + 1, c)
      BY <1>0, <2>4, <3>5 DEF DoomedAt
    <3>7. m + 1 \in Calls(i) /\ c \in Calls(i) /\ c < m + 1
      BY <1>0, <2>2, <2>4
    <3> QED
      BY <3>6, <3>7 DEF Doomed
  <2> QED
    BY <1>0, <2>1, <2>3, <2>4 DEF DoomedAt
<1>5. ASSUME NEW R \in Pairings, Sound(E, j, R), f.src \in Making(j) PROVE Doomed(i)
  <2>1. PICK l \in Calls(j) : f.src = Call(j, l).dst
    BY <1>5 DEF Making
  <2> DEFINE c == (N + 1) - l
  <2>2. l \in 1..N /\ c \in Calls(i) /\ c < N + 1 /\ (N + 1) - c = l
    <3>1. N \in Nat /\ l \in 1..N
      BY <1>0, <2>1
    <3>2. c \in 1..N /\ c < N + 1 /\ (N + 1) - c = l
      BY <3>1
    <3> HIDE DEF c
    <3> QED
      BY <1>0, <3>1, <3>2
  <2>3. Call(i, N + 1).src = Call(i, (N + 1) - c).dst
    BY <2>1, <2>2
  <2>4. DoomedAt(i, N + 1, c)
    BY <1>0, <2>3 DEF DoomedAt
  <2>5. N + 1 \in Calls(i)
    BY <1>0
  <2> QED
    BY <2>2, <2>4, <2>5 DEF Doomed
<1>6. ASSUME NEW R \in Pairings, Sound(E, j, R), f.src \notin Making(j) PROVE Sound(E, i, R)
  <2>1. /\ f.dst # f.src
        /\ \A k \in Calls(j) : f.dst # Call(j, k).src /\ f.dst # Call(j, k).dst
        /\ \A x \in Inside : <<x, f.dst>> \notin R /\ <<f.dst, x>> \notin R
        /\ \A n \in Names : E[f.dst][n] = Nothing
    BY <1>0, <1>1, <1>6 DEF Sound, Fresh
  <2>2. Making(i) = Making(j) \cup {f.dst}
    BY <1>0 DEF Making
  <2>3. Finished(E, i, R)
    <3>1. ASSUME NEW x \in Inside, NEW y \in Inside, <<x, y>> \in R
          PROVE  /\ LinkedIn(E, x) /\ LinkedIn(E, y)
                 /\ x \notin Making(i) /\ y \notin Making(i)
                 /\ \A n \in Names : Same(E, R, x, y, n)
      <4>1. /\ LinkedIn(E, x) /\ LinkedIn(E, y)
            /\ x \notin Making(j) /\ y \notin Making(j)
            /\ \A n \in Names : Same(E, R, x, y, n)
        BY <1>6, <3>1 DEF Sound, Finished
      <4>2. x # f.dst /\ y # f.dst
        BY <2>1, <3>1
      <4> QED
        BY <2>2, <4>1, <4>2
    <3>2. Depth(i) # 0
      BY <1>0
    <3> QED
      BY <3>1, <3>2 DEF Finished
  <2>4. Apart(i)
    <3>1. \A k \in Calls(j) : f.src # Call(j, k).dst
      BY <1>6 DEF Making
    <3> QED
      BY <1>0, <1>6, <2>1, <3>1 DEF Sound, Apart
  <2>5. ASSUME NEW k \in Calls(j) PROVE Progress(E, i, R, k)
    <3>1. Progress(E, j, R, k) /\ Call(i, k) = Call(j, k) /\ k # N + 1 /\ k \in 1..N
      BY <1>0, <1>6, <2>5 DEF Sound
    <3>2. ASSUME NEW n PROVE Waiting(i, k, n) <=> Waiting(j, k, n)
      BY <1>0, <3>1 DEF Waiting
    <3>3. ASSUME NEW n PROVE UnderWay(i, k, n) <=> UnderWay(j, k, n)
      <4>1. CASE k = N
        <5>1. Call(i, k + 1).name = j.item
          BY <1>0, <1>2, <4>1, <3>1
        <5> QED
          BY <1>0, <4>1, <5>1 DEF UnderWay
      <4>2. CASE k # N
        <5>1. k + 1 \in Calls(j) /\ k < N
          BY <1>0, <3>1, <4>2
        <5> QED
          BY <1>0, <4>2, <5>1 DEF UnderWay
      <4> QED
        BY <4>1, <4>2
    <3> QED
      BY <3>1, <3>2, <3>3 DEF Progress
  <2>6. Progress(E, i, R, N + 1)
    <3>1. \A n : Waiting(i, N + 1, n) /\ ~UnderWay(i, N + 1, n)
      BY <1>0 DEF Waiting, UnderWay
    <3> QED
      BY <2>1, <3>1 DEF Progress
  <2> QED
    BY <1>0, <2>3, <2>4, <2>5, <2>6 DEF Sound
<1> QED
  BY <1>3, <1>4, <1>5, <1>6 DEF UnderControl

\* The innermost call lists its directory.
LEMMA Lists ==
  ASSUME NEW E \in Trees, NEW j, CopyJob(j), UnderControl(E, j), j.pc = "list",
         NEW i, i.pc = "next",
         Alikened(j, i, {<<n, Kind(E[Inner(j).src][n])>> :
                             n \in {m \in Names : E[Inner(j).src][m] # Nothing}})
  PROVE  UnderControl(E, i)
<1> DEFINE N == Depth(j)
           d == Inner(j).src
           listing == {<<n, Kind(E[d][n])>> : n \in {m \in Names : E[d][m] # Nothing}}
<1>0. /\ N \in Nat /\ N # 0 /\ Calls(j) = 1..N /\ Calls(i) = Calls(j) /\ N \in Calls(j)
      /\ Depth(i) = N /\ Inner(j) = Call(j, N) /\ Inner(i) = Call(i, N)
      /\ i.pc \notin AtEntry /\ ~Halfway(i) /\ j.pc \notin AtEntry
      /\ i.from = j.from /\ i.to = j.to /\ i.pc # "list"
  BY DEF CopyJob, Calls, Halfway, AtEntry, Inner, Alikened
<1>1. Chained(E, j) /\ Inner(j).todo = {}
  BY DEF UnderControl, Chained
<1>2. /\ \A k \in Calls(j) :
          /\ Call(i, k).src = Call(j, k).src /\ Call(i, k).dst = Call(j, k).dst
          /\ Call(i, k).name = Call(j, k).name
          /\ k # N => Call(i, k).todo = Call(j, k).todo
      /\ Call(i, N).todo = listing
  BY <1>0 DEF Alikened
<1>3. Chained(E, i)
  <2>1. ASSUME NEW k \in Calls(j) PROVE Reached(E, i, k)
    <3>1. Reached(E, j, k) /\ (k # 1 => k - 1 \in Calls(j))
      BY <1>1, <2>1, CallFacts DEF Chained
    <3> QED
      BY <1>0, <1>2, <2>1, <3>1 DEF Reached
  <2>2. ASSUME NEW k \in Calls(j), k # N PROVE ListedRight(E, Call(i, k))
    BY <1>1, <1>2, <2>2 DEF Chained, ListedRight
  <2>3. ListedRight(E, Call(i, N))
    BY <1>0, <1>2 DEF ListedRight
  <2> QED
    BY <1>0, <1>1, <2>1, <2>2, <2>3 DEF Chained
<1>4. ASSUME Doomed(j) PROVE Doomed(i)
  <2>1. PICK m \in Calls(j), c \in Calls(j) : c < m /\ DoomedAt(j, m, c)
    BY <1>4 DEF Doomed
  <2>2. /\ m - c \in Calls(j) /\ m - c + 1 \in Calls(j) /\ m - c + 1 # 1
        /\ (m - c + 1) - 1 = m - c
    BY <1>0, <2>1
  <2>5. Call(j, m).src = Call(j, m - c).dst
    BY <2>1 DEF DoomedAt
  <2> DEFINE next == Call(j, m - c + 1).name
  <2>3. CASE m = N
    <3>1. Reached(E, j, m - c + 1)
      BY <1>1, <2>2 DEF Chained
    <3>2. Call(j, m - c + 1).dst = E[d][next]
      BY <1>0, <2>2, <2>3, <2>5, <3>1 DEF Reached
    <3>3. Call(j, m - c + 1).dst \in Inside /\ next \in Names
      BY <1>1, <2>2, CallFacts
    <3>4. E[d][next] # Nothing /\ Kind(E[d][next]) = "dir"
      BY <3>2, <3>3, KindsDiffer DEF Kind, Dirs
    <3>5. <<next, "dir">> \in listing
      BY <3>3, <3>4
    <3>6. DoomedAt(i, m, c)
      BY <1>2, <2>2, <2>3, <2>5, <3>5 DEF DoomedAt
    <3> QED
      BY <1>0, <2>1, <3>6 DEF Doomed
  <2>4. CASE m # N
    <3>1. <<next, "dir">> \in Call(j, m).todo
      BY <2>1, <2>4 DEF DoomedAt
    <3>2. DoomedAt(i, m, c)
      BY <1>2, <2>2, <2>4, <2>5, <3>1 DEF DoomedAt
    <3> QED
      BY <1>0, <2>1, <3>2 DEF Doomed
  <2> QED
    BY <2>3, <2>4
<1>5. ASSUME NEW R \in Pairings, Sound(E, j, R) PROVE Sound(E, i, R)
  <2>1. Making(i) = Making(j)
    BY <1>0, <1>2 DEF Making
  <2>2. Finished(E, i, R)
    BY <1>0, <1>5, <2>1 DEF Sound, Finished
  <2>3. Apart(i)
    BY <1>0, <1>2, <1>5 DEF Sound, Apart
  <2>4. ASSUME NEW k \in Calls(j), k # N PROVE Progress(E, i, R, k)
    <3>1. Progress(E, j, R, k)
      BY <1>5 DEF Sound
    <3>2. ASSUME NEW n PROVE (Waiting(i, k, n) <=> Waiting(j, k, n))
                             /\ (UnderWay(i, k, n) <=> UnderWay(j, k, n))
      <4>1. k < N => k + 1 \in Calls(j)
        BY <1>0
      <4> QED
        BY <1>0, <1>2, <2>4, <4>1 DEF Waiting, UnderWay
    <3> QED
      BY <1>2, <3>1, <3>2 DEF Progress
  <2>5. Progress(E, i, R, N)
    <3>1. ASSUME NEW n \in Names PROVE E[Call(j, N).dst][n] = Nothing
      BY <1>0, <1>5 DEF Sound, Progress, Waiting
    <3>2. ASSUME NEW n \in Names PROVE Waiting(i, N, n) <=> E[d][n] # Nothing
      <4>1. Waiting(i, N, n) <=> \E e \in listing : e[1] = n
        BY <1>0, <1>2 DEF Waiting
      <4>2. \A e \in listing : E[d][e[1]] # Nothing
        OBVIOUS
      <4>3. ASSUME E[d][n] # Nothing PROVE \E e \in listing : e[1] = n
        <5>1. <<n, Kind(E[d][n])>> \in listing
          BY <4>3
        <5> QED
          BY <5>1
      <4> QED
        BY <4>1, <4>2, <4>3
    <3>3. ASSUME NEW n PROVE ~UnderWay(i, N, n)
      BY <1>0 DEF UnderWay
    <3>4. Nothing \notin Inside
      BY KindsDiffer DEF Dirs
    <3> QED
      BY <1>0, <1>2, <3>1, <3>2, <3>3, <3>4 DEF Progress, Same
  <2> QED
    BY <1>0, <2>2, <2>3, <2>4, <2>5 DEF Sound
<1> QED
  BY <1>3, <1>4, <1>5 DEF UnderControl

\* i is j but for an entry e that the innermost call has taken off its list.
OneLess(E, j, i, e) ==
    /\ Depth(j) \in Nat \ {0} /\ Depth(j) \in Calls(j) /\ Calls(i) = Calls(j)
    /\ Calls(j) = 1..Depth(j)
    /\ Depth(i) = Depth(j) /\ Inner(j) = Call(j, Depth(j)) /\ Inner(i) = Call(i, Depth(j))
    /\ i.from = j.from /\ i.to = j.to
    /\ \A k \in Calls(j) :
          /\ Call(i, k).src = Call(j, k).src /\ Call(i, k).dst = Call(j, k).dst
          /\ Call(i, k).name = Call(j, k).name
          /\ k # Depth(j) => Call(i, k).todo = Call(j, k).todo
    /\ Call(i, Depth(j)).todo = Call(j, Depth(j)).todo \ {e}
    /\ e \in Call(j, Depth(j)).todo /\ e = <<e[1], e[2]>> /\ e[1] \in Names
    /\ E[Inner(j).src][e[1]] # Nothing /\ e[2] = Kind(E[Inner(j).src][e[1]])
    /\ \A o \in Call(i, Depth(j)).todo : o[1] # e[1]
    /\ \A k \in Calls(j) : Reached(E, i, k) /\ ListedRight(E, Call(i, k))

LEMMA Takes ==
  ASSUME NEW E \in Trees, NEW j, CopyJob(j), Chained(E, j), j.pc = "next",
         NEW e \in Inner(j).todo, NEW i, Alikened(j, i, Inner(j).todo \ {e})
  PROVE  OneLess(E, j, i, e)
<1> DEFINE N == Depth(j)
<1>1. /\ N \in Nat \ {0} /\ Calls(j) = 1..N /\ N \in Calls(j) /\ Calls(i) = Calls(j)
      /\ Depth(i) = N /\ Inner(j) = Call(j, N) /\ Inner(i) = Call(i, N)
      /\ i.from = j.from /\ i.to = j.to
  BY DEF CopyJob, Calls, Inner, Alikened
<1>2. /\ \A k \in Calls(j) :
          /\ Call(i, k).src = Call(j, k).src /\ Call(i, k).dst = Call(j, k).dst
          /\ Call(i, k).name = Call(j, k).name
          /\ k # N => Call(i, k).todo = Call(j, k).todo
      /\ Call(i, N).todo = Call(j, N).todo \ {e}
  BY <1>1 DEF Alikened
<1>3. Call(j, N).todo \subseteq Names \X Kinds /\ ListedRight(E, Call(j, N))
  BY <1>1 DEF CopyJob, Frame, Chained
<1>4. /\ e \in Call(j, N).todo /\ e = <<e[1], e[2]>> /\ e[1] \in Names
      /\ E[Inner(j).src][e[1]] # Nothing /\ e[2] = Kind(E[Inner(j).src][e[1]])
  BY <1>1, <1>3 DEF ListedRight
<1>5. ASSUME NEW o \in Call(i, N).todo PROVE o[1] # e[1]
  <2>1. o \in Call(j, N).todo /\ o # e /\ o = <<o[1], o[2]>>
        /\ o[2] = Kind(E[Inner(j).src][o[1]])
    BY <1>1, <1>2, <1>3, <1>5 DEF ListedRight
  <2> QED
    BY <1>4, <2>1
<1>6. ASSUME NEW k \in Calls(j) PROVE Reached(E, i, k) /\ ListedRight(E, Call(i, k))
  <2>1. Reached(E, j, k) /\ ListedRight(E, Call(j, k)) /\ (k # 1 => k - 1 \in Calls(j))
    BY <1>6, CallFacts DEF Chained
  <2>2. Reached(E, i, k)
    BY <1>1, <1>2, <1>6, <2>1 DEF Reached
  <2>3. Call(i, k).todo \subseteq Call(j, k).todo
    BY <1>1, <1>2, <1>6
  <2> QED
    BY <1>2, <1>6, <2>1, <2>2, <2>3 DEF ListedRight
<1> QED
  BY <1>1, <1>2, <1>4, <1>5, <1>6 DEF OneLess

\* Taking any entry but the one that dooms it, a copy is as doomed as before.
LEMMA StillDoomed ==
  ASSUME NEW E \in Trees, NEW j, CopyJob(j), Chained(E, j), j.pc = "next",
         NEW e \in Inner(j).todo, NEW i, Alikened(j, i, Inner(j).todo \ {e}),
         e[2] = "dir" => i.pc \in AtEntry /\ i.item = e[1],
         Doomed(j)
  PROVE  Doomed(i)
<1> DEFINE N == Depth(j)
<1>1. /\ N \in Nat /\ N \in Calls(j) /\ Calls(i) = Calls(j) /\ Calls(j) = 1..N
      /\ Depth(i) = N
      /\ \A k \in Calls(j) :
           /\ Call(i, k).src = Call(j, k).src /\ Call(i, k).dst = Call(j, k).dst
           /\ Call(i, k).name = Call(j, k).name
           /\ k # N => Call(i, k).todo = Call(j, k).todo
      /\ Call(i, N).todo = Call(j, N).todo \ {e} /\ e = <<e[1], e[2]>>
  <2>1. OneLess(E, j, i, e)
    BY Takes
  <2> QED
    BY <2>1 DEF OneLess
<1>2. PICK m \in Calls(j), c \in Calls(j) : c < m /\ DoomedAt(j, m, c)
  BY DEF Doomed
<1>3. m - c \in Calls(j) /\ m - c + 1 \in Calls(j)
  BY <1>1, <1>2
<1> DEFINE next == Call(j, m - c + 1).name
<1>4. <<next, "dir">> \in Call(j, m).todo /\ Call(j, m).src = Call(j, m - c).dst
  BY <1>2 DEF DoomedAt, AtEntry
<1>5. Call(i, m).src = Call(i, m - c).dst /\ Call(i, m - c + 1).name = next
  BY <1>1, <1>3, <1>4
<1>6. CASE m = N /\ e = <<next, "dir">>
  <2>1. e[2] = "dir" /\ e[1] = next
    BY <1>6
  <2>2. DoomedAt(i, m, c)
    BY <1>1, <1>5, <1>6, <2>1 DEF DoomedAt
  <2> QED
    BY <1>1, <1>2, <2>2 DEF Doomed
<1>7. CASE ~(m = N /\ e = <<next, "dir">>)
  <2>1. <<next, "dir">> \in Call(i, m).todo
    BY <1>1, <1>4, <1>7
  <2>2. DoomedAt(i, m, c)
    BY <1>5, <2>1 DEF DoomedAt
  <2> QED
    BY <1>1, <1>2, <2>2 DEF Doomed
<1> QED
  BY <1>6, <1>7

\* A directory of the list is next.
LEMMA TakesDir ==
  ASSUME NEW E \in Trees, NEW j, CopyJob(j), UnderControl(E, j), j.pc = "next",
         NEW e \in Inner(j).todo, e[2] = "dir",
         NEW i, i.pc = "mkdir", i.item = e[1], Alikened(j, i, Inner(j).todo \ {e})
  PROVE  UnderControl(E, i)
<1> DEFINE N == Depth(j)
<1>0. Chained(E, j)
  BY DEF UnderControl
<1>1. /\ N \in Nat \ {0} /\ N \in Calls(j) /\ Calls(i) = Calls(j) /\ Calls(j) = 1..N
      /\ Depth(i) = N /\ Inner(j) = Call(j, N) /\ Inner(i) = Call(i, N)
      /\ i.from = j.from /\ i.to = j.to
      /\ \A k \in Calls(j) :
           /\ Call(i, k).src = Call(j, k).src /\ Call(i, k).dst = Call(j, k).dst
           /\ Call(i, k).name = Call(j, k).name
           /\ k # N => Call(i, k).todo = Call(j, k).todo
      /\ Call(i, N).todo = Call(j, N).todo \ {e}
      /\ e \in Call(j, N).todo /\ e[1] \in Names
      /\ E[Inner(j).src][e[1]] # Nothing /\ e[2] = Kind(E[Inner(j).src][e[1]])
      /\ \A o \in Call(i, N).todo : o[1] # e[1]
      /\ \A k \in Calls(j) : Reached(E, i, k) /\ ListedRight(E, Call(i, k))
  <2>1. OneLess(E, j, i, e)
    BY <1>0, Takes
  <2> QED
    BY <2>1 DEF OneLess
<1>2. /\ i.pc \in AtEntry /\ ~Halfway(i) /\ ~Begun(i) /\ i.pc # "list" /\ j.pc \notin AtEntry
      /\ SrcOf(i) = <<Inner(j).src, e[1]>> /\ DstOf(i) = <<Inner(j).dst, e[1]>>
  BY <1>1 DEF AtEntry, Halfway, Begun, SrcOf, DstOf
<1>3. Chained(E, i)
  <2>1. E[Inner(j).src][e[1]] \in Inside
    BY <1>1 DEF Kind
  <2> QED
    BY <1>0, <1>1, <1>2, <2>1 DEF Chained, Value
<1>4. Doomed(j) => Doomed(i)
  BY <1>0, <1>2, StillDoomed
<1>5. ASSUME NEW R \in Pairings, Sound(E, j, R) PROVE Sound(E, i, R)
  <2>1. Making(i) = Making(j)
    BY <1>1 DEF Making
  <2>2. Finished(E, i, R)
    BY <1>1, <1>5, <2>1 DEF Sound, Finished
  <2>3. Apart(i)
    BY <1>1, <1>5 DEF Sound, Apart
  <2>4. ASSUME NEW k \in Calls(j), k # N PROVE Progress(E, i, R, k)
    <3>1. Progress(E, j, R, k)
      BY <1>5, <2>4 DEF Sound
    <3>2. ASSUME NEW n PROVE (Waiting(i, k, n) <=> Waiting(j, k, n))
                             /\ (UnderWay(i, k, n) <=> UnderWay(j, k, n))
      <4>1. k < N => k + 1 \in Calls(j)
        BY <1>1
      <4> QED
        BY <1>1, <2>4, <4>1 DEF Waiting, UnderWay
    <3> QED
      BY <1>1, <2>4, <3>1, <3>2 DEF Progress
  <2>5. Progress(E, i, R, N)
    <3>1. Progress(E, j, R, N)
      BY <1>1, <1>5 DEF Sound
    <3>2. ASSUME NEW n, n # e[1]
          PROVE  (Waiting(i, N, n) <=> Waiting(j, N, n)) /\ ~UnderWay(i, N, n) /\ ~UnderWay(j, N, n)
      BY <1>1, <1>2, <3>2 DEF Waiting, UnderWay
    <3>3. ~Waiting(i, N, e[1]) /\ UnderWay(i, N, e[1])
      BY <1>1, <1>2 DEF Waiting, UnderWay
    <3> QED
      BY <1>1, <3>1, <3>2, <3>3 DEF Progress
  <2>6. Fresh(E, i, R)
    <3>1. Waiting(j, N, e[1]) /\ Progress(E, j, R, N)
      BY <1>1, <1>5 DEF Waiting, Sound
    <3>2. E[Inner(j).dst][e[1]] = Nothing
      BY <1>1, <3>1 DEF Progress
    <3> QED
      BY <1>2, <3>2 DEF Fresh, Value
  <2> QED
    BY <1>1, <2>2, <2>3, <2>4, <2>5, <2>6 DEF Sound
<1> QED
  BY <1>3, <1>4, <1>5 DEF UnderControl

\* What the list has is not yet in what the call makes, which is linked.
LEMMA RoomForIt ==
  ASSUME NEW E \in Trees, NEW j, CopyJob(j), Chained(E, j), j.pc = "next",
         NEW e \in Inner(j).todo, NEW R, Sound(E, j, R)
  PROVE  E[Inner(j).dst][e[1]] = Nothing /\ LinkedIn(E, Inner(j).dst)
<1>1. Depth(j) \in Calls(j) /\ Inner(j) = Call(j, Depth(j))
  BY DEF CopyJob, Calls, Inner
<1>2. Waiting(j, Depth(j), e[1]) /\ e[1] \in Names
  BY <1>1 DEF Waiting, CopyJob, Frame
<1>3. Progress(E, j, R, Depth(j))
  BY <1>1 DEF Sound
<1> QED
  BY <1>1, <1>2, <1>3, CallFacts DEF Progress

\* An entry is passed over, because there is no room for it.
LEMMA PassesOver ==
  ASSUME NEW E \in Trees, NEW j, CopyJob(j), UnderControl(E, j), j.pc = "next",
         NEW e \in Inner(j).todo, e[2] # "dir",
         NEW i, i.pc = "next", Alikened(j, i, Inner(j).todo \ {e}),
         E[Inner(j).dst][e[1]] # Nothing \/ ~LinkedIn(E, Inner(j).dst)
  PROVE  UnderControl(E, i)
<1>1. Chained(E, j) /\ OneLess(E, j, i, e)
  BY Takes DEF UnderControl
<1>2. Doomed(i)
  BY <1>1, RoomForIt, StillDoomed DEF UnderControl
<1>3. Chained(E, i)
  BY <1>1 DEF Chained, OneLess, Halfway, AtEntry
<1> QED
  BY <1>2, <1>3 DEF UnderControl

\* A file or a symlink is copied.
LEMMA Copies ==
  ASSUME NEW E \in Trees, NEW F \in Trees, NEW j, CopyJob(j), UnderControl(E, j), j.pc = "next",
         NEW e \in Inner(j).todo, e[2] # "dir",
         NEW i, i.pc = "next", Alikened(j, i, Inner(j).todo \ {e}),
         E[Inner(j).dst][e[1]] = Nothing,
         F = [E EXCEPT ![Inner(j).dst][e[1]] = E[Inner(j).src][e[1]]]
  PROVE  UnderControl(F, i)
<1> DEFINE N == Depth(j)
           x == E[Inner(j).src][e[1]]
           to == Inner(j).dst
<1>0. Chained(E, j)
  BY DEF UnderControl
<1>1. OneLess(E, j, i, e)
  BY <1>0, Takes
<1>2. /\ N \in Nat \ {0} /\ N \in Calls(j) /\ Calls(i) = Calls(j) /\ Calls(j) = 1..N
      /\ Depth(i) = N /\ Inner(j) = Call(j, N)
      /\ i.from = j.from /\ i.to = j.to
      /\ \A k \in Calls(j) :
           /\ Call(i, k).src = Call(j, k).src /\ Call(i, k).dst = Call(j, k).dst
           /\ Call(i, k).name = Call(j, k).name
           /\ k # N => Call(i, k).todo = Call(j, k).todo
      /\ Call(i, N).todo = Call(j, N).todo \ {e}
      /\ e \in Call(j, N).todo /\ e[1] \in Names /\ e[2] = Kind(x)
      /\ \A o \in Call(i, N).todo : o[1] # e[1]
  BY <1>1 DEF OneLess
<1>3. to \in Inside /\ \A k \in Calls(j) : Call(j, k).src \in Inside /\ Call(j, k).dst \in Inside
  BY <1>0, <1>2, CallFacts
<1>4. Inside \subseteq Dirs /\ Nothing \notin Inside /\ x \notin Inside
  BY <1>2, KindsDiffer DEF Dirs, Kind
<1>5. /\ \A c \in Inside : c # to => F[c] = E[c]
      /\ \A n \in Names : n # e[1] => F[to][n] = E[to][n]
      /\ F[to][e[1]] = x
  BY <1>2, <1>3, <1>4 DEF Trees
<1>6. Grows(E, F)
  BY <1>2, <1>3, <1>5 DEF Grows, Value, Places, Trees
<1>7. i.pc \notin AtEntry /\ j.pc \notin AtEntry /\ i.pc # "list" /\ ~Halfway(i)
  BY DEF AtEntry, Halfway
<1>8. Chained(F, i)
  <2>1. Chained(F, j)
    BY <1>0, <1>6, ChainGrows
  <2>2. OneLess(F, j, i, e)
    BY <2>1, Takes
  <2> QED
    BY <1>7, <2>1, <2>2 DEF OneLess, Chained
<1>9. Doomed(j) => Doomed(i)
  BY <1>0, StillDoomed
<1>10. ASSUME NEW R \in Pairings, Sound(E, j, R) PROVE Sound(F, i, R)
  <2>1. Making(i) = Making(j) /\ to \in Making(j)
    BY <1>2 DEF Making
  <2>2. Apart(i) /\ Apart(j)
    BY <1>2, <1>10 DEF Sound, Apart
  <2>3. Finished(F, i, R)
    <3>1. ASSUME NEW s \in Inside, NEW d \in Inside, <<s, d>> \in R
          PROVE  /\ LinkedIn(F, s) /\ LinkedIn(F, d)
                 /\ s \notin Making(i) /\ d \notin Making(i)
                 /\ \A n \in Names : Same(F, R, s, d, n)
      <4>1. /\ LinkedIn(E, s) /\ LinkedIn(E, d)
            /\ s \notin Making(j) /\ d \notin Making(j)
            /\ \A n \in Names : Same(E, R, s, d, n)
        BY <1>10, <3>1 DEF Sound, Finished
      <4>2. LinkedIn(F, s) /\ LinkedIn(F, d)
        BY <1>4, <1>6, <4>1, StillLinked
      <4>3. F[s] = E[s] /\ F[d] = E[d]
        BY <1>5, <2>1, <4>1
      <4> QED
        BY <2>1, <4>1, <4>2, <4>3 DEF Same
    <3>2. Depth(i) # 0
      BY <1>2
    <3> QED
      BY <3>1, <3>2 DEF Finished
  <2>4. ASSUME NEW k \in Calls(j) PROVE Progress(F, i, R, k)
    <3> DEFINE f == Call(j, k)
    <3>1. Progress(E, j, R, k) /\ Call(i, k).src = f.src /\ Call(i, k).dst = f.dst
      BY <1>2, <1>10, <2>4 DEF Sound
    <3>2. ASSUME NEW n PROVE UnderWay(i, k, n) <=> UnderWay(j, k, n)
      <4>1. k < N => k + 1 \in Calls(j)
        BY <1>2
      <4> QED
        BY <1>2, <1>7, <2>4, <4>1 DEF UnderWay
    <3>3. ASSUME NEW n, k # N \/ n # e[1] PROVE Waiting(i, k, n) <=> Waiting(j, k, n)
      BY <1>2, <1>7, <2>4, <3>3 DEF Waiting
    <3>4. F[f.src] = E[f.src]
      BY <1>2, <1>3, <1>5, <2>2, <2>4 DEF Apart
    <3>5. k # N => F[f.dst] = E[f.dst]
      BY <1>2, <1>3, <1>5, <2>2, <2>4 DEF Apart
    <3>6. ASSUME NEW n \in Names
          PROVE  IF Waiting(i, k, n) THEN F[f.dst][n] = Nothing /\ ~UnderWay(i, k, n)
                 ELSE UnderWay(i, k, n) \/ Same(F, R, f.src, f.dst, n)
      <4>1. IF Waiting(j, k, n) THEN E[f.dst][n] = Nothing /\ ~UnderWay(j, k, n)
            ELSE UnderWay(j, k, n) \/ Same(E, R, f.src, f.dst, n)
        BY <3>1 DEF Progress
      <4>2. CASE k = N /\ n = e[1]
        <5>1. ~Waiting(i, k, n)
          BY <1>2, <1>7, <4>2 DEF Waiting
        <5>2. F[f.dst][n] = x /\ F[f.src][n] = x
          BY <1>2, <1>5, <3>4, <4>2
        <5> QED
          BY <1>4, <5>1, <5>2 DEF Same
      <4>3. CASE ~(k = N /\ n = e[1])
        <5>1. F[f.dst][n] = E[f.dst][n]
          BY <1>2, <1>5, <3>5, <4>3
        <5>2. Waiting(i, k, n) <=> Waiting(j, k, n)
          BY <3>3, <4>3
        <5> QED
          BY <3>2, <3>4, <4>1, <5>1, <5>2 DEF Same
      <4> QED
        BY <4>2, <4>3
    <3> QED
      BY <3>1, <3>6 DEF Progress
  <2> QED
    BY <1>2, <1>7, <2>2, <2>3, <2>4 DEF Sound
<1> QED
  BY <1>8, <1>9, <1>10 DEF UnderControl

\* A list that is done: a copy that goes into itself never has its outermost
\* done, and otherwise the innermost call has its copy finished.
LEMMA CallDone ==
  ASSUME NEW E \in Trees, NEW j, CopyJob(j), UnderControl(E, j), j.pc = "next",
         Inner(j).todo = {}, ~\E m \in Calls(j) : m # Depth(j) /\ \E c \in Calls(j) :
                                                      c < m /\ DoomedAt(j, m, c)
  PROVE  \E R \in Pairings :
            /\ Sound(E, j, R)
            /\ \A n \in Names : Same(E, R, Inner(j).src, Inner(j).dst, n)
            /\ Inner(j).src \in Inside /\ Inner(j).dst \in Inside
<1>1. Depth(j) \in Calls(j) /\ Inner(j) = Call(j, Depth(j)) /\ j.pc \notin AtEntry
  BY DEF CopyJob, Calls, Inner, AtEntry
<1>2. ASSUME Doomed(j) PROVE FALSE
  BY <1>1, <1>2 DEF Doomed, DoomedAt
<1>3. PICK R \in Pairings : Sound(E, j, R)
  BY <1>2 DEF UnderControl
<1>4. Progress(E, j, R, Depth(j))
  BY <1>1, <1>3 DEF Sound
<1>5. \A n \in Names : ~Waiting(j, Depth(j), n) /\ ~UnderWay(j, Depth(j), n)
  BY <1>1 DEF Waiting, UnderWay, CopyJob
<1>6. \A n \in Names : Same(E, R, Inner(j).src, Inner(j).dst, n)
  BY <1>1, <1>4, <1>5 DEF Progress
<1> QED
  BY <1>1, <1>3, <1>6 DEF CopyJob, Frame

\* A finished copy joins the others.
LEMMA OneMore ==
  ASSUME NEW E, NEW R \in Pairings, NEW a \in Inside, NEW b \in Inside,
         \A n \in Names : Same(E, R, a, b, n),
         \A s, d \in Inside : <<s, d>> \in R => \A n \in Names : Same(E, R, s, d, n)
  PROVE  /\ R \cup {<<a, b>>} \in Pairings
         /\ \A s, d \in Inside : <<s, d>> \in R \cup {<<a, b>>}
               => \A n \in Names : Same(E, R \cup {<<a, b>>}, s, d, n)
<1>1. R \cup {<<a, b>>} \in Pairings
  BY DEF Pairings
<1>2. \A s, d, n : Same(E, R, s, d, n) => Same(E, R \cup {<<a, b>>}, s, d, n)
  BY DEF Same
<1> QED
  BY <1>1, <1>2

\* A call returns to its caller.
LEMMA ReturnsTo ==
  ASSUME NEW E \in Trees, NEW j, CopyJob(j), UnderControl(E, j), j.pc = "next",
         Inner(j).todo = {}, Depth(j) # 1,
         NEW i, i.pc = "next", i.from = j.from, i.to = j.to,
         Depth(i) = Depth(j) - 1, \A k \in Calls(i) : Call(i, k) = Call(j, k)
  PROVE  UnderControl(E, i)
<1> DEFINE N == Depth(j)
           a == Inner(j).src
           b == Inner(j).dst
<1>1. /\ N \in Nat /\ N \in Calls(j) /\ N - 1 \in Calls(j) /\ Calls(j) = 1..N
      /\ Calls(i) = 1..(N - 1) /\ Inner(j) = Call(j, N) /\ Depth(i) # 0 /\ N # 0
      /\ Calls(i) \subseteq Calls(j) /\ N \notin Calls(i) /\ N - 1 \in Calls(i)
      /\ i.pc \notin AtEntry /\ j.pc \notin AtEntry /\ ~Halfway(i)
  BY DEF CopyJob, Calls, Inner, AtEntry, Halfway
<1>2. Chained(E, j)
  BY DEF UnderControl
<1>3. Chained(E, i)
  <2>1. ASSUME NEW k \in Calls(i) PROVE Reached(E, i, k) /\ ListedRight(E, Call(i, k))
    <3>1. Reached(E, j, k) /\ ListedRight(E, Call(j, k)) /\ (k # 1 => k - 1 \in Calls(i))
      BY <1>1, <1>2, <2>1 DEF Chained
    <3> QED
      BY <2>1, <3>1 DEF Reached
  <2> QED
    BY <1>1, <1>2, <2>1 DEF Chained
<1>4. ASSUME NEW m \in Calls(j), m # N, NEW c \in Calls(j), c < m, DoomedAt(j, m, c)
      PROVE  Doomed(i)
  <2>1. m \in Calls(i) /\ c \in Calls(i) /\ m - c \in Calls(i) /\ m - c + 1 \in Calls(i)
    BY <1>1, <1>4
  <2>2. DoomedAt(i, m, c)
    BY <1>1, <1>4, <2>1 DEF DoomedAt
  <2> QED
    BY <1>4, <2>1, <2>2 DEF Doomed
<1>5. CASE \E m \in Calls(j) : m # N /\ \E c \in Calls(j) : c < m /\ DoomedAt(j, m, c)
  BY <1>3, <1>4, <1>5 DEF UnderControl
<1>6. CASE ~\E m \in Calls(j) : m # N /\ \E c \in Calls(j) : c < m /\ DoomedAt(j, m, c)
  <2>1. PICK R \in Pairings :
            /\ Sound(E, j, R)
            /\ \A n \in Names : Same(E, R, a, b, n)
            /\ a \in Inside /\ b \in Inside
    BY <1>6, CallDone
  <2> DEFINE R2 == R \cup {<<a, b>>}
  <2>2. \A s, d \in Inside : <<s, d>> \in R =>
            /\ LinkedIn(E, s) /\ LinkedIn(E, d) /\ s \notin Making(j) /\ d \notin Making(j)
            /\ \A n \in Names : Same(E, R, s, d, n)
    BY <2>1 DEF Sound, Finished
  <2>3. /\ R2 \in Pairings
        /\ \A s, d \in Inside : <<s, d>> \in R2 => \A n \in Names : Same(E, R2, s, d, n)
    BY <2>1, <2>2, OneMore
  <2>4. Apart(j) /\ Apart(i)
    BY <1>1, <2>1 DEF Sound, Apart
  <2>5. Making(i) \subseteq Making(j) /\ a \notin Making(i) /\ b \notin Making(i)
    BY <1>1, <2>4 DEF Making, Apart
  <2>6. Finished(E, i, R2)
    <3>1. LinkedIn(E, a) /\ LinkedIn(E, b)
      BY <1>1, <1>2, CallFacts
    <3>2. ASSUME NEW s \in Inside, NEW d \in Inside, <<s, d>> \in R2
          PROVE  /\ LinkedIn(E, s) /\ LinkedIn(E, d)
                 /\ s \notin Making(i) /\ d \notin Making(i)
      BY <2>2, <2>5, <3>1, <3>2
    <3> HIDE DEF R2
    <3> QED
      BY <1>1, <2>3, <3>2 DEF Finished
  <2>7. ASSUME NEW k \in Calls(i) PROVE Progress(E, i, R2, k)
    <3> DEFINE f == Call(j, k)
    <3>1. Progress(E, j, R, k) /\ Call(i, k) = f /\ k \in Calls(j) /\ k < N
      BY <1>1, <2>1, <2>7 DEF Sound
    <3>2. ASSUME NEW n PROVE Waiting(i, k, n) <=> Waiting(j, k, n)
      BY <1>1, <3>1 DEF Waiting
    <3>3. ASSUME NEW n PROVE UnderWay(i, k, n) => UnderWay(j, k, n)
      <4>1. k < N - 1 => k + 1 \in Calls(i)
        BY <1>1, <3>1
      <4> QED
        BY <1>1, <3>1, <4>1 DEF UnderWay
    <3>4. ASSUME NEW n \in Names, UnderWay(j, k, n), ~UnderWay(i, k, n)
          PROVE  Same(E, R2, f.src, f.dst, n)
      <4>1. k + 1 \in Calls(j) /\ n = Call(j, k + 1).name
        BY <1>1, <3>1, <3>4 DEF UnderWay
      <4>2. k + 1 = N
        <5>1. ASSUME k + 1 # N PROVE FALSE
          <6>1. k + 1 \in Calls(i) /\ k < N - 1
            BY <1>1, <3>1, <5>1
          <6> QED
            BY <3>4, <4>1, <6>1 DEF UnderWay
        <5> QED
          BY <5>1
      <4>3. Reached(E, j, N) /\ N # 1 /\ N - 1 = k
        BY <1>1, <1>2, <4>2 DEF Chained
      <4>4. a = E[f.src][n] /\ b = E[f.dst][n]
        BY <1>1, <4>1, <4>2, <4>3 DEF Reached
      <4> QED
        BY <4>4 DEF Same
    <3>5. ASSUME NEW n, Same(E, R, f.src, f.dst, n) PROVE Same(E, R2, f.src, f.dst, n)
      BY <3>5 DEF Same
    <3> HIDE DEF R2
    <3>6. ASSUME NEW n \in Names
          PROVE  IF Waiting(i, k, n) THEN E[f.dst][n] = Nothing /\ ~UnderWay(i, k, n)
                 ELSE UnderWay(i, k, n) \/ Same(E, R2, f.src, f.dst, n)
      <4>1. IF Waiting(j, k, n) THEN E[f.dst][n] = Nothing /\ ~UnderWay(j, k, n)
            ELSE UnderWay(j, k, n) \/ Same(E, R, f.src, f.dst, n)
        BY <3>1 DEF Progress
      <4> QED
        BY <3>2, <3>3, <3>4, <3>5, <4>1
    <3> QED
      BY <3>1, <3>6 DEF Progress
  <2> HIDE DEF R2
  <2> QED
    BY <1>1, <1>3, <2>3, <2>4, <2>6, <2>7 DEF Sound, UnderControl
<1> QED
  BY <1>5, <1>6

\* The outermost call returns.
LEMMA IsDone ==
  ASSUME NEW E \in Trees, NEW j, CopyJob(j), UnderControl(E, j), j.pc = "next",
         Inner(j).todo = {}, Depth(j) = 1
  PROVE  Matched(E, Value(E, j.from), Value(E, j.to))
<1>1. Calls(j) = {1} /\ Inner(j) = Call(j, 1)
  BY DEF Calls, Inner
<1>2. PICK R \in Pairings :
            /\ Sound(E, j, R)
            /\ \A n \in Names : Same(E, R, Inner(j).src, Inner(j).dst, n)
            /\ Inner(j).src \in Inside /\ Inner(j).dst \in Inside
  BY <1>1, CallDone
<1>3. Inner(j).src = Value(E, j.from) /\ Inner(j).dst = Value(E, j.to)
  BY <1>1 DEF UnderControl, Chained, Reached
<1>4. \A s, d \in Inside : <<s, d>> \in R => \A n \in Names : Same(E, R, s, d, n)
  BY <1>2 DEF Sound, Finished
<1> DEFINE R2 == R \cup {<<Inner(j).src, Inner(j).dst>>}
<1>5. /\ R2 \in Pairings /\ <<Inner(j).src, Inner(j).dst>> \in R2
      /\ \A s, d \in Inside : <<s, d>> \in R2 => \A n \in Names : Same(E, R2, s, d, n)
  BY <1>2, <1>4, OneMore
<1> HIDE DEF R2
<1> QED
  BY <1>3, <1>5 DEF Matched

\* A copy begins.
LEMMA CopyBegins ==
  ASSUME NEW E \in Trees, NEW j, CopyJob(j), j.pc = "opensrc", Depth(j) = 0,
         Value(E, j.from) \in Inside, Value(E, j.to) = Nothing
  PROVE  UnderControl(E, j)
<1>1. Calls(j) = {} /\ j.pc \in AtEntry /\ ~Begun(j) /\ ~Halfway(j) /\ j.pc # "list"
      /\ SrcOf(j) = j.from /\ DstOf(j) = j.to
  BY DEF Calls, AtEntry, Begun, Halfway, SrcOf, DstOf
<1>2. Chained(E, j)
  BY <1>1 DEF Chained
<1>3. Sound(E, j, {})
  BY <1>1 DEF Sound, Finished, Apart, Fresh
<1> QED
  BY <1>2, <1>3 DEF UnderControl, Pairings

---------------------------------------------------------------------------
(* The same of the requests of the model.                                   *)

\* A directory that is not linked is empty.
EmptyIn(E) == \A d \in Inside : ~LinkedIn(E, d) => \A n \in Names : E[d][n] = Nothing

\* The steps a copy takes by itself
Walking == CopySteps \ {"stuck"}

Copying(w) == job[w].op = "copy" /\ alone[w] /\ ~job[w].skipped

\* As long as nobody disturbs a copy it is under control, and when it answers
\* ok its trees match.
CopyInv ==
    /\ EmptyIn(entry)
    /\ \A w \in Workers : Copying(w) =>
          /\ job[w].pc \in Walking => UnderControl(entry, job[w])
          /\ job[w].pc = "ok" =>
                Matched(entry, Value(entry, job[w].from), Value(entry, job[w].to))

LEMMA Context ==
  ASSUME TreeInv, NEW w \in Workers, job[w].op = "copy", job[w].pc \in CopySteps
  PROVE  /\ entry \in Trees /\ job \in [Workers -> Job] /\ job[w] \in Job
         /\ CopyJob(job[w]) /\ job[w].stack \in Seq(Frame)
         /\ SrcPlace(w) = SrcOf(job[w]) /\ DstPlace(w) = DstOf(job[w])
         /\ AtTop(w) <=> Depth(job[w]) = 0
         /\ ~AtTop(w) => Top(w) = Inner(job[w])
<1>1. entry \in Trees /\ job \in [Workers -> Job] /\ job[w] \in Job
  BY DEF TreeInv, TypeOK, Trees
<1>2. CopyJob(job[w])
  BY CopyJobOK DEF TreeInv
<1>3. job[w].stack \in Seq(Frame)
  BY <1>1 DEF Job
<1>4. AtTop(w) <=> Depth(job[w]) = 0
  BY <1>3, EmptySeq DEF AtTop, Depth
<1>5. ~AtTop(w) => Top(w) = Inner(job[w])
  <2>1. ASSUME ~AtTop(w) PROVE Top(w) = Inner(job[w])
    <3>1. job[w].stack # <<>>
      BY <2>1 DEF AtTop
    <3>2. Inner(job[w]) = Head(job[w].stack)
      BY <1>3, <3>1, CallReturns, [stack |-> Tail(job[w].stack)].stack = Tail(job[w].stack)
    <3> QED
      BY <3>2 DEF Top
  <2> QED
    BY <2>1
<1>6. SrcPlace(w) = SrcOf(job[w]) /\ DstPlace(w) = DstOf(job[w])
  BY <1>4, <1>5 DEF SrcPlace, DstPlace, SrcOf, DstOf
<1> QED
  BY <1>1, <1>2, <1>3, <1>4, <1>5, <1>6

LEMMA LinkedIsIn == \A d : Linked(d) <=> LinkedIn(entry, d)
BY DEF Linked, LinkedIn, At, Value

\* What a step of a copy has to keep
Controlled(w) ==
    /\ job'[w].pc \in Walking => UnderControl(entry', job'[w])
    /\ job'[w].pc = "ok" =>
          Matched(entry', Value(entry', job'[w].from), Value(entry', job'[w].to))

LEMMA FailControls ==
  ASSUME TreeInv, NEW w \in Workers, End(w, "failed")
  PROVE  Controlled(w)
<1>1. job'[w].pc = "failed"
  BY DEF TreeInv, TypeOK, End, Becomes, Job
<1> QED
  BY <1>1 DEF Controlled, Walking, CopySteps

LEMMA OpenSourceControls ==
  ASSUME TreeInv, NEW w \in Workers, job[w].op = "copy", job[w].pc \in CopySteps,
         UnderControl(entry, job[w]), OpenSource(w)
  PROVE  Controlled(w)
<1> DEFINE j == job[w]
           i == job'[w]
           x == At(SrcPlace(w))
<1>1. /\ entry \in Trees /\ job \in [Workers -> Job] /\ j \in Job
      /\ CopyJob(j) /\ SrcPlace(w) = SrcOf(j) /\ DstPlace(w) = DstOf(j)
      /\ AtTop(w) <=> Depth(j) = 0
  BY Context
<1>2. j.pc = "opensrc" /\ j.pc \in AtEntry
  BY DEF OpenSource, AtEntry
<1>3. CASE Fail(w)
  BY <1>3, FailControls DEF Fail
<1>4. CASE /\ Becomes(w, [job[w] EXCEPT !.half = OpenDir(x),
                                        !.pc = IF x = Pipe THEN "stuck"
                                               ELSE IF AtTop(w) THEN "mkdir" ELSE "opendst"])
           /\ UNCHANGED entry
  <2>0. x # Pipe
    <3>1. Value(entry, SrcOf(j)) \in Inside
      BY <1>2 DEF UnderControl, Chained
    <3>2. x \in Inside
      BY <1>1, <3>1 DEF At, Value
    <3> QED
      BY <3>2, KindsDiffer DEF Files, Dirs
  <2>1. i = [j EXCEPT !.half = OpenDir(x), !.pc = IF AtTop(w) THEN "mkdir" ELSE "opendst"]
    BY <1>1, <1>4, <2>0 DEF Becomes
  <2>2. i.half = OpenDir(x) /\ i.pc = (IF AtTop(w) THEN "mkdir" ELSE "opendst")
        /\ i.stack = j.stack /\ i.from = j.from /\ i.to = j.to /\ i.item = j.item
    BY <1>1, <2>1 DEF Job
  <2> HIDE DEF i
  <2>3. SameCalls(j, i)
    BY <2>2 DEF SameCalls, Depth, Call
  <2>4. i.half = Value(entry, SrcOf(j))
    BY <1>1, <1>2, <2>2 DEF UnderControl, Chained, OpenDir, At, Value
  <2>5. i.pc \in AtEntry /\ (Begun(i) <=> Begun(j))
    BY <1>1, <1>2, <2>2, <2>3 DEF AtEntry, Begun, SameCalls
  <2>6. UnderControl(entry, i)
    BY <1>1, <1>2, <2>3, <2>4, <2>5, MovesOn
  <2>7. i.pc # "ok"
    BY <2>2
  <2> QED
    BY <1>4, <2>6, <2>7 DEF Controlled, i
<1> QED
  BY <1>3, <1>4 DEF OpenSource

\* From one call at an entry to the next
LEMMA GotoControls ==
  ASSUME TreeInv, NEW w \in Workers, job[w].op = "copy",
         UnderControl(entry, job[w]), UNCHANGED entry,
         \/ job[w].pc = "chown"
         \/ job[w].pc = "mkdir" /\ At(DstPlace(w)) # Nothing,
         Goto(w, AfterMkdir(w))
  PROVE  Controlled(w)
<1> DEFINE j == job[w]
           i == job'[w]
<1>0. j.pc \in CopySteps /\ j.pc \in AtEntry
  BY DEF CopySteps, AtEntry
<1>1. /\ entry \in Trees /\ job \in [Workers -> Job] /\ j \in Job
      /\ CopyJob(j) /\ SrcPlace(w) = SrcOf(j) /\ DstPlace(w) = DstOf(j)
      /\ AtTop(w) <=> Depth(j) = 0
  BY <1>0, Context
<1>2. i = [j EXCEPT !.pc = AfterMkdir(w)]
  BY <1>1 DEF Goto, Becomes
<1>3. i.half = j.half /\ i.pc = (IF AtTop(w) THEN "opendst" ELSE "opensrc")
      /\ i.stack = j.stack /\ i.from = j.from /\ i.to = j.to /\ i.item = j.item
  BY <1>1, <1>2 DEF Job, AfterMkdir
<1> HIDE DEF i
<1>4. SameCalls(j, i)
  BY <1>3 DEF SameCalls, Depth, Call
<1>5. i.pc \in AtEntry /\ i.pc # "ok" /\ (Halfway(i) => Halfway(j))
  BY <1>1, <1>3 DEF AtEntry, Halfway
<1>6. Halfway(i) => i.half = Value(entry, SrcOf(j))
  BY <1>3, <1>5 DEF UnderControl, Chained
<1>7. (Begun(i) <=> Begun(j)) \/ (~Begun(j) /\ Value(entry, DstOf(j)) # Nothing)
  BY <1>1, <1>3, <1>4 DEF Begun, SameCalls, At, Value
<1>8. UnderControl(entry, i)
  BY <1>0, <1>1, <1>4, <1>5, <1>6, <1>7, MovesOn
<1> QED
  BY <1>5, <1>8 DEF Controlled, i

LEMMA MakeDirControls ==
  ASSUME TreeInv, TreeInv', NEW w \in Workers, job[w].op = "copy", job[w].pc \in CopySteps,
         UnderControl(entry, job[w]), EmptyIn(entry), MakeDir(w)
  PROVE  Controlled(w)
<1> DEFINE j == job[w]
           i == job'[w]
           place == DstPlace(w)
<1>1. /\ entry \in Trees /\ job \in [Workers -> Job] /\ j \in Job
      /\ CopyJob(j) /\ SrcPlace(w) = SrcOf(j) /\ DstPlace(w) = DstOf(j)
      /\ j.stack \in Seq(Frame)
  BY Context
<1>2. j.pc = "mkdir" /\ j.pc \in AtEntry
  BY DEF MakeDir, AtEntry
<1>3. CASE Fail(w)
  BY <1>3, FailControls DEF Fail
<1>4. CASE At(place) # Nothing /\ Goto(w, AfterMkdir(w)) /\ UNCHANGED <<entry, held>>
  BY <1>2, <1>4, GotoControls
<1>5. CASE At(place) = Nothing /\ Linked(place[1]) /\ Unmade # {} /\ Put(place, Made)
           /\ Goto(w, "chown")
  <2>1. i = [j EXCEPT !.pc = "chown"]
    BY <1>1, <1>5 DEF Goto, Becomes
  <2>2. i.half = j.half /\ i.pc = "chown"
        /\ i.stack = j.stack /\ i.from = j.from /\ i.to = j.to /\ i.item = j.item
    BY <1>1, <2>1 DEF Job
  <2> HIDE DEF i
  <2>3. SameCalls(j, i)
    BY <2>2 DEF SameCalls, Depth, Call
  <2>4. Made \in Inside /\ ~Linked(Made) /\ ~Opened(Made)
    BY <1>5 DEF Made, Unmade
  <2> DEFINE d == Made
  <2> HIDE DEF d
  <2>5. d \in Inside /\ ~LinkedIn(entry, d) /\ \A n \in Names : entry[d][n] = Nothing
    BY <2>4, LinkedIsIn DEF EmptyIn, d
  <2>6. \A k \in Calls(j) : d # Call(j, k).src /\ d # Call(j, k).dst
    <3> TAKE k \in Calls(j)
    <3>1. Depth(j) + 1 - k \in DOMAIN j.stack
      BY <1>1, LenProperties DEF Calls, Depth
    <3> QED
      BY <2>4, <3>1 DEF Opened, Call, d
  <2>7. LinkedIn(entry, DstOf(j)[1]) /\ Value(entry, DstOf(j)) = Nothing
    BY <1>1, <1>5, LinkedIsIn DEF At, Value
  <2>8. entry' = [entry EXCEPT ![DstOf(j)[1]][DstOf(j)[2]] = d]
    BY <1>1, <1>5 DEF Put, d
  <2>9. entry' \in Trees
    BY DEF TreeInv, TypeOK, Trees
  <2>10. UnderControl(entry', i)
    BY <1>1, <1>2, <2>2, <2>3, <2>5, <2>6, <2>7, <2>8, <2>9, MakesDir
  <2> QED
    BY <2>2, <2>10 DEF Controlled, i
<1> QED
  BY <1>3, <1>4, <1>5 DEF MakeDir

LEMMA ChownDirControls ==
  ASSUME TreeInv, NEW w \in Workers, job[w].op = "copy",
         UnderControl(entry, job[w]), ChownDir(w)
  PROVE  Controlled(w)
BY GotoControls, FailControls DEF ChownDir, Fail

LEMMA OpenDestControls ==
  ASSUME TreeInv, NEW w \in Workers, job[w].op = "copy", job[w].pc \in CopySteps,
         UnderControl(entry, job[w]), OpenDest(w)
  PROVE  Controlled(w)
<1> DEFINE j == job[w]
           i == job'[w]
           d == OpenDir(At(DstPlace(w)))
           f == [src |-> j.half, dst |-> d, name |-> DstPlace(w)[2], todo |-> {}]
<1>1. /\ entry \in Trees /\ job \in [Workers -> Job] /\ j \in Job
      /\ CopyJob(j) /\ SrcPlace(w) = SrcOf(j) /\ DstPlace(w) = DstOf(j)
      /\ j.stack \in Seq(Frame)
  BY Context
<1>2. j.pc = "opendst" /\ j.pc \in AtEntry /\ UNCHANGED entry
  BY DEF OpenDest, AtEntry
<1>3. CASE End(w, "failed")
  BY <1>3, FailControls
<1>4. CASE d # None /\ j.half # None /\ Push(w, j.half, d, DstPlace(w)[2])
  <2>1. d \in Inside /\ d = Value(entry, DstOf(j)) /\ j.half \in Inside /\ DstPlace(w)[2] \in Names
    BY <1>1, <1>2, <1>4, CopyPlaces DEF OpenDir, Job, At, Value
  <2>2. i = [j EXCEPT !.pc = "list", !.half = None, !.item = None, !.stack = <<f>> \o @]
    BY <1>1, <1>4 DEF Push, Becomes
  <2>3. f \in Frame /\ f.src = j.half /\ f.dst = Value(entry, DstOf(j))
        /\ f.name = DstOf(j)[2] /\ f.todo = {} /\ f.dst \in Inside
    BY <1>1, <2>1 DEF Frame
  <2> HIDE DEF f
  <2>4. i.pc = "list" /\ i.from = j.from /\ i.to = j.to /\ i.stack = <<f>> \o j.stack
    BY <1>1, <2>2 DEF Job
  <2> HIDE DEF i
  <2>5. /\ Depth(i) = Depth(j) + 1 /\ Call(i, Depth(j) + 1) = f
        /\ \A k \in Calls(j) : Call(i, k) = Call(j, k)
    BY <1>1, <2>3, <2>4, CallBegins
  <2>6. UnderControl(entry, i)
    BY <1>1, <1>2, <2>3, <2>4, <2>5, GoesInto
  <2> QED
    BY <1>2, <2>4, <2>6 DEF Controlled, i
<1> QED
  BY <1>3, <1>4 DEF OpenDest

LEMMA ListControls ==
  ASSUME TreeInv, NEW w \in Workers, job[w].op = "copy", job[w].pc \in CopySteps,
         UnderControl(entry, job[w]), List(w)
  PROVE  Controlled(w)
<1> DEFINE j == job[w]
           i == job'[w]
           todo == Listing(Top(w).src)
<1>1. /\ entry \in Trees /\ job \in [Workers -> Job] /\ j \in Job
      /\ CopyJob(j) /\ j.stack \in Seq(Frame)
      /\ AtTop(w) <=> Depth(j) = 0
  BY Context
<1>2. j.pc = "list" /\ j.stack # <<>>
  BY <1>1 DEF List, CopyJob, AtTop
<1>3. CASE Fail(w)
  BY <1>3, FailControls DEF Fail
<1>4. CASE /\ Becomes(w, [job[w] EXCEPT !.pc = "next", !.stack = Left(w, todo)])
           /\ UNCHANGED entry
  <2>1. i = [j EXCEPT !.pc = "next", !.stack = Left(w, todo)]
    BY <1>1, <1>4 DEF Becomes
  <2> HIDE DEF todo
  <2>2. i.pc = "next" /\ i.stack = Left(w, todo) /\ i.from = j.from /\ i.to = j.to
    BY <1>1, <2>1 DEF Job
  <2> HIDE DEF i
  <2>3. Alikened(j, i, todo) /\ Inner(j) = Top(w)
    BY <1>1, <1>2, <2>2, ListOnly
  <2>4. todo = {<<n, Kind(entry[Inner(j).src][n])>> :
                   n \in {m \in Names : entry[Inner(j).src][m] # Nothing}}
    BY <2>3 DEF Listing, todo
  <2>5. UnderControl(entry, i)
    BY <1>1, <1>2, <2>2, <2>3, <2>4, Lists
  <2> QED
    BY <1>4, <2>2, <2>5 DEF Controlled, i
<1> QED
  BY <1>3, <1>4 DEF List

\* What the loop knows of an entry it takes off its list
LEMMA TakeContext ==
  ASSUME TreeInv, NEW w \in Workers, job[w].op = "copy", job[w].pc = "next",
         UnderControl(entry, job[w]), NEW e \in Top(w).todo
  PROVE  /\ entry \in Trees /\ job \in [Workers -> Job] /\ job[w] \in Job
         /\ CopyJob(job[w]) /\ Inner(job[w]) = Top(w)
         /\ e[1] \in Names /\ e[2] = Kind(entry[Top(w).src][e[1]])
         /\ entry[Top(w).src][e[1]] # Nothing /\ entry[Top(w).src][e[1]] \in Things \ {Secret}
         /\ \A i : i.stack = Taken(w, e) /\ i.from = job[w].from /\ i.to = job[w].to
                      => Alikened(job[w], i, Top(w).todo \ {e})
<1> DEFINE j == job[w]
<1>0. j.pc \in CopySteps
  BY DEF CopySteps
<1>1. /\ entry \in Trees /\ job \in [Workers -> Job] /\ j \in Job
      /\ CopyJob(j) /\ j.stack \in Seq(Frame)
      /\ AtTop(w) <=> Depth(j) = 0
      /\ ~AtTop(w) => Top(w) = Inner(j)
  BY <1>0, Context
<1>2. j.stack # <<>> /\ Inner(j) = Top(w) /\ Depth(j) \in Calls(j)
  BY <1>1 DEF CopyJob, AtTop, Calls
<1>3. Inner(j) \in Frame /\ ListedRight(entry, Inner(j))
  BY <1>1, <1>2 DEF CopyJob, Inner, UnderControl, Chained
<1>4. e[1] \in Names /\ e[2] = Kind(entry[Top(w).src][e[1]])
      /\ entry[Top(w).src][e[1]] # Nothing /\ Top(w).src \in Inside
  BY <1>2, <1>3 DEF Frame, ListedRight
<1>5. entry[Top(w).src][e[1]] \in Things \ {Secret}
  <2>1. <<Top(w).src, e[1]>> \in Inside \X Names
    BY <1>4
  <2> QED
    BY <2>1, HomeEntries DEF At
<1>6. ASSUME NEW i, i.stack = Taken(w, e), i.from = j.from, i.to = j.to
      PROVE  Alikened(j, i, Top(w).todo \ {e})
  BY <1>1, <1>2, <1>6, ListOnly DEF Taken
<1> QED
  BY <1>1, <1>2, <1>4, <1>5, <1>6

LEMMA TakeDirControls ==
  ASSUME TreeInv, NEW w \in Workers, job[w].op = "copy", job[w].pc = "next",
         UnderControl(entry, job[w]), NEW e \in Top(w).todo, TakeDir(w, e)
  PROVE  Controlled(w)
<1> DEFINE j == job[w]
           i == job'[w]
<1>1. /\ entry \in Trees /\ job \in [Workers -> Job] /\ j \in Job /\ CopyJob(j) /\ Inner(j) = Top(w)
  BY TakeContext
<1>2. i = [j EXCEPT !.stack = Taken(w, e), !.item = e[1], !.pc = "mkdir"]
  BY <1>1 DEF TakeDir, Becomes
<1>3. i.stack = Taken(w, e) /\ i.item = e[1] /\ i.pc = "mkdir" /\ i.from = j.from /\ i.to = j.to
  BY <1>1, <1>2 DEF Job
<1> HIDE DEF i
<1>4. Alikened(j, i, Top(w).todo \ {e})
  BY <1>3, TakeContext
<1>5. UnderControl(entry, i)
  BY <1>1, <1>3, <1>4, TakesDir DEF TakeDir
<1> QED
  BY <1>3, <1>5 DEF Controlled, TakeDir, i

\* A file or a symlink is copied, or there is no room for it.
LEMMA TakeControls ==
  ASSUME TreeInv, TreeInv', NEW w \in Workers, job[w].op = "copy", job[w].pc = "next",
         UnderControl(entry, job[w]), NEW e \in Top(w).todo, e[2] # "dir",
         job'[w].stack = Taken(w, e), job'[w].pc = "next",
         job'[w].from = job[w].from, job'[w].to = job[w].to,
         \/ /\ At(<<Top(w).dst, e[1]>>) # Nothing \/ ~Linked(Top(w).dst)
            /\ UNCHANGED entry
         \/ /\ At(<<Top(w).dst, e[1]>>) = Nothing
            /\ Put(<<Top(w).dst, e[1]>>, entry[Top(w).src][e[1]])
  PROVE  Controlled(w)
<1> DEFINE j == job[w]
           i == job'[w]
<1>1. /\ entry \in Trees /\ job \in [Workers -> Job] /\ j \in Job /\ CopyJob(j) /\ Inner(j) = Top(w)
  BY TakeContext
<1>2. i.stack = Taken(w, e) /\ i.pc = "next" /\ i.from = j.from /\ i.to = j.to
  OBVIOUS
<1> HIDE DEF i
<1>3. Alikened(j, i, Top(w).todo \ {e})
  BY <1>2, TakeContext
<1>4. CASE /\ At(<<Top(w).dst, e[1]>>) # Nothing \/ ~Linked(Top(w).dst)
           /\ UNCHANGED entry
  <2>1. UnderControl(entry, i)
    BY <1>1, <1>2, <1>3, <1>4, LinkedIsIn, PassesOver DEF At
  <2> QED
    BY <1>2, <1>4, <2>1 DEF Controlled, i
<1>5. CASE /\ At(<<Top(w).dst, e[1]>>) = Nothing
           /\ Put(<<Top(w).dst, e[1]>>, entry[Top(w).src][e[1]])
  <2>1. entry' \in Trees
    BY DEF TreeInv, TypeOK, Trees
  <2>2. entry' = [entry EXCEPT ![Inner(j).dst][e[1]] = entry[Inner(j).src][e[1]]]
        /\ entry[Inner(j).dst][e[1]] = Nothing
    BY <1>1, <1>5 DEF Put, At
  <2>3. UnderControl(entry', i)
    BY <1>1, <1>2, <1>3, <2>1, <2>2, Copies
  <2> QED
    BY <1>2, <2>3 DEF Controlled, i
<1> QED
  BY <1>4, <1>5

LEMMA TakeLinkControls ==
  ASSUME TreeInv, TreeInv', NEW w \in Workers, job[w].op = "copy", job[w].pc = "next",
         UnderControl(entry, job[w]), NEW e \in Top(w).todo, TakeLink(w, e), ~job'[w].skipped
  PROVE  Controlled(w)
<1> DEFINE x == entry[Top(w).src][e[1]]
           place == <<Top(w).dst, e[1]>>
           free == x \in Links /\ At(place) = Nothing /\ Linked(place[1])
<1>1. job \in [Workers -> Job] /\ job[w] \in Job /\ e[2] = Kind(x)
  BY TakeContext
<1>2. e[2] = "link" /\ e[2] # "dir" /\ x \in Links
  BY <1>1 DEF TakeLink, Kind
<1>3. CASE free /\ Take(w, e) /\ Put(place, x)
  <2>1. job'[w] = [job[w] EXCEPT !.stack = Taken(w, e)]
    BY <1>1, <1>3 DEF Take, Becomes
  <2>2. job'[w].stack = Taken(w, e) /\ job'[w].pc = "next"
        /\ job'[w].from = job[w].from /\ job'[w].to = job[w].to
    BY <1>1, <2>1 DEF Job
  <2> QED
    BY <1>2, <1>3, <2>2, TakeControls
<1>4. CASE /\ Becomes(w, [job[w] EXCEPT !.stack = Taken(w, e), !.skipped = @ \/ free])
           /\ UNCHANGED entry
  <2>1. job'[w] = [job[w] EXCEPT !.stack = Taken(w, e), !.skipped = @ \/ free]
    BY <1>1, <1>4 DEF Becomes
  <2>2. job'[w].stack = Taken(w, e) /\ job'[w].pc = "next" /\ ~free
        /\ job'[w].from = job[w].from /\ job'[w].to = job[w].to
    BY <1>1, <2>1 DEF Job
  <2> QED
    BY <1>2, <1>4, <2>2, TakeControls
<1> QED
  BY <1>3, <1>4 DEF TakeLink

LEMMA TakeFileControls ==
  ASSUME TreeInv, TreeInv', NEW w \in Workers, job[w].op = "copy", job[w].pc = "next",
         UnderControl(entry, job[w]), NEW e \in Top(w).todo, TakeFile(w, e), ~job'[w].skipped
  PROVE  Controlled(w)
<1> DEFINE x == entry[Top(w).src][e[1]]
           place == <<Top(w).dst, e[1]>>
           free == x \in Files \cup Inside /\ At(place) = Nothing /\ Linked(place[1])
           on == [job[w] EXCEPT !.pc = "next", !.item = None, !.stack = Taken(w, e)]
           stuck == [job[w] EXCEPT !.pc = "stuck", !.stack = Taken(w, e), !.item = e[1]]
<1>1. /\ job \in [Workers -> Job] /\ job[w] \in Job /\ e[2] = Kind(x)
      /\ x \in Things \ {Secret} /\ x # Nothing
  BY TakeContext
<1>2. e[2] = "file" /\ e[2] # "dir" /\ x \notin Inside /\ x \in Files
  BY <1>1 DEF TakeFile, Kind, Things
<1>3. CASE Becomes(w, [on EXCEPT !.skipped = @ \/ free]) /\ UNCHANGED entry
  <2>1. job'[w] = [on EXCEPT !.skipped = @ \/ free]
    BY <1>1, <1>3 DEF Becomes
  <2>2. job'[w].stack = Taken(w, e) /\ job'[w].pc = "next" /\ ~free
        /\ job'[w].from = job[w].from /\ job'[w].to = job[w].to
    BY <1>1, <2>1 DEF Job
  <2> QED
    BY <1>2, <1>3, <2>2, TakeControls
<1>4. CASE free /\ Becomes(w, on) /\ Put(place, x)
  <2>1. job'[w] = on
    BY <1>1, <1>4 DEF Becomes
  <2>2. job'[w].stack = Taken(w, e) /\ job'[w].pc = "next"
        /\ job'[w].from = job[w].from /\ job'[w].to = job[w].to
    BY <1>1, <2>1 DEF Job
  <2> QED
    BY <1>2, <1>4, <2>2, TakeControls
<1>5. CASE End(w, "failed")
  BY <1>5, FailControls
<1>6. CASE Becomes(w, stuck)
  <2>1. job'[w].pc = "stuck"
    BY <1>1, <1>6 DEF Becomes, Job
  <2> QED
    BY <2>1 DEF Controlled, Walking
<1>7. CASE CopyFile(w, e[1], x, Taken(w, e), 0)
  BY <1>3, <1>4, <1>5, <1>7 DEF CopyFile
<1> QED
  BY <1>6, <1>7 DEF TakeFile

LEMMA ReturnControls ==
  ASSUME TreeInv, NEW w \in Workers, job[w].op = "copy", job[w].pc \in CopySteps,
         UnderControl(entry, job[w]), Return(w)
  PROVE  Controlled(w)
<1> DEFINE j == job[w]
           i == job'[w]
           rest == Tail(j.stack)
<1>1. /\ entry \in Trees /\ job \in [Workers -> Job] /\ j \in Job
      /\ CopyJob(j) /\ j.stack \in Seq(Frame)
      /\ AtTop(w) <=> Depth(j) = 0
      /\ ~AtTop(w) => Top(w) = Inner(j)
  BY Context
<1>2. /\ j.pc = "next" /\ UNCHANGED entry /\ j.stack # <<>>
      /\ Inner(j).todo = {} /\ Depth(j) \in Nat
  BY <1>1 DEF Return, CopyJob, AtTop
<1>3. Len(rest) = Depth(j) - 1 /\ rest \in Seq(Frame)
  BY <1>1, <1>2, HeadTailProperties DEF Depth
<1>4. CASE /\ rest # <<>>
           /\ Becomes(w, [job[w] EXCEPT !.stack = rest, !.item = None])
  <2>1. i = [j EXCEPT !.stack = rest, !.item = None]
    BY <1>1, <1>4 DEF Becomes
  <2>2. i.stack = rest /\ i.pc = "next" /\ i.from = j.from /\ i.to = j.to
    BY <1>1, <1>2, <2>1 DEF Job
  <2> HIDE DEF i
  <2>3. Depth(j) # 1
    BY <1>2, <1>3, <1>4, EmptySeq
  <2>4. Depth(i) = Depth(j) - 1 /\ \A k \in Calls(i) : Call(i, k) = Call(j, k)
    BY <1>1, <1>2, <2>2, CallReturns
  <2>5. UnderControl(entry, i)
    BY <1>1, <1>2, <2>2, <2>3, <2>4, ReturnsTo
  <2> QED
    BY <1>2, <2>2, <2>5 DEF Controlled, i
<1>5. CASE rest = <<>> /\ End(w, "ok")
  <2>1. i = [j EXCEPT !.pc = "ok", !.stack = <<>>, !.item = None, !.half = None]
    BY <1>1, <1>5 DEF End, Becomes
  <2>2. i.pc = "ok" /\ i.from = j.from /\ i.to = j.to
    BY <1>1, <2>1 DEF Job
  <2> HIDE DEF i
  <2>3. Depth(j) = 1
    <3>1. Len(rest) = 0
      BY <1>5, EmptySeq
    <3>2. Depth(j) \in Nat /\ 0 = Depth(j) - 1
      BY <1>2, <1>3, <3>1
    <3> QED
      BY <3>2
  <2>4. Matched(entry, Value(entry, j.from), Value(entry, j.to))
    BY <1>1, <1>2, <2>3, IsDone
  <2> QED
    BY <1>2, <2>2, <2>4 DEF Controlled, Walking, CopySteps, i
<1> QED
  BY <1>4, <1>5 DEF Return

\* A step of a copy answers as it did, asks as it did, and forgets nothing it
\* has passed over.
LEMMA CopyKeepsRequest ==
  ASSUME TreeInv, NEW w \in Workers, Continue(w)
  PROVE  /\ job'[w].op = job[w].op /\ (job[w].skipped => job'[w].skipped)
         /\ job[w].pc \in CopySteps \cup RemoveSteps
         /\ job[w].op = "copy" => job[w].pc \in Walking
<1>1. job \in [Workers -> Job] /\ job[w] \in Job
  BY DEF TreeInv, TypeOK
<1>2. job[w].pc \in Walking \cup RemoveSteps /\ job[w].pc # "stuck"
  BY DEF Continue, OpenSource, MakeDir, ChownDir, OpenDest, Enter, List, Return, RmDir,
         Walking, CopySteps, RemoveSteps
<1>3. /\ job[w].op = "copy" => job[w].pc \in Walking
      /\ job[w].pc \in CopySteps \cup RemoveSteps
  BY <1>2, StepFacts DEF JobOK, HeldOK, Walking, CopySteps, RemoveSteps
<1>4. ASSUME NEW how, End(w, how)
      PROVE  job'[w].op = job[w].op /\ job'[w].skipped = job[w].skipped
  BY <1>1, <1>4 DEF End, Becomes, Job
<1>5. ASSUME NEW step, Goto(w, step)
      PROVE  job'[w].op = job[w].op /\ job'[w].skipped = job[w].skipped
  BY <1>1, <1>5 DEF Goto, Becomes, Job
<1>6. ASSUME NEW src, NEW dst, NEW name, Push(w, src, dst, name)
      PROVE  job'[w].op = job[w].op /\ job'[w].skipped = job[w].skipped
  BY <1>1, <1>6 DEF Push, Becomes, Job
<1>7. ASSUME NEW e, Take(w, e)
      PROVE  job'[w].op = job[w].op /\ job'[w].skipped = job[w].skipped
  BY <1>1, <1>7 DEF Take, Becomes, Job
<1>8. ASSUME OpenSource(w) \/ List(w)
      PROVE  job'[w].op = job[w].op /\ job'[w].skipped = job[w].skipped
  <2>1. ASSUME NEW a, NEW b, Becomes(w, [job[w] EXCEPT !.half = a, !.pc = b])
        PROVE  job'[w].op = job[w].op /\ job'[w].skipped = job[w].skipped
    BY <1>1, <2>1 DEF Becomes, Job
  <2>2. ASSUME NEW a, NEW b, Becomes(w, [job[w] EXCEPT !.pc = a, !.stack = b])
        PROVE  job'[w].op = job[w].op /\ job'[w].skipped = job[w].skipped
    BY <1>1, <2>2 DEF Becomes, Job
  <2>3. CASE OpenSource(w)
    BY <1>4, <2>1, <2>3 DEF OpenSource, Fail
  <2>4. CASE List(w)
    BY <1>4, <2>2, <2>4 DEF List, Fail
  <2> QED
    BY <1>8, <2>3, <2>4
<1>9. ASSUME MakeDir(w) \/ ChownDir(w) \/ RmDir(w)
      PROVE  job'[w].op = job[w].op /\ job'[w].skipped = job[w].skipped
  BY <1>4, <1>5, <1>9 DEF MakeDir, ChownDir, RmDir, Fail
<1>10. ASSUME OpenDest(w) \/ Enter(w)
       PROVE  job'[w].op = job[w].op /\ job'[w].skipped = job[w].skipped
  BY SMTT(40), <1>4, <1>6, <1>10 DEF OpenDest, Enter, Fail
<1>11. ASSUME Return(w)
       PROVE  job'[w].op = job[w].op /\ job'[w].skipped = job[w].skipped
  <2>1. ASSUME NEW a, NEW b, NEW c,
               Becomes(w, [job[w] EXCEPT !.pc = a, !.stack = b, !.item = c])
        PROVE  job'[w].op = job[w].op /\ job'[w].skipped = job[w].skipped
    BY <1>1, <2>1 DEF Becomes, Job
  <2>2. ASSUME NEW a, NEW b, Becomes(w, [job[w] EXCEPT !.stack = a, !.item = b])
        PROVE  job'[w].op = job[w].op /\ job'[w].skipped = job[w].skipped
    BY <1>1, <2>2 DEF Becomes, Job
  <2> QED
    BY <1>4, <1>11, <2>1, <2>2 DEF Return
<1>12. ASSUME NEW e, TakeOther(w, e)
       PROVE  job'[w].op = job[w].op /\ job'[w].skipped = job[w].skipped
  BY <1>4, <1>7, <1>12 DEF TakeOther, Fail
<1>13. ASSUME NEW e, TakeDir(w, e)
       PROVE  job'[w].op = job[w].op /\ job'[w].skipped = job[w].skipped
  BY <1>1, <1>13 DEF TakeDir, Becomes, Job
<1>14. ASSUME NEW e, TakeFile(w, e)
       PROVE  job'[w].op = job[w].op /\ (job[w].skipped => job'[w].skipped)
  <2>1. ASSUME NEW a, Becomes(w, [job[w] EXCEPT !.pc = "stuck", !.stack = Taken(w, e), !.item = a])
        PROVE  job'[w].op = job[w].op /\ job'[w].skipped = job[w].skipped
    BY SMTT(40), <1>1, <2>1 DEF Becomes, Job
  <2>2. CASE CopyFile(w, e[1], entry[Top(w).src][e[1]], Taken(w, e), 0)
    <3> DEFINE on == [job[w] EXCEPT !.pc = "next", !.item = None, !.stack = Taken(w, e)]
    <3>1. ASSUME NEW free, Becomes(w, [on EXCEPT !.skipped = @ \/ free])
          PROVE  job'[w].op = job[w].op /\ (job[w].skipped => job'[w].skipped)
      BY <1>1, <3>1 DEF Becomes, Job
    <3>2. ASSUME Becomes(w, on)
          PROVE  job'[w].op = job[w].op /\ job'[w].skipped = job[w].skipped
      BY <1>1, <3>2 DEF Becomes, Job
    <3> QED
      BY <1>4, <2>2, <3>1, <3>2 DEF CopyFile
  <2> QED
    BY <1>14, <2>1, <2>2 DEF TakeFile
<1>15. ASSUME NEW e, TakeLink(w, e)
       PROVE  job'[w].op = job[w].op /\ (job[w].skipped => job'[w].skipped)
  <2>1. ASSUME NEW free, Becomes(w, [job[w] EXCEPT !.stack = Taken(w, e), !.skipped = @ \/ free])
        PROVE  job'[w].op = job[w].op /\ (job[w].skipped => job'[w].skipped)
    BY <1>1, <2>1 DEF Becomes, Job
  <2> QED
    BY <1>7, <1>15, <2>1 DEF TakeLink
<1> QED
  BY <1>2, <1>3, <1>8, <1>9, <1>10, <1>11, <1>12, <1>13, <1>14, <1>15 DEF Continue

LEMMA CopyControls ==
  ASSUME TreeInv, TreeInv', NEW w \in Workers, Continue(w), EmptyIn(entry),
         job[w].op = "copy", ~job'[w].skipped, UnderControl(entry, job[w])
  PROVE  Controlled(w)
<1>1. job[w].pc \in CopySteps /\ job[w].pc \notin {"enter", "rmdir"}
  BY CopyKeepsRequest DEF Walking, CopySteps
<1>2. ASSUME job[w].pc = "next", NEW e \in Top(w).todo,
             TakeDir(w, e) \/ TakeLink(w, e) \/ TakeFile(w, e) \/ TakeOther(w, e)
      PROVE  Controlled(w)
  BY <1>2, TakeDirControls, TakeLinkControls, TakeFileControls DEF TakeOther, Is
<1> QED
  BY <1>1, <1>2, OpenSourceControls, MakeDirControls, ChownDirControls, OpenDestControls,
     ListControls, ReturnControls DEF Continue, Enter, RmDir

---------------------------------------------------------------------------
(* Directories that are not linked stay empty.                              *)

LEMMA EmptyWhenPut ==
  ASSUME NEW E \in Trees, NEW F \in Trees, EmptyIn(E), NEW p \in Inside \X Names, NEW x,
         F = [E EXCEPT ![p[1]][p[2]] = x],
         \/ Value(E, p) = Nothing /\ LinkedIn(E, p[1])
         \/ x = Nothing /\ Value(E, p) \notin Inside
         \/ x = Nothing /\ \A n \in Names : E[Value(E, p)][n] = Nothing
  PROVE  EmptyIn(F)
<1>1. Inside \subseteq Dirs /\ Nothing \notin Inside
  BY KindsDiffer DEF Dirs
<1>2. /\ \A c \in Dirs, n \in Names : <<c, n>> # p => F[c][n] = E[c][n]
      /\ F[p[1]][p[2]] = x
  BY <1>1 DEF Trees
<1>3. SUFFICES ASSUME NEW d \in Inside, ~LinkedIn(F, d), NEW n \in Names
               PROVE  F[d][n] = Nothing
  BY DEF EmptyIn
<1>4. \A q \in Places : q # p => Value(F, q) = Value(E, q)
  BY <1>2 DEF Places, Value
<1>5. CASE Value(E, p) = Nothing /\ LinkedIn(E, p[1])
  <2>1. Grows(E, F)
    BY <1>4, <1>5 DEF Grows
  <2>2. ~LinkedIn(E, d)
    BY <1>1, <1>3, <2>1, StillLinked
  <2>3. <<d, n>> # p
    BY <1>5, <2>2
  <2> QED
    BY <1>1, <1>2, <2>2, <2>3 DEF EmptyIn
<1>6. CASE x = Nothing /\ Value(E, p) # d
  <2>1. ~LinkedIn(E, d)
    BY <1>3, <1>4, <1>6 DEF LinkedIn
  <2>2. E[d][n] = Nothing
    BY <2>1 DEF EmptyIn
  <2> QED
    BY <1>1, <1>2, <1>6, <2>2
<1>7. CASE x = Nothing /\ Value(E, p) = d /\ \A m \in Names : E[d][m] = Nothing
  BY <1>1, <1>2, <1>7
<1> QED
  BY <1>5, <1>6, <1>7

LEMMA EmptyWhenMoved ==
  ASSUME TreeInv, EmptyIn(entry), NEW p \in Places, NEW q \in Places,
         Reachable(p), Reachable(q), ShellMoves(p, q)
  PROVE  EmptyIn(entry')
<1>1. /\ Inside \subseteq Dirs /\ Nothing \notin Inside
      /\ p \in Inside \X Names /\ q \in Inside \X Names
  BY KindsDiffer DEF Dirs, Reachable, Places
<1>2. entry' = [d \in Dirs |-> [n \in Names |->
                    CASE <<d, n>> = p -> Nothing
                      [] <<d, n>> = q -> At(p)
                      [] OTHER -> entry[d][n]]]
  BY DEF ShellMoves
<1>3. p # q
  BY DEF ShellMoves
<1>4. /\ Value(entry', q) = Value(entry, p)
      /\ \A c \in Places : c \notin {p, q} => Value(entry', c) = Value(entry, c)
      /\ \A d \in Inside, n \in Names : <<d, n>> # q =>
            entry'[d][n] = entry[d][n] \/ entry'[d][n] = Nothing
  BY <1>1, <1>2, <1>3 DEF Value, At, Places
<1>5. Value(entry, q) = Nothing
  BY DEF ShellMoves, At, Value
<1>6. \A d \in Inside : LinkedIn(entry, d) => LinkedIn(entry', d)
  BY <1>1, <1>4, <1>5 DEF LinkedIn
<1>7. LinkedIn(entry', q[1])
  BY <1>1, <1>6, LinkedIsIn DEF Reachable
<1> QED
  BY <1>4, <1>6, <1>7 DEF EmptyIn

LEMMA EmptyWhenCopied ==
  ASSUME TreeInv, EmptyIn(entry), NEW w \in Workers, Top(w).dst \in Inside,
         NEW name \in Names, NEW x \in Things, NEW calls, NEW opened,
         CopyFile(w, name, x, calls, opened)
  PROVE  EmptyIn(entry')
<1> DEFINE place == <<Top(w).dst, name>>
<1>1. entry \in Trees
  BY DEF TreeInv, TypeOK, Trees
<1>2. ASSUME NEW c \in Things, Put(place, c), At(place) = Nothing, Linked(place[1])
      PROVE  EmptyIn(entry')
  <2>1. place \in Inside \X Names /\ entry' = [entry EXCEPT ![place[1]][place[2]] = c]
    BY <1>2 DEF Put
  <2>2. entry' \in Trees
    BY <1>1, <1>2, <2>1 DEF Trees, Dirs
  <2>3. Value(entry, place) = Nothing /\ LinkedIn(entry, place[1])
    BY <1>2, LinkedIsIn DEF Value, At
  <2> HIDE DEF place
  <2> QED
    BY <1>1, <1>2, <2>1, <2>2, <2>3, EmptyWhenPut
<1>3. CASE UNCHANGED entry
  BY <1>3
<1>4. Torn \in Things
  BY DEF Things, Files
<1> QED
  BY <1>2, <1>3, <1>4 DEF CopyFile

\* Whatever a request or the shell does, what is not linked stays empty.
LEMMA EmptyWhenCarried ==
  ASSUME TreeInv, EmptyIn(entry), NEW w \in Workers, Continue(w)
  PROVE  EmptyIn(entry')
<1>1. entry \in Trees
  BY DEF TreeInv, TypeOK, Trees
<1>2. ASSUME NEW p \in Inside \X Names, NEW x \in Things, Put(p, x),
             \/ At(p) = Nothing /\ Linked(p[1])
             \/ x = Nothing /\ At(p) \notin Inside
             \/ x = Nothing /\ \A n \in Names : entry[At(p)][n] = Nothing
      PROVE  EmptyIn(entry')
  <2>1. entry' = [entry EXCEPT ![p[1]][p[2]] = x]
    BY <1>2 DEF Put
  <2>2. entry' \in Trees
    BY <1>1, <1>2, <2>1 DEF Trees, Dirs
  <2>3. Value(entry, p) = At(p)
    BY DEF Value, At
  <2> QED
    BY ZenonT(80), <1>1, <1>2, <2>1, <2>2, <2>3, LinkedIsIn, EmptyWhenPut
<1>3. CASE UNCHANGED entry
  BY <1>3
<1>4. ASSUME MakeDir(w) PROVE EmptyIn(entry')
  <2>1. DstPlace(w) \in Inside \X Names
    <3>1. job[w].pc = "mkdir"
      BY <1>4 DEF MakeDir
    <3>2. job[w].op = "copy"
      BY <3>1, Running
    <3> QED
      BY <3>1, <3>2, DstIsInside DEF CopySteps
  <2>2. Unmade # {} => Made \in Things
    BY DEF Made, Unmade, Things
  <2> QED
    BY <1>2, <1>3, <1>4, <2>1, <2>2 DEF MakeDir, Fail
<1>5. ASSUME RmDir(w) PROVE EmptyIn(entry')
  <2>1. SrcPlace(w) \in Inside \X Names /\ Nothing \in Things
    BY <1>5, SrcIsInside DEF RmDir, RemoveSteps, Things
  <2> QED
    BY <1>2, <1>3, <1>5, <2>1 DEF RmDir, Fail
<1>6. ASSUME job[w].pc = "next", NEW e \in Top(w).todo,
             TakeDir(w, e) \/ TakeLink(w, e) \/ TakeFile(w, e) \/ TakeOther(w, e)
      PROVE  EmptyIn(entry')
  <2>1. e[1] \in Names /\ Top(w).src \in Inside /\ (job[w].op = "copy" => Top(w).dst \in Inside)
    BY <1>6, TakenFacts
  <2>2. entry[Top(w).src][e[1]] \in Things /\ Torn \in Things /\ Nothing \in Things
    BY <1>1, <2>1 DEF Trees, Dirs, Things, Files
  <2>3. CASE TakeDir(w, e)
    BY <1>3, <2>3 DEF TakeDir
  <2>4. CASE TakeLink(w, e)
    BY <1>2, <1>3, <2>1, <2>2, <2>4 DEF TakeLink, Is
  <2>5. CASE TakeFile(w, e)
    <3>1. job[w].op = "copy"
      BY <2>5 DEF TakeFile, Is
    <3>2. CASE CopyFile(w, e[1], entry[Top(w).src][e[1]], Taken(w, e), 0)
      BY <2>1, <2>2, <3>1, <3>2, EmptyWhenCopied
    <3> QED
      BY <1>3, <2>5, <3>2 DEF TakeFile
  <2>6. CASE TakeOther(w, e)
    <3>1. <<Top(w).src, e[1]>> \in Inside \X Names
      BY <2>1
    <3>2. (Links \cup Files) \cap Inside = {}
      BY KindsDiffer DEF Dirs
    <3> QED
      BY <1>2, <1>3, <2>2, <2>6, <3>1, <3>2 DEF TakeOther, Fail
  <2> QED
    BY <1>6, <2>3, <2>4, <2>5, <2>6
<1> QED
  BY <1>3, <1>4, <1>5, <1>6
     DEF Continue, OpenSource, ChownDir, OpenDest, Enter, List, Return, Fail

LEMMA EmptyInShell ==
  ASSUME TreeInv, EmptyIn(entry), Shell
  PROVE  EmptyIn(entry')
<1>1. entry \in Trees
  BY DEF TreeInv, TypeOK, Trees
<1>2. ASSUME NEW p \in Places, Reachable(p), ShellPuts(p) PROVE EmptyIn(entry')
  <2>1. p \in Inside \X Names /\ Linked(p[1])
    BY <1>2 DEF Reachable, Places
  <2>2. PICK x \in Things :
          /\ Put(p, x)
          /\ \/ At(p) = Nothing
             \/ x = Nothing /\ At(p) \notin Inside
             \/ x = Nothing /\ \A n \in Names : entry[At(p)][n] = Nothing
    <3>1. (Links \cup Files) \cap Inside = {} /\ Links \cup {Mine, Pipe, Nothing} \subseteq Things
      BY KindsDiffer DEF Dirs, Things, Files
    <3> QED
      BY <1>2, <3>1 DEF ShellPuts
  <2>3. entry' = [entry EXCEPT ![p[1]][p[2]] = x]
    BY <2>2 DEF Put
  <2>4. entry' \in Trees
    BY <1>1, <2>1, <2>3 DEF Trees, Dirs
  <2>5. Value(entry, p) = At(p)
    BY DEF Value, At
  <2> QED
    BY <1>1, <2>1, <2>2, <2>3, <2>4, <2>5, LinkedIsIn, EmptyWhenPut
<1> QED
  BY <1>2, EmptyWhenMoved DEF Shell

LEMMA EmptyWhenFed ==
  ASSUME TreeInv, EmptyIn(entry), NEW w \in Workers, Feed(w)
  PROVE  EmptyIn(entry')
<1>1. job[w].pc = "stuck"
  BY DEF Feed
<1>2. CASE AtTop(w)
  <2>1. UNCHANGED entry
    BY <1>2 DEF Feed
  <2> QED
    BY <2>1
<1>3. CASE ~AtTop(w)
  <2>1. job[w].op = "copy" /\ Top(w) \in Good(job[w].op, ours[w]) /\ job[w].item \in Names
    BY <1>1, <1>3, Running, StepFacts, TopFacts DEF AtTop, JobOK, CopySteps
  <2>2. Top(w).dst \in Inside /\ Mine \in Things
    BY <2>1 DEF Good, Things, Files
  <2>3. CopyFile(w, job[w].item, Mine, job[w].stack, 1)
    BY <1>3 DEF Feed
  <2> QED
    BY <2>1, <2>2, <2>3, EmptyWhenCopied
<1> QED
  BY <1>2, <1>3

LEMMA EmptyAtFirst ==
  ASSUME Init PROVE EmptyIn(entry)
<1>1. \A d \in Dirs : entry[d] = IF d = Outside THEN [n \in Names |-> Secret] ELSE InitialTree[d]
  BY DEF Init
<1>2. Inside \subseteq Dirs /\ Outside \notin Inside
  BY ConstantsOK DEF Dirs
<1>3. SUFFICES ASSUME NEW d \in Inside, ~LinkedIn(entry, d), NEW n \in Names
               PROVE  entry[d][n] = Nothing
  BY DEF EmptyIn
<1>4. d # Home /\ \A c \in Inside, m \in Names : InitialTree[c][m] # d
  <2>1. d # Home /\ \A place \in Places : Value(entry, place) # d
    BY <1>3 DEF LinkedIn
  <2>2. ASSUME NEW c \in Inside, NEW m \in Names PROVE InitialTree[c][m] # d
    <3>1. <<c, m>> \in Places
      BY <1>2 DEF Places
    <3> QED
      BY <1>1, <1>2, <2>1, <3>1 DEF Value
  <2> QED
    BY <2>1, <2>2
<1>5. InitialTree[d][n] = Nothing
  BY <1>4, ConstantsOK
<1> QED
  BY <1>1, <1>2, <1>5

---------------------------------------------------------------------------
(* A copy stays under control.                                              *)

LEMMA BeginControls ==
  ASSUME TreeInv, TreeInv', NEW w \in Workers, Begin(w), job'[w].op = "copy"
  PROVE  UNCHANGED entry /\ job'[w].pc = "opensrc" /\ UnderControl(entry, job'[w])
<1>1. job \in [Workers -> Job]
  BY DEF TreeInv, TypeOK
<1>2. ASSUME NEW from, BeginRemove(w, from) PROVE FALSE
  BY <1>1, <1>2 DEF BeginRemove, Becomes, Idle
<1>3. PICK from \in Sources, to \in Targets : BeginCopy(w, from, to)
  BY <1>2 DEF Begin
<1>4. job'[w] = [Idle EXCEPT !.op = "copy", !.pc = "opensrc", !.from = from, !.to = to]
      /\ UNCHANGED entry /\ At(to) = Nothing /\ At(from) \in Inside
  BY <1>1, <1>3 DEF BeginCopy, Becomes
<1> DEFINE j == job'[w]
<1>5. j.pc = "opensrc" /\ j.op = "copy" /\ j.from = from /\ j.to = to /\ j.stack = <<>>
  BY <1>4 DEF Idle
<1>6. JobOK(j, held'[w], ours'[w])
  BY DEF TreeInv
<1> HIDE DEF j
<1>7. CopyJob(j)
  BY <1>5, <1>6, CopyJobOK DEF CopySteps
<1>8. Depth(j) = 0
  BY <1>5, EmptySeq DEF Depth
<1>9. entry \in Trees /\ Value(entry, j.from) \in Inside /\ Value(entry, j.to) = Nothing
  BY <1>4, <1>5 DEF TreeInv, TypeOK, Trees, Value, At
<1>10. UnderControl(entry, j)
  BY <1>5, <1>7, <1>8, <1>9, CopyBegins
<1> QED
  BY <1>4, <1>5, <1>10 DEF j

LEMMA CopyInit == Init => CopyInv
<1> SUFFICES ASSUME Init PROVE CopyInv
  OBVIOUS
<1>1. EmptyIn(entry)
  BY EmptyAtFirst
<1>2. \A w \in Workers : ~Copying(w)
  BY DEF Init, Idle, Copying
<1> QED
  BY <1>1, <1>2 DEF CopyInv

\* Whoever else acts, what a copy that is under way answers is not of interest
\* any more; before it is under way there is nothing to say.
LEMMA CopyOthers ==
  ASSUME TreeInv, CopyInv, NEW v \in Workers, NEW S, Disturbed(S), v \notin S,
         job'[v] = job[v], Copying(v)'
  PROVE  job'[v].pc = "idle"
BY DEF Disturbed, Copying

LEMMA CopyNext == TreeInv /\ TreeInv' /\ CopyInv /\ [Next]_vars => CopyInv'
<1> SUFFICES ASSUME TreeInv, TreeInv', CopyInv, [Next]_vars PROVE CopyInv'
  OBVIOUS
<1> DEFINE Held(v) == /\ job'[v].pc \in Walking => UnderControl(entry', job'[v])
                      /\ job'[v].pc = "ok" =>
                           Matched(entry', Value(entry', job'[v].from), Value(entry', job'[v].to))
<1>1. SUFFICES /\ EmptyIn(entry')
               /\ \A v \in Workers : Copying(v)' => Held(v)
  BY DEF CopyInv
<1>2. job \in [Workers -> Job] /\ EmptyIn(entry)
  BY DEF TreeInv, TypeOK, CopyInv
<1>3. ASSUME NEW v \in Workers, job'[v].pc = "idle" PROVE Held(v)
  BY <1>3 DEF Walking, CopySteps
<1>4. ASSUME NEW w \in Workers, Begin(w), Disturbed({w})
      PROVE  EmptyIn(entry') /\ \A v \in Workers : Copying(v)' => Held(v)
  <2>1. UNCHANGED entry /\ \A v \in Workers \ {w} : job'[v] = job[v]
    BY <1>2, <1>4, BeginKeeps DEF Keeps, Becomes
  <2>2. ASSUME NEW v \in Workers \ {w}, Copying(v)' PROVE Held(v)
    BY <1>3, <1>4, <2>1, <2>2, CopyOthers
  <2>3. ASSUME Copying(w)' PROVE Held(w)
    BY <1>4, <2>3, BeginControls DEF Copying
  <2> QED
    BY <1>2, <2>1, <2>2, <2>3
<1>5. ASSUME NEW w \in Workers, Carry(w)
      PROVE  EmptyIn(entry') /\ \A v \in Workers : Copying(v)' => Held(v)
  <2>1. Continue(w) /\ Disturbed({w}) /\ Watched
    BY <1>5 DEF Carry
  <2>2. \A v \in Workers \ {w} : job'[v] = job[v]
    BY <1>2, <2>1, ContinueKeeps DEF Keeps, Becomes
  <2>3. ASSUME NEW v \in Workers \ {w}, Copying(v)' PROVE Held(v)
    BY <1>3, <2>1, <2>2, <2>3, CopyOthers
  <2>4. ASSUME Copying(w)' PROVE Held(w)
    <3>1. job'[w].op = job[w].op /\ (job[w].skipped => job'[w].skipped)
          /\ (job[w].op = "copy" => job[w].pc \in Walking)
      BY <2>1, CopyKeepsRequest
    <3>2. alone[w]
      BY <2>1, <2>4 DEF Disturbed, Copying
    <3>3. Copying(w) /\ job[w].pc \in Walking /\ ~job'[w].skipped
      BY <2>4, <3>1, <3>2 DEF Copying
    <3>4. UnderControl(entry, job[w])
      BY <3>3 DEF CopyInv
    <3>5. Controlled(w)
      BY <1>2, <2>1, <3>3, <3>4, CopyControls DEF Copying
    <3> QED
      BY <3>5 DEF Controlled
  <2> QED
    BY <1>2, <2>1, <2>3, <2>4, EmptyWhenCarried
<1>6. CASE Shell /\ Disturbed({})
  <2>1. \A v \in Workers : job'[v] = job[v]
    BY <1>6 DEF Shell
  <2>2. ASSUME NEW v \in Workers, Copying(v)' PROVE Held(v)
    BY <1>3, <1>6, <2>1, <2>2, CopyOthers
  <2> QED
    BY <1>2, <1>6, <2>2, EmptyInShell
<1>7. ASSUME NEW w \in Workers, Feed(w), Disturbed({})
      PROVE  EmptyIn(entry') /\ \A v \in Workers : Copying(v)' => Held(v)
  <2>1. \A v \in Workers \ {w} : job'[v] = job[v]
    BY <1>2, <1>7, FeedKeeps DEF Keeps, Becomes
  <2>2. ASSUME NEW v \in Workers \ {w}, Copying(v)' PROVE Held(v)
    BY <1>3, <1>7, <2>1, <2>2, CopyOthers
  <2>3. ~Copying(w)'
    BY <1>7 DEF Feed, Disturbed, Copying
  <2> QED
    BY <1>2, <1>7, <2>2, <2>3, EmptyWhenFed
<1>8. CASE UNCHANGED vars
  <2>1. UNCHANGED <<entry, job, alone>>
    BY <1>8 DEF vars
  <2> QED
    BY <2>1 DEF CopyInv, Copying
<1> QED
  BY <1>1, <1>4, <1>5, <1>6, <1>7, <1>8 DEF Next

---------------------------------------------------------------------------
(* Two trees that match are alike.                                          *)

\* A set of numbers that is not empty has a least one.
LEMMA LeastOf ==
  ASSUME NEW T \in SUBSET Nat, T # {}
  PROVE  \E x \in T : \A y \in T : x <= y
<1> DEFINE R == {ss \in Nat \X Nat : ss[1] < ss[2]}
<1>1. IsWellFoundedOn(R, Nat)
  BY NatLessThanWellFounded DEF OpToRel
<1> HIDE DEF R
<1>2. PICK x \in T : \A y \in T : <<y, x>> \notin R
  BY <1>1, WFMin
<1>3. \A y \in T : ~(y < x)
  BY <1>2 DEF R
<1> QED
  BY <1>3

\* Those of Alike's pairs that are alike one level further down
Deeper(S) ==
    {pair \in Inside \X Inside :
        \A n \in Names :
           LET c == entry[pair[1]][n]
               d == entry[pair[2]][n]
           IN (c = d /\ c \notin Inside) \/ <<c, d>> \in S}

Levels(N, h) == h = [k \in 0..N |-> IF k = 0 THEN Inside \X Inside ELSE Deeper(h[k - 1])]

LEMMA LevelsExist ==
  ASSUME NEW N \in Nat
  PROVE  \E h : Levels(N, h)
<1> DEFINE Short == {n \in Nat : ~\E h : Levels(n, h)}
<1>1. SUFFICES ASSUME Short # {} PROVE FALSE
  OBVIOUS
<1>2. PICK n \in Short : \A k \in Short : n <= k
  BY <1>1, LeastOf
<1>3. n \in Nat /\ ~\E h : Levels(n, h)
  BY <1>2
<1>4. n # 0
  <2>1. ASSUME n = 0 PROVE FALSE
    <3> DEFINE h == [k \in 0..0 |-> Inside \X Inside]
    <3>1. \A k \in 0..0 : k = 0
      OBVIOUS
    <3>2. Levels(0, h)
      BY <3>1 DEF Levels
    <3> QED
      BY <1>3, <2>1, <3>2
  <2> QED
    BY <2>1
<1>5. n - 1 \in Nat /\ n - 1 \notin Short
  BY <1>2, <1>3, <1>4
<1>6. PICK h : Levels(n - 1, h)
  BY <1>5
<1> DEFINE g == [k \in 0..n |-> IF k = n THEN Deeper(h[n - 1]) ELSE h[k]]
<1>7. \A k \in 0..(n - 1) : h[k] = IF k = 0 THEN Inside \X Inside ELSE Deeper(h[k - 1])
  BY <1>6 DEF Levels
<1>8. ASSUME NEW k \in 0..n
      PROVE  g[k] = IF k = 0 THEN Inside \X Inside ELSE Deeper(g[k - 1])
  <2>1. CASE k = n
    <3>1. n - 1 \in 0..n /\ n - 1 # n
      BY <1>3, <1>4
    <3>2. g[n - 1] = h[n - 1] /\ g[n] = Deeper(h[n - 1])
      BY <1>3, <3>1
    <3> HIDE DEF g
    <3> QED
      BY <1>4, <2>1, <3>2
  <2>2. CASE k # n /\ k = 0
    <3>1. k \in 0..(n - 1)
      BY <1>3, <1>4, <2>2
    <3> QED
      BY <1>7, <2>2, <3>1
  <2>3. CASE k # n /\ k # 0
    <3>1. k \in 0..(n - 1) /\ k - 1 \in 0..n /\ k - 1 # n
      BY <1>3, <2>3
    <3>2. g[k] = h[k] /\ g[k - 1] = h[k - 1]
      BY <2>3, <3>1
    <3>3. h[k] = Deeper(h[k - 1])
      BY <1>7, <2>3, <3>1
    <3> HIDE DEF g
    <3> QED
      BY <2>3, <3>2, <3>3
  <2> QED
    BY <2>1, <2>2, <2>3
<1>9. Levels(n, g)
  <2>1. g = [k \in 0..n |-> g[k]]
    OBVIOUS
  <2> HIDE DEF g
  <2> QED
    BY <1>8, <2>1 DEF Levels
<1> QED
  BY <1>3, <1>9

LEMMA MatchedIsAlike ==
  ASSUME NEW x, NEW y, Matched(entry, x, y)
  PROVE  Alike(x, y)
<1> DEFINE N == Cardinality(Inside)
           alike[k \in 0..N] == IF k = 0 THEN Inside \X Inside ELSE Deeper(alike[k - 1])
<1>1. N \in Nat
  BY ConstantsOK, FS_CardinalityType
<1>2. alike = CHOOSE h : Levels(N, h)
  BY DEF Levels
<1>3. \E h : Levels(N, h)
  BY <1>1, LevelsExist
<1>4. Alike(x, y) <=> <<x, y>> \in alike[N]
  BY DEF Alike, Deeper
<1> HIDE DEF alike
<1>5. Levels(N, alike)
  BY <1>2, <1>3
<1> HIDE DEF N
<1>6. \A k \in 0..N : alike[k] = IF k = 0 THEN Inside \X Inside ELSE Deeper(alike[k - 1])
  BY <1>5 DEF Levels
<1>7. PICK R \in Pairings :
        /\ <<x, y>> \in R
        /\ \A s, d \in Inside : <<s, d>> \in R => \A n \in Names : Same(entry, R, s, d, n)
  BY DEF Matched
<1>8. R \subseteq Inside \X Inside
  BY <1>7 DEF Pairings
<1> DEFINE Lost == {k \in Nat : k <= N /\ ~(R \subseteq alike[k])}
<1>9. Lost = {}
  <2>1. SUFFICES ASSUME Lost # {} PROVE FALSE
    OBVIOUS
  <2>2. PICK k \in Lost : \A l \in Lost : k <= l
    BY <2>1, LeastOf
  <2>3. k \in 0..N /\ ~(R \subseteq alike[k])
    BY <1>1, <2>2
  <2>4. k # 0
    BY <1>6, <1>8, <2>3
  <2>5. k - 1 \in Nat /\ k - 1 <= N /\ k - 1 \notin Lost
    BY <1>1, <2>2, <2>3, <2>4
  <2>6. R \subseteq alike[k - 1]
    BY <2>5
  <2>7. alike[k] = Deeper(alike[k - 1])
    BY <1>6, <2>3, <2>4
  <2>8. ASSUME NEW p \in R PROVE p \in Deeper(alike[k - 1])
    <3>1. PICK s \in Inside, d \in Inside : p = <<s, d>>
      BY <1>8, <2>8
    <3>2. \A n \in Names : Same(entry, R, s, d, n)
      BY <1>7, <2>8, <3>1
    <3> QED
      BY <2>6, <3>1, <3>2 DEF Deeper, Same
  <2> QED
    BY <2>3, <2>7, <2>8
<1>10. R \subseteq alike[N]
  BY <1>1, <1>9
<1> QED
  BY <1>4, <1>7, <1>10

---------------------------------------------------------------------------
(* The theorems.                                                            *)

\* TypeOK holds for any tree, requests and descriptors.
THEOREM TypeCorrect == Spec => []TypeOK
<1>1. TreeInv => TypeOK
  BY DEF TreeInv
<1> QED
  BY <1>1, TreeInvariant, PTL

\* However many requests and whatever the shell swaps in between, nothing of
\* the host changes and no file of it comes into the home.
THEOREM HostStaysUntouched == Spec => []OutsideUntouched
<1>1. TreeInv => OutsideUntouched
  BY DEF TreeInv
<1> QED
  BY <1>1, TreeInvariant, PTL

\* A request that is over has closed its descriptors, but for one at most that
\* a failed copy leaves open, however deep the tree.
THEOREM DescriptorsComeBack == Spec => []DescriptorsReturned
<1>1. TreeInv => DescriptorsReturned
  <2> SUFFICES ASSUME TreeInv, NEW w \in Workers
               PROVE  /\ job[w].pc = "ok" => held[w] = 0
                      /\ job[w].pc = "failed" =>
                           held[w] <= (IF job[w].op = "copy" THEN 1 ELSE 0)
    BY DEF DescriptorsReturned
  <2>1. HeldOK(job[w], held[w])
    BY StepFacts DEF JobOK
  <2> QED
    BY <2>1 DEF HeldOK, CopySteps, RemoveSteps
<1> QED
  BY <1>1, TreeInvariant, PTL

\* A copy only ever fills what is empty, a removal only touches its target and
\* what it found inside, whatever the tree, the requests and the shell.
THEOREM RequestsKeepToTheirOwn == Spec => KeepsToItsOwn
<1> DEFINE Own ==
      \A w \in Workers : job'[w] # job[w] =>
          \A p \in Places : At(p)' # At(p) =>
              IF job[w].op = "copy" THEN At(p) = Nothing
              ELSE p = job[w].from \/ p[1] \in ours[w]
<1>1. TreeInv /\ [Next]_vars => [Own]_vars
  <2> SUFFICES ASSUME TreeInv, Next, NEW w \in Workers, job'[w] # job[w],
                      NEW p \in Places, At(p)' # At(p)
               PROVE  IF job[w].op = "copy" THEN At(p) = Nothing
                      ELSE p = job[w].from \/ p[1] \in ours[w]
    OBVIOUS
  <2>1. job \in [Workers -> Job] /\ entry \in [Dirs -> [Names -> Things]]
    BY DEF TreeInv, TypeOK
  <2>2. ASSUME NEW v \in Workers, Begin(v) PROVE FALSE
    BY <2>2, BeginKeeps DEF At
  <2>3. ASSUME NEW v \in Workers,
               /\ Keeps(v, ours[v]) \/ Keeps(v, ours'[v])
               /\ Touches(v)
               /\ job[v].op \in {"copy", "remove"}
        PROVE  IF job[w].op = "copy" THEN At(p) = Nothing
               ELSE p = job[w].from \/ p[1] \in ours[w]
    <3>1. \A u \in Workers \ {v} : job'[u] = job[u]
      BY <2>1, <2>3 DEF Keeps, Becomes
    <3>2. v = w
      BY <3>1
    <3>3. PICK place \in Inside \X Names, x \in Things \ {Secret} :
            /\ Put(place, x)
            /\ job[w].op = "copy" => At(place) = Nothing
            /\ job[w].op = "remove" => place = job[w].from \/ place[1] \in ours[w]
      BY <2>3, <3>2 DEF Touches, At
    <3>4. p = place
      BY <2>1, <3>3 DEF Put, At, Places, Dirs
    <3> QED
      BY <2>3, <3>2, <3>3, <3>4
  <2>4. ASSUME NEW v \in Workers, Carry(v)
        PROVE  job[v].op \in {"copy", "remove"}
    <3>1. job[v].pc \in {"opensrc", "mkdir", "chown", "opendst", "enter", "rmdir",
                         "list", "next"}
      BY <2>4 DEF Carry, Continue, OpenSource, MakeDir, ChownDir, OpenDest, Enter,
         List, Return, RmDir
    <3> QED
      BY <3>1, Running
  <2>5. ASSUME NEW v \in Workers, Carry(v)
        PROVE  IF job[w].op = "copy" THEN At(p) = Nothing
               ELSE p = job[w].from \/ p[1] \in ours[w]
    BY <2>3, <2>4, <2>5, ContinueKeeps DEF Carry
  <2>6. ASSUME NEW v \in Workers, Feed(v)
        PROVE  IF job[w].op = "copy" THEN At(p) = Nothing
               ELSE p = job[w].from \/ p[1] \in ours[w]
    BY <2>3, <2>6, FeedKeeps
  <2>7. CASE Shell
    BY <2>7 DEF Shell
  <2> QED
    BY <2>2, <2>5, <2>6, <2>7 DEF Next
<1> QED
  BY <1>1, TreeInvariant, PTL DEF Spec, KeepsToItsOwn

\* A copy that nobody disturbed and that answers ok, with nothing passed over,
\* is whole, for every tree of finitely many directories: one that is copied
\* into itself never answers ok.
THEOREM CopiesAreComplete == Spec => []OkCopyIsWhole
<1>1. Spec => []CopyInv
  BY CopyInit, CopyNext, TreeInvariant, PTL DEF Spec
<1>2. CopyInv => OkCopyIsWhole
  <2> SUFFICES ASSUME CopyInv, NEW w \in Workers, job[w].op = "copy", job[w].pc = "ok",
                      alone[w], ~job[w].skipped
               PROVE  Alike(At(job[w].from), At(job[w].to))
    BY DEF OkCopyIsWhole
  <2>1. Matched(entry, Value(entry, job[w].from), Value(entry, job[w].to))
    BY DEF CopyInv, Copying
  <2>2. Alike(Value(entry, job[w].from), Value(entry, job[w].to))
    BY <2>1, MatchedIsAlike
  <2> QED
    BY <2>2 DEF Value, At
<1> QED
  BY <1>1, <1>2, PTL
============================================================================
