-------------------------- MODULE ProvisionProofs --------------------------
(***************************************************************************)
(* What holds of Provision for every set of names, accounts, jobs, ports   *)
(* and faults: type correctness, that registered ports differ, and that    *)
(* the host's own accounts and the reserved names are never touched; and   *)
(* of every behaviour in which no two jobs overlap, that the slot table,   *)
(* the accounts and the files agree and that the table implements          *)
(* PortRegistry.                                                           *)
(***************************************************************************)
EXTENDS Provision, TLAPS

\* The record operations the actions use keep a job a job.
LEMMA JobFacts ==
    /\ Idle \in Job
    /\ \A kind \in {"slot", "new", "set"}, n \in Names, l \in Logins \cup {NoUser} :
          CreateJob(kind, n, l) \in Job
    /\ \A n \in Names, wipe \in BOOLEAN : RemoveJob(n, wipe) \in Job
    /\ \A j \in Job, s \in CreateSteps \cup RemoveSteps :
          [j EXCEPT !.pc = s] \in Job
    /\ \A j \in Job, s \in CreateSteps, p \in Ports :
          [j EXCEPT !.pc = s, !.port = p] \in Job
<1>1. Idle \in Job
  BY DEF Job, Idle
<1>2. ASSUME NEW kind \in {"slot", "new", "set"}, NEW n \in Names,
             NEW l \in Logins \cup {NoUser}
      PROVE  CreateJob(kind, n, l) \in Job
  BY DEF Job, Idle, CreateJob, CreateSteps
<1>3. ASSUME NEW n \in Names, NEW wipe \in BOOLEAN
      PROVE  RemoveJob(n, wipe) \in Job
  BY DEF Job, Idle, RemoveJob, RemoveSteps
<1>4. ASSUME NEW j \in Job, NEW s \in CreateSteps \cup RemoveSteps
      PROVE  [j EXCEPT !.pc = s] \in Job
  BY DEF Job
<1>5. ASSUME NEW j \in Job, NEW s \in CreateSteps, NEW p \in Ports
      PROVE  [j EXCEPT !.pc = s, !.port = p] \in Job
  BY DEF Job
<1> QED
  BY <1>1, <1>2, <1>3, <1>4, <1>5

---------------------------------------------------------------------------
(* Types.                                                                   *)

PortSteps == {"unit", "start", "gate", "test", "register"}

\* A job in flight is about a name of the system, and one that will write a
\* port has one.
JobOK(j) ==
    /\ j \in Job
    /\ j.pc # "idle" => j.slot \in Names
    /\ j.pc \in PortSteps => j.port \in Ports

JobInv ==
    /\ job \in [Workers -> Job]
    /\ \A w \in Workers : JobOK(job[w])

TypeInv == TypeOK /\ JobInv

LEMMA JobStep ==
  ASSUME JobInv, NEW w \in Workers, NEW j, JobOK(j),
         job' = [job EXCEPT ![w] = j]
  PROVE  JobInv'
  BY DEF JobInv, JobOK

LEMMA BeginStep ==
  ASSUME JobInv, NEW w \in Workers, NEW n \in Names,
         \/ \E kind \in {"slot", "new", "set"}, l \in Logins \cup {NoUser} :
               Begin(w, CreateJob(kind, n, l))
         \/ \E wipe \in BOOLEAN : Begin(w, RemoveJob(n, wipe))
  PROVE  JobInv'
<1>1. \A kind \in {"slot", "new", "set"}, l \in Logins \cup {NoUser} :
         JobOK(CreateJob(kind, n, l))
  BY JobFacts DEF JobOK, CreateJob, Idle, PortSteps
<1>2. \A wipe \in BOOLEAN : JobOK(RemoveJob(n, wipe))
  BY JobFacts DEF JobOK, RemoveJob, Idle, PortSteps
<1> QED
  BY <1>1, <1>2, JobStep DEF Begin

LEMMA GotoStep ==
  ASSUME JobInv, NEW w \in Workers, NEW s \in CreateSteps \cup RemoveSteps,
         job[w].pc # "idle",
         s \in PortSteps => job[w].pc \in PortSteps,
         Goto(w, s)
  PROVE  JobInv'
<1> DEFINE j == [job[w] EXCEPT !.pc = s]
<1>1. job[w] \in Job /\ JobOK(job[w])
  BY DEF JobInv
<1>2. j.pc = s /\ j.slot = job[w].slot /\ j.port = job[w].port
  BY <1>1 DEF Job
<1>3. JobOK(j)
  BY <1>1, <1>2, JobFacts DEF JobOK
<1>4. job' = [job EXCEPT ![w] = j]
  BY DEF Goto
<1> QED
  BY <1>3, <1>4, JobStep

LEMMA GotoPortStep ==
  ASSUME JobInv, NEW w \in Workers, NEW p \in Ports, job[w].pc # "idle",
         job' = [job EXCEPT ![w].pc = "unit", ![w].port = p]
  PROVE  JobInv'
<1> DEFINE j == [job[w] EXCEPT !.pc = "unit", !.port = p]
<1>1. job[w] \in Job /\ JobOK(job[w])
  BY DEF JobInv
<1>2. j.pc = "unit" /\ j.slot = job[w].slot /\ j.port = p
  BY <1>1 DEF Job
<1>3. JobOK(j)
  BY <1>1, <1>2, JobFacts DEF JobOK, CreateSteps
<1>4. job' = [job EXCEPT ![w] = j]
  BY <1>1 DEF JobInv, Job
<1> QED
  BY <1>3, <1>4, JobStep

LEMMA ReturnStep ==
  ASSUME JobInv, NEW w \in Workers, Return(w)
  PROVE  JobInv'
<1>1. JobOK(Idle)
  BY JobFacts DEF JobOK, Idle, PortSteps
<1> QED
  BY <1>1, JobStep DEF Return

LEMMA InitType == Init => TypeInv
<1> SUFFICES ASSUME Init PROVE TypeInv
  OBVIOUS
<1>1. Idle \in Job /\ JobOK(Idle)
  BY JobFacts DEF JobOK, Idle, PortSteps
<1>2. job = [w \in Workers |-> Idle]
  BY DEF Init
<1>3. JobInv
  BY <1>1, <1>2 DEF JobInv
<1>4. TypeOK
  BY <1>3, ConstantsOK DEF Init, TypeOK, JobInv
<1> QED
  BY <1>3, <1>4 DEF TypeInv

\* Handlers change at most the account table and start a job.
LEMMA RequestType ==
  ASSUME TypeInv, Request
  PROVE  TypeInv'
<1> USE DEF TypeInv
<1>1. ASSUME NEW w \in Workers, NEW n \in Names,
             \/ SlotsCreate(w, n)
             \/ BotWipe(w, n)
             \/ \E wipe \in BOOLEAN : SlotsDelete(w, n, wipe)
             \/ \E l \in Logins : \/ UsersCreate(w, l, n)
                                  \/ UsersUpdate(w, l, n)
                                  \/ BotCreate(w, l, n)
      PROVE  TypeInv'
  <2>1. JobInv' /\ UNCHANGED <<host, db>>
    BY <1>1, BeginStep
       DEF SlotsCreate, BotWipe, SlotsDelete, UsersCreate, UsersUpdate, BotCreate
  <2> QED
    BY <2>1 DEF TypeOK, JobInv, host, db
<1>2. ASSUME NEW w \in Workers, NEW l \in Logins, NEW wipe \in BOOLEAN,
             BotRevoke(w, l, wipe)
      PROVE  TypeInv'
  <2>1. slotOf' \in [Logins -> Names \cup {NoSlot, NoUser}]
    BY <1>2 DEF BotRevoke, TypeOK
  <2>2. JobInv'
    <3>1. CASE slotOf[l] = NoSlot
      BY <1>2, <3>1 DEF BotRevoke, JobInv
    <3>2. CASE slotOf[l] # NoSlot
      <4>1. slotOf[l] \in Names
        BY <1>2, <3>2 DEF BotRevoke, TypeOK
      <4>2. Begin(w, RemoveJob(slotOf[l], wipe))
        BY <1>2, <3>2 DEF BotRevoke, Begin
      <4> QED
        BY <4>1, <4>2, BeginStep
    <3> QED
      BY <3>1, <3>2
  <2> QED
    BY <1>2, <2>1, <2>2 DEF BotRevoke, TypeOK, JobInv, host
<1>3. ASSUME NEW l \in Logins,
             UsersCreatePlain(l) \/ UsersClearSlot(l) \/ UsersDelete(l)
      PROVE  TypeInv'
  BY <1>3 DEF UsersCreatePlain, UsersClearSlot, UsersDelete, TypeOK, JobInv, host
<1> QED
  BY <1>1, <1>2, <1>3 DEF Request

\* A step of create_slot.
LEMMA CreateStepType ==
  ASSUME TypeInv, NEW w \in Workers, CreateStep(w)
  PROVE  TypeInv'
<1> DEFINE n == job[w].slot
<1> USE DEF TypeInv, At, host, db
<1>0. /\ TypeOK /\ JobInv
      /\ job[w].pc # "idle" => n \in Names
      /\ job[w].pc \in PortSteps => job[w].port \in Ports
  BY DEF JobInv, JobOK
<1>s. {"useradd", "portof", "alloc", "unit", "start", "gate", "test",
       "register", "account"} \subseteq CreateSteps \cup RemoveSteps
  BY DEF CreateSteps
<1>1. CASE CheckName(w)
  <2>1. JobInv'
    BY <1>0, <1>1, <1>s, GotoStep, ReturnStep DEF CheckName, PortSteps
  <2> QED
    BY <1>0, <1>1, <2>1 DEF CheckName, TypeOK, JobInv
<1>2. CASE UserAdd(w)
  <2>1. JobInv'
    BY <1>0, <1>2, <1>s, GotoStep, ReturnStep DEF UserAdd, PortSteps
  <2> QED
    BY <1>0, <1>2, <2>1 DEF UserAdd, TypeOK, JobInv
<1>3. CASE PortOf(w)
  <2>1. JobInv'
    <3>1. CASE registry[n] # NoPort
      <4>1. registry[n] \in Ports
        BY <1>0, <1>3, <3>1 DEF PortOf, TypeOK
      <4> QED
        BY <1>0, <1>3, <3>1, <4>1, GotoPortStep DEF PortOf
    <3>2. CASE registry[n] = NoPort
      <4>1. Goto(w, "alloc")
        BY <1>3, <3>2 DEF PortOf, Goto
      <4> QED
        BY <1>0, <1>3, <1>s, <4>1, GotoStep DEF PortOf, PortSteps
    <3> QED
      BY <3>1, <3>2
  <2> QED
    BY <1>0, <1>3, <2>1 DEF PortOf, TypeOK, JobInv
<1>4. CASE AllocatePort(w)
  <2>1. LowestFree \subseteq Ports
    BY DEF LowestFree, FreePorts
  <2>2. JobInv'
    BY <1>0, <1>4, <2>1, GotoPortStep, ReturnStep DEF AllocatePort
  <2> QED
    BY <1>0, <1>4, <2>2 DEF AllocatePort, TypeOK, JobInv
<1>5. CASE WriteUnit(w)
  <2>1. JobInv'
    BY <1>0, <1>5, <1>s, GotoStep DEF WriteUnit, PortSteps
  <2> QED
    BY <1>0, <1>5, <2>1 DEF WriteUnit, TypeOK, JobInv, PortSteps
<1>6. CASE StartShell(w)
  <2>1. JobInv'
    BY <1>0, <1>6, <1>s, GotoStep, ReturnStep DEF StartShell, PortSteps
  <2>2. Unbound(n) \in [Ports -> Names \cup {NoSlot}]
    BY <1>0 DEF Unbound, TypeOK
  <2> QED
    BY <1>0, <1>6, <2>1, <2>2 DEF StartShell, TypeOK, JobInv
<1>7. CASE WriteGate(w)
  <2>1. JobInv'
    BY <1>0, <1>7, <1>s, GotoStep DEF WriteGate, PortSteps
  <2> QED
    BY <1>0, <1>7, <2>1 DEF WriteGate, TypeOK, JobInv, PortSteps
<1>8. CASE TestGate(w)
  <2>1. JobInv'
    BY <1>0, <1>8, <1>s, GotoStep, ReturnStep DEF TestGate, PortSteps
  <2> QED
    BY <1>0, <1>8, <2>1 DEF TestGate, TypeOK, JobInv
<1>9. CASE RegisterSlot(w)
  <2>1. JobInv'
    BY <1>0, <1>9, <1>s, GotoStep, ReturnStep DEF RegisterSlot, PortSteps
  <2>2. job[w].port \in Ports
    BY <1>0, <1>9 DEF RegisterSlot, PortSteps
  <2>3. registry' \in [Names -> Ports \cup {NoPort}]
    BY <1>0, <1>9, <2>2 DEF RegisterSlot, TypeOK
  <2> QED
    BY <1>0, <1>9, <2>1, <2>3 DEF RegisterSlot, TypeOK, JobInv
<1>10. CASE WriteAccount(w)
  <2>1. JobInv'
    BY <1>10, ReturnStep DEF WriteAccount
  <2>2. slotOf' \in [Logins -> Names \cup {NoSlot, NoUser}]
    BY <1>0, <1>10 DEF WriteAccount, TypeOK
  <2> QED
    BY <1>0, <1>10, <2>1, <2>2 DEF WriteAccount, TypeOK, JobInv
<1> QED
  BY <1>1, <1>2, <1>3, <1>4, <1>5, <1>6, <1>7, <1>8, <1>9, <1>10 DEF CreateStep

\* A step of remove_slot.
LEMMA RemoveStepType ==
  ASSUME TypeInv, NEW w \in Workers, RemoveStep(w)
  PROVE  TypeInv'
<1> DEFINE n == job[w].slot
<1> USE DEF TypeInv, At, host, db
<1>0. /\ TypeOK /\ JobInv
      /\ job[w].pc # "idle" => n \in Names
  BY DEF JobInv, JobOK
<1>s. RemoveSteps \subseteq CreateSteps \cup RemoveSteps
      /\ RemoveSteps = {"removable", "stop", "unlink", "ungate", "drop", "userdel"}
  BY DEF RemoveSteps
<1>1. CASE CheckRemovable(w)
  <2>1. JobInv'
    BY <1>0, <1>1, <1>s, GotoStep, ReturnStep DEF CheckRemovable, PortSteps
  <2> QED
    BY <1>0, <1>1, <2>1 DEF CheckRemovable, TypeOK, JobInv
<1>2. CASE StopShell(w)
  <2>1. JobInv'
    BY <1>0, <1>2, <1>s, GotoStep DEF StopShell, PortSteps
  <2>2. Unbound(n) \in [Ports -> Names \cup {NoSlot}]
    BY <1>0 DEF Unbound, TypeOK
  <2> QED
    BY <1>0, <1>2, <2>1, <2>2 DEF StopShell, TypeOK, JobInv
<1>3. CASE UnlinkUnit(w)
  <2>1. JobInv'
    BY <1>0, <1>3, <1>s, GotoStep DEF UnlinkUnit, PortSteps
  <2> QED
    BY <1>0, <1>3, <2>1 DEF UnlinkUnit, TypeOK, JobInv
<1>4. CASE RemoveGate(w)
  <2>1. JobInv'
    BY <1>0, <1>4, <1>s, GotoStep, ReturnStep DEF RemoveGate, PortSteps
  <2> QED
    BY <1>0, <1>4, <2>1 DEF RemoveGate, TypeOK, JobInv
<1>5. CASE DropRow(w)
  <2>1. JobInv'
    BY <1>0, <1>5, <1>s, GotoStep DEF DropRow, PortSteps
  <2> QED
    BY <1>0, <1>5, <2>1 DEF DropRow, TypeOK, JobInv
<1>6. CASE UserDel(w)
  <2>1. JobInv'
    BY <1>6, ReturnStep DEF UserDel
  <2> QED
    BY <1>0, <1>6, <2>1 DEF UserDel, TypeOK, JobInv
<1> QED
  BY <1>1, <1>2, <1>3, <1>4, <1>5, <1>6 DEF RemoveStep

LEMMA EnvironmentType ==
  ASSUME TypeInv,
         \/ \E n \in Names : TtydBinds(n)
         \/ \E P \in {Panel, Bot} : Crash(P)
  PROVE  TypeInv'
<1> USE DEF TypeInv, host, db
<1>1. ASSUME NEW n \in Names, TtydBinds(n)
      PROVE  TypeInv'
  BY <1>1 DEF TtydBinds, TypeOK, JobInv
<1>2. ASSUME NEW P \in {Panel, Bot}, Crash(P)
      PROVE  TypeInv'
  <2>1. Idle \in Job /\ JobOK(Idle)
    BY JobFacts DEF JobOK, Idle, PortSteps
  <2>2. JobInv'
    BY <1>2, <2>1 DEF Crash, JobInv
  <2> QED
    BY <1>2, <2>2 DEF Crash, TypeOK, JobInv
<1> QED
  BY <1>1, <1>2

LEMMA NextType == TypeInv /\ [Next]_vars => TypeInv'
<1> SUFFICES ASSUME TypeInv, [Next]_vars PROVE TypeInv'
  OBVIOUS
<1>1. CASE Next
  BY <1>1, RequestType, CreateStepType, RemoveStepType, EnvironmentType DEF Next
<1>2. CASE UNCHANGED vars
  BY <1>2 DEF vars, host, db, TypeInv, TypeOK, JobInv
<1> QED
  BY <1>1, <1>2

LEMMA TypeInvariant == Spec => []TypeInv
  BY InitType, NextType, PTL DEF Spec

\* The variables keep their types; inductive together with JobInv, which says
\* that a job that will write a port has one of the window.
THEOREM TypeCorrect == Spec => []TypeOK
<1>1. TypeInv => TypeOK
  BY DEF TypeInv
<1> QED
  BY <1>1, TypeInvariant, PTL

---------------------------------------------------------------------------
(* Registered ports differ.                                                 *)

\* Only register_slot and the wipe's delete touch the table.
LEMMA RegistryWriters ==
  ASSUME [Next]_vars, registry' # registry
  PROVE  \E w \in Workers : RegisterSlot(w) \/ DropRow(w)
<1>1. Request => UNCHANGED registry
  BY DEF Request, SlotsCreate, BotWipe, SlotsDelete, UsersCreate, UsersUpdate,
         BotCreate, BotRevoke, UsersCreatePlain, UsersClearSlot, UsersDelete, db
<1>2. ASSUME NEW w \in Workers, CreateStep(w)
      PROVE  RegisterSlot(w) \/ UNCHANGED registry
  BY <1>2 DEF CreateStep, CheckName, UserAdd, PortOf, AllocatePort, WriteUnit,
              StartShell, WriteGate, TestGate, WriteAccount, db
<1>3. ASSUME NEW w \in Workers, RemoveStep(w)
      PROVE  DropRow(w) \/ UNCHANGED registry
  BY <1>3 DEF RemoveStep, CheckRemovable, StopShell, UnlinkUnit, RemoveGate,
              UserDel, db
<1>4. (\E n \in Names : TtydBinds(n)) \/ (\E P \in {Panel, Bot} : Crash(P))
        => UNCHANGED registry
  BY DEF TtydBinds, Crash, db
<1>5. UNCHANGED vars => UNCHANGED registry
  BY DEF vars, db
<1> QED
  BY <1>1, <1>2, <1>3, <1>4, <1>5 DEF Next

LEMMA PortsDifferNext ==
  TypeInv /\ RegisteredPortsDiffer /\ [Next]_vars => RegisteredPortsDiffer'
<1> SUFFICES ASSUME TypeInv, RegisteredPortsDiffer, [Next]_vars
             PROVE  RegisteredPortsDiffer'
  OBVIOUS
<1> USE DEF RegisteredPortsDiffer, Registered
<1>1. ASSUME NEW w \in Workers, RegisterSlot(w)
      PROVE  RegisteredPortsDiffer'
  BY <1>1 DEF RegisterSlot
<1>2. ASSUME NEW w \in Workers, DropRow(w)
      PROVE  RegisteredPortsDiffer'
  BY <1>2 DEF DropRow, TypeInv, TypeOK
<1>3. CASE UNCHANGED registry
  BY <1>3
<1> QED
  BY <1>1, <1>2, <1>3, RegistryWriters

\* However many creates were given the same port, no two slots are ever
\* registered on one: register_slot's INSERT OR REPLACE takes the port from
\* the slot that had it.
THEOREM PortsDiffer == Spec => []RegisteredPortsDiffer
<1>1. Init => RegisteredPortsDiffer
  BY DEF Init, RegisteredPortsDiffer, Registered
<1> QED
  BY <1>1, PortsDifferNext, TypeInvariant, PTL DEF Spec

---------------------------------------------------------------------------
(* Protected names.                                                         *)

Protected == Foreign \cup Reserved

\* A job about a protected name never gets past its first check.
Stopped(n) ==
    \A w \in Workers :
        job[w].slot = n => job[w].pc \in {"idle", "check", "removable"}

ProtectedInv ==
    /\ TypeInv
    /\ ProtectedUntouched
    /\ \A n \in Protected : Stopped(n)

\* The name check refuses a protected name whatever the caller counts as known,
\* as long as that is registered or assigned.
LEMMA ProtectedRefused ==
  ASSUME ProtectedInv, NEW n \in Protected, NEW known,
         known \subseteq Registered \cup Assigned
  PROVE  ~NameOk(n, known) /\ n \notin Registered
  BY DEF ProtectedInv, ProtectedUntouched, Protected, Untouched, NameOk, Registered

\* A worker whose job does something is not at a protected name.
LEMMA WorkingElsewhere ==
  ASSUME ProtectedInv, NEW w \in Workers,
         job[w].pc \notin {"idle", "check", "removable"}
  PROVE  job[w].slot \in Names \ Protected
<1>1. job[w].slot \in Names
  BY DEF ProtectedInv, TypeInv, JobInv, JobOK
<1>2. job[w].slot \notin Protected
  BY DEF ProtectedInv, Stopped
<1> QED
  BY <1>1, <1>2

LEMMA StoppedStep ==
  ASSUME ProtectedInv, NEW n \in Protected, NEW w \in Workers, NEW j,
         j.slot = n => j.pc \in {"idle", "check", "removable"},
         job' = [job EXCEPT ![w] = j]
  PROVE  Stopped(n)'
  BY DEF ProtectedInv, TypeInv, JobInv, Stopped

LEMMA StoppedReturn ==
  ASSUME ProtectedInv, NEW n \in Protected, NEW w \in Workers, Return(w)
  PROVE  Stopped(n)'
<1>1. Idle.pc = "idle"
  BY DEF Idle
<1> QED
  BY <1>1, StoppedStep DEF Return

LEMMA StoppedGoto ==
  ASSUME ProtectedInv, NEW n \in Protected, NEW w \in Workers, NEW s,
         job[w].slot # n, Goto(w, s)
  PROVE  Stopped(n)'
<1>1. job[w] \in Job
  BY DEF ProtectedInv, TypeInv, JobInv
<1>2. [job[w] EXCEPT !.pc = s].slot # n
  BY <1>1 DEF Job
<1> QED
  BY <1>2, StoppedStep DEF Goto

LEMMA ProtectedRequest ==
  ASSUME ProtectedInv, NEW n \in Protected, Request
  PROVE  Stopped(n)' /\ Untouched(n)' /\ UNCHANGED accounts
<1>n. n \in Names
  BY ConstantsOK DEF Protected
<1>0. Stopped(n) /\ Untouched(n)
  BY DEF ProtectedInv, ProtectedUntouched, Protected
<1>1. ASSUME NEW w \in Workers, NEW m \in Names,
             \/ SlotsCreate(w, m)
             \/ BotWipe(w, m)
             \/ \E wipe \in BOOLEAN : SlotsDelete(w, m, wipe)
             \/ \E l \in Logins : \/ UsersCreate(w, l, m)
                                  \/ UsersUpdate(w, l, m)
                                  \/ BotCreate(w, l, m)
      PROVE  Stopped(n)' /\ Untouched(n)' /\ UNCHANGED accounts
  <2>1. UNCHANGED <<host, db>>
    BY <1>1 DEF SlotsCreate, BotWipe, SlotsDelete, UsersCreate, UsersUpdate, BotCreate
  <2>2. \E j : Begin(w, j) /\ j.pc \in {"check", "removable"}
    <3>1. ASSUME NEW kind, NEW l
          PROVE  CreateJob(kind, m, l).pc \in {"check", "removable"}
      BY DEF CreateJob, Idle
    <3>2. ASSUME NEW wipe
          PROVE  RemoveJob(m, wipe).pc \in {"check", "removable"}
      BY DEF RemoveJob, Idle
    <3> QED
      BY <1>1, <3>1, <3>2
         DEF SlotsCreate, BotWipe, SlotsDelete, UsersCreate, UsersUpdate, BotCreate
  <2>3. Stopped(n)'
    BY <2>2, StoppedStep DEF Begin
  <2> QED
    BY <1>0, <2>1, <2>3 DEF Untouched, Assigned, host, db
<1>2. ASSUME NEW w \in Workers, NEW l \in Logins, NEW wipe \in BOOLEAN,
             BotRevoke(w, l, wipe)
      PROVE  Stopped(n)' /\ Untouched(n)' /\ UNCHANGED accounts
  <2>1. Untouched(n)' /\ UNCHANGED accounts
    BY <1>0, <1>2, <1>n, ConstantsOK
       DEF BotRevoke, Untouched, Assigned, host, ProtectedInv, TypeInv, TypeOK
  <2>2. RemoveJob(slotOf[l], wipe).pc = "removable"
    BY DEF RemoveJob, Idle
  <2>3. Stopped(n)'
    BY <1>0, <1>2, <2>2, StoppedStep DEF BotRevoke, Stopped
  <2> QED
    BY <2>1, <2>3
<1>3. ASSUME NEW l \in Logins,
             UsersCreatePlain(l) \/ UsersClearSlot(l) \/ UsersDelete(l)
      PROVE  Stopped(n)' /\ Untouched(n)' /\ UNCHANGED accounts
  BY <1>0, <1>3, <1>n, ConstantsOK
     DEF UsersCreatePlain, UsersClearSlot, UsersDelete, Untouched, Assigned,
         Stopped, host, ProtectedInv, TypeInv, TypeOK
<1> QED
  BY <1>1, <1>2, <1>3 DEF Request

LEMMA ProtectedCreate ==
  ASSUME ProtectedInv, NEW n \in Protected, NEW w \in Workers, CreateStep(w)
  PROVE  /\ Stopped(n)' /\ Untouched(n)'
         /\ n \in accounts' <=> n \in accounts
<1> USE DEF At, host, db
<1>n. n \in Names
  BY ConstantsOK DEF Protected
<1>0. Stopped(n) /\ Untouched(n) /\ TypeOK
  BY DEF ProtectedInv, ProtectedUntouched, Protected, TypeInv
<1>e. ~At(w, "check") => job[w].slot \in Names \ Protected /\ job[w].slot # n
  <2>1. job[w].pc # "idle"
    BY DEF CreateStep, CheckName, UserAdd, PortOf, AllocatePort, WriteUnit,
           StartShell, WriteGate, TestGate, RegisterSlot, WriteAccount
  <2>2. job[w].pc # "removable"
    BY DEF CreateStep, CheckName, UserAdd, PortOf, AllocatePort, WriteUnit,
           StartShell, WriteGate, TestGate, RegisterSlot, WriteAccount
  <2> QED
    BY <2>1, <2>2, WorkingElsewhere
<1>1. CASE CheckName(w)
  <2>1. CASE job[w].slot = n
    <3>1. Return(w)
      BY <1>1, <2>1, ProtectedRefused DEF CheckName
    <3> QED
      BY <1>0, <1>1, <3>1, StoppedReturn DEF CheckName, Untouched, Assigned
  <2>2. CASE job[w].slot # n
    <3>1. Stopped(n)'
      BY <1>1, <2>2, StoppedReturn, StoppedGoto DEF CheckName
    <3> QED
      BY <1>0, <1>1, <3>1 DEF CheckName, Untouched, Assigned
  <2> QED
    BY <2>1, <2>2
<1>2. CASE UserAdd(w)
  <2>1. Stopped(n)'
    BY <1>2, <1>e, StoppedReturn, StoppedGoto DEF UserAdd
  <2> QED
    BY <1>0, <1>2, <1>e, <2>1 DEF UserAdd, Untouched, Assigned
<1>3. CASE PortOf(w)
  <2>1. \E j : j.slot # n /\ job' = [job EXCEPT ![w] = j]
    BY <1>3, <1>e DEF PortOf, ProtectedInv, TypeInv, JobInv, Job
  <2> QED
    BY <1>0, <1>3, <2>1, StoppedStep DEF PortOf, Untouched, Assigned
<1>4. CASE AllocatePort(w)
  <2>1. Return(w) \/ \E j : j.slot # n /\ job' = [job EXCEPT ![w] = j]
    BY <1>4, <1>e DEF AllocatePort, ProtectedInv, TypeInv, JobInv, Job
  <2>2. Stopped(n)'
    BY <2>1, StoppedStep, StoppedReturn
  <2> QED
    BY <1>0, <1>4, <2>2 DEF AllocatePort, Untouched, Assigned
<1>5. CASE WriteUnit(w)
  <2>1. Stopped(n)'
    BY <1>5, <1>e, StoppedGoto DEF WriteUnit
  <2> QED
    BY <1>0, <1>5, <1>e, <1>n, <2>1 DEF WriteUnit, Untouched, Assigned, TypeOK
<1>6. CASE StartShell(w)
  <2>1. Stopped(n)'
    BY <1>6, <1>e, StoppedReturn, StoppedGoto DEF StartShell
  <2> QED
    BY <1>0, <1>6, <1>e, <1>n, <2>1 DEF StartShell, Untouched, Assigned, TypeOK
<1>7. CASE WriteGate(w)
  <2>1. Stopped(n)'
    BY <1>7, <1>e, StoppedGoto DEF WriteGate
  <2> QED
    BY <1>0, <1>7, <1>e, <1>n, <2>1 DEF WriteGate, Untouched, Assigned, TypeOK
<1>8. CASE TestGate(w)
  <2>1. Stopped(n)'
    BY <1>8, <1>e, StoppedReturn, StoppedGoto DEF TestGate
  <2> QED
    BY <1>0, <1>8, <1>e, <1>n, <2>1 DEF TestGate, Untouched, Assigned, TypeOK
<1>9. CASE RegisterSlot(w)
  <2>1. Stopped(n)'
    BY <1>9, <1>e, StoppedReturn, StoppedGoto DEF RegisterSlot
  <2>2. registry'[n] = NoPort
    BY <1>0, <1>9, <1>e, <1>n DEF RegisterSlot, Untouched, TypeOK
  <2> QED
    BY <1>0, <1>9, <2>1, <2>2 DEF RegisterSlot, Untouched, Assigned
<1>10. CASE WriteAccount(w)
  <2>1. Stopped(n)'
    BY <1>10, StoppedReturn DEF WriteAccount
  <2> QED
    BY <1>0, <1>10, <1>e, <1>n, <2>1
       DEF WriteAccount, Untouched, Assigned, TypeOK
<1> QED
  BY <1>1, <1>2, <1>3, <1>4, <1>5, <1>6, <1>7, <1>8, <1>9, <1>10 DEF CreateStep

LEMMA ProtectedRemove ==
  ASSUME ProtectedInv, NEW n \in Protected, NEW w \in Workers, RemoveStep(w)
  PROVE  /\ Stopped(n)' /\ Untouched(n)'
         /\ n \in accounts' <=> n \in accounts
<1> USE DEF At, host, db
<1>n. n \in Names
  BY ConstantsOK DEF Protected
<1>0. Stopped(n) /\ Untouched(n) /\ TypeOK
  BY DEF ProtectedInv, ProtectedUntouched, Protected, TypeInv
<1>e. ~At(w, "removable") => job[w].slot # n
  BY WorkingElsewhere
     DEF RemoveStep, CheckRemovable, StopShell, UnlinkUnit, RemoveGate,
         DropRow, UserDel
<1>1. CASE CheckRemovable(w)
  <2>1. CASE job[w].slot = n
    <3>1. Return(w)
      BY <1>1, <2>1, ProtectedRefused DEF CheckRemovable
    <3> QED
      BY <1>0, <1>1, <3>1, StoppedReturn DEF CheckRemovable, Untouched, Assigned
  <2>2. CASE job[w].slot # n
    <3>1. Stopped(n)'
      BY <1>1, <2>2, StoppedReturn, StoppedGoto DEF CheckRemovable
    <3> QED
      BY <1>0, <1>1, <3>1 DEF CheckRemovable, Untouched, Assigned
  <2> QED
    BY <2>1, <2>2
<1>2. CASE StopShell(w)
  <2>1. Stopped(n)'
    BY <1>2, <1>e, StoppedGoto DEF StopShell
  <2> QED
    BY <1>0, <1>2, <1>e, <1>n, <2>1 DEF StopShell, Untouched, Assigned, TypeOK
<1>3. CASE UnlinkUnit(w)
  <2>1. Stopped(n)'
    BY <1>3, <1>e, StoppedGoto DEF UnlinkUnit
  <2> QED
    BY <1>0, <1>3, <1>e, <1>n, <2>1 DEF UnlinkUnit, Untouched, Assigned, TypeOK
<1>4. CASE RemoveGate(w)
  <2>1. Stopped(n)'
    BY <1>4, <1>e, StoppedReturn, StoppedGoto DEF RemoveGate
  <2> QED
    BY <1>0, <1>4, <1>e, <1>n, <2>1 DEF RemoveGate, Untouched, Assigned, TypeOK
<1>5. CASE DropRow(w)
  <2>1. Stopped(n)'
    BY <1>5, <1>e, StoppedGoto DEF DropRow
  <2> QED
    BY <1>0, <1>5, <1>e, <1>n, <2>1 DEF DropRow, Untouched, Assigned, TypeOK
<1>6. CASE UserDel(w)
  <2>1. Stopped(n)'
    BY <1>6, StoppedReturn DEF UserDel
  <2> QED
    BY <1>0, <1>6, <1>e, <2>1 DEF UserDel, Untouched, Assigned
<1> QED
  BY <1>1, <1>2, <1>3, <1>4, <1>5, <1>6 DEF RemoveStep

LEMMA ProtectedEnvironment ==
  ASSUME ProtectedInv, NEW n \in Protected,
         \/ \E m \in Names : TtydBinds(m)
         \/ \E P \in {Panel, Bot} : Crash(P)
  PROVE  Stopped(n)' /\ Untouched(n)' /\ UNCHANGED accounts
<1>0. Stopped(n) /\ Untouched(n)
  BY DEF ProtectedInv, ProtectedUntouched, Protected
<1>1. ASSUME NEW m \in Names, TtydBinds(m)
      PROVE  Stopped(n)' /\ Untouched(n)' /\ UNCHANGED accounts
  BY <1>0, <1>1 DEF TtydBinds, Stopped, Untouched, Assigned, db
<1>2. ASSUME NEW P \in {Panel, Bot}, Crash(P)
      PROVE  Stopped(n)' /\ Untouched(n)' /\ UNCHANGED accounts
  <2>1. Idle.pc = "idle"
    BY DEF Idle
  <2>2. Stopped(n)'
    BY <1>0, <1>2, <2>1 DEF Crash, Stopped
  <2> QED
    BY <1>0, <1>2, <2>2 DEF Crash, Untouched, Assigned, host, db
<1> QED
  BY <1>1, <1>2

\* For every set of foreign accounts and reserved names, any number of
\* concurrent jobs and any faults: the host's own accounts survive, reserved
\* names get no account, and neither ever has a unit, a shell, a gate, a port
\* or a panel account.
THEOREM ProtectedNamesAreSafe == Spec => []ProtectedUntouched
<1>1. Init => ProtectedInv
  <2> SUFFICES ASSUME Init PROVE ProtectedInv
    OBVIOUS
  <2>1. TypeInv
    BY InitType
  <2>2. ProtectedUntouched
    BY ConstantsOK DEF Init, ProtectedUntouched, Untouched, Assigned
  <2>3. ASSUME NEW n \in Protected PROVE Stopped(n)
    BY DEF Init, Stopped, Idle
  <2> QED
    BY <2>1, <2>2, <2>3 DEF ProtectedInv
<1>2. ProtectedInv /\ [Next]_vars => ProtectedInv'
  <2> SUFFICES ASSUME ProtectedInv, [Next]_vars PROVE ProtectedInv'
    OBVIOUS
  <2>1. TypeInv'
    BY NextType DEF ProtectedInv
  <2>2. ASSUME NEW n \in Protected
        PROVE  /\ Stopped(n)' /\ Untouched(n)'
               /\ n \in accounts' <=> n \in accounts
    <3>1. CASE UNCHANGED vars
      BY <3>1 DEF vars, host, db, ProtectedInv, ProtectedUntouched, Protected,
                  Stopped, Untouched, Assigned
    <3>2. CASE Next
      BY <3>2, ProtectedRequest, ProtectedCreate, ProtectedRemove,
         ProtectedEnvironment DEF Next
    <3> QED
      BY <3>1, <3>2
  <2>3. ProtectedUntouched'
    BY <2>2 DEF ProtectedInv, ProtectedUntouched, Protected
  <2> QED
    BY <2>1, <2>2, <2>3 DEF ProtectedInv
<1>3. ProtectedInv => ProtectedUntouched
  BY DEF ProtectedInv
<1> QED
  BY <1>1, <1>2, <1>3, PTL DEF Spec
---------------------------------------------------------------------------
(* One job at a time.                                                       *)

\* What the job in flight has behind it.  The port it carries is the one its
\* slot is registered on, or the lowest free one if the slot has none.
SoloJob(w) ==
    LET n == job[w].slot
        p == job[w].port
    IN
    /\ job[w].pc \in PortSteps \cup {"portof", "alloc", "account"} => n \in accounts
    /\ At(w, "alloc") => registry[n] = NoPort
    /\ job[w].pc \in PortSteps =>
          registry[n] = p \/ (registry[n] = NoPort /\ p \in LowestFree)
    /\ job[w].pc \in PortSteps \ {"unit"} => unit[n] = p
    /\ job[w].pc \in {"test", "register"} => gate[n] = p
    /\ At(w, "account") => registry[n] # NoPort
    /\ At(w, "drop") => job[w].wipe
    /\ At(w, "userdel") => registry[n] = NoPort

SoloInv ==
    /\ TypeInv
    /\ RegisteredPortsDiffer
    /\ RegisteredHasAccount
    /\ FilesNameRegisteredPort
    /\ \A w \in Workers : SoloJob(w)

\* The fields of a worker's job after it went on to another step.
LEMMA GotoFields ==
  ASSUME TypeInv, NEW w \in Workers, NEW s, Goto(w, s)
  PROVE  /\ job' = [job EXCEPT ![w] = [job[w] EXCEPT !.pc = s]]
         /\ job'[w].pc = s /\ job'[w].slot = job[w].slot
         /\ job'[w].port = job[w].port /\ job'[w].wipe = job[w].wipe
         /\ job'[w].kind = job[w].kind /\ job'[w].login = job[w].login
<1>1. job[w] \in Job /\ job \in [Workers -> Job]
  BY DEF TypeInv, JobInv
<1> QED
  BY <1>1 DEF Goto, Job

LEMMA GotoPortFields ==
  ASSUME TypeInv, NEW w \in Workers, NEW p,
         job' = [job EXCEPT ![w].pc = "unit", ![w].port = p]
  PROVE  /\ job' = [job EXCEPT ![w] = [job[w] EXCEPT !.pc = "unit", !.port = p]]
         /\ job'[w].pc = "unit" /\ job'[w].slot = job[w].slot
         /\ job'[w].port = p
<1>1. job[w] \in Job /\ job \in [Workers -> Job]
  BY DEF TypeInv, JobInv
<1> QED
  BY <1>1 DEF Job

LEMMA ReturnFields ==
  ASSUME TypeInv, NEW w \in Workers, Return(w)
  PROVE  job' = [job EXCEPT ![w] = Idle] /\ job'[w].pc = "idle"
<1>1. job \in [Workers -> Job]
  BY DEF TypeInv, JobInv
<1> QED
  BY <1>1 DEF Return, Idle

\* While one worker takes a step the others are idle.
LEMMA SoloOthers ==
  ASSUME TypeInv, OneAtATime, NEW w \in Workers, ~At(w, "idle"),
         NEW j, job' = [job EXCEPT ![w] = j], SoloJob(w)'
  PROVE  \A v \in Workers : SoloJob(v)'
<1> SUFFICES ASSUME NEW v \in Workers, v # w PROVE SoloJob(v)'
  OBVIOUS
<1>0. Idle.pc = "idle"
  BY DEF Idle
<1>1. job[v] = Idle
  BY <1>0 DEF OneAtATime, At
<1>2. job'[v].pc = "idle"
  BY <1>0, <1>1 DEF TypeInv, JobInv
<1> QED
  BY <1>2 DEF SoloJob, At, PortSteps

LEMMA LowestFreeStays ==
  ASSUME UNCHANGED registry
  PROVE  LowestFree' = LowestFree /\ Registered' = Registered
BY DEF LowestFree, FreePorts, UsedPorts, Registered

\* With one job at a time INSERT OR REPLACE replaces no other slot's row.
LEMMA RegisterEvictsNobody ==
  ASSUME SoloInv, NEW w \in Workers, RegisterSlot(w)
  PROVE  /\ job[w].slot \in Names /\ job[w].port \in Ports
         /\ registry' = [registry EXCEPT ![job[w].slot] = job[w].port]
         /\ \/ registry[job[w].slot] = job[w].port
            \/ registry[job[w].slot] = NoPort /\ job[w].port \in LowestFree
<1> DEFINE n == job[w].slot
           p == job[w].port
<1>1. At(w, "register") /\ TypeOK
  BY DEF RegisterSlot, SoloInv, TypeInv
<1>2. n \in Names /\ p \in Ports /\ p # NoPort
  BY <1>1, ConstantsOK DEF SoloInv, TypeInv, JobInv, JobOK, At, PortSteps
<1>3. registry[n] = p \/ (registry[n] = NoPort /\ p \in LowestFree)
  BY <1>1 DEF SoloInv, SoloJob, At, PortSteps
<1>4. ASSUME NEW m \in Names, m # n PROVE registry[m] # p
  <2>1. CASE registry[n] = p
    BY <1>2, <1>4, <2>1 DEF SoloInv, RegisteredPortsDiffer, Registered
  <2>2. CASE p \in LowestFree
    <3>1. p \notin UsedPorts
      BY <2>2 DEF LowestFree, FreePorts
    <3> QED
      BY <1>2, <3>1 DEF UsedPorts, Registered
  <2> QED
    BY <1>3, <2>1, <2>2
<1>5. registry' = [registry EXCEPT ![n] = p]
  BY <1>1, <1>2, <1>4 DEF RegisterSlot, TypeOK
<1> QED
  BY <1>2, <1>3, <1>5
\* What the steps of the job in flight keep.
SoloKept(w) ==
    /\ RegisteredHasAccount' /\ FilesNameRegisteredPort'
    /\ SoloJob(w)'
    /\ \E j : job' = [job EXCEPT ![w] = j]

LEMMA SoloCreate ==
  ASSUME SoloInv, NEW w \in Workers, CreateStep(w)
  PROVE  SoloKept(w)
<1> DEFINE n == job[w].slot
           p == job[w].port
<1> USE DEF At, host, db
<1>0. /\ TypeOK /\ TypeInv /\ SoloJob(w)
      /\ RegisteredHasAccount /\ FilesNameRegisteredPort
      /\ job[w].pc # "idle" => n \in Names
      /\ job[w].pc \in PortSteps => p \in Ports
  BY DEF SoloInv, TypeInv, JobInv, JobOK
<1>r. ASSUME Return(w)
      PROVE  SoloJob(w)' /\ \E j : job' = [job EXCEPT ![w] = j]
  BY <1>0, <1>r, ReturnFields DEF SoloJob, PortSteps
<1>1. CASE CheckName(w)
  <2>1. SoloJob(w)' /\ \E j : job' = [job EXCEPT ![w] = j]
    BY <1>0, <1>1, <1>r, GotoFields DEF CheckName, SoloJob, PortSteps
  <2> QED
    BY <1>0, <1>1, <2>1
       DEF CheckName, SoloKept, RegisteredHasAccount, FilesNameRegisteredPort, Registered
<1>2. CASE UserAdd(w)
  <2>1. SoloJob(w)' /\ \E j : job' = [job EXCEPT ![w] = j]
    BY <1>0, <1>2, <1>r, GotoFields DEF UserAdd, SoloJob, PortSteps
  <2> QED
    BY <1>0, <1>2, <2>1
       DEF UserAdd, SoloKept, RegisteredHasAccount, FilesNameRegisteredPort, Registered
<1>3. CASE PortOf(w)
  <2>1. SoloJob(w)' /\ \E j : job' = [job EXCEPT ![w] = j]
    <3>1. CASE registry[n] # NoPort
      <4>1. job' = [job EXCEPT ![w].pc = "unit", ![w].port = registry[n]]
        BY <1>3, <3>1 DEF PortOf
      <4>2. n \in accounts /\ UNCHANGED <<accounts, registry>>
        BY <1>0, <1>3 DEF PortOf, SoloJob
      <4>3. /\ job'[w].pc = "unit" /\ job'[w].slot = n
            /\ job'[w].port = registry[n]
            /\ \E j : job' = [job EXCEPT ![w] = j]
        BY <1>0, <4>1, GotoPortFields
      <4> QED
        BY <4>2, <4>3 DEF SoloJob, PortSteps
    <3>2. CASE registry[n] = NoPort
      <4>1. Goto(w, "alloc")
        BY <1>3, <3>2 DEF PortOf, Goto
      <4> QED
        <5>1. n \in accounts /\ UNCHANGED <<accounts, registry>>
          BY <1>0, <1>3 DEF PortOf, SoloJob
        <5> QED
          BY <1>0, <3>2, <4>1, <5>1, GotoFields DEF SoloJob, PortSteps
    <3> QED
      BY <3>1, <3>2
  <2> QED
    BY <1>0, <1>3, <2>1
       DEF PortOf, SoloKept, RegisteredHasAccount, FilesNameRegisteredPort, Registered
<1>4. CASE AllocatePort(w)
  <2>1. SoloJob(w)' /\ \E j : job' = [job EXCEPT ![w] = j]
    <3>1. CASE Return(w)
      BY <3>1, <1>r
    <3>2. ASSUME NEW q \in LowestFree,
                 job' = [job EXCEPT ![w].pc = "unit", ![w].port = q]
          PROVE  SoloJob(w)' /\ \E j : job' = [job EXCEPT ![w] = j]
      <4>1. registry[n] = NoPort /\ n \in accounts
        BY <1>0, <1>4 DEF AllocatePort, SoloJob, PortSteps
      <4>2. LowestFree' = LowestFree
        BY <1>4, LowestFreeStays DEF AllocatePort
      <4> QED
        <5>1. /\ job'[w].pc = "unit" /\ job'[w].slot = n /\ job'[w].port = q
              /\ \E j : job' = [job EXCEPT ![w] = j]
          BY <1>0, <3>2, GotoPortFields
        <5>2. UNCHANGED <<accounts, registry>>
          BY <1>4 DEF AllocatePort
        <5> QED
          BY <4>1, <4>2, <5>1, <5>2 DEF SoloJob, PortSteps
    <3> QED
      BY <1>4, <3>1, <3>2 DEF AllocatePort
  <2> QED
    BY <1>0, <1>4, <2>1
       DEF AllocatePort, SoloKept, RegisteredHasAccount, FilesNameRegisteredPort, Registered
<1>5. CASE WriteUnit(w)
  <2>0. LowestFree' = LowestFree /\ Registered' = Registered
    BY <1>5, LowestFreeStays DEF WriteUnit
  <2>1. SoloJob(w)' /\ \E j : job' = [job EXCEPT ![w] = j]
    BY <1>0, <1>5, <2>0, GotoFields DEF WriteUnit, SoloJob, PortSteps, TypeOK
  <2>2. n \in Registered => registry[n] = p
    BY <1>0, <1>5 DEF WriteUnit, SoloJob, PortSteps, Registered
  <2>3. FilesNameRegisteredPort'
    BY <1>0, <1>5, <2>0, <2>2 DEF WriteUnit, FilesNameRegisteredPort, TypeOK
  <2> QED
    BY <1>0, <1>5, <2>0, <2>1, <2>3 DEF WriteUnit, SoloKept, RegisteredHasAccount
<1>6. CASE StartShell(w)
  <2>0. LowestFree' = LowestFree /\ Registered' = Registered
    BY <1>6, LowestFreeStays DEF StartShell
  <2>1. SoloJob(w)' /\ \E j : job' = [job EXCEPT ![w] = j]
    <3>1. Goto(w, "gate") \/ Return(w)
      BY <1>6 DEF StartShell
    <3>2. ASSUME Goto(w, "gate") PROVE SoloJob(w)' /\ \E j : job' = [job EXCEPT ![w] = j]
      BY <1>0, <1>6, <2>0, <3>2, GotoFields DEF StartShell, SoloJob, PortSteps
    <3> QED
      BY <1>r, <3>1, <3>2
  <2> QED
    BY <1>0, <1>6, <2>0, <2>1
       DEF StartShell, SoloKept, RegisteredHasAccount, FilesNameRegisteredPort
<1>7. CASE WriteGate(w)
  <2>0. LowestFree' = LowestFree /\ Registered' = Registered
    BY <1>7, LowestFreeStays DEF WriteGate
  <2>1. SoloJob(w)' /\ \E j : job' = [job EXCEPT ![w] = j]
    BY <1>0, <1>7, <2>0, GotoFields DEF WriteGate, SoloJob, PortSteps, TypeOK
  <2>2. n \in Registered => registry[n] = p
    BY <1>0, <1>7 DEF WriteGate, SoloJob, PortSteps, Registered
  <2>3. FilesNameRegisteredPort'
    BY <1>0, <1>7, <2>0, <2>2 DEF WriteGate, FilesNameRegisteredPort, TypeOK
  <2> QED
    BY <1>0, <1>7, <2>0, <2>1, <2>3 DEF WriteGate, SoloKept, RegisteredHasAccount
<1>8. CASE TestGate(w)
  <2>0. LowestFree' = LowestFree /\ Registered' = Registered
    BY <1>8, LowestFreeStays DEF TestGate
  <2>1. SoloJob(w)' /\ \E j : job' = [job EXCEPT ![w] = j]
    <3>1. Return(w) \/ (Goto(w, "register") /\ gate' = gate)
      BY <1>8 DEF TestGate
    <3>2. ASSUME Goto(w, "register"), gate' = gate
          PROVE  SoloJob(w)' /\ \E j : job' = [job EXCEPT ![w] = j]
      BY <1>0, <1>8, <2>0, <3>2, GotoFields DEF TestGate, SoloJob, PortSteps
    <3> QED
      BY <1>r, <3>1, <3>2
  <2>2. FilesNameRegisteredPort'
    <3>1. UNCHANGED <<unit, registry>> /\ gate' \in {gate, [gate EXCEPT ![n] = NoPort]}
      BY <1>8 DEF TestGate
    <3> QED
      <4>1. \A m \in Names : gate'[m] \in {gate[m], NoPort}
        BY <1>0, <3>1 DEF TypeOK
      <4> QED
        BY <1>0, <2>0, <3>1, <4>1 DEF FilesNameRegisteredPort, Registered
  <2> QED
    BY <1>0, <1>8, <2>0, <2>1, <2>2 DEF TestGate, SoloKept, RegisteredHasAccount
<1>9. CASE RegisterSlot(w)
  <2>0. n \in Names /\ p \in Ports /\ registry' = [registry EXCEPT ![n] = p]
    BY <1>9, RegisterEvictsNobody
  <2>1. n \in accounts /\ unit[n] = p /\ gate[n] = p
    BY <1>0, <1>9 DEF RegisterSlot, SoloJob, PortSteps
  <2>2. Registered' \subseteq Registered \cup {n} /\ registry'[n] = p /\ p # NoPort
    BY <1>0, <2>0, ConstantsOK DEF Registered, TypeOK
  <2>3. SoloJob(w)' /\ \E j : job' = [job EXCEPT ![w] = j]
    <3>1. ASSUME Goto(w, "account")
          PROVE  SoloJob(w)' /\ \E j : job' = [job EXCEPT ![w] = j]
      BY <1>0, <1>9, <2>1, <2>2, <3>1, GotoFields DEF RegisterSlot, SoloJob, PortSteps
    <3> QED
      BY <1>9, <1>r, <3>1 DEF RegisterSlot
  <2>4. RegisteredHasAccount'
    BY <1>0, <1>9, <2>1, <2>2 DEF RegisterSlot, RegisteredHasAccount
  <2>5. FilesNameRegisteredPort'
    BY <1>0, <1>9, <2>0, <2>1, <2>2
       DEF RegisterSlot, FilesNameRegisteredPort, Registered, TypeOK
  <2> QED
    BY <2>3, <2>4, <2>5 DEF SoloKept
<1>10. CASE WriteAccount(w)
  <2>1. SoloJob(w)' /\ \E j : job' = [job EXCEPT ![w] = j]
    BY <1>10, <1>r DEF WriteAccount
  <2> QED
    BY <1>0, <1>10, <2>1
       DEF WriteAccount, SoloKept, RegisteredHasAccount, FilesNameRegisteredPort, Registered
<1> QED
  BY <1>1, <1>2, <1>3, <1>4, <1>5, <1>6, <1>7, <1>8, <1>9, <1>10 DEF CreateStep

LEMMA SoloRemove ==
  ASSUME SoloInv, NEW w \in Workers, RemoveStep(w)
  PROVE  SoloKept(w)
<1> DEFINE n == job[w].slot
<1> USE DEF At, host, db
<1>0. /\ TypeOK /\ TypeInv /\ SoloJob(w)
      /\ RegisteredHasAccount /\ FilesNameRegisteredPort
      /\ job[w].pc # "idle" => n \in Names
  BY DEF SoloInv, TypeInv, JobInv, JobOK
<1>r. ASSUME Return(w)
      PROVE  SoloJob(w)' /\ \E j : job' = [job EXCEPT ![w] = j]
  BY <1>0, <1>r, ReturnFields DEF SoloJob, PortSteps
<1>g. ASSUME NEW s \in {"stop", "unlink", "ungate"}, Goto(w, s)
      PROVE  SoloJob(w)' /\ \E j : job' = [job EXCEPT ![w] = j]
  BY <1>0, <1>g, GotoFields DEF SoloJob, PortSteps
<1>1. CASE CheckRemovable(w)
  <2>1. SoloJob(w)' /\ \E j : job' = [job EXCEPT ![w] = j]
    BY <1>1, <1>r, <1>g DEF CheckRemovable
  <2> QED
    BY <1>0, <1>1, <2>1
       DEF CheckRemovable, SoloKept, RegisteredHasAccount, FilesNameRegisteredPort,
           Registered
<1>2. CASE StopShell(w)
  <2>1. SoloJob(w)' /\ \E j : job' = [job EXCEPT ![w] = j]
    BY <1>2, <1>g DEF StopShell
  <2> QED
    BY <1>0, <1>2, <2>1
       DEF StopShell, SoloKept, RegisteredHasAccount, FilesNameRegisteredPort, Registered
<1>3. CASE UnlinkUnit(w)
  <2>1. SoloJob(w)' /\ \E j : job' = [job EXCEPT ![w] = j]
    BY <1>3, <1>g DEF UnlinkUnit
  <2>2. FilesNameRegisteredPort'
    BY <1>0, <1>3 DEF UnlinkUnit, FilesNameRegisteredPort, Registered, TypeOK
  <2> QED
    BY <1>0, <1>3, <2>1, <2>2 DEF UnlinkUnit, SoloKept, RegisteredHasAccount, Registered
<1>4. CASE RemoveGate(w)
  <2>1. SoloJob(w)' /\ \E j : job' = [job EXCEPT ![w] = j]
    <3>1. CASE job[w].wipe
      BY <1>0, <1>4, <3>1, GotoFields DEF RemoveGate, SoloJob, PortSteps
    <3>2. CASE ~job[w].wipe
      BY <1>4, <1>r, <3>2 DEF RemoveGate
    <3> QED
      BY <3>1, <3>2
  <2>2. FilesNameRegisteredPort'
    BY <1>0, <1>4 DEF RemoveGate, FilesNameRegisteredPort, Registered, TypeOK
  <2> QED
    BY <1>0, <1>4, <2>1, <2>2 DEF RemoveGate, SoloKept, RegisteredHasAccount, Registered
<1>5. CASE DropRow(w)
  <2>0. registry' = [registry EXCEPT ![n] = NoPort] /\ n \in Names
    BY <1>0, <1>5 DEF DropRow
  <2>1. Registered' \subseteq Registered /\ registry'[n] = NoPort
    BY <1>0, <2>0 DEF Registered, TypeOK
  <2>2. SoloJob(w)' /\ \E j : job' = [job EXCEPT ![w] = j]
    BY <1>0, <1>5, <2>1, GotoFields DEF DropRow, SoloJob, PortSteps
  <2>3. FilesNameRegisteredPort'
    BY <1>0, <1>5, <2>0 DEF DropRow, FilesNameRegisteredPort, Registered, TypeOK
  <2> QED
    BY <1>0, <1>5, <2>1, <2>2, <2>3 DEF DropRow, SoloKept, RegisteredHasAccount
<1>6. CASE UserDel(w)
  <2>1. SoloJob(w)' /\ \E j : job' = [job EXCEPT ![w] = j]
    BY <1>6, <1>r DEF UserDel
  <2>2. n \notin Registered
    BY <1>0, <1>6 DEF UserDel, SoloJob, Registered
  <2> QED
    BY <1>0, <1>6, <2>1, <2>2
       DEF UserDel, SoloKept, RegisteredHasAccount, FilesNameRegisteredPort, Registered
<1> QED
  BY <1>1, <1>2, <1>3, <1>4, <1>5, <1>6 DEF RemoveStep
\* A handler leaves the host and the slot table alone; what it starts, if
\* anything, is a job at its first check.
LEMMA RequestShape ==
  ASSUME TypeInv, Request
  PROVE  /\ UNCHANGED <<host, registry>>
         /\ \/ UNCHANGED job
            \/ \E w \in Workers : \E j : Begin(w, j) /\ j.pc \in {"check", "removable"}
<1>1. ASSUME NEW kind, NEW n, NEW l PROVE CreateJob(kind, n, l).pc = "check"
  BY DEF CreateJob, Idle
<1>2. ASSUME NEW n, NEW wipe PROVE RemoveJob(n, wipe).pc = "removable"
  BY DEF RemoveJob, Idle
<1>3. ASSUME NEW w \in Workers, NEW n \in Names,
             \/ SlotsCreate(w, n)
             \/ BotWipe(w, n)
             \/ \E wipe \in BOOLEAN : SlotsDelete(w, n, wipe)
             \/ \E l \in Logins : \/ UsersCreate(w, l, n)
                                  \/ UsersUpdate(w, l, n)
                                  \/ BotCreate(w, l, n)
      PROVE  /\ UNCHANGED <<host, registry>>
             /\ \E j : Begin(w, j) /\ j.pc \in {"check", "removable"}
  BY <1>1, <1>2, <1>3
     DEF SlotsCreate, BotWipe, SlotsDelete, UsersCreate, UsersUpdate, BotCreate, db
<1>4. ASSUME NEW w \in Workers, NEW l \in Logins, NEW wipe \in BOOLEAN,
             BotRevoke(w, l, wipe)
      PROVE  /\ UNCHANGED <<host, registry>>
             /\ \/ UNCHANGED job
                \/ Begin(w, RemoveJob(slotOf[l], wipe))
  BY <1>4 DEF BotRevoke, Begin
<1>5. ASSUME NEW l \in Logins,
             UsersCreatePlain(l) \/ UsersClearSlot(l) \/ UsersDelete(l)
      PROVE  UNCHANGED <<host, registry, job>>
  BY <1>5 DEF UsersCreatePlain, UsersClearSlot, UsersDelete
<1> QED
  BY <1>2, <1>3, <1>4, <1>5 DEF Request

\* A request or the environment changes nothing a job has behind it.
LEMMA SoloElsewhere ==
  ASSUME SoloInv, UNCHANGED <<accounts, unit, gate, registry>>,
         job' \in [Workers -> Job],
         \A w \in Workers : \/ job'[w] = job[w]
                            \/ job'[w].pc \in {"idle", "check", "removable"}
  PROVE  /\ RegisteredHasAccount' /\ FilesNameRegisteredPort'
         /\ \A w \in Workers : SoloJob(w)'
<1>1. LowestFree' = LowestFree /\ Registered' = Registered
  BY LowestFreeStays
<1>2. RegisteredHasAccount' /\ FilesNameRegisteredPort'
  BY <1>1 DEF SoloInv, RegisteredHasAccount, FilesNameRegisteredPort
<1>3. ASSUME NEW w \in Workers PROVE SoloJob(w)'
  <2>1. CASE job'[w] = job[w]
    BY <1>1, <2>1 DEF SoloInv, SoloJob, At
  <2>2. CASE job'[w].pc \in {"idle", "check", "removable"}
    BY <2>2 DEF SoloJob, At, PortSteps
  <2> QED
    BY <2>1, <2>2
<1> QED
  BY <1>2, <1>3

LEMMA SoloNext == SoloInv /\ OneAtATime /\ [Next]_vars => SoloInv'
<1> SUFFICES ASSUME SoloInv, OneAtATime, [Next]_vars PROVE SoloInv'
  OBVIOUS
<1>1. TypeInv' /\ RegisteredPortsDiffer'
  BY NextType, PortsDifferNext DEF SoloInv
<1>j. TypeInv /\ job \in [Workers -> Job] /\ job' \in [Workers -> Job]
  BY <1>1 DEF SoloInv, TypeInv, JobInv
<1>2. ASSUME NEW w \in Workers, SoloKept(w), ~At(w, "idle")
      PROVE  SoloInv'
  <2>1. \A v \in Workers : SoloJob(v)'
    BY <1>2, SoloOthers DEF SoloInv, SoloKept
  <2> QED
    BY <1>1, <1>2, <2>1 DEF SoloInv, SoloKept
<1>3. ASSUME NEW w \in Workers, CreateStep(w) \/ RemoveStep(w)
      PROVE  SoloInv'
  <2>1. ~At(w, "idle")
    BY <1>3 DEF At, CreateStep, CheckName, UserAdd, PortOf, AllocatePort, WriteUnit,
                StartShell, WriteGate, TestGate, RegisterSlot, WriteAccount,
                RemoveStep, CheckRemovable, StopShell, UnlinkUnit, RemoveGate,
                DropRow, UserDel
  <2> QED
    BY <1>2, <1>3, <2>1, SoloCreate, SoloRemove
<1>4. CASE Request
  <2>1. UNCHANGED <<accounts, unit, gate, registry>>
    BY <1>4, <1>j, RequestShape DEF host
  <2>2. ASSUME NEW v \in Workers
        PROVE  job'[v] = job[v] \/ job'[v].pc \in {"check", "removable"}
    BY <1>4, <1>j, RequestShape DEF Begin
  <2> QED
    BY <1>1, <1>j, <2>1, <2>2, SoloElsewhere DEF SoloInv
<1>5. ASSUME NEW n \in Names, TtydBinds(n)
      PROVE  SoloInv'
  BY <1>1, <1>5, <1>j, SoloElsewhere DEF SoloInv, TtydBinds, db
<1>6. ASSUME NEW P \in {Panel, Bot}, Crash(P)
      PROVE  SoloInv'
  <2>1. ASSUME NEW v \in Workers
        PROVE  job'[v] = job[v] \/ job'[v].pc = "idle"
    BY <1>6 DEF Crash, Idle
  <2> QED
    BY <1>1, <1>6, <1>j, <2>1, SoloElsewhere DEF SoloInv, Crash, host, db
<1>7. CASE UNCHANGED vars
  BY <1>1, <1>7, <1>j, SoloElsewhere DEF SoloInv, vars, host, db
<1> QED
  BY <1>3, <1>4, <1>5, <1>6, <1>7 DEF Next

LEMMA SoloInit == Init => SoloInv
<1> SUFFICES ASSUME Init PROVE SoloInv
  OBVIOUS
<1>1. TypeInv
  BY InitType
<1>2. Registered = {}
  BY DEF Init, Registered
<1>3. ASSUME NEW w \in Workers PROVE SoloJob(w)
  BY DEF Init, Idle, SoloJob, At, PortSteps
<1> QED
  BY <1>1, <1>2, <1>3
     DEF SoloInv, RegisteredPortsDiffer, RegisteredHasAccount, FilesNameRegisteredPort

LEMMA SoloInvariant == Spec /\ []OneAtATime => []SoloInv
BY SoloInit, SoloNext, PTL DEF Spec

\* When no two jobs overlap, a registered slot has its linux account whatever
\* tool fails and wherever a job dies: create_slot registers after useradd,
\* remove_slot deletes the row before userdel.
THEOREM RegisteredSlotsHaveAccounts ==
  Spec /\ []OneAtATime => []RegisteredHasAccount
<1>1. SoloInv => RegisteredHasAccount
  BY DEF SoloInv
<1> QED
  BY <1>1, SoloInvariant, PTL

\* When no two jobs overlap, the unit file and the gate file of a registered
\* slot name its registered port, or are absent.
THEOREM FilesAgreeWithRegistry ==
  Spec /\ []OneAtATime => []FilesNameRegisteredPort
<1>1. SoloInv => FilesNameRegisteredPort
  BY DEF SoloInv
<1> QED
  BY <1>1, SoloInvariant, PTL

\* When no two jobs overlap, a registered slot keeps its port until a wipe of
\* that very slot drops its row: INSERT OR REPLACE never hits another slot.
THEOREM PortsAreStable == Spec /\ []OneAtATime => PortStable
<1>1. ASSUME SoloInv, [Next]_vars, NEW n \in Names
      PROVE  PortKept(n)
  <2>1. CASE UNCHANGED registry
    BY <2>1 DEF PortKept
  <2>2. ASSUME NEW w \in Workers, RegisterSlot(w)
        PROVE  PortKept(n)
    BY <1>1, <2>2, RegisterEvictsNobody DEF PortKept, SoloInv, TypeInv, TypeOK
  <2>3. ASSUME NEW w \in Workers, DropRow(w)
        PROVE  PortKept(n)
    BY <1>1, <2>3 DEF DropRow, At, PortKept, SoloInv, SoloJob, TypeInv, TypeOK
  <2> QED
    BY <1>1, <2>1, <2>2, <2>3, RegistryWriters
<1>2. SoloInv /\ [Next]_vars => \A n \in Names : PortKept(n)
  BY <1>1
<1> QED
  BY <1>2, SoloInvariant, PTL DEF Spec, PortStable

\* The free ports and the lowest of them are the abstract registry's.
LEMMA FreeIsFree ==
  ASSUME TypeOK
  PROVE  /\ AbstractRegistry!Free = FreePorts
         /\ \A p : p \in LowestFree <=>
               p \in AbstractRegistry!Free /\ \A q \in AbstractRegistry!Free : p <= q
<1>1. AbstractRegistry!Free = FreePorts
  BY ConstantsOK
     DEF AbstractRegistry!Free, FreePorts, UsedPorts, Registered, Ports, TypeOK
<1> QED
  BY <1>1 DEF LowestFree

\* When no two jobs overlap, the slot table with all the steps around it
\* implements the abstract registry: every step of a job is a Claim of the
\* lowest free port, a Release, or nothing.
THEOREM RegistryKeepsItsPromise == Spec /\ []OneAtATime => PortPromise
<1>1. Init => AbstractRegistry!Init
  BY DEF Init, AbstractRegistry!Init
<1>2. ASSUME SoloInv, [Next]_vars
      PROVE  AbstractRegistry!Next \/ UNCHANGED registry
  <2>0. TypeOK
    BY <1>2 DEF SoloInv, TypeInv
  <2>1. ASSUME NEW w \in Workers, RegisterSlot(w), registry' # registry
        PROVE  AbstractRegistry!Claim(job[w].slot) /\ job[w].slot \in Names
    <3> DEFINE n == job[w].slot
               p == job[w].port
    <3>1. /\ n \in Names
          /\ registry' = [registry EXCEPT ![n] = p]
          /\ registry[n] = p \/ (registry[n] = NoPort /\ p \in LowestFree)
      BY <1>2, <2>1, RegisterEvictsNobody
    <3>2. registry[n] # p
      BY <2>0, <2>1, <3>1 DEF TypeOK
    <3> QED
      BY <2>0, <3>1, <3>2, FreeIsFree DEF AbstractRegistry!Claim
  <2>2. ASSUME NEW w \in Workers, DropRow(w), registry' # registry
        PROVE  AbstractRegistry!Release(job[w].slot) /\ job[w].slot \in Names
    <3>1. job[w].slot \in Names
      BY <1>2, <2>2 DEF DropRow, At, SoloInv, TypeInv, JobInv, JobOK
    <3>2. registry[job[w].slot] # NoPort
      BY <2>0, <2>2, <3>1 DEF DropRow, TypeOK
    <3> QED
      BY <2>2, <3>1, <3>2 DEF DropRow, AbstractRegistry!Release
  <2> QED
    BY <1>2, <2>1, <2>2, RegistryWriters DEF AbstractRegistry!Next
<1>3. SoloInv /\ [Next]_vars => [AbstractRegistry!Next]_registry
  BY <1>2
<1> QED
  BY <1>1, <1>3, SoloInvariant, PTL DEF Spec, PortPromise, AbstractRegistry!Spec
---------------------------------------------------------------------------
(* Accounts and the slots they are given.                                   *)

AssignInv ==
    /\ AssignedIsRegistered
    /\ \A w \in Workers : job[w].pc \in RemoveSteps => job[w].slot \notin Assigned

\* A handler gives no slot to an account itself, and the slot whose removal it
\* starts is nobody's.
LEMMA RequestAssigns ==
  ASSUME TypeInv, Request, SparesOthersSlots
  PROVE  /\ Assigned' \subseteq Assigned
         /\ \A w \in Workers :
               job'[w].pc \in RemoveSteps =>
                  \/ job'[w] = job[w]
                  \/ job'[w].slot \notin Assigned'
<1>0. /\ TypeOK /\ job \in [Workers -> Job] /\ Idle.pc = "idle"
      /\ "check" \notin RemoveSteps
  BY DEF TypeInv, JobInv, Idle, RemoveSteps
<1>1. ASSUME NEW w \in Workers, NEW n \in Names,
             \/ SlotsCreate(w, n)
             \/ \E l \in Logins : \/ UsersCreate(w, l, n)
                                  \/ UsersUpdate(w, l, n)
                                  \/ BotCreate(w, l, n)
      PROVE  /\ UNCHANGED slotOf
             /\ \A v \in Workers : job'[v] = job[v] \/ job'[v].pc = "check"
  <2>1. ASSUME NEW kind, NEW l PROVE CreateJob(kind, n, l).pc = "check"
    BY DEF CreateJob, Idle
  <2> QED
    BY <1>0, <1>1, <2>1
       DEF SlotsCreate, UsersCreate, UsersUpdate, BotCreate, Begin, db
<1>2. ASSUME NEW w \in Workers, NEW n \in Names,
             BotWipe(w, n) \/ \E wipe \in BOOLEAN : SlotsDelete(w, n, wipe)
      PROVE  /\ UNCHANGED slotOf
             /\ \A v \in Workers : job'[v] = job[v] \/ job'[v].slot \notin Assigned
  <2>1. ASSUME NEW wipe PROVE RemoveJob(n, wipe).slot = n
    BY DEF RemoveJob, Idle
  <2> QED
    BY <1>0, <1>2, <2>1 DEF BotWipe, SlotsDelete, Begin, db
<1>3. ASSUME NEW w \in Workers, NEW l \in Logins, NEW wipe \in BOOLEAN,
             BotRevoke(w, l, wipe)
      PROVE  /\ Assigned' \subseteq Assigned
             /\ \A v \in Workers : job'[v] = job[v] \/ job'[v].slot \notin Assigned'
  <2>1. Assigned' \subseteq Assigned
    BY <1>0, <1>3, ConstantsOK DEF BotRevoke, Assigned, TypeOK
  <2>2. CASE job' = job
    BY <2>1, <2>2
  <2>3. CASE slotOf[l] # NoSlot
    <3>1. job' = [job EXCEPT ![w] = RemoveJob(slotOf[l], wipe)]
      BY <1>3, <2>3 DEF BotRevoke
    <3>2. RemoveJob(slotOf[l], wipe).kind = "remove"
      BY DEF RemoveJob, Idle
    <3>3. job'[w].kind = "remove" /\ At(w, "idle") /\ w \in Bot
      BY <1>0, <1>3, <3>1, <3>2 DEF BotRevoke, At
    <3>4. job'[w].slot \notin Assigned'
      BY <3>3 DEF SparesOthersSlots, Assigned
    <3> QED
      BY <1>0, <2>1, <3>1, <3>4
  <2> QED
    BY <1>3, <2>2, <2>3 DEF BotRevoke
<1>4. ASSUME NEW l \in Logins,
             UsersCreatePlain(l) \/ UsersClearSlot(l) \/ UsersDelete(l)
      PROVE  Assigned' \subseteq Assigned /\ UNCHANGED job
  BY <1>0, <1>4, ConstantsOK
     DEF UsersCreatePlain, UsersClearSlot, UsersDelete, Assigned, TypeOK
<1>5. UNCHANGED slotOf => Assigned' = Assigned
  BY DEF Assigned
<1> QED
  BY <1>0, <1>1, <1>2, <1>3, <1>4, <1>5 DEF Request

\* A step of a job assigns a slot only at its end, to an account of its own.
LEMMA JobAssigns ==
  ASSUME SoloInv, AssignInv, OneAtATime, NEW w \in Workers,
         CreateStep(w) \/ RemoveStep(w)
  PROVE  AssignInv'
<1> DEFINE n == job[w].slot
<1> USE DEF At
<1>0. /\ TypeOK /\ TypeInv /\ SoloJob(w) /\ Idle.pc = "idle"
      /\ job \in [Workers -> Job] /\ AssignedIsRegistered
      /\ job[w].pc \in RemoveSteps => n \notin Assigned
  BY DEF SoloInv, TypeInv, JobInv, AssignInv, Idle
<1>a. UNCHANGED slotOf => Assigned' = Assigned
  BY DEF Assigned
<1>b. ASSUME job[w].pc # "idle", NEW j, job' = [job EXCEPT ![w] = j],
             j.pc \in RemoveSteps => j.slot \notin Assigned'
      PROVE  \A v \in Workers : job'[v].pc \in RemoveSteps => job'[v].slot \notin Assigned'
  <2>1. ASSUME NEW v \in Workers, v # w PROVE job'[v].pc \notin RemoveSteps
    BY <1>0, <1>b, <2>1 DEF OneAtATime, RemoveSteps
  <2> QED
    BY <1>0, <1>b, <2>1
<1>1. CASE RegisterSlot(w)
  <2>1. Assigned' = Assigned /\ Registered \subseteq Registered'
    BY ZenonT(80), <1>0, <1>1, <1>a, RegisterEvictsNobody, ConstantsOK
       DEF RegisterSlot, Registered, TypeOK
  <2>2. \E j : job' = [job EXCEPT ![w] = j] /\ j.pc \notin RemoveSteps
    BY <1>0, <1>1, ReturnFields, GotoFields DEF RegisterSlot, RemoveSteps
  <2> QED
    BY <1>0, <1>1, <1>b, <2>1, <2>2 DEF RegisterSlot, AssignInv, AssignedIsRegistered
<1>2. CASE WriteAccount(w)
  <2>1. n \in Registered
    BY <1>0, <1>2 DEF WriteAccount, SoloJob, Registered, SoloInv, TypeInv, JobInv, JobOK
  <2>2. Assigned' \subseteq Assigned \cup {n} /\ Registered' = Registered
    BY <1>0, <1>2, LowestFreeStays DEF WriteAccount, Assigned, TypeOK
  <2>3. job' = [job EXCEPT ![w] = Idle] /\ Idle.pc \notin RemoveSteps
    BY <1>0, <1>2 DEF WriteAccount, Return, RemoveSteps
  <2> QED
    BY <1>0, <1>2, <1>b, <2>1, <2>2, <2>3 DEF WriteAccount, AssignInv, AssignedIsRegistered
<1>3. CASE DropRow(w)
  <2>1. Assigned' = Assigned /\ Registered \subseteq Registered' \cup {n}
    BY <1>0, <1>3, <1>a DEF DropRow, Registered, TypeOK
  <2>2. n \notin Assigned
    BY <1>0, <1>3 DEF DropRow, RemoveSteps
  <2>3. \E j : job' = [job EXCEPT ![w] = j] /\ j.slot = n
    BY <1>0, <1>3, GotoFields DEF DropRow
  <2> QED
    BY <1>0, <1>3, <1>b, <2>1, <2>2, <2>3 DEF DropRow, AssignInv, AssignedIsRegistered
<1>4. CASE UNCHANGED <<registry, slotOf>>
  <2>1. Assigned' = Assigned /\ Registered' = Registered
    BY <1>4, <1>a, LowestFreeStays
  <2>2. job[w].pc # "idle"
    BY DEF CreateStep, CheckName, UserAdd, PortOf, AllocatePort, WriteUnit,
           StartShell, WriteGate, TestGate, RegisterSlot, WriteAccount,
           RemoveStep, CheckRemovable, StopShell, UnlinkUnit, RemoveGate,
           DropRow, UserDel
  <2>3. ASSUME Return(w)
        PROVE  \E j : job' = [job EXCEPT ![w] = j] /\ j.pc \notin RemoveSteps
    BY <1>0, <2>3 DEF Return, RemoveSteps
  <2>4. ASSUME NEW s \in CreateSteps, Goto(w, s)
        PROVE  \E j : job' = [job EXCEPT ![w] = j] /\ j.pc \notin RemoveSteps
    BY <1>0, <2>4, GotoFields DEF CreateSteps, RemoveSteps
  <2>5. ASSUME NEW p, job' = [job EXCEPT ![w].pc = "unit", ![w].port = p]
        PROVE  \E j : job' = [job EXCEPT ![w] = j] /\ j.pc \notin RemoveSteps
    BY ZenonT(80), <1>0, <2>5, GotoPortFields DEF RemoveSteps
  <2>6. ASSUME CreateStep(w)
        PROVE  \E j : job' = [job EXCEPT ![w] = j] /\ j.pc \notin RemoveSteps
    <3>1. \/ Return(w) \/ \E s \in CreateSteps : Goto(w, s)
          \/ \E p : job' = [job EXCEPT ![w].pc = "unit", ![w].port = p]
      BY <2>6 DEF CreateStep, CheckName, UserAdd, PortOf, AllocatePort, WriteUnit,
                  StartShell, WriteGate, TestGate, RegisterSlot, WriteAccount,
                  CreateSteps, Goto
    <3> QED
      BY <2>3, <2>4, <2>5, <3>1
  <2>7. ASSUME RemoveStep(w)
        PROVE  \E j : job' = [job EXCEPT ![w] = j] /\ j.slot \in {n, NoSlot}
    <3>1. Return(w) \/ \E s : Goto(w, s)
      BY <2>7 DEF RemoveStep, CheckRemovable, StopShell, UnlinkUnit, RemoveGate,
                  DropRow, UserDel
    <3> QED
      BY <1>0, <3>1, GotoFields DEF Return, Idle
  <2>8. ASSUME RemoveStep(w) PROVE n \notin Assigned
    BY <1>0, <2>8 DEF RemoveStep, CheckRemovable, StopShell, UnlinkUnit, RemoveGate,
                      DropRow, UserDel, RemoveSteps
  <2>9. NoSlot \notin Assigned
    BY ConstantsOK DEF Assigned
  <2> QED
    BY <1>0, <1>b, <2>1, <2>2, <2>6, <2>7, <2>8, <2>9 DEF AssignInv, AssignedIsRegistered
<1>5. \/ RegisterSlot(w) \/ WriteAccount(w) \/ DropRow(w)
      \/ UNCHANGED <<registry, slotOf>>
  BY DEF CreateStep, CheckName, UserAdd, PortOf, AllocatePort, WriteUnit, StartShell,
         WriteGate, TestGate, RemoveStep, CheckRemovable, StopShell, UnlinkUnit,
         RemoveGate, UserDel, db
<1> QED
  BY <1>1, <1>2, <1>3, <1>4, <1>5

LEMMA AssignNext ==
  SoloInv /\ AssignInv /\ OneAtATime /\ [SparesOthersSlots]_vars /\ [Next]_vars
     => AssignInv'
<1> SUFFICES ASSUME SoloInv, AssignInv, OneAtATime, [SparesOthersSlots]_vars,
                    [Next]_vars
             PROVE  AssignInv'
  OBVIOUS
<1> USE DEF AssignInv, AssignedIsRegistered
<1>1. ASSUME UNCHANGED <<registry, slotOf>>,
             \A w \in Workers : job'[w] = job[w] \/ job'[w].pc = "idle"
      PROVE  AssignInv'
  <2>1. Assigned' = Assigned /\ Registered' = Registered
    BY <1>1, LowestFreeStays DEF Assigned
  <2> QED
    BY <1>1, <2>1 DEF RemoveSteps
<1>2. CASE UNCHANGED vars
  BY <1>1, <1>2 DEF vars, db
<1>3. CASE Request /\ ~UNCHANGED vars
  <2>1. Registered' = Registered
    BY <1>3, RequestShape, LowestFreeStays DEF SoloInv
  <2> QED
    BY <1>3, <2>1, RequestAssigns DEF SoloInv
<1>4. ASSUME NEW n \in Names, TtydBinds(n) PROVE AssignInv'
  BY <1>1, <1>4 DEF TtydBinds, db
<1>5. ASSUME NEW P \in {Panel, Bot}, Crash(P) PROVE AssignInv'
  BY <1>1, <1>5 DEF Crash, Idle, db
<1> QED
  BY <1>2, <1>3, <1>4, <1>5, JobAssigns DEF Next

\* When no two jobs overlap and the bot revokes only accounts whose slot is
\* theirs alone, an account's slot is a registered one: create_slot has finished
\* when the account is written, and what is removed is nobody's.
THEOREM AccountsHaveSlots ==
  Spec /\ []OneAtATime /\ BotSparesOthersSlots => []AssignedIsRegistered
<1>1. Init => AssignInv
  BY ConstantsOK DEF Init, Idle, AssignInv, AssignedIsRegistered, Assigned, RemoveSteps
<1>2. AssignInv => AssignedIsRegistered
  BY DEF AssignInv
<1> QED
  BY <1>1, <1>2, AssignNext, SoloInvariant, PTL DEF Spec, BotSparesOthersSlots
---------------------------------------------------------------------------
(* Who is behind a slot's port.                                             *)

\* A port is a slot's when the slot is registered on it or a job is about to.
Held(n, p) ==
    \/ registry[n] = p
    \/ \E w \in Workers : /\ job[w].pc \in PortSteps
                          /\ job[w].slot = n /\ job[w].port = p

PortsHeld ==
    \A n \in Names : \A p \in {shell[n], gate[n], live[n]} :
        p # NoPort => Held(n, p)

Listeners == \A p \in Ports : listener[p] # NoSlot => shell[listener[p]] = p

LiveIsGated == \A n \in Names : gate[n] = NoPort => live[n] = NoPort

\* What a removal has taken down.
TornDown(w) ==
    /\ job[w].pc \in {"unlink", "ungate", "drop"} => shell[job[w].slot] = NoPort
    /\ At(w, "drop") => gate[job[w].slot] = NoPort

HostInv ==
    /\ PortsHeld
    /\ LiveIsGated
    /\ \A w \in Workers : TornDown(w)

\* However jobs run and fail, a ttyd listens on the port it was started with.
LEMMA ListenersNext == TypeInv /\ Listeners /\ [Next]_vars => Listeners'
<1> SUFFICES ASSUME TypeInv, Listeners, [Next]_vars PROVE Listeners'
  OBVIOUS
<1>0. TypeOK
  BY DEF TypeInv
<1>1. CASE UNCHANGED <<shell, listener>>
  BY <1>1 DEF Listeners
<1>2. ASSUME NEW n \in Names, TtydBinds(n) PROVE Listeners'
  BY <1>0, <1>2 DEF TtydBinds, Listeners, TypeOK
<1>3. ASSUME NEW n, listener' = Unbound(n),
             \A m \in Names : m # n => shell'[m] = shell[m]
      PROVE  Listeners'
  BY <1>0, <1>3 DEF Unbound, Listeners, TypeOK
<1>4. ASSUME NEW w \in Workers, StartShell(w) PROVE Listeners'
  BY <1>0, <1>1, <1>3, <1>4 DEF StartShell, TypeOK
<1>5. ASSUME NEW w \in Workers, StopShell(w) PROVE Listeners'
  BY <1>0, <1>1, <1>3, <1>5 DEF StopShell, TypeOK
<1>6. ASSUME NEW w \in Workers, CreateStep(w) \/ RemoveStep(w)
      PROVE  StartShell(w) \/ StopShell(w) \/ UNCHANGED <<shell, listener>>
  BY <1>6 DEF CreateStep, CheckName, UserAdd, PortOf, AllocatePort, WriteUnit,
              WriteGate, TestGate, RegisterSlot, WriteAccount, RemoveStep,
              CheckRemovable, UnlinkUnit, RemoveGate, DropRow, UserDel, host
<1>7. Request \/ (\E P \in {Panel, Bot} : Crash(P)) \/ UNCHANGED vars
         => UNCHANGED <<shell, listener>>
  BY RequestShape DEF Crash, vars, host
<1> QED
  BY <1>1, <1>2, <1>4, <1>5, <1>6, <1>7 DEF Next

\* With one job at a time no port is two slots'.
LEMMA HeldOnce ==
  ASSUME SoloInv, OneAtATime, NEW p \in Ports,
         NEW m \in Names, NEW n \in Names, Held(m, p), Held(n, p)
  PROVE  m = n
<1>1. p # NoPort
  BY ConstantsOK
<1>2. ASSUME NEW w \in Workers, NEW k \in Names,
             job[w].pc \in PortSteps, job[w].port = p, registry[k] = p
      PROVE  k = job[w].slot
  <2>0. job[w].slot \in Names
    BY <1>2 DEF SoloInv, TypeInv, JobInv, JobOK, PortSteps
  <2>1. CASE registry[job[w].slot] = p
    BY <1>1, <1>2, <2>0, <2>1 DEF SoloInv, RegisteredPortsDiffer, Registered
  <2>2. CASE p \in LowestFree
    BY <1>1, <1>2, <2>2 DEF LowestFree, FreePorts, UsedPorts, Registered
  <2> QED
    BY <1>2, <2>1, <2>2 DEF SoloInv, SoloJob
<1>3. ASSUME NEW v \in Workers, NEW w \in Workers,
             job[v].pc \in PortSteps, job[w].pc \in PortSteps
      PROVE  v = w
  BY <1>3 DEF OneAtATime, PortSteps, Idle
<1>4. registry[m] = p /\ registry[n] = p => m = n
  BY <1>1 DEF SoloInv, RegisteredPortsDiffer, Registered
<1> QED
  BY <1>2, <1>3, <1>4 DEF Held

\* What the tools that build and take down a slot do when none of them fails:
\* an account that could not be made or deleted is allowed for.
NoBreakdown == Faults \cap {"systemctl", "nginx", "crash"} = {}

\* What a step of a job keeps of HostInv, seen from its own slot.
HostKept(w) ==
    /\ PortsHeld' /\ LiveIsGated' /\ TornDown(w)'
    /\ \E j : job' = [job EXCEPT ![w] = j]

\* A port stays a slot's while its registration, or the job's port, stays.
LEMMA HeldStays ==
  ASSUME OneAtATime, NEW w \in Workers, ~At(w, "idle"), UNCHANGED registry,
         job[w].pc \in PortSteps =>
            /\ job'[w].pc \in PortSteps
            /\ job'[w].slot = job[w].slot /\ job'[w].port = job[w].port,
         NEW m, NEW q, Held(m, q)
  PROVE  Held(m, q)'
<1>1. CASE registry[m] = q
  BY <1>1 DEF Held
<1>2. ASSUME NEW v \in Workers, job[v].pc \in PortSteps,
             job[v].slot = m, job[v].port = q
      PROVE  Held(m, q)'
  <2>1. v = w
    BY <1>2 DEF OneAtATime, At, PortSteps, Idle
  <2> QED
    BY <1>2, <2>1 DEF Held
<1> QED
  BY <1>1, <1>2 DEF Held
LEMMA HostCreate ==
  ASSUME SoloInv, HostInv, OneAtATime, NoBreakdown, NEW w \in Workers, CreateStep(w)
  PROVE  HostKept(w)
<1> DEFINE n == job[w].slot
           p == job[w].port
           Held1 == \A m \in Names, q \in Ports : Held(m, q) => Held(m, q)'
<1> USE DEF At, host, db
<1>0. /\ TypeOK /\ TypeInv /\ SoloJob(w) /\ PortsHeld /\ LiveIsGated
      /\ job[w].pc # "idle" => n \in Names
      /\ job[w].pc \in PortSteps => p \in Ports
      /\ ~MayFail("systemctl") /\ ~MayFail("nginx")
  BY DEF SoloInv, TypeInv, JobInv, JobOK, HostInv, NoBreakdown, MayFail
<1>p. /\ \A m \in Names : /\ shell[m] \in Ports \cup {NoPort}
                          /\ gate[m] \in Ports \cup {NoPort}
                          /\ live[m] \in Ports \cup {NoPort}
      /\ NoPort \notin Ports
  BY <1>0, ConstantsOK DEF TypeOK
<1>r. ASSUME Return(w)
      PROVE  TornDown(w)' /\ \E j : job' = [job EXCEPT ![w] = j]
  BY <1>0, <1>r, ReturnFields DEF TornDown
<1>g. ASSUME NEW s \in CreateSteps, Goto(w, s)
      PROVE  TornDown(w)' /\ \E j : job' = [job EXCEPT ![w] = j]
  BY <1>0, <1>g, GotoFields DEF TornDown, CreateSteps
<1>u. ASSUME NEW q, job' = [job EXCEPT ![w].pc = "unit", ![w].port = q]
      PROVE  TornDown(w)' /\ \E j : job' = [job EXCEPT ![w] = j]
  BY <1>0, <1>u, GotoPortFields DEF TornDown
<1>q. ASSUME Held1, UNCHANGED <<shell, gate, live>>
      PROVE  PortsHeld' /\ LiveIsGated'
  BY <1>0, <1>p, <1>q DEF PortsHeld, LiveIsGated
<1>h. ASSUME Held1,
             \A m \in Names : \A q \in {shell'[m], gate'[m], live'[m]} :
                q \in {shell[m], gate[m], live[m]} \/ Held(m, q)'
      PROVE  PortsHeld'
  BY <1>0, <1>p, <1>h DEF PortsHeld
<1>e. ASSUME job[w].pc \in {"check", "useradd", "portof", "alloc", "account"},
             UNCHANGED registry
      PROVE  Held1
  BY <1>e, HeldStays DEF PortSteps
<1>f. ASSUME job[w].pc \in PortSteps, UNCHANGED registry,
             NEW s \in PortSteps, Goto(w, s)
      PROVE  Held1 /\ \A m, q : m = n /\ q = p => Held(m, q)'
  <2>1. job'[w].pc = s /\ job'[w].slot = n /\ job'[w].port = p
    BY <1>0, <1>f, GotoFields
  <2>2. Held1
    BY <1>f, <2>1, HeldStays DEF PortSteps
  <2> QED
    BY <1>f, <2>1, <2>2 DEF Held
<1>1. CASE CheckName(w) \/ UserAdd(w) \/ PortOf(w) \/ AllocatePort(w) \/ WriteAccount(w)
  <2>1. TornDown(w)' /\ \E j : job' = [job EXCEPT ![w] = j]
    <3>1. \/ Return(w) \/ Goto(w, "useradd") \/ Goto(w, "portof") \/ Goto(w, "alloc")
          \/ \E q : job' = [job EXCEPT ![w].pc = "unit", ![w].port = q]
      BY <1>1 DEF CheckName, UserAdd, PortOf, AllocatePort, WriteAccount, Goto
    <3> QED
      BY <1>r, <1>g, <1>u, <3>1 DEF CreateSteps
  <2>2. /\ job[w].pc \in {"check", "useradd", "portof", "alloc", "account"}
        /\ UNCHANGED <<registry, shell, gate, live>>
    BY <1>1 DEF CheckName, UserAdd, PortOf, AllocatePort, WriteAccount
  <2> QED
    BY <1>q, <1>e, <2>1, <2>2 DEF HostKept
<1>2. CASE WriteUnit(w)
  <2>1. job[w].pc \in PortSteps /\ Goto(w, "start")
        /\ UNCHANGED <<registry, shell, gate, live>>
    BY <1>2 DEF WriteUnit, PortSteps
  <2> QED
    BY <1>q, <1>f, <1>g, <2>1 DEF HostKept, PortSteps, CreateSteps
<1>3. CASE StartShell(w)
  <2>1. job[w].pc \in PortSteps /\ unit[n] = p /\ p \in Ports /\ n \in Names
    BY <1>0, <1>3 DEF StartShell, SoloJob, PortSteps
  <2>2. /\ Goto(w, "gate") /\ shell' = [shell EXCEPT ![n] = p]
        /\ UNCHANGED <<registry, gate, live>>
    BY <1>0, <1>3, <1>p, <2>1 DEF StartShell
  <2>3. Held1 /\ \A m, q : m = n /\ q = p => Held(m, q)'
    BY <1>f, <2>1, <2>2 DEF PortSteps
  <2>4. \A m \in Names : shell'[m] = shell[m] \/ (m = n /\ shell'[m] = p)
    BY <1>0, <2>1, <2>2 DEF TypeOK
  <2>5. ASSUME NEW m \in Names, NEW q \in {shell'[m], gate'[m], live'[m]},
               q \notin {shell[m], gate[m], live[m]}
        PROVE  Held(m, q)'
    <3>1. m = n /\ q = p
      BY <2>2, <2>4, <2>5
    <3> QED
      BY <2>3, <3>1
  <2>6. PortsHeld'
    BY <1>h, <2>3, <2>5
  <2>7. LiveIsGated'
    BY <1>0, <2>2 DEF LiveIsGated
  <2> QED
    BY <1>g, <2>2, <2>6, <2>7 DEF HostKept, CreateSteps
<1>4. CASE WriteGate(w)
  <2>1. /\ job[w].pc \in PortSteps /\ p \in Ports /\ n \in Names
        /\ Goto(w, "test") /\ gate' = [gate EXCEPT ![n] = p]
        /\ UNCHANGED <<registry, shell, live>>
    BY <1>0, <1>4 DEF WriteGate, PortSteps
  <2>2. Held1 /\ \A m, q : m = n /\ q = p => Held(m, q)'
    BY <1>f, <2>1 DEF PortSteps
  <2>3. \A m \in Names : gate'[m] = gate[m] \/ (m = n /\ gate'[m] = p)
    BY <1>0, <2>1 DEF TypeOK
  <2>4. ASSUME NEW m \in Names, NEW q \in {shell'[m], gate'[m], live'[m]},
               q \notin {shell[m], gate[m], live[m]}
        PROVE  Held(m, q)'
    <3>1. m = n /\ q = p
      BY <2>1, <2>3, <2>4
    <3> QED
      BY <2>2, <3>1
  <2>5. PortsHeld'
    BY <1>h, <2>2, <2>4
  <2>6. LiveIsGated'
    BY <1>0, <1>p, <2>1, <2>3 DEF LiveIsGated
  <2> QED
    BY <1>g, <2>1, <2>5, <2>6 DEF HostKept, CreateSteps
<1>5. CASE TestGate(w)
  <2>1. /\ job[w].pc \in PortSteps
        /\ Goto(w, "register") /\ live' = gate
        /\ UNCHANGED <<registry, shell, gate>>
    BY <1>0, <1>5 DEF TestGate, PortSteps
  <2>2. Held1
    BY <1>f, <2>1 DEF PortSteps
  <2>3. PortsHeld' /\ LiveIsGated'
    BY <1>0, <1>p, <2>1, <2>2 DEF PortsHeld, LiveIsGated
  <2> QED
    BY <1>g, <2>1, <2>3 DEF HostKept, CreateSteps
<1>6. CASE RegisterSlot(w)
  <2>1. /\ n \in Names /\ p \in Ports
        /\ registry' = [registry EXCEPT ![n] = p]
        /\ registry[n] \in {p, NoPort}
    BY <1>6, RegisterEvictsNobody
  <2>2. ASSUME NEW m \in Names, NEW q \in Ports, Held(m, q)
        PROVE  registry'[m] = q
    <3>1. CASE registry[m] = q
      BY <1>0, <1>p, <2>1, <2>2, <3>1 DEF TypeOK
    <3>2. ASSUME NEW v \in Workers, job[v].pc \in PortSteps,
                 job[v].slot = m, job[v].port = q
          PROVE  registry'[m] = q
      <4>1. v = w
        BY <1>6, <3>2 DEF RegisterSlot, OneAtATime, PortSteps, Idle
      <4> QED
        BY <1>0, <2>1, <3>2, <4>1 DEF TypeOK
    <3> QED
      BY <2>2, <3>1, <3>2 DEF Held
  <2>3. Held1
    BY <2>2 DEF Held
  <2>4. TornDown(w)' /\ \E j : job' = [job EXCEPT ![w] = j]
    BY <1>6, <1>r, <1>g DEF RegisterSlot, CreateSteps
  <2> QED
    BY <1>6, <1>q, <2>3, <2>4 DEF RegisterSlot, HostKept
<1> QED
  BY <1>1, <1>2, <1>3, <1>4, <1>5, <1>6 DEF CreateStep

LEMMA HostRemove ==
  ASSUME SoloInv, HostInv, OneAtATime, NoBreakdown, NEW w \in Workers, RemoveStep(w)
  PROVE  HostKept(w)
<1> DEFINE n == job[w].slot
           Held1 == \A m \in Names, q \in Ports : Held(m, q) => Held(m, q)'
<1> USE DEF At, host, db
<1>0. /\ TypeOK /\ TypeInv /\ PortsHeld /\ LiveIsGated /\ TornDown(w)
      /\ job[w].pc # "idle" => n \in Names
      /\ ~MayFail("systemctl") /\ ~MayFail("nginx")
  BY DEF SoloInv, TypeInv, JobInv, JobOK, HostInv, NoBreakdown, MayFail
<1>p. /\ \A m \in Names : /\ shell[m] \in Ports \cup {NoPort}
                          /\ gate[m] \in Ports \cup {NoPort}
                          /\ live[m] \in Ports \cup {NoPort}
      /\ NoPort \notin Ports
  BY <1>0, ConstantsOK DEF TypeOK
<1>e. ASSUME UNCHANGED registry
      PROVE  Held1
  <2>1. job[w].pc \notin PortSteps /\ job[w].pc # "idle"
    BY DEF RemoveStep, CheckRemovable, StopShell, UnlinkUnit, RemoveGate,
           DropRow, UserDel, PortSteps
  <2> QED
    BY <1>e, <2>1, HeldStays
<1>r. ASSUME Return(w)
      PROVE  TornDown(w)' /\ \E j : job' = [job EXCEPT ![w] = j]
  BY <1>0, <1>r, ReturnFields DEF TornDown
<1>1. CASE CheckRemovable(w) \/ UserDel(w)
  <2>1. TornDown(w)' /\ \E j : job' = [job EXCEPT ![w] = j]
    <3>1. Return(w) \/ Goto(w, "stop")
      BY <1>1 DEF CheckRemovable, UserDel
    <3> QED
      BY <1>0, <1>r, <3>1, GotoFields DEF TornDown
  <2>2. UNCHANGED <<registry, shell, gate, live>>
    BY <1>1 DEF CheckRemovable, UserDel
  <2> QED
    BY <1>0, <1>e, <1>p, <2>1, <2>2 DEF HostKept, PortsHeld, LiveIsGated
<1>2. CASE StopShell(w)
  <2>1. /\ shell' = [shell EXCEPT ![n] = NoPort] /\ n \in Names
        /\ UNCHANGED <<registry, gate, live>> /\ Goto(w, "unlink")
    BY <1>0, <1>2 DEF StopShell
  <2>2. TornDown(w)' /\ \E j : job' = [job EXCEPT ![w] = j]
    BY <1>0, <2>1, GotoFields DEF TornDown, TypeOK
  <2> QED
    BY <1>0, <1>e, <1>p, <2>1, <2>2 DEF HostKept, PortsHeld, LiveIsGated, TypeOK
<1>3. CASE UnlinkUnit(w)
  <2>1. UNCHANGED <<registry, shell, gate, live>> /\ Goto(w, "ungate")
    BY <1>3 DEF UnlinkUnit
  <2>2. TornDown(w)' /\ \E j : job' = [job EXCEPT ![w] = j]
    BY <1>0, <1>3, <2>1, GotoFields DEF UnlinkUnit, TornDown
  <2> QED
    BY <1>0, <1>e, <1>p, <2>1, <2>2 DEF HostKept, PortsHeld, LiveIsGated
<1>4. CASE RemoveGate(w)
  <2>1. /\ gate' = [gate EXCEPT ![n] = NoPort] /\ n \in Names
        /\ live' = gate' \/ (gate[n] = NoPort /\ live' = live)
        /\ UNCHANGED <<registry, shell>>
    BY <1>0, <1>4 DEF RemoveGate
  <2>2. TornDown(w)' /\ \E j : job' = [job EXCEPT ![w] = j]
    <3>1. CASE Return(w)
      BY <1>r, <3>1
    <3>2. CASE Goto(w, "drop")
      BY <1>0, <1>4, <2>1, <3>2, GotoFields DEF RemoveGate, TornDown, TypeOK
    <3> QED
      BY <1>4, <3>1, <3>2 DEF RemoveGate
  <2>3. \A m \in Names : /\ gate'[m] \in {gate[m], NoPort}
                         /\ live'[m] \in {gate[m], live[m], NoPort}
                         /\ gate'[m] = NoPort => live'[m] = NoPort
    BY <1>0, <2>1 DEF LiveIsGated, TypeOK
  <2>4. Held1
    BY <1>e, <2>1
  <2> QED
    BY ZenonT(80), <1>0, <1>p, <2>1, <2>2, <2>3, <2>4 DEF HostKept, PortsHeld, LiveIsGated
<1>5. CASE DropRow(w)
  <2>1. /\ shell[n] = NoPort /\ gate[n] = NoPort /\ live[n] = NoPort /\ n \in Names
        /\ registry' = [registry EXCEPT ![n] = NoPort]
        /\ UNCHANGED <<shell, gate, live>> /\ Goto(w, "userdel")
    BY <1>0, <1>5 DEF DropRow, TornDown, LiveIsGated
  <2>2. TornDown(w)' /\ \E j : job' = [job EXCEPT ![w] = j]
    BY <1>0, <2>1, GotoFields DEF TornDown
  <2>3. ASSUME NEW m \in Names, m # n, NEW q \in Ports, Held(m, q)
        PROVE  Held(m, q)'
    <3>1. registry[m] = q
      BY <1>5, <2>3 DEF DropRow, Held, OneAtATime, PortSteps, Idle
    <3> QED
      BY <1>0, <2>1, <2>3, <3>1 DEF Held, TypeOK
  <2> QED
    BY <1>0, <1>p, <2>1, <2>2, <2>3 DEF HostKept, PortsHeld, LiveIsGated
<1> QED
  BY <1>1, <1>2, <1>3, <1>4, <1>5 DEF RemoveStep

\* A request or a ttyd takes no port away.
LEMMA HostElsewhere ==
  ASSUME SoloInv, HostInv, UNCHANGED <<shell, gate, live, registry>>,
         \A w \in Workers : \/ job'[w] = job[w]
                            \/ /\ job'[w].pc \in {"check", "removable"}
                               /\ job[w].pc = "idle"
  PROVE  HostInv'
<1>1. ASSUME NEW m, NEW q, Held(m, q) PROVE Held(m, q)'
  BY <1>1 DEF Held, PortSteps
<1>2. ASSUME NEW w \in Workers PROVE TornDown(w)'
  BY DEF HostInv, TornDown, At
<1> QED
  BY <1>1, <1>2 DEF HostInv, PortsHeld, LiveIsGated

LEMMA HostNext ==
  NoBreakdown /\ SoloInv /\ HostInv /\ OneAtATime /\ [Next]_vars => HostInv'
<1> SUFFICES ASSUME NoBreakdown, SoloInv, HostInv, OneAtATime, [Next]_vars
             PROVE  HostInv'
  OBVIOUS
<1>0. TypeInv /\ job \in [Workers -> Job] /\ Idle.pc = "idle"
  BY DEF SoloInv, TypeInv, JobInv, Idle
<1>1. ASSUME NEW w \in Workers, CreateStep(w) \/ RemoveStep(w)
      PROVE  HostInv'
  <2>1. HostKept(w)
    BY <1>1, HostCreate, HostRemove
  <2>2. job[w].pc # "idle"
    BY <1>1 DEF At, CreateStep, CheckName, UserAdd, PortOf, AllocatePort, WriteUnit,
                StartShell, WriteGate, TestGate, RegisterSlot, WriteAccount,
                RemoveStep, CheckRemovable, StopShell, UnlinkUnit, RemoveGate,
                DropRow, UserDel
  <2>3. ASSUME NEW v \in Workers, v # w PROVE TornDown(v)'
    <3>1. job'[v].pc = "idle"
      BY <1>0, <2>1, <2>2, <2>3 DEF HostKept, OneAtATime
    <3> QED
      BY <3>1 DEF TornDown, At
  <2> QED
    BY <2>1, <2>3 DEF HostKept, HostInv
<1>2. CASE Request
  <2>1. UNCHANGED <<shell, gate, live, registry>>
    BY <1>0, <1>2, RequestShape DEF host
  <2>2. ASSUME NEW v \in Workers
        PROVE  \/ job'[v] = job[v]
               \/ job'[v].pc \in {"check", "removable"} /\ job[v].pc = "idle"
    BY <1>0, <1>2, RequestShape DEF Begin
  <2> QED
    BY <2>1, <2>2, HostElsewhere
<1>3. ASSUME NEW n \in Names, TtydBinds(n) PROVE HostInv'
  BY <1>3, HostElsewhere DEF TtydBinds, db
<1>4. ASSUME NEW P \in {Panel, Bot}, Crash(P) PROVE HostInv'
  BY <1>4 DEF Crash, MayFail, NoBreakdown
<1>5. CASE UNCHANGED vars
  BY <1>5, HostElsewhere DEF vars, host, db
<1> QED
  BY <1>1, <1>2, <1>3, <1>4, <1>5 DEF Next

\* When no two jobs overlap and neither systemctl nor nginx fails nor a job is
\* killed, whoever opens a slot's gate reaches that slot's own shell or nobody's.
THEOREM GatesLeadHome ==
  ASSUME NoBreakdown
  PROVE  Spec /\ []OneAtATime => []YouAreTheSlotUser
<1>1. Init => HostInv /\ Listeners
  BY DEF Init, Idle, HostInv, Listeners, PortsHeld, LiveIsGated, TornDown, At
<1>2. SoloInv /\ HostInv /\ OneAtATime /\ [Next]_vars => HostInv'
  BY HostNext
<1>3. SoloInv /\ HostInv /\ Listeners /\ OneAtATime => YouAreTheSlotUser
  <2> SUFFICES ASSUME SoloInv, HostInv, Listeners, OneAtATime,
                      NEW n \in Names, live[n] # NoPort,
                      listener[live[n]] # NoSlot
               PROVE  listener[live[n]] = n
    BY DEF YouAreTheSlotUser
  <2> DEFINE p == live[n]
             m == listener[p]
  <2>1. p \in Ports /\ m \in Names
    BY DEF SoloInv, TypeInv, TypeOK
  <2>2. shell[m] = p /\ p # NoPort
    BY <2>1 DEF Listeners
  <2>3. Held(n, p) /\ Held(m, p)
    BY <2>1, <2>2 DEF HostInv, PortsHeld
  <2> QED
    BY <2>1, <2>3, HeldOnce
<1>4. SoloInv => TypeInv
  BY DEF SoloInv
<1> QED
  BY <1>1, <1>2, <1>3, <1>4, ListenersNext, SoloInvariant, PTL DEF Spec
============================================================================
