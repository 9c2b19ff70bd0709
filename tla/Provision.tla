----------------------------- MODULE Provision -----------------------------
(***************************************************************************)
(* Slot provisioning: app/provision.py, the slot and user handlers of      *)
(* app/routes/admin.py that call it, and the root helper                   *)
(* deploy/bot/dach-adduser.py.                                             *)
(*                                                                         *)
(* create_slot and remove_slot run in threads of the panel (or in the bot  *)
(* helper's process) and touch five places that no transaction spans: the  *)
(* host's accounts, the ttyd unit files, the running ttyds, the nginx gate *)
(* files, and two tables of the SQLite database.  A job is one call in     *)
(* flight; every statement of it that reads or changes shared state is one *)
(* step, and a crash or a failing tool may stop it between two steps.      *)
(***************************************************************************)
EXTENDS Naturals

CONSTANTS
    Names,            \* slot names of the right shape
    Reserved,         \* the names RESERVED / RESERVED_PREFIX refuse
    Foreign,          \* host accounts that exist and are not the panel's
    Logins,           \* panel accounts (not administrators)
    Panel,            \* jobs the panel's thread pool may run at once
    Bot,              \* the bot helper: a one-shot unit, so at most one
    Base, Top,        \* the window of shell ports
    NoPort, NoSlot, NoUser,
    Faults            \* what may go wrong in this instance

Tools == {"useradd", "systemctl", "nginx", "userdel", "crash"}
Workers == Panel \cup Bot
Ports == Base..Top

ASSUME ConstantsOK ==
    /\ Base \in Nat /\ Top \in Nat
    /\ NoPort \notin Ports
    /\ NoSlot \notin Names /\ NoUser \notin Names /\ NoSlot # NoUser
    /\ NoUser \notin Logins
    /\ Reserved \subseteq Names /\ Foreign \subseteq Names
    /\ Panel \cap Bot = {}
    /\ Faults \subseteq Tools

VARIABLES
    accounts,   \* linux accounts of the host
    unit,       \* name -> port written in its ttyd unit file, or NoPort
    shell,      \* name -> port its active ttyd service was started with
    listener,   \* port -> the slot whose ttyd is bound to it
    gate,       \* name -> port written in its nginx gate file
    live,       \* name -> port the gate in nginx's loaded config leads to
    registry,   \* the `slots` table: name -> port
    slotOf,     \* the `users` table: login -> slot, NoSlot, or NoUser
    job         \* worker -> the create_slot / remove_slot call it runs

host == <<accounts, unit, shell, listener, gate, live>>
db == <<registry, slotOf>>
vars == <<host, db, job>>

CreateSteps == {"check", "useradd", "portof", "alloc", "unit", "start",
                "gate", "test", "register", "account"}
RemoveSteps == {"removable", "stop", "unlink", "ungate", "drop", "userdel"}

Job == [pc : CreateSteps \cup RemoveSteps \cup {"idle"},
        kind : {"none", "slot", "new", "set", "remove"},
        slot : Names \cup {NoSlot},
        login : Logins \cup {NoUser},
        port : Ports \cup {NoPort},
        wipe : BOOLEAN]

Idle == [pc |-> "idle", kind |-> "none", slot |-> NoSlot, login |-> NoUser,
         port |-> NoPort, wipe |-> FALSE]

CreateJob(kind, n, l) ==
    [Idle EXCEPT !.pc = "check", !.kind = kind, !.slot = n, !.login = l]

RemoveJob(n, wipe) ==
    [Idle EXCEPT !.pc = "removable", !.kind = "remove", !.slot = n,
                 !.wipe = wipe]

Registered == {n \in Names : registry[n] # NoPort}
Assigned == {n \in Names : \E l \in Logins : slotOf[l] = n}

\* Mutant: an existing account is taken for one of the panel's.
NameOk_AnyAccount(n, known) == n \notin Reserved

NameOk(n, known) == n \notin Reserved /\ (n \in accounts => n \in known)

UsedPorts == {registry[n] : n \in Registered}

\* Mutant: the registry is not consulted.
FreePorts_All == Ports

FreePorts == {p \in Ports : p \notin UsedPorts}

\* Mutant: any free port.
LowestFree_Any == FreePorts

LowestFree == {p \in FreePorts : \A q \in FreePorts : p <= q}

Init ==
    /\ accounts = Foreign
    /\ unit = [n \in Names |-> NoPort]
    /\ shell = [n \in Names |-> NoPort]
    /\ listener = [p \in Ports |-> NoSlot]
    /\ gate = [n \in Names |-> NoPort]
    /\ live = [n \in Names |-> NoPort]
    /\ registry = [n \in Names |-> NoPort]
    /\ slotOf = [l \in Logins |-> NoUser]
    /\ job = [w \in Workers |-> Idle]

---------------------------------------------------------------------------
(* Requests.  A handler's own checks run on the event loop before it hands  *)
(* the job to a thread; a refused request changes nothing.                  *)

Begin(w, j) ==
    /\ job[w] = Idle
    /\ job' = [job EXCEPT ![w] = j]

\* POST /api/slots
SlotsCreate(w, n) ==
    /\ w \in Panel
    /\ NameOk(n, Registered)
    /\ Begin(w, CreateJob("slot", n, NoUser))
    /\ UNCHANGED <<host, db>>

\* POST /api/users with a slot: the login is not looked up first, its
\* uniqueness is left to the INSERT that follows the provisioning.
UsersCreate(w, l, n) ==
    /\ w \in Panel
    /\ NameOk(n, Registered \cup Assigned)
    /\ Begin(w, CreateJob("new", n, l))
    /\ UNCHANGED <<host, db>>

\* PUT /api/users/{uid} with a slot
UsersUpdate(w, l, n) ==
    /\ w \in Panel
    /\ NameOk(n, Registered \cup Assigned)
    /\ Begin(w, CreateJob("set", n, l))
    /\ UNCHANGED <<host, db>>

\* POST /api/users without a slot
UsersCreatePlain(l) ==
    /\ slotOf[l] = NoUser
    /\ slotOf' = [slotOf EXCEPT ![l] = NoSlot]
    /\ UNCHANGED <<host, registry, job>>

\* PUT /api/users/{uid} with an empty slot
UsersClearSlot(l) ==
    /\ slotOf[l] \in Names
    /\ slotOf' = [slotOf EXCEPT ![l] = NoSlot]
    /\ UNCHANGED <<host, registry, job>>

\* DELETE /api/users/{uid}: the slot stays.
UsersDelete(l) ==
    /\ slotOf[l] # NoUser
    /\ slotOf' = [slotOf EXCEPT ![l] = NoUser]
    /\ UNCHANGED <<host, registry, job>>

\* Mutant: a slot that is still assigned is removed.
SlotsDelete_Assigned(w, n, wipe) ==
    /\ w \in Panel
    /\ Begin(w, RemoveJob(n, wipe))
    /\ UNCHANGED <<host, db>>

\* DELETE /api/slots/{slot}
SlotsDelete(w, n, wipe) ==
    /\ w \in Panel
    /\ n \notin Assigned
    /\ Begin(w, RemoveJob(n, wipe))
    /\ UNCHANGED <<host, db>>

\* op "create" of the bot helper
BotCreate(w, l, n) ==
    /\ w \in Bot
    /\ NameOk(n, Registered)
    /\ slotOf[l] = NoUser
    /\ n \notin Assigned
    /\ Begin(w, CreateJob("new", n, l))
    /\ UNCHANGED <<host, db>>

\* op "revoke": the account goes first, then its slot whoever else has it.
BotRevoke(w, l, wipe) ==
    /\ w \in Bot
    /\ slotOf[l] # NoUser
    /\ slotOf' = [slotOf EXCEPT ![l] = NoUser]
    /\ job[w] = Idle
    /\ job' = IF slotOf[l] = NoSlot
              THEN job
              ELSE [job EXCEPT ![w] = RemoveJob(slotOf[l], wipe)]
    /\ UNCHANGED <<host, registry>>

\* op "wipe_slot"
BotWipe(w, n) ==
    /\ w \in Bot
    /\ n \in Registered
    /\ n \notin Assigned
    /\ Begin(w, RemoveJob(n, TRUE))
    /\ UNCHANGED <<host, db>>

---------------------------------------------------------------------------
(* The steps of create_slot and remove_slot.                                *)

At(w, step) == job[w].pc = step
Goto(w, step) == job' = [job EXCEPT ![w].pc = step]
Return(w) == job' = [job EXCEPT ![w] = Idle]

MayFail(tool) == tool \in Faults

\* A ttyd that stops releases the port it was bound to.
Unbound(n) == [p \in Ports |-> IF listener[p] = n THEN NoSlot ELSE listener[p]]

CheckName(w) ==
    /\ At(w, "check")
    /\ IF NameOk(job[w].slot, Registered) THEN Goto(w, "useradd") ELSE Return(w)
    /\ UNCHANGED <<host, db>>

\* Mutant: useradd's exit code is not looked at.
UserAdd_Unchecked(w) ==
    /\ At(w, "useradd")
    /\ \/ accounts' = accounts \cup {job[w].slot}
       \/ MayFail("useradd") /\ accounts' = accounts
    /\ Goto(w, "portof")
    /\ UNCHANGED <<unit, shell, listener, gate, live, db>>

\* `id -u`, then useradd if it failed.  A useradd that times out is killed
\* and may have made the account.
UserAdd(w) ==
    LET n == job[w].slot IN
    /\ At(w, "useradd")
    /\ \/ /\ accounts' = accounts \cup {n}
          /\ Goto(w, "portof")
       \/ /\ MayFail("useradd")
          /\ accounts' \in {accounts, accounts \cup {n}}
          /\ Return(w)
    /\ UNCHANGED <<unit, shell, listener, gate, live, db>>

\* Mutant: a re-create allocates afresh.
PortOf_Never(w) ==
    /\ At(w, "portof")
    /\ Goto(w, "alloc")
    /\ UNCHANGED <<host, db>>

\* port_of: a slot that is registered keeps its port.
PortOf(w) ==
    LET p == registry[job[w].slot] IN
    /\ At(w, "portof")
    /\ job' = IF p # NoPort
              THEN [job EXCEPT ![w].pc = "unit", ![w].port = p]
              ELSE [job EXCEPT ![w].pc = "alloc"]
    /\ UNCHANGED <<host, db>>

\* allocate_port raises when the window is full, and the job ends there.
AllocatePort(w) ==
    /\ At(w, "alloc")
    /\ \/ \E p \in LowestFree :
             job' = [job EXCEPT ![w].pc = "unit", ![w].port = p]
       \/ FreePorts = {} /\ Return(w)
    /\ UNCHANGED <<host, db>>

WriteUnit(w) ==
    /\ At(w, "unit")
    /\ unit' = [unit EXCEPT ![job[w].slot] = job[w].port]
    /\ Goto(w, "start")
    /\ UNCHANGED <<accounts, shell, listener, gate, live, db>>

\* daemon-reload and restart.  A restart fails when the unit file is gone; one
\* that fails otherwise may leave the old ttyd, the new one or none.  The job
\* then returns with the unit file in place.
StartShell(w) ==
    LET n == job[w].slot
        started == [shell EXCEPT ![n] = unit[n]]
        stopped == [shell EXCEPT ![n] = NoPort]
    IN
    /\ At(w, "start")
    /\ \/ /\ unit[n] # NoPort
          /\ shell' = started /\ listener' = Unbound(n)
          /\ Goto(w, "gate")
       \/ /\ \/ /\ unit[n] = NoPort \/ MayFail("systemctl")
                /\ UNCHANGED <<shell, listener>>
             \/ /\ MayFail("systemctl")
                /\ shell' \in {started, stopped} /\ listener' = Unbound(n)
          /\ Return(w)
    /\ UNCHANGED <<accounts, unit, gate, live, db>>

WriteGate(w) ==
    /\ At(w, "gate")
    /\ gate' = [gate EXCEPT ![job[w].slot] = job[w].port]
    /\ Goto(w, "test")
    /\ UNCHANGED <<accounts, unit, shell, listener, live, db>>

\* nginx -t, then a reload whose own failure is ignored.  A failed test
\* takes the new gate file away again and ends the job.
TestGate(w) ==
    /\ At(w, "test")
    /\ \/ /\ live' = gate \/ (MayFail("nginx") /\ live' = live)
          /\ gate' = gate
          /\ Goto(w, "register")
       \/ /\ MayFail("nginx")
          /\ gate' = [gate EXCEPT ![job[w].slot] = NoPort]
          /\ live' = live
          /\ Return(w)
    /\ UNCHANGED <<accounts, unit, shell, listener, db>>

\* Mutant: the row goes in without replacing the one that has its port.
RegisterSlot_NoReplace(w) ==
    /\ At(w, "register")
    /\ registry' = [registry EXCEPT ![job[w].slot] = job[w].port]
    /\ IF job[w].kind = "slot" THEN Return(w) ELSE Goto(w, "account")
    /\ UNCHANGED <<host, slotOf>>

\* INSERT OR REPLACE: `port` is UNIQUE, so another slot's row with the same
\* port is deleted by it.
RegisterSlot(w) ==
    LET n == job[w].slot
        p == job[w].port
    IN
    /\ At(w, "register")
    /\ registry' = [m \in Names |->
                       CASE m = n -> p
                         [] m # n /\ registry[m] = p -> NoPort
                         [] OTHER -> registry[m]]
    /\ IF job[w].kind = "slot" THEN Return(w) ELSE Goto(w, "account")
    /\ UNCHANGED <<host, slotOf>>

\* What the caller does with the finished slot: insert the account (which
\* fails when the login is taken) or move an existing one onto it.
WriteAccount(w) ==
    LET l == job[w].login IN
    /\ At(w, "account")
    /\ slotOf' = IF (job[w].kind = "new") <=> (slotOf[l] = NoUser)
                 THEN [slotOf EXCEPT ![l] = job[w].slot]
                 ELSE slotOf
    /\ Return(w)
    /\ UNCHANGED <<host, registry>>

\* remove_slot on a name that is not registered: only one that no account
\* of the host bears.
CheckRemovable(w) ==
    LET n == job[w].slot IN
    /\ At(w, "removable")
    /\ IF n \in Registered \/ NameOk(n, {}) THEN Goto(w, "stop") ELSE Return(w)
    /\ UNCHANGED <<host, db>>

\* systemctl stop / disable, exit codes ignored
StopShell(w) ==
    LET n == job[w].slot IN
    /\ At(w, "stop")
    /\ \/ shell' = [shell EXCEPT ![n] = NoPort] /\ listener' = Unbound(n)
       \/ MayFail("systemctl") /\ UNCHANGED <<shell, listener>>
    /\ Goto(w, "unlink")
    /\ UNCHANGED <<accounts, unit, gate, live, db>>

UnlinkUnit(w) ==
    /\ At(w, "unlink")
    /\ unit' = [unit EXCEPT ![job[w].slot] = NoPort]
    /\ Goto(w, "ungate")
    /\ UNCHANGED <<accounts, shell, listener, gate, live, db>>

\* Mutants: nginx is not reloaded; the row is dropped without a wipe.
RemoveGate_NoReload(w) ==
    /\ At(w, "ungate")
    /\ gate' = [gate EXCEPT ![job[w].slot] = NoPort]
    /\ IF job[w].wipe THEN Goto(w, "drop") ELSE Return(w)
    /\ UNCHANGED <<accounts, unit, shell, listener, live, db>>

RemoveGate_AlwaysDrops(w) ==
    LET n == job[w].slot IN
    /\ At(w, "ungate")
    /\ gate' = [gate EXCEPT ![n] = NoPort]
    /\ live' = IF gate[n] # NoPort THEN gate' ELSE live
    /\ Goto(w, "drop")
    /\ UNCHANGED <<accounts, unit, shell, listener, db>>

\* nginx keeps the old gate loaded when there was no file to remove, when
\* nginx -t fails or when the reload does; the job goes on.
RemoveGate(w) ==
    LET n == job[w].slot IN
    /\ At(w, "ungate")
    /\ gate' = [gate EXCEPT ![n] = NoPort]
    /\ \/ gate[n] # NoPort /\ live' = gate'
       \/ (gate[n] = NoPort \/ MayFail("nginx")) /\ live' = live
    /\ IF job[w].wipe THEN Goto(w, "drop") ELSE Return(w)
    /\ UNCHANGED <<accounts, unit, shell, listener, db>>

DropRow(w) ==
    /\ At(w, "drop")
    /\ registry' = [registry EXCEPT ![job[w].slot] = NoPort]
    /\ Goto(w, "userdel")
    /\ UNCHANGED <<host, slotOf>>

\* userdel -r; its failure is only logged.
UserDel(w) ==
    /\ At(w, "userdel")
    /\ \/ accounts' = accounts \ {job[w].slot}
       \/ MayFail("userdel") /\ accounts' = accounts
    /\ Return(w)
    /\ UNCHANGED <<unit, shell, listener, gate, live, db>>

---------------------------------------------------------------------------
(* The environment.                                                         *)

\* A ttyd binds its port as soon as nobody has it (Restart=always).
TtydBinds(n) ==
    /\ shell[n] \in Ports
    /\ listener[shell[n]] = NoSlot
    /\ listener' = [listener EXCEPT ![shell[n]] = n]
    /\ UNCHANGED <<accounts, unit, shell, gate, live, db, job>>

\* The panel's process, or the helper's, dies: its jobs stop where they are.
Crash(P) ==
    /\ MayFail("crash")
    /\ \E w \in P : job[w] # Idle
    /\ job' = [w \in Workers |-> IF w \in P THEN Idle ELSE job[w]]
    /\ UNCHANGED <<host, db>>

Request ==
    \/ \E w \in Workers, n \in Names :
          \/ SlotsCreate(w, n)
          \/ BotWipe(w, n)
          \/ \E wipe \in BOOLEAN : SlotsDelete(w, n, wipe)
          \/ \E l \in Logins : \/ UsersCreate(w, l, n)
                               \/ UsersUpdate(w, l, n)
                               \/ BotCreate(w, l, n)
    \/ \E w \in Workers, l \in Logins, wipe \in BOOLEAN : BotRevoke(w, l, wipe)
    \/ \E l \in Logins : \/ UsersCreatePlain(l)
                         \/ UsersClearSlot(l)
                         \/ UsersDelete(l)

CreateStep(w) ==
    \/ CheckName(w) \/ UserAdd(w) \/ PortOf(w) \/ AllocatePort(w)
    \/ WriteUnit(w) \/ StartShell(w) \/ WriteGate(w) \/ TestGate(w)
    \/ RegisterSlot(w) \/ WriteAccount(w)

RemoveStep(w) ==
    \/ CheckRemovable(w) \/ StopShell(w) \/ UnlinkUnit(w)
    \/ RemoveGate(w) \/ DropRow(w) \/ UserDel(w)

Next ==
    \/ Request
    \/ \E w \in Workers : CreateStep(w) \/ RemoveStep(w)
    \/ \E n \in Names : TtydBinds(n)
    \/ \E P \in {Panel, Bot} : Crash(P)

Spec == Init /\ [][Next]_vars

\* Every tool is run with a timeout, so a job that was started goes on until
\* it returns, and systemd restarts a ttyd until it can bind.
Fairness ==
    /\ \A w \in Workers : WF_vars(CreateStep(w) \/ RemoveStep(w))
    /\ \A n \in Names : WF_vars(TtydBinds(n))

FairSpec == Spec /\ Fairness

---------------------------------------------------------------------------
(* Properties.                                                              *)

TypeOK ==
    /\ accounts \subseteq Names
    /\ unit \in [Names -> Ports \cup {NoPort}]
    /\ shell \in [Names -> Ports \cup {NoPort}]
    /\ listener \in [Ports -> Names \cup {NoSlot}]
    /\ gate \in [Names -> Ports \cup {NoPort}]
    /\ live \in [Names -> Ports \cup {NoPort}]
    /\ registry \in [Names -> Ports \cup {NoPort}]
    /\ slotOf \in [Logins -> Names \cup {NoSlot, NoUser}]
    /\ job \in [Workers -> Job]

\* An account of the host that is not the panel's is never deleted, never
\* given a shell, a gate or a port, and never handed to a panel account, in
\* whatever order concurrent jobs of the panel and of the bot helper run and
\* wherever they fail; nor is a reserved name (provision.name_error,
\* docs/SLOTS.md: "provisioning it would hand out a shell as that account").
Untouched(n) ==
    /\ unit[n] = NoPort /\ shell[n] = NoPort
    /\ gate[n] = NoPort /\ live[n] = NoPort
    /\ registry[n] = NoPort
    /\ n \notin Assigned

ProtectedUntouched ==
    /\ Foreign \subseteq accounts
    /\ \A n \in Reserved \ Foreign : n \notin accounts
    /\ \A n \in Foreign \cup Reserved : Untouched(n)

\* What "one job at a time" means below: no two calls overlap.
OneAtATime == \A v, w \in Workers : job[v] # Idle /\ job[w] # Idle => v = w

\* No two slots are registered on one port, even when two creates were given
\* the same one: register_slot takes it from whoever had it.
RegisteredPortsDiffer ==
    \A m, n \in Registered : registry[m] = registry[n] => m = n

\* With one job at a time, wherever it fails or crashes, a registered slot
\* has its linux account: the row is written after useradd and dropped before
\* userdel.
RegisteredHasAccount == Registered \subseteq accounts

\* With one job at a time, whatever unit file and gate file a registered slot
\* has name its registered port, so a failed re-create or a removal that keeps
\* the data cannot move it.
FilesNameRegisteredPort ==
    \A n \in Registered : {unit[n], gate[n]} \subseteq {registry[n], NoPort}

\* With one job at a time and nobody using the bot's revoke, an account's
\* slot is always a registered one: a slot is given to an account only when it
\* is finished, and slots_delete refuses one that is still assigned.
AssignedIsRegistered == Assigned \subseteq Registered

\* A registered slot keeps its port until a wipe of that very slot drops its
\* row (docs/SLOTS.md: the port "is recorded in the `slots` table, so it
\* survives restarts and reordering").
PortKept(n) ==
    registry[n] # NoPort =>
        \/ registry'[n] = registry[n]
        \/ \E w \in Workers : At(w, "drop") /\ job[w].slot = n /\ job[w].wipe

PortStable == [][\A n \in Names : PortKept(n)]_vars

\* The registry as its callers see it: PortRegistry's Claim and Release.
AbstractRegistry == INSTANCE PortRegistry WITH port <- registry

PortPromise == AbstractRegistry!Spec

\* Whoever opens a slot's gate reaches that slot's own shell or nobody's:
\* the ttyd bound to the port of a loaded gate is its slot's
\* (docs/SLOTS.md: "You are the slot user").
YouAreTheSlotUser ==
    \A n \in Names : live[n] # NoPort => listener[live[n]] \in {n, NoSlot}

\* A name that no job is working on and whose account the panel made can be
\* provisioned again (provision.py: "a half-finished create can simply be
\* retried").  Not kept: a create that stops after useradd cannot be repeated.
Busy(n) == \E w \in Workers : job[w].slot = n

CreateCanBeRetried ==
    \A n \in accounts \ Foreign : ~Busy(n) => NameOk(n, Registered)

\* The bot helper takes down only slots that no other account has ("the request
\* body cannot ... target another user's slot"; its wipe_slot and the panel's
\* slots_delete both refuse a slot that is still assigned).  Not kept: two
\* accounts share a slot, and revoking one removes it.
SparesOthersSlots ==
    \A w \in Bot :
        At(w, "idle") /\ job'[w].kind = "remove"
           => \A l \in Logins : slotOf'[l] # job'[w].slot

BotSparesOthersSlots == [][SparesOthersSlots]_vars

\* A slot's ttyd that was started is eventually the one bound to its port,
\* unless it is stopped or moved first.
ShellComesUp ==
    \A n \in Names, p \in Ports :
        shell[n] = p ~> (listener[p] = n \/ shell[n] # p)
============================================================================
