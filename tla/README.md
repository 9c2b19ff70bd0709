# Dachboard in TLA+

Dachboard is a panel for one Linux host: a FastAPI daemon that runs as root,
hands each user a *slot* (a Linux account with a web shell of its own) and lets
them use the files of that account. This directory holds TLA+ models of the parts
of it in which order, failure or sharing decide whether it is right, the TLC
configurations that check them on small instances, and proofs, checked by TLAPS,
of what matters most for every value of the constants.

Everything is translated from the code (paths below are relative to `src/`). A
doc, comment or docstring is used in one way only: as the statement of a property.

- [Inventory](#inventory): the parts of the system and what makes each correct
- [Modules](#modules): which module models what, and how it corresponds to the code
- [Runs](#runs): what is checked, with which bounds and fairness
- [Proofs](#proofs): what holds for every value of the constants, and why
- [Where code and docs part](#where-code-and-docs-part)
- [Not modelled](#not-modelled) and [Plan](#plan)

## Inventory

| Part | State | Operations | Correct when | Model |
|---|---|---|---|---|
| Slot provisioning: `app/provision.py`, slot and user routes of `app/routes/admin.py` | Linux accounts, ttyd unit files, running ttyds and the ports they hold, nginx gate files and the configuration nginx has loaded, tables `slots` and `users` | `create_slot`, `remove_slot`, slot and user routes | slots never share a port, a gate leads to its slot's own shell, accounts of the host are never touched, a failed create can be repeated | Provision |
| Telegram bot helper: `deploy/bot/dach-adduser.py` | the same host and database, from a process of its own | `create`, `revoke`, `wipe_slot` | as above, beside the panel | Provision, Accounts |
| Accounts and sessions: `app/routes/auth.py`, `app/deps.py`, `app/rbac.py`, `app/db.py`, user and token routes of `app/routes/admin.py` | tables `users`, `sessions`, `api_tokens`; the setup token file; requests suspended at an await | setup, login, first password, password change, logout, user and token management, pruning | one administrator per setup token, no session without an account, no login past `must_change_pw`, no management by a machine token | Accounts |
| Command line and boot: `app/main.py` | the same tables | `create-admin`, `rotate-password`, lifespan | rotation revokes, recovery announces a token | Accounts |
| Anchored walk: `app/safepath.py` (kernel backend) | descriptors, the rest of the path, links followed so far | `_walk` and the operations on its last step | never outside the home, whatever the slot's owner swaps in; no descriptor kept; ends, but at a FIFO | SafeWalk |
| Portable backend: `app/safepath.py` (fallback) | none | `_fallback_path` | agrees with the walk | SafeFallback |
| File mutations: `app/safepath.py`, `app/routes/files.py` | entries and contents of a home, operations in flight | upload, write, rename, copy, remove; trees, mkdir | what is answered ok is stored; what is refused leaves nothing; nothing is lost or replaced; nothing outside the home changes | HomeOps, TreeOps |
| Archive extraction: `extract_zip` | a home, the plan of members | check, write | a bad archive writes nothing; what is answered ok is unpacked | Unzip |
| File delivery: `app/fileserv.py` | a descriptor, a range, bytes sent | `_parse_range`, `FdFileResponse` | the range asked for; body and length agree; closed exactly once | Delivery |
| Quota cache: `_quota`, `bust_usage_cache` of `app/routes/files.py` | cached sizes per home, walks in flight | quota, bust | not older than the TTL; counts what was answered | UsageCache |
| Login throttle: `LOGIN_FAILS` in `app/deps.py` | failures per address | count, evict | an address is blocked after the limit, others are not | |
| Tunnel URL cache: `app/tunnel.py` | the last address found, the file it is kept in, calls in flight | `current`, `refresh` | an answer is not older than the TTL; an address once found is not lost | Tunnel |
| SPA shell: `app/assets.py` | the rendered page and the fingerprints it is kept under; what browsers keep | render | a browser loads nothing older than the files were when it asked | Shell |
| Sampler and housekeeping: `app/main.py`, `app/metrics.py` | backoff, tick | sample, probe the tunnel, sleep | the pace recovers after failures | Sampler (pruning sessions is in Accounts) |
| Preset commands: `app/routes/commands.py`, `app/runner.py` | table of commands | list, edit, run | runs as the account it was shown with | |
| Slot containers: `app/slots.py` | none | plan builders | plans are complete and ordered | |
| Disk quotas: `app/quota.py` | none | `parse_size`, `setquota` | the limit that was written | |
| Overview, audit, headers, MCP bridge, browser client, install scripts | none of their own | reading, formatting, translating | | not modelled |

How they meet. One event loop runs the handlers: between two awaits a handler
is alone, and at an await (the body of a request, or work handed to a thread) any
other runs. Provisioning and file work run in the thread pool, beside each other
and beside the loop. The command line and the bot helper are processes of their
own on the same SQLite database and the same host. The owner of a slot has a shell
in the very home the daemon works on as root. The process can die anywhere; what is
on disk stays. Nothing sends messages: the hard behaviour is interleaving
(threads, processes, the owner's shell), checks that are stale when used, steps that
fail half-way, and restarts. `PROJECT.json` lists each such place at its line.

## Modules

Every module's actions are listed in `PROJECT.json` with the lines they
translate. What follows says how to read them.

**Provision** (and **MCProvision**, **ProvisionProofs**). A *job* is one call of
`create_slot` or `remove_slot` in flight; its `pc` walks through the function,
one step for each statement that reads or changes something shared: name check,
`useradd`, `port_of`, `allocate_port`, unit file, restart, gate file, `nginx -t` and
reload, registry row, account row; and for a removal: stop, unlink, ungate, drop the
row, `userdel`. `host` is the six things outside the database (`accounts`,
`unit`, `shell`, `listener`, `gate`, `live`), `db` the two tables. `shell[n]` is the port
the active ttyd was *started* with and `listener[p]` the ttyd that *has* the port,
because a ttyd whose port is taken stays active and tries again (`TtydBinds`). `live` is
what nginx has loaded, which differs from `gate` after a failed reload. Tools fail when
`Faults` names them; `"crash"` stops every job of one process between two steps. A
`useradd` that is killed at its timeout may have made the account. Disk quotas and
the columns no property reads are left out.

**PortRegistry** is what the rest of the system relies on in all this: names
claim free ports and release them. `Provision!PortPromise` is the refinement.

**Accounts** (**MCAccounts**, **AccountsProofs**). The three tables, the token file and the
requests in flight. `loop` is the request that has the event loop between two of its
statements: other *handlers* wait for it, while the command line and the bot (other
processes) do not, nor does time. A request that comes with a session is `SessionFound` (the
SELECT, which looks at `expires_at`), `SessionSlides` (the UPDATE, which does not), then
`Admits`, `TurnsAway` or `Logout`, and after `await request.json()` one of the
`Users...`/`Tokens...` actions, which uses the earlier decision. The bot's revoke is
`BotLooks` and `BotDeletes`, and `bot` the account in between: `is_admin` is read in one
statement and the row deleted in a later one. Passwords are counted (`pw`), not spelled;
`floor` is the password of the last rotation. A request presents the setup token that is in
the file: any other is refused without effect. Three variables are history the code does not
keep: `uses` (administrators per setup token), `announced` (the token last written to the
journal) and `leftover` (tokens whose file survived the administrator they made, because the
process died before the unlink or the unlink failed). No action is guarded by them.

**SafeWalk** (**MCSafeWalk**, **SafeWalkProofs**). `_walk` with one action per
system call: `Climb` for `..`, `Parent` for operations that stop above the
last component, `Hop` for `openat` with `O_NOFOLLOW`, `ReadLink` for the link's target
and the splice of its components, `Arrived`, and then the operation itself
(`Use`, `MakeDir`, `ChownDir`). `stack` is the chain of descriptors, so that `..`
pops and never asks the kernel. Between any two of them `Shell` creates, removes or
renames anything in the home, as its owner may; `Outside` is all that is not in the home.
`Pipes` are the files that are FIFOs: `openat` of one may leave the thread `stuck`, and so
may what is then read from it or written to it, until `Peer`, a process at the other
end, lets it go on.
`quiet` (history) says that nobody did during this request. `fds` counts opens and
closes by themselves, so that a leak shows.

**SafeFallback** is the portable backend: `Advance` takes a half-resolved path one
component or one symlink further, in a tree that stands still, and `Way` is where it is
after each step. It is the reference for what the walk should open. `LongestLink` bounds
the components of a symlink's target, as the system does, so that `Longest` steps are enough.

**HomeOps** (**MCHomeOps**, **FilesProofs**). Mutations of the names of one directory:
`open`/`write`/`abort` of an upload, `write`, `stat`/`rename` of a move,
`stat`/`open`/`create`/`copy` of a copy, `unlink`. A file's `content` is the list
of its chunks, marked with who sent them; `Torn` is a chunk that `os.write` stored
short. `ShellLinks` gives a file a second name; a request whose file had one when it
opened it has `twin` set. A file without name or holder is emptied with
the next response. `alone` (history) is the worker nobody disturbed since its request arrived:
what an operation promises about content is only promised then.

**TreeOps** (**MCTreeOps**, **TreeOpsProofs**). Copying and removing a whole
directory, as the recursion it is: `stack` holds a frame for each running call of
`_copytree_fd` or `_rmtree_fd`, with the directories it has open and what is left of
the names it listed (`todo`). Between any two system calls other requests go on and
`Shell` moves, links and removes entries of the home; a name may then stand for
something else than when it was listed. `held` counts the descriptors a request has open,
against `MaxFds` of the whole process, so that opens fail when they run out; with `MayFill`
whatever is created may find the disk full. A `Pipe` is a FIFO, at which a copy is
`stuck` until somebody opens its other end (`Feed`). `Outside`
is a directory of the host that a link leads to. History: `ours` (the
directories that were in a removal's target, or in one of these, at some time since
it was opened: all that it may change), `alone` (nobody else did anything since the
request began) and a job's `skipped` (`_copytree_fd` passed over a file or a symlink
for want of a descriptor or of room on the disk).
The walk to a parent is SafeWalk's, files at the top are HomeOps'; owners and modes
are left out.

**Unzip** (**MCUnzip**, **FilesProofs**). The two passes of `extract_zip`: `Check` decides
on all members and makes the plan (the places in the archive still to be written, taken in
order), then `MakeParents` and `WriteMember` alternate. A member has a name, a size and
three flags of its own: its name ends in "/" (`dir`), its mode says symlink (`link`), its
name is absolute (`rooted`). A home maps paths to what is there (`Part` is a file the full
disk has cut short), so that members in each other's way, existing files and the archive
itself as a target are all in it.

**Delivery** (**FilesProofs**). `_parse_range` as functions on the two numbers
of a header (`Bad` stands for what is no number), and `FdFileResponse.__call__` with a
step per send and per read while the file is resized by its owner and the client
may leave.

**UsageCache** (**MCUsageCache**, **UsageCacheProofs**). `_quota` in three steps
(arrive, walk in a thread, store on the loop) and a mutation in three (arrive,
change the disk, bust and answer). The roots are the homes of slots, which are disjoint; an
administrator's root is "/", which holds them all, so a mutation may also come through "/"
(`top`), and then the entry of its home stays, since "/" is another key
(`Outlives`). "/" has no entry of its own here: its size is that of the disk. A size is
the number of changes so far. History: `told` (the size after the last change a client was
told of) and `past` (what it was at each earlier moment), a request's `floor` and
`owed` (what had been told when it arrived, and a TTL before that), an entry's `asof`
(when the disk was read) and `missed` (walks, entries and answers a mutation
overtook: told of after the disk was read, with no bust of that home after it).
No action is guarded by them.

**Tunnel**, composed with its background caller in **Sampler** (**MCSampler**,
**SamplerProofs**). Tunnel is `current` with one action per step that touches what
threads share: the look at the cache, the second read of it, the provider,
`open(.., "w")`, the write, the store, the file read. `refresh`, restarts of the process
and a tunnel that comes back under another address happen anywhere between. Sampler
extends it with the loop of `app/main.py`: a sample that works or fails (`broken`), the
backoff, and on every `Every`-th sample a call of `current` from a thread of its own,
beside the callers of the routes. History: `lastPublic` (when each address was the
tunnel's last), `found` and a call's `owed` (an address was known and nobody asked to
forget it), and `excused` (the probe failed, or another call stored between the look
and the second read). What a sample holds and the rows it is stored in are left
out.

**Shell** (**MCShell**, **ShellProofs**). `ShellRenderer.render` in a thread: read
`index.html`, fingerprint that and every asset, compare, hash, store the key, store
the page. At each of its versions a file has bytes, which are its hash too, and a stamp, its
`(mtime, size)` (`held`). `Edit` gives it any bytes, those of before included, and a
stamp that is new, one it has had, or none when the file goes (`Gone`, where `_hash` answers
the constant `dev`). A page is the version of the index it was made of and of
each asset when it was hashed. The browser is part of the model, since `app/main.py`
lets it keep an asset for a day under its URL: `Load` takes what is kept under the
hash in the page, or what the file holds *now*, because `?v=` selects nothing; `Forget` is the end of
that day. History: `since` (the versions when a request began), `keyBy`, `whole`, `torn` and
`excused` (files for which the answer may be older than it should; see below).

## Runs

| Run | Instance | What it shows |
|---|---|---|
| `provision_one_job` | two slots, a foreign account, a reserved name, one login, two ports, one job at a time, all five faults | registry, accounts, files and users agree after any failure or crash; ports are stable; the registry implements PortRegistry |
| `provision_concurrent` | two slots, a foreign account, one port, the panel and the bot at once | no two registered slots share a port, protected names stay untouched |
| `provision_fair` | three slots, two ports, one job at a time, no faults, fair | a gate leads to its own slot's shell; a shell that was started gets its port |
| `accounts_safety` | two accounts, two requests beside the command line, the bot and expiry, a session, a token, a setup token, a password change, crash and unlink faults | sessions end with their account, their expiry and a rotation; the last administrator, `must_change_pw`, the setup token |
| `safewalk_anchored` | two directories, a file, a FIFO, three links (absolute, `../b`, `a`), the paths `a` and `a/b`, two hops, fair | containment, descriptors, agreement with the fallback; every walk ends, but at a FIFO |
| `homeops_crowd` | two names, two files, a symlink, two requests of any kind, the shell on one name (hard links too), a full disk and short writes | copies and moves lose nothing; undisturbed requests keep their promises |
| `unzip_safe` | all archives of up to three members of fourteen sorts, and the sixteen of four small ones, four homes, a disk that may fill | an archive with a bad file or link, or too much in it, writes nothing; ok means unpacked |
| `delivery_safe` | files of up to four bytes, chunks of two, every pair of bounds from -1 to 5, fair | ranges, lengths, the descriptor |
| `treeops_swaps` | six directories (three of them to be made), two names, a file, eight descriptors, two requests (removal, or a copy beside the source or into it), one act of the shell (a move, a file, a FIFO, a link out of the home), a disk that may fill, fair | nothing outside changes, nothing of the home is replaced, descriptors come back, an undisturbed copy that passed nothing over is whole, every request ends, but at a FIFO |
| `sampler_tunnel` | the sampler and one request, two addresses, TTL 2, two ticks, two events (refresh, change of address, restart, fault), a probe on every second sample, backoff up to 2, fair | answers are recent and not lost; the pace recovers |
| `shell_edits` | the index and one asset, two contents, a file that may be missing, two requests, two edits | a browser loads bytes that were there since it asked, but in four named cases |
| `usage_overlap` | two homes, room for one, two requests, TTL 2, three ticks, one change per home, the shell, partial uploads, mutations through "/" | age and count of what is answered; what a bust misses is counted a TTL later |

**Why the bounds are enough.** *Provision*: the hazards need a slot that takes another's
port, a window that is full and two jobs at once; two slots on one or two ports give all
three, and three slots on two ports give the freed port. With one job in `provision_one_job`
the bot is left out, since its jobs are the panel's; crashes are in that run, and in
`PortsDiffer` and `ProtectedNamesAreSafe` for any number of jobs. *Accounts*: two requests
are needed for any race at an await, two accounts for one to act on the other; a second
session or setup token only adds copies, as no action reads two of them. *SafeWalk*: the
links are the shapes the walk tells apart (refused, climbing, relative), `over` climbs out
of a subdirectory or against the root, two hops suffice for a loop and for its limit, and
`a/b` enters a directory, or a FIFO, before its last component. *HomeOps*: two workers on
two names with a link from one to the other; a cap of one chunk and bodies of two make both
refusals happen (an empty body is an open and nothing more, and is left out); the shell
works on one name, may move it over the other and may link it to the other's file. *Unzip*:
three members are the least in which one bad member has good ones on both sides, so
`MaxFiles` is three and archives of four are those that have one too many; a member of two
bytes makes others too large. *TreeOps*: a tree of depth two with a file and a link is the
least in which a swap under the root, in the middle and at a leaf differ; three new
directories are one more than a copy beside the source makes, and a copy into itself uses up
the descriptors before them (eight let two requests go two levels down and run out); one act
of the shell with two requests gives every swap between a listing and its use. *Sampler*:
two ticks outlast a TTL of two when a call begins at the first moment; two events give a
refresh and a change, a restart and a fault, a fault and its end. *Shell*: two edits let the
index and the asset change during one render, or one of them change and be rolled back,
vanish and return; two contents are a file and its edit, and a second asset would be treated
as the first. *Delivery*: sizes 0 to 4 with chunks of 2 give empty files, one short read,
exact and inexact multiples. *UsageCache*: a limit of one with two homes evicts; three ticks
outlast the TTL, so that what was told of at 0 is owed from 2 on; one change of a home is
one that is counted or not. Bounds in guards are `MaxPw`, `MaxSetup`, `MaxLen`, `MaxTime`,
`MaxSize`, `MaxMoves` (acts of the shell in TreeOps), `MaxEvents` and `MaxEdits`; `MaxFds`
and `MaxBackoff` are limits of the system itself, made small; the other constants bound by
their size. Symmetry is used where slots, workers, files, accounts or requests are
interchangeable, never in a run with a liveness property. A run checks no type invariant,
since each is proved (that of Unzip as part of `UnzipInv`).

**Fairness.** `Provision!FairSpec`: a job goes on (every tool is run with a timeout) and a
ttyd that cannot bind is started again (`Restart=always`). `SafeWalk!FairSpec`: the thread
goes on, except in the system calls that wait for another process (`openat` of a FIFO,
reading and writing one), which are steps of `Peer` and not fair; nothing is assumed of the
shell, which may swap links for ever. `Delivery!FairDelivery`: the response goes on, which
includes that its client reads or leaves. `TreeOps!FairSpec`: the thread of a request goes
on, except at a FIFO, where `Feed` is not fair; that it ends even when a directory is copied
into itself is then due to `MaxFds`. `Sampler!FairSpec`: the event loop goes on with its
task, and the sampler's own call of `current`, whose provider is killed after 15 seconds.
Requests, crashes, restarts, faults, edits and the shells are never fair.

## Proofs

Each `...Proofs` module extends the module it is about; **FilesProofs** is about three
that share no state (Delivery, HomeOps, Unzip). The constants are assumed to be what the
named assumptions of the modules say (`ConstantsOK`, `FallbackOK`, `KindsDiffer`, `SizesOK`,
`ArchivesOK`: types, distinct special values, archives and homes that are well-formed, a finite
stock of directories of which those still to be made are empty), which TLC
evaluates in its runs.

Some theorems of Provision have a hypothesis about the behaviour as well, because the code
keeps the property only then (see [Where code and docs part](#where-code-and-docs-part)):
`[]OneAtATime` says that no two provisioning jobs overlap (nothing in the code makes
them wait for each other), with any number of workers, any failing tool and any crash; for
`AccountsHaveSlots` also `BotSparesOthersSlots`, that the bot revokes no account whose slot another
account has; and for `GatesLeadHome` that neither `systemctl` nor nginx fails nor the process dies
(`NoBreakdown`; accounts that cannot be made or removed are allowed for). `provision_one_job`
and `provision_fair` are instances in which these hold, so none of the theorems is empty.

| Theorem | States, for every value of the constants | Argument |
|---|---|---|
| `ProvisionProofs!TypeCorrect`, `PortsDiffer` | registered ports differ, with any number of jobs, any faults | `RegisterSlot` is the only step that adds a row, and it evicts the row that has its port; types are needed to know what a job carries (`JobInv`) |
| `ProvisionProofs!ProtectedNamesAreSafe` | foreign accounts and reserved names stay untouched | `ProtectedInv`: a job past its name check never works on a protected name. That is not inductive on `NameOk` alone: a foreign account is refused only because it is in `accounts`, not registered and not assigned, so the invariant carries all three through every step |
| `ProvisionProofs!RegisteredSlotsHaveAccounts`, `FilesAgreeWithRegistry`, `PortsAreStable` | with one job at a time, whatever fails or crashes: a registered slot has its account, its unit and gate name its registered port or are absent, and it keeps the port until it is removed | `SoloInv`: what a job at each step knows of the slot it works on (`SoloJob`): an account is there before a port is chosen, the port it goes on with is the registered one or, when there is none, the lowest that is free, the files written so far carry that port, and an account goes only after its row |
| `ProvisionProofs!RegistryKeepsItsPromise` | with one job at a time Provision implements PortRegistry | from `SoloInv`: `RegisterSlot` is a claim of the lowest free port or a stutter, `DropRow` a release, every other step a stutter |
| `ProvisionProofs!AccountsHaveSlots` | with one job at a time, and a bot that spares slots others have, the slot of every account is registered | `AssignInv`: a slot that is being removed is nobody's, from the moment the removal is asked for |
| `ProvisionProofs!GatesLeadHome` | the ttyd behind a slot's gate is that slot's own | `HostInv` on top of `SoloInv`: the port of a started ttyd, of a gate and of a loaded gate is held by its own slot, which is registered on it or has a job about to register it (`PortsHeld`), nginx has loaded what the gate file says (`LiveIsGated`), and a removal stops the ttyd before it ungates (`TornDown`) |
| `AccountsProofs!TypeCorrect` | types | a handler between two statements holds the loop (`SchedInv`), so there is at most one |
| `AccountsProofs!OneAdminPerSetupToken` | a setup token makes one administrator unless its file survives it | `SetupInv`: a token that has been used is no longer in the file, or the handler about to unlink it has the loop, or it is in `leftover`; and tokens not generated yet have no uses |
| `AccountsProofs!NoSessionOutlivesItsAccount` | sessions belong to accounts | deletion cascades, and an insert for a missing account fails |
| `AccountsProofs!LoginsRespectMustChange` | no login past `must_change_pw` | `LoginInv`: between the check and the insert the handler has the loop, and no other process raises the flag |
| `AccountsProofs!OnlyLoginsOutrunRotation` | after `rotate-password` no session stands on an older password, but one whose login had verified it before | sessions belong to accounts that exist or were deleted by hand (`SessionInv`), so no account that is made or changed brings an old session back; rotation deletes the account's own |
| `AccountsProofs!LastAdminIsKept` | while the daemon runs the last administrator is lost only to a request whose own administrator lost the right while its body was awaited, or to a revoke of an account promoted after the bot had looked at it | `AdminInv`: only accounts that exist are administrators, and who manages was let in by the session of an account (`ManageInv`), so an actor who still has the right is one of them and not the target; the bot deletes an administrator only when `Promoted` holds |
| `AccountsProofs!ExpiredIsForEver`, `MachinesNeverManage` | an expired session comes back only by the UPDATE of the one request that had found it fresh and has yet to slide it; what manages accounts or tokens was never let in by a machine token | every write to `sessions`, with `SchedInv`: who is about to slide has the loop, so it is the only one; `ManageInv` |
| `SafeWalkProofs!TypeCorrect`, `WalkStaysInside`, `NothingLeaks` | containment and descriptors, for any tree, links, paths and any shell | `EntryInv`: entries are the home's own inodes; `StackInv`: the stack is never empty while walking, all but its last are directories, and `fds` is its length; `ShapeInv`: what each `pc` implies of the rest |
| `SafeWalkProofs!WalkIsWithinFallback` | in a tree nobody touches, what the walk hands out is what the portable backend resolves the path to | `LookingInv`: while the tree stays as it was, the walk's directory, the rest of its path and the links it has followed are the portable backend's after some number of steps. `..` pops the stack while the backend asks for the parent; they agree because a directory is in one place (`OneParent`), which creating, moving and removing keep |
| `TreeOpsProofs!TypeCorrect`, `HostStaysUntouched` | nothing of the host changes and none of its files comes into the home, for any tree, links, requests and any shell | `JobOK`: every directory on a stack is one of the home's, because `O_NOFOLLOW` opens nothing else, so no entry is written or listed outside |
| `TreeOpsProofs!DescriptorsComeBack` | a request that is over holds no descriptor, a failed copy at most one | `HeldOK`: a copy holds two and two for each call on its stack, and one more between the two opens; a removal one and one for each call |
| `TreeOpsProofs!RequestsKeepToTheirOwn` | a copy changes no entry that was there, a removal only what was in its target | the same invariant with `ours`: the directories on a removal's stack are among those it may touch, wherever they were moved |
| `TreeOpsProofs!CopiesAreComplete` | a copy nobody disturbed that answers ok, with no file or symlink passed over, is whole, for any tree, however deep | `CopyInv`: each call works on what the entry its caller is at stands for (`Chained`), and the copy is either `Doomed` (a call copies a directory that an outer call is making, and has yet to reach the branch that is being made: so it never answers ok) or `Sound`: a pairing of directories with finished copies accounts for every entry that no call has on its list or under way (`Progress`), and what was made last is new and empty (`Fresh`, which needs `EmptyIn`: a directory that is not linked is empty). `MatchedIsAlike` turns the pairing into `Alike` |
| `SamplerProofs!TypeCorrect`, `AddressesAreRecent`, `AddressesAreKept` | what a call answers is recent, and an address once found is not lost, for any callers, addresses and TTL | `CacheInv`: a cached address was public at its stamp or later; `CallInv`: what a call has seen of the cache and of the tunnel at each step, and that `owed` implies an address is cached |
| `ShellProofs!TypeCorrect`, `NothingLoadedIsOld` | the bytes a browser loads a file had at some time since it asked, for any files, contents, requests and edits, but for `excused` and `Blurred` | the versions of a file are numbered as they come, whatever its bytes and stamps. `HtmlInv`: a page that is whole is as new as its key; `KeyInv`: the key under which a request takes the page from the cache is no older than its beginning, unless the file is `Blurred`; `RenderInv`: what it has read is no older than that; `BrowserInv`: what is kept under a URL was fetched when the file had the bytes in it or later, so a page's own URL gives bytes of since the request began, or its bytes came back (`Misfiled`) |
| `UsageCacheProofs!TypeCorrect`, `NothingStale` | one entry per home, within the limit; nothing older than the TTL | `IInv`: an entry is stamped before its disk was read (`ts <= asof`), and a request walks before it stores |
| `UsageCacheProofs!MutationsCount` | a quota counts every mutation answered before it was asked for, and one whose bust missed the entry (`missed`) once a TTL has passed since its answer | `CInv`: sizes only grow and what was told is at most the size; an entry or a walk that is not in `missed` has at least what was told of its home; and whether missed or not, whatever was read counts all that had been told before the moment it was read (`Remembers`), which `IInv` puts less than a TTL before the request |
| `FilesProofs!ResponseTypeCorrect`, `RangesAreRight` | 206 and 416 are right for any size and header | the lemma `ParsedIsWhatWasAsked` on `_parse_range`, and that the response never changes |
| `FilesProofs!BodiesFit` | the body fits its length however the file is resized | what was sent is `start + body`; a read gives no more than is left; a read short of the end means the file shrank |
| `FilesProofs!TypeCorrect`, `RejectedUploadsVanish`, `StoredIsWhatWasSent`, `CopiesAreWhole` | for any number of names, files, links and requests: an undisturbed upload that is refused leaves nothing of a file with one name; a write that is answered ok has stored what was sent, and an upload as many chunks, each whole or stored short (`Torn`); a copy equals its source | `JobOK`: what each step of a request knows of the files it has open; `Vanished`: no name leads to a chunk of a request that was refused, since the file it opened had no `Twin`; `ChunksOfTheBusy`: chunks are marked with who is still at work; `AloneInv`: what the worker that nobody has disturbed has written, read and not yet written |
| `FilesProofs!CopiesOverwriteNothing`, `MovesLoseNothing` | no step of a copy replaces anything, none of a move leaves what it found under neither name | the same types; who moved is the one worker whose step it is |
| `FilesProofs!BadArchivesWriteNothing` | an archive with too much in it, or with a symlink or a member that leads out, anywhere in it and not named as a directory, writes nothing | `UnzipInv`: after the first pass an archive that was not refused is sound as to headers. That such a member lands where its name says is `LandsWhereItSays`, an induction along the path |
| `FilesProofs!OkIsUnpacked` | every file of an archive that is answered ok is where its name leads, or a later one of that name is | `UnzipInv`: what has been written are the first members of the plan, and each place holds its own or a later one |
| `FilesProofs!HomeStaysATree` | what is unpacked stays in directories | `TreeInv`: a member is written only when its parents have been made, and nothing that has something below it is written over |

Induction over data is done by hand where it was needed (`LandsWhereItSays`, `WayGoesOn`,
`WayEnds`, `LevelsExist`, `MatchedIsAlike`): a set of counterexamples has a least member
(`LeastOf`), which is refuted.

Only model-checked: the liveness properties (`ShellComesUp`, `WalkEnds`, `ClosedAtLast`,
`WalksEnd`, `PaceRecovers`), which need fairness.

## Where code and docs part

Each disagreement met while modelling is stated next to the property that does
hold, marked *Not kept*, or is the condition of one. Each trace was found by TLC in an
instance like those above; a reader who wants to see one adds the property to
the run's configuration.

| Statement | What the code does | In the model |
|---|---|---|
| `app/provision.py`: "a half-finished create can simply be retried" | after `useradd` the name has an account and no row, and is refused as foreign | `CreateCanBeRetried` |
| `_stream_to_disk`: "its partial file removed" | removed by name: of two uploads of one name the refused one removes what the other stored; through a symlink it removes the link and leaves its bytes behind it | `AbortTakesItsOwn`; condition on `to` in `RejectedLeavesNothing` |
| `_stream_to_disk`: "a rejected upload cannot leave a half-written file behind" | over a file with a second name (`ln`) the abort removes one name, and what was written stays under the other | `twin` in `RejectedLeavesNothing` |
| `_parse_range`: a full body only for a header that is ignored | a 416 announces no content and streams the whole file, `_range` being `None` | `RefusedRangeSendsNothing` |
| `docs/SLOTS.md`: a slot's port "survives restarts and reordering" | two creates of one slot at once read no port both, and the second replaces the first's | `PortStable` holds with one job at a time |
| `docs/SLOTS.md`: "You are the slot user" | a create that fails at `nginx -t` leaves its ttyd on a port the next slot is given | `YouAreTheSlotUser` holds without faults |
| bot helper: cannot "target another user's slot" | `revoke` removes the slot of the account it deletes, whoever else has it | `BotSparesOthersSlots` |
| `docs/SLOTS.md`: ports from `port_base` | no caller passes the configured base | `Base` is the default of the signature |
| README: setup "creates the first admin and burns the token" | the file is removed after the commit, and a failure is suppressed: a crash or a failed unlink leaves it good for another administrator once none exists | `leftover` in `SetupTokenOnce` |
| no self-delete, no self-demotion | two administrators who act on each other in overlapping requests leave none | `Overtaken` in `LastAdminStays` |
| `deploy/bot/dach-adduser.py`: "refusing to touch an admin account" | `is_admin` is read in one statement and the account deleted in a later one: one that the panel promotes in between, the last administrator perhaps, is deleted | `Promoted` in `LastAdminStays` |
| `app/deps.py`, `session_user`: a session past `expires_at` is nobody's | the SELECT checks that and the UPDATE after it does not: a session that expires between them is slid back to life | `Dead` in `ExpiredStaysDead` |
| `rotate-password`: "sessions revoked" | a login that verified the old password inserts its session after | `Outruns` in `RotationRevokes` |
| README: after deleting the row "a fresh one-time setup token appears in the journal" | a token file that is still there is taken over without a line | `RecoveryAnnounces` |
| README: the user "sets their own password on first login" | `users_create` leaves `must_change_pw` at 0 | `TempPasswordNeverOpens` |
| `safepath.py`: "identical contract on both backends" | listing a symlink to a directory fails in the walk (`ENOTDIR`) and works in the fallback | `BackendsAgree` |
| `app/files.py`: "no TOCTOU races" | a move looks for its target and renames over it later | `MoveNeverOverwrites` |
| `_stream_to_disk`: a failed upload is aborted | the count `os.write` returns is not looked at: an upload is answered ok with a chunk stored short anywhere in it | `Torn` in `StoredIsSent`, for uploads |
| `extract_zip`: "whole archive validated before the first byte is written" | headers are: a member that cannot be read or written fails after others were written | `AllOrNothing` |
| `extract_zip`: "Symlink members, .. members and absolute members abort the whole operation" | a member whose name ends in "/" is skipped before its mode and its name are looked at, and the others are unpacked | `~dir` in `BadArchiveWritesNothing` |
| `extract_zip` unpacks the archive | a directory in it that holds no file is not made | `Writable` in `OkMeansUnpacked` |
| `_copytree_fd` closes what it opens in a `finally` | the source is opened before the `try`, and stays open when the destination cannot be; the duplicate of a directory that `fdopen` refuses is not closed either | one descriptor in `DescriptorsReturned` |
| a copy answers ok | a file for which there is no spare descriptor, and a file or symlink that the disk has no room to create, is passed over in silence | `skipped` in `OkCopyIsWhole` |
| a request ends | `_walk` and `_copytree_fd` open without `O_NONBLOCK` (`app/safepath.py:321`, `app/safepath.py:521`): at a FIFO that the slot has made their thread waits as long as the slot pleases | `AtPipe` in `WalkEnds`, `stuck` in `WalksEnd` |
| a copy goes from a source to a target | a target inside the source is not refused: the copy goes on into what it has just made until descriptors run out | `WalksEnd`; `MaxFds` |
| `app/tunnel.py`: `refresh` | forgets the cache, and an older call that has probed by then stores the address of before; a call that looked may be answered by an older one's store | `excused` in `AnswersAreRecent` |
| `app/tunnel.py`: the cache file | two calls that have both truncated it may write one address over the other | `AnswersAreAddresses` |
| `app/assets.py`: "Editing an asset changes its URL automatically" | key and page are two assignments: of two renders that store at once, the page of one stays under the key of the other; an `index.html` edited between its being read and its fingerprint is kept under the new one; both last until the next edit | `excused` in `LoadsAreCurrent` |
| the same | an edit that is rolled back brings back the earlier URL, under which a browser may have kept other bytes for its day; `dev`, of a missing file, is one URL for all such moments | `Misfiled` |
| the same | an edit that keeps size and mtime, or restores earlier ones, keeps the page of before | `Blurred` in `LoadsAreCurrent` |
| `bust_usage_cache`: "Drop a cached quota after a mutation" | a walk that began before stores its result after; an upload refused at its second file does not drop anything; a mutation by an administrator, through "/", drops the key "/" and not that of the home it changed | `missed` in `CountsWhatWasTold` |

## Not modelled

Formatting, logging, header tables (`app/security.py`), reading of `/proc`, sensors,
docker and systemd (`app/metrics.py`, `app/routes/overview.py`), the audit log, the MCP
bridge, the browser client and the install scripts keep no state that anything else
relies on. In Provision, disk quotas and the containers of `app/slots.py` are left
out: nothing modelled reads them. The changes of owner and mode that go with
writes and copies are left out of HomeOps and TreeOps, since no property tells two owners
apart; `parse_size` and the plan builders of `app/slots.py` are pure functions of
a string or a row.

Two components with behaviour are not modelled yet: the login throttle
(`LOGIN_FAILS`: a sliding window per address, with an eviction; each handler checks and
counts without an await, so it is a sequential program) and the preset commands (a
row read and checked on the loop, then run in a thread). Their hazards are listed in
`PROJECT.json`.

## Plan

Written: Provision with PortRegistry, Accounts, SafeWalk with SafeFallback, HomeOps,
TreeOps, UsageCache, Unzip, Delivery, Tunnel with Sampler, Shell, and the proofs
above.

Next, the model: Throttle, with its window, its eviction and `first_password`, which
counts but is not blocked; Commands, a command checked and then run while its row changes.
