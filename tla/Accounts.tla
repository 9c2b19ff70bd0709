----------------------------- MODULE Accounts -----------------------------
(***************************************************************************)
(* Accounts, sessions, machine tokens and the one-time bootstrap:          *)
(* app/routes/auth.py, the user and token handlers of app/routes/admin.py, *)
(* app/deps.py, app/rbac.py (can), the commands of app/main.py and what    *)
(* deploy/bot/dach-adduser.py does to the same tables.                     *)
(*                                                                         *)
(* Handlers run on one event loop: between two awaits a handler has the    *)
(* loop to itself (`loop`), and what it awaits is the request's body.  So  *)
(* a handler that authorises first and then reads its body acts on a       *)
(* decision of the past.  The command line, the bot helper and the hourly  *)
(* pruning are other threads and processes on the same database: each of   *)
(* their statements may come between any two statements of a handler.      *)
(***************************************************************************)
EXTENDS Naturals

CONSTANTS
    Ids,            \* users.id: AUTOINCREMENT, so an id is never reused
    Sids,           \* session tokens
    Tids,           \* api_tokens rows
    Reqs,           \* requests in flight
    MaxPw,          \* bound on password changes per account
    MaxSetup,       \* bound on setup tokens ever generated
    Nobody, Free,
    Faults          \* what may go wrong: "crash", "unlink"

ASSUME ConstantsOK ==
    /\ MaxPw \in Nat /\ MaxSetup \in Nat
    /\ Nobody \notin Ids /\ Free \notin Reqs
    /\ Faults \subseteq {"crash", "unlink"}

VARIABLES
    user,        \* the `users` table
    session,     \* the `sessions` table
    token,       \* the `api_tokens` table: "none", "user" or "admin"
    file,        \* the setup token in the data directory, 0 when there is none
    made,        \* how many setup tokens were generated so far
    uses,        \* how many administrators each setup token has made
    leftover,    \* setup tokens whose file stayed after they made one
    announced,   \* the setup token last written to the journal, 0 when there is
                 \* none since an administrator's row was deleted by hand
    up,          \* the daemon runs
    loop,        \* the request that has the event loop between two awaits
    req,         \* the requests in flight
    bot          \* the account the bot helper has looked at to revoke it

tables == <<user, session, token>>
setupvars == <<file, made, uses, leftover, announced>>
sched == <<up, loop, req>>
vars == <<tables, setupvars, sched, bot>>

Passwords == 0..MaxPw

\* pw counts the account's passwords; floor is the one of its last rotation.
User == [st : {"unused", "live", "gone", "dropped"}, admin : BOOLEAN, must : BOOLEAN,
         pw : Passwords, floor : Passwords]
Session == [owner : Ids \cup {Nobody}, st : {"none", "fresh", "expired"},
            pw : Passwords]
\* sid is the session of a request that has looked it up.
Req == [pc : {"idle", "setup", "burn", "login", "change", "slide", "check",
              "manage", "password", "remove"},
        actor : Ids \cup {Nobody}, pw : Passwords,
        via : {"none", "session", "token"},
        sid : Sids \cup {Nobody}]

NewUser == [st |-> "unused", admin |-> FALSE, must |-> FALSE, pw |-> 0, floor |-> 0]
NoSession == [owner |-> Nobody, st |-> "none", pw |-> 0]
Idle == [pc |-> "idle", actor |-> Nobody, pw |-> 0, via |-> "none",
         sid |-> Nobody]

Live(i) == user[i].st = "live"
AdminExists == \E i \in Ids : Live(i) /\ user[i].admin

\* Mutant of Cascade: foreign keys off.
Cascade_Off(i) == session

\* Deleting a user deletes its sessions (ON DELETE CASCADE, foreign_keys=ON).
Cascade(i) ==
    [s \in Sids |-> IF session[s].owner = i THEN NoSession ELSE session[s]]

\* rbac.can for users_manage, the right every handler of this module needs.
CanManage(admin, via) == admin /\ via # "token"

Init ==
    /\ user = [i \in Ids |-> NewUser]
    /\ session = [s \in Sids |-> NoSession]
    /\ token = [t \in Tids |-> "none"]
    /\ file = 0 /\ made = 0 /\ announced = 0
    /\ uses = [k \in 1..MaxSetup |-> 0] /\ leftover = {}
    /\ up = FALSE /\ loop = Free
    /\ req = [r \in Reqs |-> Idle]
    /\ bot = Nobody

---------------------------------------------------------------------------
(* Scheduling.                                                              *)

LoopFree == up /\ loop = Free

Arrive(r, q) ==                    \* up to the first await
    /\ LoopFree /\ req[r] = Idle
    /\ req' = [req EXCEPT ![r] = q]
    /\ UNCHANGED <<up, loop>>

Hold(r, q) ==                      \* the handler keeps the loop
    /\ loop' = r
    /\ req' = [req EXCEPT ![r] = q]
    /\ up' = up

Finish(r) ==
    /\ loop' = Free
    /\ req' = [req EXCEPT ![r] = Idle]
    /\ up' = up

Resumed(r, pc) == LoopFree /\ req[r].pc = pc    \* the body has come
Holding(r, pc) == loop = r /\ req[r].pc = pc

---------------------------------------------------------------------------
(* POST /api/setup.                                                         *)

SetupArrives(r) ==
    /\ ~AdminExists
    /\ Arrive(r, [Idle EXCEPT !.pc = "setup"])
    /\ UNCHANGED <<tables, setupvars>>

\* The token file is read only after the body came; the request carries the
\* token of the file.
SetupInserts(r, i) ==
    /\ Resumed(r, "setup")
    /\ file # 0
    /\ user[i].st = "unused"
    /\ user' = [user EXCEPT ![i].st = "live", ![i].admin = TRUE]
    /\ uses' = [uses EXCEPT ![file] = @ + 1]
    /\ Hold(r, [req[r] EXCEPT !.pc = "burn"])
    /\ UNCHANGED <<session, token, file, made, leftover, announced>>

\* Mutant of SetupBurns: the token file stays.
SetupBurns_Keeps(r) ==
    /\ Holding(r, "burn")
    /\ Finish(r)
    /\ UNCHANGED <<tables, setupvars>>

\* The unlink's own failure is suppressed.
SetupBurns(r) ==
    /\ Holding(r, "burn")
    /\ \/ file' = 0 /\ leftover' = leftover
       \/ "unlink" \in Faults /\ file' = file /\ leftover' = leftover \cup {file}
    /\ Finish(r)
    /\ UNCHANGED <<tables, made, uses, announced>>

---------------------------------------------------------------------------
(* A request that comes with a session: session_user's SELECT and UPDATE,   *)
(* get_user and what its handler asks of the account, each a statement of   *)
(* its own.  The handlers of all routes begin this way, and which one it is *)
(* shows only then.                                                         *)

\* Mutant of SessionFound: expires_at is not looked at.
SessionFound_Any(r, s) ==
    /\ LoopFree /\ req[r] = Idle
    /\ session[s].st # "none"
    /\ Hold(r, [Idle EXCEPT !.pc = "slide", !.actor = session[s].owner,
                            !.sid = s])
    /\ UNCHANGED <<tables, setupvars>>

SessionFound(r, s) ==
    /\ LoopFree /\ req[r] = Idle
    /\ session[s].st = "fresh"
    /\ Hold(r, [Idle EXCEPT !.pc = "slide", !.actor = session[s].owner,
                            !.sid = s])
    /\ UNCHANGED <<tables, setupvars>>

\* The UPDATE names the session only: one that expired since is slid all the
\* same, and for one that is gone the request goes on.
SessionSlides(r) ==
    LET s == req[r].sid IN
    /\ Holding(r, "slide")
    /\ session' = IF session[s].st = "none" THEN session
                  ELSE [session EXCEPT ![s].st = "fresh"]
    /\ Hold(r, [req[r] EXCEPT !.pc = "check"])
    /\ UNCHANGED <<user, token, setupvars>>

\* get_user and check_csrf; for all but one's own password also the right that
\* require asks for.
Admitted(r, pc) ==
    LET i == req[r].actor IN
    /\ Live(i)
    /\ session[req[r].sid].st # "none"
    /\ pc # "password" => CanManage(user[i].admin, "session")

\* The handler awaits its body; the DELETE routes go on without one.
Admits(r, pc) ==
    /\ Holding(r, "check")
    /\ Admitted(r, pc)
    /\ loop' = IF pc = "remove" THEN r ELSE Free
    /\ req' = [req EXCEPT ![r] = [Idle EXCEPT !.pc = pc, !.actor = req[r].actor,
                                              !.via = "session"]]
    /\ up' = up
    /\ UNCHANGED <<tables, setupvars>>

\* 401 and 403, and the routes that change nothing here
TurnsAway(r) ==
    /\ Holding(r, "check")
    /\ Finish(r)
    /\ UNCHANGED <<tables, setupvars>>

\* POST /api/logout, whose session slides before it is deleted ...
Logout(r) ==
    /\ Holding(r, "check")
    /\ session' = [session EXCEPT ![req[r].sid] = NoSession]
    /\ Finish(r)
    /\ UNCHANGED <<user, token, setupvars>>

\* ... unless it has expired.
LogoutExpired(s) ==
    /\ LoopFree
    /\ session[s].st = "expired"
    /\ session' = [session EXCEPT ![s] = NoSession]
    /\ UNCHANGED <<user, token, setupvars, sched>>

---------------------------------------------------------------------------
(* POST /api/login, POST /api/first-password, POST /api/me/password.        *)
(* Requests whose credentials fail change nothing here.                     *)

\* Mutant of LoginVerifies: the must_change_pw check is missing.
LoginVerifies_Must(r, i) ==
    /\ LoopFree /\ req[r] = Idle
    /\ Live(i)
    /\ \E s \in Sids : session[s] = NoSession
    /\ Hold(r, [Idle EXCEPT !.pc = "login", !.actor = i, !.pw = user[i].pw])
    /\ UNCHANGED <<tables, setupvars>>

\* The account is read and its password verified; scrypt takes its time.
LoginVerifies(r, i) ==
    /\ LoopFree /\ req[r] = Idle
    /\ Live(i) /\ ~user[i].must
    /\ \E s \in Sids : session[s] = NoSession        \* bound: Sids
    /\ Hold(r, [Idle EXCEPT !.pc = "login", !.actor = i, !.pw = user[i].pw])
    /\ UNCHANGED <<tables, setupvars>>

\* The foreign key refuses a session of an account that is gone by now.
LoginInserts(r, s) ==
    LET i == req[r].actor IN
    /\ Holding(r, "login")
    /\ session[s] = NoSession
    /\ session' = IF Live(i)
                  THEN [session EXCEPT ![s] = [owner |-> i, st |-> "fresh",
                                               pw |-> req[r].pw]]
                  ELSE session
    /\ Finish(r)
    /\ UNCHANGED <<user, token, setupvars>>

\* The temporary password is verified; the user's own one follows.
FirstVerifies(r, i) ==
    /\ LoopFree /\ req[r] = Idle
    /\ Live(i) /\ user[i].must
    /\ Hold(r, [Idle EXCEPT !.pc = "change", !.actor = i, !.pw = user[i].pw])
    /\ UNCHANGED <<tables, setupvars>>

PasswordVerifies(r) ==
    LET i == req[r].actor IN
    /\ Resumed(r, "password")
    /\ Live(i)
    /\ Hold(r, [req[r] EXCEPT !.pc = "change", !.pw = user[i].pw])
    /\ UNCHANGED <<tables, setupvars>>

WithPassword(i, must) ==
    IF Live(i) /\ user[i].pw < MaxPw
    THEN [user EXCEPT ![i].pw = @ + 1, ![i].must = must]
    ELSE user

\* The UPDATE with which both handlers end.
PasswordUpdates(r) ==
    /\ Holding(r, "change")
    /\ user' = WithPassword(req[r].actor, FALSE)
    /\ Finish(r)
    /\ UNCHANGED <<session, token, setupvars>>

---------------------------------------------------------------------------
(* The users_manage handlers.                                               *)

\* A request with a bearer token, which require may turn away
TokenArrives(r, t) ==
    /\ token[t] # "none"
    /\ IF CanManage(token[t] = "admin", "token")
       THEN Arrive(r, [Idle EXCEPT !.pc = "manage", !.via = "token"])
       ELSE LoopFree /\ UNCHANGED sched
    /\ UNCHANGED <<tables, setupvars>>

\* POST /api/users: the handler has no must_change_pw field.
UsersCreate(r, i, admin) ==
    /\ Resumed(r, "manage")
    /\ user[i].st = "unused"
    /\ user' = [user EXCEPT ![i].st = "live", ![i].admin = admin]
    /\ Finish(r)
    /\ UNCHANGED <<session, token, setupvars>>

\* Mutant of UsersSetAdmin: administrators may demote themselves.
UsersSetAdmin_Self(r, i, admin) ==
    /\ Resumed(r, "manage")
    /\ Live(i)
    /\ user' = [user EXCEPT ![i].admin = admin]
    /\ Finish(r)
    /\ UNCHANGED <<session, token, setupvars>>

\* PUT /api/users/{uid} with is_admin: never one's own row.
UsersSetAdmin(r, i, admin) ==
    /\ Resumed(r, "manage")
    /\ i # req[r].actor
    /\ Live(i)
    /\ user' = [user EXCEPT ![i].admin = admin]
    /\ Finish(r)
    /\ UNCHANGED <<session, token, setupvars>>

\* PUT /api/users/{uid} with password and maybe must_change_pw: its sessions
\* stay.
UsersSetPassword(r, i, must) ==
    /\ Resumed(r, "manage")
    /\ user' = WithPassword(i, user[i].must \/ must)
    /\ Finish(r)
    /\ UNCHANGED <<session, token, setupvars>>

\* PUT /api/users/{uid} with must_change_pw alone
UsersSetMust(r, i, must) ==
    /\ Resumed(r, "manage")
    /\ Live(i)
    /\ user' = [user EXCEPT ![i].must = must]
    /\ Finish(r)
    /\ UNCHANGED <<session, token, setupvars>>

\* DELETE /api/users/{uid}: sessions and row in one transaction
UsersDelete(r, i) ==
    /\ Holding(r, "remove")
    /\ i # req[r].actor
    /\ Live(i)
    /\ user' = [user EXCEPT ![i] = [NewUser EXCEPT !.st = "gone"]]
    /\ session' = Cascade(i)
    /\ Finish(r)
    /\ UNCHANGED <<token, setupvars>>

\* POST /api/tokens
TokensCreate(r, t, kind) ==
    /\ Resumed(r, "manage")
    /\ token[t] = "none"
    /\ token' = [token EXCEPT ![t] = kind]
    /\ Finish(r)
    /\ UNCHANGED <<user, session, setupvars>>

\* DELETE /api/tokens/{tid}
TokensDelete(r, t) ==
    /\ Holding(r, "remove")
    /\ token' = [token EXCEPT ![t] = "none"]
    /\ Finish(r)
    /\ UNCHANGED <<user, session, setupvars>>

\* A handler refuses its body or what it was to delete, or the client goes away.
Refuse(r) ==
    /\ \/ LoopFree /\ req[r] # Idle
       \/ Holding(r, "remove")
    /\ Finish(r)
    /\ UNCHANGED <<tables, setupvars>>

---------------------------------------------------------------------------
(* Other processes and the passing of time.                                 *)

\* `dachboard create-admin`
CliCreateAdmin(i) ==
    /\ user[i].st = "unused"
    /\ user' = [user EXCEPT ![i].st = "live", ![i].admin = TRUE]
    /\ UNCHANGED <<session, token, setupvars, sched>>

\* Mutant of CliRotate: the account's sessions stay.
CliRotate_Keeps(i) ==
    /\ Live(i) /\ user[i].pw < MaxPw
    /\ user' = [user EXCEPT ![i].pw = @ + 1, ![i].must = FALSE,
                            ![i].floor = user[i].pw + 1]
    /\ UNCHANGED <<session, token, setupvars, sched>>

\* `dachboard rotate-password`: the new password and the end of every session
\* of the account, in one transaction
CliRotate(i) ==
    /\ Live(i) /\ user[i].pw < MaxPw
    /\ user' = [user EXCEPT ![i].pw = @ + 1, ![i].must = FALSE,
                            ![i].floor = user[i].pw + 1]
    /\ session' = Cascade(i)
    /\ UNCHANGED <<token, setupvars, sched>>

\* The bot helper's create; what it does to slots is in Provision.
BotCreate(i) ==
    /\ user[i].st = "unused"
    /\ user' = [user EXCEPT ![i].st = "live", ![i].must = TRUE]
    /\ UNCHANGED <<session, token, setupvars, sched>>

\* The bot helper's revoke, one at a time: it reads the account, a helper before
\* it being done or dead ...
BotLooks(i) ==
    /\ Live(i) /\ ~user[i].admin
    /\ bot' = i
    /\ UNCHANGED <<tables, setupvars, sched>>

\* ... and in a transaction that begins after that deletes it.  The tokens it
\* deletes are those of a slot, left out here.
BotDeletes ==
    /\ bot # Nobody
    /\ up \/ made < MaxSetup \/ ~user[bot].admin      \* bound: MaxSetup
    /\ user' = IF Live(bot) THEN [user EXCEPT ![bot] = [NewUser EXCEPT !.st = "gone"]]
                            ELSE user
    /\ session' = Cascade(bot)
    /\ bot' = Nobody
    /\ UNCHANGED <<token, setupvars, sched>>

\* "Lost admin access: delete the admin row from SQLite and restart"; the
\* sqlite3 shell enforces no foreign keys, so the sessions stay.
OperatorDropsAdmin(i) ==
    /\ ~up
    /\ Live(i) /\ user[i].admin
    /\ made < MaxSetup                                \* bound: MaxSetup
    /\ user' = [user EXCEPT ![i] = [NewUser EXCEPT !.st = "dropped"]]
    /\ announced' = 0
    /\ UNCHANGED <<session, token, file, made, uses, leftover, sched>>

Expire(s) ==
    /\ session[s].st = "fresh"
    /\ session' = [session EXCEPT ![s].st = "expired"]
    /\ UNCHANGED <<user, token, setupvars, sched>>

\* db.prune_sessions, hourly, in a thread
PruneSessions ==
    /\ up
    /\ \E s \in Sids : session[s].st = "expired"
    /\ session' = [s \in Sids |-> IF session[s].st = "expired"
                                  THEN NoSession ELSE session[s]]
    /\ UNCHANGED <<user, token, setupvars, sched>>

\* The lifespan's start: ensure_setup_token, which keeps a file it finds.
Boot ==
    /\ ~up
    /\ IF AdminExists \/ file # 0
       THEN UNCHANGED <<file, made, announced>>
       ELSE /\ made < MaxSetup
            /\ made' = made + 1 /\ file' = made' /\ announced' = made'
    /\ up' = TRUE
    /\ UNCHANGED <<tables, uses, leftover, loop, req>>

\* The service is restarted; between requests unless it crashes.
Stop ==
    /\ up
    /\ "crash" \in Faults \/ \A r \in Reqs : req[r] = Idle
    /\ AdminExists \/ file # 0 \/ made < MaxSetup     \* bound: MaxSetup
    /\ up' = FALSE /\ loop' = Free
    /\ req' = [r \in Reqs |-> Idle]
    /\ leftover' = IF \E r \in Reqs : req[r].pc = "burn" THEN leftover \cup {file}
                                                      ELSE leftover
    /\ UNCHANGED <<tables, file, made, uses, announced>>

RequestStep ==
    \/ \E r \in Reqs :
          \/ SetupArrives(r) \/ SetupBurns(r)
          \/ SessionSlides(r) \/ TurnsAway(r) \/ Logout(r)
          \/ \E pc \in {"manage", "password", "remove"} : Admits(r, pc)
          \/ PasswordVerifies(r) \/ PasswordUpdates(r) \/ Refuse(r)
          \/ \E s \in Sids : LoginInserts(r, s) \/ SessionFound(r, s)
          \/ \E t \in Tids : \/ TokenArrives(r, t) \/ TokensDelete(r, t)
                             \/ \E kind \in {"user", "admin"} : TokensCreate(r, t, kind)
          \/ \E i \in Ids :
                \/ SetupInserts(r, i) \/ LoginVerifies(r, i) \/ FirstVerifies(r, i)
                \/ UsersDelete(r, i)
                \/ \E flag \in BOOLEAN : \/ UsersCreate(r, i, flag)
                                         \/ UsersSetAdmin(r, i, flag)
                                         \/ UsersSetPassword(r, i, flag)
                                         \/ UsersSetMust(r, i, flag)
    \/ \E s \in Sids : LogoutExpired(s)

OtherStep ==
    \/ \E i \in Ids : CliCreateAdmin(i) \/ CliRotate(i) \/ BotCreate(i)
                        \/ OperatorDropsAdmin(i)
    \/ \E s \in Sids : Expire(s)
    \/ PruneSessions \/ Boot \/ Stop

RevokeStep == BotDeletes \/ \E i \in Ids : BotLooks(i)

Next == \/ (RequestStep \/ OtherStep) /\ UNCHANGED bot
        \/ RevokeStep

Spec == Init /\ [][Next]_vars

---------------------------------------------------------------------------
(* Properties.                                                              *)

TypeOK ==
    /\ user \in [Ids -> User]
    /\ session \in [Sids -> Session]
    /\ \A s \in Sids : session[s].owner = Nobody <=> session[s].st = "none"
    /\ token \in [Tids -> {"none", "user", "admin"}]
    /\ file \in 0..MaxSetup /\ made \in 0..MaxSetup
    /\ announced \in 0..MaxSetup
    /\ uses \in [1..MaxSetup -> Nat] /\ leftover \subseteq 0..MaxSetup
    /\ up \in BOOLEAN /\ loop \in Reqs \cup {Free}
    /\ req \in [Reqs -> Req]
    /\ bot \in Ids \cup {Nobody}

\* No session outlives its account, although a login inserts its session after
\* the command line or the bot helper may have deleted the account; only rows
\* deleted by hand leave sessions behind.
SessionsHaveUsers ==
    \A s \in Sids : session[s].st # "none" =>
        user[session[s].owner].st \in {"live", "dropped"}

\* A session that has expired never opens anything again, however its requests
\* interleave with each other and with the hourly pruning: it stays as it is
\* until it is deleted.  Not kept of one that expires between the SELECT and the
\* UPDATE of a request of its own (deps.py, session_user): that UPDATE slides it
\* back to life.
Dead(s) ==
    /\ session[s].st = "expired"
    /\ ~\E r \in Reqs : Holding(r, "slide") /\ req[r].sid = s

ExpiredStaysDead ==
    [][\A s \in Sids : Dead(s) => Dead(s)' \/ session'[s] = NoSession]_vars

\* A machine token, an administrator's included, never gets to manage accounts
\* or tokens (rbac.py: "it must never mint users or other tokens").
TokensNeverManage ==
    \A r \in Reqs : req[r].pc \in {"manage", "remove"} => req[r].via = "session"

\* No login gets a session while its account must change its password: the
\* flag cannot be raised between the check and the insert.
MustChangeBlocksLogin ==
    [][\A s \in Sids : session[s].st = "none" /\ session'[s].st = "fresh"
          => ~user[session'[s].owner].must]_vars

\* A setup token makes at most one administrator, with any number of setup
\* requests in flight, unless its file could not be removed or the daemon died
\* before it was (README: POST /api/setup "creates the first admin and burns
\* the token").
SetupTokenOnce == \A k \in (1..MaxSetup) \ leftover : uses[k] <= 1

\* While the daemon runs the panel loses its last administrator only to a
\* request whose own administrator has lost the right since it was let in (an
\* administrator may neither delete nor demote themselves; README: after the
\* setup "the endpoint 404s"), or to a revoke of the bot helper whose account was
\* made an administrator since it was looked at (dach-adduser.py: "refusing to
\* touch an admin account").  Not kept without these: two administrators demote
\* each other in overlapping requests, and a promotion overtakes a revoke.
Overtaken(r) ==
    LET i == req[r].actor IN
    req[r].pc \in {"manage", "remove"} /\ ~(Live(i) /\ user[i].admin)

Promoted == bot \in Ids /\ user[bot].admin

LastAdminStays ==
    [][up /\ AdminExists =>
          \/ AdminExists'
          \/ \E r \in Reqs : Overtaken(r) /\ req'[r] = Idle
          \/ Promoted /\ bot' = Nobody]_vars

\* A session that stands on a password older than the account's last rotation
\* is one whose login had verified that password and was about to insert (main.py:
\* "password rotated ..., sessions revoked").  Not kept: that there is none.
Stale(s) ==
    /\ session[s].st # "none" /\ Live(session[s].owner)
    /\ session[s].pw < user[session[s].owner].floor

Outruns(r, s) == Holding(r, "login") /\ session[s] = NoSession

RotationRevokes ==
    [][\A s \in Sids : Stale(s)' => Stale(s) \/ \E r \in Reqs : Outruns(r, s)]_vars

\* Once the administrator's row was deleted by hand, a start writes a setup
\* token to the journal, or one did since (README: "delete the admin row from SQLite
\* and restart - a fresh one-time setup token appears in the journal").  Not
\* kept: a token file that is still there is taken over silently.
RecoveryAnnounces ==
    [][~up /\ up' /\ ~AdminExists /\ (\E i \in Ids : user[i].st = "dropped")
          => announced' # 0]_vars

\* The password an account was created with opens no session of anybody but an
\* administrator: everybody else "sets their own password on first login"
\* (README, on users created in the Users tab).  Not kept: the flag that makes
\* them is not set when the account is created.
TempPasswordNeverOpens ==
    \A s \in Sids : session[s].st # "none" /\ session[s].pw = 0
        => user[session[s].owner].admin
============================================================================
