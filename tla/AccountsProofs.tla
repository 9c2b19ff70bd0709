--------------------------- MODULE AccountsProofs ---------------------------
(***************************************************************************)
(* What holds of Accounts for every set of accounts, sessions, tokens and  *)
(* requests in flight: types; that no session outlives its account, comes  *)
(* back after it expired or gets behind a rotated password unless its login *)
(* outran the rotation; that must_change_pw blocks logins; that a machine  *)
(* token never manages and the last administrator is lost to overlapping   *)
(* requests only; and that a setup token makes one administrator unless    *)
(* its file survives it.                                                   *)
(***************************************************************************)
EXTENDS Accounts, TLAPS

---------------------------------------------------------------------------
(* What the requests in flight look like.                                   *)

Holders == {"burn", "login", "change", "slide", "check", "remove"}

Known == {"login", "password", "change", "slide", "check"}

\* A handler between two steps holds the loop, and its actor is known.
SchedInv ==
    /\ req \in [Reqs -> Req]
    /\ loop \in Reqs \cup {Free}
    /\ \A r \in Reqs :
          /\ req[r].pc \in Holders => loop = r
          /\ req[r].pc \in Known => req[r].actor \in Ids
          /\ req[r].pc \in {"slide", "check"} => req[r].sid \in Sids

RowInv ==
    /\ user \in [Ids -> User]
    /\ session \in [Sids -> Session]
    /\ \A s \in Sids : session[s].owner = Nobody <=> session[s].st = "none"
    /\ token \in [Tids -> {"none", "user", "admin"}]

SetupTypes ==
    /\ file \in 0..MaxSetup /\ made \in 0..MaxSetup
    /\ announced \in 0..MaxSetup
    /\ uses \in [1..MaxSetup -> Nat] /\ leftover \subseteq 0..MaxSetup

TypeInv ==
    SchedInv /\ RowInv /\ SetupTypes /\ up \in BOOLEAN /\ bot \in Ids \cup {Nobody}

\* The requests the handlers make are requests.
LEMMA ReqFacts ==
  ASSUME NEW i \in Ids \cup {Nobody}, NEW p \in Passwords,
         NEW via \in {"none", "session", "token"}
  PROVE  /\ Idle \in Req
         /\ [Idle EXCEPT !.pc = "setup"] \in Req
         /\ [Idle EXCEPT !.pc = "login", !.actor = i, !.pw = p] \in Req
         /\ [Idle EXCEPT !.pc = "change", !.actor = i, !.pw = p] \in Req
         /\ \A s \in Sids : [Idle EXCEPT !.pc = "slide", !.actor = i, !.sid = s] \in Req
         /\ [Idle EXCEPT !.pc = "manage", !.via = via] \in Req
<1>1. 0 \in Passwords
  BY ConstantsOK DEF Passwords
<1> QED
  BY <1>1 DEF Req, Idle

\* The forms a handler's step takes keep SchedInv.
LEMMA ArriveSched ==
  ASSUME SchedInv, NEW r \in Reqs, NEW q \in Req, q.pc \notin Holders,
         q.pc \in Known => q.actor \in Ids, Arrive(r, q)
  PROVE  SchedInv'
  BY DEF SchedInv, Arrive, Holders

LEMMA HoldSched ==
  ASSUME SchedInv, NEW r \in Reqs, NEW q \in Req,
         q.pc \in Known => q.actor \in Ids,
         q.pc \in {"slide", "check"} => q.sid \in Sids,
         loop \in {Free, r}, Hold(r, q)
  PROVE  SchedInv'
  BY ConstantsOK DEF SchedInv, Hold

LEMMA FinishSched ==
  ASSUME SchedInv, NEW r \in Reqs, loop \in {Free, r}, Finish(r)
  PROVE  SchedInv'
<1>1. Idle \in Req /\ Idle.pc = "idle"
  BY ConstantsOK DEF Req, Idle, Passwords
<1> QED
  BY <1>1, ConstantsOK DEF SchedInv, Finish, Holders, Known

LEMMA OwnerIsAccount ==
  ASSUME RowInv, NEW s \in Sids, session[s].st # "none"
  PROVE  session[s].owner \in Ids
  BY DEF RowInv, Session

\* Slides, deletions and expiry keep the shape of the sessions table.
LEMMA SessionFacts ==
  ASSUME RowInv
  PROVE  /\ NoSession \in Session
         /\ \A s \in Sids, st \in {"fresh", "expired"} : session[s].st # "none" =>
               /\ [session EXCEPT ![s].st = st] \in [Sids -> Session]
               /\ \A z \in Sids : [session EXCEPT ![s].st = st][z].owner = session[z].owner
               /\ \A z \in Sids : [session EXCEPT ![s].st = st][z].st
                                    = IF z = s THEN st ELSE session[z].st
         /\ \A i \in Ids : Cascade(i) \in [Sids -> Session]
  BY ConstantsOK DEF RowInv, Session, NoSession, Cascade, Passwords
---------------------------------------------------------------------------
(* Types.                                                                   *)

LEMMA InitType == Init => TypeInv
<1> SUFFICES ASSUME Init PROVE TypeInv
  OBVIOUS
<1>1. 0 \in Passwords
  BY ConstantsOK DEF Passwords
<1>2. Idle \in Req /\ NewUser \in User /\ NoSession \in Session
  BY <1>1 DEF Idle, Req, NewUser, User, NoSession, Session
<1>3. SchedInv
  BY <1>2, ConstantsOK DEF Init, SchedInv, Idle, Holders, Known
<1>4. RowInv
  BY <1>2 DEF Init, RowInv, NoSession
<1>5. up \in BOOLEAN
  BY Zenon DEF Init
<1>6. SetupTypes
  <2>1. 0 \in 0..MaxSetup
    BY ConstantsOK
  <2>2. uses \in [1..MaxSetup -> Nat]
    BY DEF Init
  <2> QED
    BY <2>1, <2>2 DEF Init, SetupTypes
<1>7. bot \in Ids \cup {Nobody}
  BY DEF Init
<1> QED
  BY <1>3, <1>4, <1>5, <1>6, <1>7 DEF TypeInv

LEMMA SchedRequest ==
  ASSUME TypeInv, RequestStep
  PROVE  SchedInv'
<1> USE DEF TypeInv
<1>0. 0 \in Passwords
  BY ConstantsOK DEF Passwords
<1>1. ASSUME NEW r \in Reqs, SetupArrives(r) PROVE SchedInv'
  <2>1. [Idle EXCEPT !.pc = "setup"].pc \notin Holders \cup Known
    BY DEF Idle, Holders, Known
  <2> QED
    BY <1>0, <1>1, <2>1, ReqFacts, ArriveSched DEF SetupArrives
<1>2. ASSUME NEW r \in Reqs, NEW i \in Ids, SetupInserts(r, i) PROVE SchedInv'
  <2> DEFINE q == [req[r] EXCEPT !.pc = "burn"]
  <2>1. q \in Req /\ q.pc = "burn" /\ q.pc \notin Known
    BY DEF SchedInv, Req, Known
  <2> QED
    BY <1>2, <2>1, HoldSched DEF SetupInserts, Resumed, LoopFree
<1>3. ASSUME NEW r \in Reqs, SetupBurns(r) PROVE SchedInv'
  BY <1>3, FinishSched DEF SetupBurns, Holding
<1>4. ASSUME NEW r \in Reqs, NEW i \in Ids, LoginVerifies(r, i) PROVE SchedInv'
  <2> DEFINE q == [Idle EXCEPT !.pc = "login", !.actor = i, !.pw = user[i].pw]
  <2>1. user[i].pw \in Passwords
    BY DEF RowInv, User
  <2>2. q \in Req /\ q.actor = i /\ q.pc = "login"
    BY <2>1, ReqFacts DEF Idle
  <2> QED
    BY <1>4, <2>2, HoldSched DEF LoginVerifies, LoopFree
<1>5. ASSUME NEW r \in Reqs, NEW s \in Sids, LoginInserts(r, s) PROVE SchedInv'
  BY <1>5, FinishSched DEF LoginInserts, Holding
<1>6. ASSUME NEW r \in Reqs, NEW i \in Ids, FirstVerifies(r, i) PROVE SchedInv'
  <2> DEFINE q == [Idle EXCEPT !.pc = "change", !.actor = i, !.pw = user[i].pw]
  <2>1. user[i].pw \in Passwords
    BY DEF RowInv, User
  <2>2. q \in Req /\ q.actor = i /\ q.pc = "change"
    BY <2>1, ReqFacts DEF Idle
  <2> QED
    BY <1>6, <2>2, HoldSched DEF FirstVerifies, LoopFree
<1>7. ASSUME NEW r \in Reqs,
             \/ SessionSlides(r) \/ \E s \in Sids : SessionFound(r, s)
             \/ \E pc \in {"manage", "password", "remove"} : Admits(r, pc)
      PROVE  SchedInv'
  <2>1. ASSUME NEW s \in Sids, SessionFound(r, s) PROVE SchedInv'
    <3>1. session[s].owner \in Ids
      BY <2>1, OwnerIsAccount DEF SessionFound
    <3> DEFINE q == [Idle EXCEPT !.pc = "slide", !.actor = session[s].owner, !.sid = s]
    <3>2. q \in Req /\ q.actor \in Ids /\ q.sid = s
      BY <1>0, <3>1, ReqFacts DEF Idle
    <3> QED
      BY <2>1, <3>2, HoldSched DEF SessionFound, LoopFree
  <2>2. ASSUME SessionSlides(r) PROVE SchedInv'
    <3> DEFINE q == [req[r] EXCEPT !.pc = "check"]
    <3>1. q \in Req /\ q.actor \in Ids /\ q.sid \in Sids
      BY <2>2 DEF SessionSlides, Holding, SchedInv, Req, Known
    <3> QED
      BY <2>2, <3>1, HoldSched DEF SessionSlides, Holding
  <2>3. ASSUME NEW pc \in {"manage", "password", "remove"}, Admits(r, pc) PROVE SchedInv'
    <3> DEFINE q == [Idle EXCEPT !.pc = pc, !.actor = req[r].actor, !.via = "session"]
    <3>1. req[r].actor \in Ids /\ loop = r
      BY <2>3 DEF Admits, Holding, SchedInv, Known
    <3>2. q \in Req /\ q.pc = pc /\ q.actor \in Ids
      BY <1>0, <3>1 DEF Idle, Req
    <3>3. loop' = (IF pc = "remove" THEN r ELSE Free) /\ req' = [req EXCEPT ![r] = q]
      BY <2>3 DEF Admits
    <3> QED
      BY <3>1, <3>2, <3>3, ConstantsOK DEF SchedInv, Holders
  <2> QED
    BY <1>7, <2>1, <2>2, <2>3
<1>8. ASSUME NEW r \in Reqs, PasswordVerifies(r) PROVE SchedInv'
  <2> DEFINE i == req[r].actor
             q == [req[r] EXCEPT !.pc = "change", !.pw = user[i].pw]
  <2>1. i \in Ids /\ req[r] \in Req
    BY <1>8 DEF PasswordVerifies, Resumed, SchedInv, Known
  <2>2. user[i].pw \in Passwords
    BY <2>1 DEF RowInv, User
  <2>3. q \in Req /\ q.actor = i /\ q.pc = "change"
    BY <2>1, <2>2 DEF Req
  <2> QED
    BY <1>8, <2>1, <2>3, HoldSched DEF PasswordVerifies, Resumed, LoopFree
<1>9. ASSUME NEW r \in Reqs, PasswordUpdates(r) PROVE SchedInv'
  BY <1>9, FinishSched DEF PasswordUpdates, Holding
<1>10. ASSUME NEW r \in Reqs, NEW t \in Tids, TokenArrives(r, t) PROVE SchedInv'
  <2> DEFINE q == [Idle EXCEPT !.pc = "manage", !.via = "token"]
  <2>1. q \in Req /\ q.pc \notin Holders \cup Known
    BY <1>0, ReqFacts DEF Idle, Holders, Known
  <2>2. CASE Arrive(r, q)
    BY <2>1, <2>2, ArriveSched
  <2>3. CASE UNCHANGED sched
    BY <2>3 DEF SchedInv, sched
  <2> QED
    BY <1>10, <2>2, <2>3 DEF TokenArrives
<1>11. ASSUME NEW r \in Reqs,
              \/ Refuse(r) \/ TurnsAway(r) \/ Logout(r)
              \/ \E t \in Tids, kind \in {"user", "admin"} : TokensCreate(r, t, kind)
              \/ \E t \in Tids : TokensDelete(r, t)
              \/ \E i \in Ids : UsersDelete(r, i)
              \/ \E i \in Ids, flag \in BOOLEAN :
                    \/ UsersCreate(r, i, flag) \/ UsersSetAdmin(r, i, flag)
                    \/ UsersSetPassword(r, i, flag) \/ UsersSetMust(r, i, flag)
       PROVE  SchedInv'
  <2>1. loop \in {Free, r} /\ Finish(r)
    BY <1>11 DEF Refuse, TurnsAway, Logout, TokensCreate, TokensDelete, UsersCreate,
       UsersDelete, UsersSetAdmin, UsersSetPassword, UsersSetMust, Resumed, LoopFree, Holding
  <2> QED
    BY <2>1, FinishSched
<1>12. ASSUME NEW s \in Sids, LogoutExpired(s) PROVE SchedInv'
  BY <1>12 DEF LogoutExpired, sched, SchedInv
<1> QED
  BY <1>1, <1>2, <1>3, <1>4, <1>5, <1>6, <1>7, <1>8, <1>9, <1>10, <1>11, <1>12
  DEF RequestStep

LEMMA SchedOther ==
  ASSUME TypeInv, OtherStep \/ RevokeStep \/ UNCHANGED vars
  PROVE  SchedInv'
<1>1. CASE Stop
  <2>1. Idle \in Req /\ Idle.pc = "idle"
    BY ConstantsOK DEF Req, Idle, Passwords
  <2> QED
    BY <1>1, <2>1 DEF Stop, SchedInv, Holders, Known
<1>2. CASE UNCHANGED <<loop, req>>
  BY <1>2 DEF TypeInv, SchedInv
<1> QED
  BY <1>1, <1>2 DEF OtherStep, RevokeStep, CliCreateAdmin, CliRotate, BotCreate,
     BotLooks, BotDeletes, OperatorDropsAdmin, Expire, PruneSessions, Boot, sched, vars

\* What the UPDATE of a request and the bot helper's transaction do to the tables
LEMMA SlideFacts ==
  ASSUME TypeInv, NEW r \in Reqs, SessionSlides(r)
  PROVE  /\ UNCHANGED <<user, token>>
         /\ \/ session' = session
            \/ \E s \in Sids : /\ session[s].st # "none" /\ Holding(r, "slide")
                               /\ req[r].sid = s
                               /\ session' = [session EXCEPT ![s].st = "fresh"]
<1>1. req[r].sid \in Sids
  BY DEF SessionSlides, Holding, TypeInv, SchedInv
<1> QED
  BY <1>1 DEF SessionSlides

LEMMA RevokeFacts ==
  ASSUME TypeInv, BotDeletes
  PROVE  /\ bot \in Ids /\ UNCHANGED <<token, setupvars, sched>> /\ bot' = Nobody
         /\ session' = Cascade(bot)
         /\ \/ user' = user /\ ~Live(bot)
            \/ user' = [user EXCEPT ![bot] = [NewUser EXCEPT !.st = "gone"]]
  BY DEF BotDeletes, TypeInv

\* A step that leaves the accounts, or the accounts and the sessions, alone
LEMMA QuietSteps ==
  ASSUME NEW r \in Reqs,
         \/ SetupArrives(r) \/ SetupBurns(r) \/ TurnsAway(r) \/ PasswordVerifies(r)
         \/ Refuse(r)
         \/ \E pc \in {"manage", "password", "remove"} : Admits(r, pc)
         \/ \E s \in Sids : SessionFound(r, s)
         \/ \E t \in Tids : \/ TokenArrives(r, t) \/ TokensDelete(r, t)
                             \/ \E kind \in {"user", "admin"} : TokensCreate(r, t, kind)
         \/ \E i \in Ids : LoginVerifies(r, i) \/ FirstVerifies(r, i)
  PROVE  UNCHANGED <<user, session>>
  BY DEF SetupArrives, SetupBurns, TurnsAway, PasswordVerifies, Refuse, Admits,
     SessionFound, TokenArrives, TokensDelete, TokensCreate, LoginVerifies, FirstVerifies,
     tables

\* The rows of the three tables keep their types.
LEMMA RowStep ==
  ASSUME TypeInv, [Next]_vars
  PROVE  RowInv'
<1> USE DEF TypeInv
<1>0. 0 \in Passwords /\ NoSession \in Session
  BY ConstantsOK DEF Passwords, NoSession, Session
<1>1. ASSUME NEW i \in Ids, NEW must \in BOOLEAN
      PROVE  WithPassword(i, must) \in [Ids -> User]
  <2>1. CASE user[i].pw < MaxPw
    <3>1. user[i].pw + 1 \in Passwords
      BY <2>1, ConstantsOK DEF RowInv, User, Passwords
    <3> QED
      BY ZenonT(80), <3>1 DEF WithPassword, RowInv, User
  <2> QED
    BY <2>1 DEF WithPassword, RowInv
<1>2. ASSUME NEW i \in Ids, UNCHANGED token, session' = Cascade(i),
             user' \in [Ids -> User]
      PROVE  RowInv'
  <2>1. Cascade(i) \in [Sids -> Session]
    BY <1>0 DEF Cascade, RowInv
  <2> QED
    BY <1>2, <2>1 DEF RowInv, Cascade, NoSession
<1>3. ASSUME UNCHANGED <<session, token>>, user' \in [Ids -> User] PROVE RowInv'
  BY <1>3 DEF RowInv
<1>4. ASSUME NEW s \in Sids, NEW st \in {"fresh", "expired"}, session[s].st # "none",
             UNCHANGED <<user, token>>, session' = [session EXCEPT ![s].st = st]
      PROVE  RowInv'
  BY <1>4 DEF RowInv, Session
<1>5. ASSUME NEW r \in Reqs, NEW s \in Sids, LoginInserts(r, s) PROVE RowInv'
  <2> DEFINE i == req[r].actor
             row == [owner |-> i, st |-> "fresh", pw |-> req[r].pw]
  <2>1. i \in Ids /\ row \in Session
    BY <1>5 DEF LoginInserts, Holding, SchedInv, Known, Req, Session
  <2>2. session' \in [Sids -> Session]
    BY <1>5, <2>1 DEF LoginInserts, RowInv
  <2> QED
    BY <1>5, <2>1, <2>2, ConstantsOK DEF LoginInserts, RowInv
<1>6. ASSUME NEW r \in Reqs, NEW i \in Ids, NEW flag \in BOOLEAN,
             \/ SetupInserts(r, i) \/ UsersCreate(r, i, flag)
             \/ UsersSetAdmin(r, i, flag) \/ UsersSetPassword(r, i, flag)
             \/ UsersSetMust(r, i, flag)
      PROVE  RowInv'
  <2>1. user' \in [Ids -> User]
    <3>1. user[i].must \/ flag \in BOOLEAN
      BY DEF RowInv, User
    <3>2. CASE UsersSetPassword(r, i, flag)
      BY <1>1, <3>1, <3>2 DEF UsersSetPassword, RowInv, User
    <3> QED
      BY <1>6, <3>2 DEF SetupInserts, UsersCreate, UsersSetAdmin, UsersSetMust, RowInv, User
  <2> QED
    BY <1>3, <1>6, <2>1 DEF SetupInserts, UsersCreate, UsersSetAdmin,
       UsersSetPassword, UsersSetMust
<1>7. ASSUME NEW r \in Reqs, PasswordUpdates(r) PROVE RowInv'
  <2>1. req[r].actor \in Ids
    BY <1>7 DEF PasswordUpdates, Holding, SchedInv, Known
  <2> QED
    BY <1>1, <1>3, <1>7, <2>1 DEF PasswordUpdates
<1>8. ASSUME NEW r \in Reqs, SessionSlides(r) PROVE RowInv'
  BY <1>4, <1>8, SlideFacts DEF RowInv
<1>9. ASSUME NEW t \in Tids,
             \/ \E r \in Reqs, kind \in {"user", "admin"} : TokensCreate(r, t, kind)
             \/ \E r \in Reqs : TokensDelete(r, t)
      PROVE  RowInv'
  BY <1>9 DEF TokensCreate, TokensDelete, RowInv
<1>10. ASSUME (\E s \in Sids : LogoutExpired(s)) \/ \E r \in Reqs : Logout(r) PROVE RowInv'
  BY <1>0, <1>10 DEF Logout, LogoutExpired, RowInv, NoSession
<1>11. ASSUME NEW i \in Ids PROVE [NewUser EXCEPT !.st = "gone"] \in User
                                   /\ [NewUser EXCEPT !.st = "dropped"] \in User
  BY <1>0 DEF NewUser, User
<1>12. ASSUME NEW r \in Reqs, NEW i \in Ids, UsersDelete(r, i) PROVE RowInv'
  <2>1. user' \in [Ids -> User]
    BY <1>11, <1>12 DEF UsersDelete, RowInv
  <2> QED
    BY <1>2, <1>12, <2>1 DEF UsersDelete
<1>13. ASSUME NEW i \in Ids,
              \/ CliCreateAdmin(i) \/ CliRotate(i) \/ BotCreate(i)
              \/ OperatorDropsAdmin(i)
       PROVE  RowInv'
  <2>1. CASE CliRotate(i)
    <3>1. user[i].pw + 1 \in Passwords
      BY <2>1, ConstantsOK DEF CliRotate, RowInv, User, Passwords
    <3> DEFINE row == [user[i] EXCEPT !.pw = user[i].pw + 1, !.must = FALSE,
                                      !.floor = user[i].pw + 1]
    <3>2. row \in User
      BY <3>1 DEF RowInv, User
    <3>3. user' = [user EXCEPT ![i] = row]
      BY <2>1 DEF CliRotate, RowInv, User
    <3>4. user' \in [Ids -> User]
      BY <3>2, <3>3 DEF RowInv
    <3> QED
      BY <1>2, <2>1, <3>4 DEF CliRotate
  <2>2. CASE CliCreateAdmin(i) \/ BotCreate(i) \/ OperatorDropsAdmin(i)
    <3>1. user' \in [Ids -> User]
      BY <1>11, <2>2 DEF CliCreateAdmin, BotCreate, OperatorDropsAdmin, RowInv, User
    <3> QED
      BY <1>3, <2>2, <3>1 DEF CliCreateAdmin, BotCreate, OperatorDropsAdmin
  <2> QED
    BY <1>13, <2>1, <2>2
<1>14. ASSUME NEW s \in Sids, Expire(s) PROVE RowInv'
  BY <1>4, <1>14 DEF Expire
<1>15. ASSUME PruneSessions PROVE RowInv'
  <2>1. session' \in [Sids -> Session]
    BY <1>0, <1>15 DEF PruneSessions, RowInv
  <2> QED
    BY <1>15, <2>1 DEF PruneSessions, RowInv, NoSession
<1>16. ASSUME UNCHANGED tables PROVE RowInv'
  BY <1>16 DEF tables, RowInv
<1>17. CASE RequestStep
  <2>1. ASSUME NEW r \in Reqs,
               \/ SetupArrives(r) \/ SetupBurns(r) \/ TurnsAway(r) \/ PasswordVerifies(r)
               \/ Refuse(r)
               \/ \E pc \in {"manage", "password", "remove"} : Admits(r, pc)
               \/ \E s \in Sids : SessionFound(r, s)
               \/ \E t \in Tids : TokenArrives(r, t)
               \/ \E i \in Ids : LoginVerifies(r, i) \/ FirstVerifies(r, i)
        PROVE  RowInv'
    BY <1>16, <2>1 DEF SetupArrives, SetupBurns, TurnsAway, LoginVerifies, FirstVerifies,
       PasswordVerifies, Admits, SessionFound, TokenArrives, Refuse
  <2> QED
    BY SMTT(40), <1>5, <1>6, <1>7, <1>8, <1>9, <1>10, <1>12, <1>17, <2>1 DEF RequestStep
<1>18. CASE OtherStep
  BY <1>13, <1>14, <1>15, <1>16, <1>18 DEF OtherStep, Boot, Stop
<1>19. CASE RevokeStep
  <2>1. CASE BotDeletes
    <3>1. user' \in [Ids -> User]
      BY <1>11, <2>1, RevokeFacts DEF RowInv
    <3> QED
      BY <1>2, <2>1, <3>1, RevokeFacts
  <2> QED
    BY <1>16, <1>19, <2>1 DEF RevokeStep, BotLooks
<1> QED
  BY <1>16, <1>17, <1>18, <1>19 DEF Next, vars

\* Only the two steps of a setup touch what is kept of setup tokens, and a request
\* that holds the loop goes on by itself.
LEMMA SetupIsAlone ==
  ASSUME RequestStep
  PROVE  \/ \E r \in Reqs : SetupBurns(r) \/ \E i \in Ids : SetupInserts(r, i)
         \/ /\ UNCHANGED <<setupvars, up>>
            /\ \/ loop = Free
               \/ loop \in Reqs /\ req[loop].pc # "burn"
<1>1. ASSUME NEW r \in Reqs,
             \/ SetupArrives(r) \/ SessionSlides(r) \/ TurnsAway(r) \/ Logout(r)
             \/ PasswordVerifies(r) \/ PasswordUpdates(r) \/ Refuse(r)
             \/ \E pc \in {"manage", "password", "remove"} : Admits(r, pc)
             \/ \E s \in Sids : LoginInserts(r, s) \/ SessionFound(r, s)
             \/ \E t \in Tids : \/ TokenArrives(r, t) \/ TokensDelete(r, t)
                                 \/ \E kind \in {"user", "admin"} : TokensCreate(r, t, kind)
             \/ \E i \in Ids : \/ LoginVerifies(r, i) \/ FirstVerifies(r, i)
                                \/ UsersDelete(r, i)
             \/ \E i \in Ids, flag \in BOOLEAN :
                   \/ UsersCreate(r, i, flag) \/ UsersSetAdmin(r, i, flag)
                   \/ UsersSetPassword(r, i, flag) \/ UsersSetMust(r, i, flag)
      PROVE  /\ UNCHANGED <<setupvars, up>>
             /\ \/ loop = Free
                \/ loop \in Reqs /\ req[loop].pc # "burn"
  <2>1. UNCHANGED <<setupvars, up>>
    BY <1>1 DEF SetupArrives, SessionSlides, TurnsAway, Logout, PasswordVerifies,
       PasswordUpdates, Refuse, Admits, LoginInserts, SessionFound, TokenArrives,
       TokensDelete, TokensCreate, LoginVerifies, FirstVerifies, UsersDelete, UsersCreate,
       UsersSetAdmin, UsersSetPassword, UsersSetMust, Arrive, Hold, Finish, sched
  <2>2. loop = Free \/ (loop = r /\ req[r].pc # "burn")
    BY <1>1 DEF SetupArrives, SessionSlides, TurnsAway, Logout, PasswordVerifies,
       PasswordUpdates, Refuse, Admits, LoginInserts, SessionFound, TokenArrives,
       TokensDelete, TokensCreate, LoginVerifies, FirstVerifies, UsersDelete, UsersCreate,
       UsersSetAdmin, UsersSetPassword, UsersSetMust, Arrive, Resumed, Holding, LoopFree
  <2> QED
    BY <2>1, <2>2
<1>2. ASSUME NEW s \in Sids, LogoutExpired(s) PROVE UNCHANGED <<setupvars, up>> /\ loop = Free
  BY <1>2 DEF LogoutExpired, LoopFree, sched
<1> QED
  BY <1>1, <1>2 DEF RequestStep

LEMMA SetupTypesStep ==
  ASSUME TypeInv, [Next]_vars
  PROVE  SetupTypes' /\ up' \in BOOLEAN
<1> USE ConstantsOK DEF TypeInv, SetupTypes
<1>1. ASSUME NEW r \in Reqs, NEW i \in Ids, SetupInserts(r, i)
      PROVE  SetupTypes' /\ up' = up
  BY <1>1 DEF SetupInserts, Hold
<1>2. ASSUME NEW r \in Reqs, SetupBurns(r) PROVE SetupTypes' /\ up' = up
  <2>1. UNCHANGED <<made, uses, announced, up>> /\ file' \in 0..MaxSetup
    BY <1>2 DEF SetupBurns, Finish
  <2>2. leftover' \subseteq 0..MaxSetup
    BY <1>2 DEF SetupBurns
  <2> QED
    BY <2>1, <2>2
<1>3. ASSUME NEW i \in Ids, OperatorDropsAdmin(i) PROVE SetupTypes' /\ up' = up
  <2>1. 0 \in 0..MaxSetup
    OBVIOUS
  <2> QED
    BY <1>3, <2>1 DEF OperatorDropsAdmin, sched
<1>4. ASSUME Boot PROVE SetupTypes' /\ up' = TRUE
  BY <1>4 DEF Boot
<1>5. ASSUME Stop PROVE SetupTypes' /\ up' = FALSE
  BY <1>5 DEF Stop
<1>6. ASSUME UNCHANGED <<setupvars, up>> PROVE SetupTypes' /\ up' = up
  BY <1>6 DEF setupvars
<1>7. CASE RequestStep
  BY SMTT(40), <1>1, <1>2, <1>6, <1>7, SetupIsAlone
<1>8. CASE OtherStep \/ RevokeStep
  BY <1>3, <1>4, <1>5, <1>6, <1>8 DEF OtherStep, RevokeStep, CliCreateAdmin, CliRotate,
     BotCreate, BotLooks, BotDeletes, Expire, PruneSessions, sched
<1> QED
  BY <1>6, <1>7, <1>8 DEF Next, vars, sched

LEMMA NextType == TypeInv /\ [Next]_vars => TypeInv'
<1> SUFFICES ASSUME TypeInv, [Next]_vars PROVE TypeInv'
  OBVIOUS
<1>1. bot' \in Ids \cup {Nobody}
  BY DEF TypeInv, Next, RevokeStep, BotLooks, BotDeletes, vars
<1> QED
  BY <1>1, SchedRequest, SchedOther, RowStep, SetupTypesStep DEF TypeInv, Next

\* Rows, setup tokens and requests keep their types, and a session has an owner
\* exactly when it is one.
THEOREM TypeCorrect == Spec => []TypeOK
<1>1. TypeInv => TypeOK
  BY DEF TypeInv, SchedInv, RowInv, SetupTypes, TypeOK
<1> QED
  BY <1>1, InitType, NextType, PTL DEF Spec

---------------------------------------------------------------------------
(* One setup token, one administrator.                                      *)

\* A token of the file that has made its administrator is about to be burnt,
\* by the request that holds the loop.
SetupInv ==
    /\ TypeInv
    /\ file <= made
    /\ \A k \in 1..MaxSetup : k > made => uses[k] = 0
    /\ SetupTokenOnce
    /\ file # 0 /\ file \notin leftover =>
          uses[file] = 0 \/ (loop \in Reqs /\ req[loop].pc = "burn")

LEMMA SetupStep ==
  ASSUME SetupInv, [Next]_vars
  PROVE  SetupInv'
<1> USE ConstantsOK DEF SetupInv, SetupTokenOnce
<1>0. TypeInv /\ TypeInv'
  BY NextType
<1>a. SetupTypes /\ SchedInv
  BY <1>0 DEF TypeInv
<1>1. ASSUME NEW r \in Reqs, NEW i \in Ids, SetupInserts(r, i) PROVE SetupInv'
  <2>1. loop = Free /\ file # 0 /\ (file \notin leftover => uses[file] = 0)
    BY <1>1 DEF SetupInserts, Resumed, LoopFree
  <2>2. uses' = [uses EXCEPT ![file] = uses[file] + 1]
    BY <1>1 DEF SetupInserts
  <2>3. loop' = r /\ req'[r].pc = "burn" /\ UNCHANGED <<file, made, leftover>>
    BY <1>1, <1>a DEF SetupInserts, Hold, SchedInv, Req
  <2> QED
    BY <1>0, <1>a, <2>1, <2>2, <2>3 DEF SetupTypes
<1>2. ASSUME NEW r \in Reqs, SetupBurns(r) PROVE SetupInv'
  <2>1. UNCHANGED <<made, uses>>
        /\ \/ file' = 0 /\ leftover' = leftover
           \/ file' = file /\ leftover' = leftover \cup {file}
    BY <1>2 DEF SetupBurns
  <2> QED
    BY <1>0, <1>a, <2>1 DEF SetupTypes
<1>3. ASSUME Boot PROVE SetupInv'
  <2>1. CASE UNCHANGED <<file, made>>
    BY <1>0, <1>3, <2>1 DEF Boot
  <2>2. CASE made' = made + 1 /\ file' = made' /\ made < MaxSetup
    BY <1>0, <1>3, <1>a, <2>2 DEF Boot, SetupTypes
  <2> QED
    BY <1>3, <2>1, <2>2 DEF Boot
<1>4. ASSUME Stop PROVE SetupInv'
  <2>1. CASE \E r \in Reqs : req[r].pc = "burn"
    BY <1>0, <1>4, <2>1 DEF Stop
  <2>2. CASE ~\E r \in Reqs : req[r].pc = "burn"
    BY <1>0, <1>4, <2>2 DEF Stop
  <2> QED
    BY <2>1, <2>2
<1>5. ASSUME UNCHANGED <<file, made, uses, leftover, loop, req>> PROVE SetupInv'
  BY <1>0, <1>5
<1>6. ASSUME UNCHANGED <<file, made, uses, leftover>>,
             loop = Free \/ (loop \in Reqs /\ req[loop].pc # "burn")
      PROVE  SetupInv'
  BY <1>0, <1>6
<1>7. CASE RequestStep
  BY SMTT(40), <1>1, <1>2, <1>6, <1>7, SetupIsAlone DEF setupvars
<1>8. CASE OtherStep \/ RevokeStep
  BY <1>3, <1>4, <1>5, <1>8 DEF OtherStep, RevokeStep, CliCreateAdmin, CliRotate, BotCreate,
     BotLooks, BotDeletes, OperatorDropsAdmin, Expire, PruneSessions, setupvars, sched
<1> QED
  BY <1>5, <1>7, <1>8 DEF Next, vars, setupvars, sched

\* Every setup token makes at most one administrator, with any number of setup
\* requests in flight, of accounts made at the command line and of restarts,
\* unless a failed unlink or a crash leaves its file behind.
THEOREM OneAdminPerSetupToken == Spec => []SetupTokenOnce
<1>1. Init => SetupInv
  <2>1. ASSUME Init PROVE \A k \in 1..MaxSetup : uses[k] = 0
    BY <2>1 DEF Init
  <2> QED
    BY <2>1, InitType, ConstantsOK DEF Init, SetupInv, SetupTokenOnce
<1>2. SetupInv /\ [Next]_vars => SetupInv'
  BY SetupStep
<1>3. SetupInv => SetupTokenOnce
  BY DEF SetupInv, SetupTokenOnce
<1> QED
  BY <1>1, <1>2, <1>3, PTL DEF Spec
---------------------------------------------------------------------------
(* No session outlives its account.                                         *)

SessionInv == TypeInv /\ SessionsHaveUsers

LEMMA SessionStep ==
  ASSUME SessionInv, [Next]_vars
  PROVE  SessionInv'
<1> USE DEF SessionInv
<1>0. TypeInv /\ TypeInv' /\ RowInv /\ RowInv'
  BY NextType DEF TypeInv
<1> DEFINE Kept == {"live", "dropped"}
\* Accounts stay and no session is new.
<1>1. ASSUME \A i \in Ids : user[i].st \in Kept => user'[i].st \in Kept,
             \A s \in Sids : session'[s].st # "none" =>
                session[s].st # "none" /\ session'[s].owner = session[s].owner
      PROVE  SessionsHaveUsers'
  BY <1>0, <1>1, OwnerIsAccount DEF SessionsHaveUsers
\* One account goes, with its sessions.
<1>2. ASSUME NEW i \in Ids, user' = [user EXCEPT ![i] = [NewUser EXCEPT !.st = "gone"]],
             session' = Cascade(i)
      PROVE  SessionsHaveUsers'
  <2>1. ASSUME NEW s \in Sids, session'[s].st # "none"
        PROVE  session'[s] = session[s] /\ session[s].owner # i
    BY <1>2, <2>1 DEF Cascade, NoSession
  <2> QED
    BY <1>0, <1>2, <2>1, OwnerIsAccount DEF SessionsHaveUsers, RowInv
<1>3. ASSUME NEW r \in Reqs, NEW s \in Sids, LoginInserts(r, s)
      PROVE  SessionsHaveUsers'
  <2>1. CASE Live(req[r].actor)
    BY <1>0, <1>3, <2>1 DEF LoginInserts, SessionsHaveUsers, RowInv, Live
  <2>2. CASE ~Live(req[r].actor)
    BY <1>3, <2>2 DEF LoginInserts, SessionsHaveUsers
  <2> QED
    BY <2>1, <2>2
<1>4. ASSUME NEW s \in Sids, NEW st \in {"fresh", "expired"}, session[s].st # "none",
             user' = user, session' = [session EXCEPT ![s].st = st]
      PROVE  SessionsHaveUsers'
  <2>1. \A z \in Sids : session'[z].st # "none" =>
           session[z].st # "none" /\ session'[z].owner = session[z].owner
    BY <1>0, <1>4 DEF RowInv, Session
  <2> QED
    BY <1>1, <1>4, <2>1
<1>5. ASSUME NEW i \in Ids, CliRotate(i) PROVE SessionsHaveUsers'
  <2>1. \A z \in Sids : session'[z].st # "none" => session'[z] = session[z]
    BY <1>5 DEF CliRotate, Cascade, NoSession
  <2>2. \A k \in Ids : user'[k].st = user[k].st
    BY <1>0, <1>5 DEF CliRotate, RowInv, User
  <2> QED
    BY <1>1, <2>1, <2>2
<1>6. ASSUME session' = session,
             \/ \E i \in Ids : CliCreateAdmin(i) \/ BotCreate(i) \/ OperatorDropsAdmin(i)
             \/ \E r \in Reqs, i \in Ids : SetupInserts(r, i)
             \/ \E r \in Reqs : PasswordUpdates(r)
             \/ \E r \in Reqs, i \in Ids, flag \in BOOLEAN :
                   \/ UsersCreate(r, i, flag) \/ UsersSetAdmin(r, i, flag)
                   \/ UsersSetPassword(r, i, flag) \/ UsersSetMust(r, i, flag)
      PROVE  SessionsHaveUsers'
  <2>1. \A i \in Ids : user[i].st \in Kept => user'[i].st \in Kept
    <3> USE <1>0 DEF RowInv
    <3>1. ASSUME NEW i \in Ids, CliCreateAdmin(i) \/ BotCreate(i) \/ OperatorDropsAdmin(i)
          PROVE  \A k \in Ids : user[k].st \in Kept => user'[k].st \in Kept
      BY <3>1 DEF CliCreateAdmin, BotCreate, OperatorDropsAdmin, User, NewUser
    <3>2. ASSUME NEW i, NEW must
          PROVE  \A k \in Ids : WithPassword(i, must)[k].st = user[k].st
      BY DEF WithPassword, User
    <3>3. ASSUME NEW r \in Reqs, NEW i \in Ids, NEW flag \in BOOLEAN,
                 \/ SetupInserts(r, i) \/ UsersCreate(r, i, flag)
                 \/ UsersSetAdmin(r, i, flag) \/ UsersSetMust(r, i, flag)
          PROVE  \A k \in Ids : user[k].st \in Kept => user'[k].st \in Kept
      BY <3>3 DEF SetupInserts, UsersCreate, UsersSetAdmin, UsersSetMust, User
    <3>4. ASSUME NEW r \in Reqs,
                 \/ PasswordUpdates(r)
                 \/ \E i \in Ids, flag \in BOOLEAN : UsersSetPassword(r, i, flag)
          PROVE  \A k \in Ids : user[k].st \in Kept => user'[k].st \in Kept
      <4>1. CASE PasswordUpdates(r)
        <5>1. user' = WithPassword(req[r].actor, FALSE)
          BY <4>1 DEF PasswordUpdates
        <5>2. \A k \in Ids : WithPassword(req[r].actor, FALSE)[k].st = user[k].st
          BY ZenonT(80), <3>2
        <5> QED
          BY <5>1, <5>2
      <4>2. ASSUME NEW i \in Ids, NEW flag \in BOOLEAN, UsersSetPassword(r, i, flag)
            PROVE  \A k \in Ids : user[k].st \in Kept => user'[k].st \in Kept
        <5>1. user' = WithPassword(i, user[i].must \/ flag)
          BY <4>2 DEF UsersSetPassword
        <5>2. \A k \in Ids : WithPassword(i, user[i].must \/ flag)[k].st = user[k].st
          BY <3>2
        <5> QED
          BY <5>1, <5>2
      <4> QED
        BY <3>4, <4>1, <4>2
    <3> QED
      BY <1>6, <3>1, <3>3, <3>4
  <2> QED
    BY <1>1, <1>6, <2>1
<1>7. ASSUME user' = user, session' = session PROVE SessionsHaveUsers'
  BY <1>7 DEF SessionsHaveUsers
<1>8. ASSUME (\E s \in Sids : LogoutExpired(s)) \/ \E r \in Reqs : Logout(r)
      PROVE  SessionsHaveUsers'
  <2>1. \A z \in Sids : session'[z].st # "none" => session'[z] = session[z]
    BY <1>0, <1>8 DEF Logout, LogoutExpired, NoSession, RowInv
  <2> QED
    BY <1>1, <1>8, <2>1 DEF Logout, LogoutExpired
<1>9. ASSUME PruneSessions PROVE SessionsHaveUsers'
  <2>1. \A z \in Sids : session'[z].st # "none" => session'[z] = session[z]
    BY <1>0, <1>9 DEF PruneSessions, NoSession
  <2> QED
    BY <1>1, <1>9, <2>1 DEF PruneSessions
<1>10. ASSUME RequestStep PROVE SessionsHaveUsers'
  <2>1. ASSUME NEW r \in Reqs, SessionSlides(r) PROVE SessionsHaveUsers'
    BY <1>4, <1>7, <2>1, SlideFacts
  <2>2. ASSUME NEW r \in Reqs, NEW i \in Ids, UsersDelete(r, i) PROVE SessionsHaveUsers'
    BY <1>2, <2>2 DEF UsersDelete
  <2>3. ASSUME NEW r \in Reqs,
               \/ PasswordUpdates(r)
               \/ \E i \in Ids : SetupInserts(r, i)
               \/ \E i \in Ids, flag \in BOOLEAN :
                     \/ UsersCreate(r, i, flag) \/ UsersSetAdmin(r, i, flag)
                     \/ UsersSetPassword(r, i, flag) \/ UsersSetMust(r, i, flag)
        PROVE  SessionsHaveUsers'
    <3>1. session' = session
      BY <2>3 DEF PasswordUpdates, SetupInserts, UsersCreate, UsersSetAdmin,
         UsersSetPassword, UsersSetMust
    <3> QED
      BY <1>6, <2>3, <3>1
  <2> QED
    BY <1>3, <1>7, <1>8, <1>10, <2>1, <2>2, <2>3, QuietSteps DEF RequestStep
<1>11. ASSUME OtherStep PROVE SessionsHaveUsers'
  <2>1. ASSUME NEW i \in Ids, CliCreateAdmin(i) \/ BotCreate(i) \/ OperatorDropsAdmin(i)
        PROVE  SessionsHaveUsers'
    BY <1>6, <2>1 DEF CliCreateAdmin, BotCreate, OperatorDropsAdmin
  <2>2. ASSUME NEW s \in Sids, Expire(s) PROVE SessionsHaveUsers'
    BY <1>4, <2>2 DEF Expire
  <2>3. ASSUME Boot \/ Stop PROVE SessionsHaveUsers'
    BY <1>7, <2>3 DEF Boot, Stop, tables
  <2> QED
    BY <1>5, <1>9, <1>11, <2>1, <2>2, <2>3 DEF OtherStep
\* An account that is gone already has no session to lose.
<1>12. ASSUME RevokeStep PROVE SessionsHaveUsers'
  <2>1. ASSUME NEW i \in Ids, user' = user, session' = Cascade(i) PROVE SessionsHaveUsers'
    <3>1. \A z \in Sids : session'[z].st # "none" => session'[z] = session[z]
      BY <2>1 DEF Cascade, NoSession
    <3> QED
      BY <1>1, <2>1, <3>1
  <2>2. CASE BotDeletes
    BY <1>2, <2>1, <2>2, RevokeFacts
  <2>3. ASSUME NEW i \in Ids, BotLooks(i) PROVE SessionsHaveUsers'
    BY <1>7, <2>3 DEF BotLooks, tables
  <2> QED
    BY <1>12, <2>2, <2>3 DEF RevokeStep
<1>13. SessionsHaveUsers'
  BY <1>7, <1>10, <1>11, <1>12 DEF Next, vars, tables
<1> QED
  BY <1>0, <1>13

\* Whatever deletes accounts while logins are in flight, every session's
\* account exists or was deleted by hand.
THEOREM NoSessionOutlivesItsAccount == Spec => []SessionsHaveUsers
<1>1. Init => SessionInv
  BY InitType DEF Init, SessionInv, SessionsHaveUsers, NoSession
<1>2. SessionInv /\ [Next]_vars => SessionInv'
  BY SessionStep
<1>3. SessionInv => SessionsHaveUsers
  BY DEF SessionInv
<1> QED
  BY <1>1, <1>2, <1>3, PTL DEF Spec
---------------------------------------------------------------------------
(* Logins and must_change_pw.                                               *)

\* The account of a login that holds the loop existed when it was read, and
\* unless it is gone by now it need not change its password.
LoginInv ==
    /\ TypeInv
    /\ \A r \in Reqs : req[r].pc = "login" =>
          /\ user[req[r].actor].st # "unused"
          /\ ~user[req[r].actor].must

\* Only the login itself moves while it holds the loop; other processes never
\* raise must_change_pw of an account that exists.
LEMMA MustStep ==
  ASSUME LoginInv, [Next]_vars, NEW i \in Ids,
         user[i].st # "unused", ~user[i].must, loop # Free
  PROVE  user'[i].st # "unused" /\ ~user'[i].must
<1>0. RowInv /\ user \in [Ids -> User]
  BY DEF LoginInv, TypeInv, RowInv
<1> DEFINE Good == user'[i].st # "unused" /\ ~user'[i].must
<1>1. ASSUME user' = user PROVE Good
  BY <1>1
<1>2. ASSUME RequestStep PROVE Good
  <2>1. ASSUME NEW r \in Reqs, PasswordUpdates(r) PROVE Good
    <3>1. user' = WithPassword(req[r].actor, FALSE)
      BY <2>1 DEF PasswordUpdates
    <3> DEFINE k == req[r].actor
    <3>2. CASE user' = user
      BY <1>1, <3>2
    <3>3. CASE user' = [user EXCEPT ![k].pw = @ + 1, ![k].must = FALSE]
      BY <1>0, <3>3 DEF User
    <3> QED
      BY <3>1, <3>2, <3>3 DEF WithPassword
  <2>2. ASSUME NEW r \in Reqs,
               SessionSlides(r) \/ Logout(r) \/ \E s \in Sids : LoginInserts(r, s)
        PROVE  user' = user
    BY <2>2 DEF SessionSlides, Logout, LoginInserts
  <2>3. ASSUME NEW r \in Reqs, NEW k \in Ids, UsersDelete(r, k) PROVE Good
    BY <1>0, <2>3 DEF UsersDelete, NewUser
  \* Everything else that changes an account waits for the loop.
  <2>4. ASSUME NEW r \in Reqs, NEW k \in Ids,
               \/ SetupInserts(r, k)
               \/ \E flag \in BOOLEAN :
                     \/ UsersCreate(r, k, flag) \/ UsersSetAdmin(r, k, flag)
                     \/ UsersSetPassword(r, k, flag) \/ UsersSetMust(r, k, flag)
        PROVE  LoopFree
    BY <2>4 DEF SetupInserts, UsersCreate, UsersSetAdmin, UsersSetPassword, UsersSetMust,
       Resumed
  <2>5. ASSUME NEW s \in Sids, LogoutExpired(s) PROVE LoopFree
    BY <2>5 DEF LogoutExpired
  <2>6. ~LoopFree
    BY DEF LoopFree
  <2> QED
    BY SMTT(40), <1>1, <1>2, <2>1, <2>2, <2>3, <2>4, <2>5, <2>6, QuietSteps DEF RequestStep
<1>3. ASSUME OtherStep PROVE Good
  <2>1. ASSUME NEW k \in Ids, CliCreateAdmin(k) \/ BotCreate(k) PROVE Good
    BY <1>0, <2>1 DEF CliCreateAdmin, BotCreate, User
  <2>2. ASSUME NEW k \in Ids, CliRotate(k) PROVE Good
    BY <1>0, <2>2 DEF CliRotate, User
  <2>3. ASSUME NEW k \in Ids, OperatorDropsAdmin(k) PROVE Good
    BY <1>0, <2>3 DEF OperatorDropsAdmin, NewUser, User
  <2>4. ASSUME NEW s \in Sids, Expire(s) PROVE Good
    BY <1>1, <2>4 DEF Expire
  <2>5. ASSUME PruneSessions \/ Boot \/ Stop PROVE Good
    BY <1>1, <2>5 DEF PruneSessions, Boot, Stop, tables
  <2> QED
    BY <1>3, <2>1, <2>2, <2>3, <2>4, <2>5 DEF OtherStep
<1>4. ASSUME RevokeStep PROVE Good
  <2>1. CASE BotDeletes
    BY <1>0, <1>1, <2>1, RevokeFacts DEF LoginInv, NewUser
  <2> QED
    BY <1>1, <1>4, <2>1 DEF RevokeStep, BotLooks, tables
<1> QED
  BY <1>1, <1>2, <1>3, <1>4 DEF Next, vars, tables

\* What a request that is logging in after a step was before it.
LEMMA LoginOrigin ==
  ASSUME LoginInv, [Next]_vars, NEW r \in Reqs, req'[r].pc = "login"
  PROVE  \/ req[r].pc = "login" /\ req'[r].actor = req[r].actor
         \/ \E i \in Ids : LoginVerifies(r, i)
<1>0. req \in [Reqs -> Req]
  BY DEF LoginInv, TypeInv, SchedInv
<1> DEFINE Same == req[r].pc = "login" /\ req'[r].actor = req[r].actor
           Goal == Same \/ \E i \in Ids : LoginVerifies(r, i)
<1>1. ASSUME UNCHANGED req PROVE Goal
  BY <1>1
<1>2. ASSUME NEW w \in Reqs, Finish(w) PROVE Goal
  BY <1>0, <1>2 DEF Finish, Idle
<1>3. ASSUME NEW w \in Reqs, NEW q, Arrive(w, q), q.pc # "login" PROVE Goal
  BY <1>0, <1>3 DEF Arrive
<1>4. ASSUME NEW w \in Reqs, NEW q, Hold(w, q), q.pc # "login" PROVE Goal
  BY <1>0, <1>4 DEF Hold
<1>5. ASSUME NEW w \in Reqs, SetupArrives(w) \/ \E t \in Tids : TokenArrives(w, t)
      PROVE  Goal
  BY <1>1, <1>3, <1>5 DEF SetupArrives, TokenArrives, Idle, sched
<1>6. ASSUME NEW w \in Reqs,
             \/ PasswordVerifies(w) \/ SessionSlides(w)
             \/ \E s \in Sids : SessionFound(w, s)
             \/ \E i \in Ids : SetupInserts(w, i) \/ FirstVerifies(w, i)
      PROVE  Goal
  <2>1. CASE PasswordVerifies(w)
    BY <1>0, <1>4, <2>1 DEF PasswordVerifies, Req
  <2>2. CASE SessionSlides(w)
    BY <1>0, <1>4, <2>2 DEF SessionSlides, Req
  <2>3. ASSUME NEW s \in Sids, SessionFound(w, s) PROVE Goal
    BY <1>4, <2>3 DEF SessionFound, Idle
  <2>4. ASSUME NEW i \in Ids, SetupInserts(w, i) PROVE Goal
    BY <1>0, <1>4, <2>4 DEF SetupInserts, Req
  <2>5. ASSUME NEW i \in Ids, FirstVerifies(w, i) PROVE Goal
    BY <1>4, <2>5 DEF FirstVerifies, Idle
  <2> QED
    BY <1>6, <2>1, <2>2, <2>3, <2>4, <2>5
<1>7. ASSUME NEW w \in Reqs, NEW i \in Ids, LoginVerifies(w, i) PROVE Goal
  BY <1>0, <1>7 DEF LoginVerifies, Hold
<1>8. ASSUME NEW w \in Reqs,
             \/ SetupBurns(w) \/ TurnsAway(w) \/ Logout(w) \/ PasswordUpdates(w)
             \/ Refuse(w)
             \/ \E s \in Sids : LoginInserts(w, s)
             \/ \E t \in Tids : \/ TokensDelete(w, t)
                                 \/ \E kind \in {"user", "admin"} : TokensCreate(w, t, kind)
             \/ \E i \in Ids : UsersDelete(w, i)
             \/ \E i \in Ids, flag \in BOOLEAN :
                   \/ UsersCreate(w, i, flag) \/ UsersSetAdmin(w, i, flag)
                   \/ UsersSetPassword(w, i, flag) \/ UsersSetMust(w, i, flag)
      PROVE  Goal
  <2>1. Finish(w)
    BY <1>8 DEF SetupBurns, TurnsAway, Logout, PasswordUpdates, Refuse, LoginInserts,
       TokensCreate, TokensDelete, UsersDelete, UsersCreate, UsersSetAdmin,
       UsersSetPassword, UsersSetMust
  <2> QED
    BY <1>2, <2>1
<1>9. ASSUME NEW w \in Reqs, NEW pc \in {"manage", "password", "remove"}, Admits(w, pc)
      PROVE  Goal
  BY <1>0, <1>9 DEF Admits, Idle
<1>a. ASSUME NEW s \in Sids, LogoutExpired(s) PROVE Goal
  BY <1>1, <1>a DEF LogoutExpired, sched
<1>10. ASSUME RequestStep PROVE Goal
  BY <1>5, <1>6, <1>7, <1>8, <1>9, <1>a, <1>10 DEF RequestStep
<1>11. ASSUME OtherStep \/ RevokeStep PROVE Goal
  <2>1. ~Stop
    BY DEF Stop, Idle
  <2> QED
    BY <1>1, <1>11, <2>1 DEF OtherStep, RevokeStep, CliCreateAdmin, CliRotate, BotCreate,
       BotLooks, BotDeletes, OperatorDropsAdmin, Expire, PruneSessions, Boot, sched
<1> QED
  BY <1>1, <1>10, <1>11 DEF Next, vars, sched

LEMMA LoginStep ==
  ASSUME LoginInv, [Next]_vars
  PROVE  LoginInv'
<1>0. TypeInv /\ TypeInv'
  BY NextType DEF LoginInv
<1>1. ASSUME NEW r \in Reqs, req'[r].pc = "login"
      PROVE  user'[req'[r].actor].st # "unused" /\ ~user'[req'[r].actor].must
  <2>1. CASE req[r].pc = "login" /\ req'[r].actor = req[r].actor
    <3>1. loop = r /\ loop # Free /\ req[r].actor \in Ids
      BY <1>0, <2>1, ConstantsOK DEF TypeInv, SchedInv, Holders, Known
    <3>2. user[req[r].actor].st # "unused" /\ ~user[req[r].actor].must
      BY <2>1 DEF LoginInv
    <3> QED
      BY <2>1, <3>1, <3>2, MustStep
  <2>2. ASSUME NEW i \in Ids, LoginVerifies(r, i)
        PROVE  user'[req'[r].actor].st # "unused" /\ ~user'[req'[r].actor].must
    <3>1. req'[r].actor = i
      BY <1>0, <2>2 DEF LoginVerifies, Hold, Idle, TypeInv, SchedInv
    <3>2. user' = user /\ user[i].st = "live" /\ ~user[i].must
      BY <2>2 DEF LoginVerifies, Live, tables
    <3> QED
      BY <3>1, <3>2
  <2> QED
    BY <1>1, <2>1, <2>2, LoginOrigin
<1> QED
  BY <1>0, <1>1 DEF LoginInv
\* Every session a login makes is of an account that, at that moment, need not
\* change its password, whatever other processes do meanwhile.
THEOREM LoginsRespectMustChange == Spec => MustChangeBlocksLogin
<1> DEFINE Blocked == \A s \in Sids :
              session[s].st = "none" /\ session'[s].st = "fresh"
                 => ~user[session'[s].owner].must
<1>1. Init => LoginInv
  BY InitType DEF Init, LoginInv, Idle
<1>2. LoginInv /\ [Next]_vars => LoginInv'
  BY LoginStep
<1>3. LoginInv /\ [Next]_vars => [Blocked]_vars
  <2> SUFFICES ASSUME LoginInv, Next PROVE Blocked
    BY DEF vars
  <2>0. session \in [Sids -> Session] /\ \A s \in Sids :
           session[s].owner = Nobody <=> session[s].st = "none"
    BY DEF LoginInv, TypeInv, RowInv
  <2>1. ASSUME \A s \in Sids : session'[s].st = "fresh" => session[s].st # "none"
        PROVE  Blocked
    BY <2>1
  <2>2. ASSUME NEW r \in Reqs, NEW z \in Sids, LoginInserts(r, z) PROVE Blocked
    <3>1. req[r].pc = "login" /\ ~user[req[r].actor].must
      BY <2>2 DEF LoginInserts, Holding, LoginInv
    <3>2. ASSUME NEW s \in Sids, session[s].st = "none", session'[s].st = "fresh"
          PROVE  session'[s].owner = req[r].actor
      BY <2>0, <2>2, <3>2 DEF LoginInserts
    <3> QED
      BY <3>1, <3>2
  <2>3. ASSUME NEW s \in Sids, NEW st \in {"fresh", "expired"}, session[s].st # "none",
               session' = [session EXCEPT ![s].st = st]
        PROVE  Blocked
    BY <2>0, <2>1, <2>3 DEF Session
  <2>4. ASSUME NEW i \in Ids, session' = Cascade(i) PROVE Blocked
    BY <2>0, <2>1, <2>4 DEF Cascade, NoSession
  <2>5. ASSUME session' = session PROVE Blocked
    BY <2>5
  <2>6. ASSUME NEW r \in Reqs, SessionSlides(r) PROVE Blocked
    BY <2>3, <2>5, <2>6, SlideFacts DEF LoginInv
  <2>7. ASSUME (\E s \in Sids : LogoutExpired(s)) \/ \E r \in Reqs : Logout(r) PROVE Blocked
    BY <2>0, <2>1, <2>7 DEF Logout, LogoutExpired, NoSession
  <2>8. ASSUME PruneSessions PROVE Blocked
    BY <2>0, <2>1, <2>8 DEF PruneSessions, NoSession
  <2>9. ASSUME NEW r \in Reqs,
               \/ PasswordUpdates(r)
               \/ \E i \in Ids : SetupInserts(r, i)
               \/ \E i \in Ids, flag \in BOOLEAN :
                     \/ UsersCreate(r, i, flag) \/ UsersSetAdmin(r, i, flag)
                     \/ UsersSetPassword(r, i, flag) \/ UsersSetMust(r, i, flag)
        PROVE  session' = session
    BY <2>9 DEF PasswordUpdates, SetupInserts, UsersCreate, UsersSetAdmin,
       UsersSetPassword, UsersSetMust
  <2>10. CASE RequestStep
    BY <2>2, <2>4, <2>5, <2>6, <2>7, <2>9, <2>10, QuietSteps DEF RequestStep, UsersDelete
  <2>11. CASE OtherStep
    BY <2>3, <2>4, <2>5, <2>8, <2>11 DEF OtherStep, CliCreateAdmin, CliRotate, BotCreate,
       OperatorDropsAdmin, Expire, Boot, Stop, tables
  <2>12. CASE RevokeStep
    BY <2>4, <2>5, <2>12, RevokeFacts DEF LoginInv, RevokeStep, BotLooks, tables
  <2> QED
    BY <2>10, <2>11, <2>12 DEF Next
<1>4. [][Blocked]_vars => MustChangeBlocksLogin
  BY PTL DEF MustChangeBlocksLogin
<1> QED
  BY <1>1, <1>2, <1>3, <1>4, PTL DEF Spec
---------------------------------------------------------------------------
(* Expired sessions.                                                        *)

\* Whatever requests, logins, pruning and other processes do to an expired
\* session, it stays expired until it is deleted, unless the request that found it
\* fresh has yet to slide it.
THEOREM ExpiredIsForEver == Spec => ExpiredStaysDead
<1> DEFINE Kept(s) == Dead(s) => Dead(s)' \/ session'[s] = NoSession
           All == \A s \in Sids : Kept(s)
<1>1. Init => TypeInv
  BY InitType
<1>2. TypeInv /\ [Next]_vars => TypeInv'
  BY NextType
<1>3. TypeInv /\ [Next]_vars => [All]_vars
  <2> SUFFICES ASSUME TypeInv, Next, NEW s \in Sids, Dead(s) PROVE Dead(s)' \/ session'[s] = NoSession
    BY DEF vars
  <2> DEFINE Goal == Dead(s)' \/ session'[s] = NoSession
  <2>0. session \in [Sids -> Session] /\ req \in [Reqs -> Req] /\ session[s].st = "expired"
    BY DEF TypeInv, RowInv, SchedInv, Dead
  \* No request comes to slide a session that has expired.
  <2>1. ASSUME NEW r \in Reqs, Holding(r, "slide")', req'[r].sid = s
        PROVE  Holding(r, "slide") /\ req[r].sid = s
    <3>1. ASSUME UNCHANGED <<loop, req>> PROVE Holding(r, "slide") /\ req[r].sid = s
      BY <2>1, <3>1 DEF Holding
    <3>2. ASSUME NEW w \in Reqs, NEW q, Hold(w, q), q.pc # "slide" \/ q.sid # s PROVE FALSE
      BY <2>0, <2>1, <3>2 DEF Holding, Hold
    <3>3. ASSUME NEW w \in Reqs, Finish(w) PROVE FALSE
      BY <2>1, <3>3, ConstantsOK DEF Holding, Finish
    <3>4. ASSUME NEW w \in Reqs, NEW q, Arrive(w, q) PROVE FALSE
      BY <2>1, <3>4, ConstantsOK DEF Holding, Arrive, LoopFree
    <3>5. ASSUME NEW w \in Reqs, NEW z \in Sids, SessionFound(w, z) PROVE FALSE
      BY <2>0, <3>2, <3>5 DEF SessionFound, Idle
    <3>6. ASSUME NEW w \in Reqs,
                 \/ PasswordVerifies(w) \/ SessionSlides(w)
                 \/ \E i \in Ids : \/ SetupInserts(w, i) \/ FirstVerifies(w, i)
                                    \/ LoginVerifies(w, i)
          PROVE  FALSE
      <4>1. CASE PasswordVerifies(w)
        BY <2>0, <3>2, <4>1 DEF PasswordVerifies, Req
      <4>2. CASE SessionSlides(w)
        BY <2>0, <3>2, <4>2 DEF SessionSlides, Req
      <4>3. ASSUME NEW i \in Ids, SetupInserts(w, i) PROVE FALSE
        BY <2>0, <3>2, <4>3 DEF SetupInserts, Req
      <4>4. ASSUME NEW i \in Ids, FirstVerifies(w, i) PROVE FALSE
        BY <3>2, <4>4 DEF FirstVerifies, Idle
      <4>5. ASSUME NEW i \in Ids, LoginVerifies(w, i) PROVE FALSE
        BY <3>2, <4>5 DEF LoginVerifies, Idle
      <4> QED
        BY <3>6, <4>1, <4>2, <4>3, <4>4, <4>5
    <3>7. ASSUME NEW w \in Reqs,
                 \/ SetupBurns(w) \/ TurnsAway(w) \/ Logout(w) \/ PasswordUpdates(w)
                 \/ Refuse(w)
                 \/ \E z \in Sids : LoginInserts(w, z)
                 \/ \E t \in Tids : \/ TokensDelete(w, t)
                                    \/ \E kind \in {"user", "admin"} : TokensCreate(w, t, kind)
                 \/ \E i \in Ids : UsersDelete(w, i)
                 \/ \E i \in Ids, flag \in BOOLEAN :
                       \/ UsersCreate(w, i, flag) \/ UsersSetAdmin(w, i, flag)
                       \/ UsersSetPassword(w, i, flag) \/ UsersSetMust(w, i, flag)
          PROVE  FALSE
      <4>1. Finish(w)
        BY <3>7 DEF SetupBurns, TurnsAway, Logout, PasswordUpdates, Refuse, LoginInserts,
           TokensCreate, TokensDelete, UsersDelete, UsersCreate, UsersSetAdmin,
           UsersSetPassword, UsersSetMust
      <4> QED
        BY <3>3, <4>1
    <3>8. ASSUME NEW w \in Reqs, NEW pc \in {"manage", "password", "remove"}, Admits(w, pc)
          PROVE  FALSE
      BY <2>0, <2>1, <3>8, ConstantsOK DEF Admits, Holding, Idle
    <3>9. CASE RequestStep
      BY <3>1, <3>4, <3>5, <3>6, <3>7, <3>8, <3>9 DEF RequestStep, SetupArrives,
         TokenArrives, LogoutExpired, sched
    <3>10. ~Stop
      BY <2>1, ConstantsOK DEF Stop, Holding
    <3>11. CASE OtherStep \/ RevokeStep
      BY <3>1, <3>10, <3>11 DEF OtherStep, RevokeStep, CliCreateAdmin, CliRotate,
         BotCreate, BotLooks, BotDeletes, OperatorDropsAdmin, Expire, PruneSessions, Boot,
         sched
    <3> QED
      BY <3>9, <3>11 DEF Next
  <2>2. ASSUME session'[s].st = "expired" PROVE Goal
    BY <2>1, <2>2 DEF Dead
  <2>3. ASSUME session'[s] \in {session[s], NoSession} PROVE Goal
    BY <2>0, <2>2, <2>3
  <2>4. ASSUME NEW r \in Reqs, NEW z \in Sids, LoginInserts(r, z) PROVE Goal
    BY <2>0, <2>3, <2>4 DEF LoginInserts, NoSession
  <2>5. ASSUME NEW r \in Reqs, SessionSlides(r) PROVE Goal
    <3>1. CASE session' = session
      BY <2>3, <3>1
    <3>2. ASSUME NEW z \in Sids, Holding(r, "slide"), req[r].sid = z,
                 session' = [session EXCEPT ![z].st = "fresh"]
          PROVE  Goal
      <4>1. z # s
        BY <3>2 DEF Dead
      <4> QED
        BY <2>0, <2>3, <3>2, <4>1
    <3> QED
      BY <2>5, <3>1, <3>2, SlideFacts
  <2>6. ASSUME NEW i \in Ids, session' = Cascade(i) PROVE Goal
    BY <2>3, <2>6 DEF Cascade
  <2>7. ASSUME (\E z \in Sids : LogoutExpired(z)) \/ \E r \in Reqs : Logout(r) PROVE Goal
    BY <2>0, <2>3, <2>7 DEF Logout, LogoutExpired
  <2>8. ASSUME NEW z \in Sids, Expire(z) PROVE Goal
    BY <2>0, <2>3, <2>8 DEF Expire
  <2>9. ASSUME PruneSessions PROVE Goal
    BY <2>0, <2>3, <2>9 DEF PruneSessions
  <2>10. ASSUME NEW r \in Reqs,
               \/ PasswordUpdates(r)
               \/ \E i \in Ids : SetupInserts(r, i)
               \/ \E i \in Ids, flag \in BOOLEAN :
                     \/ UsersCreate(r, i, flag) \/ UsersSetAdmin(r, i, flag)
                     \/ UsersSetPassword(r, i, flag) \/ UsersSetMust(r, i, flag)
        PROVE  session' = session
    BY <2>10 DEF PasswordUpdates, SetupInserts, UsersCreate, UsersSetAdmin,
       UsersSetPassword, UsersSetMust
  <2>11. CASE RequestStep
    BY <2>3, <2>4, <2>5, <2>6, <2>7, <2>10, <2>11, QuietSteps DEF RequestStep, UsersDelete
  <2>12. CASE OtherStep
    BY <2>3, <2>6, <2>8, <2>9, <2>12 DEF OtherStep, CliCreateAdmin, CliRotate, BotCreate,
       OperatorDropsAdmin, Boot, Stop, tables
  <2>13. CASE RevokeStep
    BY <2>3, <2>6, <2>13, RevokeFacts DEF RevokeStep, BotLooks, tables
  <2> QED
    BY <2>11, <2>12, <2>13 DEF Next
<1>4. [][All]_vars => ExpiredStaysDead
  BY PTL DEF ExpiredStaysDead
<1> QED
  BY <1>1, <1>2, <1>3, <1>4, PTL DEF Spec
---------------------------------------------------------------------------
(* Machine tokens.                                                          *)

\* Whoever manages came in with the session of an account: the one place where
\* a request comes to manage with a token is behind a right that no token has,
\* an administrator's included.
ManageInv ==
    \A r \in Reqs : req[r].pc \in {"manage", "remove"} =>
        req[r].via = "session" /\ req[r].actor \in Ids

LEMMA ManageStep ==
  ASSUME TypeInv, ManageInv, [Next]_vars
  PROVE  ManageInv'
<1>0. req \in [Reqs -> Req]
  BY DEF TypeInv, SchedInv
<1>1. ASSUME UNCHANGED req PROVE ManageInv'
  BY <1>1 DEF ManageInv
<1>2. ASSUME NEW w \in Reqs, NEW q, req' = [req EXCEPT ![w] = q],
             q.pc \in {"manage", "remove"} => q.via = "session" /\ q.actor \in Ids
      PROVE  ManageInv'
  BY <1>0, <1>2 DEF ManageInv
<1>3. ASSUME NEW w \in Reqs, Finish(w) PROVE ManageInv'
  BY <1>2, <1>3 DEF Finish, Idle
<1>4. ASSUME NEW w \in Reqs, NEW t \in Tids, TokenArrives(w, t) PROVE ManageInv'
  <2>1. ~CanManage(token[t] = "admin", "token")
    BY DEF CanManage
  <2> QED
    BY <1>1, <1>4, <2>1 DEF TokenArrives, sched
<1>5. ASSUME NEW w \in Reqs,
             SetupArrives(w) \/ \E pc \in {"manage", "password", "remove"} : Admits(w, pc)
      PROVE  ManageInv'
  <2>1. ASSUME SetupArrives(w) PROVE ManageInv'
    BY <1>2, <2>1 DEF SetupArrives, Arrive, Idle
  <2>2. ASSUME NEW pc \in {"manage", "password", "remove"}, Admits(w, pc) PROVE ManageInv'
    <3> DEFINE q == [Idle EXCEPT !.pc = pc, !.actor = req[w].actor, !.via = "session"]
    <3>1. req[w].actor \in Ids
      BY <2>2 DEF Admits, Holding, TypeInv, SchedInv, Known
    <3>2. q.via = "session" /\ q.actor \in Ids
      BY <3>1 DEF Idle
    <3>3. req' = [req EXCEPT ![w] = q]
      BY <2>2 DEF Admits
    <3> QED
      BY <1>2, <3>2, <3>3
  <2> QED
    BY <1>5, <2>1, <2>2
<1>6. ASSUME NEW w \in Reqs,
             \/ PasswordVerifies(w) \/ SessionSlides(w)
             \/ \E s \in Sids : SessionFound(w, s)
             \/ \E i \in Ids : SetupInserts(w, i) \/ LoginVerifies(w, i) \/ FirstVerifies(w, i)
      PROVE  ManageInv'
  <2>1. ASSUME NEW q, Hold(w, q), q.pc \notin {"manage", "remove"} PROVE ManageInv'
    BY <1>2, <2>1 DEF Hold
  <2>2. ASSUME PasswordVerifies(w) \/ SessionSlides(w) PROVE ManageInv'
    BY <1>0, <2>1, <2>2 DEF PasswordVerifies, SessionSlides, Req
  <2>3. ASSUME NEW i \in Ids, SetupInserts(w, i) PROVE ManageInv'
    BY <1>0, <2>1, <2>3 DEF SetupInserts, Req
  <2>4. ASSUME \/ \E i \in Ids : LoginVerifies(w, i) \/ FirstVerifies(w, i)
               \/ \E s \in Sids : SessionFound(w, s)
        PROVE  ManageInv'
    BY <2>1, <2>4 DEF LoginVerifies, FirstVerifies, SessionFound, Idle
  <2> QED
    BY <1>6, <2>2, <2>3, <2>4
<1>7. ASSUME NEW w \in Reqs,
             \/ SetupBurns(w) \/ TurnsAway(w) \/ Logout(w) \/ PasswordUpdates(w)
             \/ Refuse(w)
             \/ \E s \in Sids : LoginInserts(w, s)
             \/ \E t \in Tids : \/ TokensDelete(w, t)
                                 \/ \E kind \in {"user", "admin"} : TokensCreate(w, t, kind)
             \/ \E i \in Ids : UsersDelete(w, i)
             \/ \E i \in Ids, flag \in BOOLEAN :
                   \/ UsersCreate(w, i, flag) \/ UsersSetAdmin(w, i, flag)
                   \/ UsersSetPassword(w, i, flag) \/ UsersSetMust(w, i, flag)
      PROVE  ManageInv'
  <2>1. Finish(w)
    BY <1>7 DEF SetupBurns, TurnsAway, Logout, PasswordUpdates, Refuse, LoginInserts,
       TokensCreate, TokensDelete, UsersDelete, UsersCreate, UsersSetAdmin,
       UsersSetPassword, UsersSetMust
  <2> QED
    BY <1>3, <2>1
<1>8. ASSUME NEW s \in Sids, LogoutExpired(s) PROVE ManageInv'
  BY <1>1, <1>8 DEF LogoutExpired, sched
<1>9. ASSUME Stop PROVE ManageInv'
  BY <1>9 DEF Stop, Idle, ManageInv
<1>10. ASSUME RequestStep PROVE ManageInv'
  BY <1>4, <1>5, <1>6, <1>7, <1>8, <1>10 DEF RequestStep
<1>11. ASSUME OtherStep \/ RevokeStep PROVE ManageInv'
  BY <1>1, <1>9, <1>11 DEF OtherStep, RevokeStep, CliCreateAdmin, CliRotate, BotCreate,
     BotLooks, BotDeletes, OperatorDropsAdmin, Expire, PruneSessions, Boot, sched
<1> QED
  BY <1>1, <1>10, <1>11 DEF Next, vars, sched

\* No request that got in with a machine token ever holds the right to manage.
THEOREM MachinesNeverManage == Spec => []TokensNeverManage
<1>1. Init => TypeInv /\ ManageInv
  BY InitType DEF Init, ManageInv, Idle
<1>2. TypeInv /\ ManageInv /\ [Next]_vars => (TypeInv /\ ManageInv)'
  BY NextType, ManageStep
<1>3. ManageInv => TokensNeverManage
  BY DEF ManageInv, TokensNeverManage
<1> QED
  BY <1>1, <1>2, <1>3, PTL DEF Spec
---------------------------------------------------------------------------
(* The last administrator.                                                  *)

\* Only accounts that exist are administrators.
AdminInv == TypeInv /\ ManageInv /\ \A i \in Ids : user[i].admin => Live(i)

\* What the handlers and the other processes do to a row
LEMMA RowMoves ==
  ASSUME TypeInv, [Next]_vars
  PROVE  \/ user' = user
         \/ \E i \in Ids : user' = [user EXCEPT ![i] = user'[i]] /\
               \/ user[i].st = "unused" /\ user'[i].st = "live"
               \/ BotDeletes /\ bot = i
               \/ OperatorDropsAdmin(i) \/ \E r \in Reqs : UsersDelete(r, i)
               \/ user'[i].st = user[i].st /\ user'[i].admin = user[i].admin
               \/ \E r \in Reqs, flag \in BOOLEAN : UsersSetAdmin(r, i, flag)
<1>0. user \in [Ids -> User]
  BY DEF TypeInv, RowInv
<1> DEFINE Moved(i) == user' = [user EXCEPT ![i] = user'[i]] /\
               \/ user[i].st = "unused" /\ user'[i].st = "live"
               \/ BotDeletes /\ bot = i
               \/ OperatorDropsAdmin(i) \/ \E r \in Reqs : UsersDelete(r, i)
               \/ user'[i].st = user[i].st /\ user'[i].admin = user[i].admin
               \/ \E r \in Reqs, flag \in BOOLEAN : UsersSetAdmin(r, i, flag)
           Goal == user' = user \/ \E i \in Ids : Moved(i)
<1>1. ASSUME NEW r \in Reqs, NEW i \in Ids, NEW flag \in BOOLEAN,
             \/ SetupInserts(r, i) \/ UsersCreate(r, i, flag)
             \/ UsersSetAdmin(r, i, flag) \/ UsersSetMust(r, i, flag)
      PROVE  Moved(i)
  BY <1>0, <1>1 DEF SetupInserts, UsersCreate, UsersSetAdmin, UsersSetMust, User
<1>2. ASSUME NEW i \in Ids, NEW must, user' = WithPassword(i, must) PROVE Goal
  <2>1. CASE user' = user
    BY <2>1
  <2>2. CASE user' = [user EXCEPT ![i].pw = @ + 1, ![i].must = must]
    <3>1. Moved(i)
      BY <1>0, <2>2 DEF User
    <3> QED
      BY <3>1
  <2> QED
    BY <1>2, <2>1, <2>2 DEF WithPassword
<1>3. ASSUME NEW r \in Reqs, PasswordUpdates(r) PROVE Goal
  <2>1. req[r].actor \in Ids
    BY <1>3 DEF PasswordUpdates, Holding, TypeInv, SchedInv, Known
  <2> QED
    BY <1>2, <1>3, <2>1 DEF PasswordUpdates
<1>4. ASSUME NEW r \in Reqs, NEW i \in Ids, NEW flag \in BOOLEAN, UsersSetPassword(r, i, flag)
      PROVE  Goal
  BY <1>2, <1>4 DEF UsersSetPassword
<1>5. ASSUME NEW i \in Ids,
             \/ CliCreateAdmin(i) \/ CliRotate(i) \/ BotCreate(i)
             \/ OperatorDropsAdmin(i) \/ \E r \in Reqs : UsersDelete(r, i)
      PROVE  Moved(i)
  BY <1>0, <1>5 DEF CliCreateAdmin, CliRotate, BotCreate, OperatorDropsAdmin,
     UsersDelete, User
<1>6. ASSUME NEW r \in Reqs,
             SessionSlides(r) \/ Logout(r) \/ \E s \in Sids : LoginInserts(r, s)
      PROVE  user' = user
  BY <1>6 DEF SessionSlides, Logout, LoginInserts
<1>7. ASSUME NEW s \in Sids, LogoutExpired(s) PROVE user' = user
  BY <1>7 DEF LogoutExpired
<1>8. CASE RequestStep
  BY ZenonT(80), <1>1, <1>3, <1>4, <1>5, <1>6, <1>7, <1>8, QuietSteps DEF RequestStep
<1>9. CASE OtherStep
  BY <1>5, <1>9 DEF OtherStep, Expire, PruneSessions, Boot, Stop, tables
<1>10. CASE RevokeStep
  <2>1. CASE BotDeletes
    BY <1>0, <2>1, RevokeFacts
  <2> QED
    BY <1>10, <2>1 DEF RevokeStep, BotLooks, tables
<1> QED
  BY <1>8, <1>9, <1>10 DEF Next, vars, tables

LEMMA AdminStep ==
  ASSUME AdminInv, [Next]_vars
  PROVE  AdminInv'
<1>0. TypeInv' /\ ManageInv' /\ user \in [Ids -> User]
  BY NextType, ManageStep DEF AdminInv, TypeInv, RowInv
<1>1. ASSUME NEW k \in Ids, user'[k].admin PROVE user'[k].st = "live"
  <2>1. user[k].admin => user[k].st = "live"
    BY DEF AdminInv, Live
  <2>2. ASSUME NEW i \in Ids, user' = [user EXCEPT ![i] = user'[i]],
               \/ user[i].st = "unused" /\ user'[i].st = "live"
               \/ user'[i].st = user[i].st /\ user'[i].admin = user[i].admin
        PROVE  user'[k].st = "live"
    BY <1>0, <1>1, <2>1, <2>2
  <2>4. ASSUME NEW i \in Ids,
               \/ BotDeletes /\ bot = i
               \/ OperatorDropsAdmin(i) \/ \E r \in Reqs : UsersDelete(r, i)
        PROVE  user'[k].st = "live"
    BY <1>0, <1>1, <2>1, <2>4 DEF BotDeletes, OperatorDropsAdmin, UsersDelete, NewUser
  <2>3. ASSUME NEW i \in Ids, NEW r \in Reqs, NEW flag \in BOOLEAN, UsersSetAdmin(r, i, flag)
        PROVE  user'[k].st = "live"
    BY <1>0, <1>1, <2>1, <2>3 DEF UsersSetAdmin, Live, User
  <2> QED
    BY <1>1, <2>1, <2>2, <2>3, <2>4, RowMoves DEF AdminInv
<1> QED
  BY <1>0, <1>1 DEF AdminInv, Live

\* However requests overlap, the last administrator goes while the daemon runs
\* only by a request that was let in by an administrator who is none any more, or
\* by a revoke whose account was promoted since the bot looked at it.
THEOREM LastAdminIsKept == Spec => LastAdminStays
<1> DEFINE Kept == up /\ AdminExists =>
                      \/ AdminExists'
                      \/ \E r \in Reqs : Overtaken(r) /\ req'[r] = Idle
                      \/ Promoted /\ bot' = Nobody
<1>1. Init => AdminInv
  BY InitType DEF Init, AdminInv, ManageInv, Idle, NewUser
<1>2. AdminInv /\ [Next]_vars => AdminInv'
  BY AdminStep
<1>3. AdminInv /\ [Next]_vars => [Kept]_vars
  <2> SUFFICES ASSUME AdminInv, Next, up, AdminExists,
                      ~\E r \in Reqs : Overtaken(r) /\ req'[r] = Idle,
                      ~(Promoted /\ bot' = Nobody)
               PROVE  AdminExists'
    BY DEF vars
  <2>0. user \in [Ids -> User] /\ TypeInv /\ req \in [Reqs -> Req]
    BY DEF AdminInv, TypeInv, RowInv, SchedInv
  <2>1. PICK a \in Ids : Live(a) /\ user[a].admin
    BY DEF AdminExists
  <2>2. ASSUME NEW k \in Ids, Live(k), user[k].admin, user'[k] = user[k] PROVE AdminExists'
    BY <2>2 DEF AdminExists, Live
  <2>3. ASSUME NEW i \in Ids, NEW r \in Reqs, NEW flag \in BOOLEAN, UsersSetAdmin(r, i, flag)
        PROVE  AdminExists'
    <3>1. req[r].pc = "manage" /\ req[r].actor # i
      BY <2>3 DEF UsersSetAdmin, Resumed
    <3>2. req'[r] = Idle
      BY <2>0, <2>3 DEF UsersSetAdmin, Finish
    <3>3. req[r].actor \in Ids /\ Live(req[r].actor) /\ user[req[r].actor].admin
      BY <3>1, <3>2 DEF AdminInv, ManageInv, Overtaken
    <3>4. user'[req[r].actor] = user[req[r].actor]
      BY <2>0, <2>3, <3>1, <3>3 DEF UsersSetAdmin
    <3> QED
      BY <2>2, <3>3, <3>4
  <2>4. ASSUME NEW i \in Ids, NEW r \in Reqs, UsersDelete(r, i) PROVE AdminExists'
    <3>1. req[r].pc = "remove" /\ req[r].actor # i
      BY <2>4 DEF UsersDelete, Holding
    <3>2. req'[r] = Idle
      BY <2>0, <2>4 DEF UsersDelete, Finish
    <3>3. req[r].actor \in Ids /\ Live(req[r].actor) /\ user[req[r].actor].admin
      BY <3>1, <3>2 DEF AdminInv, ManageInv, Overtaken
    <3>4. user'[req[r].actor] = user[req[r].actor]
      BY <2>0, <2>4, <3>1, <3>3 DEF UsersDelete
    <3> QED
      BY <2>2, <3>3, <3>4
  <2>5. ASSUME BotDeletes PROVE AdminExists'
    <3>1. ~user[bot].admin
      BY <2>0, <2>5, RevokeFacts DEF Promoted
    <3>2. user'[a] = user[a]
      BY <2>0, <2>1, <2>5, <3>1, RevokeFacts
    <3> QED
      BY <2>1, <2>2, <3>2
  <2>6. ASSUME NEW i \in Ids, user' = [user EXCEPT ![i] = user'[i]],
               \/ user[i].st = "unused" /\ user'[i].st = "live"
               \/ user'[i].st = user[i].st /\ user'[i].admin = user[i].admin
        PROVE  AdminExists'
    <3>1. user'[a].st = "live" /\ user'[a].admin
      BY <2>0, <2>1, <2>6 DEF Live
    <3> QED
      BY <3>1 DEF AdminExists, Live
  <2>7. ASSUME NEW i \in Ids, OperatorDropsAdmin(i) PROVE AdminExists'
    BY <2>7 DEF OperatorDropsAdmin
  <2>8. ASSUME user' = user PROVE AdminExists'
    BY <2>1, <2>2, <2>8
  <2> QED
    BY <2>0, <2>3, <2>4, <2>5, <2>6, <2>7, <2>8, RowMoves
<1>4. [][Kept]_vars => LastAdminStays
  BY PTL DEF LastAdminStays
<1> QED
  BY <1>1, <1>2, <1>3, <1>4, PTL DEF Spec
---------------------------------------------------------------------------
(* Sessions and rotated passwords.                                          *)

\* Whatever resets, rotations and logins do, a session gets behind its account's
\* last rotation only when its login had verified the old password before.
THEOREM OnlyLoginsOutrunRotation == Spec => RotationRevokes
<1> DEFINE Kept(s) == Stale(s)' => Stale(s) \/ \E r \in Reqs : Outruns(r, s)
           All == \A s \in Sids : Kept(s)
<1>1. Init => SessionInv
  BY InitType DEF Init, SessionInv, SessionsHaveUsers, NoSession
<1>2. SessionInv /\ [Next]_vars => SessionInv'
  BY SessionStep
<1>3. SessionInv /\ [Next]_vars => [All]_vars
  <2> SUFFICES ASSUME SessionInv, Next PROVE All
    BY DEF vars
  <2>0. TypeInv /\ RowInv /\ user \in [Ids -> User] /\ session \in [Sids -> Session]
    BY DEF SessionInv, TypeInv, RowInv
  <2>a. ASSUME NEW s \in Sids, session[s].st # "none"
        PROVE  session[s].owner \in Ids /\ user[session[s].owner].st \in {"live", "dropped"}
    BY <2>0, <2>a, OwnerIsAccount DEF SessionInv, SessionsHaveUsers
  \* No session is new, and no account of one comes back or is rotated.
  <2>1. ASSUME NEW s \in Sids,
               session'[s].st # "none" =>
                  /\ session[s].st # "none" /\ session'[s].owner = session[s].owner
                  /\ session'[s].pw = session[s].pw,
               \A k \in Ids : user[k].st \in {"live", "dropped"} /\ user'[k].st = "live" =>
                  user[k].st = "live" /\ user'[k].floor = user[k].floor
        PROVE  Kept(s)
    BY <2>a, <2>1 DEF Stale, Live
  <2>2. ASSUME user' = user,
               \A s \in Sids : session'[s].st # "none" =>
                  /\ session[s].st # "none" /\ session'[s].owner = session[s].owner
                  /\ session'[s].pw = session[s].pw
        PROVE  All
    BY <2>1, <2>2
  <2>3. ASSUME session' = session,
               \A k \in Ids : user[k].st \in {"live", "dropped"} /\ user'[k].st = "live" =>
                  user[k].st = "live" /\ user'[k].floor = user[k].floor
        PROVE  All
    BY <2>1, <2>3
  <2>4. ASSUME NEW i \in Ids, NEW row \in User, user' = [user EXCEPT ![i] = row],
               session' = Cascade(i)
        PROVE  All
    <3>1. ASSUME NEW s \in Sids, session'[s].st # "none"
          PROVE  session'[s] = session[s] /\ session[s].owner # i /\ session[s].owner \in Ids
      BY <2>a, <2>4, <3>1 DEF Cascade, NoSession
    <3> QED
      BY <2>0, <2>4, <3>1 DEF Stale, Live
  <2>5. ASSUME NEW r \in Reqs, NEW z \in Sids, LoginInserts(r, z) PROVE All
    <3>1. ASSUME NEW s \in Sids, s # z PROVE Kept(s)
      BY <2>0, <2>5, <3>1 DEF LoginInserts, Stale, Live
    <3>2. Outruns(r, z) \/ session' = session
      BY <2>5 DEF LoginInserts, Outruns
    <3>3. user' = user
      BY <2>5 DEF LoginInserts
    <3> QED
      BY <3>1, <3>2, <3>3 DEF Stale, Live
  <2>6. ASSUME NEW s \in Sids, NEW st \in {"fresh", "expired"}, session[s].st # "none",
               user' = user, session' = [session EXCEPT ![s].st = st]
        PROVE  All
    BY <2>0, <2>2, <2>6 DEF Session
  <2>7. ASSUME user' = user, \A s \in Sids : session'[s] \in {session[s], NoSession} PROVE All
    BY <2>2, <2>7 DEF NoSession
  <2>18. ASSUME UNCHANGED <<user, session>> PROVE All
    BY <2>7, <2>18
  <2>8. ASSUME NEW i \in Ids, NEW must, session' = session, user' = WithPassword(i, must)
        PROVE  All
    <3>1. \A k \in Ids : user'[k].st = user[k].st /\ user'[k].floor = user[k].floor
      BY <2>0, <2>8 DEF WithPassword, User
    <3> QED
      BY <2>3, <2>8, <3>1
  <2>9. ASSUME NEW r \in Reqs, PasswordUpdates(r) PROVE All
    <3>1. req[r].actor \in Ids
      BY <2>0, <2>9 DEF PasswordUpdates, Holding, TypeInv, SchedInv, Known
    <3> QED
      BY <2>8, <2>9, <3>1 DEF PasswordUpdates
  <2>10. ASSUME NEW r \in Reqs, NEW i \in Ids, NEW flag \in BOOLEAN,
                UsersSetPassword(r, i, flag)
         PROVE  All
    BY <2>8, <2>10 DEF UsersSetPassword
  <2>11. ASSUME NEW r \in Reqs, NEW i \in Ids, NEW flag \in BOOLEAN,
                \/ SetupInserts(r, i) \/ UsersCreate(r, i, flag)
                \/ UsersSetAdmin(r, i, flag) \/ UsersSetMust(r, i, flag)
         PROVE  All
    <3>1. session' = session
      BY <2>11 DEF SetupInserts, UsersCreate, UsersSetAdmin, UsersSetMust
    <3>2. \A k \in Ids : user[k].st \in {"live", "dropped"} /\ user'[k].st = "live" =>
             user[k].st = "live" /\ user'[k].floor = user[k].floor
      BY <2>0, <2>11 DEF SetupInserts, UsersCreate, UsersSetAdmin, UsersSetMust, Live, User
    <3> QED
      BY <2>3, <3>1, <3>2
  <2>12. ASSUME NEW i \in Ids, CliCreateAdmin(i) \/ BotCreate(i) \/ OperatorDropsAdmin(i)
         PROVE  All
    <3>1. session' = session
      BY <2>12 DEF CliCreateAdmin, BotCreate, OperatorDropsAdmin
    <3>2. \A k \in Ids : user[k].st \in {"live", "dropped"} /\ user'[k].st = "live" =>
             user[k].st = "live" /\ user'[k].floor = user[k].floor
      BY <2>0, <2>12 DEF CliCreateAdmin, BotCreate, OperatorDropsAdmin, NewUser, User
    <3> QED
      BY <2>3, <3>1, <3>2
  <2>13. ASSUME NEW i \in Ids, CliRotate(i) \/ \E r \in Reqs : UsersDelete(r, i)
         PROVE  All
    <3>1. user' = [user EXCEPT ![i] = user'[i]] /\ session' = Cascade(i)
      BY <2>0, <2>13 DEF CliRotate, UsersDelete
    <3>2. user'[i] \in User
      BY <2>0, NextType DEF TypeInv, RowInv
    <3> QED
      BY <2>4, <3>1, <3>2
  <2>14. ASSUME NEW r \in Reqs, SessionSlides(r) PROVE All
    BY <2>0, <2>6, <2>14, <2>18, SlideFacts
  <2>15. ASSUME (\E s \in Sids : LogoutExpired(s)) \/ \E r \in Reqs : Logout(r) PROVE All
    BY <2>0, <2>7, <2>15 DEF Logout, LogoutExpired
  <2>16. ASSUME NEW s \in Sids, Expire(s) PROVE All
    BY <2>6, <2>16 DEF Expire
  <2>17. ASSUME PruneSessions PROVE All
    BY <2>7, <2>17 DEF PruneSessions
  <2>19. ASSUME RevokeStep PROVE All
    <3>1. CASE BotDeletes
      <4>1. user'[bot] \in User /\ bot \in Ids
        BY <2>0, <3>1, NextType, RevokeFacts DEF TypeInv, RowInv
      <4>2. user' = [user EXCEPT ![bot] = user'[bot]]
        BY <2>0, <3>1, <4>1, RevokeFacts
      <4> QED
        BY <2>0, <2>4, <3>1, <4>1, <4>2, RevokeFacts
    <3> QED
      BY <2>18, <2>19, <3>1 DEF RevokeStep, BotLooks, tables
  <2>20. CASE RequestStep
    BY <2>5, <2>9, <2>10, <2>11, <2>13, <2>14, <2>15, <2>18, <2>20, QuietSteps DEF RequestStep
  <2>21. CASE OtherStep
    <3>1. ASSUME Boot \/ Stop PROVE UNCHANGED <<user, session>>
      BY <3>1 DEF Boot, Stop, tables
    <3> QED
      BY <2>12, <2>13, <2>16, <2>17, <2>18, <2>21, <3>1 DEF OtherStep
  <2> QED
    BY <2>19, <2>20, <2>21 DEF Next
<1>4. [][All]_vars => RotationRevokes
  BY PTL DEF RotationRevokes
<1> QED
  BY <1>1, <1>2, <1>3, <1>4, PTL DEF Spec
============================================================================
