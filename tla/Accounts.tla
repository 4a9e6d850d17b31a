------------------------------ MODULE Accounts ------------------------------
(***************************************************************************)
(* Users, their sessions, invitation codes, captchas and the login throttle:  *)
(* api/auth, api/account, api/users and api/invitations with the services     *)
(* and repositories behind them.                                             *)
(*                                                                         *)
(* An endpoint is a plain function that a worker thread of the server runs    *)
(* with a database session of its own.  It reads first (who is calling, the   *)
(* row the request is about, whatever the service checks) and writes last;    *)
(* the reads take no snapshot and lock nothing, the writes from the first one *)
(* to the commit hold the write lock of the database.  So a request is two    *)
(* steps, Begin and one of the writes, and everything it read may be stale    *)
(* when it writes.  Only a registration takes the lock before it reads.       *)
(* The attempts to log in or to register take further steps, one for each     *)
(* visit to the throttle and to the captchas, which live in memory.           *)
(*                                                                         *)
(* The module is open: Begin is told the row that an operation loads, and     *)
(* ApiAccess adds the operations on keys, models and configurations to the    *)
(* same threads and sessions.                                              *)
(***************************************************************************)
EXTENDS Naturals, FiniteSets

CONSTANTS
  Users,        \* user names, those not taken yet included
  Emails,       \* e-mail addresses
  Threads,      \* worker threads of the server
  Codes,        \* invitation codes
  Captchas,     \* captcha tokens
  MaxFailures,  \* failures in the window of the throttle (_MAX_FAILURES)
  MaxSessions,  \* bound: sessions ever created
  MaxUses,      \* bound: uses an invitation code can be given
  None,
  Scenarios     \* the databases and the sets of operations to explore

ASSUME AccountsAssumption ==
  /\ MaxFailures \in Nat \ {0} /\ MaxSessions \in Nat /\ MaxUses \in Nat \ {0}
  /\ None \notin Users \cup Emails \cup Threads \cup Codes \cup Captchas
  /\ IsFiniteSet(Threads) /\ IsFiniteSet(Users)

Passwords == {"own", "new", "temporary"}
SessionIds == 1 .. MaxSessions

(* The columns of users, auth_sessions and invitation_codes; an unused name,  *)
(* id or code is a row with exists FALSE or, for a session, without a user.   *)
UserRows ==
  [exists : BOOLEAN, admin : BOOLEAN, active : BOOLEAN, password : Passwords,
   weak : BOOLEAN, change : BOOLEAN, email : Emails \cup {None}, via : Codes \cup {None}]

SessionRows == [user : Users \cup {None}, live : BOOLEAN]

CodeRows ==
  [exists : BOOLEAN, revoked : BOOLEAN, expired : BOOLEAN,
   max : 0 .. MaxUses, used : 0 .. MaxUses]

(* email is UNIQUE and may be NULL.                                        *)
UserTableOK(users) ==
  /\ users \in [Users -> UserRows]
  /\ \A u \in Users : ~users[u].exists => ~users[u].active /\ users[u].email = None
  /\ \A u, v \in Users : users[u].email # None /\ users[u].email = users[v].email => u = v

SessionTableOK(sessions) ==
  /\ sessions \in [SessionIds -> SessionRows]
  /\ \A s \in SessionIds : sessions[s].live => sessions[s].user # None

CountsUses(users, codes) ==
  /\ \A c \in Codes :
       /\ codes[c].used = Cardinality({u \in Users : users[u].via = c})
       /\ codes[c].used <= codes[c].max
  /\ \A u \in Users : ~users[u].exists => users[u].via = None

(* The databases to start from: a code that does not exist counts no user.    *)
ASSUME ScenariosAreAccounts ==
  \A s \in Scenarios :
    /\ s.requests \in Nat
    /\ UserTableOK(s.user) /\ SessionTableOK(s.session) /\ s.code \in [Codes -> CodeRows]
    /\ \A c \in Codes : ~s.code[c].exists => s.code[c].used = 0
    /\ CountsUses(s.user, s.code)

VARIABLES
  ops,      \* the operations this behaviour explores (fixed)
  left,     \* bound: requests still to come
  user,     \* users: name -> row
  session,  \* auth_sessions: id -> row
  code,     \* invitation_codes: code -> row
  failures, \* _failures of the throttle: name -> stamps inside the window
  captcha,  \* _store of the captchas: token -> "unissued", "pending" or "gone"
  passed,   \* history: token -> attempts that went past it
  request   \* what each thread is doing

accountVars == <<ops, left, user, session, code, failures, captcha, passed, request>>

UserOps == {"profile", "password", "forced"}
AdminOps == {"create", "disable", "enable", "reset",
             "invite", "reinvite", "revoke", "uninvite"}

NoUser == [exists |-> FALSE, admin |-> FALSE, active |-> FALSE, password |-> "own",
           weak |-> FALSE, change |-> FALSE, email |-> None, via |-> None]
NoSession == [user |-> None, live |-> FALSE]
NoCode == [exists |-> FALSE, revoked |-> FALSE, expired |-> FALSE, max |-> 0, used |-> 0]

(* What a thread is doing: the operation, the session it came with, the row   *)
(* it is about, that row as it was read, and what else the step carries: a    *)
(* captcha, the active administrators, the address asked for.                *)
Idle == [pc |-> "idle", op |-> None, by |-> None, arg |-> None, seen |-> None,
         note |-> None]

At(t, pc, op) == request[t].pc = pc /\ request[t].op = op
Done(t) == request' = [request EXCEPT ![t] = Idle]
Goto(t, pc) == request' = [request EXCEPT ![t].pc = pc]

LiveSessions == {s \in SessionIds : session[s].live}
ActiveAdmins == {u \in Users : user[u].exists /\ user[u].admin /\ user[u].active}
Taken(e) == e # None /\ \E u \in Users : user[u].exists /\ user[u].email = e

AccountsInit ==
  /\ failures = [u \in Users |-> 0]
  /\ captcha = [c \in Captchas |-> "unissued"]
  /\ passed = [c \in Captchas |-> 0]
  /\ request = [t \in Threads |-> Idle]

----------------------------------------------------------------------------
(* The throttle and the captchas, each behind a lock of its own.             *)

\* mutant: the comparison of allow() is off by one
MutAllows(u) == failures[u] <= MaxFailures

Allows(u) == failures[u] < MaxFailures

(* POST /auth/login and /auth/register ask the throttle first.               *)
Attempt(t, op, u) ==
  /\ request[t].pc = "idle" /\ left > 0 /\ op \in ops /\ Allows(u)
  /\ left' = left - 1
  /\ request' = [request EXCEPT ![t] = [Idle EXCEPT !.pc = "captcha", !.op = op,
                                                    !.arg = u]]
  /\ UNCHANGED <<ops, user, session, code, failures, captcha, passed>>

(* The oldest failure leaves the window of sixty seconds.                    *)
FailureExpires(u) ==
  /\ failures[u] > 0
  /\ failures' = [failures EXCEPT ![u] = @ - 1]
  /\ UNCHANGED <<ops, left, user, session, code, captcha, passed, request>>

(* GET /auth/captcha: a new token is stored; stale ones, and the oldest ones  *)
(* when the table is full, are dropped.                                     *)
IssueCaptcha(c) ==
  /\ captcha[c] = "unissued" /\ ops \cap {"login", "register"} # {}
  /\ \E dropped \in SUBSET {d \in Captchas : captcha[d] = "pending"} :
       captcha' = [d \in Captchas |-> IF d = c THEN "pending"
                                      ELSE IF d \in dropped THEN "gone" ELSE captcha[d]]
  /\ UNCHANGED <<ops, left, user, session, code, failures, passed, request>>

\* mutant: the token is looked up, not popped
MutAfterVerify(c) == captcha[c]

AfterVerify(c) == "gone"

(* verify_captcha pops the token whatever the answer is.                     *)
VerifyCaptcha(t, c, right) ==
  LET good == right /\ captcha[c] = "pending" IN
  /\ request[t].pc = "captcha" /\ captcha[c] # "unissued"
  /\ captcha' = [captcha EXCEPT ![c] = AfterVerify(c)]
  /\ passed' = [passed EXCEPT ![c] = IF good THEN @ + 1 ELSE @]
  /\ Goto(t, IF good THEN "credentials" ELSE "failed")
  /\ UNCHANGED <<ops, left, user, session, code, failures>>

RecordFailure(t) ==
  /\ request[t].pc = "failed"
  /\ failures' = [failures EXCEPT ![request[t].arg] = @ + 1]
  /\ Done(t)
  /\ UNCHANGED <<ops, left, user, session, code, captcha, passed>>

ResetFailures(t) ==
  /\ request[t].pc = "succeeded"
  /\ failures' = [failures EXCEPT ![request[t].arg] = 0]
  /\ Done(t)
  /\ UNCHANGED <<ops, left, user, session, code, captcha, passed>>

----------------------------------------------------------------------------
(* Logging in and out, registering.                                        *)

(* UserService.authenticate reads the user and verifies the password.        *)
Authenticate(t, word) ==
  LET u == request[t].arg IN
  /\ At(t, "credentials", "login")
  /\ request' =
       IF user[u].exists /\ user[u].active /\ user[u].password = word
       THEN [request EXCEPT ![t].pc = "session", ![t].seen = user[u]]
       ELSE [request EXCEPT ![t].pc = "failed"]
  /\ UNCHANGED <<ops, left, user, session, code, failures, captcha, passed>>

(* A hash with weak parameters is replaced by one of the password just given; *)
(* the session is inserted without looking at the user again.                *)
CreateSession(t) ==
  LET u == request[t].arg
      free == {s \in SessionIds : session[s].user = None} IN
  /\ At(t, "session", "login")
  /\ user' = IF request[t].seen.weak
             THEN [user EXCEPT ![u].password = request[t].seen.password, ![u].weak = FALSE]
             ELSE user
  /\ \E s \in free :
       /\ \A r \in free : s <= r
       /\ session' = [session EXCEPT ![s] = [user |-> u, live |-> TRUE]]
  /\ Goto(t, "succeeded")
  /\ UNCHANGED <<ops, left, code, failures, captcha, passed>>

Logout(s) ==
  /\ "logout" \in ops
  /\ session' = [session EXCEPT ![s].live = FALSE]
  /\ UNCHANGED <<ops, left, user, code, failures, captcha, passed, request>>

(* atomic_consume: the conditions of its UPDATE.                             *)
Consumable(c) ==
  code[c].exists /\ ~code[c].revoked /\ ~code[c].expired /\ code[c].used < code[c].max

\* mutant: the consumption is committed before the user is created
MutConsumedBy(c, created) == [code EXCEPT ![c].used = @ + 1]

ConsumedBy(c, created) == [code EXCEPT ![c].used = IF created THEN @ + 1 ELSE @]

(* Users are inserted active, with the role of a user.                       *)
NewUser(word, change, e, c) ==
  [NoUser EXCEPT !.exists = TRUE, !.active = TRUE, !.password = word, !.change = change,
                 !.email = e, !.via = c]

(* The whole registration is one transaction that begins by taking the lock:  *)
(* match the code, consume it, create the user.  A user that cannot be        *)
(* created (the name or the address is taken) takes the consumption back.     *)
Register(t, c, e) ==
  LET u == request[t].arg
      created == ~user[u].exists /\ ~Taken(e) IN
  /\ At(t, "credentials", "register")
  /\ IF Consumable(c)
     THEN /\ code' = ConsumedBy(c, created)
          /\ user' = IF created
                     THEN [user EXCEPT ![u] = NewUser("own", FALSE, e, c)]
                     ELSE user
          /\ IF created THEN Goto(t, "succeeded") ELSE Done(t)
     ELSE /\ Goto(t, "failed")
          /\ UNCHANGED <<user, code>>
  /\ UNCHANGED <<ops, left, session, failures, captcha, passed>>

----------------------------------------------------------------------------
(* Requests that come with a session.                                      *)

(* require_current_user and require_admin: the session is live (the readers   *)
(* take it from LiveSessions), its user is active, a temporary password        *)
(* allows nothing but changing it.                                         *)
Authorized(s, op) ==
  LET u == session[s].user IN
  /\ user[u].active
  /\ user[u].change => op \in {"password", "forced"}
  /\ op \in AdminOps => user[u].admin

Caller(t) == session[request[t].by].user

(* The reads of a request about row x, which is loaded as seen.              *)
Begin(t, op, s, x, seen, note) ==
  /\ request[t].pc = "idle" /\ left > 0 /\ op \in ops /\ Authorized(s, op)
  /\ left' = left - 1
  /\ request' = [request EXCEPT ![t] = [pc |-> "write", op |-> op, by |-> s, arg |-> x,
                                        seen |-> seen, note |-> note]]
  /\ UNCHANGED <<ops, user, session, code, failures, captcha, passed>>

\* mutant: the column is not unique
MutKeepsUnique(u, e) == TRUE

(* The check of update_profile, and UNIQUE again when the row is written.     *)
KeepsUnique(u, e) == Taken(e) => user[u].email = e

(* /account: the row is the caller's.  An address in use is refused.         *)
BeginProfile(t, s, e) ==
  LET u == session[s].user IN
  /\ KeepsUnique(u, e)
  /\ Begin(t, "profile", s, u, user[u], e)

(* The current password is checked against the row that was read; the forced *)
(* change is for those who must change it.                                 *)
BeginPassword(t, s, word) ==
  LET u == session[s].user IN
  user[u].password = word /\ Begin(t, "password", s, u, user[u], None)

BeginForced(t, s) ==
  LET u == session[s].user IN
  user[u].change /\ Begin(t, "forced", s, u, user[u], None)

(* /users                                                                  *)
BeginCreateUser(t, s, u) ==
  ~user[u].exists /\ Begin(t, "create", s, u, None, None)

(* lock_active_admin_ids locks nothing on SQLite: the set may be stale too.   *)
MayDisable(u, caller, admins) ==
  /\ user[u].active /\ u # caller
  /\ user[u].admin => Cardinality(admins) > 1

BeginDisable(t, s, u) ==
  /\ user[u].exists /\ MayDisable(u, session[s].user, ActiveAdmins)
  /\ Begin(t, "disable", s, u, user[u], None)

BeginEnable(t, s, u) ==
  user[u].exists /\ ~user[u].active /\ Begin(t, "enable", s, u, user[u], None)

BeginReset(t, s, u) ==
  user[u].exists /\ ~user[u].admin /\ Begin(t, "reset", s, u, user[u], None)

(* /invitations: the row is loaded; a delete wants it revoked, and a new      *)
(* limit wants it above the uses that were read.                            *)
BeginInvitation(t, s, op, c, max) ==
  /\ IF op = "invite" THEN ~code[c].exists ELSE code[c].exists
  /\ op = "uninvite" => code[c].revoked
  /\ op = "reinvite" => max >= code[c].used
  /\ Begin(t, op, s, c, code[c], max)

----------------------------------------------------------------------------
(* The writes.  An UPDATE of a loaded row names only the attributes that      *)
(* differ from what was loaded.                                            *)

Revoke(u, kept) ==
  [s \in SessionIds |-> IF session[s].user = u /\ s # kept
                        THEN [session[s] EXCEPT !.live = FALSE] ELSE session[s]]

WriteProfile(t) ==
  LET u == request[t].arg  e == request[t].note IN
  /\ At(t, "write", "profile") /\ Done(t)
  /\ user' = IF e # request[t].seen.email /\ KeepsUnique(u, e)
             THEN [user EXCEPT ![u].email = e] ELSE user
  /\ UNCHANGED <<ops, left, session, code, failures, captcha, passed>>

Rewritten(row, seen, word, change) ==
  [row EXCEPT !.password = word, !.weak = FALSE,
              !.change = IF seen.change # change THEN change ELSE @]

ChangePassword(t) ==
  LET u == request[t].arg IN
  /\ At(t, "write", "password") /\ Done(t)
  /\ user' = [user EXCEPT ![u] = Rewritten(@, request[t].seen, "new", FALSE)]
  /\ UNCHANGED <<ops, left, session, code, failures, captcha, passed>>

ForcePassword(t) ==
  LET u == request[t].arg IN
  /\ At(t, "write", "forced") /\ Done(t)
  /\ user' = [user EXCEPT ![u] = Rewritten(@, request[t].seen, "new", FALSE)]
  /\ session' = Revoke(u, request[t].by)
  /\ UNCHANGED <<ops, left, code, failures, captcha, passed>>

ResetPassword(t) ==
  LET u == request[t].arg IN
  /\ At(t, "write", "reset") /\ Done(t)
  /\ user' = [user EXCEPT ![u] = Rewritten(@, request[t].seen, "temporary", TRUE)]
  /\ session' = Revoke(u, None)
  /\ UNCHANGED <<ops, left, code, failures, captcha, passed>>

CreateUser(t) ==
  LET u == request[t].arg IN
  /\ At(t, "write", "create") /\ Done(t)
  /\ user' = IF user[u].exists THEN user
             ELSE [user EXCEPT ![u] = NewUser("temporary", TRUE, None, None)]
  /\ UNCHANGED <<ops, left, session, code, failures, captcha, passed>>

(* The user, the sessions, the keys (ApiAccess), the tasks and the slots      *)
(* (TaskLifecycle) in one transaction.                                     *)
DisableUser(t) ==
  LET u == request[t].arg IN
  /\ At(t, "write", "disable") /\ Done(t)
  /\ user' = [user EXCEPT ![u].active = FALSE]
  /\ session' = Revoke(u, None)
  /\ UNCHANGED <<ops, left, code, failures, captcha, passed>>

EnableUser(t) ==
  /\ At(t, "write", "enable") /\ Done(t)
  /\ user' = [user EXCEPT ![request[t].arg].active = TRUE]
  /\ UNCHANGED <<ops, left, session, code, failures, captcha, passed>>

CreateInvitation(t) ==
  LET c == request[t].arg IN
  /\ At(t, "write", "invite") /\ Done(t)
  /\ code' = IF code[c].exists THEN code
             ELSE [code EXCEPT ![c] = [NoCode EXCEPT !.exists = TRUE,
                                                     !.max = request[t].note]]
  /\ UNCHANGED <<ops, left, user, session, failures, captcha, passed>>

\* mutant: the table has no CHECK
MutLimitStands(c, max) == code[c].exists

(* The CHECK of the table refuses a limit below the uses of now.             *)
LimitStands(c, max) == code[c].exists /\ code[c].used <= max

(* Only the fields that are given: a limit, a date that has not passed.      *)
UpdateInvitation(t) ==
  LET c == request[t].arg IN
  /\ At(t, "write", "reinvite") /\ Done(t)
  /\ \E max \in {request[t].note, code[c].max}, expired \in {FALSE, code[c].expired} :
       code' = IF LimitStands(c, max)
               THEN [code EXCEPT ![c].max = max, ![c].expired = expired] ELSE code
  /\ UNCHANGED <<ops, left, user, session, failures, captcha, passed>>

RevokeInvitation(t) ==
  LET c == request[t].arg IN
  /\ At(t, "write", "revoke") /\ Done(t)
  /\ code' = IF code[c].exists THEN [code EXCEPT ![c].revoked = TRUE] ELSE code
  /\ UNCHANGED <<ops, left, user, session, failures, captcha, passed>>

(* The row is selected again, among those that are revoked.  The users it    *)
(* brought keep their accounts and forget the code.                          *)
DeleteInvitation(t) ==
  LET c == request[t].arg IN
  /\ At(t, "write", "uninvite") /\ Done(t)
  /\ IF code[c].revoked
       THEN /\ code' = [code EXCEPT ![c] = NoCode]
            /\ user' = [u \in Users |-> IF user[u].via = c THEN [user[u] EXCEPT !.via = None]
                                        ELSE user[u]]
       ELSE UNCHANGED <<code, user>>
  /\ UNCHANGED <<ops, left, session, failures, captcha, passed>>

InvitationExpires(c) ==
  /\ "register" \in ops /\ code[c].exists /\ ~code[c].expired
  /\ code' = [code EXCEPT ![c].expired = TRUE]
  /\ UNCHANGED <<ops, left, user, session, failures, captcha, passed, request>>

----------------------------------------------------------------------------
(* Steps that leave the database alone, and steps that write it.             *)

AttemptStep(t) ==
  \/ \E op \in {"login", "register"}, u \in Users : Attempt(t, op, u)
  \/ \E c \in Captchas, right \in BOOLEAN : VerifyCaptcha(t, c, right)
  \/ \E word \in Passwords : Authenticate(t, word)
  \/ RecordFailure(t)
  \/ ResetFailures(t)

AccountRead(t) ==
  \E s \in LiveSessions :
    \/ \E e \in Emails \cup {None} : BeginProfile(t, s, e)
    \/ \E word \in Passwords : BeginPassword(t, s, word)
    \/ BeginForced(t, s)
    \/ \E u \in Users : \/ BeginCreateUser(t, s, u)
                        \/ BeginDisable(t, s, u)
                        \/ BeginEnable(t, s, u)
                        \/ BeginReset(t, s, u)
    \/ \E c \in Codes : \/ \E op \in {"invite", "reinvite"}, max \in 1 .. MaxUses :
                             BeginInvitation(t, s, op, c, max)
                        \/ \E op \in {"revoke", "uninvite"} :
                             BeginInvitation(t, s, op, c, None)

AccountWrite(t) ==
  \/ CreateSession(t)
  \/ \E c \in Codes, e \in Emails \cup {None} : Register(t, c, e)
  \/ WriteProfile(t) \/ ChangePassword(t) \/ ForcePassword(t) \/ ResetPassword(t)
  \/ CreateUser(t) \/ EnableUser(t)
  \/ CreateInvitation(t) \/ UpdateInvitation(t) \/ RevokeInvitation(t)
  \/ DeleteInvitation(t)

TimePasses ==
  \/ \E u \in Users : FailureExpires(u)
  \/ \E c \in Codes : InvitationExpires(c)
  \/ \E c \in Captchas : IssueCaptcha(c)
  \/ \E s \in LiveSessions : Logout(s)

----------------------------------------------------------------------------
(* What must hold.                                                         *)

(* Rows, requests and counters have their types; no address belongs to two    *)
(* users, nor to a name that is not registered; a live session has a user.    *)
AccountsTypeOK ==
  /\ UserTableOK(user) /\ SessionTableOK(session) /\ code \in [Codes -> CodeRows]
  /\ failures \in [Users -> Nat] /\ passed \in [Captchas -> Nat] /\ left \in Nat
  /\ captcha \in [Captchas -> {"unissued", "pending", "gone"}]
  /\ DOMAIN request = Threads

(* An invitation code counts exactly the users it brought, and never more     *)
(* than its limit, whatever registrations, new limits, revocations and        *)
(* deletes overlap: atomic_consume, the rollback of AuthService.register and  *)
(* the CHECK of invitation_codes together.                                 *)
InvitationsCount ==
  \A c \in Codes : code[c].exists =>
    /\ code[c].used = Cardinality({u \in Users : user[u].via = c})
    /\ code[c].used <= code[c].max

(* No two attempts get past one captcha, however they race for it: a captcha  *)
(* buys one guess at a password or at an invitation code.                    *)
CaptchaOnce == \A c \in Captchas : passed[c] <= 1

(* A window never holds more failures of one name than the limit and one for  *)
(* each further thread: allow() and record_failure() are two visits to the    *)
(* throttle, so the threads already admitted may all fail after the limit is  *)
(* reached, and no other attempt does.                                     *)
FailuresBounded == \A u \in Users : failures[u] <= MaxFailures + Cardinality(Threads) - 1

(* "The system always keeps at least one active administrator."             *)
SomeAdminIsActive == ActiveAdmins # {}
============================================================================
