-------------------------- MODULE ApiAccessProofs --------------------------
(***************************************************************************)
(* Theorems about Accounts and ApiAccess, for every set of users, threads,    *)
(* codes, captchas, keys, models, groups and configurations, every limit and  *)
(* every set of operations.                                                 *)
(***************************************************************************)
EXTENDS ApiAccess, FiniteSetTheorems, TLAPS

-----------------------------------------------------------------------------
(* The requests of the threads.                                            *)

AttemptPlaces == {"captcha", "credentials", "session", "failed", "succeeded"}

IsRequest(q) ==
  q = [pc |-> q.pc, op |-> q.op, by |-> q.by, arg |-> q.arg, seen |-> q.seen,
       note |-> q.note]

\* An attempt is one of a name; who limits an invitation asks for a number.
GoodRequest(q) ==
  /\ IsRequest(q)
  /\ q.pc \in AttemptPlaces => q.arg \in Users
  /\ q.pc = "write" /\ q.op \in {"invite", "reinvite"} => q.note \in 1 .. MaxUses

RequestInv == DOMAIN request = Threads /\ \A t \in Threads : GoodRequest(request[t])

\* What a step makes of the request of a thread.
Tries(q, r) ==
  \/ r.pc \notin AttemptPlaces
  \/ q.pc \in AttemptPlaces /\ r.pc \in AttemptPlaces /\ r.arg = q.arg

Moves(t) ==
  /\ DOMAIN request' = Threads
  /\ \A q \in Threads \ {t} : request'[q] = request[q]
  /\ GoodRequest(request'[t]) /\ Tries(request[t], request'[t])

\* A step of t that visits neither the throttle nor the captchas.
Elsewhere(t) == UNCHANGED <<failures, captcha, passed>> /\ Moves(t)

\* The reads of a request come first, write nothing and are counted.
Reads(t) ==
  /\ request[t].pc = "idle" /\ left > 0 /\ left' = left - 1
  /\ UNCHANGED <<ops, user, session, code, failures, captcha, passed>>

LEMMA ReadsBegin ==
  ASSUME NEW t \in Threads, AccountRead(t) \/ AccessRead(t)
  PROVE  Reads(t)
<1>1. ASSUME NEW s, NEW op, NEW x, NEW seen, NEW note, Begin(t, op, s, x, seen, note)
      PROVE  Reads(t)
  BY <1>1 DEF Begin, Reads
<1>2. CASE AccountRead(t)
  <2>1. ASSUME NEW s, \/ \E e : BeginProfile(t, s, e)
                      \/ \E word : BeginPassword(t, s, word)
                      \/ BeginForced(t, s)
        PROVE  Reads(t)
    BY <1>1, <2>1 DEF BeginProfile, BeginPassword, BeginForced
  <2>2. ASSUME NEW s, NEW u, \/ BeginCreateUser(t, s, u) \/ BeginDisable(t, s, u)
                             \/ BeginEnable(t, s, u) \/ BeginReset(t, s, u)
        PROVE  Reads(t)
    BY <1>1, <2>2 DEF BeginCreateUser, BeginDisable, BeginEnable, BeginReset
  <2>3. ASSUME NEW s, NEW op, NEW c, NEW max, BeginInvitation(t, s, op, c, max)
        PROVE  Reads(t)
    BY <1>1, <2>3 DEF BeginInvitation
  <2> QED BY <1>2, <2>1, <2>2, <2>3 DEF AccountRead
<1>3. CASE AccessRead(t)
  <2>1. ASSUME NEW s, NEW k, NEW op \in {"addKey", "editKey", "switchKey", "dropKey"},
               BeginKey(t, s, op, k)
        PROVE  Reads(t)
    BY <1>1, <2>1 DEF BeginKey
  <2>2. ASSUME NEW s, \/ \E m, op : BeginModel(t, s, op, m)
                      \/ \E g, op : BeginGroup(t, s, op, g)
        PROVE  Reads(t)
    BY <1>1, <2>2 DEF BeginModel, BeginGroup
  <2>3. ASSUME NEW s, NEW x, \/ BeginDropConfig(t, s, x)
                             \/ \E e, on : BeginAddConfig(t, s, x, e, on)
        PROVE  Reads(t)
    BY <1>1, <2>3 DEF BeginDropConfig, BeginAddConfig
  <2> QED BY <1>3, <2>1, <2>2, <2>3 DEF AccessRead
<1> QED BY <1>2, <1>3

\* A write answers its request; the update of a configuration is none, it
\* reads and writes, or begins to test.
LEMMA AccessAnswers ==
  ASSUME NEW t \in Threads, AccessWrite(t)
  PROVE  \/ Answered(t)
         \/ \E s \in LiveSessions, x \in Configs, e \in Endpoints, on \in BOOLEAN :
              UpdateConfig(t, s, x, e, on)
<1>1. CreateModel(t) \/ UpdateModel(t) \/ DeleteModel(t) => Answered(t)
  BY DEF CreateModel, UpdateModel, DeleteModel
<1>2. CreateGroup(t) \/ ReplaceMembers(t) \/ DeleteGroup(t) => Answered(t)
  BY DEF CreateGroup, ReplaceMembers, DeleteGroup
<1>3. CreateKey(t) \/ UpdateKey(t) \/ SwitchKey(t) \/ DeleteKey(t) => Answered(t)
  BY DEF CreateKey, UpdateKey, SwitchKey, DeleteKey
<1>4. DeleteConfig(t) \/ (\E outcome \in TestOutcomes : CreateConfig(t, outcome))
        => Answered(t)
  BY DEF DeleteConfig, CreateConfig
<1> QED BY <1>1, <1>2, <1>3, <1>4 DEF AccessWrite

LEMMA AccessWritesNoAccount ==
  ASSUME NEW t \in Threads,
         \/ AccessWrite(t) \/ DatabaseIsLocked(t)
         \/ \E outcome \in TestOutcomes : FinishUpdate(t, outcome)
  PROVE  UNCHANGED <<user, session, code>>
<1>1. Answered(t) => UNCHANGED <<user, session, code>> BY DEF Answered
<1>2. ASSUME NEW s, NEW x, NEW e, NEW on, UpdateConfig(t, s, x, e, on)
      PROVE  UNCHANGED <<user, session, code>>
  BY <1>2 DEF UpdateConfig
<1> QED BY <1>1, <1>2, AccessAnswers DEF DatabaseIsLocked, FinishUpdate

LEMMA RequestFields ==
  ASSUME NEW q, IsRequest(q), NEW p, NEW x
  PROVE  /\ [q EXCEPT !.pc = p] = [pc |-> p, op |-> q.op, by |-> q.by, arg |-> q.arg,
                                   seen |-> q.seen, note |-> q.note]
         /\ [q EXCEPT !.pc = p, !.seen = x] = [pc |-> p, op |-> q.op, by |-> q.by,
                                               arg |-> q.arg, seen |-> x, note |-> q.note]
<1>1. q = [pc |-> q.pc, op |-> q.op, by |-> q.by, arg |-> q.arg, seen |-> q.seen,
           note |-> q.note]
  BY DEF IsRequest
<1>2. [q EXCEPT !.pc = p] = [pc |-> p, op |-> q.op, by |-> q.by, arg |-> q.arg,
                             seen |-> q.seen, note |-> q.note]
  BY <1>1
<1>3. [q EXCEPT !.pc = p, !.seen = x] = [pc |-> p, op |-> q.op, by |-> q.by,
                                         arg |-> q.arg, seen |-> x, note |-> q.note]
  <2>1. [[q EXCEPT !.pc = p] EXCEPT !.seen = x] = [q EXCEPT !.pc = p, !.seen = x]
    OBVIOUS
  <2>2. PICK r : r = [q EXCEPT !.pc = p] OBVIOUS
  <2>3. r = [pc |-> r.pc, op |-> r.op, by |-> r.by, arg |-> r.arg, seen |-> r.seen,
             note |-> r.note]
    BY <1>2, <2>2
  <2>4. [r EXCEPT !.seen = x] = [pc |-> r.pc, op |-> r.op, by |-> r.by, arg |-> r.arg,
                                 seen |-> x, note |-> r.note]
    BY <2>3
  <2> QED BY <1>2, <2>1, <2>2, <2>4
<1> QED BY <1>2, <1>3

LEMMA RequestInit == Init => RequestInv
BY DEF Init, AccountsInit, RequestInv, GoodRequest, IsRequest, Idle, AttemptPlaces

LEMMA Moving ==
  ASSUME RequestInv, NEW t \in Threads
  PROVE  /\ Done(t) => Moves(t)
         /\ \A p \in AttemptPlaces :
              Goto(t, p) /\ request[t].pc \in AttemptPlaces => Moves(t)
         /\ UNCHANGED request => Moves(t)
<1>1. GoodRequest(request[t]) /\ GoodRequest(Idle)
  BY DEF RequestInv, GoodRequest, IsRequest, Idle, AttemptPlaces
<1>2. Done(t) => Moves(t)
  BY <1>1 DEF Done, Moves, RequestInv, Tries, Idle, AttemptPlaces
<1>3. ASSUME NEW p \in AttemptPlaces, Goto(t, p), request[t].pc \in AttemptPlaces
      PROVE  Moves(t)
  <2>1. request'[t] = [pc |-> p, op |-> request[t].op, by |-> request[t].by,
                       arg |-> request[t].arg, seen |-> request[t].seen,
                       note |-> request[t].note]
    BY <1>1, <1>3, RequestFields DEF Goto, RequestInv, GoodRequest
  <2>2. GoodRequest(request'[t]) /\ Tries(request[t], request'[t])
    BY <1>1, <1>3, <2>1 DEF GoodRequest, IsRequest, Tries, AttemptPlaces
  <2> QED BY <1>3, <2>2 DEF Moves, Goto, RequestInv
<1>4. UNCHANGED request => Moves(t)
  BY <1>1 DEF Moves, RequestInv, Tries, GoodRequest
<1> QED BY <1>2, <1>3, <1>4

\* A request that waits to write has been told what to write.
LEMMA BeginElsewhere ==
  ASSUME RequestInv, NEW t \in Threads, NEW op, NEW s, NEW x, NEW seen, NEW note,
         Begin(t, op, s, x, seen, note), op \in {"invite", "reinvite"} => note \in 1 .. MaxUses
  PROVE  Elsewhere(t)
<1> DEFINE q == [pc |-> "write", op |-> op, by |-> s, arg |-> x, seen |-> seen,
                 note |-> note]
<1>1. request' = [request EXCEPT ![t] = q] /\ UNCHANGED <<failures, captcha, passed>>
  BY DEF Begin
<1>2. GoodRequest(q) /\ q.pc \notin AttemptPlaces
  BY DEF GoodRequest, IsRequest, AttemptPlaces
<1> HIDE DEF q
<1> QED BY <1>1, <1>2 DEF Elsewhere, Moves, RequestInv, Tries

LEMMA ReadElsewhere ==
  ASSUME RequestInv, NEW t \in Threads, AccountRead(t) \/ AccessRead(t)
  PROVE  Elsewhere(t)
<1>1. CASE AccountRead(t)
  <2>1. ASSUME NEW s, BeginForced(t, s) PROVE Elsewhere(t)
    BY <2>1, BeginElsewhere DEF BeginForced
  <2>2. ASSUME NEW s, NEW e, BeginProfile(t, s, e) PROVE Elsewhere(t)
    BY <2>2, BeginElsewhere DEF BeginProfile
  <2>3. ASSUME NEW s, NEW word, BeginPassword(t, s, word) PROVE Elsewhere(t)
    BY <2>3, BeginElsewhere DEF BeginPassword
  <2>4. ASSUME NEW s, NEW u,
               \/ BeginCreateUser(t, s, u) \/ BeginDisable(t, s, u)
               \/ BeginEnable(t, s, u) \/ BeginReset(t, s, u)
        PROVE  Elsewhere(t)
    BY <2>4, BeginElsewhere DEF BeginCreateUser, BeginDisable, BeginEnable, BeginReset
  <2>5. ASSUME NEW s, NEW c, NEW op, NEW max, BeginInvitation(t, s, op, c, max),
               op \in {"invite", "reinvite"} => max \in 1 .. MaxUses
        PROVE  Elsewhere(t)
    BY <2>5, BeginElsewhere DEF BeginInvitation
  <2> QED BY <1>1, <2>1, <2>2, <2>3, <2>4, <2>5 DEF AccountRead
<1>2. CASE AccessRead(t)
  <2>1. ASSUME NEW s, NEW m, NEW op \in {"addModel", "editModel", "dropModel"},
               BeginModel(t, s, op, m)
        PROVE  Elsewhere(t)
    BY <2>1, BeginElsewhere DEF BeginModel
  <2>2. ASSUME NEW s, NEW g, NEW op \in {"addGroup", "fillGroup", "dropGroup"},
               BeginGroup(t, s, op, g)
        PROVE  Elsewhere(t)
    BY <2>2, BeginElsewhere DEF BeginGroup
  <2>3. ASSUME NEW s, NEW k, NEW op \in {"addKey", "editKey", "switchKey", "dropKey"},
               BeginKey(t, s, op, k)
        PROVE  Elsewhere(t)
    BY <2>3, BeginElsewhere DEF BeginKey
  <2>4. ASSUME NEW s, NEW x, BeginDropConfig(t, s, x) PROVE Elsewhere(t)
    BY <2>4, BeginElsewhere DEF BeginDropConfig
  <2>5. ASSUME NEW s, NEW x, NEW e, NEW on, BeginAddConfig(t, s, x, e, on)
        PROVE  Elsewhere(t)
    BY <2>5, BeginElsewhere DEF BeginAddConfig
  <2> QED BY <1>2, <2>1, <2>2, <2>3, <2>4, <2>5 DEF AccessRead
<1> QED BY <1>1, <1>2

LEMMA WriteElsewhere ==
  ASSUME RequestInv, NEW t \in Threads, AccountWrite(t) \/ DisableUserAndKeys(t)
  PROVE  Elsewhere(t)
<1>1. CASE CreateSession(t)
  <2>1. Goto(t, "succeeded") /\ request[t].pc \in AttemptPlaces
    BY <1>1 DEF CreateSession, At, AttemptPlaces
  <2>2. UNCHANGED <<failures, captcha, passed>> BY <1>1 DEF CreateSession
  <2> QED BY <2>1, <2>2, Moving DEF Elsewhere, AttemptPlaces
<1>2. CASE \E c \in Codes, e \in Emails \cup {None} : Register(t, c, e)
  <2>1. /\ Goto(t, "succeeded") \/ Goto(t, "failed") \/ Done(t)
        /\ request[t].pc \in AttemptPlaces
    BY <1>2 DEF Register, At, AttemptPlaces
  <2>2. UNCHANGED <<failures, captcha, passed>> BY <1>2 DEF Register
  <2> QED BY <2>1, <2>2, Moving DEF Elsewhere, AttemptPlaces
<1>3. CASE \/ WriteProfile(t) \/ ChangePassword(t) \/ ForcePassword(t) \/ ResetPassword(t)
           \/ CreateUser(t) \/ EnableUser(t) \/ DisableUserAndKeys(t)
           \/ CreateInvitation(t) \/ UpdateInvitation(t) \/ RevokeInvitation(t)
           \/ DeleteInvitation(t)
  <2>1. Done(t) /\ UNCHANGED <<failures, captcha, passed>>
    BY <1>3 DEF WriteProfile, ChangePassword, ForcePassword, ResetPassword, CreateUser,
                EnableUser, DisableUserAndKeys, DisableUser, CreateInvitation,
                UpdateInvitation, RevokeInvitation, DeleteInvitation
  <2> QED BY <2>1, Moving DEF Elsewhere
<1> QED BY <1>1, <1>2, <1>3 DEF AccountWrite

LEMMA AccessElsewhere ==
  ASSUME RequestInv, NEW t \in Threads,
         \/ AccessWrite(t) \/ DatabaseIsLocked(t)
         \/ \E outcome \in TestOutcomes : FinishUpdate(t, outcome)
  PROVE  Elsewhere(t)
<1>1. CASE Answered(t) BY <1>1, Moving DEF Elsewhere, Answered
<1>2. ASSUME NEW s, NEW x, NEW e, NEW on, UpdateConfig(t, s, x, e, on)
      PROVE  Elsewhere(t)
  <2>1. UNCHANGED <<failures, captcha, passed>> BY <1>2 DEF UpdateConfig
  <2>2. CASE UNCHANGED request BY <2>1, <2>2, Moving DEF Elsewhere
  <2>3. CASE request' # request
    <3> DEFINE q == [pc |-> "testing", op |-> "editConfig", by |-> s, arg |-> x,
                     seen |-> config[x], note |-> [endpoint |-> e, enabled |-> on]]
    <3>1. request' = [request EXCEPT ![t] = q] BY <1>2, <2>3 DEF UpdateConfig
    <3>2. GoodRequest(q) /\ q.pc \notin AttemptPlaces
      BY DEF GoodRequest, IsRequest, AttemptPlaces
    <3> HIDE DEF q
    <3> QED BY <2>1, <3>1, <3>2 DEF Elsewhere, Moves, RequestInv, Tries
  <2> QED BY <2>2, <2>3
<1>3. CASE /\ AccessWrite(t)
           /\ ~\E s \in LiveSessions, x \in Configs, e \in Endpoints, on \in BOOLEAN :
                 UpdateConfig(t, s, x, e, on)
  <2>1. Answered(t) BY <1>3, AccessAnswers
  <2> QED BY <1>1, <2>1
<1> QED BY <1>1, <1>2, <1>3 DEF DatabaseIsLocked, FinishUpdate

\* Every step is a visit to the throttle or to the captchas, or passes both by.
Visit(t) ==
  \/ \E op \in {"login", "register"}, u \in Users : Attempt(t, op, u)
  \/ \E c \in Captchas, right \in BOOLEAN : VerifyCaptcha(t, c, right)
  \/ RecordFailure(t) \/ ResetFailures(t)

LEMMA StepKinds ==
  ASSUME RequestInv, [Next]_vars
  PROVE  \/ \E t \in Threads : Visit(t) \/ Elsewhere(t)
         \/ UNCHANGED request
            /\ \/ UNCHANGED <<failures, captcha, passed>>
               \/ \E u \in Users : FailureExpires(u)
               \/ \E c \in Captchas : IssueCaptcha(c)
<1>1. ASSUME NEW t \in Threads, AttemptStep(t) PROVE Visit(t) \/ Elsewhere(t)
  <2>1. ASSUME NEW word, Authenticate(t, word) PROVE Elsewhere(t)
    <3>1. UNCHANGED <<failures, captcha, passed>> /\ request[t].pc \in AttemptPlaces
      BY <2>1 DEF Authenticate, At, AttemptPlaces
    <3>2. CASE Goto(t, "failed") BY <3>1, <3>2, Moving DEF Elsewhere, AttemptPlaces
    <3>3. CASE request' = [request EXCEPT ![t].pc = "session",
                                          ![t].seen = user[request[t].arg]]
      <4> DEFINE x == user[request[t].arg]
      <4>1. request'[t] = [request[t] EXCEPT !.pc = "session", !.seen = x]
            /\ DOMAIN request' = Threads
            /\ \A q \in Threads \ {t} : request'[q] = request[q]
        BY <3>3 DEF RequestInv
      <4> HIDE DEF x
      <4>2. GoodRequest(request[t]) BY DEF RequestInv
      <4>3. request'[t] = [pc |-> "session", op |-> request[t].op, by |-> request[t].by,
                           arg |-> request[t].arg, seen |-> x, note |-> request[t].note]
        <5>1. IsRequest(request[t]) BY <4>2 DEF GoodRequest
        <5> QED BY <4>1, <5>1 DEF IsRequest
      <4>4. GoodRequest(request'[t]) /\ Tries(request[t], request'[t])
        <5>1. /\ request'[t].pc = "session" /\ request'[t].arg = request[t].arg
              /\ IsRequest(request'[t])
          BY <4>3 DEF IsRequest
        <5> QED BY <3>1, <4>2, <5>1 DEF GoodRequest, Tries, AttemptPlaces
      <4> QED BY <3>1, <4>1, <4>4 DEF Elsewhere, Moves
    <3> QED BY <2>1, <3>2, <3>3 DEF Authenticate, Goto
  <2> QED BY <1>1, <2>1 DEF AttemptStep, Visit
<1>2. CASE \/ TimePasses \/ UNCHANGED vars
           \/ (\E k \in Keys : AdmitTask(k)) \/ \E x \in Configs : CiteConfig(x)
  BY <1>2 DEF TimePasses, InvitationExpires, Logout, FailureExpires, IssueCaptcha, vars,
              accountVars, AdmitTask, CiteConfig
<1> QED BY <1>1, <1>2, ReadElsewhere, WriteElsewhere, AccessElsewhere DEF Next

LEMMA VisitMoves ==
  ASSUME RequestInv, NEW t \in Threads, Visit(t)
  PROVE  /\ DOMAIN request' = Threads /\ GoodRequest(request'[t])
         /\ \A q \in Threads \ {t} : request'[q] = request[q]
         /\ \/ Moves(t)
            \/ \E op \in {"login", "register"}, u \in Users : Attempt(t, op, u)
<1>1. ASSUME NEW op, NEW u \in Users, Attempt(t, op, u)
      PROVE  /\ DOMAIN request' = Threads /\ GoodRequest(request'[t])
             /\ \A q \in Threads \ {t} : request'[q] = request[q]
  <2> DEFINE r == [Idle EXCEPT !.pc = "captcha", !.op = op, !.arg = u]
  <2>1. r = [pc |-> "captcha", op |-> op, by |-> None, arg |-> u, seen |-> None,
             note |-> None]
    <3>1. PICK a : a = [Idle EXCEPT !.pc = "captcha"] OBVIOUS
    <3>2. a = [pc |-> "captcha", op |-> None, by |-> None, arg |-> None, seen |-> None,
               note |-> None]
      BY <3>1 DEF Idle
    <3>3. PICK b : b = [a EXCEPT !.op = op] OBVIOUS
    <3>4. b = [pc |-> "captcha", op |-> op, by |-> None, arg |-> None, seen |-> None,
               note |-> None]
      BY <3>2, <3>3
    <3>5. [b EXCEPT !.arg = u] = [pc |-> "captcha", op |-> op, by |-> None, arg |-> u,
                                  seen |-> None, note |-> None]
      BY <3>4
    <3>6. r = [[[Idle EXCEPT !.pc = "captcha"] EXCEPT !.op = op] EXCEPT !.arg = u]
      OBVIOUS
    <3> QED BY <3>1, <3>3, <3>5, <3>6
  <2>2. request' = [request EXCEPT ![t] = r] BY <1>1 DEF Attempt
  <2>3. GoodRequest(r) BY <2>1 DEF GoodRequest, IsRequest
  <2> HIDE DEF r
  <2> QED BY <2>2, <2>3 DEF RequestInv
<1>2. ASSUME NEW c, NEW right, VerifyCaptcha(t, c, right) PROVE Moves(t)
  <2>1. /\ Goto(t, "credentials") \/ Goto(t, "failed")
        /\ request[t].pc \in AttemptPlaces
    BY <1>2 DEF VerifyCaptcha, AttemptPlaces
  <2> QED BY <2>1, Moving DEF AttemptPlaces
<1>3. CASE RecordFailure(t) \/ ResetFailures(t)
  BY <1>3, Moving DEF RecordFailure, ResetFailures, Moves
<1> QED BY <1>1, <1>2, <1>3 DEF Visit, Moves

LEMMA RequestStep == RequestInv /\ [Next]_vars => RequestInv'
<1> SUFFICES ASSUME RequestInv, [Next]_vars PROVE RequestInv' OBVIOUS
<1>1. ASSUME NEW t \in Threads, Visit(t) \/ Elsewhere(t) PROVE RequestInv'
  BY <1>1, VisitMoves DEF Elsewhere, Moves, RequestInv, GoodRequest, IsRequest
<1>2. CASE UNCHANGED request BY <1>2 DEF RequestInv, GoodRequest, IsRequest
<1> QED BY <1>1, <1>2, StepKinds

-----------------------------------------------------------------------------
(* A captcha lets one attempt pass.                                        *)

CaptchaInv ==
  /\ captcha \in [Captchas -> {"unissued", "pending", "gone"}]
  /\ passed \in [Captchas -> Nat]
  /\ \A c \in Captchas : passed[c] = 0 \/ (passed[c] = 1 /\ captcha[c] = "gone")

LEMMA CaptchaInit == Init => CaptchaInv
BY DEF Init, AccountsInit, CaptchaInv

LEMMA CaptchaStep == RequestInv /\ CaptchaInv /\ [Next]_vars => CaptchaInv'
<1> SUFFICES ASSUME RequestInv, CaptchaInv, [Next]_vars PROVE CaptchaInv' OBVIOUS
<1>1. CASE UNCHANGED <<captcha, passed>> BY <1>1 DEF CaptchaInv
<1>2. ASSUME NEW t \in Threads, NEW c \in Captchas, NEW right \in BOOLEAN,
             VerifyCaptcha(t, c, right)
      PROVE  CaptchaInv'
  BY <1>2 DEF VerifyCaptcha, AfterVerify, CaptchaInv
<1>3. ASSUME NEW c \in Captchas, IssueCaptcha(c) PROVE CaptchaInv'
  <2>1. captcha[c] = "unissued" /\ UNCHANGED passed BY <1>3 DEF IssueCaptcha
  <2>2. captcha' \in [Captchas -> {"unissued", "pending", "gone"}]
    BY <1>3 DEF IssueCaptcha, CaptchaInv
  <2>3. \A d \in Captchas \ {c} : captcha[d] = "gone" => captcha'[d] = "gone"
    BY <1>3 DEF IssueCaptcha
  <2> QED BY <2>1, <2>2, <2>3 DEF CaptchaInv
<1>4. UNCHANGED <<captcha, passed>>
        \/ (\E t \in Threads, c \in Captchas, right \in BOOLEAN : VerifyCaptcha(t, c, right))
        \/ \E c \in Captchas : IssueCaptcha(c)
  BY StepKinds DEF Visit, Attempt, RecordFailure, ResetFailures, Elsewhere, FailureExpires
<1> QED BY <1>1, <1>2, <1>3, <1>4

\* One captcha buys one guess, however many attempts race for it and whatever
\* drops it from the table (verify_captcha pops it before it compares).
THEOREM CaptchaOnceHolds == Spec => []CaptchaOnce
<1>1. CaptchaInv => CaptchaOnce BY DEF CaptchaInv, CaptchaOnce
<1> QED BY <1>1, RequestInit, RequestStep, CaptchaInit, CaptchaStep, PTL DEF Spec
-----------------------------------------------------------------------------
(* The window of the throttle.                                             *)

Trying(u) == {t \in Threads : request[t].pc \in AttemptPlaces /\ request[t].arg = u}

\* Attempts that were let in and may still fail count against the window.
ThrottleInv ==
  /\ failures \in [Users -> Nat]
  /\ \A u \in Users :
       failures[u] + Cardinality(Trying(u)) <= MaxFailures + Cardinality(Threads) - 1

LEMMA TryingFinite ==
  ASSUME NEW u
  PROVE  /\ IsFiniteSet(Threads) /\ Cardinality(Threads) \in Nat
         /\ IsFiniteSet(Trying(u)) /\ Cardinality(Trying(u)) \in Nat
         /\ Cardinality(Trying(u)) <= Cardinality(Threads)
<1>1. IsFiniteSet(Threads) /\ Trying(u) \in SUBSET Threads
  BY AccountsAssumption DEF Trying
<1> QED BY <1>1, FS_Subset, FS_CardinalityType

LEMMA ThrottleInit == Init => ThrottleInv
<1> SUFFICES ASSUME Init PROVE ThrottleInv OBVIOUS
<1>1. failures = [u \in Users |-> 0] BY DEF Init, AccountsInit
<1>2. ASSUME NEW u \in Users PROVE Cardinality(Trying(u)) = 0
  <2>1. Trying(u) = {} BY DEF Init, AccountsInit, Trying, Idle, AttemptPlaces
  <2> QED BY <2>1, FS_EmptySet
<1> QED BY <1>1, <1>2, AccountsAssumption, TryingFinite DEF ThrottleInv

\* Who tried before the step.
LEMMA FewerTry ==
  ASSUME RequestInv, NEW t \in Threads, Moves(t), NEW u
  PROVE  /\ Trying(u)' \in SUBSET Trying(u)
         /\ Cardinality(Trying(u)') \in Nat
         /\ Cardinality(Trying(u)') <= Cardinality(Trying(u))
<1>1. Trying(u)' \in SUBSET Trying(u) BY DEF Moves, Tries, Trying
<1> QED BY <1>1, TryingFinite, FS_Subset, FS_CardinalityType

LEMMA ThrottleStep == RequestInv /\ ThrottleInv /\ [Next]_vars => ThrottleInv'
<1> SUFFICES ASSUME RequestInv, ThrottleInv, [Next]_vars PROVE ThrottleInv' OBVIOUS
<1> USE AccountsAssumption
<1>1. ASSUME NEW t \in Threads, Moves(t), failures' \in [Users -> Nat],
             \A u \in Users : failures'[u] <= failures[u]
      PROVE  ThrottleInv'
  BY <1>1, FewerTry, TryingFinite DEF ThrottleInv
<1>2. ASSUME NEW t \in Threads, NEW op, NEW v \in Users, Attempt(t, op, v)
      PROVE  ThrottleInv'
  <2>1. failures' = failures /\ failures[v] < MaxFailures /\ request[t].pc = "idle"
    BY <1>2 DEF Attempt, Allows
  <2>2. \A q \in Threads \ {t} : request'[q] = request[q]
    BY <1>2 DEF Attempt, RequestInv
  <2>3. request'[t].arg = v BY <1>2 DEF Attempt, RequestInv, Idle
  <2>4. ASSUME NEW u \in Users \ {v}
        PROVE  Cardinality(Trying(u)') = Cardinality(Trying(u))
    <3>1. Trying(u)' = Trying(u) BY <2>1, <2>2, <2>3, <2>4 DEF Trying, AttemptPlaces
    <3> QED BY <3>1
  <2>5. Cardinality(Trying(v)') <= Cardinality(Threads) /\ Cardinality(Trying(v)') \in Nat
    <3>1. Trying(v)' \in SUBSET Threads BY DEF Trying
    <3> QED BY <3>1, TryingFinite, FS_Subset, FS_CardinalityType
  <2>6. failures'[v] + Cardinality(Trying(v)') <= MaxFailures + Cardinality(Threads) - 1
    BY <2>1, <2>5, TryingFinite DEF ThrottleInv
  <2> QED BY <2>1, <2>4, <2>6 DEF ThrottleInv
<1>3. ASSUME NEW t \in Threads, RecordFailure(t) PROVE ThrottleInv'
  <2>0. PICK v \in Users : request[t].arg = v
    BY <1>3 DEF RecordFailure, RequestInv, GoodRequest, AttemptPlaces
  <2>1. t \in Trying(v) BY <1>3, <2>0 DEF RecordFailure, Trying, AttemptPlaces
  <2>2. failures' = [failures EXCEPT ![v] = failures[v] + 1] /\ Done(t)
    BY <1>3, <2>0 DEF RecordFailure
  <2>3. Moves(t) BY <2>2, Moving
  <2>4. Trying(v)' = Trying(v) \ {t}
    <3>1. request'[t].pc = "idle" /\ \A q \in Threads \ {t} : request'[q] = request[q]
      BY <2>2 DEF Done, RequestInv, Idle
    <3> QED BY <3>1 DEF Trying, AttemptPlaces
  <2>5. Cardinality(Trying(v)') = Cardinality(Trying(v)) - 1
    BY <2>1, <2>4, TryingFinite, FS_RemoveElement
  <2>6. failures' \in [Users -> Nat] /\ failures'[v] = failures[v] + 1
        /\ \A u \in Users \ {v} : failures'[u] = failures[u]
    BY <2>1, <2>2 DEF ThrottleInv
  <2>7. failures'[v] + Cardinality(Trying(v)') <= MaxFailures + Cardinality(Threads) - 1
    BY <2>1, <2>5, <2>6, TryingFinite DEF ThrottleInv
  <2>8. ASSUME NEW u \in Users \ {v}
        PROVE  failures'[u] + Cardinality(Trying(u)') <=
                 MaxFailures + Cardinality(Threads) - 1
    BY <2>3, <2>6, <2>8, FewerTry, TryingFinite DEF ThrottleInv
  <2> QED BY <2>1, <2>6, <2>7, <2>8 DEF ThrottleInv
<1>4. ASSUME NEW t \in Threads,
             \/ ResetFailures(t) \/ Elsewhere(t)
             \/ \E c \in Captchas, right \in BOOLEAN : VerifyCaptcha(t, c, right)
      PROVE  ThrottleInv'
  <2>1. Moves(t)
    BY <1>4, VisitMoves DEF Visit, Elsewhere, Attempt, ResetFailures, VerifyCaptcha
  <2>2. failures' \in [Users -> Nat] /\ \A u \in Users : failures'[u] <= failures[u]
    BY <1>4 DEF Elsewhere, ResetFailures, VerifyCaptcha, ThrottleInv
  <2> QED BY <1>1, <2>1, <2>2
<1>5. ASSUME UNCHANGED request,
             \/ UNCHANGED failures \/ \E u \in Users : FailureExpires(u)
      PROVE  ThrottleInv'
  <2>1. \A u \in Users : Trying(u)' = Trying(u) BY <1>5 DEF Trying
  <2>2. failures' \in [Users -> Nat] /\ \A u \in Users : failures'[u] <= failures[u]
    BY <1>5 DEF FailureExpires, ThrottleInv
  <2>3. ASSUME NEW u \in Users PROVE Cardinality(Trying(u)') = Cardinality(Trying(u))
    BY <2>1
  <2> QED BY <2>2, <2>3, TryingFinite DEF ThrottleInv
<1> QED BY <1>2, <1>3, <1>4, <1>5, StepKinds DEF Visit, IssueCaptcha

\* With the threads of the server between allow() and record_failure() counted
\* in, the window never holds more than the limit and one for each further one.
THEOREM FailuresBoundedHolds == Spec => []FailuresBounded
<1>1. ThrottleInv => FailuresBounded
  BY TryingFinite, AccountsAssumption DEF ThrottleInv, FailuresBounded
<1> QED BY <1>1, RequestInit, RequestStep, ThrottleInit, ThrottleStep, PTL DEF Spec
-----------------------------------------------------------------------------
(* What invitations count.                                                 *)

\* The fields of a row of users.
IsUser(r) ==
  r = [exists |-> r.exists, admin |-> r.admin, active |-> r.active, password |-> r.password,
       weak |-> r.weak, change |-> r.change, email |-> r.email, via |-> r.via]

UseInv ==
  /\ DOMAIN user = Users /\ \A u \in Users : IsUser(user[u])
  /\ code \in [Codes -> CodeRows] /\ \A c \in Codes : ~code[c].exists => code[c].used = 0
  /\ CountsUses(user, code)

SameUser(r, q) == IsUser(q) /\ q.via = r.via /\ (q.exists = r.exists \/ (q.exists /\ r.via = None))

LEMMA UserEdits ==
  ASSUME NEW r, IsUser(r), NEW a, NEW b, NEW c
  PROVE  /\ SameUser(r, r)
         /\ SameUser(r, [r EXCEPT !.email = a])
         /\ SameUser(r, [r EXCEPT !.active = a])
         /\ SameUser(r, [r EXCEPT !.password = a, !.weak = b])
         /\ SameUser(r, [r EXCEPT !.password = a, !.weak = b, !.change = c])
<1>1. SameUser(r, r) BY DEF SameUser
<1>2. SameUser(r, [r EXCEPT !.email = a]) BY DEF SameUser, IsUser
<1>3. SameUser(r, [r EXCEPT !.active = a]) BY DEF SameUser, IsUser
<1>0. "via" \in DOMAIN r /\ "exists" \in DOMAIN r BY DEF IsUser
<1>4. SameUser(r, [r EXCEPT !.password = a, !.weak = b])
  <2>1. PICK q : q = [r EXCEPT !.password = a, !.weak = b] OBVIOUS
  <2>2. IsUser(q) BY <2>1 DEF IsUser
  <2>3. q.via = r.via /\ q.exists = r.exists BY <1>0, <2>1
  <2> QED BY <2>1, <2>2, <2>3 DEF SameUser
<1>5. SameUser(r, [r EXCEPT !.password = a, !.weak = b, !.change = c])
  <2>1. PICK q : q = [r EXCEPT !.password = a, !.weak = b, !.change = c] OBVIOUS
  <2>2. IsUser(q) BY <2>1 DEF IsUser
  <2>3. q.via = r.via /\ q.exists = r.exists BY <1>0, <2>1
  <2> QED BY <2>1, <2>2, <2>3 DEF SameUser
<1> QED BY <1>1, <1>2, <1>3, <1>4, <1>5

LEMMA NewUserFields ==
  ASSUME NEW word, NEW change, NEW e, NEW c, NEW r, r = NewUser(word, change, e, c)
  PROVE  IsUser(r) /\ r.via = c /\ r.exists
<1>1. PICK n : n = NoUser OBVIOUS
<1>2. IsUser(n) /\ "via" \in DOMAIN n /\ "exists" \in DOMAIN n
  BY <1>1 DEF IsUser, NoUser
<1>3. r = [n EXCEPT !.exists = TRUE, !.active = TRUE, !.password = word, !.change = change,
                    !.email = e, !.via = c]
  BY <1>1 DEF NewUser
<1>4. IsUser(r) BY <1>2, <1>3 DEF IsUser
<1>5. r.via = c BY <1>2, <1>3
<1>6. r.exists = TRUE BY <1>2, <1>3
<1> QED BY <1>4, <1>5, <1>6

LEMMA UseInit == Init => UseInv
<1> SUFFICES ASSUME Init PROVE UseInv OBVIOUS
<1>1. PICK s \in Scenarios : user = s.user /\ code = s.code BY DEF Init
<1>2. UserTableOK(user) /\ CountsUses(user, code) /\ code \in [Codes -> CodeRows]
      /\ \A c \in Codes : ~code[c].exists => code[c].used = 0
  BY <1>1, ScenariosAreAccounts
<1>3. ASSUME NEW u \in Users PROVE IsUser(user[u])
  <2>1. user[u] \in UserRows BY <1>2 DEF UserTableOK
  <2> QED BY <2>1 DEF UserRows, IsUser
<1> QED BY <1>2, <1>3 DEF UseInv, UserTableOK

\* Counting the same users.
LEMMA SameUses ==
  ASSUME UseInv, DOMAIN user' = Users,
         \A u \in Users : SameUser(user[u], user'[u]),
         code' \in [Codes -> CodeRows],
         \A c \in Codes : code'[c].used = code[c].used /\ code'[c].used <= code'[c].max,
         \A c \in Codes : ~code'[c].exists => ~code[c].exists
  PROVE  UseInv'
<1>1. ASSUME NEW c \in Codes
      PROVE  {u \in Users : user'[u].via = c} = {u \in Users : user[u].via = c}
  BY DEF SameUser
<1>2. \A u \in Users : ~user'[u].exists => user'[u].via = None
  BY DEF UseInv, CountsUses, SameUser
<1>3. \A u \in Users : IsUser(user'[u]) BY DEF SameUser
<1>4. CountsUses(user', code') BY <1>1, <1>2 DEF UseInv, CountsUses
<1> QED BY <1>3, <1>4 DEF UseInv, IsUser, CountsUses
\* The writes that leave the codes alone.
LEMMA UsersSame ==
  ASSUME UseInv, NEW t \in Threads,
         \/ CreateSession(t) \/ WriteProfile(t) \/ ChangePassword(t) \/ ForcePassword(t)
         \/ ResetPassword(t) \/ CreateUser(t) \/ DisableUser(t) \/ EnableUser(t)
  PROVE  UseInv'
<1> DEFINE u == request[t].arg
<1>1. code' = code
  BY DEF CreateSession, WriteProfile, ChangePassword, ForcePassword, ResetPassword,
         CreateUser, DisableUser, EnableUser
<1>2. \/ user' = user
      \/ \E a, b : user' = [user EXCEPT ![u].password = a, ![u].weak = b]
      \/ \E a : user' = [user EXCEPT ![u].email = a]
      \/ \E a : user' = [user EXCEPT ![u].active = a]
      \/ \E a, b : user' = [user EXCEPT ![u] = Rewritten(@, request[t].seen, a, b)]
      \/ /\ ~user[u].exists
         /\ user' = [user EXCEPT ![u] = NewUser("temporary", TRUE, None, None)]
  BY DEF CreateSession, WriteProfile, ChangePassword, ForcePassword, ResetPassword,
         CreateUser, DisableUser, EnableUser
<1> HIDE DEF u
<1>3. DOMAIN user' = Users BY <1>2 DEF UseInv
<1>4. ASSUME NEW v \in Users PROVE SameUser(user[v], user'[v])
  <2>0. PICK r : r = user[v] OBVIOUS
  <2>1. IsUser(r) /\ (~r.exists => r.via = None) BY <2>0 DEF UseInv, CountsUses
  <2>2. SameUser(r, r) BY <2>1, UserEdits
  <2>3. ASSUME NEW a, NEW b, user' = [user EXCEPT ![u].password = a, ![u].weak = b]
        PROVE  SameUser(r, user'[v])
    <3>1. user'[v] = r \/ user'[v] = [r EXCEPT !.password = a, !.weak = b]
      BY <2>0, <2>3 DEF UseInv
    <3>2. SameUser(r, [r EXCEPT !.password = a, !.weak = b]) BY <2>1, UserEdits
    <3> QED BY <2>2, <3>1, <3>2
  <2>4. ASSUME NEW a, \/ user' = [user EXCEPT ![u].email = a]
                      \/ user' = [user EXCEPT ![u].active = a]
        PROVE  SameUser(r, user'[v])
    <3>1. \/ user'[v] = r \/ user'[v] = [r EXCEPT !.email = a]
          \/ user'[v] = [r EXCEPT !.active = a]
      BY <2>0, <2>4 DEF UseInv
    <3>2. SameUser(r, [r EXCEPT !.email = a]) /\ SameUser(r, [r EXCEPT !.active = a])
      BY <2>1, UserEdits
    <3> QED BY <2>2, <3>1, <3>2
  <2>5. ASSUME NEW a, NEW b,
               user' = [user EXCEPT ![u] = Rewritten(@, request[t].seen, a, b)]
        PROVE  SameUser(r, user'[v])
    <3>1. user'[v] = r \/ user'[v] = Rewritten(r, request[t].seen, a, b)
      BY <2>0, <2>5 DEF UseInv
    <3>2. \E d : Rewritten(r, request[t].seen, a, b)
                   = [r EXCEPT !.password = a, !.weak = FALSE, !.change = d]
      BY DEF Rewritten
    <3>3. PICK d : Rewritten(r, request[t].seen, a, b)
                     = [r EXCEPT !.password = a, !.weak = FALSE, !.change = d]
      BY <3>2
    <3>4. SameUser(r, [r EXCEPT !.password = a, !.weak = FALSE, !.change = d])
      BY <2>1, UserEdits
    <3> QED BY <2>2, <3>1, <3>3, <3>4
  <2>6. ASSUME ~user[u].exists,
               user' = [user EXCEPT ![u] = NewUser("temporary", TRUE, None, None)]
        PROVE  SameUser(r, user'[v])
    <3>0. PICK yes : yes = TRUE OBVIOUS
    <3>1. PICK n : n = NewUser("temporary", yes, None, None) OBVIOUS
    <3>2. IsUser(n) /\ n.via = None /\ n.exists BY <3>1, NewUserFields
    <3>3. user'[v] = r \/ (v = u /\ user'[v] = n) BY <2>0, <2>6, <3>0, <3>1 DEF UseInv
    <3>4. v = u => SameUser(r, n) BY <2>0, <2>1, <2>6, <3>2 DEF SameUser
    <3> QED BY <2>2, <3>3, <3>4
  <2> QED BY <1>2, <2>0, <2>2, <2>3, <2>4, <2>5, <2>6
<1> QED BY <1>1, <1>3, <1>4, SameUses DEF UseInv, CountsUses

\* An edit of a code that keeps its uses.
LEMMA CodeEdits ==
  ASSUME NEW r \in CodeRows, NEW q,
         \/ \E n \in 0 .. MaxUses, e \in BOOLEAN :
              n >= r.used /\ q = [r EXCEPT !.max = n, !.expired = e]
         \/ r.used <= r.max /\ q = [r EXCEPT !.revoked = TRUE]
         \/ r.used <= r.max /\ q = [r EXCEPT !.expired = TRUE]
  PROVE  q \in CodeRows /\ q.used = r.used /\ q.used <= q.max /\ q.exists = r.exists
BY AccountsAssumption DEF CodeRows

LEMMA OneCodeKeeps ==
  ASSUME code \in [Codes -> CodeRows], \A d \in Codes : code[d].used <= code[d].max,
         NEW c, NEW q, code' = code \/ code' = [code EXCEPT ![c] = q],
         \/ code' = code \/ c \notin Codes
         \/ q \in CodeRows /\ q.used = code[c].used /\ q.used <= q.max
            /\ q.exists = code[c].exists
  PROVE  /\ code' \in [Codes -> CodeRows]
         /\ \A d \in Codes : code'[d].used = code[d].used /\ code'[d].used <= code'[d].max
         /\ \A d \in Codes : code'[d].exists = code[d].exists
OBVIOUS

\* The writes that leave the users alone and no use uncounted.
LEMMA CodesSame ==
  ASSUME UseInv, RequestInv,
         \/ \E t \in Threads : UpdateInvitation(t) \/ RevokeInvitation(t)
         \/ \E c \in Codes : InvitationExpires(c)
  PROVE  UseInv'
<1>1. user' = user BY DEF UpdateInvitation, RevokeInvitation, InvitationExpires
<1>2. ASSUME NEW t \in Threads, UpdateInvitation(t)
      PROVE  /\ code' \in [Codes -> CodeRows]
             /\ \A c \in Codes : code'[c].used = code[c].used /\ code'[c].used <= code'[c].max
             /\ \A c \in Codes : code'[c].exists = code[c].exists
  <2>1. request[t].note \in 0 .. MaxUses
    <3>1. At(t, "write", "reinvite") BY <1>2 DEF UpdateInvitation
    <3> QED BY <3>1, AccountsAssumption DEF At, RequestInv, GoodRequest
  <2>2. PICK c : c = request[t].arg OBVIOUS
  <2>3. PICK n \in {request[t].note, code[c].max}, e \in {FALSE, code[c].expired} :
          code' = IF LimitStands(c, n)
                  THEN [code EXCEPT ![c].max = n, ![c].expired = e] ELSE code
    BY <1>2, <2>2 DEF UpdateInvitation
  <2>4. PICK q : q = [code[c] EXCEPT !.max = n, !.expired = e] OBVIOUS
  <2>5. \/ code' = code
        \/ code[c].used <= n /\ code' = [code EXCEPT ![c] = q]
    BY <2>3, <2>4 DEF LimitStands
  <2>6. ASSUME code' # code, c \in Codes
        PROVE  q \in CodeRows /\ q.used = code[c].used /\ q.used <= q.max
               /\ q.exists = code[c].exists
    <3>1. code[c] \in CodeRows BY <2>6 DEF UseInv
    <3>2. n \in 0 .. MaxUses /\ e \in BOOLEAN BY <2>1, <2>3, <3>1 DEF CodeRows
    <3> QED BY <2>4, <2>5, <2>6, <3>1, <3>2, CodeEdits
  <2> QED BY <2>5, <2>6, OneCodeKeeps DEF UseInv, CountsUses
<1>3. ASSUME NEW t \in Threads, RevokeInvitation(t)
      PROVE  /\ code' \in [Codes -> CodeRows]
             /\ \A c \in Codes : code'[c].used = code[c].used /\ code'[c].used <= code'[c].max
             /\ \A c \in Codes : code'[c].exists = code[c].exists
  <2>1. PICK c, q : c = request[t].arg /\ q = [code[c] EXCEPT !.revoked = TRUE] OBVIOUS
  <2>2. code' = code \/ code' = [code EXCEPT ![c] = q] BY <1>3, <2>1 DEF RevokeInvitation
  <2>3. ASSUME c \in Codes
        PROVE  q \in CodeRows /\ q.used = code[c].used /\ q.used <= q.max
               /\ q.exists = code[c].exists
    <3>1. code[c] \in CodeRows /\ code[c].used <= code[c].max
      BY <2>3 DEF UseInv, CountsUses
    <3> QED BY <2>1, <3>1, CodeEdits
  <2> QED BY <2>2, <2>3, OneCodeKeeps DEF UseInv, CountsUses
<1>4. ASSUME NEW d \in Codes, InvitationExpires(d)
      PROVE  /\ code' \in [Codes -> CodeRows]
             /\ \A c \in Codes : code'[c].used = code[c].used /\ code'[c].used <= code'[c].max
             /\ \A c \in Codes : code'[c].exists = code[c].exists
  <2>1. PICK c, q : c = d /\ q = [code[c] EXCEPT !.expired = TRUE] OBVIOUS
  <2>2. code' = code \/ code' = [code EXCEPT ![c] = q] BY <1>4, <2>1 DEF InvitationExpires
  <2>3. ASSUME c \in Codes
        PROVE  q \in CodeRows /\ q.used = code[c].used /\ q.used <= q.max
               /\ q.exists = code[c].exists
    <3>1. code[c] \in CodeRows /\ code[c].used <= code[c].max
      BY <2>3 DEF UseInv, CountsUses
    <3> QED BY <2>1, <3>1, CodeEdits
  <2> QED BY <2>2, <2>3, OneCodeKeeps DEF UseInv, CountsUses
<1>5. \A u \in Users : SameUser(user[u], user'[u]) BY <1>1, UserEdits DEF UseInv
<1> QED BY <1>1, <1>2, <1>3, <1>4, <1>5, SameUses DEF UseInv

LEMMA CreateKeepsUses ==
  ASSUME UseInv, RequestInv, NEW t \in Threads, CreateInvitation(t)
  PROVE  UseInv'
<1> DEFINE c == request[t].arg  row == [NoCode EXCEPT !.exists = TRUE, !.max = request[t].note]
<1>1. request[t].note \in 0 .. MaxUses /\ 0 \in 0 .. MaxUses
  BY AccountsAssumption DEF CreateInvitation, At, RequestInv, GoodRequest
<1>2. row \in CodeRows /\ row.used = 0 /\ row.max \in Nat
  <2>1. PICK max, r : max = request[t].note /\ r = row OBVIOUS
  <2>2. r = [[NoCode EXCEPT !.exists = TRUE] EXCEPT !.max = max] BY <2>1
  <2>3. PICK n, yes : n = [NoCode EXCEPT !.exists = yes] /\ yes = TRUE OBVIOUS
  <2>4. max \in 0 .. MaxUses /\ 0 \in 0 .. MaxUses /\ max \in Nat /\ yes \in BOOLEAN
    BY <1>1, <2>1, <2>3, AccountsAssumption
  <2> HIDE DEF row
  <2>5. NoCode \in CodeRows /\ NoCode.used = 0 BY <2>4 DEF NoCode, CodeRows
  <2>6. n \in CodeRows /\ n.used = 0 BY <2>3, <2>4, <2>5 DEF CodeRows
  <2>7. r = [n EXCEPT !.max = max] BY <2>2, <2>3
  <2>8. r \in CodeRows /\ r.used = 0 /\ r.max = max BY <2>4, <2>6, <2>7 DEF CodeRows
  <2> QED BY <2>1, <2>4, <2>8
<1>3. user' = user /\ (code' = code \/ (~code[c].exists /\ code' = [code EXCEPT ![c] = row]))
  BY DEF CreateInvitation
<1> HIDE DEF row, c
<1>4. DOMAIN code' = Codes /\ \A d \in Codes : code'[d] = code[d]
                                \/ (~code[d].exists /\ code'[d] = row)
  BY <1>3 DEF UseInv
<1>5. code' \in [Codes -> CodeRows] /\ \A d \in Codes : code'[d].used = code[d].used
  BY <1>2, <1>3, <1>4 DEF UseInv
<1>6. \A d \in Codes : code'[d].used <= code'[d].max
  <2>1. ASSUME NEW d \in Codes, code'[d] = code[d] PROVE code'[d].used <= code'[d].max
    BY <2>1 DEF UseInv, CountsUses
  <2>2. row.used <= row.max BY <1>2
  <2> QED BY <1>4, <2>1, <2>2
<1>7. \A d \in Codes : ~code'[d].exists => code'[d].used = 0
  BY <1>2, <1>4 DEF UseInv
<1>8. user' = user BY <1>3
<1> QED BY <1>5, <1>6, <1>7, <1>8 DEF UseInv, CountsUses
LEMMA RegisterKeepsUses ==
  ASSUME UseInv, RequestInv, NEW t \in Threads, NEW c \in Codes, NEW e, Register(t, c, e)
  PROVE  UseInv'
<1>1. PICK u \in Users : u = request[t].arg
  BY DEF Register, At, RequestInv, GoodRequest, AttemptPlaces
<1>2. CASE UNCHANGED <<user, code>>
  BY <1>2 DEF UseInv, CountsUses
<1>3. CASE Consumable(c) /\ ~(~user[u].exists /\ ~Taken(e))
  <2>1. user' = user /\ code' = [code EXCEPT ![c].used = code[c].used]
    BY <1>1, <1>3 DEF Register, ConsumedBy
  <2>2. code' = code BY <2>1 DEF UseInv, CodeRows
  <2> QED BY <1>2, <2>1, <2>2
<1>4. CASE Consumable(c) /\ ~user[u].exists /\ ~Taken(e)
  <2>0. PICK no : no = FALSE OBVIOUS
  <2>1. PICK n : n = NewUser("own", no, e, c) OBVIOUS
  <2>2. IsUser(n) /\ n.via = c /\ n.exists BY <2>1, NewUserFields
  <2>3. user' = [user EXCEPT ![u] = n] /\ code' = [code EXCEPT ![c].used = code[c].used + 1]
    BY <1>1, <1>4, <2>0, <2>1 DEF Register, ConsumedBy
  <2>4. /\ DOMAIN user' = Users /\ user'[u] = n
        /\ \A v \in Users \ {u} : user'[v] = user[v]
    BY <2>3 DEF UseInv
  <2>5. user[u].via = None /\ None \notin Codes
    BY <1>4, AccountsAssumption DEF UseInv, CountsUses
  <2>6. /\ code[c].exists /\ code[c].used + 1 <= code[c].max
        /\ code[c].used + 1 \in 0 .. MaxUses
    BY <1>4, AccountsAssumption DEF Consumable, UseInv, CodeRows
  <2>7. code' \in [Codes -> CodeRows]
        /\ \A d \in Codes : ~code'[d].exists => code'[d].used = 0
    BY <2>3, <2>6 DEF UseInv, CodeRows
  <2>8. code'[c].used = code[c].used + 1 /\ code'[c].max = code[c].max
        /\ \A d \in Codes \ {c} : code'[d] = code[d]
    BY <2>3 DEF UseInv, CodeRows
  <2>9. {v \in Users : user'[v].via = c} = {v \in Users : user[v].via = c} \cup {u}
    BY <2>2, <2>4
  <2>10. Cardinality({v \in Users : user'[v].via = c})
           = Cardinality({v \in Users : user[v].via = c}) + 1
    <3>1. IsFiniteSet({v \in Users : user[v].via = c}) BY AccountsAssumption, FS_Subset
    <3>2. u \notin {v \in Users : user[v].via = c} BY <2>5
    <3> QED BY <2>9, <3>1, <3>2, FS_AddElement
  <2>11. \A d \in Codes \ {c} :
           {v \in Users : user'[v].via = d} = {v \in Users : user[v].via = d}
    BY <2>2, <2>4, <2>5
  <2>12. \A v \in Users : IsUser(user'[v]) /\ (~user'[v].exists => user'[v].via = None)
    BY <2>2, <2>4 DEF UseInv, CountsUses
  <2>13. \A d \in Codes : /\ code'[d].used = Cardinality({v \in Users : user'[v].via = d})
                          /\ code'[d].used <= code'[d].max
    <3>1. /\ code'[c].used = Cardinality({v \in Users : user'[v].via = c})
          /\ code'[c].used <= code'[c].max
      BY <2>6, <2>8, <2>10 DEF UseInv, CountsUses
    <3>2. ASSUME NEW d \in Codes \ {c}
          PROVE  /\ code'[d].used = Cardinality({v \in Users : user'[v].via = d})
                 /\ code'[d].used <= code'[d].max
      BY <2>8, <2>11 DEF UseInv, CountsUses
    <3> QED BY <3>1, <3>2
  <2> QED BY <2>4, <2>7, <2>12, <2>13 DEF UseInv, CountsUses
<1> QED BY <1>1, <1>2, <1>3, <1>4 DEF Register

LEMMA DeleteKeepsUses ==
  ASSUME UseInv, NEW t \in Threads, DeleteInvitation(t)
  PROVE  UseInv'
<1>1. PICK c : c = request[t].arg OBVIOUS
<1>2. CASE code' = code /\ user' = user BY <1>2 DEF UseInv, CountsUses, IsUser
<1>3. SUFFICES ASSUME code[c].revoked PROVE UseInv'
  BY <1>1, <1>2 DEF DeleteInvitation
<1>4. code' = [code EXCEPT ![c] = NoCode]
      /\ user' = [u \in Users |-> IF user[u].via = c THEN [user[u] EXCEPT !.via = None]
                                  ELSE user[u]]
  BY <1>1, <1>3 DEF DeleteInvitation
<1>5. ASSUME NEW u \in Users
      PROVE  /\ IsUser(user'[u]) /\ user'[u].exists = user[u].exists
             /\ user'[u].via = IF user[u].via = c THEN None ELSE user[u].via
  <2>1. PICK r : r = user[u] OBVIOUS
  <2>2. IsUser(r) BY <2>1 DEF UseInv
  <2>3. PICK q : q = [r EXCEPT !.via = None] OBVIOUS
  <2>4. IsUser(q) BY <2>2, <2>3 DEF IsUser
  <2>5. q.exists = r.exists /\ q.via = None
    <3>1. "via" \in DOMAIN r /\ "exists" \in DOMAIN r BY <2>2 DEF IsUser
    <3> QED BY <2>3, <3>1
  <2>6. user'[u] = IF r.via = c THEN q ELSE r BY <1>4, <2>1, <2>3
  <2> QED BY <2>1, <2>2, <2>4, <2>5, <2>6
<1>6. NoCode \in CodeRows /\ NoCode.used = 0 /\ NoCode.max = 0 BY AccountsAssumption DEF NoCode, CodeRows
<1>7. DOMAIN code' = Codes
      /\ \A d \in Codes : code'[d] = IF d = c THEN NoCode ELSE code[d]
  BY <1>4 DEF UseInv
<1>8. code' \in [Codes -> CodeRows]
      /\ \A d \in Codes : ~code'[d].exists => code'[d].used = 0
  BY <1>4, <1>6, <1>7 DEF UseInv
<1>9. ASSUME NEW d \in Codes
      PROVE  /\ code'[d].used = Cardinality({v \in Users : user'[v].via = d})
             /\ code'[d].used <= code'[d].max
  <2>1. CASE d = c
    <3>1. {v \in Users : user'[v].via = d} = {} BY <1>5, <2>1, AccountsAssumption
    <3>2. Cardinality({v \in Users : user'[v].via = d}) = 0 BY <3>1, FS_EmptySet
    <3>3. code'[d].used = 0 /\ code'[d].max = 0 BY <1>6, <1>7, <2>1
    <3> QED BY <3>2, <3>3
  <2>2. CASE d # c
    <3>1. {v \in Users : user'[v].via = d} = {v \in Users : user[v].via = d}
      BY <1>5, <2>2, AccountsAssumption
    <3> QED BY <1>7, <2>2, <3>1 DEF UseInv, CountsUses
  <2> QED BY <2>1, <2>2
<1>10. \A u \in Users : ~user'[u].exists => user'[u].via = None
  BY <1>5 DEF UseInv, CountsUses
<1>11. DOMAIN user' = Users BY <1>4
<1> QED BY <1>5, <1>8, <1>9, <1>10, <1>11 DEF UseInv, CountsUses, IsUser

LEMMA UseStep == RequestInv /\ UseInv /\ [Next]_vars => UseInv'
<1> SUFFICES ASSUME RequestInv, UseInv, [Next]_vars PROVE UseInv' OBVIOUS
<1>1. CASE UNCHANGED <<user, code>> BY <1>1 DEF UseInv, CountsUses, IsUser
<1>2. ASSUME NEW t \in Threads, AccountWrite(t) \/ DisableUserAndKeys(t) PROVE UseInv'
  BY <1>2, UsersSame, CodesSame, CreateKeepsUses, RegisterKeepsUses, DeleteKeepsUses
  DEF AccountWrite, DisableUserAndKeys
<1>3. ASSUME NEW t \in Threads, AttemptStep(t) \/ AccountRead(t)
      PROVE  UNCHANGED <<user, code>>
  <2>1. CASE AttemptStep(t)
    BY <2>1 DEF AttemptStep, Attempt, VerifyCaptcha, Authenticate, RecordFailure,
                ResetFailures
  <2> QED BY <1>3, <2>1, ReadsBegin DEF Reads
<1>4. ASSUME NEW t \in Threads,
             \/ AccessRead(t) \/ AccessWrite(t) \/ DatabaseIsLocked(t)
             \/ \E outcome \in TestOutcomes : FinishUpdate(t, outcome)
      PROVE  UNCHANGED <<user, code>>
  BY <1>4, ReadsBegin, AccessWritesNoAccount DEF Reads
<1>5. CASE TimePasses
  BY <1>1, <1>5, CodesSame DEF TimePasses, FailureExpires, IssueCaptcha, Logout
<1>6. CASE UNCHANGED vars \/ (\E k \in Keys : AdmitTask(k)) \/ \E x \in Configs : CiteConfig(x)
  BY <1>1, <1>6 DEF vars, accountVars, AdmitTask, CiteConfig
<1> QED BY <1>1, <1>2, <1>3, <1>4, <1>5, <1>6 DEF Next

\* A code counts the users it brought and never exceeds its limit, whatever
\* registrations, new limits, revocations and deletes overlap (atomic_consume
\* with the rollback of AuthService.register and the CHECK of the table).
THEOREM InvitationsCountHolds == Spec => []InvitationsCount
<1>1. UseInv => InvitationsCount BY DEF UseInv, CountsUses, InvitationsCount
<1> QED BY <1>1, RequestInit, RequestStep, UseInit, UseStep, PTL DEF Spec
-----------------------------------------------------------------------------
(* Configurations that are enabled.                                        *)

\* The fields of a row of llm_configs.
IsConfig(r) ==
  r = [exists |-> r.exists, owner |-> r.owner, enabled |-> r.enabled, endpoint |-> r.endpoint,
       cited |-> r.cited]

ConfigInv ==
  /\ DOMAIN config = Configs /\ \A x \in Configs : IsConfig(config[x])
  /\ EnabledWasTested

LEMMA ConfigInit == Init => ConfigInv
<1> SUFFICES ASSUME Init PROVE ConfigInv OBVIOUS
<1>1. PICK s \in Scenarios : config = s.config BY DEF Init
<1>2. proven = {config[x].endpoint : x \in {y \in Configs : config[y].enabled}}
  BY DEF Init
<1>3. config \in [Configs -> ConfigRows]
  BY <1>1, ScenariosAreDatabases DEF DatabaseOK, Init
<1>4. ASSUME NEW x \in Configs PROVE IsConfig(config[x])
  <2>1. config[x] \in ConfigRows BY <1>3
  <2> QED BY <2>1 DEF ConfigRows, IsConfig
<1> QED BY <1>2, <1>3, <1>4 DEF ConfigInv, EnabledWasTested

\* Each row stays, becomes an edited one or is replaced.
LEMMA ConfigsKeep ==
  ASSUME ConfigInv, proven \subseteq proven', DOMAIN config' = Configs,
         \A x \in Configs :
           \/ config'[x] = config[x]
           \/ /\ IsConfig(config'[x])
              /\ config'[x].enabled => config'[x].endpoint \in proven'
  PROVE  ConfigInv'
BY DEF ConfigInv, EnabledWasTested, IsConfig

LEMMA EditedConfig ==
  ASSUME ConfigInv, proven \subseteq proven', NEW x, NEW e, NEW on,
         config' = [config EXCEPT ![x].endpoint = e, ![x].enabled = on],
         x \in Configs /\ on => e \in proven'
  PROVE  ConfigInv'
<1>1. DOMAIN config' = Configs BY DEF ConfigInv
<1>2. ASSUME NEW y \in Configs
      PROVE  \/ config'[y] = config[y]
             \/ /\ IsConfig(config'[y])
                /\ config'[y].enabled => config'[y].endpoint \in proven'
  <2>1. PICK r : r = config[y] OBVIOUS
  <2>2. PICK q : q = [r EXCEPT !.endpoint = e, !.enabled = on] OBVIOUS
  <2>3. config'[y] = r \/ (x = y /\ config'[y] = q) BY <2>1, <2>2 DEF ConfigInv
  <2>4. IsConfig(r) BY <2>1 DEF ConfigInv
  <2>5. IsConfig(q) BY <2>2, <2>4 DEF IsConfig
  <2>6. "endpoint" \in DOMAIN r /\ "enabled" \in DOMAIN r BY <2>4 DEF IsConfig
  <2>7. q.endpoint = e BY <2>2, <2>6
  <2>8. q.enabled => on BY <2>2, <2>6
  <2>9. x = y /\ q.enabled => q.endpoint \in proven' BY <2>7, <2>8
  <2> QED BY <2>1, <2>3, <2>5, <2>9
<1> QED BY <1>1, <1>2, ConfigsKeep

LEMMA ConfigStep == ConfigInv /\ [Next]_vars => ConfigInv'
<1> SUFFICES ASSUME ConfigInv, [Next]_vars PROVE ConfigInv' OBVIOUS
<1>1. CASE UNCHANGED <<config, proven>> BY <1>1 DEF ConfigInv, EnabledWasTested, IsConfig
<1>2. ASSUME NEW t \in Threads, NEW outcome, CreateConfig(t, outcome) PROVE ConfigInv'
  <2> DEFINE x == request[t].arg  note == request[t].note
             r == [exists |-> TRUE, owner |-> Caller(t), enabled |-> note.enabled,
                   endpoint |-> note.endpoint, cited |-> FALSE]
  <2>1. proven \subseteq proven' /\ (note.enabled /\ outcome = "ok" => note.endpoint \in proven')
    BY <1>2 DEF CreateConfig, Tested
  <2>2. config' = config
        \/ ((note.enabled => outcome = "ok") /\ config' = [config EXCEPT ![x] = r])
    BY <1>2 DEF CreateConfig
  <2>3. IsConfig(r) /\ r.enabled = note.enabled /\ r.endpoint = note.endpoint
    BY DEF IsConfig
  <2> HIDE DEF x, note, r
  <2>4. DOMAIN config' = Configs BY <2>2 DEF ConfigInv
  <2>5. \A y \in Configs : config'[y] = config[y]
                           \/ ((note.enabled => outcome = "ok") /\ config'[y] = r)
    BY <2>2 DEF ConfigInv
  <2> QED BY <2>1, <2>3, <2>4, <2>5, ConfigsKeep
<1>3. ASSUME NEW t \in Threads, DeleteConfig(t) PROVE ConfigInv'
  <2>1. IsConfig(NoConfig) /\ ~NoConfig.enabled BY DEF IsConfig, NoConfig
  <2>2. proven' = proven /\ (config' = config
                               \/ config' = [config EXCEPT ![request[t].arg] = NoConfig])
    BY <1>3 DEF DeleteConfig
  <2>3. DOMAIN config' = Configs
        /\ \A y \in Configs : config'[y] = config[y] \/ config'[y] = NoConfig
    BY <2>2 DEF ConfigInv
  <2> QED BY <2>1, <2>2, <2>3, ConfigsKeep
<1>4. ASSUME NEW t \in Threads, NEW s, NEW x \in Configs, NEW e, NEW on,
             UpdateConfig(t, s, x, e, on)
      PROVE  ConfigInv'
  <2>1. proven' = proven BY <1>4 DEF UpdateConfig
  <2>2. CASE config' = config BY <1>1, <2>1, <2>2
  <2>3. CASE ~NeedsTest(config[x], e, on)
    <3>1. config' = [config EXCEPT ![x].endpoint = e, ![x].enabled = on]
      BY <1>4, <2>3 DEF UpdateConfig
    <3>2. proven \subseteq proven' /\ (x \in Configs /\ on => e \in proven')
      BY <2>1, <2>3 DEF NeedsTest, ConfigInv, EnabledWasTested
    <3> QED BY <2>1, <3>1, <3>2, EditedConfig
  <2> QED BY <1>4, <2>2, <2>3 DEF UpdateConfig
<1>5. ASSUME NEW t \in Threads, NEW outcome, FinishUpdate(t, outcome) PROVE ConfigInv'
  <2>1. PICK x, note : x = request[t].arg /\ note = request[t].note OBVIOUS
  <2>2. proven \subseteq proven' /\ (outcome = "ok" => note.endpoint \in proven')
    BY <1>5, <2>1 DEF FinishUpdate, Tested
  <2>3. CASE outcome = "ok"
    <3>1. config' = [config EXCEPT ![x].endpoint = note.endpoint, ![x].enabled = note.enabled]
      BY <1>5, <2>1, <2>3 DEF FinishUpdate
    <3> QED BY <2>2, <2>3, <3>1, EditedConfig
  <2>4. CASE outcome # "ok"
    <3>1. config' = config BY <1>5, <2>4 DEF FinishUpdate
    <3> QED BY <2>2, <3>1, ConfigsKeep DEF ConfigInv
  <2> QED BY <2>3, <2>4
<1>6. ASSUME NEW t \in Threads, AccessWrite(t) PROVE ConfigInv'
  <2>1. CASE \/ CreateModel(t) \/ UpdateModel(t) \/ DeleteModel(t) \/ CreateGroup(t)
             \/ ReplaceMembers(t) \/ DeleteGroup(t) \/ CreateKey(t) \/ UpdateKey(t)
             \/ SwitchKey(t) \/ DeleteKey(t)
    BY <1>1, <2>1 DEF CreateModel, UpdateModel, DeleteModel, CreateGroup, ReplaceMembers,
                      DeleteGroup, CreateKey, UpdateKey, SwitchKey, DeleteKey
  <2> QED BY <1>2, <1>3, <1>4, <1>6, <2>1 DEF AccessWrite
<1>7. CASE \/ UNCHANGED vars \/ UNCHANGED accessVars
           \/ \E t \in Threads : DisableUserAndKeys(t) \/ DatabaseIsLocked(t)
           \/ \E k \in Keys : AdmitTask(k)
  BY <1>1, <1>7 DEF vars, accessVars, DisableUserAndKeys, DatabaseIsLocked, AdmitTask
<1>8. ASSUME NEW x \in Configs, CiteConfig(x) PROVE ConfigInv'
  <2>1. PICK r, q : r = config[x] /\ q = [r EXCEPT !.cited = ~r.cited] OBVIOUS
  <2>2. proven' = proven /\ config' = [config EXCEPT ![x] = q]
    BY <1>8, <2>1 DEF CiteConfig
  <2>3. IsConfig(r) /\ (r.enabled => r.endpoint \in proven)
    BY <2>1 DEF ConfigInv, EnabledWasTested
  <2>4. IsConfig(q) BY <2>1, <2>3 DEF IsConfig
  <2>5. q.enabled = r.enabled /\ q.endpoint = r.endpoint
    <3>1. "enabled" \in DOMAIN r /\ "endpoint" \in DOMAIN r BY <2>3 DEF IsConfig
    <3> QED BY <2>1, <3>1
  <2>6. DOMAIN config' = Configs
        /\ \A y \in Configs : config'[y] = config[y] \/ config'[y] = q
    BY <2>2 DEF ConfigInv
  <2> QED BY <2>2, <2>3, <2>4, <2>5, <2>6, ConfigsKeep
<1> QED BY <1>5, <1>6, <1>7, <1>8 DEF Next

\* An enabled configuration connects to what passed its test: an edit that
\* neither changes the endpoint nor enables it is the only one without a test,
\* and a test that fails takes the edit back.
THEOREM EnabledWasTestedHolds == Spec => []EnabledWasTested
<1>1. ConfigInv => EnabledWasTested BY DEF ConfigInv
<1> QED BY <1>1, ConfigInit, ConfigStep, PTL DEF Spec

-----------------------------------------------------------------------------
(* What a restricted key reaches.                                          *)

\* The fields of a row of api_keys.
IsKey(r) ==
  r = [exists |-> r.exists, owner |-> r.owner, enabled |-> r.enabled, group |-> r.group,
       picks |-> r.picks, config |-> r.config, tasks |-> r.tasks]

\* The rows of a key's selection are those that were chosen last.
KeyInv ==
  /\ DOMAIN key = Keys /\ DOMAIN chosen = Keys
  /\ \A k \in Keys : IsKey(key[k]) /\ (key[k].exists => chosen[k] = key[k].picks)

SameKey(r, q) == IsKey(q) /\ q.exists = r.exists /\ q.picks = r.picks

LEMMA KeyEdits ==
  ASSUME NEW r, IsKey(r), NEW a, NEW b, NEW c
  PROVE  /\ SameKey(r, r)
         /\ SameKey(r, [r EXCEPT !.enabled = a])
         /\ SameKey(r, [r EXCEPT !.tasks = a])
         /\ SameKey([r EXCEPT !.picks = b],
                    [r EXCEPT !.group = a, !.picks = b, !.config = c])
         /\ [r EXCEPT !.picks = b].picks = b /\ [r EXCEPT !.picks = b].exists = r.exists
<1>0. \A f \in {"exists", "picks", "enabled", "tasks", "group", "config"} : f \in DOMAIN r
  BY DEF IsKey
<1>1. SameKey(r, r) BY DEF SameKey
<1>2. SameKey(r, [r EXCEPT !.enabled = a])
  <2>1. PICK q : q = [r EXCEPT !.enabled = a] OBVIOUS
  <2>2. IsKey(q) BY <2>1 DEF IsKey
  <2>3. q.exists = r.exists /\ q.picks = r.picks BY <1>0, <2>1
  <2> QED BY <2>1, <2>2, <2>3 DEF SameKey
<1>3. SameKey(r, [r EXCEPT !.tasks = a])
  <2>1. PICK q : q = [r EXCEPT !.tasks = a] OBVIOUS
  <2>2. IsKey(q) BY <2>1 DEF IsKey
  <2>3. q.exists = r.exists /\ q.picks = r.picks BY <1>0, <2>1
  <2> QED BY <2>1, <2>2, <2>3 DEF SameKey
<1>4. PICK q : q = [r EXCEPT !.group = a, !.picks = b, !.config = c] OBVIOUS
<1>5. PICK p : p = [r EXCEPT !.picks = b] OBVIOUS
<1>6. IsKey(q) BY <1>4 DEF IsKey
<1>7. q.exists = r.exists /\ q.picks = b BY <1>0, <1>4
<1>8. p.exists = r.exists /\ p.picks = b BY <1>0, <1>5
<1> QED BY <1>1, <1>2, <1>3, <1>4, <1>5, <1>6, <1>7, <1>8 DEF SameKey

LEMMA KeyInit == Init => KeyInv
<1> SUFFICES ASSUME Init PROVE KeyInv OBVIOUS
<1>1. PICK s \in Scenarios : key = s.key BY DEF Init
<1>2. chosen = [k \in Keys |-> key[k].picks] BY DEF Init
<1>3. key \in [Keys -> ApiKeyRows]
  BY <1>1, ScenariosAreDatabases DEF DatabaseOK, Init
<1>4. ASSUME NEW k \in Keys PROVE IsKey(key[k])
  <2>1. key[k] \in ApiKeyRows BY <1>3
  <2> QED BY <2>1 DEF ApiKeyRows, IsKey
<1> QED BY <1>2, <1>3, <1>4 DEF KeyInv

\* Each row keeps its selection, or the selection is recorded with it.
LEMMA KeyRows ==
  ASSUME KeyInv, DOMAIN key' = Keys, DOMAIN chosen' = Keys,
         \A k \in Keys : \/ chosen'[k] = chosen[k] /\ SameKey(key[k], key'[k])
                         \/ IsKey(key'[k]) /\ ~key'[k].exists
                         \/ IsKey(key'[k]) /\ chosen'[k] = key'[k].picks
  PROVE  KeyInv'
<1>1. ASSUME NEW k \in Keys
      PROVE  IsKey(key'[k]) /\ (key'[k].exists => chosen'[k] = key'[k].picks)
  BY DEF KeyInv, SameKey
<1> QED BY <1>1 DEF KeyInv, IsKey

LEMMA CreateKeyKeeps ==
  ASSUME KeyInv, NEW t \in Threads, CreateKey(t)
  PROVE  KeyInv'
<1>1. PICK k, note, caller : k = request[t].arg /\ note = request[t].note /\ caller = Caller(t)
  OBVIOUS
<1>2. PICK r : r = [exists |-> TRUE, owner |-> caller, enabled |-> TRUE, group |-> note.group,
                    picks |-> note.picks, config |-> note.config, tasks |-> FALSE]
  OBVIOUS
<1>3. IsKey(r) /\ r.picks = note.picks BY <1>2 DEF IsKey
<1>4. \/ key' = key /\ chosen' = chosen
      \/ key' = [key EXCEPT ![k] = r] /\ chosen' = [chosen EXCEPT ![k] = note.picks]
  BY <1>1, <1>2 DEF CreateKey
<1>5. DOMAIN key' = Keys /\ DOMAIN chosen' = Keys BY <1>4 DEF KeyInv
<1>6. ASSUME NEW y \in Keys
      PROVE  \/ chosen'[y] = chosen[y] /\ key'[y] = key[y]
             \/ key'[y] = r /\ chosen'[y] = note.picks
  BY <1>4 DEF KeyInv
<1>7. \A y \in Keys : SameKey(key[y], key[y]) BY KeyEdits DEF KeyInv
<1> QED BY <1>3, <1>5, <1>6, <1>7, KeyRows

LEMMA UpdateKeyKeeps ==
  ASSUME KeyInv, NEW t \in Threads, UpdateKey(t)
  PROVE  KeyInv'
<1>1. PICK k, note : k = request[t].arg /\ note = request[t].note OBVIOUS
<1>2. PICK picks : picks = IF note.picks = Untouched THEN key[k].picks ELSE note.picks
  OBVIOUS
<1>3. CASE UNCHANGED <<key, chosen>> BY <1>3 DEF KeyInv, IsKey
<1>4. CASE /\ key[k].exists
           /\ key' = [key EXCEPT ![k].group = note.group, ![k].picks = picks,
                                ![k].config = note.config]
           /\ chosen' = IF note.picks = Untouched THEN chosen
                        ELSE [chosen EXCEPT ![k] = picks]
  <2>1. DOMAIN key' = Keys /\ DOMAIN chosen' = Keys BY <1>4 DEF KeyInv
  <2>2. ASSUME NEW y \in Keys, y # k
        PROVE  chosen'[y] = chosen[y] /\ SameKey(key[y], key'[y])
    <3>1. key'[y] = key[y] /\ chosen'[y] = chosen[y] BY <1>4, <2>2 DEF KeyInv
    <3> QED BY <3>1, KeyEdits DEF KeyInv
  <2>3. ASSUME k \in Keys PROVE IsKey(key'[k]) /\ chosen'[k] = key'[k].picks
    <3>1. PICK r : r = key[k] OBVIOUS
    <3>2. IsKey(r) BY <2>3, <3>1 DEF KeyInv
    <3>3. PICK q : q = [r EXCEPT !.group = note.group, !.picks = picks,
                                 !.config = note.config]
      OBVIOUS
    <3>4. key'[k] = q BY <1>4, <2>3, <3>1, <3>3 DEF KeyInv
    <3>5. IsKey(q) BY <3>2, <3>3 DEF IsKey
    <3>6. q.picks = picks
      <4>1. "picks" \in DOMAIN r BY <3>2 DEF IsKey
      <4> QED BY <3>3, <4>1
    <3>7. chosen'[k] = picks
      <4>1. CASE note.picks = Untouched
        BY <1>2, <1>4, <2>3, <4>1 DEF KeyInv
      <4>2. CASE note.picks # Untouched
        BY <1>4, <2>3, <4>2 DEF KeyInv
      <4> QED BY <4>1, <4>2
    <3> QED BY <3>4, <3>5, <3>6, <3>7
  <2> QED BY <2>1, <2>2, <2>3, KeyRows
<1> QED BY <1>1, <1>2, <1>3, <1>4 DEF UpdateKey

\* No key has selected a model that the database lets go.
LEMMA DeleteModelKeeps ==
  ASSUME KeyInv, NEW t \in Threads, DeleteModel(t)
  PROVE  KeyInv'
<1>1. PICK m : m = request[t].arg OBVIOUS
<1>2. chosen' = chosen BY DEF DeleteModel
<1>3. CASE key' = key BY <1>2, <1>3 DEF KeyInv, IsKey
<1>4. CASE ~ModelReferred(m) /\ key' = [k \in Keys |-> [key[k] EXCEPT !.picks = @ \ {m}]]
  <2>1. ASSUME NEW k \in Keys PROVE SameKey(key[k], key'[k])
    <3>1. PICK r : r = key[k] OBVIOUS
    <3>2. IsKey(r) BY <3>1 DEF KeyInv
    <3>3. r.picks \ {m} = r.picks BY <1>4, <3>1 DEF ModelReferred
    <3>4. PICK q : q = [r EXCEPT !.picks = r.picks \ {m}] OBVIOUS
    <3>5. key'[k] = q BY <1>4, <3>1, <3>4
    <3>6. IsKey(q) BY <3>2, <3>4 DEF IsKey
    <3>7. "picks" \in DOMAIN r /\ "exists" \in DOMAIN r BY <3>2 DEF IsKey
    <3>8. q.picks = r.picks /\ q.exists = r.exists BY <3>3, <3>4, <3>7
    <3> QED BY <3>1, <3>5, <3>6, <3>8 DEF SameKey
  <2>2. DOMAIN key' = Keys /\ DOMAIN chosen' = Keys BY <1>2, <1>4 DEF KeyInv
  <2> QED BY <1>2, <2>1, <2>2, KeyRows
<1> QED BY <1>1, <1>3, <1>4 DEF DeleteModel

\* Rows that are switched off or on, used or deleted.
LEMMA OneKeyKeeps ==
  ASSUME KeyInv, NEW k, chosen' = chosen, NEW a,
         \/ key' = [key EXCEPT ![k].enabled = a]
         \/ key' = [key EXCEPT ![k].tasks = a]
         \/ key' = [key EXCEPT ![k] = NoKey]
         \/ key' = key
  PROVE  KeyInv'
<1>1. DOMAIN key' = Keys /\ DOMAIN chosen' = Keys BY DEF KeyInv
<1>2. IsKey(NoKey) /\ ~NoKey.exists BY DEF IsKey, NoKey
<1>3. ASSUME NEW y \in Keys PROVE SameKey(key[y], key'[y]) \/ key'[y] = NoKey
  <2>1. PICK r : r = key[y] OBVIOUS
  <2>2. IsKey(r) BY <2>1 DEF KeyInv
  <2>3. \/ key'[y] = r \/ key'[y] = [r EXCEPT !.enabled = a]
        \/ key'[y] = [r EXCEPT !.tasks = a] \/ key'[y] = NoKey
    BY <2>1 DEF KeyInv
  <2>4. SameKey(r, r) /\ SameKey(r, [r EXCEPT !.enabled = a])
        /\ SameKey(r, [r EXCEPT !.tasks = a])
    BY <2>2, KeyEdits
  <2> QED BY <2>1, <2>3, <2>4
<1> QED BY <1>1, <1>2, <1>3, KeyRows

LEMMA DisableKeysKeeps ==
  ASSUME KeyInv, NEW u, key' = DisableKeysOf(u), chosen' = chosen
  PROVE  KeyInv'
<1>1. DOMAIN key' = Keys /\ DOMAIN chosen' = Keys BY DEF KeyInv, DisableKeysOf
<1>2. ASSUME NEW y \in Keys PROVE SameKey(key[y], key'[y])
  <2>1. PICK r, no : r = key[y] /\ no = FALSE OBVIOUS
  <2>2. IsKey(r) BY <2>1 DEF KeyInv
  <2>3. key'[y] = r \/ key'[y] = [r EXCEPT !.enabled = no] BY <2>1 DEF DisableKeysOf
  <2>4. SameKey(r, r) /\ SameKey(r, [r EXCEPT !.enabled = no]) BY <2>2, KeyEdits
  <2> QED BY <2>1, <2>3, <2>4
<1> QED BY <1>1, <1>2, KeyRows

LEMMA KeyStep == KeyInv /\ [Next]_vars => KeyInv'
<1> SUFFICES ASSUME KeyInv, [Next]_vars PROVE KeyInv' OBVIOUS
<1>1. CASE UNCHANGED <<key, chosen>> BY <1>1 DEF KeyInv, IsKey
<1>2. ASSUME NEW t \in Threads, SwitchKey(t) PROVE KeyInv'
  <2>1. PICK k, a : k = request[t].arg /\ a = request[t].note OBVIOUS
  <2>2. chosen' = chosen /\ (key' = [key EXCEPT ![k].enabled = a] \/ key' = key)
    BY <1>2, <2>1 DEF SwitchKey
  <2> QED BY <2>2, OneKeyKeeps
<1>3. ASSUME NEW t \in Threads, DeleteKey(t) PROVE KeyInv'
  <2>1. PICK k : k = request[t].arg OBVIOUS
  <2>2. chosen' = chosen /\ (key' = [key EXCEPT ![k] = NoKey] \/ key' = key)
    BY <1>3, <2>1 DEF DeleteKey
  <2> QED BY <2>2, OneKeyKeeps
<1>4. ASSUME NEW k \in Keys, AdmitTask(k) PROVE KeyInv'
  <2>1. PICK yes : yes = TRUE OBVIOUS
  <2>2. chosen' = chosen /\ key' = [key EXCEPT ![k].tasks = yes]
    BY <1>4, <2>1 DEF AdmitTask
  <2> QED BY <2>2, OneKeyKeeps
<1>5. ASSUME NEW t \in Threads, DisableUserAndKeys(t) PROVE KeyInv'
  <2>1. PICK u : u = request[t].arg OBVIOUS
  <2>2. chosen' = chosen /\ key' = DisableKeysOf(u) BY <1>5, <2>1 DEF DisableUserAndKeys
  <2> QED BY <2>2, DisableKeysKeeps
<1>6. ASSUME NEW t \in Threads, AccessWrite(t) PROVE KeyInv'
  <2>1. CASE \/ CreateModel(t) \/ UpdateModel(t) \/ CreateGroup(t) \/ ReplaceMembers(t)
             \/ DeleteGroup(t) \/ DeleteConfig(t)
    <3>1. UNCHANGED <<key, chosen>>
      BY <2>1 DEF CreateModel, UpdateModel, CreateGroup, ReplaceMembers, DeleteGroup,
                  DeleteConfig
    <3> QED BY <1>1, <3>1
  <2>2. CASE \/ \E outcome \in TestOutcomes : CreateConfig(t, outcome)
             \/ \E s \in LiveSessions, x \in Configs, e \in Endpoints, on \in BOOLEAN :
                  UpdateConfig(t, s, x, e, on)
    <3>1. ASSUME NEW outcome, CreateConfig(t, outcome) PROVE UNCHANGED <<key, chosen>>
      BY <3>1 DEF CreateConfig
    <3>2. ASSUME NEW u, NEW x, NEW e, NEW on, UpdateConfig(t, u, x, e, on)
          PROVE  UNCHANGED <<key, chosen>>
      BY <3>2 DEF UpdateConfig
    <3>3. UNCHANGED <<key, chosen>> BY <2>2, <3>1, <3>2
    <3> QED BY <1>1, <3>3
  <2> QED BY <1>2, <1>3, <1>6, <2>1, <2>2, CreateKeyKeeps, UpdateKeyKeeps, DeleteModelKeeps
      DEF AccessWrite
<1>7. CASE \/ UNCHANGED vars \/ UNCHANGED accessVars
           \/ \E t \in Threads : DatabaseIsLocked(t)
           \/ \E t \in Threads, outcome \in TestOutcomes : FinishUpdate(t, outcome)
           \/ \E x \in Configs : CiteConfig(x)
  BY <1>1, <1>7 DEF vars, accessVars, DatabaseIsLocked, FinishUpdate, CiteConfig
<1> QED BY <1>4, <1>5, <1>6, <1>7 DEF Next

\* A key restricted to some models never reaches another one, whatever edits
\* and deletes overlap: the rows of its selection are always the ones chosen
\* last, because none of them goes with its model.
THEOREM RestrictionHoldsAlways == Spec => []RestrictionHolds
<1>1. KeyInv => RestrictionHolds BY DEF KeyInv, RestrictionHolds, Effective
<1> QED BY <1>1, KeyInit, KeyStep, PTL DEF Spec
-----------------------------------------------------------------------------
(* What requests carry.                                                    *)

\* What a step makes of users and sessions: none of them goes.
UsersStay == \A u \in Users : user[u].exists => user'[u].exists

SessionsStay ==
  \A s \in SessionIds : session[s].user \in Users => session'[s].user = session[s].user

KeyNote(note) ==
  /\ note.group \in Groups \cup {None} /\ note.config \in Configs \cup {None}
  /\ note.picks # Untouched => note.picks \subseteq Models

ConfigNote(note) == note.endpoint \in Endpoints /\ note.enabled \in BOOLEAN

\* What a write relies on: rows that were there, columns of their types.
Carries(op, arg, note, users) ==
  /\ op \in {"profile", "enable"} => arg \in Users /\ users[arg].exists
  /\ op = "profile" => note \in Emails \cup {None}
  /\ op \in {"addModel", "editModel"} => arg \in Models /\ note.enabled \in BOOLEAN
  /\ op = "fillGroup" => note \subseteq Models
  /\ op \in {"addKey", "editKey"} => KeyNote(note)
  /\ op = "switchKey" => note \in BOOLEAN
  /\ op = "addConfig" => ConfigNote(note)

GoodNote(q, users, sessions) ==
  /\ q.pc = "session" => q.seen \in UserRows
  /\ q.pc = "write" => /\ q.by \in SessionIds /\ sessions[q.by].user \in Users
                       /\ Carries(q.op, q.arg, q.note, users)
  /\ q.pc = "testing" => ConfigNote(q.note)

NotesInv == \A t \in Threads : GoodNote(request[t], user, session)

\* What a step of t makes of the requests.
Notes(t) ==
  /\ \A q \in Threads \ {t} : request'[q] = request[q]
  /\ GoodNote(request'[t], user', session')

LEMMA NotesKept ==
  ASSUME NotesInv, UsersStay, SessionsStay, NEW t \in Threads, Notes(t)
  PROVE  NotesInv'
<1>1. ASSUME NEW q \in Threads, request'[q] = request[q]
      PROVE  GoodNote(request'[q], user', session')
  <2>1. GoodNote(request[q], user, session) BY DEF NotesInv
  <2>2. \A arg : request[q].op \in {"profile", "enable"} /\ arg \in Users /\ user[arg].exists
                   => user'[arg].exists
    BY DEF UsersStay
  <2>3. \A s \in SessionIds : session[s].user \in Users => session'[s].user \in Users
    BY DEF SessionsStay
  <2> QED BY <1>1, <2>1, <2>2, <2>3 DEF GoodNote, Carries
<1> QED BY <1>1 DEF Notes, NotesInv

LEMMA SameNotes ==
  ASSUME NotesInv, UsersStay, SessionsStay, UNCHANGED request
  PROVE  NotesInv'
<1>1. ASSUME NEW t \in Threads PROVE NotesInv'
  <2>1. GoodNote(request[t], user, session) BY DEF NotesInv
  <2>2. Notes(t)
    BY <2>1 DEF Notes, GoodNote, Carries, UsersStay, SessionsStay
  <2> QED BY <2>2, NotesKept
<1> QED BY <1>1 DEF NotesInv

\* A request that is over, or goes where nothing is carried.
LEMMA QuietNotes ==
  ASSUME RequestInv, NEW t \in Threads
  PROVE  /\ Done(t) => Notes(t)
         /\ \A p \in {"credentials", "failed", "succeeded"} : Goto(t, p) => Notes(t)
<1>1. CASE Done(t)
  <2>1. request'[t].pc = "idle" /\ \A q \in Threads \ {t} : request'[q] = request[q]
    BY <1>1 DEF Done, Idle, RequestInv
  <2> QED BY <2>1 DEF Notes, GoodNote
<1>2. ASSUME NEW p \in {"credentials", "failed", "succeeded"}, Goto(t, p) PROVE Notes(t)
  <2>1. IsRequest(request[t]) BY DEF RequestInv, GoodRequest
  <2>2. request'[t].pc = p /\ \A q \in Threads \ {t} : request'[q] = request[q]
    BY <1>2, <2>1 DEF Goto, RequestInv, IsRequest
  <2> QED BY <2>2 DEF Notes, GoodNote
<1> QED BY <1>1, <1>2

LEMMA BeginNotes ==
  ASSUME RequestInv, SessionTableOK(session), NEW t \in Threads, NEW s \in LiveSessions,
         NEW op, NEW x, NEW seen, NEW note, Begin(t, op, s, x, seen, note),
         Carries(op, x, note, user)
  PROVE  Notes(t)
<1> DEFINE q == [pc |-> "write", op |-> op, by |-> s, arg |-> x, seen |-> seen,
                 note |-> note]
<1>1. request' = [request EXCEPT ![t] = q] /\ UNCHANGED <<user, session>> BY DEF Begin
<1>2. s \in SessionIds /\ session[s].user \in Users
  BY DEF LiveSessions, SessionTableOK, SessionRows
<1>3. GoodNote(q, user, session) BY <1>2 DEF GoodNote
<1> HIDE DEF q
<1> QED BY <1>1, <1>3 DEF Notes, RequestInv

\* The service loads the caller, so the caller is registered.
LEMMA CallerExists ==
  ASSUME UserTableOK(user), SessionTableOK(session), NEW s \in LiveSessions, NEW op,
         Authorized(s, op)
  PROVE  session[s].user \in Users /\ user[session[s].user].exists
<1>1. session[s].user \in Users BY DEF LiveSessions, SessionTableOK, SessionRows
<1> QED BY <1>1 DEF Authorized, UserTableOK

LEMMA AccountReadNotes ==
  ASSUME RequestInv, UserTableOK(user), SessionTableOK(session), NEW t \in Threads,
         AccountRead(t)
  PROVE  Notes(t)
<1>1. PICK s \in LiveSessions :
        \/ \E e \in Emails \cup {None} : BeginProfile(t, s, e)
        \/ \E word \in Passwords : BeginPassword(t, s, word)
        \/ BeginForced(t, s)
        \/ \E u \in Users : \/ BeginCreateUser(t, s, u) \/ BeginDisable(t, s, u)
                            \/ BeginEnable(t, s, u) \/ BeginReset(t, s, u)
        \/ \E c, max : \E op \in {"invite", "reinvite", "revoke", "uninvite"} :
             BeginInvitation(t, s, op, c, max)
  BY DEF AccountRead
<1>2. ASSUME NEW e \in Emails \cup {None}, BeginProfile(t, s, e) PROVE Notes(t)
  <2>1. PICK u : u = session[s].user OBVIOUS
  <2>2. Begin(t, "profile", s, u, user[u], e) BY <1>2, <2>1 DEF BeginProfile
  <2>3. u \in Users /\ user[u].exists BY <2>1, <2>2, CallerExists DEF Begin
  <2>4. Carries("profile", u, e, user) BY <2>3 DEF Carries
  <2> QED BY <2>2, <2>4, BeginNotes
<1>3. ASSUME NEW op \in {"password", "forced", "create", "disable", "reset",
                         "invite", "reinvite", "revoke", "uninvite"},
             NEW x, NEW seen, NEW note, Begin(t, op, s, x, seen, note)
      PROVE  Notes(t)
  <2>1. Carries(op, x, note, user) BY DEF Carries
  <2> QED BY <1>3, <2>1, BeginNotes
<1>4. ASSUME NEW u \in Users, BeginEnable(t, s, u) PROVE Notes(t)
  <2>1. Carries("enable", u, None, user) BY <1>4 DEF Carries, BeginEnable
  <2> QED BY <1>4, <2>1, BeginNotes DEF BeginEnable
<1>5. ASSUME NEW word, BeginPassword(t, s, word) \/ BeginForced(t, s) PROVE Notes(t)
  BY <1>3, <1>5 DEF BeginPassword, BeginForced
<1>6. ASSUME NEW u, BeginCreateUser(t, s, u) \/ BeginDisable(t, s, u) \/ BeginReset(t, s, u)
      PROVE  Notes(t)
  BY <1>3, <1>6 DEF BeginCreateUser, BeginDisable, BeginReset
<1>7. ASSUME NEW c, NEW max, NEW op \in {"invite", "reinvite", "revoke", "uninvite"},
             BeginInvitation(t, s, op, c, max)
      PROVE  Notes(t)
  BY <1>3, <1>7 DEF BeginInvitation
<1> QED BY <1>1, <1>2, <1>4, <1>5, <1>6, <1>7

LEMMA KeyReadNotes ==
  ASSUME RequestInv, SessionTableOK(session), NEW t \in Threads, NEW s \in LiveSessions,
         NEW k \in Keys, NEW op \in {"addKey", "editKey", "switchKey", "dropKey"},
         BeginKey(t, s, op, k), key \in [Keys -> ApiKeyRows]
  PROVE  Notes(t)
<1>1. CASE op = "dropKey"
  <2>1. Begin(t, op, s, k, key[k], None) BY <1>1 DEF BeginKey
  <2>2. Carries(op, k, None, user) BY <1>1 DEF Carries
  <2> QED BY <2>1, <2>2, BeginNotes
<1>2. CASE op = "switchKey"
  <2>1. PICK on : on = ~key[k].enabled OBVIOUS
  <2>2. key[k].enabled \in BOOLEAN BY DEF ApiKeyRows
  <2>3. on \in BOOLEAN BY <2>1, <2>2
  <2>4. Begin(t, op, s, k, key[k], on) BY <1>2, <2>1 DEF BeginKey
  <2>5. Carries(op, k, on, user) BY <1>2, <2>3 DEF Carries
  <2> QED BY <2>4, <2>5, BeginNotes
<1>3. CASE op \in {"addKey", "editKey"}
  <2>1. PICK g \in Groups \cup {None}, x \in Configs \cup {None} :
          \E picks \in (SUBSET Candidates(session[s].user, g)) \cup
                         (IF op = "editKey" THEN {Untouched} ELSE {}) :
            Begin(t, op, s, k, key[k], [group |-> g, config |-> x, picks |-> picks])
    BY <1>3 DEF BeginKey
  <2>2. PICK picks \in (SUBSET Candidates(session[s].user, g)) \cup {Untouched} :
          Begin(t, op, s, k, key[k], [group |-> g, config |-> x, picks |-> picks])
    BY <2>1
  <2>3. picks # Untouched => picks \subseteq Models
    <3>1. VisibleTo(session[s].user) \subseteq Models BY DEF VisibleTo
    <3>2. Candidates(session[s].user, g) \subseteq Models BY <3>1 DEF Candidates
    <3>3. PICK all : all = Candidates(session[s].user, g) OBVIOUS
    <3>4. picks \in (SUBSET all) \cup {Untouched} BY <2>2, <3>3
    <3>5. all \subseteq Models BY <3>2, <3>3
    <3> QED BY <3>4, <3>5
  <2>4. PICK note : note = [group |-> g, config |-> x, picks |-> picks] OBVIOUS
  <2>5. KeyNote(note) BY <2>3, <2>4 DEF KeyNote
  <2>6. Carries(op, k, note, user) BY <1>3, <2>5 DEF Carries
  <2> QED BY <2>2, <2>4, <2>6, BeginNotes
<1> QED BY <1>1, <1>2, <1>3

LEMMA AccessReadNotes ==
  ASSUME RequestInv, SessionTableOK(session), NEW t \in Threads, AccessRead(t),
         key \in [Keys -> ApiKeyRows]
  PROVE  Notes(t)
<1>1. PICK s \in LiveSessions :
        \/ \E m \in Models, op \in {"addModel", "editModel", "dropModel"} :
             BeginModel(t, s, op, m)
        \/ \E g \in Groups, op \in {"addGroup", "fillGroup", "dropGroup"} :
             BeginGroup(t, s, op, g)
        \/ \E k \in Keys, op \in {"addKey", "editKey", "switchKey", "dropKey"} :
             BeginKey(t, s, op, k)
        \/ \E x \in Configs : BeginDropConfig(t, s, x)
        \/ \E x \in Configs, e \in Endpoints, on \in BOOLEAN : BeginAddConfig(t, s, x, e, on)
  BY DEF AccessRead
<1>2. ASSUME NEW m \in Models, NEW op \in {"addModel", "editModel", "dropModel"},
             BeginModel(t, s, op, m)
      PROVE  Notes(t)
  <2>1. CASE op = "dropModel" /\ Begin(t, op, s, m, model[m], None)
    <3>1. Carries(op, m, None, user) BY <2>1 DEF Carries
    <3> QED BY <2>1, <3>1, BeginNotes
  <2>2. ASSUME NEW gs, NEW on \in BOOLEAN, op # "dropModel",
               Begin(t, op, s, m, model[m], [groups |-> gs, enabled |-> on])
        PROVE  Notes(t)
    <3>1. PICK note : note = [groups |-> gs, enabled |-> on] OBVIOUS
    <3>2. note.enabled \in BOOLEAN BY <3>1
    <3>3. Carries(op, m, note, user) BY <2>2, <3>2 DEF Carries
    <3> QED BY <2>2, <3>1, <3>3, BeginNotes
  <2> QED BY <1>2, <2>1, <2>2 DEF BeginModel
<1>3. ASSUME NEW g \in Groups, NEW op \in {"addGroup", "fillGroup", "dropGroup"},
             BeginGroup(t, s, op, g)
      PROVE  Notes(t)
  <2>1. PICK ms \in SUBSET Models : Begin(t, op, s, g, group[g], ms)
    <3>1. PICK ms \in IF op = "fillGroup" THEN SUBSET {m \in Models : model[m].exists}
                      ELSE {{}} :
            Begin(t, op, s, g, group[g], ms)
      BY <1>3 DEF BeginGroup
    <3>2. ms \in SUBSET Models BY <3>1
    <3> QED BY <3>1, <3>2
  <2>2. Carries(op, g, ms, user) BY <2>1 DEF Carries
  <2> QED BY <2>1, <2>2, BeginNotes
<1>4. ASSUME NEW x \in Configs, BeginDropConfig(t, s, x) PROVE Notes(t)
  <2>1. Carries("dropConfig", x, None, user) BY DEF Carries
  <2> QED BY <1>4, <2>1, BeginNotes DEF BeginDropConfig
<1>5. ASSUME NEW x \in Configs, NEW e \in Endpoints, NEW on \in BOOLEAN,
             BeginAddConfig(t, s, x, e, on)
      PROVE  Notes(t)
  <2>1. PICK note : note = [endpoint |-> e, enabled |-> on] OBVIOUS
  <2>2. ConfigNote(note) BY <2>1 DEF ConfigNote
  <2>3. Carries("addConfig", x, note, user) BY <2>2 DEF Carries
  <2>4. Begin(t, "addConfig", s, x, config[x], note) BY <1>5, <2>1 DEF BeginAddConfig
  <2> QED BY <2>3, <2>4, BeginNotes
<1> QED BY <1>1, <1>2, <1>3, <1>4, <1>5, KeyReadNotes
-----------------------------------------------------------------------------
(* The tables of users and sessions.                                       *)

\* A row that may take the place of another one among these users.
Fits(users, u, r) ==
  /\ r \in UserRows /\ (users[u].exists => r.exists)
  /\ ~r.exists => ~r.active /\ r.email = None
  /\ \/ r.email \in {None, users[u].email}
     \/ \A v \in Users : users[v].email # r.email

LEMMA UserReplaced ==
  ASSUME UserTableOK(user), NEW u, NEW r, u \in Users => Fits(user, u, r),
         user' = [user EXCEPT ![u] = r]
  PROVE  UserTableOK(user') /\ UsersStay
<1>1. CASE u \notin Users
  <2>1. user' = user BY <1>1 DEF UserTableOK
  <2> QED BY <2>1 DEF UsersStay
<1>2. CASE u \in Users
  <2>1. user' \in [Users -> UserRows] BY <1>2 DEF UserTableOK, Fits
  <2>2. user'[u] = r /\ \A v \in Users \ {u} : user'[v] = user[v]
    BY <1>2 DEF UserTableOK
  <2>3. \A v \in Users : ~user'[v].exists => ~user'[v].active /\ user'[v].email = None
    BY <1>2, <2>2 DEF UserTableOK, Fits
  <2>4. ASSUME NEW v \in Users, NEW w \in Users,
               user'[v].email # None, user'[v].email = user'[w].email
        PROVE  v = w
    BY <1>2, <2>2, <2>4 DEF UserTableOK, Fits
  <2>5. UsersStay BY <1>2, <2>2 DEF UsersStay, Fits
  <2> QED BY <2>1, <2>3, <2>4, <2>5 DEF UserTableOK
<1> QED BY <1>1, <1>2

LEMMA NewUserFits ==
  ASSUME UserTableOK(user), NEW u \in Users, ~user[u].exists, NEW word \in Passwords,
         NEW change \in BOOLEAN, NEW e \in Emails \cup {None}, NEW c \in Codes \cup {None},
         ~Taken(e), NEW r, r = NewUser(word, change, e, c)
  PROVE  Fits(user, u, r)
<1>1. PICK n, yes : n = NoUser /\ yes = TRUE OBVIOUS
<1>2. n \in UserRows
  <2>1. "own" \in Passwords /\ None \in Emails \cup {None} /\ None \in Codes \cup {None}
    BY DEF Passwords
  <2> QED BY <1>1, <2>1 DEF NoUser, UserRows
<1>3. r = [n EXCEPT !.exists = yes, !.active = yes, !.password = word, !.change = change,
                    !.email = e, !.via = c]
  BY <1>1 DEF NewUser
<1>4. yes \in BOOLEAN BY <1>1
<1>5. r \in UserRows /\ r.exists = yes /\ r.email = e BY <1>2, <1>3, <1>4 DEF UserRows
<1>6. e = None \/ \A v \in Users : user[v].email # e BY DEF Taken, UserTableOK
<1> QED BY <1>1, <1>5, <1>6 DEF Fits

LEMMA RewrittenFits ==
  ASSUME UserTableOK(user), NEW u \in Users, NEW seen, NEW word \in Passwords,
         NEW change \in BOOLEAN, NEW r, r = Rewritten(user[u], seen, word, change)
  PROVE  Fits(user, u, r)
<1>1. PICK old, no : old = user[u] /\ no = FALSE OBVIOUS
<1>2. old \in UserRows /\ no \in BOOLEAN BY <1>1 DEF UserTableOK
<1>3. PICK new \in BOOLEAN : new = IF seen.change # change THEN change ELSE old.change
  <2>1. old.change \in BOOLEAN BY <1>2 DEF UserRows
  <2> QED BY <2>1
<1>4. r = [old EXCEPT !.password = word, !.weak = no, !.change = new]
  BY <1>1, <1>3 DEF Rewritten
<1>5. r \in UserRows /\ r.exists = old.exists /\ r.active = old.active /\ r.email = old.email
  BY <1>2, <1>4 DEF UserRows
<1>6. ~old.exists => ~old.active /\ old.email = None BY <1>1 DEF UserTableOK
<1> QED BY <1>1, <1>5, <1>6 DEF Fits

LEMMA ColumnFits ==
  ASSUME UserTableOK(user), NEW u \in Users, NEW a \in BOOLEAN, NEW word \in Passwords,
         NEW e \in Emails \cup {None}
  PROVE  /\ (a => user[u].exists) => Fits(user, u, [user[u] EXCEPT !.active = a])
         /\ user[u].exists /\ ~Taken(e) => Fits(user, u, [user[u] EXCEPT !.email = e])
         /\ Fits(user, u, [user[u] EXCEPT !.password = word, !.weak = a])
<1>1. PICK r : r = user[u] OBVIOUS
<1>2. r \in UserRows BY <1>1 DEF UserTableOK
<1>3. ~r.exists => ~r.active /\ r.email = None BY <1>1 DEF UserTableOK
<1>4. PICK q : q = [r EXCEPT !.active = a] OBVIOUS
<1>5. q \in UserRows /\ q.exists = r.exists /\ q.active = a /\ q.email = r.email
  BY <1>2, <1>4 DEF UserRows
<1>6. PICK m : m = [r EXCEPT !.email = e] OBVIOUS
<1>7. m \in UserRows /\ m.exists = r.exists /\ m.active = r.active /\ m.email = e
  BY <1>2, <1>6 DEF UserRows
<1>8. PICK p : p = [r EXCEPT !.password = word, !.weak = a] OBVIOUS
<1>9. p \in UserRows /\ p.exists = r.exists /\ p.active = r.active /\ p.email = r.email
  BY <1>2, <1>8 DEF UserRows
<1>10. ~Taken(e) => e = None \/ \A v \in Users : user[v].email # e
  BY DEF Taken, UserTableOK
<1>11. (a => r.exists) => Fits(user, u, q) BY <1>1, <1>3, <1>5 DEF Fits
<1>12. r.exists /\ ~Taken(e) => Fits(user, u, m) BY <1>1, <1>7, <1>10 DEF Fits
<1>13. Fits(user, u, p) BY <1>1, <1>3, <1>9 DEF Fits
<1> QED BY <1>1, <1>4, <1>6, <1>8, <1>11, <1>12, <1>13

\* Sessions that are revoked or ended.
LEMMA SessionsEnd ==
  ASSUME SessionTableOK(session),
         \/ session' = session
         \/ \E u, kept : session' = Revoke(u, kept)
         \/ \E s : session' = [session EXCEPT ![s].live = FALSE]
  PROVE  SessionTableOK(session') /\ SessionsStay
<1>1. ASSUME NEW s \in SessionIds
      PROVE  session'[s] = session[s] \/ session'[s] = [session[s] EXCEPT !.live = FALSE]
  BY DEF Revoke, SessionTableOK
<1>2. DOMAIN session' = SessionIds /\ session' = [s \in SessionIds |-> session'[s]]
  BY DEF Revoke, SessionTableOK
<1>3. ASSUME NEW s \in SessionIds
      PROVE  /\ session'[s] \in SessionRows /\ session'[s].user = session[s].user
             /\ session'[s].live => session[s].live
  <2>1. PICK r, no : r = session[s] /\ no = FALSE OBVIOUS
  <2>2. r \in SessionRows /\ no \in BOOLEAN BY <2>1 DEF SessionTableOK
  <2>3. PICK q : q = [r EXCEPT !.live = no] OBVIOUS
  <2>4. q \in SessionRows /\ q.user = r.user /\ q.live = no
    BY <2>2, <2>3 DEF SessionRows
  <2>5. session'[s] = r \/ session'[s] = q BY <1>1, <2>1, <2>3
  <2> QED BY <2>1, <2>2, <2>4, <2>5
<1>4. session' \in [SessionIds -> SessionRows] BY <1>2, <1>3
<1> QED BY <1>3, <1>4 DEF SessionTableOK, SessionsStay

AccountTables == UserTableOK(user) /\ SessionTableOK(session)

\* What an account write leaves behind.
AccountEffect(t) ==
  AccountTables' /\ UsersStay /\ SessionsStay /\ Notes(t)

LEMMA SameAccounts ==
  /\ AccountTables /\ user' = user => UserTableOK(user') /\ UsersStay
  /\ AccountTables /\ session' = session => SessionTableOK(session') /\ SessionsStay
BY DEF AccountTables, UsersStay, SessionsStay

LEMMA CreateSessionTables ==
  ASSUME RequestInv, NotesInv, AccountTables, NEW t \in Threads, CreateSession(t)
  PROVE  AccountEffect(t)
<1>1. PICK u \in Users : u = request[t].arg
  BY DEF CreateSession, At, RequestInv, GoodRequest, AttemptPlaces
<1>2. PICK seen \in UserRows : seen = request[t].seen
  BY DEF CreateSession, At, NotesInv, GoodNote
<1>3. UserTableOK(user') /\ UsersStay
  <2>1. CASE user' = user BY <2>1, SameAccounts
  <2>2. CASE user' = [user EXCEPT ![u].password = seen.password, ![u].weak = FALSE]
    <3>1. PICK word, no : word = seen.password /\ no = FALSE OBVIOUS
    <3>2. word \in Passwords /\ no \in BOOLEAN BY <1>2, <3>1 DEF UserRows
    <3>3. PICK r : r = [user[u] EXCEPT !.password = word, !.weak = no] OBVIOUS
    <3>4. user' = [user EXCEPT ![u] = r]
      <4>1. user' = [user EXCEPT ![u].password = word, ![u].weak = no] BY <2>2, <3>1
      <4> QED BY <3>3, <4>1 DEF AccountTables, UserTableOK
    <3>5. None \in Emails \cup {None} OBVIOUS
    <3>6. Fits(user, u, r) BY <3>2, <3>3, <3>5, ColumnFits DEF AccountTables
    <3> QED BY <3>4, <3>6, UserReplaced DEF AccountTables
  <2> QED BY <1>1, <1>2, <2>1, <2>2 DEF CreateSession
<1>4. SessionTableOK(session') /\ SessionsStay
  <2>1. PICK s, yes :
          /\ s \in SessionIds /\ session[s].user = None /\ yes = TRUE
          /\ session' = [session EXCEPT ![s] = [user |-> u, live |-> yes]]
    BY <1>1 DEF CreateSession
  <2>2. [user |-> u, live |-> yes] \in SessionRows BY <2>1 DEF SessionRows
  <2>3. None \notin Users BY AccountsAssumption
  <2>4. session' \in [SessionIds -> SessionRows]
    BY <2>1, <2>2 DEF AccountTables, SessionTableOK
  <2>5. session'[s].user = u /\ \A r \in SessionIds \ {s} : session'[r] = session[r]
    BY <2>1 DEF AccountTables, SessionTableOK
  <2>6. SessionsStay BY <2>1, <2>3, <2>5 DEF SessionsStay
  <2> QED BY <2>3, <2>4, <2>5, <2>6 DEF SessionTableOK, AccountTables
<1>5. Notes(t) BY QuietNotes DEF CreateSession
<1> QED BY <1>3, <1>4, <1>5 DEF AccountEffect, AccountTables

LEMMA RegisterTables ==
  ASSUME RequestInv, AccountTables, NEW t \in Threads, NEW c \in Codes,
         NEW e \in Emails \cup {None}, Register(t, c, e)
  PROVE  AccountEffect(t)
<1>1. PICK u \in Users : u = request[t].arg
  BY DEF Register, At, RequestInv, GoodRequest, AttemptPlaces
<1>2. UserTableOK(user') /\ UsersStay
  <2>1. CASE user' = user BY <2>1, SameAccounts
  <2>2. CASE /\ ~user[u].exists /\ ~Taken(e)
             /\ user' = [user EXCEPT ![u] = NewUser("own", FALSE, e, c)]
    <3>1. PICK word, no : word = "own" /\ no = FALSE OBVIOUS
    <3>2. PICK r : r = NewUser(word, no, e, c) OBVIOUS
    <3>3. word \in Passwords /\ no \in BOOLEAN /\ c \in Codes \cup {None}
      BY <3>1 DEF Passwords
    <3>4. Fits(user, u, r) BY <2>2, <3>2, <3>3, NewUserFits DEF AccountTables
    <3>5. user' = [user EXCEPT ![u] = r] BY <2>2, <3>1, <3>2
    <3> QED BY <3>4, <3>5, UserReplaced DEF AccountTables
  <2> QED BY <1>1, <2>1, <2>2 DEF Register
<1>3. SessionTableOK(session') /\ SessionsStay BY SameAccounts DEF Register
<1>4. Notes(t) BY QuietNotes DEF Register
<1> QED BY <1>2, <1>3, <1>4 DEF AccountEffect, AccountTables

LEMMA ProfileTables ==
  ASSUME RequestInv, NotesInv, AccountTables, NEW t \in Threads,
         \/ WriteProfile(t) \/ EnableUser(t)
  PROVE  AccountEffect(t)
<1>1. PICK u, e : u = request[t].arg /\ e = request[t].note OBVIOUS
<1>2. u \in Users /\ user[u].exists
  BY <1>1 DEF WriteProfile, EnableUser, At, NotesInv, GoodNote, Carries
<1>3. CASE WriteProfile(t)
  <2>1. e \in Emails \cup {None}
    BY <1>1, <1>3 DEF WriteProfile, At, NotesInv, GoodNote, Carries
  <2>2. UserTableOK(user') /\ UsersStay
    <3>1. CASE user' = user BY <3>1, SameAccounts
    <3>2. CASE KeepsUnique(u, e) /\ user' = [user EXCEPT ![u].email = e]
      <4>1. CASE Taken(e)
        <5>1. user[u].email = e BY <3>2, <4>1 DEF KeepsUnique
        <5>2. user' = user
          <6>1. PICK r : r = user[u] OBVIOUS
          <6>2. r \in UserRows BY <1>2, <6>1 DEF AccountTables, UserTableOK
          <6>3. [r EXCEPT !.email = e] = r BY <5>1, <6>1, <6>2 DEF UserRows
          <6>4. user' = [user EXCEPT ![u] = [r EXCEPT !.email = e]] BY <3>2, <6>1
          <6> QED BY <6>1, <6>3, <6>4 DEF AccountTables, UserTableOK
        <5> QED BY <5>2, SameAccounts
      <4>2. CASE ~Taken(e)
        <5>1. PICK r : r = [user[u] EXCEPT !.email = e] OBVIOUS
        <5>2. "own" \in Passwords /\ TRUE \in BOOLEAN BY DEF Passwords
        <5>3. Fits(user, u, r) BY <1>2, <2>1, <4>2, <5>1, <5>2, ColumnFits DEF AccountTables
        <5>4. user' = [user EXCEPT ![u] = r] BY <3>2, <5>1
        <5> QED BY <5>3, <5>4, UserReplaced DEF AccountTables
      <4> QED BY <4>1, <4>2
    <3> QED BY <1>1, <1>3, <3>1, <3>2 DEF WriteProfile
  <2>3. SessionTableOK(session') /\ SessionsStay BY <1>3, SameAccounts DEF WriteProfile
  <2>4. Notes(t) BY <1>3, QuietNotes DEF WriteProfile
  <2> QED BY <2>2, <2>3, <2>4 DEF AccountEffect, AccountTables
<1>4. CASE EnableUser(t)
  <2>1. PICK yes : yes = TRUE OBVIOUS
  <2>2. PICK r : r = [user[u] EXCEPT !.active = yes] OBVIOUS
  <2>3. "own" \in Passwords /\ yes \in BOOLEAN /\ None \in Emails \cup {None}
    BY <2>1 DEF Passwords
  <2>4. Fits(user, u, r) BY <1>2, <2>2, <2>3, ColumnFits DEF AccountTables
  <2>5. user' = [user EXCEPT ![u] = r] BY <1>1, <1>4, <2>1, <2>2 DEF EnableUser
  <2>6. UserTableOK(user') /\ UsersStay
    BY <2>4, <2>5, UserReplaced DEF AccountTables
  <2>7. SessionTableOK(session') /\ SessionsStay BY <1>4, SameAccounts DEF EnableUser
  <2>8. Notes(t) BY <1>4, QuietNotes DEF EnableUser
  <2> QED BY <2>6, <2>7, <2>8 DEF AccountEffect, AccountTables
<1> QED BY <1>3, <1>4

LEMMA PasswordTables ==
  ASSUME RequestInv, AccountTables, NEW t \in Threads,
         \/ ChangePassword(t) \/ ForcePassword(t) \/ ResetPassword(t) \/ DisableUser(t)
  PROVE  AccountEffect(t)
<1>1. PICK u, seen : u = request[t].arg /\ seen = request[t].seen OBVIOUS
<1>2. SessionTableOK(session') /\ SessionsStay
  <2>1. session' = session \/ \E v, kept : session' = Revoke(v, kept)
    BY DEF ChangePassword, ForcePassword, ResetPassword, DisableUser
  <2> QED BY <2>1, SessionsEnd DEF AccountTables
<1>3. ASSUME DisableUser(t) PROVE UserTableOK(user') /\ UsersStay
  <2>1. PICK no : no = FALSE OBVIOUS
  <2>2. PICK r : r = [user[u] EXCEPT !.active = no] OBVIOUS
  <2>3. "own" \in Passwords /\ no \in BOOLEAN /\ None \in Emails \cup {None}
    BY <2>1 DEF Passwords
  <2>4. u \in Users => Fits(user, u, r) BY <2>1, <2>2, <2>3, ColumnFits DEF AccountTables
  <2>5. user' = [user EXCEPT ![u] = r] BY <1>1, <1>3, <2>1, <2>2 DEF DisableUser
  <2> QED BY <2>4, <2>5, UserReplaced DEF AccountTables
<1>4. ASSUME ChangePassword(t) \/ ForcePassword(t) \/ ResetPassword(t)
      PROVE  UserTableOK(user') /\ UsersStay
  <2>1. PICK word \in Passwords, change \in BOOLEAN :
          user' = [user EXCEPT ![u] = Rewritten(@, seen, word, change)]
    BY <1>1, <1>4 DEF ChangePassword, ForcePassword, ResetPassword, Passwords
  <2>2. PICK r : r = Rewritten(user[u], seen, word, change) OBVIOUS
  <2>3. u \in Users => Fits(user, u, r) BY <2>2, RewrittenFits DEF AccountTables
  <2>4. user' = [user EXCEPT ![u] = r] BY <2>1, <2>2
  <2> QED BY <2>3, <2>4, UserReplaced DEF AccountTables
<1>5. Notes(t)
  BY QuietNotes DEF ChangePassword, ForcePassword, ResetPassword, DisableUser
<1> QED BY <1>2, <1>3, <1>4, <1>5 DEF AccountEffect, AccountTables

LEMMA CreateUserTables ==
  ASSUME RequestInv, AccountTables, NEW t \in Threads, CreateUser(t)
  PROVE  AccountEffect(t)
<1>1. PICK u, word, yes : u = request[t].arg /\ word = "temporary" /\ yes = TRUE OBVIOUS
<1>2. UserTableOK(user') /\ UsersStay
  <2>1. CASE user' = user BY <2>1, SameAccounts
  <2>2. CASE ~user[u].exists /\ user' = [user EXCEPT ![u] = NewUser(word, yes, None, None)]
    <3>1. PICK r : r = NewUser(word, yes, None, None) OBVIOUS
    <3>2. word \in Passwords /\ yes \in BOOLEAN /\ None \in Emails \cup {None}
          /\ None \in Codes \cup {None} /\ ~Taken(None)
      BY <1>1 DEF Passwords, Taken
    <3>3. u \in Users => Fits(user, u, r) BY <2>2, <3>1, <3>2, NewUserFits DEF AccountTables
    <3>4. user' = [user EXCEPT ![u] = r] BY <2>2, <3>1
    <3> QED BY <3>3, <3>4, UserReplaced DEF AccountTables
  <2> QED BY <1>1, <2>1, <2>2 DEF CreateUser
<1>3. SessionTableOK(session') /\ SessionsStay BY SameAccounts DEF CreateUser
<1>4. Notes(t) BY QuietNotes DEF CreateUser
<1> QED BY <1>2, <1>3, <1>4 DEF AccountEffect, AccountTables

\* The users that a deleted invitation brought keep their accounts.
LEMMA InvitationTables ==
  ASSUME RequestInv, AccountTables, NEW t \in Threads,
         \/ CreateInvitation(t) \/ UpdateInvitation(t) \/ RevokeInvitation(t)
         \/ DeleteInvitation(t)
  PROVE  AccountEffect(t)
<1>1. SessionTableOK(session') /\ SessionsStay
  BY SameAccounts DEF CreateInvitation, UpdateInvitation, RevokeInvitation, DeleteInvitation
<1>2. Notes(t)
  BY QuietNotes DEF CreateInvitation, UpdateInvitation, RevokeInvitation, DeleteInvitation
<1>3. CASE user' = user BY <1>1, <1>2, <1>3, SameAccounts DEF AccountEffect, AccountTables
<1>4. CASE user' # user /\ DeleteInvitation(t)
  <2>1. PICK c : c = request[t].arg OBVIOUS
  <2>2. user' = [u \in Users |-> IF user[u].via = c THEN [user[u] EXCEPT !.via = None]
                                 ELSE user[u]]
    BY <1>3, <1>4, <2>1 DEF DeleteInvitation
  <2>3. ASSUME NEW u \in Users
        PROVE  /\ user'[u] \in UserRows /\ user'[u].exists = user[u].exists
               /\ user'[u].active = user[u].active /\ user'[u].email = user[u].email
    <3>1. PICK r : r = user[u] OBVIOUS
    <3>2. r \in UserRows BY <3>1 DEF AccountTables, UserTableOK
    <3>3. PICK q : q = [r EXCEPT !.via = None] OBVIOUS
    <3>4. q \in UserRows /\ q.exists = r.exists /\ q.active = r.active /\ q.email = r.email
      BY <3>2, <3>3 DEF UserRows
    <3>5. user'[u] = r \/ user'[u] = q BY <2>2, <3>1, <3>3
    <3> QED BY <3>1, <3>2, <3>4, <3>5
  <2>4. user' \in [Users -> UserRows] BY <2>2, <2>3
  <2>5. UserTableOK(user') BY <2>3, <2>4 DEF AccountTables, UserTableOK
  <2>6. UsersStay BY <2>3 DEF UsersStay
  <2> QED BY <1>1, <1>2, <2>5, <2>6 DEF AccountEffect, AccountTables
<1> QED BY <1>3, <1>4 DEF CreateInvitation, UpdateInvitation, RevokeInvitation

LEMMA AccountWriteTables ==
  ASSUME RequestInv, NotesInv, AccountTables, NEW t \in Threads,
         AccountWrite(t) \/ DisableUserAndKeys(t)
  PROVE  AccountEffect(t)
BY CreateSessionTables, RegisterTables, ProfileTables, PasswordTables, CreateUserTables,
   InvitationTables
DEF AccountWrite, DisableUserAndKeys

LEMMA AttemptNotes ==
  ASSUME RequestInv, AccountTables, NEW t \in Threads, AttemptStep(t)
  PROVE  Notes(t) /\ UNCHANGED <<user, session>>
<1>1. UNCHANGED <<user, session>>
  BY DEF AttemptStep, Attempt, VerifyCaptcha, Authenticate, RecordFailure, ResetFailures
<1>2. ASSUME NEW op, NEW u, Attempt(t, op, u) PROVE Notes(t)
  <2>1. PICK r : r = [Idle EXCEPT !.pc = "captcha", !.op = op, !.arg = u] OBVIOUS
  <2>2. request' = [request EXCEPT ![t] = r] BY <1>2, <2>1 DEF Attempt
  <2>3. r.pc = "captcha" BY <2>1 DEF Idle
  <2> QED BY <2>2, <2>3 DEF Notes, GoodNote, RequestInv
<1>3. ASSUME NEW word, Authenticate(t, word) PROVE Notes(t)
  <2>1. PICK u \in Users : u = request[t].arg
    BY <1>3 DEF Authenticate, At, RequestInv, GoodRequest, AttemptPlaces
  <2>2. PICK x : x = user[u] OBVIOUS
  <2>3. x \in UserRows BY <2>2 DEF AccountTables, UserTableOK
  <2>4. CASE Goto(t, "failed") BY <2>4, QuietNotes
  <2>5. CASE request' = [request EXCEPT ![t].pc = "session", ![t].seen = x]
    <3>1. PICK r : r = request[t] OBVIOUS
    <3>2. IsRequest(r) BY <3>1 DEF RequestInv, GoodRequest
    <3>3. request'[t] = [r EXCEPT !.pc = "session", !.seen = x]
          /\ \A q \in Threads \ {t} : request'[q] = request[q]
      BY <2>5, <3>1 DEF RequestInv
    <3>4. request'[t] = [pc |-> "session", op |-> r.op, by |-> r.by, arg |-> r.arg,
                         seen |-> x, note |-> r.note]
      BY ZenonT(40), <3>2, <3>3, RequestFields
    <3>5. request'[t].pc = "session" /\ request'[t].seen = x BY <3>4
    <3> QED BY <2>3, <3>3, <3>5 DEF Notes, GoodNote
  <2> QED BY <1>3, <2>1, <2>2, <2>4, <2>5 DEF Authenticate, Goto
<1>4. ASSUME NEW c, NEW right, VerifyCaptcha(t, c, right) PROVE Notes(t)
  BY <1>4, QuietNotes DEF VerifyCaptcha
<1>5. CASE RecordFailure(t) \/ ResetFailures(t)
  BY <1>5, QuietNotes DEF RecordFailure, ResetFailures
<1> QED BY <1>1, <1>2, <1>3, <1>4, <1>5 DEF AttemptStep

LEMMA AccessWriteNotes ==
  ASSUME RequestInv, AccountTables, NEW t \in Threads,
         \/ AccessWrite(t) \/ DatabaseIsLocked(t)
         \/ \E outcome \in TestOutcomes : FinishUpdate(t, outcome)
  PROVE  Notes(t) \/ UNCHANGED request
<1>1. CASE Answered(t) BY <1>1, QuietNotes DEF Answered
<1>2. ASSUME NEW s, NEW x, NEW e \in Endpoints, NEW on \in BOOLEAN, request' # request,
             UpdateConfig(t, s, x, e, on)
      PROVE  Notes(t)
  <2>1. PICK note : note = [endpoint |-> e, enabled |-> on] OBVIOUS
  <2>2. PICK q : q = [pc |-> "testing", op |-> "editConfig", by |-> s, arg |-> x,
                      seen |-> config[x], note |-> note]
    OBVIOUS
  <2>3. request' = [request EXCEPT ![t] = q] BY <1>2, <2>1, <2>2 DEF UpdateConfig
  <2>4. ConfigNote(note) BY <2>1 DEF ConfigNote
  <2>5. q.pc = "testing" /\ q.note = note BY <2>2
  <2> QED BY <2>3, <2>4, <2>5 DEF Notes, GoodNote, RequestInv
<1>3. CASE /\ AccessWrite(t)
           /\ ~\E s \in LiveSessions, x \in Configs, e \in Endpoints, on \in BOOLEAN :
                 UpdateConfig(t, s, x, e, on)
  <2>1. Answered(t) BY <1>3, AccessAnswers
  <2> QED BY <1>1, <2>1
<1> QED BY <1>1, <1>2, <1>3 DEF DatabaseIsLocked, FinishUpdate

LEMMA AccessLeavesAccounts ==
  ASSUME NEW t \in Threads,
         \/ AccountRead(t) \/ AccessRead(t) \/ AccessWrite(t) \/ DatabaseIsLocked(t)
         \/ \E outcome \in TestOutcomes : FinishUpdate(t, outcome)
  PROVE  UNCHANGED <<user, session>>
BY ReadsBegin, AccessWritesNoAccount DEF Reads

AccountInv == AccountTables /\ NotesInv

LEMMA AccountInit == Init => AccountInv
<1> SUFFICES ASSUME Init PROVE AccountInv OBVIOUS
<1>1. AccountTables BY ScenariosAreAccounts DEF Init, AccountTables
<1>2. NotesInv BY DEF Init, AccountsInit, NotesInv, GoodNote, Idle
<1> QED BY <1>1, <1>2 DEF AccountInv

LEMMA AccountStep ==
  ASSUME RequestInv, AccountInv, key \in [Keys -> ApiKeyRows], [Next]_vars
  PROVE  AccountInv'
<1> USE DEF AccountInv
<1>1. ASSUME UNCHANGED <<user, session>>,
             UNCHANGED request \/ \E t \in Threads : Notes(t)
      PROVE  AccountInv'
  <2>1. AccountTables' /\ UsersStay /\ SessionsStay
    BY <1>1, SameAccounts DEF AccountTables
  <2> QED BY <1>1, <2>1, NotesKept, SameNotes
<1>2. ASSUME NEW t \in Threads, AccountWrite(t) \/ DisableUserAndKeys(t)
      PROVE  AccountInv'
  BY <1>2, AccountWriteTables, NotesKept DEF AccountEffect
<1>3. ASSUME NEW t \in Threads,
             \/ AttemptStep(t) \/ AccountRead(t) \/ AccessRead(t) \/ AccessWrite(t)
             \/ DatabaseIsLocked(t) \/ \E outcome \in TestOutcomes : FinishUpdate(t, outcome)
      PROVE  AccountInv'
  <2>1. UNCHANGED <<user, session>> BY <1>3, AttemptNotes, AccessLeavesAccounts
  <2>2. UNCHANGED request \/ Notes(t)
    BY <1>3, AttemptNotes, AccountReadNotes, AccessReadNotes, AccessWriteNotes
    DEF AccountTables
  <2> QED BY <1>1, <2>1, <2>2
<1>4. CASE TimePasses
  <2>1. UNCHANGED request /\ user' = user
    BY <1>4 DEF TimePasses, FailureExpires, InvitationExpires, IssueCaptcha, Logout
  <2>2. session' = session \/ \E s : session' = [session EXCEPT ![s].live = FALSE]
    BY <1>4 DEF TimePasses, FailureExpires, InvitationExpires, IssueCaptcha, Logout
  <2>3. SessionTableOK(session') /\ SessionsStay BY <2>2, SessionsEnd DEF AccountTables
  <2>4. UserTableOK(user') /\ UsersStay BY <2>1, SameAccounts
  <2> QED BY <2>1, <2>3, <2>4, SameNotes DEF AccountTables
<1>5. CASE UNCHANGED vars \/ (\E k \in Keys : AdmitTask(k)) \/ \E x \in Configs : CiteConfig(x)
  BY <1>1, <1>5 DEF vars, accountVars, AdmitTask, CiteConfig
<1> QED BY <1>2, <1>3, <1>4, <1>5 DEF Next
-----------------------------------------------------------------------------
(* The tables of models, groups, keys and configurations.                   *)

Database == DatabaseOK(model, group, key, config)

LEMMA NoRows ==
  /\ NoModel \in ModelRows /\ ~NoModel.exists
  /\ NoGroup \in GroupRows /\ ~NoGroup.exists /\ NoGroup.items = {}
  /\ NoKey \in ApiKeyRows /\ ~NoKey.exists
  /\ NoKey.group = None /\ NoKey.config = None /\ NoKey.picks = {}
  /\ NoConfig \in ConfigRows /\ ~NoConfig.exists
<1>1. NoModel \in ModelRows /\ ~NoModel.exists BY DEF NoModel, ModelRows
<1>2. NoGroup \in GroupRows /\ ~NoGroup.exists /\ NoGroup.items = {}
  BY DEF NoGroup, GroupRows
<1>3. NoKey \in ApiKeyRows /\ ~NoKey.exists /\ NoKey.group = None /\ NoKey.config = None
      /\ NoKey.picks = {}
  BY DEF NoKey, ApiKeyRows
<1>4. NoConfig \in ConfigRows /\ ~NoConfig.exists BY DEF NoConfig, ConfigRows
<1> QED BY <1>1, <1>2, <1>3, <1>4

LEMMA SameDatabase ==
  Database /\ UNCHANGED <<model, group, key, config>> => Database'
BY DEF Database, DatabaseOK, References

\* A request that writes has a caller.
LEMMA CallerIsUser ==
  ASSUME AccountInv, NEW t \in Threads, request[t].pc = "write"
  PROVE  /\ Caller(t) \in Users /\ user[Caller(t)].admin \in BOOLEAN
         /\ Carries(request[t].op, request[t].arg, request[t].note, user)
<1>1. GoodNote(request[t], user, session) BY DEF AccountInv, NotesInv
<1>2. Caller(t) \in Users BY <1>1 DEF GoodNote, Caller
<1>3. user[Caller(t)] \in UserRows BY <1>2 DEF AccountInv, AccountTables, UserTableOK
<1>4. user[Caller(t)].admin \in BOOLEAN BY <1>3 DEF UserRows
<1> QED BY <1>1, <1>2, <1>4 DEF GoodNote

\* A model that is stored, in the groups it was assigned to.
LEMMA ModelStored ==
  ASSUME Database, NEW m \in Models, NEW r \in ModelRows, r.exists, NEW gs,
         model' = [model EXCEPT ![m] = r], group' = AssignGroups(m, gs),
         UNCHANGED <<key, config>>
  PROVE  Database'
<1>1. model' \in [Models -> ModelRows] /\ model'[m] = r
      /\ \A n \in Models : model[n].exists => model'[n].exists
  BY DEF Database, DatabaseOK
<1>2. ASSUME NEW g \in Groups
      PROVE  /\ group'[g] \in GroupRows /\ group'[g].exists = group[g].exists
             /\ group'[g].items \subseteq group[g].items \cup {m}
  <2>1. PICK x : x = group[g] OBVIOUS
  <2>2. x \in GroupRows BY <2>1 DEF Database, DatabaseOK
  <2>3. PICK items : items = IF g \in gs THEN x.items \cup {m} ELSE x.items \ {m} OBVIOUS
  <2>4. items \in SUBSET Models /\ items \subseteq x.items \cup {m}
    BY <2>2, <2>3 DEF GroupRows
  <2>5. PICK q : q = [x EXCEPT !.items = items] OBVIOUS
  <2>6. q \in GroupRows /\ q.exists = x.exists /\ q.items = items
    BY <2>2, <2>4, <2>5 DEF GroupRows
  <2>7. group'[g] = q BY <2>1, <2>3, <2>5 DEF AssignGroups
  <2> QED BY <2>1, <2>4, <2>6, <2>7
<1>3. group' \in [Groups -> GroupRows] BY <1>2 DEF AssignGroups
<1>4. ASSUME NEW g \in Groups, NEW n \in group'[g].items PROVE model'[n].exists
  <2>1. n = m \/ n \in group[g].items BY <1>2, <1>4
  <2>2. n \in Models BY <1>2, <1>4 DEF GroupRows
  <2>3. n \in group[g].items => model[n].exists BY DEF Database, DatabaseOK, References
  <2> QED BY <1>1, <2>1, <2>2, <2>3
<1>5. ASSUME NEW k \in Keys
      PROVE  /\ \A n \in key[k].picks : model'[n].exists
             /\ key[k].group # None => key[k].exists /\ group'[key[k].group].exists
             /\ key[k].config # None => key[k].exists /\ config[key[k].config].exists
  <2>1. key[k] \in ApiKeyRows BY DEF Database, DatabaseOK
  <2>2. key[k].picks \subseteq Models /\ key[k].group \in Groups \cup {None}
    BY <2>1 DEF ApiKeyRows
  <2> QED BY <1>1, <1>2, <2>2 DEF Database, DatabaseOK, References
<1> QED BY <1>1, <1>3, <1>4, <1>5 DEF Database, DatabaseOK, References

LEMMA ModelTables ==
  ASSUME Database, AccountInv, NEW t \in Threads, CreateModel(t) \/ UpdateModel(t)
  PROVE  Database'
<1>1. PICK m, caller, gs, note : /\ m = request[t].arg /\ caller = Caller(t)
                                 /\ note = request[t].note /\ gs = note.groups
  OBVIOUS
<1>2. /\ caller \in Users /\ user[caller].admin \in BOOLEAN
      /\ m \in Models /\ note.enabled \in BOOLEAN
  BY <1>1, CallerIsUser DEF CreateModel, UpdateModel, At, Carries
<1>3. CASE CreateModel(t)
  <2>1. PICK owner, on, yes :
          /\ owner = (IF user[caller].admin THEN None ELSE caller)
          /\ on = note.enabled /\ yes = TRUE
          /\ owner \in Users \cup {None} /\ on \in BOOLEAN
    BY <1>2
  <2>2. PICK r : r = [exists |-> yes, enabled |-> on, owner |-> owner] OBVIOUS
  <2>3. r \in ModelRows /\ r.exists BY <2>1, <2>2 DEF ModelRows
  <2>4. \/ UNCHANGED <<model, group, key, config>>
        \/ /\ model' = [model EXCEPT ![m] = r] /\ group' = AssignGroups(m, gs)
           /\ UNCHANGED <<key, config>>
    BY <1>1, <1>3, <2>1, <2>2 DEF CreateModel
  <2> QED BY <1>2, <2>3, <2>4, SameDatabase, ModelStored
<1>4. CASE UpdateModel(t)
  <2>1. PICK on \in BOOLEAN : on = note.enabled BY <1>2
  <2>2. PICK r : r = [model[m] EXCEPT !.enabled = on] OBVIOUS
  <2>3. model[m] \in ModelRows BY <1>2 DEF Database, DatabaseOK
  <2>4. r \in ModelRows /\ r.exists = model[m].exists BY <2>2, <2>3 DEF ModelRows
  <2>5. \/ UNCHANGED <<model, group, key, config>>
        \/ /\ model[m].exists /\ model' = [model EXCEPT ![m] = r]
           /\ group' = AssignGroups(m, gs) /\ UNCHANGED <<key, config>>
    BY <1>1, <1>4, <2>1, <2>2 DEF UpdateModel
  <2> QED BY <1>2, <2>4, <2>5, SameDatabase, ModelStored
<1> QED BY <1>3, <1>4

\* Nothing refers to a model that the database lets go.
LEMMA DeleteModelTables ==
  ASSUME Database, NEW t \in Threads, DeleteModel(t)
  PROVE  Database'
<1>1. PICK m : m = request[t].arg OBVIOUS
<1>2. CASE UNCHANGED <<model, group, key, config>> BY <1>2, SameDatabase
<1>3. CASE /\ ~ModelReferred(m) /\ model' = [model EXCEPT ![m] = NoModel]
           /\ key' = [k \in Keys |-> [key[k] EXCEPT !.picks = @ \ {m}]]
           /\ UNCHANGED <<group, config>>
  <2>1. model' \in [Models -> ModelRows] /\ \A n \in Models \ {m} : model'[n] = model[n]
    BY <1>3, NoRows DEF Database, DatabaseOK
  <2>2. ASSUME NEW k \in Keys PROVE key'[k] = key[k]
    <3>1. PICK r : r = key[k] OBVIOUS
    <3>2. r \in ApiKeyRows BY <3>1 DEF Database, DatabaseOK
    <3>3. r.picks \ {m} = r.picks BY <1>3, <3>1 DEF ModelReferred
    <3>4. [r EXCEPT !.picks = r.picks] = r BY <3>2 DEF ApiKeyRows
    <3> QED BY <1>3, <3>1, <3>3, <3>4
  <2>3. key' = key BY <1>3, <2>2 DEF Database, DatabaseOK
  <2>4. ASSUME NEW g \in Groups, NEW n \in group[g].items PROVE model'[n].exists
    <3>1. n # m /\ model[n].exists
      BY <1>3 DEF ModelReferred, Database, DatabaseOK, References
    <3>2. group[g] \in GroupRows BY DEF Database, DatabaseOK
    <3>3. n \in Models BY <3>2 DEF GroupRows
    <3> QED BY <2>1, <3>1, <3>3
  <2>5. ASSUME NEW k \in Keys, NEW n \in key[k].picks PROVE model'[n].exists
    <3>1. n # m /\ model[n].exists
      BY <1>3 DEF ModelReferred, Database, DatabaseOK, References
    <3>2. key[k] \in ApiKeyRows BY DEF Database, DatabaseOK
    <3>3. n \in Models BY <3>2 DEF ApiKeyRows
    <3> QED BY <2>1, <3>1, <3>3
  <2> QED BY <1>3, <2>1, <2>3, <2>4, <2>5 DEF Database, DatabaseOK, References
<1> QED BY <1>1, <1>2, <1>3 DEF DeleteModel

\* A group that keeps referring to models there are, and goes when no key uses it.
LEMMA GroupStored ==
  ASSUME Database, NEW g, NEW r \in GroupRows,
         \A m \in r.items : model[m].exists,
         group[g].exists => r.exists \/ ~GroupReferred(g),
         group' = [group EXCEPT ![g] = r], UNCHANGED <<model, key, config>>
  PROVE  Database'
<1>1. group' \in [Groups -> GroupRows]
      /\ \A h \in Groups : group'[h] = IF h = g THEN r ELSE group[h]
  BY DEF Database, DatabaseOK
<1>2. \A h \in Groups : \A m \in group'[h].items : model[m].exists
  BY <1>1 DEF Database, DatabaseOK, References
<1>3. ASSUME NEW k \in Keys, key[k].group # None PROVE group'[key[k].group].exists
  <2>1. key[k] \in ApiKeyRows BY DEF Database, DatabaseOK
  <2>2. key[k].group \in Groups BY <1>3, <2>1 DEF ApiKeyRows
  <2>3. key[k].exists /\ group[key[k].group].exists
    BY <1>3 DEF Database, DatabaseOK, References
  <2> QED BY <1>1, <2>2, <2>3 DEF GroupReferred
<1> QED BY <1>1, <1>2, <1>3 DEF Database, DatabaseOK, References

LEMMA GroupTables ==
  ASSUME Database, AccountInv, NEW t \in Threads,
         CreateGroup(t) \/ ReplaceMembers(t) \/ DeleteGroup(t)
  PROVE  Database'
<1>1. PICK g, caller, ms : g = request[t].arg /\ caller = Caller(t) /\ ms = request[t].note
  OBVIOUS
<1>2. CASE UNCHANGED <<model, group, key, config>> BY <1>2, SameDatabase
<1>3. CASE CreateGroup(t)
  <2>1. caller \in Users /\ user[caller].admin \in BOOLEAN
    BY <1>1, <1>3, CallerIsUser DEF CreateGroup, At
  <2>2. PICK public, yes : public = user[caller].admin /\ public \in BOOLEAN /\ yes = TRUE
    BY <2>1
  <2>3. PICK r : r = [exists |-> yes, owner |-> caller, items |-> {}, public |-> public]
    OBVIOUS
  <2>4. r \in GroupRows /\ r.exists /\ r.items = {} BY <2>1, <2>2, <2>3 DEF GroupRows
  <2>5. \/ UNCHANGED <<model, group, key, config>>
        \/ group' = [group EXCEPT ![g] = r] /\ UNCHANGED <<model, key, config>>
    BY <1>1, <1>3, <2>2, <2>3 DEF CreateGroup
  <2> QED BY <1>2, <2>4, <2>5, GroupStored
<1>4. CASE /\ ReplaceMembers(t) /\ group[g].exists /\ \A m \in ms : model[m].exists
           /\ group' = [group EXCEPT ![g].items = ms]
  <2>1. ms \in SUBSET Models
    BY <1>1, <1>4, CallerIsUser DEF ReplaceMembers, At, Carries
  <2>2. CASE g \notin Groups
    <3>1. group' = group BY <1>4, <2>2 DEF Database, DatabaseOK
    <3> QED BY <1>2, <1>4, <3>1 DEF ReplaceMembers
  <2>3. CASE g \in Groups
    <3>1. PICK r : r = [group[g] EXCEPT !.items = ms] OBVIOUS
    <3>2. group[g] \in GroupRows BY <2>3 DEF Database, DatabaseOK
    <3>3. r \in GroupRows /\ r.exists = group[g].exists /\ r.items = ms
      BY <2>1, <3>1, <3>2 DEF GroupRows
    <3>4. group' = [group EXCEPT ![g] = r] BY <1>4, <3>1
    <3>5. UNCHANGED <<model, key, config>> BY <1>4 DEF ReplaceMembers
    <3> QED BY <1>4, <3>3, <3>4, <3>5, GroupStored
  <2> QED BY <2>2, <2>3
<1>5. CASE DeleteGroup(t)
  <2>1. \/ UNCHANGED <<model, group, key, config>>
        \/ /\ ~GroupReferred(g) /\ group' = [group EXCEPT ![g] = NoGroup]
           /\ UNCHANGED <<model, key, config>>
    BY <1>1, <1>5 DEF DeleteGroup
  <2>2. \A m \in NoGroup.items : model[m].exists BY NoRows
  <2> QED BY <1>2, <2>1, <2>2, NoRows, GroupStored
<1> QED BY <1>1, <1>2, <1>3, <1>4, <1>5 DEF ReplaceMembers

\* A key that refers to rows there are.
KeyFits(r) ==
  /\ r \in ApiKeyRows /\ \A m \in r.picks : model[m].exists
  /\ r.group # None => r.exists /\ group[r.group].exists
  /\ r.config # None => r.exists /\ config[r.config].exists

LEMMA KeyStored ==
  ASSUME Database, NEW k, NEW r, k \in Keys => KeyFits(r), key' = [key EXCEPT ![k] = r],
         UNCHANGED <<model, group, config>>
  PROVE  Database'
<1>1. key' \in [Keys -> ApiKeyRows]
      /\ \A y \in Keys : key'[y] = IF y = k THEN r ELSE key[y]
  BY DEF Database, DatabaseOK, KeyFits
<1>2. ASSUME NEW y \in Keys
      PROVE  /\ \A m \in key'[y].picks : model[m].exists
             /\ key'[y].group # None => key'[y].exists /\ group[key'[y].group].exists
             /\ key'[y].config # None => key'[y].exists /\ config[key'[y].config].exists
  <2>1. CASE y = k BY <1>1, <2>1 DEF KeyFits
  <2>2. CASE y # k
    <3>1. key'[y] = key[y] BY <1>1, <2>2
    <3> QED BY <3>1 DEF Database, DatabaseOK, References
  <2> QED BY <2>1, <2>2
<1> QED BY <1>1, <1>2 DEF Database, DatabaseOK, References

LEMMA KeyOfRows ==
  ASSUME Database, NEW k \in Keys
  PROVE  KeyFits(key[k])
BY DEF Database, DatabaseOK, References, KeyFits

LEMMA KeyColumns ==
  ASSUME NEW r, KeyFits(r), NEW a \in BOOLEAN
  PROVE  KeyFits([r EXCEPT !.enabled = a]) /\ KeyFits([r EXCEPT !.tasks = a])
<1>1. r \in ApiKeyRows BY DEF KeyFits
<1>2. PICK q : q = [r EXCEPT !.enabled = a] OBVIOUS
<1>3. /\ q \in ApiKeyRows /\ q.exists = r.exists /\ q.picks = r.picks
      /\ q.group = r.group /\ q.config = r.config
  BY <1>1, <1>2 DEF ApiKeyRows
<1>4. PICK p : p = [r EXCEPT !.tasks = a] OBVIOUS
<1>5. /\ p \in ApiKeyRows /\ p.exists = r.exists /\ p.picks = r.picks
      /\ p.group = r.group /\ p.config = r.config
  BY <1>1, <1>4 DEF ApiKeyRows
<1>6. KeyFits(q) BY <1>3 DEF KeyFits
<1>7. KeyFits(p) BY <1>5 DEF KeyFits
<1> QED BY <1>2, <1>4, <1>6, <1>7

LEMMA CreateKeyTables ==
  ASSUME Database, AccountInv, NEW t \in Threads, CreateKey(t)
  PROVE  Database'
<1>1. PICK k, caller, note : k = request[t].arg /\ caller = Caller(t) /\ note = request[t].note
  OBVIOUS
<1>2. caller \in Users /\ KeyNote(note)
  BY <1>1, CallerIsUser DEF CreateKey, At, Carries
<1>3. CASE UNCHANGED <<model, group, key, config>> BY <1>3, SameDatabase
<1>4. PICK yes, no, r :
        /\ yes = TRUE /\ no = FALSE
        /\ r = [exists |-> yes, owner |-> caller, enabled |-> yes, group |-> note.group,
                picks |-> note.picks, config |-> note.config, tasks |-> no]
  OBVIOUS
<1>5. CASE /\ Storable(note) /\ note.picks \subseteq Candidates(caller, note.group)
           /\ key' = [key EXCEPT ![k] = r] /\ UNCHANGED <<model, group, config>>
  <2>1. \A m \in VisibleTo(caller) : m \in Models /\ model[m].exists BY DEF VisibleTo
  <2>2. \A m \in note.picks : m \in Models /\ model[m].exists
    BY <1>5, <2>1 DEF Candidates
  <2>3. note.picks \in SUBSET Models BY <2>2
  <2>4. r \in ApiKeyRows BY <1>2, <1>4, <2>3 DEF ApiKeyRows, KeyNote
  <2>5. r.exists /\ r.group = note.group /\ r.config = note.config /\ r.picks = note.picks
    BY <1>4
  <2>6. KeyFits(r) BY <1>5, <2>2, <2>4, <2>5 DEF KeyFits, Storable
  <2> QED BY <1>5, <2>6, KeyStored
<1> QED BY <1>1, <1>3, <1>4, <1>5 DEF CreateKey

LEMMA UpdateKeyTables ==
  ASSUME Database, AccountInv, NEW t \in Threads, UpdateKey(t)
  PROVE  Database'
<1>1. PICK k, note : k = request[t].arg /\ note = request[t].note OBVIOUS
<1>2. KeyNote(note) BY <1>1, CallerIsUser DEF UpdateKey, At, Carries
<1>3. CASE UNCHANGED <<model, group, key, config>> BY <1>3, SameDatabase
<1>4. PICK picks : picks = IF note.picks = Untouched THEN key[k].picks ELSE note.picks
  OBVIOUS
<1>5. CASE /\ key[k].exists /\ Storable(note) /\ UNCHANGED <<model, group, config>>
           /\ key' = [key EXCEPT ![k].group = note.group, ![k].picks = picks,
                                 ![k].config = note.config]
  <2>1. PICK r, old, g, x :
          /\ old = key[k] /\ g = note.group /\ x = note.config
          /\ r = [old EXCEPT !.group = g, !.picks = picks, !.config = x]
    OBVIOUS
  <2>2. CASE k \notin Keys
    <3>1. key' = key BY <1>5, <2>2 DEF Database, DatabaseOK
    <3> QED BY <1>3, <1>5, <3>1
  <2>3. CASE k \in Keys
    <3>1. KeyFits(old) /\ old \in ApiKeyRows BY <2>1, <2>3, KeyOfRows DEF KeyFits
    <3>2. picks \in SUBSET Models /\ \A m \in picks : model[m].exists
      BY <1>2, <1>4, <1>5, <2>1, <3>1 DEF KeyNote, Storable, KeyFits, ApiKeyRows
    <3>3. g \in Groups \cup {None} /\ x \in Configs \cup {None}
      BY <1>2, <2>1 DEF KeyNote
    <3>4. /\ r \in ApiKeyRows /\ r.exists = old.exists /\ r.group = g /\ r.config = x
          /\ r.picks = picks
      BY <2>1, <3>1, <3>2, <3>3 DEF ApiKeyRows
    <3>5. KeyFits(r) BY <1>5, <2>1, <3>2, <3>4 DEF KeyFits, Storable
    <3>6. key' = [key EXCEPT ![k] = r]
      BY <1>5, <2>1, <2>3 DEF Database, DatabaseOK
    <3> QED BY <1>5, <3>5, <3>6, KeyStored
  <2> QED BY <2>2, <2>3
<1> QED BY <1>1, <1>3, <1>4, <1>5 DEF UpdateKey

\* Keys that are switched, used, deleted, or disabled with their owner.
LEMMA OtherKeyTables ==
  ASSUME Database, AccountInv,
         \/ \E t \in Threads : SwitchKey(t) \/ DeleteKey(t) \/ DisableUserAndKeys(t)
         \/ \E k \in Keys : AdmitTask(k)
  PROVE  Database'
<1>1. CASE UNCHANGED <<model, group, key, config>> BY <1>1, SameDatabase
<1>2. ASSUME NEW k, NEW a \in BOOLEAN, UNCHANGED <<model, group, config>>,
             \/ key' = [key EXCEPT ![k].enabled = a]
             \/ key' = [key EXCEPT ![k].tasks = a]
      PROVE  Database'
  <2>1. k \in Keys => /\ KeyFits([key[k] EXCEPT !.enabled = a])
                      /\ KeyFits([key[k] EXCEPT !.tasks = a])
    BY KeyOfRows, KeyColumns
  <2>2. PICK p, q : p = [key[k] EXCEPT !.enabled = a] /\ q = [key[k] EXCEPT !.tasks = a]
    OBVIOUS
  <2>3. key' = [key EXCEPT ![k] = p] \/ key' = [key EXCEPT ![k] = q] BY <1>2, <2>2
  <2> QED BY <1>2, <2>1, <2>2, <2>3, KeyStored
<1>3. ASSUME NEW t \in Threads, SwitchKey(t) PROVE Database'
  <2>1. PICK k, a : k = request[t].arg /\ a = request[t].note OBVIOUS
  <2>2. a \in BOOLEAN BY <1>3, <2>1, CallerIsUser DEF SwitchKey, At, Carries
  <2>3. /\ UNCHANGED <<model, group, config>>
        /\ key' = [key EXCEPT ![k].enabled = a] \/ key' = key
    BY <1>3, <2>1 DEF SwitchKey
  <2> QED BY <1>1, <1>2, <2>2, <2>3
<1>4. ASSUME NEW t \in Threads, DeleteKey(t) PROVE Database'
  <2>1. PICK k : k = request[t].arg OBVIOUS
  <2>2. /\ UNCHANGED <<model, group, config>>
        /\ key' = [key EXCEPT ![k] = NoKey] \/ key' = key
    BY <1>4, <2>1 DEF DeleteKey
  <2>3. KeyFits(NoKey) BY NoRows DEF KeyFits
  <2> QED BY <1>1, <2>2, <2>3, KeyStored
<1>5. ASSUME NEW k \in Keys, AdmitTask(k) PROVE Database'
  <2>1. PICK yes \in BOOLEAN : yes = TRUE OBVIOUS
  <2>2. UNCHANGED <<model, group, config>> /\ key' = [key EXCEPT ![k].tasks = yes]
    BY <1>5, <2>1 DEF AdmitTask
  <2> QED BY <1>2, <2>2
<1>6. ASSUME NEW t \in Threads, DisableUserAndKeys(t) PROVE Database'
  <2>1. PICK u : u = request[t].arg OBVIOUS
  <2>2. UNCHANGED <<model, group, config>> /\ key' = DisableKeysOf(u)
    BY <1>6, <2>1 DEF DisableUserAndKeys
  <2>3. ASSUME NEW k \in Keys PROVE KeyFits(key'[k])
    <3>1. PICK r, no : r = key[k] /\ no = FALSE /\ no \in BOOLEAN OBVIOUS
    <3>2. key'[k] = r \/ key'[k] = [r EXCEPT !.enabled = no]
      BY <2>2, <3>1 DEF DisableKeysOf
    <3>3. KeyFits(r) BY <3>1, KeyOfRows
    <3>4. KeyFits([r EXCEPT !.enabled = no]) BY <3>1, <3>3, KeyColumns
    <3> QED BY <3>2, <3>3, <3>4
  <2>4. key' \in [Keys -> ApiKeyRows] BY <2>2, <2>3 DEF DisableKeysOf, KeyFits
  <2> QED BY <2>2, <2>3, <2>4 DEF Database, DatabaseOK, References, KeyFits
<1> QED BY <1>3, <1>4, <1>5, <1>6

\* A configuration that stays, or goes when no key uses it.
LEMMA ConfigStored ==
  ASSUME Database, NEW x, NEW r, x \in Configs => r \in ConfigRows,
         x \in Configs /\ config[x].exists => r.exists \/ ~ConfigReferred(x),
         config' = [config EXCEPT ![x] = r], UNCHANGED <<model, group, key>>
  PROVE  Database'
<1>1. config' \in [Configs -> ConfigRows]
      /\ \A y \in Configs : config'[y] = IF y = x THEN r ELSE config[y]
  BY DEF Database, DatabaseOK
<1>2. ASSUME NEW k \in Keys, key[k].config # None PROVE config'[key[k].config].exists
  <2>1. key[k] \in ApiKeyRows BY DEF Database, DatabaseOK
  <2>2. key[k].config \in Configs BY <1>2, <2>1 DEF ApiKeyRows
  <2>3. key[k].exists /\ config[key[k].config].exists
    BY <1>2 DEF Database, DatabaseOK, References
  <2> QED BY <1>1, <2>2, <2>3 DEF ConfigReferred, KeysUse
<1> QED BY <1>1, <1>2 DEF Database, DatabaseOK, References

LEMMA ConfigEdited ==
  ASSUME Database, NEW x, NEW note, ConfigNote(note),
         config' = [config EXCEPT ![x].endpoint = note.endpoint, ![x].enabled = note.enabled],
         UNCHANGED <<model, group, key>>
  PROVE  Database'
<1>1. CASE x \notin Configs
  <2>1. config' = config BY <1>1 DEF Database, DatabaseOK
  <2> QED BY <2>1, SameDatabase
<1>2. CASE x \in Configs
  <2>1. PICK e, on : e = note.endpoint /\ on = note.enabled OBVIOUS
  <2>2. e \in Endpoints /\ on \in BOOLEAN BY <2>1 DEF ConfigNote
  <2>3. PICK r : r = [config[x] EXCEPT !.endpoint = e, !.enabled = on] OBVIOUS
  <2>4. config[x] \in ConfigRows BY <1>2 DEF Database, DatabaseOK
  <2>5. r \in ConfigRows /\ r.exists = config[x].exists BY <2>2, <2>3, <2>4 DEF ConfigRows
  <2>6. config' = [config EXCEPT ![x].endpoint = e, ![x].enabled = on] BY <2>1
  <2>7. config' = [config EXCEPT ![x] = r] BY <1>2, <2>3, <2>6 DEF Database, DatabaseOK
  <2> QED BY <2>5, <2>7, ConfigStored
<1> QED BY <1>1, <1>2

TypesInv ==
  /\ Database /\ proven \subseteq Endpoints
  /\ lock \in Threads \cup {None} /\ left \in Nat

ConfigEffect == Database' /\ proven' \subseteq Endpoints

LEMMA CreateConfigTables ==
  ASSUME TypesInv, AccountInv, NEW t \in Threads, NEW outcome, CreateConfig(t, outcome)
  PROVE  ConfigEffect
<1> USE DEF TypesInv
<1>1. PICK x, caller, note : x = request[t].arg /\ caller = Caller(t) /\ note = request[t].note
  OBVIOUS
<1>2. caller \in Users /\ ConfigNote(note)
  BY <1>1, CallerIsUser DEF CreateConfig, At, Carries
<1>3. PICK yes, e, on : yes = TRUE /\ e = note.endpoint /\ on = note.enabled OBVIOUS
<1>4. e \in Endpoints /\ on \in BOOLEAN BY <1>2, <1>3 DEF ConfigNote
<1>5. PICK r, no : no = FALSE /\ r = [exists |-> yes, owner |-> caller, enabled |-> on,
                                      endpoint |-> e, cited |-> no]
  OBVIOUS
<1>6. r \in ConfigRows /\ r.exists BY <1>2, <1>3, <1>4, <1>5 DEF ConfigRows
<1>7. /\ UNCHANGED <<model, group, key>>
      /\ config' = config \/ config' = [config EXCEPT ![x] = r]
  BY <1>1, <1>3, <1>5 DEF CreateConfig
<1>8. Database' BY <1>6, <1>7, SameDatabase, ConfigStored
<1>9. proven' = proven \/ proven' = proven \cup {e}
  BY <1>1, <1>3 DEF CreateConfig, Tested
<1> QED BY <1>4, <1>8, <1>9 DEF ConfigEffect

LEMMA UpdateConfigTables ==
  ASSUME TypesInv, NEW t \in Threads, NEW s, NEW x \in Configs, NEW e \in Endpoints,
         NEW on \in BOOLEAN, UpdateConfig(t, s, x, e, on)
  PROVE  ConfigEffect
<1> USE DEF TypesInv
<1>1. PICK note : note = [endpoint |-> e, enabled |-> on] OBVIOUS
<1>2. ConfigNote(note) /\ note.endpoint = e /\ note.enabled = on BY <1>1 DEF ConfigNote
<1>3. /\ UNCHANGED <<model, group, key, proven>>
      /\ \/ config' = config
         \/ config' = [config EXCEPT ![x].endpoint = e, ![x].enabled = on]
  BY DEF UpdateConfig
<1>4. Database' BY <1>2, <1>3, SameDatabase, ConfigEdited
<1> QED BY <1>3, <1>4 DEF ConfigEffect

LEMMA FinishUpdateTables ==
  ASSUME TypesInv, AccountInv, NEW t \in Threads, NEW outcome, FinishUpdate(t, outcome)
  PROVE  ConfigEffect
<1> USE DEF TypesInv
<1>1. PICK x, note : x = request[t].arg /\ note = request[t].note OBVIOUS
<1>2. ConfigNote(note)
  BY <1>1 DEF FinishUpdate, At, AccountInv, NotesInv, GoodNote
<1>3. /\ UNCHANGED <<model, group, key>>
      /\ \/ config' = config
         \/ config' = [config EXCEPT ![x].endpoint = note.endpoint,
                                     ![x].enabled = note.enabled]
  BY <1>1 DEF FinishUpdate
<1>4. Database' BY <1>2, <1>3, SameDatabase, ConfigEdited
<1>5. proven' = proven \/ proven' = proven \cup {note.endpoint}
  BY <1>1 DEF FinishUpdate, Tested
<1> QED BY <1>2, <1>4, <1>5 DEF ConfigEffect, ConfigNote

LEMMA DeleteConfigTables ==
  ASSUME TypesInv, NEW t \in Threads, DeleteConfig(t)
  PROVE  ConfigEffect
<1> USE DEF TypesInv
<1>1. PICK x : x = request[t].arg OBVIOUS
<1>2. /\ UNCHANGED <<model, group, key, proven>>
      /\ config' = config \/ (~ConfigReferred(x) /\ config' = [config EXCEPT ![x] = NoConfig])
  BY <1>1 DEF DeleteConfig
<1>3. Database' BY <1>2, NoRows, SameDatabase, ConfigStored
<1> QED BY <1>2, <1>3 DEF ConfigEffect

LEMMA CiteConfigTables ==
  ASSUME TypesInv, NEW x \in Configs, CiteConfig(x)
  PROVE  ConfigEffect
<1> USE DEF TypesInv
<1>1. PICK yes : yes = ~config[x].cited OBVIOUS
<1>2. PICK r : r = [config[x] EXCEPT !.cited = yes] OBVIOUS
<1>3. /\ UNCHANGED <<model, group, key, proven>> /\ config[x].exists
      /\ config' = [config EXCEPT ![x] = r]
  BY <1>1, <1>2 DEF CiteConfig
<1>4. config[x] \in ConfigRows BY DEF Database, DatabaseOK
<1>5. yes \in BOOLEAN BY <1>1
<1>6. r \in ConfigRows /\ r.exists = config[x].exists BY <1>2, <1>4, <1>5 DEF ConfigRows
<1>7. Database' BY <1>3, <1>6, ConfigStored
<1> QED BY <1>3, <1>7 DEF ConfigEffect

LEMMA TypesInit == Init => TypesInv
<1> SUFFICES ASSUME Init PROVE TypesInv OBVIOUS
<1>1. PICK s \in Scenarios : /\ left = s.requests /\ model = s.model /\ group = s.group
                             /\ key = s.key /\ config = s.config
  BY DEF Init
<1>2. s.requests \in Nat /\ Database
  BY <1>1, ScenariosAreAccounts, ScenariosAreDatabases DEF Database
<1>3. \A x \in Configs : config[x].enabled => config[x].endpoint # None
  BY <1>1, ScenariosAreDatabases
<1>4. ASSUME NEW x \in Configs, config[x].enabled PROVE config[x].endpoint \in Endpoints
  <2>1. config[x] \in ConfigRows BY <1>2 DEF Database, DatabaseOK
  <2> QED BY <1>3, <1>4, <2>1 DEF ConfigRows
<1>5. proven \subseteq Endpoints /\ lock = None BY <1>4 DEF Init
<1> QED BY <1>1, <1>2, <1>5 DEF TypesInv

LEMMA LeftAndLock ==
  ASSUME TypesInv, [Next]_vars
  PROVE  left' \in Nat /\ lock' \in Threads \cup {None}
<1> USE DEF TypesInv
<1>1. ASSUME NEW t \in Threads, AttemptStep(t) \/ AccountRead(t)
      PROVE  left' \in Nat
  <2>1. CASE AttemptStep(t)
    <3>1. left' = left \/ (left > 0 /\ left' = left - 1)
      BY <2>1 DEF AttemptStep, Attempt, VerifyCaptcha, Authenticate, RecordFailure,
                  ResetFailures
    <3> QED BY <3>1
  <2>2. CASE AccountRead(t) BY <2>2, ReadsBegin DEF Reads
  <2> QED BY <1>1, <2>1, <2>2
<1>2. ASSUME NEW t \in Threads, AccessRead(t) PROVE left' \in Nat
  <2>1. ASSUME NEW s, NEW k, NEW op \in {"addKey", "editKey", "switchKey", "dropKey"},
               BeginKey(t, s, op, k)
        PROVE  left' \in Nat
    BY <2>1 DEF BeginKey, Begin
  <2>2. ASSUME NEW s, \/ \E m, op : BeginModel(t, s, op, m)
                      \/ \E g, op : BeginGroup(t, s, op, g)
                      \/ \E x : BeginDropConfig(t, s, x)
                      \/ \E x, e, on : BeginAddConfig(t, s, x, e, on)
        PROVE  left' \in Nat
    BY <2>2 DEF BeginModel, BeginGroup, BeginDropConfig, BeginAddConfig, Begin
  <2> QED BY <1>2, <2>1, <2>2 DEF AccessRead
<1>3. ASSUME NEW t \in Threads, AccountWrite(t) \/ DisableUserAndKeys(t)
      PROVE  left' = left
  BY <1>3 DEF AccountWrite, CreateSession, Register, WriteProfile, ChangePassword,
              ForcePassword, ResetPassword, CreateUser, EnableUser, CreateInvitation,
              UpdateInvitation, RevokeInvitation, DeleteInvitation, DisableUserAndKeys,
              DisableUser
<1>4. ASSUME NEW t \in Threads, AccessWrite(t)
      PROVE  left' \in Nat /\ lock' \in Threads \cup {None}
  <2>1. ASSUME NEW s, NEW x, NEW e, NEW on, UpdateConfig(t, s, x, e, on)
        PROVE  left' \in Nat /\ lock' \in Threads \cup {None}
    BY <2>1 DEF UpdateConfig
  <2>2. ASSUME NEW outcome, CreateConfig(t, outcome) PROVE left' = left /\ lock' = lock
    BY <2>2 DEF CreateConfig, Answered
  <2>3. ASSUME \/ CreateModel(t) \/ UpdateModel(t) \/ DeleteModel(t) \/ CreateGroup(t)
               \/ ReplaceMembers(t) \/ DeleteGroup(t) \/ CreateKey(t) \/ UpdateKey(t)
               \/ SwitchKey(t) \/ DeleteKey(t) \/ DeleteConfig(t)
        PROVE  left' = left /\ lock' = lock
    BY <2>3 DEF CreateModel, UpdateModel, DeleteModel, CreateGroup, ReplaceMembers,
                DeleteGroup, CreateKey, UpdateKey, SwitchKey, DeleteKey, DeleteConfig,
                Answered
  <2> QED BY <1>4, <2>1, <2>2, <2>3 DEF AccessWrite
<1>5. ASSUME NEW t \in Threads, DatabaseIsLocked(t)
      PROVE  left' = left /\ lock' = lock
  BY <1>5 DEF DatabaseIsLocked, Answered, accessVars
<1>6. ASSUME NEW t \in Threads, NEW outcome, FinishUpdate(t, outcome)
      PROVE  left' = left /\ lock' = None
  BY <1>6 DEF FinishUpdate, Answered
<1>7. CASE TimePasses /\ UNCHANGED accessVars
  BY <1>7 DEF TimePasses, FailureExpires, InvitationExpires, IssueCaptcha, Logout, accessVars
<1>8. CASE UNCHANGED vars \/ (\E k \in Keys : AdmitTask(k)) \/ \E x \in Configs : CiteConfig(x)
  BY <1>8 DEF vars, accountVars, accessVars, AdmitTask, CiteConfig
<1>9. ASSUME UNCHANGED accessVars \/ \E t \in Threads : DisableUserAndKeys(t)
      PROVE  lock' = lock
  BY <1>9 DEF accessVars, DisableUserAndKeys
<1> QED BY <1>1, <1>2, <1>3, <1>4, <1>5, <1>6, <1>7, <1>8, <1>9 DEF Next

LEMMA TypesStep ==
  ASSUME TypesInv, AccountInv, [Next]_vars
  PROVE  TypesInv'
<1>1. left' \in Nat /\ lock' \in Threads \cup {None} BY LeftAndLock
<1>2. CASE UNCHANGED <<model, group, key, config, proven>>
  BY <1>1, <1>2, SameDatabase DEF TypesInv
<1>3. CASE ConfigEffect BY <1>1, <1>3 DEF TypesInv, ConfigEffect
<1>4. CASE Database' /\ proven' = proven BY <1>1, <1>4 DEF TypesInv
<1>5. ASSUME NEW t \in Threads, AccessWrite(t) PROVE TypesInv'
  <2>1. ASSUME CreateModel(t) \/ UpdateModel(t) \/ DeleteModel(t) PROVE TypesInv'
    <3>1. proven' = proven BY <2>1 DEF CreateModel, UpdateModel, DeleteModel
    <3> QED BY <1>4, <2>1, <3>1, ModelTables, DeleteModelTables DEF TypesInv
  <2>2. ASSUME CreateGroup(t) \/ ReplaceMembers(t) \/ DeleteGroup(t) PROVE TypesInv'
    <3>1. proven' = proven BY <2>2 DEF CreateGroup, ReplaceMembers, DeleteGroup
    <3> QED BY <1>4, <2>2, <3>1, GroupTables DEF TypesInv
  <2>3. ASSUME CreateKey(t) \/ UpdateKey(t) \/ SwitchKey(t) \/ DeleteKey(t) PROVE TypesInv'
    <3>1. proven' = proven BY <2>3 DEF CreateKey, UpdateKey, SwitchKey, DeleteKey
    <3> QED BY <1>4, <2>3, <3>1, CreateKeyTables, UpdateKeyTables, OtherKeyTables DEF TypesInv
  <2> QED BY <1>3, <1>5, <2>1, <2>2, <2>3, CreateConfigTables, UpdateConfigTables,
             DeleteConfigTables
      DEF AccessWrite
<1>6. ASSUME NEW t \in Threads, NEW outcome, FinishUpdate(t, outcome) PROVE TypesInv'
  BY <1>3, <1>6, FinishUpdateTables
<1>7. ASSUME \/ \E t \in Threads : DisableUserAndKeys(t)
             \/ \E k \in Keys : AdmitTask(k)
      PROVE  TypesInv'
  <2>1. proven' = proven BY <1>7 DEF DisableUserAndKeys, AdmitTask
  <2> QED BY <1>4, <1>7, <2>1, OtherKeyTables DEF TypesInv
<1>8. CASE UNCHANGED vars \/ UNCHANGED accessVars
           \/ \E t \in Threads : DatabaseIsLocked(t)
  BY <1>2, <1>8 DEF vars, accessVars, DatabaseIsLocked
<1>9. ASSUME NEW x \in Configs, CiteConfig(x) PROVE TypesInv'
  BY <1>3, <1>9, CiteConfigTables
<1> QED BY <1>5, <1>6, <1>7, <1>8, <1>9 DEF Next

\* Who holds the write lock is testing: the other threads that go on leave the
\* request of the holder alone, and the holder does nothing before its test ends.
HolderTests == lock # None => request[lock].pc = "testing"

LEMMA NobodyElseMoves ==
  ASSUME TypesInv, HolderTests, lock' = lock, NEW t \in Threads, Notes(t),
         request[t].pc # "testing"
  PROVE  HolderTests'
BY DEF TypesInv, HolderTests, Notes

LEMMA HolderStep ==
  ASSUME RequestInv, AccountInv, TypesInv, HolderTests, [Next]_vars
  PROVE  HolderTests'
<1>1. ASSUME UNCHANGED <<request, lock>> PROVE HolderTests' BY <1>1 DEF HolderTests
<1>2. ASSUME NEW t \in Threads, AttemptStep(t) \/ AccountRead(t) \/ AccessRead(t),
             UNCHANGED accessVars
      PROVE  HolderTests'
  <2>1. Notes(t)
    BY <1>2, AttemptNotes, AccountReadNotes, AccessReadNotes
    DEF AccountInv, AccountTables, TypesInv, Database, DatabaseOK
  <2>2. CASE AttemptStep(t)
    <3>1. request[t].pc # "testing"
      BY <2>2 DEF AttemptStep, Attempt, VerifyCaptcha, Authenticate, At, RecordFailure,
                  ResetFailures
    <3> QED BY <1>2, <2>1, <3>1, NobodyElseMoves DEF accessVars
  <2>3. CASE AccountRead(t) \/ AccessRead(t)
    BY <1>2, <2>1, <2>3, ReadsBegin, NobodyElseMoves DEF accessVars, Reads
  <2> QED BY <1>2, <2>2, <2>3
<1>3. ASSUME NEW t \in Threads, AccountWrite(t) \/ DisableUserAndKeys(t), lock' = lock
      PROVE  HolderTests'
  <2>1. Notes(t) BY <1>3, AccountWriteTables DEF AccountInv, AccountEffect
  <2>2. request[t].pc # "testing"
    BY <1>3 DEF AccountWrite, CreateSession, Register, WriteProfile, ChangePassword,
                ForcePassword, ResetPassword, CreateUser, EnableUser, CreateInvitation,
                UpdateInvitation, RevokeInvitation, DeleteInvitation,
                DisableUserAndKeys, DisableUser, At
  <2> QED BY <1>3, <2>1, <2>2, NobodyElseMoves
<1>4. ASSUME NEW t \in Threads, AccessWrite(t) PROVE HolderTests'
  <2>1. Notes(t) \/ UNCHANGED request BY <1>4, AccessWriteNotes DEF AccountInv
  <2>2. ASSUME NEW s, NEW x, NEW e, NEW on, UpdateConfig(t, s, x, e, on)
        PROVE  HolderTests'
    <3>1. CASE UNCHANGED <<request, lock>> BY <1>1, <3>1
    <3>2. CASE lock' = t /\ request'[t].pc = "testing" BY <3>2 DEF HolderTests
    <3>3. UNCHANGED <<request, lock>> \/ (lock' = t /\ request'[t].pc = "testing")
      BY <2>2 DEF UpdateConfig, RequestInv
    <3> QED BY <3>1, <3>2, <3>3
  <2>3. ASSUME NEW outcome, CreateConfig(t, outcome)
        PROVE  lock' = lock /\ request[t].pc = "write"
    BY <2>3 DEF CreateConfig, At
  <2>4. ASSUME \/ CreateModel(t) \/ UpdateModel(t) \/ DeleteModel(t) \/ CreateGroup(t)
               \/ ReplaceMembers(t) \/ DeleteGroup(t) \/ CreateKey(t) \/ UpdateKey(t)
               \/ SwitchKey(t) \/ DeleteKey(t) \/ DeleteConfig(t)
        PROVE  lock' = lock /\ request[t].pc = "write"
    BY <2>4 DEF CreateModel, UpdateModel, DeleteModel, CreateGroup, ReplaceMembers,
                DeleteGroup, CreateKey, UpdateKey, SwitchKey, DeleteKey, DeleteConfig, At
  <2>5. ASSUME lock' = lock, request[t].pc = "write" PROVE HolderTests'
    BY <1>1, <2>1, <2>5, NobodyElseMoves
  <2> QED BY <1>4, <2>2, <2>3, <2>4, <2>5 DEF AccessWrite
<1>5. ASSUME NEW t \in Threads, DatabaseIsLocked(t) PROVE HolderTests'
  <2>1. Notes(t) \/ UNCHANGED request BY <1>5, AccessWriteNotes DEF AccountInv
  <2>2. lock' = lock /\ request[t].pc # "testing"
    BY <1>5 DEF DatabaseIsLocked, accessVars
  <2> QED BY <1>1, <2>1, <2>2, NobodyElseMoves
<1>6. ASSUME NEW t \in Threads, NEW outcome, FinishUpdate(t, outcome) PROVE HolderTests'
  BY <1>6 DEF FinishUpdate, HolderTests
<1>7. CASE TimePasses /\ UNCHANGED accessVars
  BY <1>1, <1>7 DEF TimePasses, FailureExpires, InvitationExpires, IssueCaptcha, Logout,
                    accessVars
<1>8. CASE UNCHANGED vars \/ (\E k \in Keys : AdmitTask(k)) \/ \E x \in Configs : CiteConfig(x)
  BY <1>1, <1>8 DEF vars, accountVars, accessVars, AdmitTask, CiteConfig
<1>9. ASSUME UNCHANGED accessVars \/ \E t \in Threads : DisableUserAndKeys(t)
      PROVE  lock' = lock
  BY <1>9 DEF accessVars, DisableUserAndKeys
<1> QED BY <1>2, <1>3, <1>4, <1>5, <1>6, <1>7, <1>8, <1>9 DEF Next

TableInv == RequestInv /\ AccountInv /\ TypesInv /\ HolderTests

LEMMA TableInit == Init => TableInv
BY RequestInit, AccountInit, TypesInit DEF TableInv, HolderTests, Init

LEMMA TableStep == TableInv /\ [Next]_vars => TableInv'
<1> SUFFICES ASSUME TableInv, [Next]_vars PROVE TableInv' OBVIOUS
<1>1. key \in [Keys -> ApiKeyRows] BY DEF TableInv, TypesInv, Database, DatabaseOK
<1> QED BY <1>1, RequestStep, AccountStep, TypesStep, HolderStep DEF TableInv

\* Nothing dangles: whatever validations, writes and deletes overlap, every
\* model of a group or of a selection, every group and every configuration of a
\* key is a row there is (the validations of the services are stale by the time
\* they write; the foreign keys of the database are not), and the write lock is
\* held across an await only by the test of a configuration.
THEOREM AccessTypesHold == Spec => []AccessTypeOK
<1>1. TableInv => AccessTypeOK
  BY DEF TableInv, TypesInv, Database, HolderTests, AccessTypeOK
<1> QED BY <1>1, TableInit, TableStep, PTL DEF Spec

\* The accounts keep their types, and no address belongs to two users: the
\* service looks before it writes, and UNIQUE looks again.
THEOREM AccountTypesHold == Spec => []AccountsTypeOK
<1>1. TableInv /\ UseInv /\ ThrottleInv /\ CaptchaInv => AccountsTypeOK
  BY DEF TableInv, RequestInv, AccountInv, AccountTables, TypesInv, UseInv, ThrottleInv,
         CaptchaInv, AccountsTypeOK
<1>2. TableInv => RequestInv BY DEF TableInv
<1>3. Init => TableInv /\ UseInv /\ ThrottleInv /\ CaptchaInv
  BY TableInit, UseInit, ThrottleInit, CaptchaInit
<1>4. /\ TableInv /\ UseInv /\ ThrottleInv /\ CaptchaInv /\ [Next]_vars
      => TableInv' /\ UseInv' /\ ThrottleInv' /\ CaptchaInv'
  BY <1>2, TableStep, UseStep, ThrottleStep, CaptchaStep
<1> QED BY <1>1, <1>3, <1>4, PTL DEF Spec
=============================================================================
