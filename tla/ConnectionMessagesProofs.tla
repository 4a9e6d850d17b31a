---------------------- MODULE ConnectionMessagesProofs ----------------------
(***************************************************************************)
(* Theorems about ConnectionMessages, for every platform, every set of       *)
(* messages, handlers and tasks and every number of deliveries and crashes.  *)
(***************************************************************************)
EXTENDS ConnectionMessages, RowLemmas

-----------------------------------------------------------------------------
(* Types, as far as the theorems need them.                                *)

People == {setup.bound, None} \cup {m.from : m \in Messages}

HandlerStates ==
  [at : {"idle", "receipt", "sender", "submit"}, message : Messages \cup {None},
   bound : People, code : BOOLEAN, target : Tasks \cup {None}]

TypeInv ==
  /\ setup \in Scenarios
  /\ conn \in [bound : People, code : BOOLEAN]
  /\ task \in [Tasks -> [state : States, reply : Ids \cup {None}]]
  /\ creating \in Tasks \cup {None}
  /\ handler \in [Handlers -> HandlerStates]
  /\ \A h \in Handlers : Busy(h) => handler[h].message \in Messages
  /\ receipts \subseteq Ids
  /\ effects \in [Ids -> Nat]
  /\ answers \in [Ids -> SUBSET Results]

LEMMA Frame ==
  ASSUME setup' = setup
  PROVE  /\ Messages' = Messages /\ Ids' = Ids /\ People' = People
         /\ HandlerStates' = HandlerStates
BY DEF Messages, Ids, People, HandlerStates

LEMMA MessageFacts ==
  ASSUME setup \in Scenarios, NEW m \in Messages
  PROVE  /\ IsMessage(m) /\ m.id \in Ids
         /\ \A n \in Messages : n.id = m.id => n = m
BY ScenariosAreScenarios DEF Messages, Ids

LEMMA HandlerFacts ==
  ASSUME TypeInv, NEW h \in Handlers
  PROVE  /\ handler[h] \in HandlerStates
         /\ Busy(h) => handler[h].message \in Messages /\ handler[h].message.id \in Ids
BY MessageFacts DEF TypeInv

LEMMA RestingType == Resting \in HandlerStates
BY DEF Resting, HandlerStates, People

LEMMA NoneIsNoTaskOfOurs == None \notin Tasks
BY NoneIsNoTask, BoundsAreNumbers DEF Tasks

\* What a handler answers ends its work, and only its message hears it.
LEMMA AnswerType ==
  ASSUME TypeInv, setup' = setup, NEW h \in Handlers, Busy(h), NEW r \in Results,
         Answer(h, r)
  PROVE  /\ handler' = [handler EXCEPT ![h] = Resting]
         /\ handler' \in [Handlers -> HandlerStates']
         /\ \A g \in Handlers : Busy(g)' => handler'[g].message \in Messages'
         /\ answers' \in [Ids' -> SUBSET Results]
<1>1. handler[h].message.id \in Ids BY HandlerFacts
<1>2. handler' \in [Handlers -> HandlerStates']
  BY Frame, RestingType DEF TypeInv, Answer
<1>3. \A g \in Handlers : Busy(g)' => handler'[g].message \in Messages'
  BY Frame DEF TypeInv, Answer, Busy, Resting
<1>4. answers' \in [Ids' -> SUBSET Results] BY <1>1, Frame DEF TypeInv, Answer
<1> QED BY <1>2, <1>3, <1>4 DEF Answer

LEMMA TakesType ==
  ASSUME TypeInv, setup' = setup, NEW h \in Handlers, Busy(h), Takes(h)
  PROVE  effects' \in [Ids' -> Nat]
<1> DEFINE i == handler[h].message.id
<1>1. i \in Ids BY HandlerFacts
<1>2. effects' = [effects EXCEPT ![i] = effects[i] + 1] BY DEF Takes
<1>3. effects \in [Ids -> Nat] BY DEF TypeInv
<1>4. Ids' = Ids BY Frame
<1> HIDE DEF i
<1>5. effects[i] + 1 \in Nat BY <1>1, <1>3
<1> QED BY <1>1, <1>2, <1>3, <1>4, <1>5

LEMMA SoleWaitingType == SoleWaiting = None \/ SoleWaiting \in Waiting
<1>1. CASE Cardinality(Waiting) = 1
  <2>1. Waiting # {} BY <1>1, FS_EmptySet
  <2> QED BY <2>1 DEF SoleWaiting
<1>2. CASE Cardinality(Waiting) # 1 BY <1>2 DEF SoleWaiting
<1> QED BY <1>1, <1>2

\* A message is taken to a task that there is.
LEMMA TargetType ==
  ASSUME setup \in Scenarios, NEW m \in Messages
  PROVE  /\ Target(m) \in Tasks \cup {None}
         /\ Target(m) # None => Exists(Target(m))
<1>1. IsMessage(m) BY MessageFacts
<1>2. SoleWaiting \in Tasks \cup {None} /\ (SoleWaiting # None => Exists(SoleWaiting))
  BY SoleWaitingType DEF Waiting, Exists
<1> QED BY <1>1, <1>2 DEF Target, IsMessage

LEMMA TypeInit == Init => TypeInv
<1> SUFFICES ASSUME Init PROVE TypeInv OBVIOUS
<1>1. conn \in [bound : People, code : BOOLEAN] BY DEF Init, People
<1>2. handler \in [Handlers -> HandlerStates] /\ \A h \in Handlers : ~Busy(h)
  BY RestingType DEF Init, Busy, Resting
<1>3. task \in [Tasks -> [state : States, reply : Ids \cup {None}]] BY DEF Init, States
<1> QED BY <1>1, <1>2, <1>3 DEF Init, TypeInv

LEMMA TypeStep == TypeInv /\ [Next]_vars => TypeInv'
<1> SUFFICES ASSUME TypeInv, [Next]_vars PROVE TypeInv' OBVIOUS
<1> USE NoneIsNoTaskOfOurs
<1>1. ASSUME NEW h \in Handlers, NEW m \in Messages, Receive(h, m) PROVE TypeInv'
  <2>1. setup' = setup BY <1>1 DEF Receive
  <2>2. [Resting EXCEPT !.at = "receipt", !.message = m, !.bound = conn.bound,
                        !.code = conn.code] \in HandlerStates
    BY RestingType DEF HandlerStates, TypeInv, Resting
  <2>3. handler' \in [Handlers -> HandlerStates] BY <1>1, <2>2 DEF Receive, TypeInv
  <2>4. \A g \in Handlers : Busy(g)' => handler'[g].message \in Messages
    BY <1>1 DEF Receive, TypeInv, Busy, Resting
  <2> QED BY <1>1, <2>1, <2>3, <2>4, Frame DEF Receive, TypeInv, store, history
<1>2. ASSUME NEW h \in Handlers, RecordReceipt(h) PROVE TypeInv'
  <2>1. setup' = setup /\ Busy(h) BY <1>2 DEF RecordReceipt, Busy
  <2>2. CASE IsDuplicate(handler[h].message)
    <3>1. Answer(h, "duplicate") /\ receipts' = receipts BY <1>2, <2>2 DEF RecordReceipt
    <3> QED BY <1>2, <2>1, <3>1, AnswerType, Frame DEF RecordReceipt, TypeInv, Results
  <2>3. CASE ~IsDuplicate(handler[h].message)
    <3>1. /\ receipts' = receipts \cup {handler[h].message.id}
          /\ handler' = [handler EXCEPT ![h].at = "sender"]
          /\ answers' = answers
      BY <1>2, <2>3 DEF RecordReceipt
    <3>2. handler' \in [Handlers -> HandlerStates]
      BY <3>1, HandlerFacts DEF TypeInv, HandlerStates
    <3>3. \A g \in Handlers : Busy(g)' => handler'[g].message \in Messages
      BY <2>1, <3>1, HandlerFacts DEF TypeInv, HandlerStates, Busy
    <3> QED BY <1>2, <2>1, <3>1, <3>2, <3>3, Frame, HandlerFacts DEF RecordReceipt, TypeInv
  <2> QED BY <2>2, <2>3
<1>3. ASSUME NEW h \in Handlers, BindSender(h) PROVE TypeInv'
  <2>1. setup' = setup /\ Busy(h) BY <1>3 DEF BindSender, Busy
  <2>2. CASE CodeFits(h)
    <3>1. conn' \in [bound : People, code : BOOLEAN]
      <4>1. handler[h].message.from \in People BY <2>1, HandlerFacts DEF People
      <4>2. conn' = [bound |-> handler[h].message.from, code |-> FALSE]
        BY <1>3, <2>2 DEF BindSender
      <4> QED BY <4>1, <4>2
    <3>2. Takes(h) /\ Answer(h, "bound") BY <1>3, <2>2 DEF BindSender
    <3> QED BY <1>3, <2>1, <3>1, <3>2, AnswerType, TakesType, Frame
        DEF BindSender, TypeInv, Results
  <2>3. CASE ~CodeFits(h)
    BY <1>3, <2>1, <2>3, AnswerType, Frame DEF BindSender, TypeInv, Results
  <2> QED BY <2>2, <2>3
<1>4. ASSUME NEW h \in Handlers, RejectStranger(h) PROVE TypeInv'
  BY <1>4, AnswerType, Frame DEF RejectStranger, Busy, TypeInv, Results, store
<1>5. ASSUME NEW h \in Handlers, Locate(h) PROVE TypeInv'
  <2>1. setup' = setup /\ Busy(h) BY <1>5 DEF Locate, Busy
  <2>2. Target(handler[h].message) \in Tasks \cup {None}
    BY <2>1, HandlerFacts, TargetType DEF TypeInv
  <2>3. handler' = [handler EXCEPT ![h].at = "submit",
                                   ![h].target = Target(handler[h].message)]
    BY <1>5 DEF Locate
  <2>4. handler' \in [Handlers -> HandlerStates]
    BY ZenonT(40), <2>2, <2>3, HandlerFacts DEF TypeInv, HandlerStates
  <2>5. \A g \in Handlers : Busy(g)' => handler'[g].message \in Messages
    BY <2>1, <2>3, HandlerFacts DEF TypeInv, HandlerStates, Busy
  <2> QED BY <1>5, <2>1, <2>4, <2>5, Frame DEF Locate, TypeInv, store, history
<1>6. ASSUME NEW h \in Handlers, Submit(h) PROVE TypeInv'
  <2> DEFINE m == handler[h].message  t == handler[h].target
  <2>1. setup' = setup /\ Busy(h) /\ m \in Messages /\ m.id \in Ids
    BY <1>6, HandlerFacts DEF Submit, Busy
  <2>2. t \in Tasks \cup {None} BY HandlerFacts DEF HandlerStates
  <2>3. /\ \/ Answer(h, "accepted") \/ Answer(h, "late") \/ Answer(h, "unhandled")
        /\ effects' = effects \/ Takes(h)
    BY <1>6 DEF Submit, SubmitText, ObeyCommand
  <2>4. task' \in [Tasks -> [state : States, reply : Ids \cup {None}]]
    <3>1. \/ task' = task
          \/ t # None /\ task' = [task EXCEPT ![t] = [state |-> "ended", reply |-> m.id]]
      BY <1>6 DEF Submit, SubmitText, ObeyCommand
    <3> QED BY <2>1, <2>2, <3>1 DEF TypeInv, States
  <2>5. effects' \in [Ids -> Nat] BY <2>1, <2>3, TakesType, Frame DEF TypeInv
  <2>6. /\ handler' \in [Handlers -> HandlerStates']
        /\ \A g \in Handlers : Busy(g)' => handler'[g].message \in Messages'
        /\ answers' \in [Ids' -> SUBSET Results]
    BY <2>1, <2>3, AnswerType DEF Results
  <2> QED BY <1>6, <2>1, <2>4, <2>5, <2>6, Frame DEF Submit, TypeInv
<1>7. ASSUME NEW h \in Handlers, GiveUp(h) PROVE TypeInv'
  BY <1>7, AnswerType, Frame DEF GiveUp, Busy, TypeInv, Results, store
<1>8. ASSUME NEW t \in Tasks, BeginCreate(t) PROVE TypeInv'
  BY <1>8, Frame DEF BeginCreate, TypeInv, Busy, store, history
<1>9. ASSUME NEW t \in Tasks, EndElsewhere(t) PROVE TypeInv'
  BY <1>9, Frame DEF EndElsewhere, TypeInv, Busy, history, States
<1>10. ASSUME NEW t \in Tasks, AckTask(t) PROVE TypeInv'
  BY <1>10, Frame DEF AckTask, TypeInv, Busy, history
<1>11. CASE Push BY <1>11, Frame DEF Push, TypeInv, Busy, store, history
<1>12. CASE CommitCreate
  BY <1>12, Frame DEF CommitCreate, WriteLocked, TypeInv, Busy, history, States
<1>13. ASSUME NEW arrives \in BOOLEAN, PullTasks(arrives) PROVE TypeInv'
  BY <1>13, Frame DEF PullTasks, TypeInv, Busy, history
<1>14. CASE Retain BY <1>14, Frame DEF Retain, TypeInv, Busy, history
<1>15. CASE Crash
  <2>1. task' \in [Tasks -> [state : States, reply : Ids \cup {None}]]
    BY <1>15 DEF Crash, TypeInv, States
  <2>2. handler' \in [Handlers -> HandlerStates] /\ \A h \in Handlers : ~Busy(h)'
    BY <1>15, RestingType DEF Crash, Busy, Resting
  <2> QED BY <1>15, <2>1, <2>2, Frame DEF Crash, TypeInv, history
<1>16. CASE UNCHANGED vars BY <1>16, Frame DEF vars, store, history, TypeInv, Busy
<1> QED BY <1>1, <1>2, <1>3, <1>4, <1>5, <1>6, <1>7, <1>8, <1>9, <1>10, <1>11, <1>12,
          <1>13, <1>14, <1>15, <1>16 DEF Next, Handle

\* The rows and the handlers keep their types, and who handles a message handles
\* one of the scenario.
THEOREM MessagesWellTyped == Spec => []TypeInv
BY TypeInit, TypeStep, PTL DEF Spec

-----------------------------------------------------------------------------
(* A message takes effect once.                                            *)

PastReceipt(h) == handler[h].at \in {"sender", "submit"}
IdOf(h)        == handler[h].message.id

\* A handler past the receipt owns its message; what took effect was answered
\* otherwise than with an error, so it is not fresh once its receipt is gone.
OnceInv ==
  /\ \A i \in Ids : effects[i] <= 1 /\ (effects[i] > 0 => ~(answers[i] \subseteq {"error"}))
  /\ \A h \in Handlers : PastReceipt(h) => IdOf(h) \in receipts /\ effects[IdOf(h)] = 0
  /\ \A g, h \in Handlers : PastReceipt(g) /\ PastReceipt(h) /\ IdOf(g) = IdOf(h) => g = h
  /\ \A h \in Handlers : Busy(h) /\ effects[IdOf(h)] > 0 => IdOf(h) \in receipts

\* The handlers other than h go on with what they have.
OthersGoOn(h) == \A g \in Handlers \ {h} : handler'[g] = handler[g]

\* A handler that ends, with an effect only if it was past the receipt.
LEMMA OnceEnds ==
  ASSUME TypeInv, OnceInv, setup' = setup, receipts' = receipts,
         NEW h \in Handlers, Busy(h), NEW r \in Results, Answer(h, r),
         effects' = effects \/ (Takes(h) /\ PastReceipt(h) /\ r # "error")
  PROVE  OnceInv'
<1> DEFINE i == handler[h].message.id
<1>1. i \in Ids /\ Ids' = Ids BY HandlerFacts, Frame
<1>2. /\ \A g \in Handlers \ {h} : handler'[g] = handler[g]
      /\ ~Busy(h)' /\ ~PastReceipt(h)'
  BY DEF Answer, TypeInv, Busy, PastReceipt, Resting
<1>3. answers' = [answers EXCEPT ![i] = answers[i] \cup {r}] BY DEF Answer
<1>4. \A k \in Ids : answers'[k] = IF k = i THEN answers[i] \cup {r} ELSE answers[k]
  BY <1>1, <1>3 DEF TypeInv
<1>5. \/ effects' = effects
      \/ /\ PastReceipt(h) /\ r # "error"
         /\ \A k \in Ids : effects'[k] = IF k = i THEN effects[i] + 1 ELSE effects[k]
  <2>1. CASE effects' = effects BY <2>1
  <2>2. CASE Takes(h) /\ PastReceipt(h) /\ r # "error"
    <3>1. effects' = [effects EXCEPT ![i] = effects[i] + 1] BY <2>2 DEF Takes
    <3> QED BY <1>1, <2>2, <3>1 DEF TypeInv
  <2> QED BY <2>1, <2>2
<1>6. PastReceipt(h) => effects[i] = 0 /\ i \in receipts BY DEF OnceInv, IdOf
<1>7. \A g \in Handlers : Busy(g) => IdOf(g) \in Ids BY HandlerFacts DEF IdOf
<1>8. \A g \in Handlers : PastReceipt(g) => Busy(g) BY DEF PastReceipt, Busy
<1>9. \A g \in Handlers \ {h} :
         /\ PastReceipt(g)' <=> PastReceipt(g)
         /\ Busy(g)' <=> Busy(g)
         /\ IdOf(g)' = IdOf(g)
  BY <1>2 DEF PastReceipt, Busy, IdOf
<1> HIDE DEF i
<1>10. \A k \in Ids : /\ effects'[k] <= 1
                      /\ effects'[k] > 0 => ~(answers'[k] \subseteq {"error"})
  <2> SUFFICES ASSUME NEW k \in Ids
               PROVE  effects'[k] <= 1 /\ (effects'[k] > 0 => ~(answers'[k] \subseteq {"error"}))
    OBVIOUS
  <2>1. /\ effects[k] <= 1 /\ effects[k] \in Nat
        /\ effects[k] > 0 => ~(answers[k] \subseteq {"error"})
    BY DEF OnceInv, TypeInv
  <2>2. answers[k] \subseteq answers'[k] BY <1>4
  <2>3. CASE effects' = effects BY <2>1, <2>2, <2>3
  <2>4. CASE effects' # effects /\ k = i
    <3>1. effects'[k] = 1 BY <1>5, <1>6, <2>4
    <3>2. r \in answers'[k] /\ r # "error" BY <1>4, <1>5, <2>4
    <3> QED BY <3>1, <3>2
  <2>5. CASE effects' # effects /\ k # i BY <1>5, <2>1, <2>2, <2>5
  <2> QED BY <2>3, <2>4, <2>5
<1>11. \A g \in Handlers : PastReceipt(g)' => IdOf(g)' \in receipts /\ effects'[IdOf(g)'] = 0
  <2> SUFFICES ASSUME NEW g \in Handlers, PastReceipt(g)'
               PROVE  IdOf(g)' \in receipts /\ effects'[IdOf(g)'] = 0
    OBVIOUS
  <2>1. g # h /\ PastReceipt(g) /\ IdOf(g)' = IdOf(g) BY <1>2, <1>9
  <2>2. IdOf(g) \in receipts /\ effects[IdOf(g)] = 0 /\ IdOf(g) \in Ids
    BY <2>1, <1>7, <1>8 DEF OnceInv
  <2>3. PastReceipt(h) => IdOf(g) # i BY <2>1 DEF OnceInv, IdOf, i
  <2> QED BY <2>1, <2>2, <2>3, <1>5
<1>12. \A f, g \in Handlers : PastReceipt(f)' /\ PastReceipt(g)' /\ IdOf(f)' = IdOf(g)' => f = g
  BY <1>2, <1>9 DEF OnceInv
<1>13. \A g \in Handlers : Busy(g)' /\ effects'[IdOf(g)'] > 0 => IdOf(g)' \in receipts
  <2> SUFFICES ASSUME NEW g \in Handlers, Busy(g)', effects'[IdOf(g)'] > 0
               PROVE  IdOf(g)' \in receipts
    OBVIOUS
  <2>1. g # h /\ Busy(g) /\ IdOf(g)' = IdOf(g) BY <1>2, <1>9
  <2>2. IdOf(g) \in Ids BY <2>1, <1>7
  <2>3. CASE effects' = effects BY <2>1, <2>3 DEF OnceInv
  <2>4. CASE effects' # effects /\ IdOf(g) = i BY <2>1, <2>4, <1>5, <1>6
  <2>5. CASE effects' # effects /\ IdOf(g) # i BY <2>1, <2>2, <2>5, <1>5 DEF OnceInv
  <2> QED BY <2>3, <2>4, <2>5
<1> QED BY <1>1, <1>10, <1>11, <1>12, <1>13 DEF OnceInv

LEMMA OnceInit == Init => OnceInv
BY DEF Init, OnceInv, PastReceipt, Busy, IdOf, Resting

LEMMA OnceStep == TypeInv /\ OnceInv /\ [Next]_vars => OnceInv'
<1> SUFFICES ASSUME TypeInv, OnceInv, [Next]_vars PROVE OnceInv' OBVIOUS
<1>1. ASSUME NEW h \in Handlers, NEW m \in Messages, Receive(h, m) PROVE OnceInv'
  <2>1. /\ receipts' = receipts /\ effects' = effects /\ answers' = answers
        /\ setup' = setup
    BY <1>1 DEF Receive, store, history
  <2>2. /\ \A g \in Handlers \ {h} : handler'[g] = handler[g]
        /\ ~PastReceipt(h)' /\ IdOf(h)' = m.id
    BY <1>1 DEF Receive, TypeInv, PastReceipt, IdOf, Resting
  <2>3. m.id \in Ids /\ (effects[m.id] > 0 => m.id \in receipts)
    BY <1>1, MessageFacts DEF TypeInv, Receive, Fresh, OnceInv
  <2> QED BY <2>1, <2>2, <2>3, Frame DEF OnceInv, PastReceipt, Busy, IdOf
<1>2. ASSUME NEW h \in Handlers, RecordReceipt(h) PROVE OnceInv'
  <2>1. setup' = setup /\ Busy(h) /\ effects' = effects
    BY <1>2 DEF RecordReceipt, Busy
  <2>2. CASE IsDuplicate(handler[h].message)
    <3>1. Answer(h, "duplicate") /\ receipts' = receipts BY <1>2, <2>2 DEF RecordReceipt
    <3> QED BY <2>1, <3>1, OnceEnds DEF Results
  <2>3. CASE ~IsDuplicate(handler[h].message)
    <3>1. /\ receipts' = receipts \cup {IdOf(h)} /\ IdOf(h) \notin receipts
          /\ handler' = [handler EXCEPT ![h].at = "sender"]
          /\ answers' = answers
      BY <1>2, <2>3 DEF RecordReceipt, IsDuplicate, IdOf
    <3>2. IdOf(h) \in Ids BY <2>1, HandlerFacts DEF IdOf
    <3>3. effects[IdOf(h)] = 0 BY <2>1, <3>1, <3>2 DEF OnceInv, TypeInv
    <3>4. /\ \A g \in Handlers \ {h} : handler'[g] = handler[g]
          /\ IdOf(h)' = IdOf(h)
      BY <3>1, HandlerFacts DEF TypeInv, IdOf, HandlerStates
    <3> QED BY <2>1, <3>1, <3>3, <3>4, Frame DEF OnceInv, PastReceipt, Busy, IdOf
  <2> QED BY <2>2, <2>3
<1>3. ASSUME NEW h \in Handlers, BindSender(h) PROVE OnceInv'
  <2>1. setup' = setup /\ receipts' = receipts /\ Busy(h) /\ PastReceipt(h)
    BY <1>3 DEF BindSender, Busy, PastReceipt
  <2>2. \/ Takes(h) /\ Answer(h, "bound")
        \/ effects' = effects /\ Answer(h, "unbound")
    BY <1>3 DEF BindSender
  <2> QED BY <2>1, <2>2, OnceEnds DEF Results
<1>4. ASSUME NEW h \in Handlers, RejectStranger(h) PROVE OnceInv'
  BY <1>4, OnceEnds DEF RejectStranger, Busy, Results, store
<1>5. ASSUME NEW h \in Handlers, Locate(h) PROVE OnceInv'
  <2>1. /\ receipts' = receipts /\ effects' = effects /\ answers' = answers
        /\ setup' = setup
    BY <1>5 DEF Locate, store, history
  <2>2. /\ \A g \in Handlers \ {h} : handler'[g] = handler[g]
        /\ PastReceipt(h) /\ IdOf(h)' = IdOf(h)
    BY <1>5, HandlerFacts DEF Locate, TypeInv, PastReceipt, IdOf, HandlerStates
  <2> QED BY <2>1, <2>2, Frame DEF OnceInv, PastReceipt, Busy, IdOf
<1>6. ASSUME NEW h \in Handlers, Submit(h) PROVE OnceInv'
  <2>1. setup' = setup /\ receipts' = receipts /\ Busy(h) /\ PastReceipt(h)
    BY <1>6 DEF Submit, Busy, PastReceipt
  <2>2. \/ Takes(h) /\ Answer(h, "accepted")
        \/ effects' = effects /\ (Answer(h, "late") \/ Answer(h, "unhandled"))
    BY <1>6 DEF Submit, SubmitText, ObeyCommand
  <2> QED BY <2>1, <2>2, OnceEnds DEF Results
<1>7. ASSUME NEW h \in Handlers, GiveUp(h) PROVE OnceInv'
  BY <1>7, OnceEnds DEF GiveUp, Busy, Results, store
<1>8. CASE \/ \E t \in Tasks : BeginCreate(t) \/ EndElsewhere(t) \/ AckTask(t)
           \/ Push \/ CommitCreate \/ PullTasks(TRUE) \/ PullTasks(FALSE)
           \/ UNCHANGED vars
  <2>1. UNCHANGED <<setup, receipts, handler, effects, answers>>
    BY <1>8 DEF BeginCreate, EndElsewhere, AckTask, Push, CommitCreate, PullTasks, vars,
                store, history
  <2> QED BY <2>1, Frame DEF OnceInv, PastReceipt, Busy, IdOf
<1>9. CASE Retain
  BY <1>9, Frame DEF Retain, history, OnceInv, PastReceipt, Busy, IdOf
<1>10. CASE Crash
  BY <1>10, Frame DEF Crash, history, OnceInv, PastReceipt, Busy, IdOf, Resting
<1> QED BY <1>1, <1>2, <1>3, <1>4, <1>5, <1>6, <1>7, <1>8, <1>9, <1>10 DEF Next, Handle

\* However often and concurrently a platform delivers a message, record_receipt
\* lets it take effect once.
THEOREM OncePerMessageHolds == Spec => []OncePerMessage
<1>1. OnceInv => OncePerMessage BY DEF OnceInv, OncePerMessage
<1> QED BY <1>1, TypeInit, TypeStep, OnceInit, OnceStep, PTL DEF Spec

-----------------------------------------------------------------------------
(* One sender binds with the code, where one message is handled at a time. *)

BindInv ==
  ~Threaded =>
    /\ \A g, h \in Handlers : Busy(g) /\ Busy(h) => g = h
    /\ \A h \in Handlers : Busy(h) => handler[h].code = conn.code
    /\ CodeBindsOne

LEMMA BindInit == Init => BindInv
BY MessageFacts DEF Init, BindInv, CodeBindsOne, Busy, Resting

LEMMA BindKept ==
  ASSUME BindInv, UNCHANGED <<setup, conn, handler, answers>>
  PROVE  BindInv'
BY Frame DEF BindInv, CodeBindsOne, Threaded, Busy

\* A handler that ends and binds nobody.
LEMMA BindEnds ==
  ASSUME TypeInv, BindInv, setup' = setup, conn' = conn,
         NEW h \in Handlers, Busy(h), NEW r \in Results, r # "bound", Answer(h, r)
  PROVE  BindInv'
<1>1. /\ \A g \in Handlers : Busy(g)' => Busy(g) /\ handler'[g] = handler[g]
  BY DEF Answer, TypeInv, Busy, Resting
<1>2. \A m \in Messages : "bound" \in answers'[m.id] => "bound" \in answers[m.id]
  BY HandlerFacts, MessageFacts DEF Answer, TypeInv
<1> QED BY <1>1, <1>2, Frame DEF BindInv, CodeBindsOne, Threaded

LEMMA BindStep == TypeInv /\ BindInv /\ [Next]_vars => BindInv'
<1> SUFFICES ASSUME TypeInv, BindInv, [Next]_vars PROVE BindInv' OBVIOUS
<1>1. ASSUME NEW h \in Handlers, NEW m \in Messages, Receive(h, m) PROVE BindInv'
  <2>1. UNCHANGED <<setup, conn, answers>> /\ ~Busy(h) /\ MayStart
    BY <1>1 DEF Receive, store, history
  <2>2. /\ \A g \in Handlers \ {h} : handler'[g] = handler[g]
        /\ handler'[h].code = conn.code
    BY <1>1 DEF Receive, TypeInv, Resting
  <2> QED BY <2>1, <2>2, Frame DEF BindInv, CodeBindsOne, Threaded, Busy, MayStart
<1>2. ASSUME NEW h \in Handlers, RecordReceipt(h) PROVE BindInv'
  <2>1. UNCHANGED <<setup, conn>> /\ Busy(h) BY <1>2 DEF RecordReceipt, Busy
  <2>2. CASE IsDuplicate(handler[h].message)
    BY <1>2, <2>1, <2>2, BindEnds DEF RecordReceipt, Results
  <2>3. CASE ~IsDuplicate(handler[h].message)
    <3>1. handler' = [handler EXCEPT ![h].at = "sender"] /\ answers' = answers
      BY <1>2, <2>3 DEF RecordReceipt
    <3>2. \A g \in Handlers : /\ Busy(g)' => Busy(g)
                              /\ handler'[g].code = handler[g].code
      BY <2>1, <3>1, HandlerFacts DEF TypeInv, Busy, HandlerStates
    <3> QED BY <2>1, <3>1, <3>2, Frame DEF BindInv, CodeBindsOne, Threaded
  <2> QED BY <2>2, <2>3
<1>3. ASSUME NEW h \in Handlers, BindSender(h) PROVE BindInv'
  <2>1. setup' = setup /\ Busy(h) BY <1>3 DEF BindSender, Busy
  <2>2. CASE CodeFits(h)
    <3>1. /\ conn' = [bound |-> handler[h].message.from, code |-> FALSE]
          /\ Answer(h, "bound") /\ handler[h].code
      BY <1>3, <2>2 DEF BindSender, CodeFits
    <3> DEFINE n == handler[h].message
    <3>2. n \in Messages BY <2>1, HandlerFacts
    <3>3. SUFFICES ASSUME ~Threaded PROVE BindInv'
      BY <2>1 DEF BindInv, Threaded
    <3>4. \A g \in Handlers : ~Busy(g)'
      BY <2>1, <3>1, <3>3 DEF BindInv, Answer, TypeInv, Busy, Resting
    <3>5. conn.code BY <2>1, <3>1, <3>3 DEF BindInv
    <3>6. \A m \in Messages : "bound" \notin answers[m.id]
      BY <3>3, <3>5 DEF BindInv, CodeBindsOne
    <3>7. \A m \in Messages : "bound" \in answers'[m.id] => m = n
      BY <3>1, <3>2, <3>6, MessageFacts DEF Answer, TypeInv
    <3> QED BY <2>1, <3>1, <3>4, <3>7, Frame DEF BindInv, CodeBindsOne
  <2>3. CASE ~CodeFits(h)
    BY <1>3, <2>1, <2>3, BindEnds DEF BindSender, Results
  <2> QED BY <2>2, <2>3
<1>4. ASSUME NEW h \in Handlers, RejectStranger(h) PROVE BindInv'
  BY <1>4, BindEnds DEF RejectStranger, Busy, Results, store
<1>5. ASSUME NEW h \in Handlers, Locate(h) PROVE BindInv'
  <2>1. UNCHANGED <<setup, conn, answers>> /\ Busy(h)
    BY <1>5 DEF Locate, store, history, Busy
  <2>2. \A g \in Handlers : (Busy(g)' => Busy(g)) /\ handler'[g].code = handler[g].code
    BY <1>5, <2>1, HandlerFacts DEF Locate, TypeInv, Busy, HandlerStates
  <2> QED BY <2>1, <2>2, Frame DEF BindInv, CodeBindsOne, Threaded
<1>6. ASSUME NEW h \in Handlers, Submit(h) PROVE BindInv'
  <2>1. setup' = setup /\ conn' = conn /\ Busy(h) BY <1>6 DEF Submit, Busy
  <2>2. Answer(h, "accepted") \/ Answer(h, "late") \/ Answer(h, "unhandled")
    BY <1>6 DEF Submit, SubmitText, ObeyCommand
  <2> QED BY <2>1, <2>2, BindEnds DEF Results
<1>7. ASSUME NEW h \in Handlers, GiveUp(h) PROVE BindInv'
  BY <1>7, BindEnds DEF GiveUp, Busy, Results, store
<1>8. CASE \/ \E t \in Tasks : BeginCreate(t) \/ EndElsewhere(t) \/ AckTask(t)
           \/ Push \/ CommitCreate \/ PullTasks(TRUE) \/ PullTasks(FALSE)
           \/ Retain \/ UNCHANGED vars
  <2>1. UNCHANGED <<setup, conn, handler, answers>>
    BY <1>8 DEF BeginCreate, EndElsewhere, AckTask, Push, CommitCreate, PullTasks, Retain,
                vars, store, history
  <2> QED BY <2>1, BindKept
<1>9. CASE Crash
  <2>1. UNCHANGED <<setup, conn, answers>> /\ \A g \in Handlers : ~Busy(g)'
    BY <1>9 DEF Crash, history, Busy, Resting
  <2> QED BY <2>1, Frame DEF BindInv, CodeBindsOne, Threaded
<1> QED BY <1>1, <1>2, <1>3, <1>4, <1>5, <1>6, <1>7, <1>8, <1>9 DEF Next, Handle

\* On the platforms whose messages are handled on the event loop, one sender
\* binds with the one-time code of handle_inbound and stays bound.
THEOREM CodeBindsOneHolds == Spec => []CodeBindsOne
<1>1. BindInv => CodeBindsOne BY DEF BindInv, CodeBindsOne
<1> QED BY <1>1, TypeInit, TypeStep, BindInit, BindStep, PTL DEF Spec

-----------------------------------------------------------------------------
(* What was accepted is the reply.                                         *)

CreatingInv == creating # None => task[creating].state = "none"

LEMMA CreatingInit == Init => CreatingInv
BY DEF Init, CreatingInv

\* Whoever writes the tasks meanwhile waits for the lock.
LEMMA CreatingStep == TypeInv /\ CreatingInv /\ [Next]_vars => CreatingInv'
<1> SUFFICES ASSUME TypeInv, CreatingInv, [Next]_vars PROVE CreatingInv' OBVIOUS
<1>1. CASE \E h \in Handlers : Submit(h)
  BY <1>1 DEF Submit, MayWrite, WriteLocked, CreatingInv
<1>2. CASE \E t \in Tasks : BeginCreate(t)
  BY <1>2 DEF BeginCreate, CreatingInv, store
<1>3. CASE \E t \in Tasks : EndElsewhere(t)
  BY <1>3 DEF EndElsewhere, WriteLocked, CreatingInv
<1>4. CASE CommitCreate \/ Crash BY <1>4 DEF CommitCreate, Crash, CreatingInv
<1>5. CASE \/ \E h \in Handlers, m \in Messages : Receive(h, m)
           \/ \E h \in Handlers : \/ RecordReceipt(h) \/ BindSender(h) \/ RejectStranger(h)
                                  \/ Locate(h) \/ GiveUp(h)
           \/ \E t \in Tasks : AckTask(t)
           \/ Push \/ PullTasks(TRUE) \/ PullTasks(FALSE) \/ Retain \/ UNCHANGED vars
  <2>1. UNCHANGED <<creating, task>>
    BY <1>5 DEF Receive, RecordReceipt, BindSender, RejectStranger, Locate, GiveUp, AckTask,
                Push, PullTasks, Retain, vars, store
  <2> QED BY <2>1 DEF CreatingInv
<1> QED BY <1>1, <1>2, <1>3, <1>4, <1>5 DEF Next, Handle

AcceptedInv ==
  /\ \A t \in Tasks : task[t].state # "ended" => task[t].reply = None
  /\ AcceptedIsTheReply

LEMMA AcceptedInit == Init => AcceptedInv
BY MessageFacts DEF Init, AcceptedInv, AcceptedIsTheReply

\* Tasks keep the replies they have, and nobody else is told "accepted".
LEMMA AcceptedKept ==
  ASSUME TypeInv, AcceptedInv, setup' = setup,
         \A t \in Tasks : /\ task'[t].reply = task[t].reply
                          /\ task'[t].state = "ended" \/ task[t].state # "ended",
         \A m \in Messages : "accepted" \in answers'[m.id] => "accepted" \in answers[m.id]
  PROVE  AcceptedInv'
BY Frame DEF AcceptedInv, AcceptedIsTheReply, IsCommand, PullOnly

LEMMA OtherAnswers ==
  ASSUME TypeInv, NEW h \in Handlers, Busy(h), NEW r \in Results, r # "accepted", Answer(h, r)
  PROVE  \A m \in Messages : "accepted" \in answers'[m.id] => "accepted" \in answers[m.id]
BY HandlerFacts, MessageFacts DEF Answer, TypeInv

LEMMA AcceptedStep == TypeInv /\ CreatingInv /\ AcceptedInv /\ [Next]_vars => AcceptedInv'
<1> SUFFICES ASSUME TypeInv, CreatingInv, AcceptedInv, [Next]_vars PROVE AcceptedInv' OBVIOUS
<1>1. ASSUME NEW h \in Handlers,
             RecordReceipt(h) \/ BindSender(h) \/ RejectStranger(h) \/ GiveUp(h)
      PROVE  AcceptedInv'
  <2>1. UNCHANGED <<setup, task>> /\ Busy(h)
    BY <1>1 DEF RecordReceipt, BindSender, RejectStranger, GiveUp, Busy, store
  <2>2. \/ answers' = answers
        \/ \E r \in Results \ {"accepted"} : Answer(h, r)
    BY <1>1 DEF RecordReceipt, BindSender, RejectStranger, GiveUp, Results
  <2> QED BY <2>1, <2>2, OtherAnswers, AcceptedKept
<1>2. ASSUME NEW h \in Handlers, Submit(h) PROVE AcceptedInv'
  <2> DEFINE m == handler[h].message  t == handler[h].target
  <2>1. setup' = setup /\ Busy(h) /\ m \in Messages BY <1>2, HandlerFacts DEF Submit, Busy
  <2>2. m.id \in Ids /\ m.id # None BY <2>1, MessageFacts DEF TypeInv, IsMessage
  <2>3. CASE /\ task' = task
             /\ Answer(h, "late") \/ Answer(h, "unhandled")
    BY <2>1, <2>3, OtherAnswers, AcceptedKept DEF Results
  <2>4. CASE task' = task /\ Answer(h, "accepted") /\ IsCommand(m)
    <3>1. \A n \in Messages : "accepted" \in answers'[n.id] /\ ~IsCommand(n)
                                => "accepted" \in answers[n.id]
      BY <2>1, <2>4, MessageFacts DEF Answer, TypeInv
    <3> QED BY <2>1, <2>4, <3>1, Frame
        DEF AcceptedInv, AcceptedIsTheReply, IsCommand, PullOnly
  <2>5. CASE /\ t # None /\ ReplyMatches(t) /\ Answer(h, "accepted")
             /\ task' = [task EXCEPT ![t] = [state |-> "ended", reply |-> m.id]]
    <3>1. t \in Tasks BY <2>5, HandlerFacts DEF HandlerStates
    <3>2. task[t].reply = None BY <2>5, <3>1 DEF ReplyMatches, AcceptedInv
    <3>3. \A u \in Tasks : task'[u] = IF u = t THEN [state |-> "ended", reply |-> m.id]
                                               ELSE task[u]
      BY <2>5, <3>1 DEF TypeInv
    <3>4. \A n \in Messages : "accepted" \in answers'[n.id] =>
                                "accepted" \in answers[n.id] \/ n = m
      BY <2>1, <2>5, MessageFacts DEF Answer, TypeInv
    <3>5. \A n \in Messages : n.id # None BY MessageFacts DEF TypeInv, IsMessage
    <3> HIDE DEF m, t
    <3>6. \A u \in Tasks : task'[u].state # "ended" => task'[u].reply = None
      BY <3>3 DEF AcceptedInv
    <3>7. ASSUME NEW n \in Messages, "accepted" \in answers'[n.id], ~IsCommand(n)
          PROVE  \E u \in Tasks : task'[u].reply = n.id
      <4>1. CASE n = m BY <3>1, <3>3, <4>1
      <4>2. CASE n # m
        <5>1. PICK u \in Tasks : task[u].reply = n.id
          BY <3>4, <3>7, <4>2 DEF AcceptedInv, AcceptedIsTheReply
        <5>2. u # t BY <3>2, <3>5, <5>1
        <5> QED BY <3>3, <5>1, <5>2
      <4> QED BY <4>1, <4>2
    <3> QED BY <2>1, <3>6, <3>7, Frame
        DEF AcceptedInv, AcceptedIsTheReply, IsCommand, PullOnly
  <2> QED BY <1>2, <2>3, <2>4, <2>5 DEF Submit, SubmitText, ObeyCommand
<1>3. CASE \E h \in Handlers, m \in Messages : Receive(h, m)
  BY <1>3, AcceptedKept DEF Receive, store, history
<1>4. CASE \E h \in Handlers : Locate(h) BY <1>4, AcceptedKept DEF Locate, store, history
<1>5. CASE \/ \E t \in Tasks : BeginCreate(t) \/ AckTask(t)
           \/ Push \/ PullTasks(TRUE) \/ PullTasks(FALSE) \/ Retain \/ UNCHANGED vars
  <2>1. UNCHANGED <<setup, task, answers>>
    BY <1>5 DEF BeginCreate, AckTask, Push, PullTasks, Retain, vars, store, history
  <2> QED BY <2>1, AcceptedKept
<1>6. ASSUME NEW t \in Tasks, EndElsewhere(t) PROVE AcceptedInv'
  <2>1. setup' = setup /\ answers' = answers BY <1>6 DEF EndElsewhere, history
  <2>2. \A u \in Tasks : /\ task'[u].reply = task[u].reply
                         /\ task'[u].state = "ended" \/ task[u].state # "ended"
    BY <1>6 DEF EndElsewhere, TypeInv
  <2> QED BY <2>1, <2>2, AcceptedKept
<1>7. CASE CommitCreate \/ Crash
  <2>1. setup' = setup /\ answers' = answers BY <1>7 DEF CommitCreate, Crash, history
  <2>2. \A u \in Tasks : task'[u].reply = task[u].reply
    BY <1>7 DEF CommitCreate, Crash, TypeInv
  <2>3. \A u \in Tasks : task'[u] = task[u] \/ (u = creating /\ task[u].reply = None)
    <3>1. \A u \in Tasks : u = creating => task[u].reply = None
      BY NoneIsNoTaskOfOurs DEF CreatingInv, AcceptedInv
    <3>2. \A u \in Tasks : u # creating => task'[u] = task[u]
      BY <1>7 DEF CommitCreate, Crash, TypeInv
    <3> QED BY <3>1, <3>2
  <2> QED BY <2>1, <2>2, <2>3, Frame
      DEF AcceptedInv, AcceptedIsTheReply, IsCommand, PullOnly
<1> QED BY <1>1, <1>2, <1>3, <1>4, <1>5, <1>6, <1>7 DEF Next, Handle

\* A text that first_reply_wins accepted is and stays the reply of a task.
THEOREM AcceptedIsTheReplyHolds == Spec => []AcceptedIsTheReply
<1>1. AcceptedInv => AcceptedIsTheReply BY DEF AcceptedInv
<1> QED BY <1>1, TypeInit, TypeStep, CreatingInit, CreatingStep,
          AcceptedInit, AcceptedStep, PTL DEF Spec

-----------------------------------------------------------------------------
(* A reply to a package finds its task.                                    *)

Known(t) == task[t].state # "none"

RowOk(r) ==
  /\ r = [id |-> r.id, task |-> r.task, state |-> r.state]
  /\ r.task \in Tasks /\ Known(r.task)

\* Whoever saw a package saw that of a task that is committed or lost, or of
\* the one whose transaction is open.
SeenInv ==
  /\ \A t \in seen \cup got : t \in Tasks /\ (Known(t) \/ creating = t)
  /\ \A r \in outbox : RowOk(r)

\* A handler past the receipt has waited for that transaction.
AimOf(h, m, t) ==
  /\ Busy(h) /\ m.to # None => m.to \in seen \cup got
  /\ PastReceipt(h) /\ m.to # None => Known(m.to)
  /\ handler[h].at = "submit" =>
       /\ t # None => Known(t)
       /\ m.quotes = "reply" => t = m.to \/ (t = None /\ task[m.to].state = "lost")

AimInv == \A h \in Handlers : AimOf(h, handler[h].message, handler[h].target)

LEMMA TasksAdvance ==
  ASSUME TypeInv, CreatingInv, [Next]_vars, NEW t \in Tasks
  PROVE  /\ Known(t) => Known(t)'
         /\ task[t].state = "lost" => task'[t].state = "lost"
<1>1. ASSUME NEW h \in Handlers, Submit(h)
      PROVE  task'[t] = task[t] \/ (task[t].state = "waiting" /\ task'[t].state = "ended")
  BY <1>1, HandlerFacts
  DEF Submit, SubmitText, ObeyCommand, ReplyMatches, TypeInv, HandlerStates
<1>2. CASE \E u \in Tasks : EndElsewhere(u) BY <1>2 DEF EndElsewhere, TypeInv, Known
<1>3. CASE CommitCreate
  BY <1>3, NoneIsNoTaskOfOurs DEF CommitCreate, CreatingInv, WriteLocked, TypeInv, Known
<1>4. CASE Crash BY <1>4, NoneIsNoTaskOfOurs DEF Crash, CreatingInv, TypeInv, Known
<1>5. CASE \/ \E h \in Handlers, m \in Messages : Receive(h, m)
           \/ \E h \in Handlers : \/ RecordReceipt(h) \/ BindSender(h) \/ RejectStranger(h)
                                  \/ Locate(h) \/ GiveUp(h)
           \/ \E u \in Tasks : BeginCreate(u) \/ AckTask(u)
           \/ Push \/ PullTasks(TRUE) \/ PullTasks(FALSE) \/ Retain \/ UNCHANGED vars
  <2>1. task' = task
    BY <1>5 DEF Receive, RecordReceipt, BindSender, RejectStranger, Locate, GiveUp, AckTask,
                BeginCreate, Push, PullTasks, Retain, vars, store
  <2> QED BY <2>1 DEF Known
<1> QED BY <1>1, <1>2, <1>3, <1>4, <1>5 DEF Next, Handle, Known

LEMMA SeenInit == Init => SeenInv
BY DEF Init, SeenInv

LEMMA RowMarked ==
  ASSUME NEW r, NEW s, RowOk(r)
  PROVE  RowOk([r EXCEPT !.state = s])
<1>1. PICK q : q = r OBVIOUS
<1>2. q = [id |-> q.id, task |-> q.task, state |-> q.state] BY <1>1 DEF RowOk
<1>3. [q EXCEPT !.state = s] = [id |-> q.id, task |-> q.task, state |-> s] BY <1>2
<1> QED BY <1>1, <1>3 DEF RowOk

LEMMA SeenKept ==
  ASSUME SeenInv, \A t \in Tasks : task[t].state # "none" => task'[t].state # "none",
         \A t \in seen' \cup got' : t \in seen \cup got \/ t = creating'
                                    \/ \E r \in outbox : t = r.task,
         creating' \in Tasks \cup {None}, None \notin seen' \cup got',
         creating \in Tasks => creating' = creating \/ task'[creating].state # "none",
         \A r \in outbox' : RowOk(r) \/ RowOk(r)'
  PROVE  SeenInv'
<1>1. ASSUME NEW t \in seen' \cup got' PROVE t \in Tasks /\ (Known(t)' \/ creating' = t)
  BY <1>1 DEF SeenInv, RowOk, Known
<1>2. ASSUME NEW r \in outbox' PROVE RowOk(r)' BY <1>2 DEF RowOk, Known
<1> QED BY <1>1, <1>2 DEF SeenInv, Known

LEMMA SeenStep == TypeInv /\ CreatingInv /\ SeenInv /\ AimInv /\ [Next]_vars => SeenInv'
<1> SUFFICES ASSUME TypeInv, CreatingInv, SeenInv, AimInv, [Next]_vars PROVE SeenInv' OBVIOUS
<1>a. \A t \in Tasks : task[t].state # "none" => task'[t].state # "none"
  BY TasksAdvance DEF Known
<1>b. None \notin Tasks /\ None \notin seen \cup got BY NoneIsNoTaskOfOurs DEF SeenInv
<1>c. creating \in Tasks \cup {None} /\ creating' \in Tasks \cup {None}
  BY TypeStep DEF TypeInv
<1>1. ASSUME seen' = seen, got' = got, creating' = creating \/ creating = None,
             \A r \in outbox' : RowOk(r) \/ RowOk(r)'
      PROVE  SeenInv'
  BY <1>a, <1>b, <1>c, <1>1, SeenKept
<1>2. ASSUME NEW h \in Handlers, Submit(h) PROVE SeenInv'
  <2> DEFINE t == handler[h].target
  <2>1. UNCHANGED <<seen, got, creating>> BY <1>2 DEF Submit, poller
  <2>2. t \in Tasks \cup {None} /\ (t # None => Known(t))
    BY <1>2, HandlerFacts DEF Submit, AimInv, AimOf, HandlerStates
  <2>3. outbox' = outbox \/ (t # None /\ outbox' = ReopenRow(t))
    BY <1>2 DEF Submit, SubmitText, ObeyCommand, Stage, SendPage, DispatchOutbound
  <2>4. ASSUME NEW r \in ReopenRow(t), t # None PROVE RowOk(r)
    <3> HIDE DEF t
    <3>1. CASE r = [id |-> NewRowId, task |-> t, state |-> "pending"]
      BY <2>2, <2>4, <3>1 DEF RowOk
    <3>2. CASE \E q \in outbox : r = q \/ r = [q EXCEPT !.state = "pending"]
      BY <3>2, RowMarked DEF SeenInv
    <3> QED BY <2>4, <3>1, <3>2 DEF ReopenRow
  <2> QED BY <1>1, <2>1, <2>3, <2>4 DEF SeenInv
<1>3. ASSUME NEW t \in Tasks, BeginCreate(t) PROVE SeenInv'
  BY <1>1, <1>3 DEF BeginCreate, WriteLocked, SeenInv, store, poller
<1>4. ASSUME NEW t \in Tasks, AckTask(t) PROVE SeenInv'
  <2>1. UNCHANGED <<seen, got, creating>> BY <1>4 DEF AckTask, poller
  <2>2. \A r \in outbox' : \E q \in outbox : r = q \/ r = [q EXCEPT !.state = "acked"]
    BY <1>4 DEF AckTask
  <2> QED BY <1>1, <2>1, <2>2, RowMarked DEF SeenInv
<1>5. CASE Push
  <2>1. UNCHANGED <<got, creating, outbox>> /\ seen' = seen \cup {creating} /\ creating \in Tasks
    BY <1>5, <1>c DEF Push, WriteLocked, store, poller
  <2> QED BY <1>a, <1>b, <1>c, <2>1, SeenKept DEF SeenInv
<1>6. CASE CommitCreate
  <2>1. creating \in Tasks /\ UNCHANGED <<seen, got>> /\ task'[creating].state = "waiting"
    BY <1>6, <1>c DEF CommitCreate, WriteLocked, TypeInv, poller
  <2>2. \A r \in outbox' : r \in outbox \/ r = NewRow(creating)
    BY <1>6 DEF CommitCreate
  <2>3. ASSUME NEW r, r = NewRow(creating) PROVE RowOk(r)'
    BY <2>1, <2>3 DEF RowOk, NewRow, Known
  <2> QED BY <1>a, <1>b, <1>c, <2>1, <2>2, <2>3, SeenKept DEF SeenInv
<1>7. ASSUME NEW arrives \in BOOLEAN, PullTasks(arrives) PROVE SeenInv'
  <2>1. UNCHANGED <<seen, creating>> /\ outbox' = MarkDelivered(Batch)
    BY <1>7 DEF PullTasks
  <2>2. Batch \subseteq outbox BY DEF Batch, Pullable
  <2>3. \A r \in outbox' : \E q \in outbox : r = q \/ r = [q EXCEPT !.state = "delivered"]
    BY <2>1, <2>2 DEF MarkDelivered
  <2>4. \A t \in got' : t \in got \/ \E r \in outbox : t = r.task
    BY <1>7, <2>2 DEF PullTasks, poller
  <2>5. \A r \in outbox' : RowOk(r) BY <2>3, RowMarked DEF SeenInv
  <2>6. None \notin seen' \cup got' BY <1>b, <2>1, <2>4 DEF SeenInv, RowOk
  <2> QED BY <1>a, <1>c, <2>1, <2>4, <2>5, <2>6, SeenKept
<1>8. CASE Retain BY <1>1, <1>8 DEF Retain, SeenInv
<1>9. CASE Crash
  <2>1. UNCHANGED <<seen, got, outbox>> BY <1>9 DEF Crash, poller
  <2>2. creating \in Tasks => task'[creating].state # "none" BY <1>9 DEF Crash, TypeInv
  <2> QED BY <1>a, <1>b, <1>c, <2>1, <2>2, SeenKept DEF SeenInv
<1>10. CASE \/ \E h \in Handlers, m \in Messages : Receive(h, m)
            \/ \E h \in Handlers : \/ RecordReceipt(h) \/ BindSender(h) \/ RejectStranger(h)
                                   \/ Locate(h) \/ GiveUp(h)
            \/ \E t \in Tasks : EndElsewhere(t)
            \/ UNCHANGED vars
  <2>1. UNCHANGED <<seen, got, outbox, creating>>
    BY <1>10 DEF Receive, RecordReceipt, BindSender, RejectStranger, Locate, GiveUp,
                 EndElsewhere, vars, store, poller
  <2> QED BY <1>1, <2>1 DEF SeenInv
<1> QED BY <1>2, <1>3, <1>4, <1>5, <1>6, <1>7, <1>8, <1>9, <1>10 DEF Next, Handle

LEMMA AimInit == Init => AimInv
BY DEF Init, AimInv, AimOf, Busy, PastReceipt, Resting

\* What AimOf says of one handler in the next state, without its operators.
AimNext(h, m, t) ==
  /\ handler'[h].at # "idle" /\ m.to # None => m.to \in seen' \cup got'
  /\ handler'[h].at \in {"sender", "submit"} /\ m.to # None => task'[m.to].state # "none"
  /\ handler'[h].at = "submit" =>
       /\ t # None => task'[t].state # "none"
       /\ m.quotes = "reply" => t = m.to \/ (t = None /\ task'[m.to].state = "lost")

LEMMA AimFromNext ==
  ASSUME \A h \in Handlers : AimNext(h, handler'[h].message, handler'[h].target)
  PROVE  AimInv'
BY DEF AimNext, AimInv, AimOf, Busy, PastReceipt, Known

\* Handlers that rest or go on as they were.
LEMMA AimKept ==
  ASSUME TypeInv, CreatingInv, AimInv, [Next]_vars, seen \subseteq seen', got \subseteq got',
         NEW h \in Handlers, handler'[h].at = "idle" \/ handler'[h] = handler[h]
  PROVE  AimNext(h, handler'[h].message, handler'[h].target)
<1>1. CASE handler'[h].at = "idle" BY <1>1 DEF AimNext
<1>2. CASE handler'[h] = handler[h] /\ handler[h].at # "idle"
  <2> DEFINE m == handler[h].message  t == handler[h].target
  <2>1. m \in Messages /\ t \in Tasks \cup {None}
    BY <1>2, HandlerFacts DEF HandlerStates, Busy
  <2>2. m.to \in Tasks \cup {None} /\ (m.quotes = "reply" => m.to \in Tasks)
    BY <2>1, MessageFacts DEF TypeInv, IsMessage
  <2>3. AimOf(h, m, t) BY DEF AimInv
  <2>4. \A u \in Tasks : /\ task[u].state # "none" => task'[u].state # "none"
                         /\ task[u].state = "lost" => task'[u].state = "lost"
    BY TasksAdvance DEF Known
  <2>5. handler'[h].message = m /\ handler'[h].target = t BY <1>2
  <2> HIDE DEF m, t
  <2>6. AimNext(h, m, t)
    BY <1>2, <2>1, <2>2, <2>3, <2>4 DEF AimNext, AimOf, Busy, PastReceipt, Known
  <2> QED BY <2>5, <2>6
<1> QED BY <1>1, <1>2

LEMMA AimStep == TypeInv /\ CreatingInv /\ SeenInv /\ AimInv /\ [Next]_vars => AimInv'
<1> SUFFICES ASSUME TypeInv, CreatingInv, SeenInv, AimInv, [Next]_vars PROVE AimInv' OBVIOUS
<1>1. ASSUME seen \subseteq seen', got \subseteq got', NEW h \in Handlers,
             \A g \in Handlers \ {h} : handler'[g].at = "idle" \/ handler'[g] = handler[g],
             handler'[h].at = "idle" \/ AimNext(h, handler'[h].message, handler'[h].target)
      PROVE  AimInv'
  <2>1. ASSUME NEW g \in Handlers
        PROVE  AimNext(g, handler'[g].message, handler'[g].target)
    BY <1>1, <2>1, AimKept
  <2> QED BY <2>1, AimFromNext
<1>2. ASSUME NEW h \in Handlers, NEW m \in Messages, Receive(h, m) PROVE AimInv'
  <2>1. UNCHANGED <<seen, got>> BY <1>2 DEF Receive, poller
  <2>2. /\ handler'[h].message = m /\ handler'[h].at = "receipt"
        /\ \A g \in Handlers \ {h} : handler'[g] = handler[g]
    BY <1>2 DEF Receive, TypeInv, Resting
  <2>3. m.to # None => m.to \in seen \cup got BY <1>2 DEF Receive, Writable
  <2>4. AimNext(h, handler'[h].message, handler'[h].target) BY <2>1, <2>2, <2>3 DEF AimNext
  <2> QED BY <1>1, <2>1, <2>2, <2>4
<1>3. ASSUME NEW h \in Handlers, RecordReceipt(h) PROVE AimInv'
  <2>1. UNCHANGED <<seen, got, task>> /\ Busy(h) /\ creating = None
    BY <1>3 DEF RecordReceipt, poller, MayWrite, WriteLocked, Busy
  <2>2. \A g \in Handlers \ {h} : handler'[g] = handler[g]
    BY <1>3 DEF RecordReceipt, Answer, TypeInv
  <2>3. CASE handler'[h].at = "idle" BY <1>1, <2>1, <2>2, <2>3
  <2>4. CASE handler'[h].at # "idle"
    <3>1. handler'[h].at = "sender" /\ handler'[h].message = handler[h].message
      BY <1>3, <2>4, HandlerFacts DEF RecordReceipt, Answer, TypeInv, HandlerStates, Resting
    <3>2. handler[h].message.to # None => /\ handler[h].message.to \in seen \cup got
                                          /\ task[handler[h].message.to].state # "none"
      BY <2>1, NoneIsNoTaskOfOurs DEF AimInv, AimOf, SeenInv, Known
    <3>3. AimNext(h, handler'[h].message, handler'[h].target)
      BY <2>1, <3>1, <3>2 DEF AimNext
    <3> QED BY <1>1, <2>1, <2>2, <3>3
  <2> QED BY <2>3, <2>4
<1>4. ASSUME NEW h \in Handlers, Locate(h) PROVE AimInv'
  <2> DEFINE m == handler[h].message
  <2>1. UNCHANGED <<seen, got, task>> /\ Busy(h) /\ PastReceipt(h) /\ m \in Messages
    BY <1>4, HandlerFacts DEF Locate, poller, store, Busy, PastReceipt
  <2>2. /\ \A g \in Handlers \ {h} : handler'[g] = handler[g]
        /\ handler'[h].message = m /\ handler'[h].at = "submit"
        /\ handler'[h].target = Target(m)
    BY <1>4, HandlerFacts DEF Locate, TypeInv, HandlerStates
  <2>3. Target(m) # None => task[Target(m)].state # "none"
    BY <2>1, TargetType DEF TypeInv, Exists
  <2>4. m.to # None => m.to \in seen \cup got /\ task[m.to].state # "none"
    BY <2>1 DEF AimInv, AimOf, Known
  <2>5. IsMessage(m) BY <2>1, MessageFacts DEF TypeInv
  <2>6. m.quotes = "reply" =>
          Target(m) = m.to \/ (Target(m) = None /\ task[m.to].state = "lost")
    BY <2>4, <2>5, NoneIsNoTaskOfOurs DEF Target, Exists, IsMessage, TypeInv, States
  <2>7. AimNext(h, handler'[h].message, handler'[h].target)
    <3> HIDE DEF m
    <3> QED BY <2>1, <2>2, <2>3, <2>4, <2>6 DEF AimNext
  <2> QED BY <1>1, <2>1, <2>2, <2>7
<1>5. ASSUME NEW h \in Handlers,
             BindSender(h) \/ RejectStranger(h) \/ Submit(h) \/ GiveUp(h)
      PROVE  AimInv'
  <2>1. UNCHANGED <<seen, got>>
    BY <1>5 DEF BindSender, RejectStranger, Submit, GiveUp, poller
  <2>2. \E r \in Results : Answer(h, r)
    BY <1>5 DEF BindSender, RejectStranger, Submit, SubmitText, ObeyCommand, GiveUp, Results
  <2>3. \A g \in Handlers : handler'[g].at = "idle" \/ handler'[g] = handler[g]
    BY <2>2 DEF Answer, TypeInv, Resting
  <2>4. handler'[h].at = "idle" BY <2>2 DEF Answer, TypeInv, Resting
  <2> QED BY <1>1, <2>1, <2>3, <2>4
<1>6. CASE \/ \E t \in Tasks : BeginCreate(t) \/ EndElsewhere(t) \/ AckTask(t)
           \/ Push \/ CommitCreate \/ PullTasks(TRUE) \/ PullTasks(FALSE) \/ Retain
           \/ UNCHANGED vars
  <2>1. handler' = handler /\ seen \subseteq seen' /\ got \subseteq got'
    BY <1>6 DEF BeginCreate, EndElsewhere, AckTask, Push, CommitCreate, PullTasks, Retain,
                vars, poller
  <2>2. ASSUME NEW g \in Handlers
        PROVE  AimNext(g, handler'[g].message, handler'[g].target)
    BY <2>1, AimKept
  <2> QED BY <2>2, AimFromNext
<1>7. CASE Crash
  <2>1. \A g \in Handlers : handler'[g].at = "idle" BY <1>7 DEF Crash, Resting
  <2> QED BY <2>1, AimFromNext DEF AimNext
<1> QED BY <1>2, <1>3, <1>4, <1>5, <1>6, <1>7 DEF Next, Handle

LEMMA FindsInit == Init => ReplyFindsItsTask
BY MessageFacts DEF Init, ReplyFindsItsTask

LEMMA FindsStep ==
  TypeInv /\ CreatingInv /\ AimInv /\ ReplyFindsItsTask /\ [Next]_vars => ReplyFindsItsTask'
<1> SUFFICES ASSUME TypeInv, CreatingInv, AimInv, ReplyFindsItsTask, [Next]_vars
             PROVE  ReplyFindsItsTask'
  OBVIOUS
<1>1. \A t \in Tasks : task[t].state = "lost" => task'[t].state = "lost" BY TasksAdvance
<1>2. \A m \in Messages : m.quotes = "reply" => m.to \in Tasks
  BY MessageFacts DEF TypeInv, IsMessage
<1>3. ASSUME setup' = setup,
             \A m \in Messages : "unhandled" \in answers'[m.id] => "unhandled" \in answers[m.id]
      PROVE  ReplyFindsItsTask'
  BY <1>1, <1>2, <1>3, Frame DEF ReplyFindsItsTask, IsCommand, PullOnly
<1>4. ASSUME NEW h \in Handlers, NEW r \in Results, Busy(h), Answer(h, r), r # "unhandled"
      PROVE  \A m \in Messages : "unhandled" \in answers'[m.id] => "unhandled" \in answers[m.id]
  BY <1>4, HandlerFacts, MessageFacts DEF Answer, TypeInv
<1>5. ASSUME NEW h \in Handlers,
             RecordReceipt(h) \/ BindSender(h) \/ RejectStranger(h) \/ GiveUp(h)
      PROVE  ReplyFindsItsTask'
  <2>1. setup' = setup /\ Busy(h)
    BY <1>5 DEF RecordReceipt, BindSender, RejectStranger, GiveUp, Busy
  <2>2. answers' = answers \/ \E r \in Results \ {"unhandled"} : Answer(h, r)
    BY <1>5 DEF RecordReceipt, BindSender, RejectStranger, GiveUp, Results
  <2> QED BY <1>3, <1>4, <2>1, <2>2
<1>6. ASSUME NEW h \in Handlers, Submit(h) PROVE ReplyFindsItsTask'
  <2> DEFINE m == handler[h].message  t == handler[h].target
  <2>1. setup' = setup /\ Busy(h) /\ m \in Messages /\ handler[h].at = "submit"
    BY <1>6, HandlerFacts DEF Submit, Busy
  <2>2. CASE Answer(h, "accepted") \/ Answer(h, "late")
    BY <1>3, <1>4, <2>1, <2>2 DEF Results
  <2>3. CASE /\ Answer(h, "unhandled")
             /\ t = None \/ (t \in setup.strict /\ ~IsCommand(m))
    <3>1. \A n \in Messages : "unhandled" \in answers'[n.id] =>
                                "unhandled" \in answers[n.id] \/ n = m
      BY <2>1, <2>3, MessageFacts DEF Answer, TypeInv
    <3>2. m.quotes = "reply" => \/ task[m.to].state = "lost"
                                \/ m.to \in setup.strict /\ ~IsCommand(m)
      BY <1>2, <2>1, <2>3, NoneIsNoTaskOfOurs DEF AimInv, AimOf
    <3> HIDE DEF m
    <3> QED BY <1>1, <1>2, <2>1, <3>1, <3>2, Frame DEF ReplyFindsItsTask, IsCommand, PullOnly
  <2> QED BY <1>6, <2>2, <2>3 DEF Submit, SubmitText, ObeyCommand
<1>7. CASE \/ \E h \in Handlers, m \in Messages : Receive(h, m)
           \/ \E h \in Handlers : Locate(h)
           \/ \E t \in Tasks : BeginCreate(t) \/ EndElsewhere(t) \/ AckTask(t)
           \/ Push \/ CommitCreate \/ PullTasks(TRUE) \/ PullTasks(FALSE) \/ Retain \/ Crash
           \/ UNCHANGED vars
  <2>1. UNCHANGED <<setup, answers>>
    BY <1>7 DEF Receive, Locate, BeginCreate, EndElsewhere, AckTask, Push, CommitCreate,
                PullTasks, Retain, Crash, vars, history
  <2> QED BY <1>3, <2>1
<1> QED BY <1>5, <1>6, <1>7 DEF Next, Handle

\* A reply to a package that was pushed before its task was committed waits for
\* the commit with its receipt, and then finds the task unless a crash lost it.
THEOREM ReplyFindsItsTaskHolds == Spec => []ReplyFindsItsTask
BY TypeInit, TypeStep, CreatingInit, CreatingStep, SeenInit, SeenStep, AimInit, AimStep,
   FindsInit, FindsStep, PTL DEF Spec

-----------------------------------------------------------------------------
(* The outbox and the poller's cursor.                                     *)

RowStates == {"pending", "delivered", "acked"}

\* The rows, unique by number and by task; what was acknowledged had arrived.
OutboxInv ==
  /\ cursor \in Nat /\ forgotten \in BOOLEAN
  /\ \A r \in outbox : r.id \in Nat \ {0} /\ r.state \in RowStates
  /\ \A r, q \in outbox : (r.id = q.id \/ r.task = q.task) => r = q
  /\ \A r \in outbox : r.state = "acked" => r.task \in got

\* The next row is given a number beyond the cursor: a row at or beyond it is
\* there as long as retention did not delete the newest one.
CursorInv == forgotten \/ cursor = 0 \/ \E r \in outbox : cursor <= r.id

Relabelled(q, f) == [id |-> q.id, task |-> q.task, state |-> f[q]]

\* The rows change in their state only.
Relabels(f) ==
  /\ f \in [outbox -> RowStates]
  /\ outbox' = {Relabelled(q, f) : q \in outbox}
  /\ \A q \in outbox : f[q] = "acked" => q.state = "acked" \/ q.task \in got
  /\ forgotten' = forgotten

\* A row is added for a task that has none.
AddsRow(r) ==
  /\ outbox' = outbox \cup {r}
  /\ r.id = NewRowId /\ r.state \in {"pending", "delivered"}
  /\ \A q \in outbox : q.task # r.task
  /\ UNCHANGED poller

\* Every step is one of these for the outbox.
OutboxForms ==
  \/ UNCHANGED <<outbox, poller>>
  \/ \E f \in [outbox -> RowStates] : Relabels(f) /\ UNCHANGED poller
  \/ \E t \in Tasks, s \in RowStates : \E n : AddsRow([id |-> n, task |-> t, state |-> s])
  \/ PullTasks(TRUE) \/ PullTasks(FALSE)
  \/ Retain

LEMMA OutboxIsFinite ==
  ASSUME SeenInv, OutboxInv, NEW rows \in SUBSET outbox
  PROVE  /\ IsFiniteSet(rows)
         /\ IsFiniteSet({r.id : r \in rows}) /\ {r.id : r \in rows} \subseteq Nat
<1> DEFINE f == [r \in rows |-> r.task]
           g == [r \in rows |-> r.id]
<1>1. f \in Injection(rows, Tasks)
  BY DEF Injection, IsInjective, OutboxInv, SeenInv, RowOk
<1>2. IsFiniteSet(Tasks)
  BY FS_Interval, BoundsAreNumbers DEF Tasks
<1>3. IsFiniteSet(rows)
  <2> HIDE DEF f
  <2> QED
    BY <1>1, <1>2, FS_Injection
<1>4. g \in Surjection(rows, {r.id : r \in rows})
  BY DEF Surjection
<1>5. IsFiniteSet({r.id : r \in rows})
  <2> HIDE DEF g
  <2> QED
    BY <1>3, <1>4, FS_Surjection
<1>6. {r.id : r \in rows} \subseteq Nat
  BY DEF OutboxInv
<1> QED
  BY <1>3, <1>5, <1>6

LEMMA NewRowIdIsNew ==
  ASSUME SeenInv, OutboxInv
  PROVE  /\ NewRowId \in Nat \ {0}
         /\ \A r \in outbox : r.id < NewRowId
<1>1. IsFiniteSet(RowIds) /\ RowIds \subseteq Nat
  BY OutboxIsFinite DEF RowIds
<1>2. CASE RowIds = {}
  BY <1>2 DEF NewRowId, RowIds
<1>3. CASE RowIds # {}
  <2>1. PICK k : k = CHOOSE n \in RowIds : \A i \in RowIds : i <= n
    OBVIOUS
  <2>2. k \in RowIds /\ \A i \in RowIds : i <= k
    BY <1>1, <1>3, <2>1, FiniteMax
  <2>3. NewRowId = 1 + k
    BY <1>3, <2>1 DEF NewRowId
  <2>4. k \in Nat /\ \A r \in outbox : r.id <= k /\ r.id \in Nat
    BY <1>1, <2>2 DEF RowIds
  <2> QED
    BY <2>3, <2>4
<1> QED
  BY <1>2, <1>3

\* What the handlers and the transaction of create_task do to the outbox.
LEMMA ReopenForm ==
  ASSUME SeenInv, OutboxInv, NEW t \in Tasks, outbox' = ReopenRow(t), UNCHANGED poller
  PROVE  OutboxForms
<1>1. CASE \E r \in outbox : r.task = t
  <2> DEFINE f == [q \in outbox |-> IF q.task = t THEN "pending" ELSE q.state]
  <2>1. f \in [outbox -> RowStates]
    BY DEF OutboxInv, RowStates
  <2>2. ASSUME NEW q \in outbox
        PROVE  Relabelled(q, f) = IF q.task = t THEN [q EXCEPT !.state = "pending"] ELSE q
    <3>1. PICK r : r = q
      OBVIOUS
    <3>2. r = [id |-> r.id, task |-> r.task, state |-> r.state]
      BY <3>1 DEF SeenInv, RowOk
    <3>3. [r EXCEPT !.state = "pending"] = [id |-> r.id, task |-> r.task, state |-> "pending"]
      BY <3>2
    <3>4. f[q] = IF q.task = t THEN "pending" ELSE q.state
      OBVIOUS
    <3> HIDE DEF f
    <3> QED
      BY <3>1, <3>2, <3>3, <3>4 DEF Relabelled
  <2>3. \A q \in outbox : f[q] = "acked" => q.state = "acked"
    OBVIOUS
  <2> HIDE DEF f
  <2>4. outbox' = {Relabelled(q, f) : q \in outbox}
    BY <1>1, <2>2 DEF ReopenRow
  <2> QED
    BY <2>1, <2>3, <2>4 DEF Relabels, OutboxForms, poller
<1>2. CASE ~\E r \in outbox : r.task = t
  <2>1. AddsRow([id |-> NewRowId, task |-> t, state |-> "pending"])
    BY <1>2 DEF ReopenRow, AddsRow
  <2>2. "pending" \in RowStates
    BY DEF RowStates
  <2> QED
    BY <2>1, <2>2 DEF OutboxForms
<1> QED
  BY <1>1, <1>2

LEMMA OutboxStepForms ==
  ASSUME TypeInv, CreatingInv, SeenInv, AimInv, OutboxInv, [Next]_vars
  PROVE  OutboxForms
<1>1. ASSUME NEW h \in Handlers, Submit(h)
      PROVE  OutboxForms
  <2> DEFINE t == handler[h].target
  <2>1. UNCHANGED poller
    BY <1>1 DEF Submit
  <2>2. t \in Tasks \cup {None}
    BY HandlerFacts DEF HandlerStates
  <2>3. outbox' = outbox \/ (t # None /\ outbox' = ReopenRow(t))
    BY <1>1 DEF Submit, SubmitText, ObeyCommand, Stage, SendPage, DispatchOutbound
  <2> HIDE DEF t
  <2>4. CASE outbox' = outbox
    BY <2>1, <2>4 DEF OutboxForms
  <2> QED
    BY <2>1, <2>2, <2>3, <2>4, ReopenForm
<1>2. CASE CommitCreate
  <2>1. creating \in Tasks /\ task[creating].state = "none" /\ UNCHANGED poller
    BY <1>2 DEF CommitCreate, WriteLocked, TypeInv, CreatingInv
  <2>2. PICK s \in {"pending", "delivered"} :
          NewRow(creating) = [id |-> NewRowId, task |-> creating, state |-> s]
    BY DEF NewRow
  <2>3. \A q \in outbox : q.task # creating
    BY <2>1 DEF SeenInv, RowOk, Known
  <2>4. CASE outbox' = outbox
    BY <2>1, <2>4 DEF OutboxForms
  <2>5. CASE outbox' = outbox \cup {NewRow(creating)}
    <3>1. AddsRow([id |-> NewRowId, task |-> creating, state |-> s])
      BY <2>1, <2>2, <2>3, <2>5 DEF AddsRow
    <3>2. s \in RowStates
      BY DEF RowStates
    <3> QED
      BY <2>1, <3>1, <3>2 DEF OutboxForms
  <2> QED
    BY <1>2, <2>4, <2>5 DEF CommitCreate
<1>3. ASSUME NEW t \in Tasks, AckTask(t)
      PROVE  OutboxForms
  <2> DEFINE f == [q \in outbox |-> IF q.task = t THEN "acked" ELSE q.state]
  <2>1. f \in [outbox -> RowStates]
    BY DEF OutboxInv, RowStates
  <2>2. ASSUME NEW q \in outbox
        PROVE  Relabelled(q, f) = IF q.task = t THEN [q EXCEPT !.state = "acked"] ELSE q
    <3>1. PICK r : r = q
      OBVIOUS
    <3>2. r = [id |-> r.id, task |-> r.task, state |-> r.state]
      BY <3>1 DEF SeenInv, RowOk
    <3>3. [r EXCEPT !.state = "acked"] = [id |-> r.id, task |-> r.task, state |-> "acked"]
      BY <3>2
    <3>4. f[q] = IF q.task = t THEN "acked" ELSE q.state
      OBVIOUS
    <3> HIDE DEF f
    <3> QED
      BY <3>1, <3>2, <3>3, <3>4 DEF Relabelled
  <2>3. \A q \in outbox : f[q] = "acked" => q.state = "acked" \/ q.task \in got
    BY <1>3 DEF AckTask
  <2> HIDE DEF f
  <2>4. outbox' = {Relabelled(q, f) : q \in outbox}
    BY <1>3, <2>2 DEF AckTask
  <2> QED
    BY <1>3, <2>1, <2>3, <2>4 DEF AckTask, Relabels, OutboxForms, poller
<1>4. CASE PullTasks(TRUE) \/ PullTasks(FALSE) \/ Retain
  BY <1>4 DEF OutboxForms
<1>5. CASE \/ \E h \in Handlers, m \in Messages : Receive(h, m)
           \/ \E h \in Handlers : \/ RecordReceipt(h) \/ BindSender(h) \/ RejectStranger(h)
                                  \/ Locate(h) \/ GiveUp(h)
           \/ \E t \in Tasks : BeginCreate(t) \/ EndElsewhere(t)
           \/ Push \/ Crash \/ UNCHANGED vars
  <2>1. UNCHANGED <<outbox, poller>>
    BY <1>5 DEF Receive, RecordReceipt, BindSender, RejectStranger, Locate, GiveUp,
                BeginCreate, EndElsewhere, Push, Crash, vars, store
  <2> QED
    BY <2>1 DEF OutboxForms
<1> QED
  BY <1>1, <1>2, <1>3, <1>4, <1>5 DEF Next, Handle

LEMMA OutboxInit == Init => OutboxInv /\ CursorInv /\ CursorSkipsNothing
<1> SUFFICES ASSUME Init
             PROVE  OutboxInv /\ CursorInv /\ CursorSkipsNothing
  OBVIOUS
<1>1. outbox = {} /\ cursor = 0 /\ forgotten = FALSE
  BY DEF Init
<1>2. forgotten \in BOOLEAN
  BY <1>1
<1> QED
  BY <1>1, <1>2 DEF OutboxInv, CursorInv, CursorSkipsNothing

\* Another state of its rows leaves the outbox in order.
LEMMA RelabelKeeps ==
  ASSUME SeenInv, OutboxInv, CursorInv, NEW f, Relabels(f), cursor' \in Nat, got \subseteq got'
  PROVE  /\ OutboxInv'
         /\ cursor' = cursor => CursorInv'
         /\ \A r \in outbox' : \E q \in outbox : r.id = q.id /\ r.task = q.task
         /\ \A q \in outbox : \E r \in outbox' : r.id = q.id /\ r.task = q.task
<1>1. ASSUME NEW r \in outbox'
      PROVE  \E q \in outbox : r.id = q.id /\ r.task = q.task /\ r.state = f[q]
                               /\ r = Relabelled(q, f)
  BY DEF Relabels, Relabelled
<1>2. ASSUME NEW q \in outbox
      PROVE  \E r \in outbox' : r.id = q.id /\ r.task = q.task
  <2>1. PICK r : r = Relabelled(q, f)
    OBVIOUS
  <2>2. r \in outbox'
    BY <2>1 DEF Relabels
  <2> QED
    BY <2>1, <2>2 DEF Relabelled
<1>3. \A r \in outbox' : r.id \in Nat \ {0} /\ r.state \in RowStates
                         /\ (r.state = "acked" => r.task \in got')
  <2>1. \A q \in outbox : f[q] \in RowStates
    BY DEF Relabels
  <2> QED
    BY <1>1, <2>1 DEF Relabels, OutboxInv
<1>4. \A r, s \in outbox' : (r.id = s.id \/ r.task = s.task) => r = s
  BY <1>1 DEF OutboxInv
<1>5. OutboxInv'
  BY <1>3, <1>4 DEF OutboxInv, Relabels
<1>6. cursor' = cursor => CursorInv'
  BY <1>2 DEF CursorInv, Relabels
<1> QED
  BY <1>1, <1>2, <1>5, <1>6

LEMMA AddKeeps ==
  ASSUME SeenInv, OutboxInv, CursorInv, CursorSkipsNothing,
         NEW t \in Tasks, NEW s \in RowStates, NEW n, AddsRow([id |-> n, task |-> t, state |-> s])
  PROVE  OutboxInv' /\ CursorInv' /\ CursorSkipsNothing'
<1>1. PICK r : r = [id |-> n, task |-> t, state |-> s]
  OBVIOUS
<1>2. /\ outbox' = outbox \cup {r} /\ r.id = NewRowId /\ r.state \in {"pending", "delivered"}
      /\ \A q \in outbox : q.task # r.task
      /\ UNCHANGED <<cursor, got, forgotten>>
  BY <1>1 DEF AddsRow, poller
<1>3. r.id \in Nat \ {0} /\ \A q \in outbox : q.id < r.id /\ q.id \in Nat
  BY <1>2, NewRowIdIsNew DEF OutboxInv
<1>4. OutboxInv'
  <2>1. \A q \in outbox' : q.id \in Nat \ {0} /\ q.state \in RowStates
                           /\ (q.state = "acked" => q.task \in got)
    BY <1>2, <1>3 DEF OutboxInv, RowStates
  <2>2. \A p, q \in outbox' : (p.id = q.id \/ p.task = q.task) => p = q
    BY <1>2, <1>3 DEF OutboxInv
  <2> QED
    BY <1>2, <2>1, <2>2 DEF OutboxInv
<1>5. CursorInv'
  BY <1>2 DEF CursorInv
<1>6. CursorSkipsNothing'
  <2>1. ASSUME ~forgotten
        PROVE  ~(r.id <= cursor)
    BY <1>3, <2>1 DEF CursorInv, OutboxInv
  <2> QED
    BY <1>2, <2>1 DEF CursorSkipsNothing
<1> QED
  BY <1>4, <1>5, <1>6

\* Retention deletes acknowledged rows; unless it deletes the newest, a row at
\* or beyond the cursor stays.
LEMMA RetainKeeps ==
  ASSUME SeenInv, OutboxInv, CursorInv, CursorSkipsNothing, Retain
  PROVE  OutboxInv' /\ CursorInv' /\ CursorSkipsNothing'
<1>1. /\ outbox' \subseteq outbox /\ UNCHANGED <<cursor, got>>
      /\ forgotten' = (forgotten \/ \E r \in outbox \ outbox' : \A q \in outbox : q.id <= r.id)
  BY DEF Retain
<1>2. OutboxInv'
  <2>1. forgotten' \in BOOLEAN
    BY DEF Retain, OutboxInv
  <2> QED
    BY <1>1, <2>1 DEF OutboxInv
<1>3. ASSUME ~forgotten', cursor # 0
      PROVE  \E r \in outbox' : cursor <= r.id
  <2>1. ~forgotten /\ \A r \in outbox \ outbox' : ~\A q \in outbox : q.id <= r.id
    BY <1>1, <1>3
  <2>2. PICK r \in outbox : cursor <= r.id
    BY <1>3, <2>1 DEF CursorInv
  <2>3. IsFiniteSet(RowIds) /\ RowIds \subseteq Nat /\ RowIds # {}
    BY <2>2, OutboxIsFinite DEF RowIds
  <2>4. PICK k \in RowIds : \A i \in RowIds : i <= k
    BY <2>3, FiniteMax
  <2>5. PICK q \in outbox : q.id = k
    BY <2>4 DEF RowIds
  <2>6. \A p \in outbox : p.id <= q.id /\ p.id \in Nat
    BY <2>3, <2>4, <2>5 DEF RowIds
  <2>7. q \in outbox'
    BY <2>1, <2>5, <2>6
  <2>8. cursor <= q.id
    BY <2>2, <2>6 DEF OutboxInv
  <2> QED
    BY <2>7, <2>8
<1>4. CursorInv'
  BY <1>1, <1>3 DEF CursorInv
<1>5. CursorSkipsNothing'
  BY <1>1 DEF CursorSkipsNothing
<1> QED
  BY <1>2, <1>4, <1>5

\* A pull whose answer is lost changes the states of rows; one that arrives also
\* moves the cursor to the last row of the page, and everything pullable up to
\* that row was on the page.
LEMMA PullForm ==
  ASSUME SeenInv, OutboxInv, NEW arrives \in BOOLEAN, PullTasks(arrives)
  PROVE  \E f \in [outbox -> RowStates] : Relabels(f)
<1> DEFINE f == [q \in outbox |-> IF q \in Batch THEN "delivered" ELSE q.state]
<1>1. f \in [outbox -> RowStates]
  BY DEF OutboxInv, RowStates
<1>2. Batch \subseteq outbox
  BY DEF Batch, Pullable
<1>3. ASSUME NEW q \in outbox
      PROVE  Relabelled(q, f) = IF q \in Batch THEN [q EXCEPT !.state = "delivered"] ELSE q
  <2>1. PICK r : r = q
    OBVIOUS
  <2>2. r = [id |-> r.id, task |-> r.task, state |-> r.state]
    BY <2>1 DEF SeenInv, RowOk
  <2>3. [r EXCEPT !.state = "delivered"] = [id |-> r.id, task |-> r.task, state |-> "delivered"]
    BY <2>2
  <2>4. f[q] = IF q \in Batch THEN "delivered" ELSE q.state
    OBVIOUS
  <2> HIDE DEF f
  <2> QED
    BY <2>1, <2>2, <2>3, <2>4 DEF Relabelled
<1>4. \A q \in outbox : f[q] = "acked" => q.state = "acked"
  OBVIOUS
<1> HIDE DEF f
<1>5. outbox' = {Relabelled(q, f) : q \in outbox}
  <2>1. outbox' = (outbox \ Batch) \cup {[q EXCEPT !.state = "delivered"] : q \in Batch}
    BY DEF PullTasks, MarkDelivered
  <2>2. ASSUME NEW r \in outbox'
        PROVE  \E q \in outbox : r = Relabelled(q, f)
    BY <1>2, <1>3, <2>1
  <2>3. ASSUME NEW q \in outbox
        PROVE  Relabelled(q, f) \in outbox'
    BY <1>3, <2>1
  <2> QED
    BY <2>2, <2>3
<1>6. forgotten' = forgotten
  BY DEF PullTasks, poller
<1> QED
  BY <1>1, <1>4, <1>5, <1>6 DEF Relabels

LEMMA PullKeeps ==
  ASSUME SeenInv, OutboxInv, CursorInv, CursorSkipsNothing,
         NEW arrives \in BOOLEAN, PullTasks(arrives)
  PROVE  OutboxInv' /\ CursorInv' /\ CursorSkipsNothing'
<1>1. PICK f \in [outbox -> RowStates] : Relabels(f)
  BY PullForm
<1>2. Batch \subseteq outbox /\ forgotten' = forgotten
  BY DEF Batch, Pullable, PullTasks, poller
<1>3. CASE cursor' = cursor /\ got \subseteq got'
  <2>1. cursor' \in Nat
    BY <1>3 DEF OutboxInv
  <2>2. /\ OutboxInv' /\ CursorInv'
        /\ \A r \in outbox' : \E q \in outbox : r.id = q.id /\ r.task = q.task
    BY <1>1, <1>3, <2>1, RelabelKeeps
  <2>3. CursorSkipsNothing'
    BY <1>2, <1>3, <2>2 DEF CursorSkipsNothing
  <2> QED
    BY <2>2, <2>3
<1>4. CASE Batch # {} /\ cursor' = CursorAfter(Batch) /\ got' = got \cup {r.task : r \in Batch}
  <2>1. PICK b \in Batch : b.id = cursor' /\ \A r \in Batch : r.id <= b.id
    <3>1. IsFiniteSet({r.id : r \in Batch}) /\ {r.id : r \in Batch} \subseteq Nat
      BY <1>2, OutboxIsFinite
    <3>2. {r.id : r \in Batch} # {}
      BY <1>4
    <3>3. \E n \in {r.id : r \in Batch} : \A m \in {r.id : r \in Batch} : m <= n
      BY <3>1, <3>2, FiniteMax
    <3>4. \E n \in {r.id : r \in Batch} : \A r \in Batch : r.id <= n
      BY <3>3
    <3>5. PICK k : k = CHOOSE n \in {r.id : r \in Batch} : \A r \in Batch : r.id <= n
      OBVIOUS
    <3>6. k \in {r.id : r \in Batch} /\ \A r \in Batch : r.id <= k
      BY <3>4, <3>5
    <3>7. cursor' = k
      BY <1>4, <3>5 DEF CursorAfter
    <3> QED
      BY <3>6, <3>7
  <2>2. b \in outbox /\ b \in Pullable /\ b.id > cursor /\ b.id \in Nat
    BY <1>2 DEF Batch, Pullable, OutboxInv
  <2>3. cursor' \in Nat /\ got \subseteq got'
    BY <1>4, <2>1, <2>2
  <2>4. /\ OutboxInv'
        /\ \A r \in outbox' : \E q \in outbox : r.id = q.id /\ r.task = q.task
        /\ \A q \in outbox : \E r \in outbox' : r.id = q.id /\ r.task = q.task
    BY <1>1, <2>3, RelabelKeeps
  <2>5. CursorInv'
    BY <2>1, <2>2, <2>3, <2>4 DEF CursorInv
  \* A pullable row before one of the page is on the page.
  <2>6. ASSUME NEW q \in Pullable, q.id <= b.id
        PROVE  q \in Batch
    <3> DEFINE Under(x) == {s \in Pullable : s.id < x.id}
    <3>1. q \in outbox /\ q.id \in Nat /\ \A s \in Pullable : s.id \in Nat
      BY DEF Pullable, OutboxInv
    <3>2. Under(q) \subseteq Under(b)
      BY <2>2, <2>6, <3>1
    <3>3. IsFiniteSet(Under(b))
      <4>1. Under(b) \in SUBSET outbox
        BY DEF Pullable
      <4> HIDE DEF Under
      <4> QED
        BY <4>1, OutboxIsFinite
    <3>4. /\ Cardinality(Under(q)) \in Nat /\ Cardinality(Under(b)) \in Nat
          /\ Cardinality(Under(q)) <= Cardinality(Under(b))
      <4> HIDE DEF Under
      <4> QED
        BY <3>2, <3>3, CountGrows
    <3>5. Cardinality(Under(b)) < PageSize
      BY DEF Batch
    <3>6. Cardinality(Under(q)) < PageSize
      <4> HIDE DEF Under
      <4> QED
        BY <3>4, <3>5, BoundsAreNumbers
    <3> QED
      BY <3>6 DEF Batch
  <2>7. ASSUME ~forgotten, NEW q \in outbox, q.id <= b.id
        PROVE  q.task \in got'
    <3>1. CASE q.id <= cursor
      BY <2>3, <2>7, <3>1 DEF CursorSkipsNothing
    <3>2. CASE q.state = "acked"
      BY <2>3, <3>2 DEF OutboxInv
    <3>3. CASE q.id > cursor /\ q.state # "acked"
      <4>1. q \in Pullable
        BY <3>3 DEF Pullable, OutboxInv, RowStates
      <4> QED
        BY <1>4, <2>6, <2>7, <4>1
    <3> QED
      BY <3>1, <3>2, <3>3 DEF OutboxInv
  <2>8. CursorSkipsNothing'
    BY <1>2, <2>1, <2>4, <2>7 DEF CursorSkipsNothing
  <2> QED
    BY <2>4, <2>5, <2>8
<1>5. \/ cursor' = cursor /\ got \subseteq got'
      \/ Batch # {} /\ cursor' = CursorAfter(Batch) /\ got' = got \cup {r.task : r \in Batch}
  BY DEF PullTasks, poller, CursorAfter
<1> QED
  BY <1>3, <1>4, <1>5

LEMMA OutboxStep ==
  ASSUME TypeInv, CreatingInv, SeenInv, AimInv, OutboxInv, CursorInv, CursorSkipsNothing,
         [Next]_vars
  PROVE  OutboxInv' /\ CursorInv' /\ CursorSkipsNothing'
<1>1. OutboxForms
  BY OutboxStepForms
<1>2. CASE UNCHANGED <<outbox, poller>>
  BY <1>2 DEF poller, OutboxInv, CursorInv, CursorSkipsNothing
<1>3. ASSUME NEW f \in [outbox -> RowStates], Relabels(f), UNCHANGED poller
      PROVE  OutboxInv' /\ CursorInv' /\ CursorSkipsNothing'
  <2>1. UNCHANGED <<cursor, got, forgotten>> /\ cursor' \in Nat
    BY <1>3 DEF poller, OutboxInv
  <2>2. /\ OutboxInv' /\ CursorInv'
        /\ \A r \in outbox' : \E q \in outbox : r.id = q.id /\ r.task = q.task
    BY <1>3, <2>1, RelabelKeeps
  <2> QED
    BY <2>1, <2>2 DEF CursorSkipsNothing
<1>4. ASSUME NEW t \in Tasks, NEW s \in RowStates, NEW n,
             AddsRow([id |-> n, task |-> t, state |-> s])
      PROVE  OutboxInv' /\ CursorInv' /\ CursorSkipsNothing'
  BY <1>4, AddKeeps
<1>5. CASE PullTasks(TRUE) \/ PullTasks(FALSE)
  BY <1>5, PullKeeps
<1>6. CASE Retain
  BY <1>6, RetainKeeps
<1> QED
  BY <1>1, <1>2, <1>3, <1>4, <1>5, <1>6 DEF OutboxForms

LEMMA OutboxInvariant ==
  Spec => [](TypeInv /\ CreatingInv /\ SeenInv /\ AimInv /\ OutboxInv /\ CursorInv
             /\ CursorSkipsNothing)
BY TypeInit, TypeStep, CreatingInit, CreatingStep, SeenInit, SeenStep, AimInit, AimStep,
   OutboxInit, OutboxStep, PTL DEF Spec

\* Who handles nothing has no message.
IdleInv == \A h \in Handlers : ~Busy(h) => handler[h].message = None

LEMMA IdleInvariant == Spec => []IdleInv
<1>1. Init => IdleInv
  BY DEF Init, IdleInv, Resting
<1>2. TypeInv /\ IdleInv /\ [Next]_vars => IdleInv'
  <2> SUFFICES ASSUME TypeInv, IdleInv, [Next]_vars
               PROVE  IdleInv'
    OBVIOUS
  <2>1. ASSUME NEW h \in Handlers, NEW m \in Messages, Receive(h, m)
        PROVE  IdleInv'
    BY <2>1 DEF Receive, TypeInv, IdleInv, Busy, Resting
  <2>2. ASSUME NEW h \in Handlers, NEW r, Answer(h, r)
        PROVE  IdleInv'
    BY <2>2 DEF Answer, TypeInv, IdleInv, Busy, Resting
  <2>3. ASSUME NEW h \in Handlers, Handle(h)
        PROVE  IdleInv'
    <3>1. CASE \E r \in Results : Answer(h, r)
      BY <2>2, <3>1
    <3>2. CASE handler' = [handler EXCEPT ![h].at = "sender"]
      BY <3>2, HandlerFacts DEF TypeInv, HandlerStates, IdleInv, Busy
    <3>3. CASE Locate(h)
      BY <3>3, HandlerFacts DEF Locate, TypeInv, HandlerStates, IdleInv, Busy
    <3> QED
      BY <2>3, <3>1, <3>2, <3>3 DEF Handle, RecordReceipt, BindSender, RejectStranger, Submit,
                                    SubmitText, ObeyCommand, GiveUp, Results
  <2>4. CASE Crash
    BY <2>4 DEF Crash, IdleInv, Resting
  <2>5. CASE \/ \E t \in Tasks : BeginCreate(t) \/ EndElsewhere(t) \/ AckTask(t)
             \/ Push \/ CommitCreate \/ PullTasks(TRUE) \/ PullTasks(FALSE) \/ Retain
             \/ UNCHANGED vars
    <3>1. handler' = handler
      BY <2>5 DEF BeginCreate, EndElsewhere, AckTask, Push, CommitCreate, PullTasks, Retain, vars
    <3> QED
      BY <3>1 DEF IdleInv, Busy
  <2> QED
    BY <2>1, <2>3, <2>4, <2>5 DEF Next
<1> QED
  BY <1>1, <1>2, TypeInit, TypeStep, PTL DEF Spec

\* A poller that passes on the cursor it was given misses no task, however the
\* answers get lost and whatever is created, pushed and acknowledged meanwhile,
\* unless retention deleted the newest row.
THEOREM CursorSkipsNothingHolds == Spec => []CursorSkipsNothing
BY OutboxInvariant, PTL

\* Types of rows and handlers; each task has at most one outbox row, and a
\* number names one row.
THEOREM MessagesTypeOKHolds == Spec => []MessagesTypeOK
<1>1. TypeInv /\ SeenInv /\ OutboxInv /\ IdleInv => MessagesTypeOK
  <2> SUFFICES ASSUME TypeInv, SeenInv, OutboxInv, IdleInv
               PROVE  MessagesTypeOK
    OBVIOUS
  <2>1. \A t \in Tasks : task[t].state \in States /\ task[t].reply \in Ids \cup {None}
    BY DEF TypeInv
  <2>2. \A r \in outbox : /\ r.id \in Nat \ {0} /\ r.task \in Tasks
                          /\ r.state \in {"pending", "delivered", "acked"}
    BY DEF OutboxInv, SeenInv, RowOk, RowStates
  <2>3. \A h \in Handlers :
          /\ handler[h].at \in {"idle", "receipt", "sender", "submit"}
          /\ handler[h].target \in Tasks \cup {None}
          /\ Busy(h) <=> handler[h].message \in Messages
    BY ScenariosAreScenarios DEF TypeInv, HandlerStates, IdleInv, Messages
  <2>4. \A t \in Tasks : task[t].state = "none" /\ creating # t => t \notin seen \cup got
    BY DEF SeenInv, Known
  <2> QED
    BY <2>1, <2>2, <2>3, <2>4 DEF TypeInv, OutboxInv, MessagesTypeOK
<1> QED
  BY <1>1, OutboxInvariant, IdleInvariant, PTL
=============================================================================
