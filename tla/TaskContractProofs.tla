------------------------ MODULE TaskContractProofs ------------------------
(***************************************************************************)
(* The theorems that follow the row, the forwarding worker and the         *)
(* caller's handler together: which answer a task has and what it cost;    *)
(* what its caller received against what the row says; and that the rows   *)
(* keep the promise of TaskContract and the declared state machine.        *)
(*                                                                         *)
(* The last part holds as long as no transaction of the sweeper fails: one *)
(* that does makes the rest of its list be finalized against states that   *)
(* it was not selected for (SweepSource), which the run sweep_fault shows. *)
(***************************************************************************)
EXTENDS TaskLifecycleProofs

-----------------------------------------------------------------------------
(* What a step does to one row.                                            *)

OpenStates == {"absent", "received", "waiting_human", "forwarding_llm"}

\* Finished rows are those whose slot is released: see SlotInv.
RowMove(t) ==
  \/ UNCHANGED <<state[t], reply[t], acceptedBy[t]>>
  \/ /\ \/ state[t] = "absent" /\ state'[t] = "waiting_human"
        \/ state[t] = "waiting_human" /\ state'[t] = "forwarding_llm"
        \/ /\ state[t] = "response_ready" /\ state'[t] = "responding"
           /\ pc[t] = "outcome" /\ pc'[t] = "sending"
        \/ state[t] \in SlotHoldingStates /\ state'[t] \in {"failed", "cancelled"}
        \/ /\ state[t] \in SlotHoldingStates /\ state'[t] = "timed_out"
           /\ MaxSweepFaults = 0 => state[t] = "waiting_human"
        \/ /\ state[t] \in {"response_ready", "responding"} /\ state'[t] = "completed"
           /\ pc[t] = "sent" /\ pc'[t] = "closing" /\ UNCHANGED received
     /\ UNCHANGED <<reply[t], acceptedBy[t]>>
  \/ /\ state'[t] = "response_ready"
     /\ \E a \in Authors :
          /\ \/ state[t] = "waiting_human" /\ a \in Submitters
             \/ state[t] = "forwarding_llm" /\ a = Llm
          /\ reply'[t] = a
          /\ acceptedBy'[t] = acceptedBy[t] \cup {a}

LEMMA RowMoves ==
  ASSUME TypeOK, SlotInv, SweepInv, [Next]_vars, NEW t \in Tasks
  PROVE  RowMove(t)
<1> USE DEF TypeOK, RepositoryTypeOK
<1>1. CASE UNCHANGED <<userVars, state, slotHeld, reply, acceptedBy>>
  BY <1>1 DEF RowMove
<1>2. ASSUME NEW x \in Tasks, Admitted(x) PROVE RowMove(t)
  BY <1>2 DEF Admitted, InsertTask, SlotInv, RowMove
<1>3. ASSUME NEW x \in Tasks, Claimed(x) \/ Started(x) PROVE RowMove(t)
  BY <1>3 DEF Claimed, Started, Advance, RowMove
<1>4. ASSUME NEW x \in Tasks, NEW a \in Authors, Answered(x, a) PROVE RowMove(t)
  <2>1. acceptedBy \in [Tasks -> SUBSET Authors]
    BY DEF SubmitTypeOK
  <2>2. CASE x = t
    BY <1>4, <2>1, <2>2 DEF Answered, Advance, RowMove
  <2>3. CASE x # t
    BY <1>4, <2>1, <2>3 DEF Answered, Advance, RowMove
  <2> QED BY <2>2, <2>3
<1>5. ASSUME NEW S \in SUBSET Tasks, NEW to \in TerminalStates, Closed(S, to)
      PROVE  RowMove(t)
  <2>1. CASE t \in S
    BY <1>5, <2>1 DEF Closed, Close, TerminalValues, RowMove, TerminalStates, SlotInv
  <2>2. CASE t \notin S
    BY <1>5, <2>2 DEF Closed, Close, TerminalValues, RowMove
  <2> QED BY <2>1, <2>2
<1>6. ASSUME NEW u \in Users, Disabled(u) PROVE RowMove(t)
  <2>1. CASE t \in ActiveRows
    BY <1>6, <2>1 DEF Disabled, TerminalValues, ActiveRows, RowMove, SlotInv
  <2>2. CASE t \notin ActiveRows
    BY <1>6, <2>2 DEF Disabled, TerminalValues, RowMove
  <2> QED BY <2>1, <2>2
<1>7. ASSUME NEW u \in Users, Enabled(u) PROVE RowMove(t)
  BY <1>7 DEF Enabled, rowVars, RowMove
<1> QED BY <1>1, <1>2, <1>3, <1>4, <1>5, <1>6, <1>7, RowSteps DEF RowStep

-----------------------------------------------------------------------------
(* One accepted answer.  The first-reply and the accept-forward UPDATEs    *)
(* test the state only: that no answer is overwritten needs that a row in  *)
(* a state they accept has none.                                           *)

AnswerInv ==
  \A t \in Tasks :
    /\ state[t] \in OpenStates => reply[t] = NoReply
    /\ acceptedBy[t] = IF reply[t] = NoReply THEN {} ELSE {reply[t]}

LEMMA AnswerStep ==
  ASSUME TypeOK, SlotInv, SweepInv, AnswerInv, [Next]_vars
  PROVE  AnswerInv'
<1> SUFFICES ASSUME NEW t \in Tasks
             PROVE  /\ state'[t] \in OpenStates => reply'[t] = NoReply
                    /\ acceptedBy'[t] = IF reply'[t] = NoReply THEN {} ELSE {reply'[t]}
  BY DEF AnswerInv
<1> QED
  BY RowMoves, NoReplyIsNotAnAuthor
     DEF AnswerInv, RowMove, OpenStates, SlotHoldingStates, TerminalStates

LEMMA AnswerInvariant == Spec => [](TypeOK /\ SlotInv /\ SweepInv /\ AnswerInv)
<1>1. Init => AnswerInv
  BY DEF Init, RepositoryInit, AnswerInv
<1>2. TypeOK /\ SlotInv /\ SweepInv /\ AnswerInv /\ [Next]_vars => AnswerInv'
  BY AnswerStep
<1> QED BY <1>1, <1>2, SlotInvariant, PTL DEF Spec

\* At most one of all the people and the forwarder that answer a task is told that
\* its reply was accepted, and the row holds that reply for ever after.
THEOREM SingleAcceptedReplyHolds == Spec => []SingleAcceptedReply
<1>1. AnswerInv => SingleAcceptedReply
  BY DEF AnswerInv, SingleAcceptedReply
<1> QED BY <1>1, AnswerInvariant, PTL

-----------------------------------------------------------------------------
(* What an answer costs.  The worker remembers its claim across three      *)
(* transactions; that nobody answers the task meanwhile, and nobody claims *)
(* it twice, follows from where its row can be.                            *)

Engaged == {"claimed", "calling", "answered"}

CallInv ==
  \A t \in Tasks :
    /\ state[t] \in {"absent", "waiting_human"} => calls[t] = 0 /\ worker[t] \notin Engaged
    /\ worker[t] = "claimed" => calls[t] = 0
    /\ worker[t] \in Engaged \/ calls[t] > 0 => reply[t] \notin Submitters
    /\ calls[t] <= 1

\* What a step does to one worker.
WorkMove(t) ==
  \/ UNCHANGED <<worker[t], calls[t]>>
  \/ worker'[t] \notin Engaged /\ UNCHANGED calls[t]
  \/ /\ state[t] = "waiting_human" /\ state'[t] = "forwarding_llm"
     /\ worker'[t] = "claimed"
     /\ UNCHANGED <<reply[t], calls[t]>>
  \/ /\ worker[t] = "claimed" /\ worker'[t] = "calling"
     /\ calls'[t] = calls[t] + 1
     /\ UNCHANGED <<state[t], reply[t]>>
  \/ /\ worker[t] = "calling" /\ worker'[t] = "answered"
     /\ UNCHANGED <<state[t], reply[t], calls[t]>>

LEMMA WorkMoves ==
  ASSUME TypeOK, [Next]_vars, NEW t \in Tasks
  PROVE  WorkMove(t)
<1> USE DEF TypeOK, WorkerTypeOK, Becomes, Engaged, ForwardResults
<1>1. CASE UNCHANGED <<worker, calls>>
  BY <1>1 DEF WorkMove
<1>2. ASSUME NEW x \in Tasks, NEW w \in WorkerPlaces \ Engaged, Becomes(x, w), UNCHANGED calls
      PROVE  WorkMove(t)
  BY <1>2 DEF WorkMove
<1>3. ASSUME NEW x \in Tasks, ClaimForward(x) PROVE WorkMove(t)
  <2>1. CASE ClaimFallbackMatches(x)
    BY <1>3, <2>1 DEF ClaimForward, ClaimFallbackMatches, ClaimFallbackSets, Advance,
       RepositoryTypeOK, WorkMove
  <2>2. CASE ~ClaimFallbackMatches(x)
    BY <1>2, <1>3, <2>2 DEF ClaimForward, WorkerPlaces
  <2> QED BY <2>1, <2>2
<1>4. ASSUME NEW x \in Tasks, CallUpstream(x) PROVE WorkMove(t)
  BY <1>4 DEF CallUpstream, CallOnce, CallStream, WorkMove, dbVars, rowVars
<1>5. ASSUME NEW x \in Tasks, UpstreamAnswers(x) PROVE WorkMove(t)
  BY <1>5 DEF UpstreamAnswers, WorkMove, dbVars, rowVars
<1>6. ASSUME ProcessEnds PROVE WorkMove(t)
  BY <1>6 DEF ProcessEnds, WorkMove
<1> QED
  BY ZenonT(40), <1>1, <1>2, <1>3, <1>4, <1>5, <1>6
     DEF Next, Handler, HandlerChance, Forwarder, Sweeper, Process, vars, workerVars,
         WorkerPlaces, Admit, Disconnect, SeeDisconnect, TakeReply, PollEnded, PollDue,
         Recheck, Expire, EndForward, BeginResponse, AbortStream, FailStream, FinishSend,
         CompleteTask, CloseResponse, FailRender, SendFrame, FailFrame, LoseConnection,
         ForwardFails, ConfigGone, ParameterRefused, ToolsRefused, AcceptForward, StopForward, TimePasses, SweepFault, OpenTask,
         SubmitReply, DisableUser, EnableUser, SelectOverdue, SelectStale, EndSweep,
         SweepOverdue, SweepStale, Crash, BeginShutdown, CancelBatch, EndShutdown, Boot, Serve

LEMMA CallStep ==
  ASSUME TypeOK, SlotInv, SweepInv, AnswerInv, CallInv, [Next]_vars
  PROVE  CallInv'
<1> SUFFICES ASSUME NEW t \in Tasks
             PROVE  /\ state'[t] \in {"absent", "waiting_human"}
                         => calls'[t] = 0 /\ worker'[t] \notin Engaged
                    /\ worker'[t] = "claimed" => calls'[t] = 0
                    /\ worker'[t] \in Engaged \/ calls'[t] > 0 => reply'[t] \notin Submitters
                    /\ calls'[t] <= 1
  BY DEF CallInv
<1>1. calls[t] \in Nat
  BY DEF TypeOK, WorkerTypeOK
<1>2. reply[t] # reply'[t] =>
        \/ state[t] = "waiting_human" /\ state'[t] # "waiting_human" /\ state'[t] # "absent"
        \/ reply'[t] = Llm
  BY RowMoves DEF RowMove
<1>3. state'[t] \in {"absent", "waiting_human"} => state[t] \in {"absent", "waiting_human"}
  BY RowMoves DEF RowMove
<1>4. state[t] = "waiting_human" => reply[t] = NoReply
  BY DEF AnswerInv, OpenStates
<1>5. state[t] # state'[t] /\ state[t] = "waiting_human" /\ state'[t] = "forwarding_llm"
        => reply'[t] = reply[t]
  BY RowMoves DEF RowMove
<1> QED
  BY <1>1, <1>2, <1>3, <1>4, <1>5, WorkMoves, LlmIsNotASubmitter, NoReplyIsNotAnAuthor
     DEF CallInv, WorkMove, Engaged, Authors

LEMMA CallInvariant == Spec => [](TypeOK /\ SlotInv /\ SweepInv /\ AnswerInv /\ CallInv)
<1>1. Init => CallInv
  BY NoReplyIsNotAnAuthor DEF Init, RepositoryInit, CallInv, Engaged, Authors
<1>2. TypeOK /\ SlotInv /\ SweepInv /\ AnswerInv /\ CallInv /\ [Next]_vars => CallInv'
  BY CallStep
<1> QED BY <1>1, <1>2, AnswerInvariant, PTL DEF Spec

\* A task costs at most one upstream call, and none when a person answered it.
THEOREM HumanAnswerCostsNoCallHolds == Spec => []HumanAnswerCostsNoCall
<1>1. TypeOK /\ CallInv => HumanAnswerCostsNoCall
  BY DEF TypeOK, WorkerTypeOK, CallInv, HumanAnswerCostsNoCall
<1> QED BY <1>1, CallInvariant, PTL

-----------------------------------------------------------------------------
(* The caller: the handler loads the reply, marks the row and completes it *)
(* in three transactions, with the sweeper, an administrator and a restart *)
(* between any two.                                                        *)

Waiting  == {"poll", "forward", "recheck", "expire"}
Replying == {"outcome", "sending", "failing", "sent", "closing"}

DeliveryInv ==
  \A t \in Tasks :
    /\ pc[t] = "outcome" => state[t] \in {"response_ready"} \cup TerminalStates
    /\ pc[t] \in {"sending", "failing"} => state[t] \in {"responding"} \cup TerminalStates
    /\ pc[t] = "sent" => \/ state[t] \in TerminalStates
                         \/ state[t] = "responding" /\ received[t] = "reply"
    /\ state[t] = "completed" => received[t] = "reply" /\ pc[t] \in {"closing", "done"}
    /\ received[t] = "reply" => pc[t] \in {"sent", "closing", "done"}
    /\ pc[t] \in Replying \/ received[t] = "reply"
         => reply[t] # NoReply /\ held[t] = reply[t]

\* What a step does to one handler.
HandlerMove(t) ==
  \/ UNCHANGED <<pc[t], held[t], received[t]>>
  \/ /\ pc[t] \in Waiting \cup {"idle"} /\ pc'[t] \in Waiting
     /\ UNCHANGED <<held[t], received[t]>>
  \/ /\ pc[t] # "idle" /\ pc'[t] = "done"
     /\ UNCHANGED <<held[t], received[t]>>
  \/ /\ pc[t] \in Waiting \cup {"outcome"} /\ pc'[t] = "done"
     /\ received'[t] # "reply"
     /\ UNCHANGED held[t]
  \/ /\ pc[t] \in {"poll", "recheck"} /\ pc'[t] = "outcome"
     /\ state[t] = "response_ready" /\ reply[t] # NoReply /\ held'[t] = reply[t]
     /\ UNCHANGED <<state[t], reply[t], received[t]>>
  \/ /\ pc[t] = "outcome" /\ pc'[t] = "sending"
     /\ state'[t] = "responding"
     /\ UNCHANGED <<held[t], received[t]>>
  \/ /\ pc[t] = "outcome" /\ pc'[t] \in {"sent", "closing"}
     /\ state[t] # "response_ready"
     /\ received'[t] = "error"
     /\ UNCHANGED <<state[t], held[t]>>
  \/ /\ pc[t] = "sending" /\ pc'[t] \in {"sending", "failing"}
     /\ received'[t] \in {"partial", "error"}
     /\ UNCHANGED <<state[t], held[t]>>
  \/ /\ pc[t] = "sending" /\ pc'[t] = "sent"
     /\ \/ received'[t] = "reply"
        \/ received'[t] = "error" /\ state[t] # "responding"
     /\ UNCHANGED <<state[t], held[t]>>
  \/ /\ pc[t] = "failing" /\ pc'[t] = "sent"
     /\ state'[t] # "responding"
     /\ UNCHANGED <<held[t], received[t]>>
  \/ /\ pc[t] \in {"sending", "failing", "sent"} /\ pc'[t] = "closing"
     /\ UNCHANGED <<held[t], received[t]>>

LEMMA HandlerMoves ==
  ASSUME TypeOK, SlotInv, [Next]_vars, NEW t \in Tasks
  PROVE  HandlerMove(t)
<1> USE DEF TypeOK, CallerTypeOK, Waiting, At, Goto, Tell
<1>1. CASE UNCHANGED <<pc, held, received>>
  BY <1>1 DEF HandlerMove
<1>2. ASSUME NEW x \in Tasks, Admit(x) PROVE HandlerMove(t)
  BY <1>2 DEF Admit, HandlerMove
<1>3. ASSUME NEW x \in Tasks, SeeDisconnect(x) \/ PollEnded(x) \/ Expire(x)
      PROVE  HandlerMove(t)
  BY <1>3 DEF SeeDisconnect, PollEnded, PollOutcome, Expire, HandlerMove
<1>4. ASSUME NEW x \in Tasks, TakeReply(x) PROVE HandlerMove(t)
  BY <1>4 DEF TakeReply, HandlerMove, dbVars, rowVars
<1>5. ASSUME NEW x \in Tasks, PollDue(x) \/ Recheck(x) PROVE HandlerMove(t)
  BY <1>5 DEF PollDue, Recheck, HandlerMove
<1>6. ASSUME NEW x \in Tasks, EndForward(x) PROVE HandlerMove(t)
  <2>1. /\ pc[x] = "forward"
        /\ UNCHANGED held
        /\ \/ Goto(x, "done") /\ Tell(x, "error")
           \/ Goto(x, "poll") /\ UNCHANGED received
           \/ Goto(x, "recheck") /\ UNCHANGED received
    BY <1>6, Zenon DEF EndForward
  <2> QED BY <2>1 DEF HandlerMove
<1>7. ASSUME NEW x \in Tasks, FailRender(x) PROVE HandlerMove(t)
  BY <1>7 DEF FailRender, HandlerMove
<1>8. ASSUME NEW x \in Tasks, BeginResponse(x) PROVE HandlerMove(t)
  <2>1. CASE StartResponseMatches(x)
    BY <1>8, <2>1 DEF BeginResponse, StartResponseSets, Advance, HandlerMove, RepositoryTypeOK
  <2>2. CASE ~StartResponseMatches(x)
    <3>1. state[x] # "response_ready"
      BY <2>2 DEF StartResponseMatches, SlotInv, SlotHoldingStates
    <3> QED BY <1>8, <2>2, <3>1 DEF BeginResponse, HandlerMove, rowVars
  <2> QED BY <2>1, <2>2
<1>9. ASSUME NEW x \in Tasks, SendFrame(x) \/ AbortStream(x) \/ FailFrame(x) \/ FinishSend(x)
      PROVE  HandlerMove(t)
  <2>1. CASE SendFrame(x)
    BY <2>1 DEF SendFrame, HandlerMove, dbVars, rowVars
  <2>2. CASE AbortStream(x)
    BY <2>2 DEF AbortStream, HandlerMove, dbVars, rowVars
  <2>3. CASE FailFrame(x)
    BY <2>3 DEF FailFrame, HandlerMove, dbVars, rowVars
  <2>4. CASE FinishSend(x)
    BY <2>4 DEF FinishSend, HandlerMove, dbVars, rowVars
  <2> QED BY <1>9, <2>1, <2>2, <2>3, <2>4
<1>10. ASSUME NEW x \in Tasks, FailStream(x) PROVE HandlerMove(t)
  <2>1. state'[x] # "responding"
    <3>1. CASE FinalizeMatches(x, TaskState)
      BY <1>10, <3>1 DEF FailStream, Finalize, Close, TerminalValues
    <3>2. CASE ~FinalizeMatches(x, TaskState)
      BY <1>10, <3>2 DEF FailStream, Finalize, FinalizeMatches, SlotInv, SlotHoldingStates,
         TaskState, dbVars, rowVars
    <3> QED BY <3>1, <3>2
  <2> QED BY <1>10, <2>1 DEF FailStream, HandlerMove
<1>11. ASSUME NEW x \in Tasks, LoseConnection(x) \/ CompleteTask(x) \/ CloseResponse(x)
       PROVE  HandlerMove(t)
  BY <1>11 DEF LoseConnection, CompleteTask, CloseResponse, HandlerMove
<1>12. ASSUME ProcessEnds PROVE HandlerMove(t)
  BY <1>12 DEF ProcessEnds, HandlerMove
<1> QED
  BY <1>1, <1>2, <1>3, <1>4, <1>5, <1>6, <1>7, <1>8, <1>9, <1>10, <1>11, <1>12
     DEF Next, Handler, HandlerChance, Forwarder, Sweeper, Process, vars, callerVars,
         Disconnect, ClaimForward, CallUpstream, CallOnce, CallStream, UpstreamAnswers, ForwardFails, ConfigGone, ParameterRefused, ToolsRefused,
         AcceptForward, StopForward, TimePasses, SweepFault, OpenTask, SubmitReply,
         DisableUser, EnableUser, SelectOverdue, SelectStale, EndSweep, SweepOverdue,
         SweepStale, Crash, BeginShutdown, CancelBatch, EndShutdown, Boot, Serve

LEMMA DeliveryStep ==
  ASSUME TypeOK, SlotInv, SweepInv, AnswerInv, DeliveryInv, [Next]_vars
  PROVE  DeliveryInv'
<1> SUFFICES ASSUME NEW t \in Tasks
             PROVE  /\ pc'[t] = "outcome" =>
                         state'[t] \in {"response_ready"} \cup TerminalStates
                    /\ pc'[t] \in {"sending", "failing"} =>
                         state'[t] \in {"responding"} \cup TerminalStates
                    /\ pc'[t] = "sent" =>
                         \/ state'[t] \in TerminalStates
                         \/ state'[t] = "responding" /\ received'[t] = "reply"
                    /\ state'[t] = "completed" =>
                         received'[t] = "reply" /\ pc'[t] \in {"closing", "done"}
                    /\ received'[t] = "reply" => pc'[t] \in {"sent", "closing", "done"}
                    /\ pc'[t] \in Replying \/ received'[t] = "reply" =>
                         reply'[t] # NoReply /\ held'[t] = reply'[t]
  BY DEF DeliveryInv
<1>1. RowMove(t) /\ HandlerMove(t)
  BY RowMoves, HandlerMoves
<1>2. reply[t] # NoReply => UNCHANGED reply[t]
  BY <1>1 DEF RowMove, AnswerInv, OpenStates
<1>3. state[t] \in TerminalStates => UNCHANGED state[t]
  BY <1>1 DEF RowMove, TerminalStates, SlotHoldingStates
<1> USE DEF DeliveryInv, TerminalStates
<1>4. pc'[t] = "outcome" => state'[t] \in {"response_ready"} \cup TerminalStates
  BY <1>1 DEF RowMove, HandlerMove, Waiting
<1>5. pc'[t] \in {"sending", "failing"} => state'[t] \in {"responding"} \cup TerminalStates
  BY <1>1 DEF RowMove, HandlerMove, Waiting
<1>6. pc'[t] = "sent" => \/ state'[t] \in TerminalStates
                         \/ state'[t] = "responding" /\ received'[t] = "reply"
  BY <1>1 DEF RowMove, HandlerMove, Waiting
<1>7. state'[t] = "completed" => received'[t] = "reply" /\ pc'[t] \in {"closing", "done"}
  <2>1. CASE state[t] = "completed"
    BY <1>1, <2>1 DEF HandlerMove, Waiting
  <2>2. CASE state[t] # "completed"
    BY <1>1, <2>2 DEF RowMove
  <2> QED BY <2>1, <2>2
<1>8. received'[t] = "reply" => pc'[t] \in {"sent", "closing", "done"}
  BY <1>1 DEF HandlerMove, Waiting
<1>9. pc'[t] \in Replying \/ received'[t] = "reply"
        => reply'[t] # NoReply /\ held'[t] = reply'[t]
  BY <1>1, <1>2 DEF HandlerMove, Waiting, Replying
<1> QED BY <1>4, <1>5, <1>6, <1>7, <1>8, <1>9

LEMMA DeliveryInvariant == Spec => [](TypeOK /\ SlotInv /\ SweepInv /\ AnswerInv /\ DeliveryInv)
<1>1. Init => DeliveryInv
  BY DEF Init, RepositoryInit, DeliveryInv, Replying
<1>2. TypeOK /\ SlotInv /\ SweepInv /\ AnswerInv /\ DeliveryInv /\ [Next]_vars => DeliveryInv'
  BY DeliveryStep
<1> QED BY <1>1, <1>2, AnswerInvariant, PTL DEF Spec

\* A task is completed only when its caller was sent a whole reply.
THEOREM CompletedMeansDeliveredHolds == Spec => []CompletedMeansDelivered
<1>1. DeliveryInv => CompletedMeansDelivered
  BY DEF DeliveryInv, CompletedMeansDelivered
<1> QED BY <1>1, DeliveryInvariant, PTL

\* What a caller got to its last byte is the reply that the row holds, now and for
\* ever after.
THEOREM CallerGetsStoredReplyHolds == Spec => []CallerGetsStoredReply
<1>1. DeliveryInv => CallerGetsStoredReply
  BY DEF DeliveryInv, CallerGetsStoredReply
<1> QED BY <1>1, DeliveryInvariant, PTL

-----------------------------------------------------------------------------
(* The contract.                                                           *)

LEMMA AllInvariants ==
  Spec => [](TypeOK /\ SlotInv /\ SweepInv /\ AnswerInv /\ CallInv /\ DeliveryInv)
BY CallInvariant, DeliveryInvariant, PTL

-----------------------------------------------------------------------------
(* Action properties.                                                      *)

\* Every write of the state column, by whichever conditional UPDATE,
\* is an arrow of the state machine that the domain layer declares.
THEOREM TransitionsAllowedHolds ==
  ASSUME MaxSweepFaults = 0
  PROVE  Spec => TransitionsAllowed
<1>1. ASSUME TypeOK, SlotInv, SweepInv, DeliveryInv, [Next]_vars, NEW t \in Tasks,
             state'[t] # state[t]
      PROVE  \/ state[t] = "absent" /\ state'[t] = "waiting_human"
             \/ CanTransition(state[t], state'[t])
  <2>1. RowMove(t)
    BY <1>1, RowMoves
  <2>2. state'[t] = "completed" => state[t] = "responding"
    BY <1>1, <2>1 DEF RowMove, DeliveryInv, TerminalStates
  <2> QED
    BY <1>1, <2>1, <2>2
       DEF RowMove, CanTransition, AllowedTransitions, SlotHoldingStates
<1>2. TypeOK /\ SlotInv /\ SweepInv /\ DeliveryInv /\ [Next]_vars =>
        [\A t \in Tasks : state'[t] # state[t] =>
           \/ state[t] = "absent" /\ state'[t] = "waiting_human"
           \/ CanTransition(state[t], state'[t])]_vars
  BY <1>1
<1> QED BY <1>2, DeliveryInvariant, PTL DEF Spec, TransitionsAllowed

\* A late timeout never overwrites what arrived in between, whoever declares it:
\* the handler, the sweeper, or one after the other.
THEOREM LateTimeoutOverwritesNothingHolds ==
  ASSUME MaxSweepFaults = 0
  PROVE  Spec => LateTimeoutOverwritesNothing
<1>1. ASSUME TypeOK, SlotInv, SweepInv, [Next]_vars, NEW t \in Tasks,
             state'[t] = "timed_out", state[t] # "timed_out"
      PROVE  state[t] = "waiting_human"
  BY <1>1, RowMoves DEF RowMove
<1>2. TypeOK /\ SlotInv /\ SweepInv /\ [Next]_vars =>
        [\A t \in Tasks : state'[t] = "timed_out" /\ state[t] # "timed_out"
           => state[t] = "waiting_human"]_vars
  BY <1>1
<1> QED BY <1>2, SlotInvariant, PTL DEF Spec, LateTimeoutOverwritesNothing

-----------------------------------------------------------------------------
(* Upstream failures.  A timeout is told from where no call was made: the  *)
(* row waited for a person at the second look, or timed out from there.    *)

TimeoutInv ==
  \A t \in Tasks :
    /\ state[t] = "timed_out" => calls[t] = 0 /\ worker[t] \notin Engaged
    /\ worker[t] # "idle" => pc[t] \in {"forward", "done"}
    /\ pc[t] = "expire" => calls[t] = 0
    /\ received[t] = "timeout" => pc[t] = "done" /\ calls[t] = 0 /\ worker[t] = "idle"

\* What a step does to the worker and the handler's timeout together.
TimeoutMove(t) ==
  \/ UNCHANGED <<pc[t], received[t], worker[t], calls[t]>>
  \/ /\ pc[t] \notin {"forward", "done"} /\ pc'[t] \notin {"forward", "done"}
     /\ pc'[t] = "expire" => state[t] = "waiting_human" \/ pc[t] = "expire"
     /\ received'[t] # "timeout" \/ UNCHANGED received[t]
     /\ UNCHANGED <<worker[t], calls[t]>>
  \/ /\ pc[t] \in {"idle", "poll"} /\ pc'[t] = "forward"
     /\ UNCHANGED <<received[t], calls[t]>>
  \/ /\ pc[t] = "poll" /\ pc'[t] = "done" /\ state[t] = "timed_out"
     /\ UNCHANGED <<worker[t], calls[t]>>
  \/ /\ pc[t] = "expire" /\ pc'[t] = "done"
     /\ UNCHANGED <<worker[t], calls[t]>>
  \/ /\ pc[t] \notin {"idle", "done"} /\ pc'[t] = "done"
     /\ received'[t] # "timeout" \/ UNCHANGED received[t]
     /\ UNCHANGED calls[t]
     /\ worker'[t] \in {worker[t], "idle"}
  \/ /\ pc[t] = "forward" /\ pc'[t] \in {"poll", "recheck"}
     /\ worker'[t] = "idle"
     /\ UNCHANGED <<received[t], calls[t]>>
  \/ /\ worker[t] # "idle"
     /\ UNCHANGED <<pc[t], received[t]>>
  \/ /\ pc'[t] \in {pc[t], "done"} /\ worker'[t] = "idle"
     /\ UNCHANGED <<received[t], calls[t]>>

LEMMA TimeoutMoves ==
  ASSUME TypeOK, [Next]_vars, NEW t \in Tasks
  PROVE  TimeoutMove(t)
<1> USE DEF TypeOK, CallerTypeOK, WorkerTypeOK, At, Goto, Tell, Becomes
<1>1. CASE UNCHANGED <<pc, received, worker, calls>>
  BY <1>1 DEF TimeoutMove
<1>2. ASSUME NEW x \in Tasks, Admit(x) PROVE TimeoutMove(t)
  BY <1>2 DEF Admit, TimeoutMove
<1>3. ASSUME NEW x \in Tasks, SeeDisconnect(x) PROVE TimeoutMove(t)
  BY <1>3 DEF SeeDisconnect, TimeoutMove, workerVars
<1>4. ASSUME NEW x \in Tasks, PollEnded(x) PROVE TimeoutMove(t)
  BY <1>4 DEF PollEnded, PollOutcome, TimeoutMove, workerVars
<1>5. ASSUME NEW x \in Tasks, PollDue(x) PROVE TimeoutMove(t)
  BY <1>5 DEF PollDue, TimeoutMove
<1>6. ASSUME NEW x \in Tasks, Recheck(x) PROVE TimeoutMove(t)
  BY <1>6 DEF Recheck, TimeoutMove, workerVars
<1>7. ASSUME NEW x \in Tasks, Expire(x) PROVE TimeoutMove(t)
  BY <1>7 DEF Expire, TimeoutMove, workerVars
<1>8. ASSUME NEW x \in Tasks, EndForward(x) PROVE TimeoutMove(t)
  <2>1. /\ pc[x] = "forward" /\ Becomes(x, "idle") /\ UNCHANGED calls
        /\ \/ Goto(x, "done") /\ Tell(x, "error")
           \/ Goto(x, "poll") /\ UNCHANGED received
           \/ Goto(x, "recheck") /\ UNCHANGED received
    BY <1>8, Zenon DEF EndForward
  <2> QED BY <2>1 DEF TimeoutMove
<1>9. ASSUME NEW x \in Tasks, TakeReply(x) \/ BeginResponse(x) \/ LoseConnection(x)
      PROVE  TimeoutMove(t)
  BY <1>9 DEF TakeReply, BeginResponse, LoseConnection, TimeoutMove, workerVars
<1>10. ASSUME NEW x \in Tasks, FailRender(x) \/ CloseResponse(x) PROVE TimeoutMove(t)
  BY <1>10 DEF FailRender, CloseResponse, TimeoutMove, workerVars
<1>11. ASSUME NEW x \in Tasks, SendFrame(x) PROVE TimeoutMove(t)
  BY <1>11 DEF SendFrame, TimeoutMove, workerVars
<1>12. ASSUME NEW x \in Tasks, AbortStream(x) \/ FailFrame(x) PROVE TimeoutMove(t)
  BY <1>12 DEF AbortStream, FailFrame, TimeoutMove, workerVars
<1>13. ASSUME NEW x \in Tasks, FinishSend(x) PROVE TimeoutMove(t)
  BY <1>13 DEF FinishSend, TimeoutMove, workerVars
<1>14. ASSUME NEW x \in Tasks, FailStream(x) \/ CompleteTask(x) PROVE TimeoutMove(t)
  BY <1>14 DEF FailStream, CompleteTask, TimeoutMove, workerVars
<1>15. ASSUME NEW x \in Tasks, Forwarder(x) PROVE TimeoutMove(t)
  BY <1>15 DEF Forwarder, ClaimForward, CallUpstream, CallOnce, CallStream, UpstreamAnswers, ForwardFails, ConfigGone, ParameterRefused, ToolsRefused,
     AcceptForward, StopForward, TimeoutMove, callerVars
<1>16. ASSUME ProcessEnds PROVE TimeoutMove(t)
  BY <1>16 DEF ProcessEnds, TimeoutMove
<1> QED
  BY <1>1, <1>2, <1>3, <1>4, <1>5, <1>6, <1>7, <1>8, <1>9, <1>10, <1>11, <1>12, <1>13,
     <1>14, <1>15, <1>16
     DEF Next, Handler, HandlerChance, Sweeper, Process, vars, callerVars, workerVars,
         Disconnect, TimePasses, SweepFault, OpenTask, SubmitReply, DisableUser,
         EnableUser, SelectOverdue, SelectStale, EndSweep, SweepOverdue, SweepStale, Crash,
         BeginShutdown, CancelBatch, EndShutdown, Boot, Serve

LEMMA TimeoutStep ==
  ASSUME TypeOK, SlotInv, SweepInv, CallInv, TimeoutInv, [Next]_vars, MaxSweepFaults = 0
  PROVE  TimeoutInv'
<1> SUFFICES ASSUME NEW t \in Tasks
             PROVE  /\ state'[t] = "timed_out" => calls'[t] = 0 /\ worker'[t] \notin Engaged
                    /\ worker'[t] # "idle" => pc'[t] \in {"forward", "done"}
                    /\ pc'[t] = "expire" => calls'[t] = 0
                    /\ received'[t] = "timeout" =>
                         pc'[t] = "done" /\ calls'[t] = 0 /\ worker'[t] = "idle"
  BY DEF TimeoutInv
<1>1. RowMove(t) /\ WorkMove(t) /\ TimeoutMove(t)
  BY RowMoves, WorkMoves, TimeoutMoves
<1>2. state'[t] = "timed_out" => state[t] \in {"waiting_human", "timed_out"}
  BY <1>1 DEF RowMove
<1>3. state'[t] = "timed_out" => calls'[t] = 0 /\ worker'[t] \notin Engaged
  BY <1>1, <1>2 DEF WorkMove, CallInv, TimeoutInv, Engaged
<1>4. worker'[t] # "idle" => pc'[t] \in {"forward", "done"}
  BY <1>1 DEF TimeoutMove, TimeoutInv
<1>5. pc'[t] = "expire" => calls'[t] = 0
  BY <1>1 DEF TimeoutMove, TimeoutInv, CallInv
<1>6. received'[t] = "timeout" => pc'[t] = "done" /\ calls'[t] = 0 /\ worker'[t] = "idle"
  BY <1>1 DEF TimeoutMove, TimeoutInv
<1> QED BY <1>3, <1>4, <1>5, <1>6

\* An upstream failure is not passed off as a human timeout: once a call was made,
\* neither the row nor the answer to the caller says that the time was up.
THEOREM UpstreamFailureIsNotATimeoutHolds ==
  ASSUME MaxSweepFaults = 0
  PROVE  Spec => []UpstreamFailureIsNotATimeout
<1>1. Init => TimeoutInv
  BY DEF Init, RepositoryInit, TimeoutInv
<1>2. TypeOK /\ SlotInv /\ SweepInv /\ CallInv /\ TimeoutInv /\ [Next]_vars => TimeoutInv'
  BY TimeoutStep
<1>3. TimeoutInv => UpstreamFailureIsNotATimeout
  BY DEF TimeoutInv, UpstreamFailureIsNotATimeout
<1> QED BY <1>1, <1>2, <1>3, AllInvariants, PTL DEF Spec

-----------------------------------------------------------------------------
(* Refinement.                                                             *)

\* The rows that the contract counts are those that hold a slot.
LEMMA UnendedIsActivated ==
  ASSUME TypeOK, SlotInv
  PROVE  /\ Contract!Unended = {t \in Tasks : slotHeld[t]}
         /\ \A u \in Users : Contract!UnendedOf(u) = Activated(u)
<1>1. ASSUME NEW t \in Tasks
      PROVE  PhaseOf(state[t]) \in {"open", "answered"} <=> slotHeld[t]
  BY DEF TypeOK, RepositoryTypeOK, SlotInv, SlotHoldingStates, RowState, TaskState,
     TerminalStates, PhaseOf
<1>2. Contract!Unended = {t \in Tasks : slotHeld[t]}
  BY <1>1 DEF Contract!Unended
<1> QED BY <1>2 DEF Contract!UnendedOf, Activated

\* How the contract sees each state of a row.
LEMMA Views ==
  /\ PhaseOf("absent") = "absent"
  /\ \A s \in {"waiting_human", "forwarding_llm"} : PhaseOf(s) = "open"
  /\ \A s \in {"response_ready", "responding"} : PhaseOf(s) = "answered"
  /\ \A s \in TerminalStates : PhaseOf(s) = "done" /\ VerdictOf(s) = s
  /\ \A s \in SlotHoldingStates :
       PhaseOf(s) \in {"open", "answered"} /\ VerdictOf(s) = "none"
  /\ VerdictOf("absent") = "none"
BY DEF PhaseOf, VerdictOf, TerminalStates, SlotHoldingStates

\* Moving the rows of S to a terminal state finishes them.
LEMMA ClosedViews ==
  ASSUME TypeOK, SlotInv, NEW S \in SUBSET Tasks, NEW to \in TerminalStates,
         TerminalValues(S, to)
  PROVE  /\ [t \in Tasks |-> PhaseOf(state'[t])]
              = [t \in Tasks |-> IF t \in S THEN "done" ELSE PhaseOf(state[t])]
         /\ [t \in Tasks |-> VerdictOf(state'[t])]
              = [t \in Tasks |-> IF t \in S THEN to ELSE VerdictOf(state[t])]
<1>1. \A t \in Tasks : state'[t] = IF t \in S THEN to ELSE state[t]
  BY DEF TerminalValues
<1>2. \A t \in S : PhaseOf(state'[t]) = "done" /\ VerdictOf(state'[t]) = to
  BY <1>1, Views
<1> QED BY <1>1, <1>2

LEMMA ContractStep ==
  ASSUME TypeOK, SlotInv, SweepInv, [Next]_vars, MaxSweepFaults = 0
  PROVE  [Contract!Next]_(Contract!vars)
<1> USE DEF TypeOK, RepositoryTypeOK
<1>0. ASSUME UNCHANGED <<isActive, reply>>,
             \A t \in Tasks : /\ PhaseOf(state'[t]) = PhaseOf(state[t])
                              /\ VerdictOf(state'[t]) = VerdictOf(state[t])
      PROVE  UNCHANGED Contract!vars
  BY <1>0 DEF Contract!vars
<1>1. CASE UNCHANGED <<userVars, state, slotHeld, reply, acceptedBy>>
  BY <1>0, <1>1 DEF userVars
<1>2. ASSUME NEW t \in Tasks, Admitted(t) PROVE Contract!Admit(t)
  <2>1. state[t] = "absent" /\ state' = [state EXCEPT ![t] = "waiting_human"]
    BY <1>2 DEF Admitted, SlotInv, InsertTask
  <2>2. /\ Owner[t] \in Users
        /\ isActive[Owner[t]]
        /\ Cardinality(Contract!UnendedOf(Owner[t])) < MaxActiveTasks
    BY <1>2, OwnerType, UnendedIsActivated DEF Admitted, AcquireSlotMatches, SlotInv
  <2>3. /\ PhaseOf(state[t]) = "absent" /\ PhaseOf(state'[t]) = "open"
        /\ VerdictOf(state'[t]) = VerdictOf(state[t])
        /\ \A x \in Tasks \ {t} : state'[x] = state[x]
    BY <2>1, Views DEF SlotHoldingStates
  <2>4. UNCHANGED <<isActive, reply>>
    BY <1>2 DEF Admitted, InsertTask
  <2>5. Contract!Cardinality(Contract!UnendedOf(Owner[t])) < MaxActiveTasks
    BY <2>2, Zenon DEF Cardinality, Contract!Cardinality
  <2> QED BY ZenonT(40), <2>2, <2>3, <2>4, <2>5 DEF Contract!Admit
<1>3. ASSUME NEW t \in Tasks, Claimed(t) \/ Started(t) PROVE UNCHANGED Contract!vars
  <2>1. \A x \in Tasks : /\ PhaseOf(state'[x]) = PhaseOf(state[x])
                         /\ VerdictOf(state'[x]) = VerdictOf(state[x])
    BY <1>3, Views DEF Claimed, Started, Advance, SlotHoldingStates
  <2> QED BY <1>0, <1>3, <2>1 DEF Claimed, Started, userVars
<1>4. ASSUME NEW t \in Tasks, NEW a \in Authors, Answered(t, a) PROVE Contract!Answer(t, a)
  <2>1. /\ PhaseOf(state[t]) = "open" /\ PhaseOf(state'[t]) = "answered"
        /\ VerdictOf(state'[t]) = VerdictOf(state[t])
        /\ \A x \in Tasks \ {t} : state'[x] = state[x]
    BY <1>4, Views DEF Answered, Advance, SlotHoldingStates
  <2>2. UNCHANGED isActive /\ reply' = [reply EXCEPT ![t] = a]
    BY <1>4 DEF Answered, userVars
  <2> QED BY <2>1, <2>2 DEF Contract!Answer
<1>5. ASSUME NEW S \in SUBSET Tasks, Closed(S, "cancelled"), S # {}
      PROVE  S \in SUBSET Contract!Unended /\ Contract!Abandon(S)
  <2>1. S \in SUBSET Contract!Unended
    BY <1>5, UnendedIsActivated DEF Closed
  <2>2. TerminalValues(S, "cancelled") /\ UNCHANGED <<isActive, reply>>
    BY <1>5 DEF Closed, Close, TerminalValues
  <2>3. Contract!CancelAll(S)
    BY <2>2, ClosedViews DEF TerminalStates, Contract!CancelAll
  <2> QED BY <1>5, <2>1, <2>2, <2>3 DEF Contract!Abandon
<1>6. ASSUME NEW t \in Tasks, NEW to \in TerminalStates \ {"cancelled"}, Closed({t}, to)
      PROVE  Contract!Finish(t, to)
  <2>1. t \in Contract!Unended
    BY <1>6, UnendedIsActivated DEF Closed
  <2>2. to \in Contract!Verdicts[PhaseOf(state[t])]
    <3>1. state[t] \in SlotHoldingStates
      BY <1>6 DEF Closed, SlotInv
    <3>2. to = "completed" => PhaseOf(state[t]) = "answered"
      BY <1>6, Views DEF Closed
    <3>3. to = "timed_out" => PhaseOf(state[t]) = "open"
      BY <1>6, Views DEF Closed
    <3>4. to \in {"completed", "timed_out", "failed"}
      BY DEF TerminalStates
    <3> QED BY <3>1, <3>2, <3>3, <3>4, Views DEF Contract!Verdicts
  <2>3. TerminalValues({t}, to) /\ UNCHANGED <<isActive, reply>>
    BY <1>6 DEF Closed, Close, TerminalValues
  <2>4. /\ [x \in Tasks |-> PhaseOf(state'[x])]
             = [x \in Tasks |-> IF x \in {t} THEN "done" ELSE PhaseOf(state[x])]
        /\ [x \in Tasks |-> VerdictOf(state'[x])]
             = [x \in Tasks |-> IF x \in {t} THEN to ELSE VerdictOf(state[x])]
    BY <2>3, ClosedViews, {t} \in SUBSET Tasks
  <2> QED BY <2>1, <2>2, <2>3, <2>4 DEF Contract!Finish
<1>7. ASSUME Closed({}, "cancelled") PROVE UNCHANGED Contract!vars
  BY <1>0, <1>7 DEF Closed, Close, TerminalValues
<1>8. ASSUME NEW u \in Users, Disabled(u) PROVE Contract!Disable(u)
  <2>1. {t \in ActiveRows : Owner[t] = u} = Contract!UnendedOf(u)
    BY UnendedIsActivated DEF ActiveRows, Activated, SlotInv, SlotHoldingStates,
       TerminalStates
  <2>2. /\ TerminalValues(Contract!UnendedOf(u), "cancelled")
        /\ Contract!UnendedOf(u) \in SUBSET Tasks
        /\ UNCHANGED reply
    BY <1>8, <2>1 DEF Disabled, ActiveRows, TerminalValues
  <2>3. Contract!CancelAll(Contract!UnendedOf(u))
    BY <2>2, ClosedViews DEF TerminalStates, Contract!CancelAll
  <2> QED BY <1>8, <2>3 DEF Disabled, Contract!Disable
<1>9. ASSUME NEW u \in Users, Enabled(u) PROVE Contract!Enable(u)
  BY <1>9 DEF Enabled, rowVars, Contract!Enable
<1>10. ASSUME NEW S \in SUBSET Tasks, NEW to \in TerminalStates, Closed(S, to)
       PROVE  [Contract!Next]_(Contract!vars)
  <2>1. CASE to = "cancelled"
    BY <1>5, <1>7, <1>10, <2>1 DEF Contract!Next
  <2>2. CASE to # "cancelled"
    <3>1. PICK t \in Tasks : S = {t}
      BY <1>10, <2>2 DEF Closed
    <3>2. Contract!Finish(t, to)
      BY <1>6, <1>10, <2>2, <3>1
    <3> QED BY <3>2 DEF Contract!Next, TerminalStates
  <2> QED BY <2>1, <2>2
<1> QED
  BY <1>1, <1>2, <1>3, <1>4, <1>8, <1>9, <1>10, RowSteps DEF RowStep, Contract!Next

\* The rows, the slot counter and the conditional UPDATEs implement the contract:
\* at most MaxActiveTasks unfinished tasks of a user, none while it is disabled,
\* the first answer is the answer, a verdict fits its phase and is final.
THEOREM ImplementsContractHolds ==
  ASSUME MaxSweepFaults = 0
  PROVE  Spec => ImplementsContract
<1>1. Init => Contract!Init
  BY DEF Init, RepositoryInit, Contract!Init, PhaseOf, VerdictOf, TerminalStates
<1>2. TypeOK /\ SlotInv /\ SweepInv /\ [Next]_vars => [Contract!Next]_(Contract!vars)
  BY ContractStep
<1> QED BY <1>1, <1>2, SlotInvariant, PTL DEF Spec, ImplementsContract, Contract!Spec
=============================================================================
