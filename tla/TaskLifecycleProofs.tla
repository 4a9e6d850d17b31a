------------------------ MODULE TaskLifecycleProofs ------------------------
(***************************************************************************)
(* Theorems about TaskLifecycle, for every set of users, tasks and         *)
(* submitters and every value of the bounds.                               *)
(***************************************************************************)
EXTENDS TaskLifecycle, FiniteSetTheorems, TLAPS

LEMMA SubsetsOfTasksAreFinite ==
  ASSUME NEW S, S \subseteq Tasks
  PROVE  IsFiniteSet(S) /\ Cardinality(S) \in Nat
BY TasksFinite, FS_Subset, FS_CardinalityType

-----------------------------------------------------------------------------
(* Types.  First the writes, then one step per action.                     *)

LEMMA ReleaseSlotsType ==
  ASSUME activeTaskCount \in [Users -> Nat],
         NEW S, S \subseteq Tasks, ReleaseSlots(S)
  PROVE  activeTaskCount' \in [Users -> Nat]
<1>1. ASSUME NEW u \in Users
      PROVE  Cardinality({t \in S : Owner[t] = u}) \in Nat
  BY SubsetsOfTasksAreFinite, {t \in S : Owner[t] = u} \subseteq Tasks
<1> DEFINE released(u) == Cardinality({t \in S : Owner[t] = u})
<1>2. ASSUME NEW u \in Users
      PROVE  (IF released(u) <= activeTaskCount[u]
                THEN activeTaskCount[u] - released(u) ELSE 0) \in Nat
  <2>1. released(u) \in Nat BY <1>1
  <2> HIDE DEF released
  <2> QED BY <2>1
<1>3. activeTaskCount' = [u \in Users |-> IF released(u) <= activeTaskCount[u]
                            THEN activeTaskCount[u] - released(u) ELSE 0]
  BY DEF ReleaseSlots
<1> HIDE DEF released
<1> QED BY <1>2, <1>3

LEMMA AdvanceType ==
  ASSUME RepositoryTypeOK, NEW t \in Tasks, NEW to \in TaskState, Advance(t, to)
  PROVE  /\ state'   \in [Tasks -> RowState]
         /\ version' \in [Tasks -> Nat]
         /\ age'     \in [Tasks -> Fresh .. PastGrace]
BY DEF RepositoryTypeOK, Advance, RowState, Fresh, PastGrace

LEMMA TerminalValuesType ==
  ASSUME RepositoryTypeOK, NEW S, NEW to \in TerminalStates, TerminalValues(S, to)
  PROVE  /\ state'    \in [Tasks -> RowState]
         /\ version'  \in [Tasks -> Nat]
         /\ slotHeld' \in [Tasks -> BOOLEAN]
         /\ reply'    \in [Tasks -> Authors \cup {NoReply}]
         /\ age'      \in [Tasks -> Fresh .. PastGrace]
<1>1. TerminalStates \subseteq RowState BY DEF TerminalStates, RowState, TaskState
<1>2. slotHeld' \in [Tasks -> BOOLEAN]
  BY DEF RepositoryTypeOK, TerminalValues
<1> QED BY <1>1, <1>2 DEF RepositoryTypeOK, TerminalValues, Fresh, PastGrace

LEMMA CloseType ==
  ASSUME RepositoryTypeOK, NEW S, S \subseteq Tasks, NEW to \in TerminalStates,
         Close(S, to)
  PROVE  RepositoryTypeOK'
BY ReleaseSlotsType, TerminalValuesType DEF Close, RepositoryTypeOK

LEMMA FinalizeType ==
  ASSUME RepositoryTypeOK, NEW t \in Tasks, NEW to \in TerminalStates, NEW sources,
         Finalize(t, to, sources)
  PROVE  RepositoryTypeOK'
<1>1. CASE FinalizeMatches(t, sources)
  BY <1>1, CloseType DEF Finalize
<1>2. CASE ~FinalizeMatches(t, sources)
  BY <1>2 DEF Finalize, dbVars, userVars, rowVars, RepositoryTypeOK
<1> QED BY <1>1, <1>2

LEMMA CancelCallerType ==
  ASSUME RepositoryTypeOK, NEW t \in Tasks, CancelCaller(t)
  PROVE  RepositoryTypeOK'
<1>0. "cancelled" \in TerminalStates BY DEF TerminalStates
<1>1. CASE CancelMatches(t)
  BY <1>0, <1>1, CloseType DEF CancelCaller
<1>2. CASE ~CancelMatches(t)
  BY <1>2 DEF CancelCaller, dbVars, userVars, rowVars, RepositoryTypeOK
<1> QED BY <1>1, <1>2

\* What no step of the others touches keeps its type.
LEMMA TypeStable ==
  ASSUME TypeOK
  PROVE  /\ UNCHANGED dbVars => RepositoryTypeOK'
         /\ UNCHANGED serverVars => ServerTypeOK'
         /\ UNCHANGED callerVars => CallerTypeOK'
         /\ UNCHANGED workerVars => WorkerTypeOK'
         /\ UNCHANGED submitVars => SubmitTypeOK'
         /\ UNCHANGED sweepVars => SweepTypeOK'
<1> USE DEF TypeOK
<1>1. UNCHANGED dbVars => RepositoryTypeOK'
  BY DEF RepositoryTypeOK, dbVars, userVars, rowVars
<1>2. UNCHANGED serverVars => ServerTypeOK'
  BY DEF ServerTypeOK, serverVars
<1>3. UNCHANGED callerVars => CallerTypeOK'
  BY DEF CallerTypeOK, callerVars
<1>4. UNCHANGED workerVars => WorkerTypeOK'
  BY DEF WorkerTypeOK, workerVars
<1>5. UNCHANGED submitVars => SubmitTypeOK'
  BY DEF SubmitTypeOK, submitVars
<1>6. UNCHANGED sweepVars => SweepTypeOK'
  BY DEF SweepTypeOK, sweepVars
<1> QED BY <1>1, <1>2, <1>3, <1>4, <1>5, <1>6

\* Only the process moves the server.
LEMMA ServerTypeStep ==
  ASSUME TypeOK, [Next]_vars
  PROVE  ServerTypeOK'
<1>0. ServerTypeOK BY DEF TypeOK
<1>1. ASSUME Crash PROVE ServerTypeOK'
  BY <1>0, <1>1, BoundsType DEF Crash, ProcessEnds, ServerTypeOK
<1>2. ASSUME BeginShutdown PROVE ServerTypeOK'
  BY <1>0, <1>2, BoundsType DEF BeginShutdown, ServerTypeOK
<1>3. ASSUME EndShutdown PROVE ServerTypeOK'
  BY <1>0, <1>3 DEF EndShutdown, ServerTypeOK, ProcessEnds
<1>4. ASSUME Boot PROVE ServerTypeOK'
  BY <1>0, <1>4 DEF Boot, ServerTypeOK
<1>5. ASSUME Serve PROVE ServerTypeOK'
  BY <1>0, <1>5 DEF Serve, ServerTypeOK
<1>6. ASSUME UNCHANGED serverVars PROVE ServerTypeOK'
  BY <1>6, TypeStable
<1> QED
  BY ZenonT(40), <1>1, <1>2, <1>3, <1>4, <1>5, <1>6
     DEF Next, Handler, HandlerChance, Forwarder, Sweeper, Process, ProcessEnds, vars, dbVars,
         Admit, Disconnect, SeeDisconnect, TakeReply, PollEnded, PollDue, Recheck, Expire, ClaimForward, CallUpstream, CallOnce, CallStream, UpstreamAnswers, ForwardFails, ConfigGone, ParameterRefused, ToolsRefused, AcceptForward, StopForward, EndForward, FailRender, BeginResponse, SendFrame, AbortStream, FailFrame, FailStream, FinishSend, LoseConnection, CompleteTask, CloseResponse, SweepOverdue, SweepStale, SweepFault, TimePasses, OpenTask, SubmitReply, DisableUser, EnableUser, SelectOverdue, SelectStale, EndSweep, CancelBatch

\* Only the caller's handler, and the end of the process, move the handler.
LEMMA CallerTypeStep ==
  ASSUME TypeOK, [Next]_vars
  PROVE  CallerTypeOK'
<1>0. CallerTypeOK BY DEF TypeOK
<1>1. ASSUME NEW t \in Tasks, Admit(t) PROVE CallerTypeOK'
  BY <1>0, <1>1 DEF Admit, CallerTypeOK, Places, Messages, Goto, Tell
<1>2. ASSUME NEW t \in Tasks, Disconnect(t) PROVE CallerTypeOK'
  BY <1>0, <1>2 DEF Disconnect, CallerTypeOK, Places, Messages, Goto, Tell
<1>3. ASSUME NEW t \in Tasks, SeeDisconnect(t) PROVE CallerTypeOK'
  BY <1>0, <1>3 DEF SeeDisconnect, CallerTypeOK, Places, Messages, Goto, Tell
<1>4. ASSUME NEW t \in Tasks, TakeReply(t) PROVE CallerTypeOK'
  BY <1>0, <1>4 DEF TakeReply, CallerTypeOK, Places, Messages, Goto, Tell, RepositoryTypeOK, TypeOK
<1>5. ASSUME NEW t \in Tasks, PollEnded(t) PROVE CallerTypeOK'
  BY <1>0, <1>5 DEF PollEnded, CallerTypeOK, Places, Messages, Goto, Tell, PollOutcome
<1>6. ASSUME NEW t \in Tasks, PollDue(t) PROVE CallerTypeOK'
  BY <1>0, <1>6 DEF PollDue, CallerTypeOK, Places, Messages, Goto, Tell
<1>7. ASSUME NEW t \in Tasks, Recheck(t) PROVE CallerTypeOK'
  BY <1>0, <1>7 DEF Recheck, CallerTypeOK, Places, Messages, Goto, Tell
<1>8. ASSUME NEW t \in Tasks, Expire(t) PROVE CallerTypeOK'
  BY <1>0, <1>8 DEF Expire, CallerTypeOK, Places, Messages, Goto, Tell
<1>9. ASSUME NEW t \in Tasks, EndForward(t) PROVE CallerTypeOK'
  BY <1>0, <1>9 DEF EndForward, CallerTypeOK, Places, Messages, Goto, Tell
<1>10. ASSUME NEW t \in Tasks, FailRender(t) PROVE CallerTypeOK'
  BY <1>0, <1>10 DEF FailRender, CallerTypeOK, Places, Messages, Goto, Tell
<1>11. ASSUME NEW t \in Tasks, BeginResponse(t) PROVE CallerTypeOK'
  BY <1>0, <1>11 DEF BeginResponse, CallerTypeOK, Places, Messages, Goto, Tell
<1>12. ASSUME NEW t \in Tasks, SendFrame(t) PROVE CallerTypeOK'
  BY <1>0, <1>12 DEF SendFrame, CallerTypeOK, Places, Messages, Goto, Tell
<1>13. ASSUME NEW t \in Tasks, AbortStream(t) PROVE CallerTypeOK'
  BY <1>0, <1>13 DEF AbortStream, CallerTypeOK, Places, Messages, Goto, Tell
<1>14. ASSUME NEW t \in Tasks, FailFrame(t) PROVE CallerTypeOK'
  BY <1>0, <1>14 DEF FailFrame, CallerTypeOK, Places, Messages, Goto, Tell
<1>15. ASSUME NEW t \in Tasks, FailStream(t) PROVE CallerTypeOK'
  BY <1>0, <1>15 DEF FailStream, CallerTypeOK, Places, Messages, Goto, Tell
<1>16. ASSUME NEW t \in Tasks, FinishSend(t) PROVE CallerTypeOK'
  BY <1>0, <1>16 DEF FinishSend, CallerTypeOK, Places, Messages, Goto, Tell
<1>17. ASSUME NEW t \in Tasks, LoseConnection(t) PROVE CallerTypeOK'
  BY <1>0, <1>17 DEF LoseConnection, CallerTypeOK, Places, Messages, Goto, Tell
<1>18. ASSUME NEW t \in Tasks, CompleteTask(t) PROVE CallerTypeOK'
  BY <1>0, <1>18 DEF CompleteTask, CallerTypeOK, Places, Messages, Goto, Tell
<1>19. ASSUME NEW t \in Tasks, CloseResponse(t) PROVE CallerTypeOK'
  BY <1>0, <1>19 DEF CloseResponse, CallerTypeOK, Places, Messages, Goto, Tell
<1>20. ASSUME Crash PROVE CallerTypeOK'
  BY <1>0, <1>20 DEF Crash, ProcessEnds, CallerTypeOK, Places
<1>21. ASSUME EndShutdown PROVE CallerTypeOK'
  BY <1>0, <1>21 DEF EndShutdown, ProcessEnds, CallerTypeOK, Places
<1>22. ASSUME UNCHANGED callerVars PROVE CallerTypeOK'
  BY <1>22, TypeStable
<1> QED
  BY <1>1, <1>2, <1>3, <1>4, <1>5, <1>6, <1>7, <1>8, <1>9, <1>10, <1>11, <1>12, <1>13, <1>14, <1>15, <1>16, <1>17, <1>18, <1>19, <1>20, <1>21, <1>22
     DEF Next, Handler, HandlerChance, Forwarder, Sweeper, Process, ProcessEnds, vars, dbVars,
         ClaimForward, CallUpstream, CallOnce, CallStream, UpstreamAnswers, ForwardFails, ConfigGone, ParameterRefused, ToolsRefused, AcceptForward, StopForward, SweepOverdue, SweepStale, SweepFault, TimePasses, OpenTask, SubmitReply, DisableUser, EnableUser, SelectOverdue, SelectStale, EndSweep, BeginShutdown, CancelBatch, Boot, Serve

\* The handler starts the worker and takes its result.
LEMMA WorkerTypeStep ==
  ASSUME TypeOK, [Next]_vars
  PROVE  WorkerTypeOK'
<1>0. WorkerTypeOK BY DEF TypeOK
<1>1. ASSUME NEW t \in Tasks, Admit(t) PROVE WorkerTypeOK'
  BY <1>0, <1>1 DEF Admit, WorkerTypeOK, WorkerPlaces, ForwardResults, Becomes
<1>2. ASSUME NEW t \in Tasks, PollDue(t) PROVE WorkerTypeOK'
  BY <1>0, <1>2 DEF PollDue, WorkerTypeOK, WorkerPlaces, ForwardResults, Becomes
<1>3. ASSUME NEW t \in Tasks, ClaimForward(t) PROVE WorkerTypeOK'
  BY <1>0, <1>3 DEF ClaimForward, WorkerTypeOK, WorkerPlaces, ForwardResults, Becomes
<1>4. ASSUME NEW t \in Tasks, CallUpstream(t) PROVE WorkerTypeOK'
  BY <1>0, <1>4 DEF CallUpstream, CallOnce, CallStream, WorkerTypeOK, WorkerPlaces, ForwardResults, Becomes
<1>5. ASSUME NEW t \in Tasks, UpstreamAnswers(t) PROVE WorkerTypeOK'
  BY <1>0, <1>5 DEF UpstreamAnswers, WorkerTypeOK, WorkerPlaces, ForwardResults, Becomes, RepositoryTypeOK, TypeOK
<1>6. ASSUME NEW t \in Tasks, ForwardFails(t) PROVE WorkerTypeOK'
  BY <1>0, <1>6 DEF ForwardFails, ConfigGone, ParameterRefused, ToolsRefused, WorkerTypeOK, WorkerPlaces, ForwardResults, Becomes
<1>7. ASSUME NEW t \in Tasks, AcceptForward(t) PROVE WorkerTypeOK'
  BY <1>0, <1>7 DEF AcceptForward, WorkerTypeOK, WorkerPlaces, ForwardResults, Becomes
<1>8. ASSUME NEW t \in Tasks, StopForward(t) PROVE WorkerTypeOK'
  BY <1>0, <1>8 DEF StopForward, WorkerTypeOK, WorkerPlaces, ForwardResults, Becomes
<1>9. ASSUME NEW t \in Tasks, EndForward(t) PROVE WorkerTypeOK'
  BY <1>0, <1>9 DEF EndForward, WorkerTypeOK, WorkerPlaces, ForwardResults, Becomes
<1>10. ASSUME Crash PROVE WorkerTypeOK'
  BY <1>0, <1>10 DEF Crash, ProcessEnds, WorkerTypeOK, WorkerPlaces
<1>11. ASSUME EndShutdown PROVE WorkerTypeOK'
  BY <1>0, <1>11 DEF EndShutdown, ProcessEnds, WorkerTypeOK, WorkerPlaces
<1>12. ASSUME UNCHANGED workerVars PROVE WorkerTypeOK'
  BY <1>12, TypeStable
<1> QED
  BY <1>1, <1>2, <1>3, <1>4, <1>5, <1>6, <1>7, <1>8, <1>9, <1>10, <1>11, <1>12
     DEF Next, Handler, HandlerChance, Forwarder, Sweeper, Process, ProcessEnds, vars, dbVars,
         Disconnect, SeeDisconnect, TakeReply, PollEnded, Recheck, Expire, FailRender, BeginResponse, SendFrame, AbortStream, FailFrame, FailStream, FinishSend, LoseConnection, CompleteTask, CloseResponse, SweepOverdue, SweepStale, SweepFault, TimePasses, OpenTask, SubmitReply, DisableUser, EnableUser, SelectOverdue, SelectStale, EndSweep, BeginShutdown, CancelBatch, Boot, Serve

\* People and the accepting worker.
LEMMA SubmitTypeStep ==
  ASSUME TypeOK, [Next]_vars
  PROVE  SubmitTypeOK'
<1>0. SubmitTypeOK BY DEF TypeOK
<1>1. ASSUME NEW t \in Tasks, AcceptForward(t) PROVE SubmitTypeOK'
  BY <1>0, <1>1 DEF AcceptForward, SubmitTypeOK, submitVars, Authors
<1>2. ASSUME NEW s \in Submitters, NEW t \in Tasks, OpenTask(s, t) PROVE SubmitTypeOK'
  BY <1>0, <1>2 DEF OpenTask, SubmitTypeOK, RepositoryTypeOK, TypeOK
<1>3. ASSUME NEW s \in Submitters, NEW t \in Tasks, SubmitReply(s, t) PROVE SubmitTypeOK'
  BY <1>0, <1>3 DEF SubmitReply, SubmitTypeOK, Authors
<1>4. ASSUME Crash PROVE SubmitTypeOK'
  BY <1>0, <1>4 DEF Crash, ProcessEnds, SubmitTypeOK
<1>5. ASSUME EndShutdown PROVE SubmitTypeOK'
  BY <1>0, <1>5 DEF EndShutdown, ProcessEnds, SubmitTypeOK
<1>6. ASSUME UNCHANGED submitVars PROVE SubmitTypeOK'
  BY <1>6, TypeStable
<1> QED
  BY ZenonT(40), <1>1, <1>2, <1>3, <1>4, <1>5, <1>6
     DEF Next, Handler, HandlerChance, Forwarder, Sweeper, Process, ProcessEnds, vars, dbVars,
         Admit, Disconnect, SeeDisconnect, TakeReply, PollEnded, PollDue, Recheck, Expire, ClaimForward, CallUpstream, CallOnce, CallStream, UpstreamAnswers, ForwardFails, ConfigGone, ParameterRefused, ToolsRefused, StopForward, EndForward, FailRender, BeginResponse, SendFrame, AbortStream, FailFrame, FailStream, FinishSend, LoseConnection, CompleteTask, CloseResponse, SweepOverdue, SweepStale, SweepFault, TimePasses, DisableUser, EnableUser, SelectOverdue, SelectStale, EndSweep, BeginShutdown, CancelBatch, Boot, Serve

\* The sweeper and its failing transactions.
LEMMA SweepTypeStep ==
  ASSUME TypeOK, [Next]_vars
  PROVE  SweepTypeOK'
<1>0. SweepTypeOK BY DEF TypeOK
<1>1. ASSUME SelectOverdue PROVE SweepTypeOK'
  BY <1>0, <1>1 DEF SelectOverdue, SweepTypeOK, RepositoryTypeOK, TypeOK
<1>2. ASSUME NEW t \in Tasks, SweepOverdue(t) PROVE SweepTypeOK'
  BY <1>0, <1>2 DEF SweepOverdue, SweepTypeOK
<1>3. ASSUME SelectStale PROVE SweepTypeOK'
  BY <1>0, <1>3 DEF SelectStale, SweepTypeOK, RepositoryTypeOK, TypeOK
<1>4. ASSUME NEW t \in Tasks, SweepStale(t) PROVE SweepTypeOK'
  BY <1>0, <1>4 DEF SweepStale, SweepTypeOK
<1>5. ASSUME NEW t \in Tasks, SweepFault(t) PROVE SweepTypeOK'
  BY <1>0, <1>5, BoundsType DEF SweepFault, SweepTypeOK
<1>6. ASSUME EndSweep PROVE SweepTypeOK'
  BY <1>0, <1>6 DEF EndSweep, SweepTypeOK
<1>7. ASSUME Crash PROVE SweepTypeOK'
  BY <1>0, <1>7 DEF Crash, ProcessEnds, SweepTypeOK
<1>8. ASSUME EndShutdown PROVE SweepTypeOK'
  BY <1>0, <1>8 DEF EndShutdown, ProcessEnds, SweepTypeOK
<1>9. ASSUME UNCHANGED sweepVars PROVE SweepTypeOK'
  BY <1>9, TypeStable
<1> QED
  BY ZenonT(40), <1>1, <1>2, <1>3, <1>4, <1>5, <1>6, <1>7, <1>8, <1>9
     DEF Next, Handler, HandlerChance, Forwarder, Sweeper, Process, ProcessEnds, vars, dbVars,
         Admit, Disconnect, SeeDisconnect, TakeReply, PollEnded, PollDue, Recheck, Expire, ClaimForward, CallUpstream, CallOnce, CallStream, UpstreamAnswers, ForwardFails, ConfigGone, ParameterRefused, ToolsRefused, AcceptForward, StopForward, EndForward, FailRender, BeginResponse, SendFrame, AbortStream, FailFrame, FailStream, FinishSend, LoseConnection, CompleteTask, CloseResponse, TimePasses, OpenTask, SubmitReply, DisableUser, EnableUser, BeginShutdown, CancelBatch, Boot, Serve

\* Every write of the rows and of the users, through the lemmas above.
LEMMA RepositoryTypeStep ==
  ASSUME TypeOK, [Next]_vars
  PROVE  RepositoryTypeOK'
<1>0. RepositoryTypeOK BY DEF TypeOK
<1>1. {"timed_out", "completed", "failed", "cancelled"} \subseteq TerminalStates
  BY DEF TerminalStates
<1>2. ASSUME NEW t \in Tasks, NEW to \in TaskState, Advance(t, to),
             reply' \in [Tasks -> Authors \cup {NoReply}],
             UNCHANGED <<userVars, slotHeld>>
      PROVE  RepositoryTypeOK'
  BY <1>0, <1>2, AdvanceType DEF RepositoryTypeOK, userVars
<1>3. ASSUME NEW t \in Tasks, Admit(t) PROVE RepositoryTypeOK'
  <2>1. activeTaskCount' \in [Users -> Nat]
    BY <1>0, <1>3, OwnerType DEF Admit, AcquireSlotSets, RepositoryTypeOK
  <2>2. state' \in [Tasks -> RowState]
    BY <1>0, <1>3 DEF Admit, InsertTask, RepositoryTypeOK, RowState, TaskState
  <2>3. /\ version' \in [Tasks -> Nat]
        /\ slotHeld' \in [Tasks -> BOOLEAN]
        /\ reply' \in [Tasks -> Authors \cup {NoReply}]
        /\ age' \in [Tasks -> Fresh .. PastGrace]
    BY <1>0, <1>3 DEF Admit, InsertTask, RepositoryTypeOK, Fresh, PastGrace
  <2>4. isActive' \in [Users -> BOOLEAN]
    BY <1>0, <1>3 DEF Admit, RepositoryTypeOK
  <2> QED BY <2>1, <2>2, <2>3, <2>4 DEF RepositoryTypeOK
<1>4. ASSUME NEW t \in Tasks,
             SeeDisconnect(t) \/ CloseResponse(t) \/ SweepStale(t)
      PROVE  RepositoryTypeOK'
  BY <1>0, <1>4, CancelCallerType DEF SeeDisconnect, CloseResponse, SweepStale
<1>5. ASSUME NEW t \in Tasks,
             Expire(t) \/ FailStream(t) \/ CompleteTask(t) \/ SweepOverdue(t)
      PROVE  RepositoryTypeOK'
  <2>1. ASSUME NEW to \in {"timed_out", "completed", "failed"}, NEW sources,
               Finalize(t, to, sources)
        PROVE  RepositoryTypeOK'
    BY <1>0, <1>1, <2>1, FinalizeType
  <2>2. CASE Expire(t) BY <2>1, <2>2 DEF Expire
  <2>3. CASE FailStream(t) BY <2>1, <2>3 DEF FailStream
  <2>4. CASE CompleteTask(t) BY <2>1, <2>4 DEF CompleteTask
  <2>5. CASE SweepOverdue(t)
    <3>1. SweepTarget(t, SweepSource(t)) \in {"timed_out", "completed", "failed"}
      BY DEF SweepTarget
    <3> QED BY <2>1, <2>5, <3>1 DEF SweepOverdue
  <2> QED BY <1>5, <2>2, <2>3, <2>4, <2>5
<1>6. ASSUME NEW t \in Tasks, EndForward(t) PROVE RepositoryTypeOK'
  <2>1. CASE worker[t] = "failed"
    BY <1>0, <1>1, <1>6, <2>1, FinalizeType DEF EndForward
  <2>2. CASE worker[t] = "unsupported"
    BY <1>0, <1>1, <1>6, <2>2, FinalizeType DEF EndForward
  <2>3. CASE worker[t] \notin {"failed", "unsupported"}
    BY <1>6, <2>3, TypeStable DEF EndForward
  <2> QED BY <2>1, <2>2, <2>3
<1>7. ASSUME NEW t \in Tasks, ClaimForward(t) PROVE RepositoryTypeOK'
  <2>1. CASE ClaimFallbackMatches(t)
    BY <1>0, <1>2, <1>7, <2>1
       DEF ClaimForward, ClaimFallbackSets, TaskState, RepositoryTypeOK
  <2>2. CASE ~ClaimFallbackMatches(t)
    BY <1>7, <2>2, TypeStable DEF ClaimForward, dbVars
  <2> QED BY <2>1, <2>2
<1>8. ASSUME NEW t \in Tasks, AcceptForward(t) PROVE RepositoryTypeOK'
  <2>1. CASE AcceptForwardMatches(t, workerVersion[t])
    BY <1>0, <1>2, <1>8, <2>1
       DEF AcceptForward, AcceptForwardSets, TaskState, Authors, RepositoryTypeOK
  <2>2. CASE ~AcceptForwardMatches(t, workerVersion[t])
    BY <1>8, <2>2, TypeStable DEF AcceptForward, dbVars
  <2> QED BY <2>1, <2>2
<1>9. ASSUME NEW t \in Tasks, BeginResponse(t) PROVE RepositoryTypeOK'
  <2>1. CASE StartResponseMatches(t)
    BY <1>0, <1>2, <1>9, <2>1
       DEF BeginResponse, StartResponseSets, TaskState, RepositoryTypeOK
  <2>2. CASE ~StartResponseMatches(t)
    BY <1>9, <2>2, TypeStable DEF BeginResponse, dbVars
  <2> QED BY <2>1, <2>2
<1>10. ASSUME NEW s \in Submitters, NEW t \in Tasks, SubmitReply(s, t)
       PROVE  RepositoryTypeOK'
  <2>1. CASE FirstReplyMatches(t, readVersion[s])
    BY <1>0, <1>2, <1>10, <2>1
       DEF SubmitReply, FirstReplySets, TaskState, Authors, RepositoryTypeOK
  <2>2. CASE ~FirstReplyMatches(t, readVersion[s])
    BY <1>10, <2>2, TypeStable DEF SubmitReply, dbVars
  <2> QED BY <2>1, <2>2
<1>11. ASSUME NEW u \in Users, DisableUser(u) PROVE RepositoryTypeOK'
  BY <1>0, <1>1, <1>11, TerminalValuesType DEF DisableUser, RepositoryTypeOK
<1>12. ASSUME NEW u \in Users, EnableUser(u) PROVE RepositoryTypeOK'
  BY <1>0, <1>12 DEF EnableUser, RepositoryTypeOK, rowVars
<1>13. ASSUME NEW t \in Tasks, TimePasses(t) PROVE RepositoryTypeOK'
  BY <1>0, <1>13 DEF TimePasses, RepositoryTypeOK, userVars, Fresh, PastGrace
<1>14. ASSUME CancelBatch PROVE RepositoryTypeOK'
  BY <1>0, <1>1, <1>14, CloseType DEF CancelBatch, ActiveRows
<1>15. ASSUME UNCHANGED dbVars PROVE RepositoryTypeOK'
  BY <1>15, TypeStable
<1> QED
  BY <1>3, <1>4, <1>5, <1>6, <1>7, <1>8, <1>9, <1>10, <1>11, <1>12, <1>13, <1>14, <1>15
     DEF Next, Handler, HandlerChance, Forwarder, Sweeper, Process, ProcessEnds, vars,
         Disconnect, TakeReply, PollEnded, PollDue, Recheck, CallUpstream, CallOnce, CallStream, UpstreamAnswers,
         ForwardFails, ConfigGone, ParameterRefused, ToolsRefused, StopForward, FailRender, SendFrame, AbortStream, FailFrame,
         FinishSend, LoseConnection, SweepFault, OpenTask, SelectOverdue, SelectStale,
         EndSweep, Crash, BeginShutdown, EndShutdown, Boot, Serve

LEMMA TypeStep ==
  ASSUME TypeOK, [Next]_vars
  PROVE  TypeOK'
BY RepositoryTypeStep, ServerTypeStep, CallerTypeStep, WorkerTypeStep, SubmitTypeStep,
   SweepTypeStep DEF TypeOK

LEMMA TypeInit == Init => TypeOK
<1> SUFFICES ASSUME Init PROVE TypeOK
  OBVIOUS
<1>1. RepositoryTypeOK
  BY DEF Init, RepositoryInit, RepositoryTypeOK, RowState, Fresh, PastGrace
<1>2. ServerTypeOK /\ SweepTypeOK
  BY BoundsType DEF Init, ServerTypeOK, SweepTypeOK
<1>3. CallerTypeOK
  BY DEF Init, CallerTypeOK, Places, Messages
<1>4. WorkerTypeOK /\ SubmitTypeOK
  BY DEF Init, WorkerTypeOK, WorkerPlaces, SubmitTypeOK
<1> QED BY <1>1, <1>2, <1>3, <1>4 DEF TypeOK

\* The columns, the handlers, the workers and the snapshots keep their types, for
\* any number of users, tasks, submitters, restarts and failing sweeps.
THEOREM TypeCorrect == Spec => []TypeOK
<1>1. Init => TypeOK BY TypeInit
<1>2. TypeOK /\ [Next]_vars => TypeOK' BY TypeStep
<1> QED BY <1>1, <1>2, PTL DEF Spec

-----------------------------------------------------------------------------
(* Slots.  SlotAccounting is not inductive: that the counter is decremented *)
(* once per task needs that slot_released_at and state agree, that it is    *)
(* incremented once needs that a request not yet admitted has no row.       *)

SlotInv ==
  /\ \A t \in Tasks : slotHeld[t] <=> state[t] \in SlotHoldingStates
  /\ \A t \in Tasks : pc[t] = "idle" => state[t] = "absent"
  /\ \A u \in Users : activeTaskCount[u] = Cardinality(Activated(u))
  /\ \A u \in Users : ~isActive[u] => Activated(u) = {}

\* While no transaction of the sweeper failed, its first list holds only the two
\* states that its query asks for.
SweepInv ==
  MaxSweepFaults = 0 /\ sweepPhase = "overdue" =>
    \A t \in Tasks : sweep[t] \in {"none", "waiting_human", "forwarding_llm"}

\* What a step may do to the rows and the users, whoever takes it.
Admitted(t) ==
  /\ pc[t] = "idle" /\ pc'[t] # "idle"
  /\ AcquireSlotMatches(Owner[t])
  /\ AcquireSlotSets(Owner[t])
  /\ InsertTask(t)
  /\ UNCHANGED <<isActive, acceptedBy>>

Claimed(t) ==
  /\ state[t] = "waiting_human"
  /\ Advance(t, "forwarding_llm")
  /\ UNCHANGED <<userVars, slotHeld, reply, acceptedBy>>

Answered(t, a) ==
  /\ \/ state[t] = "waiting_human" /\ a \in Submitters
     \/ state[t] = "forwarding_llm" /\ a = Llm
  /\ Advance(t, "response_ready")
  /\ reply' = [reply EXCEPT ![t] = a]
  /\ acceptedBy' = [acceptedBy EXCEPT ![t] = @ \cup {a}]
  /\ UNCHANGED <<userVars, slotHeld>>

Started(t) ==
  /\ state[t] = "response_ready"
  /\ pc[t] = "outcome" /\ pc'[t] = "sending"
  /\ Advance(t, "responding")
  /\ UNCHANGED <<userVars, slotHeld, reply, acceptedBy>>

Closed(S, to) ==
  /\ \A t \in S :
       /\ slotHeld[t]
       /\ to = "completed" =>
            /\ state[t] \in {"response_ready", "responding"}
            /\ pc[t] = "sent" /\ pc'[t] = "closing" /\ UNCHANGED received
       /\ to = "timed_out" /\ MaxSweepFaults = 0 => state[t] = "waiting_human"
  /\ to # "cancelled" => \E t \in Tasks : S = {t}
  /\ Close(S, to)
  /\ UNCHANGED acceptedBy

Disabled(u) ==
  /\ isActive[u]
  /\ isActive' = [isActive EXCEPT ![u] = FALSE]
  /\ TerminalValues({t \in ActiveRows : Owner[t] = u}, "cancelled")
  /\ activeTaskCount' = [activeTaskCount EXCEPT ![u] = 0]
  /\ UNCHANGED acceptedBy

Enabled(u) ==
  /\ ~isActive[u]
  /\ isActive' = [isActive EXCEPT ![u] = TRUE]
  /\ UNCHANGED <<activeTaskCount, rowVars, acceptedBy>>

RowStep ==
  \/ UNCHANGED <<userVars, state, slotHeld, reply, acceptedBy>>
  \/ \E t \in Tasks : Admitted(t) \/ Claimed(t) \/ Started(t)
  \/ \E t \in Tasks, a \in Authors : Answered(t, a)
  \/ \E S \in SUBSET Tasks, to \in TerminalStates : Closed(S, to)
  \/ \E u \in Users : Disabled(u) \/ Enabled(u)

LEMMA FinalizeCloses ==
  ASSUME NEW t \in Tasks, NEW to \in TerminalStates, NEW sources,
         Finalize(t, to, sources), UNCHANGED acceptedBy,
         to = "completed" => /\ sources = {"response_ready", "responding"}
                             /\ pc[t] = "sent" /\ pc'[t] = "closing"
                             /\ UNCHANGED received,
         to = "timed_out" /\ MaxSweepFaults = 0 => sources = {"waiting_human"}
  PROVE  RowStep
<1>1. CASE FinalizeMatches(t, sources)
  <2>1. Closed({t}, to)
    BY <1>1 DEF Finalize, FinalizeMatches, Closed
  <2> QED BY <2>1, {t} \in SUBSET Tasks DEF RowStep
<1>2. CASE ~FinalizeMatches(t, sources)
  BY <1>2 DEF Finalize, RowStep, dbVars, rowVars
<1> QED BY <1>1, <1>2

LEMMA CancelCallerCloses ==
  ASSUME NEW t \in Tasks, CancelCaller(t), UNCHANGED acceptedBy
  PROVE  RowStep
<1>1. CASE CancelMatches(t)
  <2>1. Closed({t}, "cancelled")
    BY <1>1 DEF CancelCaller, CancelMatches, Closed
  <2> QED BY <2>1, {t} \in SUBSET Tasks, "cancelled" \in TerminalStates
          DEF RowStep, TerminalStates
<1>2. CASE ~CancelMatches(t)
  BY <1>2 DEF CancelCaller, RowStep, dbVars, rowVars
<1> QED BY <1>1, <1>2

LEMMA RowSteps ==
  ASSUME TypeOK, SweepInv, [Next]_vars
  PROVE  RowStep
<1>1. {"timed_out", "completed", "failed", "cancelled"} \subseteq TerminalStates
  BY DEF TerminalStates
<1>2. ASSUME NEW t \in Tasks, Admit(t) PROVE RowStep
  BY <1>2 DEF Admit, Admitted, RowStep, Goto, TypeOK, CallerTypeOK, submitVars
<1>3. ASSUME NEW t \in Tasks,
             SeeDisconnect(t) \/ CloseResponse(t) \/ SweepStale(t)
      PROVE  RowStep
  BY <1>3, CancelCallerCloses DEF SeeDisconnect, CloseResponse, SweepStale, submitVars
<1>4. ASSUME NEW t \in Tasks, Expire(t) PROVE RowStep
  BY <1>1, <1>4, FinalizeCloses DEF Expire, submitVars
<1>5. ASSUME NEW t \in Tasks, FailStream(t) PROVE RowStep
  BY <1>1, <1>5, FinalizeCloses DEF FailStream, submitVars
<1>6. ASSUME NEW t \in Tasks, CompleteTask(t) PROVE RowStep
  BY <1>1, <1>6, FinalizeCloses DEF CompleteTask, submitVars, At, Goto, TypeOK, CallerTypeOK
<1>7. ASSUME NEW t \in Tasks, SweepOverdue(t) PROVE RowStep
  <2>1. SweepTarget(t, SweepSource(t)) \in {"timed_out", "failed"}
    BY DEF SweepTarget
  <2>2. SweepTarget(t, SweepSource(t)) = "timed_out" /\ MaxSweepFaults = 0
          => SweepSource(t) = "waiting_human"
    BY <1>7 DEF SweepOverdue, SweepInv, SweepTarget, SweepSource
  <2> QED BY <1>1, <1>7, <2>1, <2>2, FinalizeCloses DEF SweepOverdue, submitVars
<1>8. ASSUME NEW t \in Tasks, EndForward(t) PROVE RowStep
  <2>1. CASE worker[t] = "failed"
    BY <1>1, <1>8, <2>1, FinalizeCloses DEF EndForward, submitVars
  <2>2. CASE worker[t] = "unsupported"
    BY <1>1, <1>8, <2>2, FinalizeCloses DEF EndForward, submitVars
  <2>3. CASE worker[t] \notin {"failed", "unsupported"}
    BY <1>8, <2>3 DEF EndForward, RowStep, dbVars, rowVars, submitVars
  <2> QED BY <2>1, <2>2, <2>3
<1>9. ASSUME NEW t \in Tasks, ClaimForward(t) PROVE RowStep
  BY <1>9 DEF ClaimForward, ClaimFallbackMatches, ClaimFallbackSets, Claimed, RowStep,
     userVars, rowVars, submitVars
<1>10. ASSUME NEW t \in Tasks, AcceptForward(t) PROVE RowStep
  BY <1>10 DEF AcceptForward, AcceptForwardMatches, AcceptForwardSets, Answered, RowStep,
     userVars, rowVars, Authors
<1>11. ASSUME NEW t \in Tasks, BeginResponse(t) PROVE RowStep
  BY <1>11 DEF BeginResponse, StartResponseMatches, StartResponseSets, Started, RowStep,
     userVars, rowVars, submitVars, At, Goto, TypeOK, CallerTypeOK
<1>12. ASSUME NEW s \in Submitters, NEW t \in Tasks, SubmitReply(s, t) PROVE RowStep
  BY <1>12 DEF SubmitReply, FirstReplyMatches, FirstReplySets, Answered, RowStep,
     userVars, rowVars, Authors
<1>13. ASSUME NEW u \in Users, DisableUser(u) \/ EnableUser(u) PROVE RowStep
  BY <1>13 DEF DisableUser, Disabled, EnableUser, Enabled, RowStep, submitVars
<1>14. ASSUME CancelBatch PROVE RowStep
  <2>1. PICK S \in SUBSET ActiveRows : Close(S, "cancelled") /\ UNCHANGED acceptedBy
    BY <1>14 DEF CancelBatch, submitVars
  <2>2. Closed(S, "cancelled") /\ S \in SUBSET Tasks
    BY <2>1 DEF Closed, ActiveRows
  <2> QED BY <1>1, <2>2 DEF RowStep
<1>15. ASSUME UNCHANGED <<userVars, state, slotHeld, reply, acceptedBy>> PROVE RowStep
  BY <1>15 DEF RowStep
<1> QED
  BY <1>2, <1>3, <1>4, <1>5, <1>6, <1>7, <1>8, <1>9, <1>10, <1>11, <1>12, <1>13, <1>14, <1>15
     DEF Next, Handler, HandlerChance, Forwarder, Sweeper, Process, ProcessEnds, vars, dbVars,
         rowVars, submitVars, Disconnect, TakeReply, PollEnded, PollDue, Recheck,
         CallUpstream, CallOnce, CallStream, UpstreamAnswers, ForwardFails, ConfigGone, ParameterRefused, ToolsRefused, StopForward, FailRender, SendFrame,
         AbortStream, FailFrame, FinishSend, LoseConnection, SweepFault, TimePasses, OpenTask,
         SelectOverdue, SelectStale, EndSweep, Crash, BeginShutdown, EndShutdown, Boot, Serve

LEMMA SweepStep ==
  ASSUME TypeOK, SweepInv, [Next]_vars
  PROVE  SweepInv'
<1> SUFFICES ASSUME MaxSweepFaults = 0, sweepPhase' = "overdue", NEW t \in Tasks
             PROVE  sweep'[t] \in {"none", "waiting_human", "forwarding_llm"}
  BY BoundsType DEF SweepInv
<1> USE DEF SweepInv, TypeOK, SweepTypeOK
<1>1. CASE UNCHANGED sweepVars
  BY <1>1 DEF sweepVars
<1>2. CASE SelectOverdue
  BY <1>2 DEF SelectOverdue, Overdue
<1>3. CASE \E x \in Tasks : SweepOverdue(x)
  BY <1>3 DEF SweepOverdue
<1>4. CASE \E x \in Tasks : SweepStale(x)
  BY <1>4 DEF SweepStale
<1>5. CASE SelectStale \/ EndSweep \/ ProcessEnds
  BY <1>5 DEF SelectStale, EndSweep, ProcessEnds
<1>6. ~ \E x \in Tasks : SweepFault(x)
  BY DEF SweepFault
<1> QED
  BY ZenonT(40), <1>1, <1>2, <1>3, <1>4, <1>5, <1>6
     DEF Next, Handler, HandlerChance, Forwarder, Sweeper, Process, vars, sweepVars,
         Admit, Disconnect, SeeDisconnect, TakeReply, PollEnded, PollDue, Recheck, Expire,
         EndForward, BeginResponse, AbortStream, FailStream, FinishSend, CompleteTask,
         CloseResponse, FailRender, SendFrame, FailFrame, LoseConnection, ClaimForward,
         CallUpstream, CallOnce, CallStream, UpstreamAnswers, ForwardFails, ConfigGone, ParameterRefused, ToolsRefused, AcceptForward, StopForward, TimePasses,
         OpenTask, SubmitReply, DisableUser, EnableUser, Crash, BeginShutdown, CancelBatch,
         EndShutdown, Boot, Serve

\* A row that is not admitted yet stays so, unless it is admitted.
LEMMA IdleStep ==
  ASSUME TypeOK, [Next]_vars, NEW t \in Tasks, pc'[t] = "idle"
  PROVE  pc[t] = "idle"
<1> USE DEF TypeOK, CallerTypeOK
<1>1. CASE UNCHANGED pc
  BY <1>1
<1>2. CASE \E x \in Tasks, p \in Places \ {"idle"} : Goto(x, p)
  BY <1>2 DEF Goto
<1>3. CASE ProcessEnds
  BY <1>3 DEF ProcessEnds
<1> QED
  BY ZenonT(40), <1>1, <1>2, <1>3
     DEF Next, Handler, HandlerChance, Forwarder, Sweeper, Process, vars, callerVars, Places,
         Admit, Disconnect, SeeDisconnect, TakeReply, PollEnded, PollDue, Recheck, Expire,
         EndForward, BeginResponse, AbortStream, FailStream, FinishSend, CompleteTask,
         CloseResponse, FailRender, SendFrame, FailFrame, LoseConnection, ClaimForward,
         CallUpstream, CallOnce, CallStream, UpstreamAnswers, ForwardFails, ConfigGone, ParameterRefused, ToolsRefused, AcceptForward, StopForward, TimePasses,
         SweepFault, OpenTask, SubmitReply, DisableUser, EnableUser, SelectOverdue,
         SelectStale, EndSweep, SweepOverdue, SweepStale, Crash, BeginShutdown, CancelBatch,
         EndShutdown, Boot, Serve

LEMMA ActivatedIsFinite ==
  ASSUME NEW u \in Users
  PROVE  IsFiniteSet(Activated(u)) /\ Cardinality(Activated(u)) \in Nat
BY SubsetsOfTasksAreFinite, Activated(u) \subseteq Tasks DEF Activated

\* Ending the tasks of S takes their owners' share of S off the counter.
LEMMA ClosedCounts ==
  ASSUME TypeOK, SlotInv, NEW S \in SUBSET Tasks, NEW to \in TerminalStates, Closed(S, to),
         NEW u \in Users
  PROVE  /\ activeTaskCount'[u] = Cardinality(Activated(u)')
         /\ Activated(u)' \subseteq Activated(u)
<1> DEFINE R == {t \in S : Owner[t] = u}
<1>1. R \subseteq Activated(u)
  BY DEF Closed, Activated
<1>2. Activated(u)' = Activated(u) \ R
  BY DEF Closed, Close, TerminalValues, Activated
<1>3. /\ Cardinality(Activated(u)) \in Nat
      /\ Cardinality(R) \in Nat
      /\ Cardinality(R) <= Cardinality(Activated(u))
      /\ Cardinality(Activated(u) \ R) = Cardinality(Activated(u)) - Cardinality(R)
  <2>1. IsFiniteSet(Activated(u)) /\ Cardinality(Activated(u)) \in Nat
    BY ActivatedIsFinite
  <2>2. Activated(u) \cap R = R
    BY <1>1
  <2> HIDE DEF R
  <2>3. Cardinality(R) \in Nat /\ Cardinality(R) <= Cardinality(Activated(u))
    BY <1>1, <2>1, FS_Subset, FS_CardinalityType
  <2>4. Cardinality(Activated(u) \ R)
          = Cardinality(Activated(u)) - Cardinality(Activated(u) \cap R)
    BY <2>1, FS_Difference
  <2> QED BY <2>1, <2>2, <2>3, <2>4
<1>4. activeTaskCount[u] = Cardinality(Activated(u))
  BY DEF SlotInv
<1>5. activeTaskCount'[u] = IF Cardinality(R) <= activeTaskCount[u]
                              THEN activeTaskCount[u] - Cardinality(R) ELSE 0
  BY DEF Closed, Close, ReleaseSlots
<1> HIDE DEF R
<1> QED BY <1>2, <1>3, <1>4, <1>5

\* Inserting t puts one more on its owner's counter, and nothing on the others'.
LEMMA AdmittedCounts ==
  ASSUME TypeOK, SlotInv, NEW t \in Tasks, pc[t] = "idle", AcquireSlotSets(Owner[t]),
         InsertTask(t), NEW u \in Users
  PROVE  activeTaskCount'[u] = Cardinality(Activated(u)')
<1>1. t \notin Activated(u)
  BY DEF SlotInv, SlotHoldingStates, Activated
<1>2. activeTaskCount[u] = Cardinality(Activated(u))
  BY DEF SlotInv
<1>3. CASE Owner[t] = u
  <2>1. Activated(u)' = Activated(u) \cup {t}
    BY <1>3 DEF Activated, InsertTask, TypeOK, RepositoryTypeOK
  <2>2. Cardinality(Activated(u) \cup {t}) = Cardinality(Activated(u)) + 1
    BY <1>1, ActivatedIsFinite, FS_AddElement
  <2>3. activeTaskCount'[u] = activeTaskCount[u] + 1
    BY <1>3 DEF AcquireSlotSets, TypeOK, RepositoryTypeOK
  <2> QED BY <1>2, <2>1, <2>2, <2>3
<1>4. CASE Owner[t] # u
  <2>1. Activated(u)' = Activated(u)
    BY <1>4 DEF Activated, InsertTask, TypeOK, RepositoryTypeOK
  <2>2. activeTaskCount'[u] = activeTaskCount[u]
    BY <1>4 DEF AcquireSlotSets, TypeOK, RepositoryTypeOK
  <2> QED BY <1>2, <2>1, <2>2
<1> QED BY <1>3, <1>4

\* Disabling u empties its share and leaves the others'.
LEMMA DisabledCounts ==
  ASSUME TypeOK, SlotInv, NEW u \in Users, Disabled(u), NEW v \in Users
  PROVE  /\ activeTaskCount'[v] = Cardinality(Activated(v)')
         /\ v = u => Activated(v)' = {}
         /\ v # u => Activated(v)' = Activated(v)
<1>1. v = u => Activated(v)' = {}
  BY DEF Disabled, TerminalValues, Activated, ActiveRows, SlotInv, SlotHoldingStates,
     TerminalStates
<1>2. v # u => Activated(v)' = Activated(v)
  BY DEF Disabled, TerminalValues, Activated
<1>3. CASE v = u
  BY <1>1, <1>3, FS_EmptySet DEF Disabled, TypeOK, RepositoryTypeOK
<1>4. CASE v # u
  BY <1>2, <1>4 DEF Disabled, TypeOK, RepositoryTypeOK, SlotInv
<1> QED BY <1>1, <1>2, <1>3, <1>4

LEMMA SlotStep ==
  ASSUME TypeOK, SlotInv, SweepInv, [Next]_vars
  PROVE  SlotInv'
<1>1. CASE UNCHANGED <<userVars, state, slotHeld, reply, acceptedBy>>
  <2>1. \A u \in Users : Activated(u)' = Activated(u)
    BY <1>1 DEF Activated
  <2> QED BY <1>1, <2>1, IdleStep DEF SlotInv, userVars
<1>2. ASSUME NEW t \in Tasks, Admitted(t)
      PROVE  SlotInv'
  <2>1. \A x \in Tasks : slotHeld'[x] <=> state'[x] \in SlotHoldingStates
    BY <1>2 DEF Admitted, InsertTask, SlotInv, SlotHoldingStates, TypeOK, RepositoryTypeOK
  <2>2. \A u \in Users : activeTaskCount'[u] = Cardinality(Activated(u)')
    BY <1>2, AdmittedCounts DEF Admitted
  <2>3. \A u \in Users : ~isActive'[u] => Activated(u)' = {}
    BY <1>2 DEF Admitted, SlotInv, AcquireSlotMatches, Activated, InsertTask, TypeOK, RepositoryTypeOK
  <2>4. \A x \in Tasks : pc'[x] = "idle" => state'[x] = "absent"
    BY <1>2, IdleStep DEF Admitted, SlotInv, InsertTask, TypeOK, RepositoryTypeOK
  <2> QED BY <2>1, <2>2, <2>3, <2>4 DEF SlotInv
<1>3. ASSUME NEW t \in Tasks, NEW to \in SlotHoldingStates, state[t] \in SlotHoldingStates,
             Advance(t, to), UNCHANGED <<userVars, slotHeld>>
      PROVE  SlotInv'
  <2>1. \A u \in Users : Activated(u)' = Activated(u)
    BY <1>3 DEF Activated
  <2>2. \A x \in Tasks : slotHeld'[x] <=> state'[x] \in SlotHoldingStates
    BY <1>3 DEF Advance, SlotInv, TypeOK, RepositoryTypeOK
  <2>3. \A x \in Tasks : pc'[x] = "idle" => state'[x] = "absent"
    BY <1>3, IdleStep DEF Advance, SlotInv, SlotHoldingStates, TypeOK, RepositoryTypeOK
  <2> QED BY <1>3, <2>1, <2>2, <2>3 DEF SlotInv, userVars
<1>4. ASSUME NEW S \in SUBSET Tasks, NEW to \in TerminalStates, Closed(S, to)
      PROVE  SlotInv'
  <2>1. \A u \in Users : /\ activeTaskCount'[u] = Cardinality(Activated(u)')
                         /\ Activated(u)' \subseteq Activated(u)
    BY <1>4, ClosedCounts
  <2>2. \A x \in Tasks : slotHeld'[x] <=> state'[x] \in SlotHoldingStates
    BY <1>4 DEF Closed, Close, TerminalValues, SlotInv, SlotHoldingStates, TerminalStates
  <2>3. \A x \in Tasks : pc'[x] = "idle" => state'[x] = "absent"
    BY <1>4, IdleStep DEF Closed, Close, TerminalValues, SlotInv, SlotHoldingStates
  <2>4. \A u \in Users : ~isActive'[u] => Activated(u)' = {}
    BY <1>4, <2>1 DEF Closed, Close, SlotInv
  <2> QED BY <2>1, <2>2, <2>3, <2>4 DEF SlotInv
<1>5. ASSUME NEW u \in Users, Disabled(u)
      PROVE  SlotInv'
  <2>1. \A v \in Users : /\ activeTaskCount'[v] = Cardinality(Activated(v)')
                         /\ v = u => Activated(v)' = {}
                         /\ v # u => Activated(v)' = Activated(v)
    BY <1>5, DisabledCounts
  <2>2. \A x \in Tasks : slotHeld'[x] <=> state'[x] \in SlotHoldingStates
    BY <1>5 DEF Disabled, TerminalValues, ActiveRows, SlotInv, SlotHoldingStates,
       TerminalStates
  <2>3. \A x \in Tasks : pc'[x] = "idle" => state'[x] = "absent"
    BY <1>5, IdleStep DEF Disabled, TerminalValues, ActiveRows, SlotInv, SlotHoldingStates
  <2>4. \A v \in Users : ~isActive'[v] => Activated(v)' = {}
    BY <1>5, <2>1 DEF Disabled, SlotInv, TypeOK, RepositoryTypeOK
  <2> QED BY <2>1, <2>2, <2>3, <2>4 DEF SlotInv
<1>6. ASSUME NEW u \in Users, Enabled(u)
      PROVE  SlotInv'
  <2>1. \A v \in Users : Activated(v)' = Activated(v)
    BY <1>6 DEF Enabled, Activated, rowVars
  <2> QED BY <1>6, <2>1, IdleStep DEF Enabled, SlotInv, rowVars, TypeOK, RepositoryTypeOK
<1>7. ASSUME NEW t \in Tasks, Claimed(t) \/ Started(t) PROVE SlotInv'
  BY <1>3, <1>7 DEF Claimed, Started, SlotHoldingStates
<1>8. ASSUME NEW t \in Tasks, NEW a \in Authors, Answered(t, a) PROVE SlotInv'
  BY <1>3, <1>8 DEF Answered, SlotHoldingStates
<1>9. RowStep BY RowSteps
<1> QED BY <1>1, <1>2, <1>4, <1>5, <1>6, <1>7, <1>8, <1>9 DEF RowStep

LEMMA SlotInit == Init => SlotInv
<1> SUFFICES ASSUME Init PROVE SlotInv
  OBVIOUS
<1>1. \A u \in Users : Activated(u) = {}
  BY DEF Init, RepositoryInit, Activated
<1> QED BY <1>1, FS_EmptySet DEF Init, RepositoryInit, SlotInv, SlotHoldingStates

LEMMA SlotInvariant == Spec => [](TypeOK /\ SlotInv /\ SweepInv)
<1>1. Init => TypeOK /\ SlotInv /\ SweepInv
  BY TypeInit, SlotInit DEF Init, SweepInv
<1>2. TypeOK /\ SlotInv /\ SweepInv /\ [Next]_vars => (TypeOK /\ SlotInv /\ SweepInv)'
  BY TypeStep, SlotStep, SweepStep
<1> QED BY <1>1, <1>2, PTL DEF Spec

\* The counter that admission compares with the limit is the number of the user's
\* unfinished tasks, however many actors end, cancel, sweep, disable and restart.
THEOREM SlotAccountingHolds == Spec => []SlotAccounting
<1>1. TypeOK /\ SlotInv => SlotAccounting
  BY DEF SlotInv, SlotAccounting, Unfinished, Activated
<1> QED BY <1>1, SlotInvariant, PTL

\* A disabled account has no unfinished task: no admission slips past disable_user.
THEOREM DisabledUserHoldsNothingHolds == Spec => []DisabledUserHoldsNothing
<1>1. TypeOK /\ SlotInv => DisabledUserHoldsNothing
  BY DEF SlotInv, DisabledUserHoldsNothing, Unfinished, Activated
<1> QED BY <1>1, SlotInvariant, PTL
============================================================================
