--------------------------- MODULE TaskLifecycle ---------------------------
(***************************************************************************)
(* One request task from admission to its terminal state, with every actor *)
(* that writes its row: the caller's HTTP handler (app/api/inference.py,   *)
(* app/api/task_responses.py), the forwarding worker thread                *)
(* (app/services/forward_runtime.py, llm_forward_service.py), the people   *)
(* who reply (app/services/task_service.py), the periodic sweeper          *)
(* (task_sweeper.py), the administrator who disables an account            *)
(* (user_service.py) and the process itself, which crashes, shuts down and *)
(* restarts (task_lifecycle.py).  They share nothing but the database, so  *)
(* each action is one database transaction, or one read and the decision   *)
(* taken on it; what an actor remembers between two of them is stale.      *)
(***************************************************************************)
EXTENDS TaskRepository

CONSTANTS
  Stream,           \* [Tasks -> BOOLEAN], stream_requested
  NoTask,           \* a submitter that is looking at no task
  MaxRestarts,      \* bound: crashes and shutdowns of the process
  MaxSweepFaults    \* bound: sweeper transactions that raise

ASSUME StreamType == Stream \in [Tasks -> BOOLEAN]
ASSUME NoTaskIsNoTask == NoTask \notin Tasks
ASSUME BoundsType == MaxRestarts \in Nat /\ MaxSweepFaults \in Nat

VARIABLES
  server,         \* the process: starting, serving, stopping, down
  restarts,
  pc,             \* [Tasks -> where the caller's handler is]
  held,           \* [Tasks -> author of the draft the handler loaded]
  received,       \* [Tasks -> what has been sent to the caller]
  connected,      \* [Tasks -> BOOLEAN], the caller's connection is up
  worker,         \* [Tasks -> where run_forward is, or its result]
  workerVersion,  \* [Tasks -> version the worker read before accepting]
  calls,          \* [Tasks -> upstream requests issued]
  reading,        \* [Submitters -> task on screen]
  readVersion,    \* [Submitters -> its version when it was read]
  acceptedBy,     \* [Tasks -> authors told that their reply was accepted]
  sweepPhase,     \* idle, overdue, output
  sweep,          \* [Tasks -> state in the sweeper's list, none, expired]
  sweepFaults

serverVars == <<server, restarts>>
callerVars == <<pc, held, received, connected>>
workerVars == <<worker, workerVersion, calls>>
submitVars == <<reading, readVersion, acceptedBy>>
sweepVars  == <<sweepPhase, sweep, sweepFaults>>
dbVars     == <<userVars, rowVars>>
vars == <<dbVars, serverVars, callerVars, workerVars, submitVars, sweepVars>>

Alive == server \in {"serving", "stopping"}

-----------------------------------------------------------------------------
(* InferenceService.finalize and cancel_caller_disconnected: the terminal  *)
(* write and the slot it gives back, in one transaction, or neither.       *)

Close(S, to) ==
  /\ TerminalValues(S, to)
  /\ ReleaseSlots(S)
  /\ UNCHANGED isActive

Finalize(t, to, sources) ==
  IF FinalizeMatches(t, sources) THEN Close({t}, to) ELSE UNCHANGED dbVars

CancelCaller(t) ==
  IF CancelMatches(t) THEN Close({t}, "cancelled") ELSE UNCHANGED dbVars

-----------------------------------------------------------------------------
(* The caller's handler: _handle, process and _wait_for_reply.             *)

At(t, place) == Alive /\ pc[t] = place
Goto(t, place) == pc' = [pc EXCEPT ![t] = place]
Tell(t, what) == received' = [received EXCEPT ![t] = what]

\* create_task and its commit; an llm key goes straight to the forwarder.
Admit(t) ==
  /\ server = "serving"
  /\ pc[t] = "idle"
  /\ AcquireSlotMatches(Owner[t])
  /\ AcquireSlotSets(Owner[t])
  /\ InsertTask(t)
  /\ connected' = [connected EXCEPT ![t] = TRUE]
  /\ IF Strategy[t] = "llm"
       THEN Goto(t, "forward") /\ worker' = [worker EXCEPT ![t] = "start"]
       ELSE Goto(t, "poll") /\ UNCHANGED worker
  /\ UNCHANGED <<isActive, held, received, workerVersion, calls, serverVars,
                 submitVars, sweepVars>>

Disconnect(t) ==
  /\ Alive
  /\ pc[t] \notin {"idle", "done"}
  /\ connected[t]
  /\ connected' = [connected EXCEPT ![t] = FALSE]
  /\ UNCHANGED <<dbVars, serverVars, pc, held, received, workerVars,
                 submitVars, sweepVars>>

\* The poll of is_disconnected, in the wait loop and around it.
SeeDisconnect(t) ==
  /\ Alive
  /\ pc[t] \in {"poll", "recheck", "expire", "forward"}
  /\ ~connected[t]
  /\ CancelCaller(t)
  /\ Tell(t, "closed")
  /\ Goto(t, "done")
  /\ UNCHANGED <<serverVars, held, connected, workerVars, submitVars, sweepVars>>

\* A stored reply is found: by the loop, by the reload after a fallback, or by
\* the second look before the timeout.
TakeReply(t) ==
  /\ Alive
  /\ pc[t] \in {"poll", "recheck"}
  /\ state[t] = "response_ready"
  /\ reply[t] # NoReply
  /\ held' = [held EXCEPT ![t] = reply[t]]
  /\ Goto(t, "outcome")
  /\ UNCHANGED <<dbVars, serverVars, received, connected, workerVars, submitVars,
                 sweepVars>>

\* Mutant: the loop does not look for a cancelled row.
MutPollOutcome == [timed_out |-> "timeout", failed |-> "error"]

PollOutcome == [timed_out |-> "timeout", failed |-> "error", cancelled |-> "closed"]

PollEnded(t) ==
  /\ At(t, "poll")
  /\ state[t] \in DOMAIN PollOutcome
  /\ Tell(t, PollOutcome[state[t]])
  /\ Goto(t, "done")
  /\ UNCHANGED <<dbVars, serverVars, held, connected, workerVars, submitVars, sweepVars>>

PollDue(t) ==
  /\ At(t, "poll")
  /\ state[t] = "waiting_human"
  /\ age[t] >= PastDue
  /\ IF Strategy[t] = "human_fallback_llm"
       THEN Goto(t, "forward") /\ worker' = [worker EXCEPT ![t] = "start"]
       ELSE Goto(t, "recheck") /\ UNCHANGED worker
  /\ UNCHANGED <<dbVars, serverVars, held, received, connected, workerVersion, calls,
                 submitVars, sweepVars>>

\* The second look: still waiting, so the next transaction is the timeout; or
\* somebody else moved the task, so back to the loop.
Recheck(t) ==
  /\ At(t, "recheck")
  /\ state[t] # "response_ready"
  /\ Goto(t, IF state[t] = "waiting_human" THEN "expire" ELSE "poll")
  /\ UNCHANGED <<dbVars, serverVars, held, received, connected, workerVars, submitVars,
                 sweepVars>>

\* Mutant: the timeout without its allowed_sources.
MutExpire(t) ==
  /\ At(t, "expire")
  /\ Finalize(t, "timed_out", TaskState)
  /\ Tell(t, "timeout")
  /\ Goto(t, "done")
  /\ UNCHANGED <<serverVars, held, connected, workerVars, submitVars, sweepVars>>

\* The result of _finalize is not looked at: the caller gets its 504 whether or
\* not the row was still waiting.
Expire(t) ==
  /\ At(t, "expire")
  /\ Finalize(t, "timed_out", {"waiting_human"})
  /\ Tell(t, "timeout")
  /\ Goto(t, "done")
  /\ UNCHANGED <<serverVars, held, connected, workerVars, submitVars, sweepVars>>

-----------------------------------------------------------------------------
(* run_forward: claim, call, accept, each in its own transaction.          *)

ForwardResults == {"accepted", "lost", "failed", "unsupported"}
Becomes(t, w) == worker' = [worker EXCEPT ![t] = w]

ClaimForward(t) ==
  /\ Alive
  /\ worker[t] = "start"
  /\ IF ClaimFallbackMatches(t)
       THEN ClaimFallbackSets(t) /\ Becomes(t, "claimed")
       ELSE UNCHANGED rowVars /\ Becomes(t, "lost")
  /\ UNCHANGED <<userVars, serverVars, callerVars, workerVersion, calls, submitVars,
                 sweepVars>>

\* One request, answered as a whole, or one stream that is read to its end.
CallOnce(t)   == ~Stream[t] /\ calls' = [calls EXCEPT ![t] = @ + 1]
CallStream(t) == Stream[t] /\ calls' = [calls EXCEPT ![t] = @ + 1]

\* resolve_config succeeded and its read transaction is over.
CallUpstream(t) ==
  /\ Alive
  /\ worker[t] = "claimed"
  /\ Becomes(t, "calling")
  /\ CallOnce(t) \/ CallStream(t)
  /\ UNCHANGED <<dbVars, serverVars, callerVars, workerVersion, submitVars, sweepVars>>

\* A usable answer; the version is read again, in a statement of its own.
UpstreamAnswers(t) ==
  /\ Alive
  /\ worker[t] = "calling"
  /\ Becomes(t, "answered")
  /\ workerVersion' = [workerVersion EXCEPT ![t] = version[t]]
  /\ UNCHANGED <<dbVars, serverVars, callerVars, calls, submitVars, sweepVars>>

\* resolve_config: the configuration is gone or switched off.
ConfigGone(t) == worker[t] = "claimed" /\ Becomes(t, "failed")

\* build_upstream_request: the target protocol has no such parameter.
ParameterRefused(t) == worker[t] = "claimed" /\ Becomes(t, "unsupported")

\* validate_full: the tool calls of the answer are not the caller's to make.
ToolsRefused(t) == worker[t] = "calling" /\ Becomes(t, "failed")

\* ... or the upstream failed or took too long, or the database raised, before
\* the claim too.
ForwardFails(t) ==
  /\ Alive
  /\ \/ worker[t] \in {"start", "claimed", "calling", "answered"} /\ Becomes(t, "failed")
     \/ ConfigGone(t) \/ ParameterRefused(t) \/ ToolsRefused(t)
  /\ UNCHANGED <<dbVars, serverVars, callerVars, workerVersion, calls, submitVars,
                 sweepVars>>

AcceptForward(t) ==
  /\ Alive
  /\ worker[t] = "answered"
  /\ IF AcceptForwardMatches(t, workerVersion[t])
       THEN /\ AcceptForwardSets(t)
            /\ acceptedBy' = [acceptedBy EXCEPT ![t] = @ \cup {Llm}]
            /\ Becomes(t, "accepted")
       ELSE UNCHANGED <<rowVars, acceptedBy>> /\ Becomes(t, "lost")
  /\ UNCHANGED <<userVars, serverVars, callerVars, workerVersion, calls, reading,
                 readVersion, sweepVars>>

\* The monitor in _execute: the row ended, or the handler asked it to stop.
StopForward(t) ==
  /\ Alive
  /\ worker[t] \in {"start", "claimed", "calling"}
  /\ state[t] \in TerminalStates \/ pc[t] = "done"
  /\ Becomes(t, "lost")
  /\ UNCHANGED <<dbVars, serverVars, callerVars, workerVersion, calls, submitVars,
                 sweepVars>>

\* The handler gets the result: _run_direct_forward returns to the loop,
\* _run_fallback to the second look; a refused parameter is the caller's 400.
\* _reject_unsupported_forward finalizes once more, from any state.
EndForward(t) ==
  /\ At(t, "forward")
  /\ worker[t] \in ForwardResults
  /\ Becomes(t, "idle")
  /\ CASE worker[t] = "failed"      -> Finalize(t, "failed", {"forwarding_llm"})
       [] worker[t] = "unsupported" -> Finalize(t, "failed", TaskState)
       [] OTHER                     -> UNCHANGED dbVars
  /\ IF worker[t] = "unsupported"
       THEN Goto(t, "done") /\ Tell(t, "error")
       ELSE /\ Goto(t, IF Strategy[t] = "llm" THEN "poll" ELSE "recheck")
            /\ UNCHANGED received
  /\ UNCHANGED <<serverVars, held, connected, workerVersion, calls, submitVars, sweepVars>>

-----------------------------------------------------------------------------
(* TaskJSONResponse, TaskEventSourceResponse and the _stream generator.    *)

\* A body that is not streamed is rendered before the response begins.  What cannot
\* be rendered, above all an unusable answer to the decision protocol, is a 500, and
\* the row is left as it is.
FailRender(t) ==
  /\ At(t, "outcome")
  /\ ~Stream[t]
  /\ Tell(t, "error")
  /\ Goto(t, "done")
  /\ UNCHANGED <<dbVars, serverVars, held, connected, workerVars, submitVars, sweepVars>>

\* _mark_responding; when it loses, a stream sends its error frame and ends
\* normally, a JSON response raises.
BeginResponse(t) ==
  /\ At(t, "outcome")
  /\ IF StartResponseMatches(t)
       THEN StartResponseSets(t) /\ Goto(t, "sending") /\ UNCHANGED received
       ELSE /\ UNCHANGED rowVars
            /\ Tell(t, "error")
            /\ Goto(t, IF Stream[t] THEN "sent" ELSE "closing")
  /\ UNCHANGED <<userVars, serverVars, held, connected, workerVars, submitVars, sweepVars>>

\* A frame goes out if the row is still responding when it is looked at.
SendFrame(t) ==
  /\ At(t, "sending")
  /\ Stream[t]
  /\ state[t] = "responding"
  /\ Tell(t, "partial")
  /\ UNCHANGED <<dbVars, serverVars, pc, held, connected, workerVars, submitVars,
                 sweepVars>>

AbortStream(t) ==
  /\ At(t, "sending")
  /\ Stream[t]
  /\ state[t] # "responding"
  /\ Tell(t, "error")
  /\ Goto(t, "sent")
  /\ UNCHANGED <<dbVars, serverVars, held, connected, workerVars, submitVars, sweepVars>>

\* A frame cannot be rendered: the error frame goes out, then the row fails.
FailFrame(t) ==
  /\ At(t, "sending")
  /\ Stream[t]
  /\ Tell(t, "error")
  /\ Goto(t, "failing")
  /\ UNCHANGED <<dbVars, serverVars, held, connected, workerVars, submitVars, sweepVars>>

FailStream(t) ==
  /\ At(t, "failing")
  /\ Finalize(t, "failed", TaskState)
  /\ Goto(t, "sent")
  /\ UNCHANGED <<serverVars, held, received, connected, workerVars, submitVars, sweepVars>>

\* The last byte: the JSON body, or the end of a stream whose last frame passed.
FinishSend(t) ==
  /\ At(t, "sending")
  /\ Stream[t] => state[t] = "responding"
  /\ Tell(t, "reply")
  /\ Goto(t, "sent")
  /\ UNCHANGED <<dbVars, serverVars, held, connected, workerVars, submitVars, sweepVars>>

\* Mutant: the response completes the task whether or not its end was sent.
MutLoseConnection(t) ==
  /\ Alive
  /\ pc[t] \in {"sending", "failing"}
  /\ ~connected[t]
  /\ Goto(t, "sent")
  /\ UNCHANGED <<dbVars, serverVars, held, received, connected, workerVars, submitVars,
                 sweepVars>>

\* The transport reports the closed connection while the response is sent.
LoseConnection(t) ==
  /\ Alive
  /\ pc[t] \in {"sending", "failing"}
  /\ ~connected[t]
  /\ Goto(t, "closing")
  /\ UNCHANGED <<dbVars, serverVars, held, received, connected, workerVars, submitVars,
                 sweepVars>>

CompleteTask(t) ==
  /\ At(t, "sent")
  /\ Finalize(t, "completed", {"response_ready", "responding"})
  /\ Goto(t, "closing")
  /\ UNCHANGED <<serverVars, held, received, connected, workerVars, submitVars, sweepVars>>

\* The finally clause of both responses.
CloseResponse(t) ==
  /\ At(t, "closing")
  /\ CancelCaller(t)
  /\ Goto(t, "done")
  /\ UNCHANGED <<serverVars, held, received, connected, workerVars, submitVars, sweepVars>>

-----------------------------------------------------------------------------
(* People: the web workbench and the IM inbound path both read the row,    *)
(* then submit against the version they read.                              *)

OpenTask(s, t) ==
  /\ Alive
  /\ reading[s] = NoTask
  /\ isActive[Owner[t]]
  /\ state[t] = "waiting_human"
  /\ reading' = [reading EXCEPT ![s] = t]
  /\ readVersion' = [readVersion EXCEPT ![s] = version[t]]
  /\ UNCHANGED <<dbVars, serverVars, callerVars, workerVars, acceptedBy, sweepVars>>

SubmitReply(s, t) ==
  /\ Alive
  /\ reading[s] = t
  /\ IF FirstReplyMatches(t, readVersion[s])
       THEN /\ FirstReplySets(t, s)
            /\ acceptedBy' = [acceptedBy EXCEPT ![t] = @ \cup {s}]
       ELSE UNCHANGED <<rowVars, acceptedBy>>
  /\ reading' = [reading EXCEPT ![s] = NoTask]
  /\ readVersion' = [readVersion EXCEPT ![s] = 0]
  /\ UNCHANGED <<userVars, serverVars, callerVars, workerVars, sweepVars>>

-----------------------------------------------------------------------------
(* TaskSweeper.sweep_once: a list of rows is read, then each row is        *)
(* finalized in a transaction of its own against the state it was read in. *)

Overdue(t) ==
  /\ slotHeld[t]
  /\ \/ /\ state[t] = "waiting_human"
        /\ age[t] >= IF Strategy[t] = "human" THEN PastDue ELSE PastGrace
     \/ state[t] = "forwarding_llm" /\ age[t] = PastGrace

\* Mutant: a reply nobody began to send is forgotten.
MutStaleOutput(t) ==
  slotHeld[t] /\ state[t] = "responding" /\ age[t] = PastGrace

StaleOutput(t) ==
  /\ slotHeld[t]
  /\ state[t] \in {"response_ready", "responding"}
  /\ age[t] = PastGrace

\* Mutant: a forwarding that takes too long counts as a human timeout.
MutSweepTarget(t, seen) == IF Strategy[t] = "llm" THEN "failed" ELSE "timed_out"

SweepTarget(t, seen) ==
  IF seen = "forwarding_llm" \/ Strategy[t] = "llm" THEN "failed" ELSE "timed_out"

SweepListEmpty == \A t \in Tasks : sweep[t] = "none"

SelectOverdue ==
  /\ server = "serving"
  /\ sweepPhase = "idle"
  /\ sweepPhase' = "overdue"
  /\ sweep' = [t \in Tasks |-> IF Overdue(t) THEN state[t] ELSE "none"]
  /\ UNCHANGED <<dbVars, serverVars, callerVars, workerVars, submitVars, sweepFaults>>

\* After a rollback the session reloads what is left of the list: such an entry
\* is finalized against the state the row has now.
SweepSource(t) == IF sweep[t] = "expired" THEN state[t] ELSE sweep[t]

SweepOverdue(t) ==
  /\ Alive
  /\ sweepPhase = "overdue"
  /\ sweep[t] # "none"
  /\ Finalize(t, SweepTarget(t, SweepSource(t)), {SweepSource(t)})
  /\ sweep' = [sweep EXCEPT ![t] = "none"]
  /\ UNCHANGED <<serverVars, callerVars, workerVars, submitVars, sweepPhase, sweepFaults>>

SelectStale ==
  /\ Alive
  /\ sweepPhase = "overdue"
  /\ SweepListEmpty
  /\ sweepPhase' = "output"
  /\ sweep' = [t \in Tasks |-> IF StaleOutput(t) THEN state[t] ELSE "none"]
  /\ UNCHANGED <<dbVars, serverVars, callerVars, workerVars, submitVars, sweepFaults>>

\* Mutant: stale output is timed out, not cancelled.
MutSweepStale(t) ==
  /\ Alive
  /\ sweepPhase = "output"
  /\ sweep[t] # "none"
  /\ Finalize(t, "timed_out", TaskState)
  /\ sweep' = [sweep EXCEPT ![t] = "none"]
  /\ UNCHANGED <<serverVars, callerVars, workerVars, submitVars, sweepPhase, sweepFaults>>

SweepStale(t) ==
  /\ Alive
  /\ sweepPhase = "output"
  /\ sweep[t] # "none"
  /\ CancelCaller(t)
  /\ sweep' = [sweep EXCEPT ![t] = "none"]
  /\ UNCHANGED <<serverVars, callerVars, workerVars, submitVars, sweepPhase, sweepFaults>>

\* The transaction of one entry raises and is rolled back, which expires every
\* object of the session (expire_on_commit=False concerns commits only).
SweepFault(t) ==
  /\ Alive
  /\ sweepFaults < MaxSweepFaults
  /\ sweep[t] # "none"
  /\ sweep' = [x \in Tasks |-> IF x = t \/ sweep[x] = "none" THEN "none" ELSE "expired"]
  /\ sweepFaults' = sweepFaults + 1
  /\ UNCHANGED <<dbVars, serverVars, callerVars, workerVars, submitVars, sweepPhase>>

EndSweep ==
  /\ Alive
  /\ sweepPhase = "output"
  /\ SweepListEmpty
  /\ sweepPhase' = "idle"
  /\ UNCHANGED <<dbVars, serverVars, callerVars, workerVars, submitVars, sweep,
                 sweepFaults>>

-----------------------------------------------------------------------------
(* Administration, time and the process.                                   *)

\* One transaction: the account, its active rows and its counter.
DisableUser(u) ==
  /\ Alive
  /\ isActive[u]
  /\ isActive' = [isActive EXCEPT ![u] = FALSE]
  /\ TerminalValues({t \in ActiveRows : Owner[t] = u}, "cancelled")
  /\ activeTaskCount' = [activeTaskCount EXCEPT ![u] = 0]
  /\ UNCHANGED <<serverVars, callerVars, workerVars, submitVars, sweepVars>>

EnableUser(u) ==
  /\ Alive
  /\ ~isActive[u]
  /\ isActive' = [isActive EXCEPT ![u] = TRUE]
  /\ UNCHANGED <<activeTaskCount, rowVars, serverVars, callerVars, workerVars, submitVars,
                 sweepVars>>

TimePasses(t) ==
  /\ slotHeld[t]
  /\ age[t] < PastGrace
  /\ age' = [age EXCEPT ![t] = IF state[t] = "waiting_human" THEN @ + 1 ELSE PastGrace]
  /\ UNCHANGED <<userVars, state, version, slotHeld, reply, serverVars, callerVars,
                 workerVars, submitVars, sweepVars>>

\* Everything the process held in memory is gone.
ProcessEnds ==
  /\ server' = "down"
  /\ pc' = [t \in Tasks |-> IF pc[t] = "idle" THEN "idle" ELSE "done"]
  /\ worker' = [t \in Tasks |-> "idle"]
  /\ reading' = [s \in Submitters |-> NoTask]
  /\ readVersion' = [s \in Submitters |-> 0]
  /\ sweepPhase' = "idle"
  /\ sweep' = [t \in Tasks |-> "none"]
  /\ UNCHANGED <<dbVars, held, received, connected, workerVersion, calls, acceptedBy,
                 sweepFaults>>

Crash ==
  /\ server # "down"
  /\ restarts < MaxRestarts
  /\ restarts' = restarts + 1
  /\ ProcessEnds

\* The lifespan's finally clause begins: no request is admitted, no sweep starts.
BeginShutdown ==
  /\ server = "serving"
  /\ restarts < MaxRestarts
  /\ restarts' = restarts + 1
  /\ server' = "stopping"
  /\ UNCHANGED <<dbVars, callerVars, workerVars, submitVars, sweepVars>>

\* One committed batch of cancel_active_tasks.
CancelBatch ==
  /\ server \in {"starting", "stopping"}
  /\ \E S \in SUBSET ActiveRows :
       /\ S # {}
       /\ Close(S, "cancelled")
  /\ UNCHANGED <<serverVars, callerVars, workerVars, submitVars, sweepVars>>

EndShutdown ==
  /\ server = "stopping"
  /\ ActiveRows = {}
  /\ ProcessEnds
  /\ UNCHANGED restarts

Boot ==
  /\ server = "down"
  /\ server' = "starting"
  /\ UNCHANGED <<dbVars, restarts, callerVars, workerVars, submitVars, sweepVars>>

Serve ==
  /\ server = "starting"
  /\ ActiveRows = {}
  /\ server' = "serving"
  /\ UNCHANGED <<dbVars, restarts, callerVars, workerVars, submitVars, sweepVars>>

-----------------------------------------------------------------------------
Init ==
  /\ RepositoryInit
  /\ server        = "starting"
  /\ restarts      = 0
  /\ pc            = [t \in Tasks |-> "idle"]
  /\ held          = [t \in Tasks |-> NoReply]
  /\ received      = [t \in Tasks |-> "nothing"]
  /\ connected     = [t \in Tasks |-> FALSE]
  /\ worker        = [t \in Tasks |-> "idle"]
  /\ workerVersion = [t \in Tasks |-> 0]
  /\ calls         = [t \in Tasks |-> 0]
  /\ reading       = [s \in Submitters |-> NoTask]
  /\ readVersion   = [s \in Submitters |-> 0]
  /\ acceptedBy    = [t \in Tasks |-> {}]
  /\ sweepPhase    = "idle"
  /\ sweep         = [t \in Tasks |-> "none"]
  /\ sweepFaults   = 0

\* What the handler does of its own accord.
Handler(t) ==
  \/ SeeDisconnect(t) \/ TakeReply(t) \/ PollEnded(t) \/ PollDue(t)
  \/ Recheck(t) \/ Expire(t) \/ EndForward(t)
  \/ BeginResponse(t) \/ AbortStream(t) \/ FailStream(t) \/ FinishSend(t)
  \/ CompleteTask(t) \/ CloseResponse(t)

\* What may go wrong while it sends, or need not happen.
HandlerChance(t) ==
  \/ FailRender(t) \/ SendFrame(t) \/ FailFrame(t) \/ LoseConnection(t)

Forwarder(t) ==
  \/ ClaimForward(t) \/ CallUpstream(t) \/ UpstreamAnswers(t) \/ ForwardFails(t)
  \/ AcceptForward(t) \/ StopForward(t)

Sweeper ==
  \/ SelectOverdue \/ SelectStale \/ EndSweep
  \/ \E t \in Tasks : SweepOverdue(t) \/ SweepStale(t)

Process ==
  \/ Crash \/ BeginShutdown \/ CancelBatch \/ EndShutdown \/ Boot \/ Serve

Next ==
  \/ \E t \in Tasks :
       Admit(t) \/ Disconnect(t) \/ Handler(t) \/ HandlerChance(t) \/ Forwarder(t)
         \/ TimePasses(t) \/ SweepFault(t)
  \/ \E s \in Submitters, t \in Tasks : OpenTask(s, t) \/ SubmitReply(s, t)
  \/ \E u \in Users : DisableUser(u) \/ EnableUser(u)
  \/ Sweeper
  \/ Process

Spec == Init /\ [][Next]_vars

\* The caller's handler and its worker thread are scheduled and time passes:
\* nothing is asked of people, the sweeper or the process, which may crash.
HandlersServed ==
  \A t \in Tasks :
    WF_vars(Handler(t)) /\ WF_vars(Forwarder(t)) /\ WF_vars(TimePasses(t))

\* The sweeper's period comes round and a process that ended is started again.
\* Nothing is asked of the caller's handler: it may be stuck or lost.
SweeperRuns ==
  /\ WF_vars(Sweeper)
  /\ \A t \in Tasks : WF_vars(TimePasses(t))
  /\ WF_vars(CancelBatch) /\ WF_vars(EndShutdown) /\ WF_vars(Boot) /\ WF_vars(Serve)

-----------------------------------------------------------------------------
(* Properties.                                                             *)

Unfinished(u) == {t \in Tasks : Owner[t] = u /\ state[t] \in SlotHoldingStates}

Places == {"idle", "poll", "forward", "recheck", "expire", "outcome", "sending",
           "failing", "sent", "closing", "done"}

Messages == {"nothing", "partial", "reply", "timeout", "error", "closed"}

WorkerPlaces == {"idle", "start", "claimed", "calling", "answered"} \cup ForwardResults

ServerTypeOK ==
  /\ server   \in {"starting", "serving", "stopping", "down"}
  /\ restarts \in 0 .. MaxRestarts

CallerTypeOK ==
  /\ pc        \in [Tasks -> Places]
  /\ held      \in [Tasks -> Authors \cup {NoReply}]
  /\ received  \in [Tasks -> Messages]
  /\ connected \in [Tasks -> BOOLEAN]

WorkerTypeOK ==
  /\ worker        \in [Tasks -> WorkerPlaces]
  /\ workerVersion \in [Tasks -> Nat]
  /\ calls         \in [Tasks -> Nat]

SubmitTypeOK ==
  /\ reading     \in [Submitters -> Tasks \cup {NoTask}]
  /\ readVersion \in [Submitters -> Nat]
  /\ acceptedBy  \in [Tasks -> SUBSET Authors]

SweepTypeOK ==
  /\ sweepPhase  \in {"idle", "overdue", "output"}
  /\ sweep       \in [Tasks -> RowState \cup {"none", "expired"}]
  /\ sweepFaults \in 0 .. MaxSweepFaults

\* Every variable keeps its type: the columns, the handler's place, the worker's
\* progress, the snapshots that people and the sweeper act on.
TypeOK ==
  /\ RepositoryTypeOK
  /\ ServerTypeOK
  /\ CallerTypeOK
  /\ WorkerTypeOK
  /\ SubmitTypeOK
  /\ SweepTypeOK

\* The counter that admission compares with the limit is the number of the
\* user's unfinished tasks, whoever ended the others and however many actors
\* tried to (finalize, cancel_caller_disconnected, disable_user, restart).
SlotAccounting ==
  \A u \in Users : activeTaskCount[u] = Cardinality(Unfinished(u))

\* A disabled account has nothing left running: no request was admitted after
\* disable_user, none of its tasks survived it.
DisabledUserHoldsNothing ==
  \A u \in Users : ~isActive[u] => Unfinished(u) = {}

\* Of all the people and the forwarder that answer one task, at most one is told
\* that its reply was accepted, and that reply is the one stored
\* (first_reply_wins, accept_forward_reply).
SingleAcceptedReply ==
  \A t \in Tasks : acceptedBy[t] = IF reply[t] = NoReply THEN {} ELSE {reply[t]}

\* What the caller got to its last byte is the stored reply, although the handler
\* loaded it two transactions before it began to send.
CallerGetsStoredReply ==
  \A t \in Tasks : received[t] = "reply" => reply[t] # NoReply /\ held[t] = reply[t]

\* A task is completed only when its caller was sent a whole reply
\* (TaskJSONResponse, TaskEventSourceResponse).
CompletedMeansDelivered ==
  \A t \in Tasks : state[t] = "completed" => received[t] = "reply"

\* One upstream call per task, and none for a task that a person answered:
\* claim_fallback is the only entry to the forwarder.
HumanAnswerCostsNoCall ==
  \A t \in Tasks : calls[t] <= 1 /\ (reply[t] \in Submitters => calls[t] = 0)

\* "An upstream failure ends in FAILED, it is not passed off as a human timeout"
\* (_run_fallback): neither in the row nor in what the caller is told.
UpstreamFailureIsNotATimeout ==
  \A t \in Tasks : calls[t] > 0 => state[t] # "timed_out" /\ received[t] # "timeout"

\* Every write of the state column, by whichever UPDATE, is an arrow of the
\* declared state machine, so a terminal state is final.
TransitionsAllowed ==
  [][\A t \in Tasks :
       state'[t] # state[t] =>
         \/ state[t] = "absent" /\ state'[t] = "waiting_human"
         \/ CanTransition(state[t], state'[t])]_vars

\* How a row looks to the promise made in TaskContract.
PhaseOf(s) ==
  CASE s = "absent"                                         -> "absent"
    [] s \in {"received", "waiting_human", "forwarding_llm"} -> "open"
    [] s \in {"response_ready", "responding"}                -> "answered"
    [] s \in TerminalStates                                 -> "done"

VerdictOf(s) == IF s \in TerminalStates THEN s ELSE "none"

Contract ==
  INSTANCE TaskContract WITH
    Answers  <- Authors,
    NoAnswer <- NoReply,
    Limit    <- MaxActiveTasks,
    enabled  <- isActive,
    phase    <- [t \in Tasks |-> PhaseOf(state[t])],
    answer   <- reply,
    verdict  <- [t \in Tasks |-> VerdictOf(state[t])]

\* The rows, the counter and the conditional UPDATEs keep the promise: at most
\* MaxActiveTasks really unfinished tasks, the first answer stays, the verdict
\* fits the phase it was given in, disabling an account ends its tasks.
ImplementsContract == Contract!Spec

\* A late timeout never overwrites what arrived in between: rows become
\* timed_out only from waiting_human.
LateTimeoutOverwritesNothing ==
  [][\A t \in Tasks :
       state'[t] = "timed_out" /\ state[t] # "timed_out" => state[t] = "waiting_human"]_vars

\* A caller that is told of a timeout has no accepted reply in the database: a
\* person who won the race has the reply returned.
TimeoutMeansNoReply ==
  \A t \in Tasks : received[t] = "timeout" => acceptedBy[t] = {}

\* Whatever becomes of its handler and its process, an admitted task ends and
\* gives its slot back, if only the sweeper runs.
Converges ==
  SweeperRuns =>
    \A t \in Tasks : pc[t] # "idle" ~> state[t] \in TerminalStates

\* Every caller's request comes to an end, without help from the sweeper or from
\* people, if only its handler is served.
CallersAnswered ==
  HandlersServed =>
    \A t \in Tasks : pc[t] # "idle" ~> pc[t] = "done"
=============================================================================
