------------------------- MODULE ConnectionRuntime -------------------------
(***************************************************************************)
(* One IM connection: its row, the supervisor tasks and connectors that     *)
(* run it, the HTTP requests and the watchdog that start and stop it.       *)
(*                                                                         *)
(* Everything below runs on one event loop, so a step is what happens       *)
(* between two suspensions.  No start() of the six connectors suspends: a   *)
(* supervisor goes from the head of its loop to wait_closed() in one step.  *)
(* stop() of the three client connectors suspends; while it does, requests, *)
(* the watchdog, the supervisor and the connector's thread interleave.      *)
(***************************************************************************)
EXTENDS Naturals, FiniteSets

CONSTANTS
  Scenarios,     \* the platform, and bounds: the requests a behaviour issues and
                 \* the dropped connections, crashes and shutdowns it meets
  Requests,      \* HTTP requests in flight at the same time
  MaxSups,       \* supervisor tasks, alive or leaked, that can exist at once
  None

AllPlatforms == {"lark", "wecom_ilink", "wecom_aibot", "webhook", "websocket", "http_poll"}

ASSUME ScenariosAreBounded ==
  /\ MaxSups \in Nat \ {0}
  /\ \A c \in Scenarios : c.platform \in AllPlatforms /\ c.ops \in Nat /\ c.faults \in Nat
ASSUME NoneIsNoSupervisor == None \notin Nat

Sups   == 1..MaxSups
Actors == Requests \cup {"watchdog", "binder", "lifespan"}

ASSUME NamesDiffer == Requests \cap {"watchdog", "binder", "lifespan", None} = {}

VARIABLES
  platform,
  row,          \* the committed im_connections row
  changed,      \* its updated_at differs from the snapshot the watchdog works on
  slot,         \* _tasks[id]: the registered supervisor
  instance,     \* _instances[id]: whose connector is registered
  stopping,     \* id \in _stopping
  sup,          \* [Sups -> where the supervisor is]
  conn,         \* [Sups -> its connector and the connector's thread]
  loopOwner,    \* LarkConnector._active_instance
  login,        \* a login connector with a pending QR code is cached
  act,          \* [Actors -> the operation in progress]
  lock,         \* who holds SQLite's write lock across a suspension
  server,
  ops, faults   \* requests and faults still to come

vars == <<platform, row, changed, slot, instance, stopping, sup, conn,
          loopOwner, login, act, lock, server, ops, faults>>

registry == <<slot, instance, stopping>>
bounds   == <<ops, faults>>

----------------------------------------------------------------------------
(* The platforms of the registry. *)

Client          == platform \in {"lark", "wecom_ilink", "wecom_aibot"}
RequiresBinding == Client
BindingCommand  == platform \notin {"wecom_ilink", "http_poll"}
SupportsLogin   == platform = "wecom_ilink"
GatewayToken    == ~Client

\* join of the thread, wait for the SDK's task: the others return at once.
StopSuspends == Client

\* Mutant: the check of _active_instance is left out.
MutStartOutcomes == {"ok"}

\* What connector.start() can come to; "config" is the loop another Lark
\* instance of the process holds.
StartOutcomes ==
  IF platform = "lark" /\ loopOwner # None THEN {"config"} ELSE {"ok"}

\* deliver() and health() look at the thread only where there is one.
Healthy(s) == Client \/ conn[s] # "closed"

ThreadAlive(s) == conn[s] \in {"open", "closing", "hung"}

----------------------------------------------------------------------------
(* The row. *)

States == {"stopped", "starting", "online", "error", "auth_required"}

Row == [exists : BOOLEAN, desired : BOOLEAN, state : States, bound : BOOLEAN,
        code : {"none", "valid", "expired"}]

\* What create() inserts.
NewConnection ==
  [exists |-> TRUE, desired |-> FALSE, state |-> "stopped", bound |-> FALSE, code |-> "none"]

\* updated_at only matters to a watchdog that has a snapshot.
Watched == act["watchdog"].at # "idle"

\* A flush writes the attributes that differ from what the session loaded.
Merged(base, loaded, new) ==
  [f \in DOMAIN base |-> IF new[f] # loaded[f] THEN new[f] ELSE base[f]]

Flush(loaded, new) ==
  /\ row' = Merged(row, loaded, new)
  /\ changed' = IF new # loaded THEN Watched ELSE changed

\* runtime_state_recorder with apply_runtime_patch, as _record calls it: what
\* it raises is dropped, and it raises when a transaction keeps the write lock:
\* that of poll_login, or of any request that is between its flush and its commit.
Record(state) ==
  \/ /\ row.exists /\ lock = None
     /\ row' = [row EXCEPT !.state = state]
     /\ changed' = Watched
  \/ /\ ~row.exists \/ lock # None \/ \E r \in Requests : act[r].at = "commit"
     /\ UNCHANGED <<row, changed>>

----------------------------------------------------------------------------
(* ConnectionManager. *)

Idle == [op |-> "none", at |-> "idle", loaded |-> NewConnection, taken |-> None, task |-> None]

Live(s) == s # None /\ sup[s] \in {"ready", "online", "closing", "backoff"}

Unused(s) ==
  /\ sup[s] = "none" /\ ~ThreadAlive(s)
  /\ s \notin {instance, loopOwner}
  /\ \A a \in Actors : s \notin {act[a].taken, act[a].task}

\* The new task takes the least free name.
Register ==
  \E s \in Sups :
    /\ Unused(s) /\ \A r \in Sups : Unused(r) => s <= r
    /\ slot' = s
    /\ sup' = [sup EXCEPT ![s] = "ready"]

\* start(): a live supervisor is left alone, whatever it is about to do.
ManagerStart ==
  IF Live(slot)
  THEN UNCHANGED <<slot, stopping, sup>>
  ELSE Register /\ stopping' = FALSE

Goto(a, at) == act' = [act EXCEPT ![a].at = at]
Done(a)     == act' = [act EXCEPT ![a] = Idle]
\* What was loaded is not looked at any more.
Leave(a, at) == act' = [act EXCEPT ![a].at = at, ![a].loaded = NewConnection]

\* What the caller of stop() does before it suspends again; base is the row
\* as this step has left it so far.
Resume(a, e, at) ==
  act' = [act EXCEPT ![a] =
            IF at = "idle" THEN Idle ELSE [e EXCEPT !.at = at, !.taken = None, !.task = None]]

Forget == slot' = None /\ UNCHANGED sup

Restarted(a, e, base) ==
  /\ e.op \in {"rotate", "poll"}
  /\ Register
  /\ Resume(a, e, IF e.op = "poll" THEN "commit" ELSE "idle")
  /\ row' = base /\ UNCHANGED login

Stopped(a, e, base) ==
  /\ \/ /\ e.op = "stop" \/ (e.op = "apply" /\ ~e.loaded.desired)
        /\ Resume(a, e, "idle") /\ UNCHANGED login
     \/ /\ e.op = "apply" /\ e.loaded.desired
        /\ Resume(a, [e EXCEPT !.op = "reapply"], "commit") /\ UNCHANGED login
     \/ /\ e.op \in {"delete", "cancel"}
        /\ Resume(a, e, "commit") /\ login' = FALSE
     \/ /\ e.op = "stop_all"
        /\ Resume(a, e, "halt") /\ UNCHANGED login
  /\ Forget /\ row' = base

\* The inbound handler and the watchdog (for a listener nobody answered) write
\* STOPPED over whatever the state is now.
ListenerStopped(a, e, base) ==
  /\ e.op \in {"bound", "expire"}
  /\ Forget
  /\ row' = IF base.exists /\ lock = None
            THEN Merged(base, e.loaded, [e.loaded EXCEPT !.state = "stopped"])
            ELSE base
  /\ Resume(a, e, "idle") /\ UNCHANGED login

\* disable_if_desired: optimistic, unlike the stop() before it.
DisableMatches == row.exists /\ ~changed

Disabled(a, e, base) ==
  /\ e.op = "disable"
  /\ Forget
  /\ row' = IF DisableMatches /\ lock = None THEN [row EXCEPT !.desired = FALSE] ELSE row
  /\ Resume(a, e, "idle") /\ UNCHANGED login

AfterStop(a, e, base) ==
  /\ \/ Restarted(a, e, base) \/ Stopped(a, e, base)
     \/ ListenerStopped(a, e, base) \/ Disabled(a, e, base)
  /\ stopping' = FALSE
  /\ changed' = (a # "watchdog" /\ Watched /\ (changed \/ row' # row))

\* stop(), called by a for what e says, up to its first suspension, or beyond
\* it when there is nothing to wait for.
ManagerStop(a, e, base) ==
  LET waits == instance # None /\ StopSuspends IN
  /\ instance' = None
  /\ conn' = IF instance # None /\ conn[instance] = "open"
             THEN [conn EXCEPT ![instance] =
                     IF StopSuspends THEN "closing" ELSE IF Live(instance) THEN "closed" ELSE "none"]
             ELSE conn
  /\ IF waits \/ Live(slot)
     THEN /\ stopping' = TRUE
          /\ act' = [act EXCEPT ![a] =
               [e EXCEPT !.taken = IF waits THEN instance ELSE None,
                         !.task  = IF waits THEN None ELSE slot,
                         !.at    = IF waits THEN "closing" ELSE "joining"]]
          /\ row' = base
          /\ changed' = (Watched /\ (changed \/ row' # row))
          /\ UNCHANGED <<slot, sup, login>>
     ELSE AfterStop(a, e, base)
  /\ UNCHANGED loopOwner

CallStop(r) ==
  /\ act[r].at = "stop"
  /\ ManagerStop(r, act[r], row)
  /\ UNCHANGED <<platform, lock, server, bounds>>

\* connector.stop() returns, at the latest after its own ten seconds: Lark then
\* gives up on its thread and keeps the loop, the others forget or cancel it.
\* A supervisor that is still alive gets 15 seconds more.
StopReturns(a) ==
  LET s == act[a].taken IN
  /\ act[a].at = "closing"
  /\ \/ /\ s = None
        /\ UNCHANGED <<conn, loopOwner>>
     \/ /\ s # None /\ conn[s] \notin {"closing", "hung"}
        /\ loopOwner' = IF loopOwner = s THEN None ELSE loopOwner
        /\ conn' = IF Live(s) THEN conn ELSE [conn EXCEPT ![s] = "none"]
     \/ /\ s # None /\ conn[s] \in {"closing", "hung"}
        /\ conn' = [conn EXCEPT ![s] =
                     IF platform = "lark" THEN "hung" ELSE IF Live(s) THEN "closed" ELSE "none"]
        /\ UNCHANGED loopOwner
  /\ IF Live(slot)
     THEN /\ act' = [act EXCEPT ![a].taken = None, ![a].task = slot, ![a].at = "joining"]
          /\ UNCHANGED <<row, changed, slot, sup, stopping, login>>
     ELSE AfterStop(a, act[a], row)
  /\ UNCHANGED <<platform, instance, lock, server, bounds>>

\* wait_for(task, 15) returns ...
TaskEnds(a) ==
  /\ act[a].at = "joining" /\ ~Live(act[a].task)
  /\ AfterStop(a, act[a], row)
  /\ UNCHANGED <<platform, instance, conn, loopOwner, lock, server, bounds>>

\* Mutant: stop() waits for the supervisor without a timeout.
MutJoinTimeout(a) == FALSE

\* ... or cancels the task.  A cancelled supervisor leaves its connector running
\* and registered, or Lark's loop taken.
JoinTimeout(a) ==
  LET s == act[a].task IN
  /\ act[a].at = "joining" /\ sup[s] \in {"online", "closing", "backoff"}
  /\ sup' = [sup EXCEPT ![s] = "none"]
  /\ UNCHANGED <<platform, row, changed, registry, conn, loopOwner, login, act, lock,
                 server, bounds>>

----------------------------------------------------------------------------
(* _supervise. *)

\* The supervisor has a new connector: a stop() that is still busy with the
\* dead one before it has nothing left to stop.
Supersede(s) ==
  act' = [a \in Actors |-> IF act[a].taken = s THEN [act[a] EXCEPT !.taken = None] ELSE act[a]]

\* The head of the loop: leave, or create, start and register a connector.
Connect(s) ==
  \/ /\ stopping
     /\ sup' = [sup EXCEPT ![s] = "none"]
     /\ UNCHANGED <<row, changed, instance, conn, loopOwner, act>>
  \/ /\ ~stopping /\ "ok" \in StartOutcomes
     /\ sup' = [sup EXCEPT ![s] = "online"]
     /\ conn' = [conn EXCEPT ![s] = "open"]
     /\ instance' = s
     /\ loopOwner' = IF platform = "lark" THEN s ELSE None
     /\ Record("online") /\ Supersede(s)
  \/ /\ ~stopping /\ "config" \in StartOutcomes
     /\ sup' = [sup EXCEPT ![s] = "none"]
     /\ Record("error")
     /\ UNCHANGED <<instance, conn, loopOwner, act>>

Begin(s)  == sup[s] = "ready" /\ Connect(s)
WakeUp(s) == sup[s] = "backoff" /\ Connect(s)

\* What is recorded once the dead connector is stopped.
RecordClosed(s) ==
  IF conn[s] = "expired"
  THEN sup' = [sup EXCEPT ![s] = "none"] /\ Record("auth_required")
  ELSE sup' = [sup EXCEPT ![s] = "backoff"] /\ Record("error")

\* Mutant: the dead connector stays registered.
MutUnregister(s) == UNCHANGED instance
Unregister(s) == instance' = IF instance = s THEN None ELSE instance

\* wait_closed() returns.
SeeClosed(s) ==
  /\ sup[s] = "online" /\ conn[s] \in {"lost", "expired", "closed"}
  /\ Unregister(s)
  /\ IF stopping
     THEN sup' = [sup EXCEPT ![s] = "none"] /\ UNCHANGED <<row, changed>>
     ELSE IF StopSuspends
     THEN sup' = [sup EXCEPT ![s] = "closing"] /\ UNCHANGED <<row, changed>>
     ELSE RecordClosed(s)
  /\ conn' = IF stopping \/ ~StopSuspends THEN [conn EXCEPT ![s] = "none"] ELSE conn
  /\ UNCHANGED <<loopOwner, act>>

\* connector.stop() returns; stopping is not looked at again before the sleep.
Release(s) ==
  /\ sup[s] = "closing"
  /\ loopOwner' = IF loopOwner = s THEN None ELSE loopOwner
  /\ RecordClosed(s)
  /\ conn' = [conn EXCEPT ![s] = "none"]
  /\ UNCHANGED <<instance, act>>

Supervise(s) ==
  /\ Begin(s) \/ WakeUp(s) \/ SeeClosed(s) \/ Release(s)
  /\ UNCHANGED <<platform, slot, stopping, login, lock, server, bounds>>

\* The platform drops the connection, or refuses its credentials.
Drop(s) ==
  /\ Client /\ conn[s] = "open" /\ faults > 0
  /\ faults' = faults - 1
  /\ \E cause \in {"lost", "expired"} : conn' = [conn EXCEPT ![s] = cause]
  /\ UNCHANGED <<platform, row, changed, registry, sup, loopOwner, login, act, lock,
                 server, ops>>

Ends(s) ==
  /\ conn' = [conn EXCEPT ![s] = IF Live(s) THEN "closed" ELSE "none"]
  /\ UNCHANGED <<platform, row, changed, registry, sup, loopOwner, login, act, lock,
                 server, bounds>>

\* The thread of a connector that was told to stop ends.
ThreadEnds(s) == conn[s] = "closing" /\ Ends(s)

\* One that stop() gave up on may still end, but nothing makes it.
HungThreadEnds(s) == conn[s] = "hung" /\ Ends(s)

----------------------------------------------------------------------------
(* ConnectionService: requests.  A request loads the row, ... *)

MayStart == (RequiresBinding => row.bound) /\ row.state \notin {"auth_required", "error"}

Operations ==
  (IF MayStart THEN {"start"} ELSE {}) \cup {"stop", "apply", "update", "delete", "cancel"}
    \cup (IF GatewayToken THEN {"rotate"} ELSE {})
    \cup (IF BindingCommand THEN {"bind"} ELSE {})
    \cup (IF login THEN {"poll"} ELSE {})

\* A new request is handled by the first that is free.
FreeRequest(r) ==
  /\ server = "up" /\ row.exists
  /\ act[r].at = "idle" /\ r = CHOOSE q \in Requests : act[q].at = "idle"

\* start_login() caches the connector that shows the QR code, until a login, a
\* new configuration or a delete drops it.
StartLogin(r) ==
  /\ FreeRequest(r)
  /\ SupportsLogin /\ ~login
  /\ login' = TRUE
  /\ UNCHANGED <<platform, row, changed, registry, sup, conn, loopOwner, act, lock, server,
                 bounds>>

\* A delete and a new binding code look at nothing they loaded.
Loads(op) == IF op \in {"delete", "bind"} THEN NewConnection ELSE row

Open(r) ==
  /\ FreeRequest(r)
  /\ ops > 0 /\ ops' = ops - 1
  /\ \E op \in Operations :
       act' = [act EXCEPT ![r] =
         [Idle EXCEPT !.op = op, !.loaded = Loads(op),
                      !.at = IF op = "delete" \/ (op = "cancel" /\ ~row.desired)
                             THEN "stop"
                             ELSE IF op = "poll" THEN "ask" ELSE "commit"]]
  /\ UNCHANGED <<platform, row, changed, registry, sup, conn, loopOwner, login, lock, server,
                 faults>>

\* ... commits what it decided (or finds the row gone), ...
MayCommit(r, op) ==
  act[r].at = "commit" /\ act[r].op = op /\ lock \in {None, r}

Save(r, new, at) ==
  IF row.exists \/ new = act[r].loaded
  THEN /\ Flush(act[r].loaded, new)
       /\ IF act[r].op = "apply" THEN Goto(r, at) ELSE Leave(r, at)
  ELSE Done(r) /\ UNCHANGED <<row, changed>>

CommitStart(r) ==
  /\ MayCommit(r, "start")
  /\ Save(r, [act[r].loaded EXCEPT !.desired = TRUE, !.state = "starting"], "start")
  /\ UNCHANGED <<login, lock>>

CommitStop(r) ==
  /\ MayCommit(r, "stop")
  /\ Save(r, [act[r].loaded EXCEPT !.desired = FALSE, !.state = "stopped"], "stop")
  /\ UNCHANGED <<login, lock>>

CommitApply(r) ==
  /\ MayCommit(r, "apply")
  /\ Save(r, [act[r].loaded EXCEPT !.state = "stopped"], "stop")
  /\ UNCHANGED <<login, lock>>

\* The second commit of apply(), after the old supervisor is gone.
CommitReapply(r) ==
  /\ MayCommit(r, "reapply")
  /\ LET stopped == [act[r].loaded EXCEPT !.state = "stopped"] IN
     IF row.exists
     THEN /\ Flush(stopped, [stopped EXCEPT !.state = "starting"])
          /\ Leave(r, "start")
     ELSE Done(r) /\ UNCHANGED <<row, changed>>
  /\ UNCHANGED <<login, lock>>

\* rotate_credential: the new token always writes the row.
CommitRotate(r) ==
  /\ MayCommit(r, "rotate")
  /\ IF ~row.exists
     THEN Done(r) /\ UNCHANGED <<row, changed>>
     ELSE /\ IF act[r].loaded.desired
             THEN /\ Flush(act[r].loaded, [act[r].loaded EXCEPT !.state = "starting"])
                  /\ Leave(r, "stop")
             ELSE changed' = Watched /\ Done(r) /\ UNCHANGED row
  /\ login' = FALSE
  /\ UNCHANGED lock

\* update() with a new configuration: a binding made with the old one is void.
CommitUpdate(r) ==
  /\ MayCommit(r, "update")
  /\ LET loaded == act[r].loaded IN
     /\ row' = IF row.exists /\ RequiresBinding /\ loaded.bound
               THEN [row EXCEPT !.bound = FALSE,
                       !.code = IF loaded.code # "none" THEN "none" ELSE @,
                       !.desired = IF loaded.desired THEN FALSE ELSE @,
                       !.state = IF loaded.state # "stopped" THEN "stopped" ELSE @]
               ELSE row
     /\ changed' = Watched
  /\ Done(r)
  /\ login' = FALSE
  /\ UNCHANGED lock

\* create_binding_code(); a client connector is then started to listen.
CommitBind(r) ==
  /\ MayCommit(r, "bind")
  /\ row' = IF row.exists THEN [row EXCEPT !.code = "valid"] ELSE row
  /\ changed' = Watched
  /\ IF Client THEN Leave(r, "start") ELSE Done(r)
  /\ UNCHANGED <<login, lock>>

\* cancel_binding_listener(); an enabled connection was left alone.
CommitCancel(r) ==
  /\ MayCommit(r, "cancel")
  /\ row' = IF row.exists
            THEN [row EXCEPT !.code = "none",
                    !.state = IF ~act[r].loaded.desired /\ act[r].loaded.state # "stopped"
                              THEN "stopped" ELSE @]
            ELSE row
  /\ changed' = Watched
  /\ Done(r)
  /\ UNCHANGED <<login, lock>>

\* Mutant: the row is kept, in a state of its own.
MutCommitDelete(r) ==
  /\ MayCommit(r, "delete")
  /\ row' = [NewConnection EXCEPT !.exists = FALSE, !.state = "deleted"]
  /\ changed' = Watched
  /\ Done(r)
  /\ UNCHANGED <<login, lock>>

CommitDelete(r) ==
  /\ MayCommit(r, "delete")
  /\ row' = [NewConnection EXCEPT !.exists = FALSE]
  /\ changed' = Watched
  /\ Done(r)
  /\ UNCHANGED <<login, lock>>

CommitPoll(r) ==
  /\ MayCommit(r, "poll")
  /\ row' = [row EXCEPT !.bound = TRUE, !.code = "none",
               !.state = IF act[r].loaded.state # "stopped" THEN "stopped" ELSE @,
               !.desired = @ \/ act[r].loaded.desired]
  /\ changed' = Watched
  /\ lock' = None
  /\ Done(r)
  /\ UNCHANGED login

Commit(r) ==
  /\ \/ CommitStart(r) \/ CommitStop(r) \/ CommitApply(r) \/ CommitReapply(r)
     \/ CommitRotate(r) \/ CommitUpdate(r) \/ CommitBind(r) \/ CommitCancel(r)
     \/ CommitDelete(r) \/ CommitPoll(r)
  /\ UNCHANGED <<platform, registry, sup, conn, loopOwner, server, bounds>>

\* The flush of another transaction's time is up: the request fails.
Busy(r) ==
  /\ act[r].at \in {"commit", "ask"} /\ lock \notin {None, r}
  /\ Done(r)
  /\ UNCHANGED <<platform, row, changed, registry, sup, conn, loopOwner, login, lock,
                 server, bounds>>

\* poll_login(): the platform confirmed the scan, or not.  The binding is
\* flushed and the write lock held until the API commits, across stop().
Poll(r) ==
  /\ act[r].at = "ask"
  /\ \/ /\ Done(r)
        /\ UNCHANGED <<login, lock>>
     \/ /\ lock = None /\ row.exists
        /\ LET loaded  == act[r].loaded
               restart == \/ row.desired
                          \/ ~loaded.desired /\ loaded.state \in {"auth_required", "error"}
           IN act' = [act EXCEPT ![r].loaded.desired = restart,
                                 ![r].at = IF restart THEN "stop" ELSE "commit"]
        /\ lock' = r
        /\ login' = FALSE
  /\ UNCHANGED <<platform, row, changed, registry, sup, conn, loopOwner, server, bounds>>

\* ... and starts or stops the supervisor.
CallStart(r) ==
  /\ act[r].at = "start"
  /\ ManagerStart
  /\ Done(r)
  /\ UNCHANGED <<platform, row, changed, instance, conn, loopOwner, login, lock, server,
                 bounds>>

----------------------------------------------------------------------------
(* The inbound handler, when a message carries the binding code. *)

Bind ==
  /\ server = "up" /\ act["binder"].at = "idle" /\ lock = None
  /\ row.exists /\ ~row.bound /\ row.code = "valid"
  /\ \E s \in Sups : conn[s] \in {"open", "hung"}
  /\ LET bound == [row EXCEPT !.bound = TRUE, !.code = "none"] IN
     IF row.desired
     THEN /\ row' = bound
          /\ changed' = Watched
          /\ UNCHANGED <<registry, sup, conn, loopOwner, login, act>>
     ELSE ManagerStop("binder", [Idle EXCEPT !.op = "bound", !.loaded = bound], bound)
  /\ UNCHANGED <<platform, lock, server, bounds>>

CodeExpires ==
  /\ row.code = "valid"
  /\ row' = [row EXCEPT !.code = "expired"]
  /\ UNCHANGED <<platform, changed, registry, sup, conn, loopOwner, login, act, lock,
                 server, bounds>>

----------------------------------------------------------------------------
(* ConnectionWatchdog.check_once. *)

ListRows ==
  /\ server = "up" /\ act["watchdog"].at = "idle" /\ row.exists
  /\ act' = [act EXCEPT !["watchdog"] =
               [Idle EXCEPT !.op = "check", !.at = "check", !.loaded = row]]
  /\ changed' = FALSE
  /\ UNCHANGED <<platform, row, registry, sup, conn, loopOwner, login, lock, server, bounds>>

\* The binding listener nobody answered in time.
BindingExpired ==
  LET loaded == act["watchdog"].loaded IN
  instance # None /\ ~loaded.desired /\ ~loaded.bound /\ loaded.code = "expired"

\* Mutant: a missing supervisor is no anomaly.
MutAbnormal ==
  LET loaded == act["watchdog"].loaded IN
  /\ loaded.desired
  /\ \/ loaded.state \in {"auth_required", "error"}
     \/ loaded.state = "online" /\ ~(instance # None /\ Healthy(instance))

Abnormal ==
  LET loaded  == act["watchdog"].loaded
      running == instance # None /\ Healthy(instance)
  IN /\ loaded.desired
     /\ \/ loaded.state \in {"auth_required", "error"}
        \/ loaded.state = "online" /\ ~running
        \/ loaded.state \in {"stopped", "starting"} /\ ~Live(slot)

CheckRow ==
  /\ act["watchdog"].at = "check"
  /\ IF BindingExpired \/ Abnormal
     THEN ManagerStop("watchdog",
            [act["watchdog"] EXCEPT !.op = IF Abnormal THEN "disable" ELSE "expire"], row)
     ELSE /\ Done("watchdog") /\ changed' = FALSE
          /\ UNCHANGED <<row, registry, sup, conn, loopOwner, login>>
  /\ UNCHANGED <<platform, lock, server, bounds>>

----------------------------------------------------------------------------
(* The process. *)

Fresh ==
  /\ slot' = None /\ instance' = None /\ stopping' = FALSE
  /\ sup' = [s \in Sups |-> "none"] /\ conn' = [s \in Sups |-> "none"]
  /\ changed' = FALSE /\ loopOwner' = None /\ login' = FALSE /\ lock' = None
  /\ act' = [a \in Actors |-> Idle]

Crash ==
  /\ server # "down" /\ faults > 0
  /\ faults' = faults - 1
  /\ server' = "down"
  /\ Fresh
  /\ UNCHANGED <<platform, row, ops>>

\* The lifespan ends: the watchdog is cancelled, no request is left.
Shutdown ==
  /\ server = "up" /\ faults > 0
  /\ \A r \in Requests \cup {"binder"} : act[r].at = "idle"
  /\ faults' = faults - 1
  /\ server' = "stopping"
  /\ act' = [act EXCEPT !["watchdog"] = Idle,
                        !["lifespan"] = [Idle EXCEPT !.op = "stop_all", !.at = "stop"]]
  /\ changed' = FALSE
  /\ UNCHANGED <<platform, row, registry, sup, conn, loopOwner, login, lock, ops>>

StopAll ==
  /\ act["lifespan"].at = "stop"
  /\ IF slot = None
     THEN /\ Goto("lifespan", "halt")
          /\ UNCHANGED <<row, changed, registry, sup, conn, loopOwner, login>>
     ELSE ManagerStop("lifespan", act["lifespan"], row)
  /\ UNCHANGED <<platform, lock, server, bounds>>

ShutDown ==
  /\ act["lifespan"].at = "halt"
  /\ server' = "down"
  /\ Fresh
  /\ UNCHANGED <<platform, row, bounds>>

\* bootstrap_recover: what is switched on is started again.
Boot ==
  /\ server = "down"
  /\ server' = "up"
  /\ IF row.exists /\ row.desired
     THEN /\ row' = [row EXCEPT !.state = "starting"]
          /\ slot' = 1
          /\ sup' = [sup EXCEPT ![1] = "ready"]
     ELSE UNCHANGED <<row, slot, sup>>
  /\ UNCHANGED <<platform, changed, instance, stopping, conn, loopOwner, login, act, lock, bounds>>

----------------------------------------------------------------------------

\* A process starts on a database that holds a connection as create() left it,
\* or one that is bound and switched on.
Init ==
  /\ \E c \in Scenarios : platform = c.platform /\ ops = c.ops /\ faults = c.faults
  /\ row \in {NewConnection,
              [NewConnection EXCEPT !.bound = RequiresBinding, !.desired = TRUE, !.state = "online"]}
  /\ changed = FALSE
  /\ slot = None /\ instance = None /\ stopping = FALSE
  /\ sup = [s \in Sups |-> "none"]
  /\ conn = [s \in Sups |-> "none"]
  /\ loopOwner = None /\ login = FALSE
  /\ act = [a \in Actors |-> Idle]
  /\ lock = None
  /\ server = "down"

Stopping(a) == StopReturns(a) \/ TaskEnds(a) \/ JoinTimeout(a)

Request(r)  ==
  \/ Commit(r) \/ Busy(r) \/ Poll(r) \/ CallStart(r) \/ CallStop(r)
Watchdog    == ListRows \/ CheckRow
Supervisor(s) == Supervise(s) \/ ThreadEnds(s)

Next ==
  \/ \E a \in Actors : Stopping(a)
  \/ \E r \in Requests : StartLogin(r) \/ Open(r) \/ Request(r)
  \/ \E s \in Sups : Supervisor(s) \/ Drop(s) \/ HungThreadEnds(s)
  \/ Bind \/ CodeExpires
  \/ Watchdog
  \/ Crash \/ Shutdown \/ StopAll \/ ShutDown \/ Boot

Spec == Init /\ [][Next]_vars

\* The loop schedules every task that is ready, the watchdog's period comes
\* round, a stopped process is started again.  Nothing is asked of people and
\* platforms: no request has to be issued, no code sent, no connection kept.
FairSpec ==
  /\ Spec
  /\ \A r \in Requests : WF_vars(Request(r) \/ Stopping(r))
  /\ \A s \in Sups : WF_vars(Supervisor(s))
  /\ WF_vars(Watchdog \/ Stopping("watchdog")) /\ WF_vars(Stopping("binder"))
  /\ WF_vars(StopAll \/ Stopping("lifespan") \/ ShutDown \/ Boot)

----------------------------------------------------------------------------

Ats == {"idle", "ask", "commit", "start", "stop", "closing", "joining", "halt", "check"}
Ops == {"none", "start", "stop", "apply", "reapply", "rotate", "update", "bind", "cancel",
        "delete", "poll", "check", "disable", "expire", "bound", "stop_all"}

\* The types of the variables.
ConnectionTypeOK ==
  /\ platform \in AllPlatforms
  /\ row \in Row
  /\ changed \in BOOLEAN /\ stopping \in BOOLEAN /\ login \in BOOLEAN
  /\ slot \in Sups \cup {None} /\ instance \in Sups \cup {None} /\ loopOwner \in Sups \cup {None}
  /\ sup \in [Sups -> {"none", "ready", "online", "closing", "backoff"}]
  /\ conn \in [Sups -> {"none", "open", "lost", "expired", "closing", "hung", "closed"}]
  /\ act \in [Actors -> [op : Ops, at : Ats, loaded : Row, taken : Sups \cup {None},
                         task : Sups \cup {None}]]
  /\ lock \in Requests \cup {None}
  /\ server \in {"up", "stopping", "down"}
  /\ \E c \in Scenarios : platform = c.platform /\ ops \in 0..c.ops /\ faults \in 0..c.faults

\* What get_instance() hands to a delivery is never a connector somebody has
\* stopped: stop() takes it out of the registry before it stops it, and the
\* supervisor before it releases it.
RegisteredIsNotStopped ==
  instance # None => conn[instance] \in {"open", "lost", "expired"}

\* lark_oapi has one event loop per process: at most one Lark thread is alive,
\* also when a stop() gave up on a thread and the connection is started again.
OneLarkThread ==
  platform = "lark" => Cardinality({s \in Sups : ThreadAlive(s)}) <= 1

\* Every request ends: nobody waits for a supervisor, a thread or the write
\* lock that waits for him, whoever else starts and stops the connection.  (A
\* behaviour issues finitely many, so each ends when none is left in the end.)
RequestsEnd == <>[](\A r \in Requests : act[r].at = "idle")

\* A connection that is switched on does not stay without a supervisor and
\* without a connector: it gets one or the watchdog switches it off.
EnabledIsAttended ==
  (row.exists /\ row.desired) ~> (~row.desired \/ Live(slot) \/ instance # None)

============================================================================
