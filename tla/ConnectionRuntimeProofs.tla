---------------------- MODULE ConnectionRuntimeProofs ----------------------
(***************************************************************************)
(* Proofs about ConnectionRuntime.                                          *)
(*                                                                         *)
(* Beside the types three facts make the invariant inductive: a connector   *)
(* that some stop() has taken is neither registered nor running as if       *)
(* nobody had told it to stop; a supervisor that releases a dead connector  *)
(* has unregistered it; and with Lark every live thread is the thread of    *)
(* the owner of the loop.                                                   *)
(***************************************************************************)
EXTENDS ConnectionRuntime, RowLemmas

SupStates  == {"none", "ready", "online", "closing", "backoff"}
ConnStates == {"none", "open", "lost", "expired", "closing", "hung", "closed"}
Entry == [op : Ops, at : Ats, loaded : Row, taken : Sups \cup {None}, task : Sups \cup {None}]

\* A stop() has taken its connector out of the registry and told it to stop.
Told ==
  \A a \in Actors : act[a].taken # None =>
    act[a].taken # instance /\ conn[act[a].taken] # "open"

\* A supervisor unregisters a connector before it releases it.
Released == \A s \in Sups : sup[s] = "closing" => instance # s

\* With Lark a thread only lives on behalf of the owner of the loop.
Owned == platform = "lark" => \A s \in Sups : ThreadAlive(s) => loopOwner = s

\* The inductive invariant is this and the types.
Safe == Told /\ Released /\ Owned /\ RegisteredIsNotStopped

\* What the operations share: the registered connector, the connectors and the
\* loop stay as they are, no connector is taken and no supervisor releases one.
Calm ==
  /\ UNCHANGED <<platform, instance, conn, loopOwner>>
  /\ \A s \in Sups : sup'[s] = "closing" => sup[s] = "closing"
  /\ \A a \in Actors : act'[a].taken \in {None, act[a].taken}

----------------------------------------------------------------------------
(* The types of the helpers. *)

\* The name None is not the name of a supervisor.
LEMMA NoSupIsNone == None \notin Sups
BY NoneIsNoSupervisor, ScenariosAreBounded DEF Sups

\* The actors the operations name are actors.
LEMMA TheActors ==
  /\ Requests \subseteq Actors
  /\ "watchdog" \in Actors /\ "binder" \in Actors /\ "lifespan" \in Actors
BY DEF Actors

\* The rows the operations write are rows, and so is what a flush makes of two
\* of them.
LEMMA RowsAreRows ==
  /\ NewConnection \in Row
  /\ [NewConnection EXCEPT !.exists = FALSE] \in Row
  /\ \A r \in Row, b \in BOOLEAN :
       /\ [r EXCEPT !.desired = b] \in Row
       /\ [r EXCEPT !.bound = b] \in Row
  /\ \A r \in Row, x \in States : [r EXCEPT !.state = x] \in Row
  /\ \A r \in Row, c \in {"none", "valid", "expired"} : [r EXCEPT !.code = c] \in Row
<1>1. NewConnection \in Row
  <2>1. FALSE \in BOOLEAN /\ TRUE \in BOOLEAN
    OBVIOUS
  <2>. QED  BY <2>1 DEF NewConnection, Row, States
<1>2. [NewConnection EXCEPT !.exists = FALSE] \in Row
  BY <1>1 DEF Row
<1>. QED  BY <1>1, <1>2 DEF Row

\* A flush mixes the fields of rows.
LEMMA MergedIsRow ==
  ASSUME NEW base \in Row, NEW loaded \in Row, NEW new \in Row
  PROVE  Merged(base, loaded, new) \in Row
<1>1. DOMAIN base = {"exists", "desired", "state", "bound", "code"}
  BY DEF Row
<1>. DEFINE Pick(f) == IF new[f] # loaded[f] THEN new[f] ELSE base[f]
<1>2. PICK m : m = [exists |-> Pick("exists"), desired |-> Pick("desired"),
                    state |-> Pick("state"), bound |-> Pick("bound"), code |-> Pick("code")]
  OBVIOUS
<1>3. m \in Row
  BY <1>2 DEF Row
<1>4. Merged(base, loaded, new) = m
  BY <1>1, <1>2 DEF Merged
<1>. QED  BY <1>3, <1>4

\* The entries of act.
LEMMA EntriesAreEntries ==
  /\ Idle \in Entry
  /\ \A e \in Entry, x \in Ats : [e EXCEPT !.at = x] \in Entry
  /\ \A e \in Entry, x \in Ops : [e EXCEPT !.op = x] \in Entry
  /\ \A e \in Entry, x \in Row : [e EXCEPT !.loaded = x] \in Entry
  /\ \A e \in Entry, x \in Sups \cup {None} :
       [e EXCEPT !.taken = x] \in Entry /\ [e EXCEPT !.task = x] \in Entry
<1>1. Idle \in Entry
  BY RowsAreRows DEF Idle, Entry, Ops, Ats
<1>. QED  BY <1>1 DEF Entry
----------------------------------------------------------------------------
(* Starting and stopping a supervisor. *)

\* What a stop() writes that is not a connector.
StopTypes ==
  /\ row \in Row
  /\ changed \in BOOLEAN /\ stopping \in BOOLEAN /\ login \in BOOLEAN
  /\ slot \in Sups \cup {None}
  /\ sup \in [Sups -> SupStates]
  /\ act \in [Actors -> Entry]

\* Supervisors begin, end and are forgotten, and stops let go of connectors.
Settles ==
  /\ \A s \in Sups : sup'[s] = "closing" => sup[s] = "closing"
  /\ \A a \in Actors : act'[a].taken \in {None, act[a].taken}

\* The types, and the ones a stop() needs.
LEMMA TypesOfStop == ConnectionTypeOK => StopTypes
BY DEF ConnectionTypeOK, StopTypes, SupStates, Entry

\* A new supervisor is one, and is about to connect.
LEMMA RegisterTypes ==
  ASSUME StopTypes, Register
  PROVE  /\ slot' \in Sups \cup {None}
         /\ sup' \in [Sups -> SupStates]
         /\ \A s \in Sups : sup'[s] = "closing" => sup[s] = "closing"
<1>1. PICK s \in Sups : slot' = s /\ sup' = [sup EXCEPT ![s] = "ready"]
  BY DEF Register
<1>2. sup \in [Sups -> SupStates] /\ "ready" \in SupStates
  BY DEF StopTypes, SupStates
<1>. QED  BY <1>1, <1>2

\* Who resumes has let go of the connector and of the supervisor.
LEMMA ResumeTypes ==
  ASSUME StopTypes, NEW a \in Actors, NEW e \in Entry, NEW at \in Ats, Resume(a, e, at)
  PROVE  /\ act' \in [Actors -> Entry]
         /\ \A b \in Actors : act'[b].taken \in {None, act[b].taken}
<1>1. PICK m : m = IF at = "idle" THEN Idle
                   ELSE [e EXCEPT !.at = at, !.taken = None, !.task = None]
  OBVIOUS
<1>2. m \in Entry /\ m.taken = None
  <2>1. CASE at = "idle"
    <3>1. m = Idle
      BY <1>1, <2>1
    <3>2. Idle.taken = None
      BY DEF Idle
    <3>. QED  BY <3>1, <3>2, EntriesAreEntries
  <2>2. CASE at # "idle"
    BY <1>1, <2>2 DEF Entry
  <2>. QED  BY <2>1, <2>2
<1>3. act' = [act EXCEPT ![a] = m]
  BY <1>1 DEF Resume
<1>4. act \in [Actors -> Entry]
  BY DEF StopTypes
<1>. QED  BY <1>2, <1>3, <1>4

\* The end of a stop() and what its caller does next.
LEMMA AfterStopTypes ==
  ASSUME StopTypes, NEW a \in Actors, NEW e \in Entry, NEW base \in Row, AfterStop(a, e, base)
  PROVE  StopTypes' /\ Settles
<1>. {"idle", "commit", "halt"} \subseteq Ats
  BY DEF Ats
<1>1. stopping' \in BOOLEAN /\ changed' \in BOOLEAN
  <2>1. FALSE \in BOOLEAN
    OBVIOUS
  <2>2. stopping' = FALSE
    BY DEF AfterStop
  <2>3. (a # "watchdog" /\ Watched /\ (changed \/ row' # row)) \in BOOLEAN
    OBVIOUS
  <2>4. changed' = (a # "watchdog" /\ Watched /\ (changed \/ row' # row))
    BY DEF AfterStop
  <2>. QED  BY <2>1, <2>2, <2>3, <2>4
<1>2. /\ slot' \in Sups \cup {None}
      /\ sup' \in [Sups -> SupStates]
      /\ \A s \in Sups : sup'[s] = "closing" => sup[s] = "closing"
  <2>1. CASE Register
    BY <2>1, RegisterTypes
  <2>2. CASE Forget
    BY <2>2 DEF Forget, StopTypes
  <2>. QED  BY <2>1, <2>2 DEF AfterStop, Restarted, Stopped, ListenerStopped, Disabled
<1>3. login' \in BOOLEAN
  <2>1. FALSE \in BOOLEAN /\ login \in BOOLEAN
    BY DEF StopTypes
  <2>2. login' = login \/ login' = FALSE
    BY DEF AfterStop, Restarted, Stopped, ListenerStopped, Disabled
  <2>. QED  BY <2>1, <2>2
<1>4. PICK f \in Entry, at \in Ats : Resume(a, f, at)
  <2>1. CASE Restarted(a, e, base)
    BY <2>1 DEF Restarted
  <2>2. CASE Stopped(a, e, base)
    <3>1. [e EXCEPT !.op = "reapply"] \in Entry
      BY DEF Entry, Ops
    <3>. QED  BY <2>2, <3>1 DEF Stopped
  <2>3. CASE ListenerStopped(a, e, base)
    BY <2>3 DEF ListenerStopped
  <2>4. CASE Disabled(a, e, base)
    BY <2>4 DEF Disabled
  <2>. QED  BY <2>1, <2>2, <2>3, <2>4 DEF AfterStop
<1>5. row' \in Row
  <2>1. row \in Row /\ e.loaded \in Row
    BY DEF StopTypes, Entry
  <2>2. CASE Restarted(a, e, base) \/ Stopped(a, e, base)
    BY <2>2 DEF Restarted, Stopped
  <2>3. CASE ListenerStopped(a, e, base)
    <3>1. [e.loaded EXCEPT !.state = "stopped"] \in Row
      BY <2>1, RowsAreRows DEF States
    <3>. QED  BY <2>1, <2>3, <3>1, MergedIsRow DEF ListenerStopped
  <2>4. CASE Disabled(a, e, base)
    <3>1. [row EXCEPT !.desired = FALSE] \in Row
      BY <2>1, RowsAreRows
    <3>. QED  BY <2>1, <2>4, <3>1 DEF Disabled
  <2>. QED  BY <2>2, <2>3, <2>4 DEF AfterStop
<1>6. /\ act' \in [Actors -> Entry]
      /\ \A b \in Actors : act'[b].taken \in {None, act[b].taken}
  BY <1>4, ResumeTypes
<1>. QED  BY <1>1, <1>2, <1>3, <1>5, <1>6 DEF StopTypes, Settles

\* stop() takes the registered connector, if there is one, and tells it to stop.
TakesTheConnector ==
  /\ instance' = None /\ loopOwner' = loopOwner
  /\ conn' \in [Sups -> ConnStates]
  /\ \A s \in Sups :
       \/ conn'[s] = conn[s] /\ (s = instance => conn[s] # "open")
       \/ s = instance /\ conn[s] = "open" /\ conn'[s] \in {"closing", "closed", "none"}
  /\ \A s \in Sups : sup'[s] = "closing" => sup[s] = "closing"
  /\ \A a \in Actors : act'[a].taken \in {None, act[a].taken, instance}

\* stop() up to its first suspension.
LEMMA ManagerStopTypes ==
  ASSUME ConnectionTypeOK, NEW a \in Actors, NEW e \in Entry, NEW base \in Row,
         ManagerStop(a, e, base)
  PROVE  StopTypes' /\ TakesTheConnector
<1>. DEFINE waits == instance # None /\ StopSuspends
<1>1. StopTypes
  BY TypesOfStop
<1>2. /\ instance' = None /\ loopOwner' = loopOwner
      /\ conn' \in [Sups -> ConnStates]
      /\ \A s \in Sups :
           \/ conn'[s] = conn[s] /\ (s = instance => conn[s] # "open")
           \/ s = instance /\ conn[s] = "open" /\ conn'[s] \in {"closing", "closed", "none"}
  <2>1. instance' = None /\ loopOwner' = loopOwner
    BY DEF ManagerStop
  <2>2. conn \in [Sups -> ConnStates] /\ instance \in Sups \cup {None}
    BY DEF ConnectionTypeOK, ConnStates
  <2>3. CASE instance # None /\ conn[instance] = "open"
    <3>1. PICK x : x = IF StopSuspends THEN "closing" ELSE IF Live(instance) THEN "closed" ELSE "none"
      OBVIOUS
    <3>2. x \in {"closing", "closed", "none"} /\ x \in ConnStates
      BY <3>1 DEF ConnStates
    <3>3. conn' = [conn EXCEPT ![instance] = x]
      BY <2>3, <3>1 DEF ManagerStop
    <3>. QED  BY <2>1, <2>2, <2>3, <3>2, <3>3
  <2>4. CASE ~(instance # None /\ conn[instance] = "open")
    <3>1. conn' = conn
      BY <2>4 DEF ManagerStop
    <3>. QED  BY <2>1, <2>2, <2>4, <3>1, NoSupIsNone
  <2>. QED  BY <2>3, <2>4
<1>3. CASE waits \/ Live(slot)
  <2>1. /\ stopping' = TRUE /\ row' = base
        /\ changed' = (Watched /\ (changed \/ row' # row))
        /\ UNCHANGED <<slot, sup, login>>
    BY <1>3 DEF ManagerStop
  <2>2. PICK m : m = [e EXCEPT !.taken = IF waits THEN instance ELSE None,
                               !.task  = IF waits THEN None ELSE slot,
                               !.at    = IF waits THEN "closing" ELSE "joining"]
    OBVIOUS
  <2>3. m \in Entry /\ m.taken \in {None, instance}
    <3>1. instance \in Sups \cup {None} /\ slot \in Sups \cup {None}
      BY DEF ConnectionTypeOK
    <3>2. "closing" \in Ats /\ "joining" \in Ats
      BY DEF Ats
    <3>. HIDE DEF waits
    <3>. QED  BY <2>2, <3>1, <3>2 DEF Entry
  <2>4. act' = [act EXCEPT ![a] = m]
    BY <1>3, <2>2 DEF ManagerStop
  <2>5. act \in [Actors -> Entry]
    BY <1>1 DEF StopTypes
  <2>6. /\ act' \in [Actors -> Entry]
        /\ \A b \in Actors : act'[b].taken \in {None, act[b].taken, instance}
    BY <2>3, <2>4, <2>5
  <2>7. stopping' \in BOOLEAN /\ changed' \in BOOLEAN
    <3>1. TRUE \in BOOLEAN /\ (Watched /\ (changed \/ row' # row)) \in BOOLEAN
      OBVIOUS
    <3>. QED  BY <2>1, <3>1
  <2>. QED  BY <1>1, <1>2, <2>1, <2>6, <2>7 DEF StopTypes, TakesTheConnector
<1>4. CASE ~(waits \/ Live(slot))
  <2>1. AfterStop(a, e, base)
    BY <1>4 DEF ManagerStop
  <2>2. StopTypes' /\ Settles
    BY <1>1, <2>1, AfterStopTypes
  <2>. QED  BY <1>2, <2>2 DEF Settles, TakesTheConnector
<1>. QED  BY <1>3, <1>4
----------------------------------------------------------------------------
(* The types of the steps.  What a stop() does not write keeps its type when *)
(* it keeps its value.                                                       *)

OtherTypes ==
  /\ platform \in AllPlatforms
  /\ instance \in Sups \cup {None} /\ loopOwner \in Sups \cup {None}
  /\ conn \in [Sups -> ConnStates]
  /\ lock \in Requests \cup {None}
  /\ server \in {"up", "stopping", "down"}
  /\ \E c \in Scenarios : platform = c.platform /\ ops \in 0..c.ops /\ faults \in 0..c.faults

\* The two halves of the types.
LEMMA TypesSplit ==
  /\ ConnectionTypeOK <=> StopTypes /\ OtherTypes
  /\ ConnectionTypeOK' <=> StopTypes' /\ OtherTypes'
BY DEF ConnectionTypeOK, StopTypes, OtherTypes, SupStates, ConnStates, Entry

\* The bounds only go down.
LEMMA BoundsTypes ==
  ASSUME OtherTypes, platform' = platform,
         ops' = ops \/ (ops > 0 /\ ops' = ops - 1),
         faults' = faults \/ (faults > 0 /\ faults' = faults - 1)
  PROVE  \E c \in Scenarios : platform' = c.platform /\ ops' \in 0..c.ops /\ faults' \in 0..c.faults
<1>1. PICK c \in Scenarios : platform = c.platform /\ ops \in 0..c.ops /\ faults \in 0..c.faults
  BY DEF OtherTypes
<1>2. c.ops \in Nat /\ c.faults \in Nat
  BY ScenariosAreBounded
<1>3. ops' \in 0..c.ops /\ faults' \in 0..c.faults
  BY <1>1, <1>2
<1>. QED  BY <1>1, <1>3

\* Moving on, letting go of what was loaded, and the end of an operation.
LEMMA MovesTypes ==
  ASSUME StopTypes, NEW a \in Actors, NEW at \in Ats,
         Goto(a, at) \/ Leave(a, at) \/ Done(a)
  PROVE  /\ act' \in [Actors -> Entry]
         /\ \A b \in Actors : act'[b].taken \in {None, act[b].taken}
<1>1. act \in [Actors -> Entry]
  BY DEF StopTypes
<1>2. CASE Goto(a, at)
  <2>1. PICK m : m = [act[a] EXCEPT !.at = at]
    OBVIOUS
  <2>2. m \in Entry /\ m.taken = act[a].taken
    BY <1>1, <2>1 DEF Entry
  <2>3. act' = [act EXCEPT ![a] = m]
    BY <1>2, <2>1 DEF Goto
  <2>. QED  BY <1>1, <2>2, <2>3
<1>3. CASE Leave(a, at)
  <2>1. PICK m : m = [act[a] EXCEPT !.at = at, !.loaded = NewConnection]
    OBVIOUS
  <2>2. m \in Entry /\ m.taken = act[a].taken
    BY <1>1, <2>1, RowsAreRows DEF Entry
  <2>3. act' = [act EXCEPT ![a] = m]
    BY <1>1, <1>3, <2>1 DEF Leave
  <2>. QED  BY <1>1, <2>2, <2>3
<1>4. CASE Done(a)
  <2>1. Idle.taken = None
    BY DEF Idle
  <2>. QED  BY <1>1, <1>4, <2>1, EntriesAreEntries DEF Done
<1>. QED  BY <1>2, <1>3, <1>4

\* A flush writes a row.
LEMMA FlushTypes ==
  ASSUME StopTypes, NEW loaded \in Row, NEW new \in Row, Flush(loaded, new)
  PROVE  row' \in Row /\ changed' \in BOOLEAN
<1>1. row \in Row /\ changed \in BOOLEAN /\ Watched \in BOOLEAN
  BY DEF StopTypes, Watched
<1>. QED  BY <1>1, MergedIsRow DEF Flush

\* What a commit writes.
Committed ==
  /\ row' \in Row /\ changed' \in BOOLEAN /\ login' \in BOOLEAN
  /\ lock' \in Requests \cup {None}
  /\ act' \in [Actors -> Entry]
  /\ \A b \in Actors : act'[b].taken \in {None, act[b].taken}

\* start(), stop() and the two commits of apply().
LEMMA SavesTypes ==
  ASSUME ConnectionTypeOK, NEW r \in Requests,
         CommitStart(r) \/ CommitStop(r) \/ CommitApply(r) \/ CommitReapply(r)
  PROVE  Committed
<1>1. StopTypes /\ OtherTypes
  BY TypesSplit
<1>2. r \in Actors
  BY TheActors
<1>3. row \in Row /\ changed \in BOOLEAN /\ login \in BOOLEAN /\ act[r].loaded \in Row
  BY <1>1, <1>2 DEF StopTypes, Entry
<1>4. "start" \in Ats /\ "stop" \in Ats /\ "starting" \in States /\ "stopped" \in States
  BY DEF Ats, States
<1>5. UNCHANGED <<login, lock>>
  BY DEF CommitStart, CommitStop, CommitApply, CommitReapply
<1>6. /\ row' \in Row /\ changed' \in BOOLEAN
      /\ \E at \in Ats : Goto(r, at) \/ Leave(r, at) \/ Done(r)
  <2>1. ASSUME NEW new \in Row, NEW at \in Ats, Save(r, new, at)
        PROVE  /\ row' \in Row /\ changed' \in BOOLEAN
               /\ Goto(r, at) \/ Leave(r, at) \/ Done(r)
    <3>1. CASE row.exists \/ new = act[r].loaded
      <4>1. row' \in Row /\ changed' \in BOOLEAN
        BY <1>1, <1>3, <2>1, <3>1, FlushTypes DEF Save
      <4>. QED  BY <2>1, <3>1, <4>1 DEF Save
    <3>2. CASE ~(row.exists \/ new = act[r].loaded)
      BY <1>3, <2>1, <3>2 DEF Save
    <3>. QED  BY <3>1, <3>2
  <2>2. CASE CommitStart(r)
    <3>1. PICK new : new = [act[r].loaded EXCEPT !.desired = TRUE, !.state = "starting"]
      OBVIOUS
    <3>2. new \in Row
      BY <1>3, <1>4, <3>1 DEF Row
    <3>3. Save(r, new, "start")
      BY <2>2, <3>1 DEF CommitStart
    <3>. QED  BY <1>4, <2>1, <3>2, <3>3
  <2>3. CASE CommitStop(r)
    <3>1. PICK new : new = [act[r].loaded EXCEPT !.desired = FALSE, !.state = "stopped"]
      OBVIOUS
    <3>2. new \in Row
      BY <1>3, <1>4, <3>1 DEF Row
    <3>3. Save(r, new, "stop")
      BY <2>3, <3>1 DEF CommitStop
    <3>. QED  BY <1>4, <2>1, <3>2, <3>3
  <2>4. CASE CommitApply(r)
    <3>1. PICK new : new = [act[r].loaded EXCEPT !.state = "stopped"]
      OBVIOUS
    <3>2. new \in Row
      BY <1>3, <1>4, <3>1 DEF Row
    <3>3. Save(r, new, "stop")
      BY <2>4, <3>1 DEF CommitApply
    <3>. QED  BY <1>4, <2>1, <3>2, <3>3
  <2>5. CASE CommitReapply(r)
    <3>1. PICK old, new : /\ old = [act[r].loaded EXCEPT !.state = "stopped"]
                          /\ new = [old EXCEPT !.state = "starting"]
      OBVIOUS
    <3>2. old \in Row /\ new \in Row
      BY <1>3, <1>4, <3>1 DEF Row
    <3>3. \/ row.exists /\ Flush(old, new) /\ Leave(r, "start")
          \/ Done(r) /\ UNCHANGED <<row, changed>>
      BY <2>5, <3>1 DEF CommitReapply
    <3>. QED  BY <1>1, <1>3, <1>4, <3>2, <3>3, FlushTypes
  <2>. QED  BY <2>2, <2>3, <2>4, <2>5
<1>7. /\ act' \in [Actors -> Entry]
      /\ \A b \in Actors : act'[b].taken \in {None, act[b].taken}
  BY <1>1, <1>2, <1>6, MovesTypes
<1>8. lock \in Requests \cup {None}
  BY <1>1 DEF OtherTypes
<1>. QED  BY <1>3, <1>5, <1>6, <1>7, <1>8 DEF Committed

\* The other commits.
LEMMA ChangesTypes ==
  ASSUME ConnectionTypeOK, NEW r \in Requests,
         \/ CommitRotate(r) \/ CommitUpdate(r) \/ CommitBind(r) \/ CommitCancel(r)
         \/ CommitDelete(r) \/ CommitPoll(r)
  PROVE  Committed
<1>1. StopTypes /\ OtherTypes
  BY TypesSplit
<1>2. r \in Actors
  BY TheActors
<1>3. row \in Row /\ changed \in BOOLEAN /\ login \in BOOLEAN /\ act[r].loaded \in Row
  BY <1>1, <1>2 DEF StopTypes, Entry
<1>4. "start" \in Ats /\ "stop" \in Ats /\ "starting" \in States /\ "stopped" \in States
  BY DEF Ats, States
<1>5. FALSE \in BOOLEAN /\ Watched \in BOOLEAN
  BY DEF Watched
<1>6. login' \in BOOLEAN /\ lock' \in Requests \cup {None}
  <2>1. login' = FALSE \/ login' = login
    BY DEF CommitRotate, CommitUpdate, CommitBind, CommitCancel, CommitDelete, CommitPoll
  <2>2. lock' = None \/ lock' = lock
    BY DEF CommitRotate, CommitUpdate, CommitBind, CommitCancel, CommitDelete, CommitPoll
  <2>3. lock \in Requests \cup {None}
    BY <1>1 DEF OtherTypes
  <2>. QED  BY <1>3, <1>5, <2>1, <2>2, <2>3
<1>7. \E at \in Ats : Goto(r, at) \/ Leave(r, at) \/ Done(r)
  BY <1>4 DEF CommitRotate, CommitUpdate, CommitBind, CommitCancel, CommitDelete, CommitPoll
<1>8. row' \in Row /\ changed' \in BOOLEAN
  <2>1. CASE CommitRotate(r)
    <3>1. PICK new : new = [act[r].loaded EXCEPT !.state = "starting"]
      OBVIOUS
    <3>2. new \in Row
      BY <1>3, <1>4, <3>1 DEF Row
    <3>3. \/ Flush(act[r].loaded, new)
          \/ row' = row /\ (changed' = changed \/ changed' = Watched)
      BY <2>1, <3>1 DEF CommitRotate
    <3>. QED  BY <1>1, <1>3, <1>5, <3>2, <3>3, FlushTypes
  <2>2. CASE CommitUpdate(r)
    <3>1. \/ row' = row
          \/ \E c \in {"none", "valid", "expired"}, d \in BOOLEAN, x \in States :
               row' = [row EXCEPT !.bound = FALSE, !.code = c, !.desired = d, !.state = x]
      BY <1>3, <1>4, <1>5, <2>2 DEF CommitUpdate, Row
    <3>2. changed' = Watched
      BY <2>2 DEF CommitUpdate
    <3>. QED  BY <1>3, <1>5, <3>1, <3>2 DEF Row
  <2>3. CASE CommitBind(r)
    <3>1. row' = row \/ row' = [row EXCEPT !.code = "valid"]
      BY <2>3 DEF CommitBind
    <3>2. changed' = Watched
      BY <2>3 DEF CommitBind
    <3>. QED  BY <1>3, <1>5, <3>1, <3>2, RowsAreRows
  <2>4. CASE CommitCancel(r)
    <3>1. \/ row' = row
          \/ \E x \in States : row' = [row EXCEPT !.code = "none", !.state = x]
      BY <1>3, <1>4, <2>4 DEF CommitCancel, Row
    <3>2. changed' = Watched
      BY <2>4 DEF CommitCancel
    <3>. QED  BY <1>3, <1>5, <3>1, <3>2 DEF Row
  <2>5. CASE CommitDelete(r)
    BY <1>5, <2>5, RowsAreRows DEF CommitDelete
  <2>6. CASE CommitPoll(r)
    <3>1. \E d \in BOOLEAN, x \in States :
            row' = [row EXCEPT !.bound = TRUE, !.code = "none", !.state = x, !.desired = d]
      BY <1>3, <1>4, <2>6 DEF CommitPoll, Row
    <3>2. changed' = Watched
      BY <2>6 DEF CommitPoll
    <3>. QED  BY <1>3, <1>5, <3>1, <3>2 DEF Row
  <2>. QED  BY <2>1, <2>2, <2>3, <2>4, <2>5, <2>6
<1>9. /\ act' \in [Actors -> Entry]
      /\ \A b \in Actors : act'[b].taken \in {None, act[b].taken}
  BY <1>1, <1>2, <1>7, MovesTypes
<1>. QED  BY <1>6, <1>8, <1>9 DEF Committed
----------------------------------------------------------------------------
(* The calm steps. *)

\* A calm step keeps the types of what it leaves alone.
LEMMA CalmTypes ==
  ASSUME ConnectionTypeOK, Calm, StopTypes',
         lock' \in Requests \cup {None}, server' \in {"up", "stopping", "down"},
         ops' = ops \/ (ops > 0 /\ ops' = ops - 1),
         faults' = faults \/ (faults > 0 /\ faults' = faults - 1)
  PROVE  ConnectionTypeOK'
<1>1. OtherTypes
  BY TypesSplit
<1>2. platform' = platform /\ instance' = instance /\ conn' = conn /\ loopOwner' = loopOwner
  BY DEF Calm
<1>3. \E c \in Scenarios : platform' = c.platform /\ ops' \in 0..c.ops /\ faults' \in 0..c.faults
  BY <1>1, <1>2, BoundsTypes
<1>4. OtherTypes'
  BY <1>1, <1>2, <1>3 DEF OtherTypes
<1>. QED  BY <1>4, TypesSplit

\* What the requests do, except for stop().
LEMMA RequestIsCalm ==
  ASSUME ConnectionTypeOK, NEW r \in Requests,
         \/ Commit(r) \/ Busy(r) \/ Poll(r) \/ CallStart(r)
         \/ StartLogin(r) \/ Open(r)
  PROVE  ConnectionTypeOK' /\ Calm
<1>1. StopTypes /\ OtherTypes
  BY TypesSplit
<1>2. r \in Actors
  BY TheActors
<1>3. act \in [Actors -> Entry] /\ row \in Row /\ act[r].loaded \in Row
  BY <1>1, <1>2 DEF StopTypes, Entry
<1>4. lock \in Requests \cup {None} /\ server \in {"up", "stopping", "down"}
  BY <1>1 DEF OtherTypes
<1>5. TRUE \in BOOLEAN /\ FALSE \in BOOLEAN
  OBVIOUS
<1>6. "commit" \in Ats /\ "ask" \in Ats /\ "stop" \in Ats
  BY DEF Ats
<1>7. CASE Commit(r)
  <2>1. Committed
    BY <1>7, SavesTypes, ChangesTypes DEF Commit
  <2>2. UNCHANGED <<platform, slot, instance, stopping, sup, conn, loopOwner, server, ops, faults>>
    BY <1>7 DEF Commit, registry, bounds
  <2>3. StopTypes' /\ Calm
    BY <1>1, <2>1, <2>2 DEF StopTypes, Committed, Calm
  <2>. QED  BY <1>4, <2>1, <2>2, <2>3, CalmTypes DEF Committed
<1>8. CASE Busy(r)
  <2>1. UNCHANGED <<platform, row, changed, slot, instance, stopping, sup, conn, loopOwner,
                    login, lock, server, ops, faults>>
    BY <1>8 DEF Busy, registry, bounds
  <2>2. /\ act' \in [Actors -> Entry]
        /\ \A b \in Actors : act'[b].taken \in {None, act[b].taken}
    BY <1>1, <1>2, <1>6, <1>8, MovesTypes DEF Busy
  <2>3. StopTypes' /\ Calm
    BY <1>1, <2>1, <2>2 DEF StopTypes, Calm
  <2>. QED  BY <1>4, <2>1, <2>3, CalmTypes
<1>9. CASE Poll(r)
  <2>1. UNCHANGED <<platform, row, changed, slot, instance, stopping, sup, conn, loopOwner,
                    server, ops, faults>>
    BY <1>9 DEF Poll, registry, bounds
  <2>2. lock' \in Requests \cup {None} /\ login' \in BOOLEAN
    <3>1. lock' = lock \/ lock' = r
      BY <1>9 DEF Poll
    <3>2. login' = login \/ login' = FALSE
      BY <1>9 DEF Poll
    <3>. QED  BY <1>1, <1>4, <1>5, <3>1, <3>2 DEF StopTypes
  <2>3. /\ act' \in [Actors -> Entry]
        /\ \A b \in Actors : act'[b].taken \in {None, act[b].taken}
    <3>1. CASE Done(r)
      BY <1>1, <1>2, <1>6, <3>1, MovesTypes
    <3>2. CASE ~Done(r)
      <4>1. PICK d, at : /\ d \in BOOLEAN /\ at \in {"stop", "commit"}
                         /\ act' = [act EXCEPT ![r].loaded.desired = d, ![r].at = at]
        <5>1. PICK d : d = (\/ row.desired
                            \/ ~act[r].loaded.desired
                               /\ act[r].loaded.state \in {"auth_required", "error"})
          OBVIOUS
        <5>2. row.desired \in BOOLEAN
          BY <1>3 DEF Row
        <5>3. d \in BOOLEAN
          BY <5>1, <5>2
        <5>. QED  BY <1>9, <3>2, <5>1, <5>3 DEF Poll
      <4>2. PICK l : l = [act[r].loaded EXCEPT !.desired = d]
        OBVIOUS
      <4>3. l \in Row
        BY <1>3, <4>1, <4>2, RowsAreRows
      <4>4. PICK m : m = [act[r] EXCEPT !.loaded = l, !.at = at]
        OBVIOUS
      <4>5. m \in Entry /\ m.taken = act[r].taken
        BY <1>2, <1>3, <1>6, <4>1, <4>3, <4>4 DEF Entry
      <4>6. act' = [act EXCEPT ![r] = m]
        BY <1>2, <1>3, <4>1, <4>2, <4>4 DEF Entry, Row
      <4>. QED  BY <1>3, <4>5, <4>6
    <3>. QED  BY <3>1, <3>2
  <2>4. StopTypes' /\ Calm
    BY <1>1, <2>1, <2>2, <2>3 DEF StopTypes, Calm
  <2>. QED  BY <1>4, <2>1, <2>2, <2>4, CalmTypes
<1>10. CASE CallStart(r)
  <2>1. UNCHANGED <<platform, row, changed, instance, conn, loopOwner, login, lock, server,
                    ops, faults>>
    BY <1>10 DEF CallStart, bounds
  <2>2. /\ act' \in [Actors -> Entry]
        /\ \A b \in Actors : act'[b].taken \in {None, act[b].taken}
    BY <1>1, <1>2, <1>6, <1>10, MovesTypes DEF CallStart
  <2>3. /\ slot' \in Sups \cup {None} /\ sup' \in [Sups -> SupStates] /\ stopping' \in BOOLEAN
        /\ \A s \in Sups : sup'[s] = "closing" => sup[s] = "closing"
    <3>1. CASE Live(slot)
      BY <1>1, <1>10, <3>1 DEF CallStart, ManagerStart, StopTypes
    <3>2. CASE ~Live(slot)
      BY <1>1, <1>5, <1>10, <3>2, RegisterTypes DEF CallStart, ManagerStart
    <3>. QED  BY <3>1, <3>2
  <2>4. StopTypes' /\ Calm
    BY <1>1, <2>1, <2>2, <2>3 DEF StopTypes, Calm
  <2>. QED  BY <1>4, <2>1, <2>4, CalmTypes
<1>11. CASE StartLogin(r)
  <2>1. UNCHANGED <<platform, row, changed, slot, instance, stopping, sup, conn, loopOwner,
                    act, lock, server, ops, faults>>
    BY <1>11 DEF StartLogin, registry, bounds
  <2>2. login' \in BOOLEAN
    BY <1>5, <1>11 DEF StartLogin
  <2>3. StopTypes' /\ Calm
    BY <1>1, <2>1, <2>2 DEF StopTypes, Calm
  <2>. QED  BY <1>4, <2>1, <2>3, CalmTypes
<1>12. CASE Open(r)
  <2>1. UNCHANGED <<platform, row, changed, slot, instance, stopping, sup, conn, loopOwner,
                    login, lock, server, faults>>
    BY <1>12 DEF Open, registry
  <2>2. ops > 0 /\ ops' = ops - 1
    BY <1>12 DEF Open
  <2>3. PICK op \in Operations, at \in {"stop", "ask", "commit"} :
          act' = [act EXCEPT ![r] = [Idle EXCEPT !.op = op, !.loaded = Loads(op), !.at = at]]
    BY <1>12 DEF Open
  <2>4. op \in Ops
    BY <2>3 DEF Operations, Ops
  <2>5. PICK m : m = [Idle EXCEPT !.op = op, !.loaded = Loads(op), !.at = at]
    OBVIOUS
  <2>6. Loads(op) \in Row
    BY <1>3, RowsAreRows DEF Loads
  <2>7. m \in Entry /\ m.taken = Idle.taken
    BY <1>3, <1>6, <2>4, <2>5, <2>6, EntriesAreEntries DEF Entry
  <2>8. Idle.taken = None
    BY DEF Idle
  <2>9. StopTypes' /\ Calm
    BY <1>1, <1>3, <2>1, <2>3, <2>5, <2>7, <2>8 DEF StopTypes, Calm
  <2>. QED  BY <1>4, <2>1, <2>2, <2>9, CalmTypes
<1>. QED  BY <1>7, <1>8, <1>9, <1>10, <1>11, <1>12

\* The ends of a stop() that waited for a supervisor.
LEMMA JoinIsCalm ==
  ASSUME ConnectionTypeOK, NEW a \in Actors, TaskEnds(a) \/ JoinTimeout(a)
  PROVE  ConnectionTypeOK' /\ Calm
<1>1. StopTypes /\ OtherTypes
  BY TypesSplit
<1>2. act \in [Actors -> Entry] /\ act[a] \in Entry /\ row \in Row
  BY <1>1 DEF StopTypes
<1>3. lock \in Requests \cup {None} /\ server \in {"up", "stopping", "down"}
  BY <1>1 DEF OtherTypes
<1>4. CASE TaskEnds(a)
  <2>1. UNCHANGED <<platform, instance, conn, loopOwner, lock, server, ops, faults>>
    BY <1>4 DEF TaskEnds, bounds
  <2>2. StopTypes' /\ Settles
    BY <1>1, <1>2, <1>4, AfterStopTypes DEF TaskEnds
  <2>3. Calm
    BY <2>1, <2>2 DEF Calm, Settles
  <2>. QED  BY <1>3, <2>1, <2>2, <2>3, CalmTypes
<1>5. CASE JoinTimeout(a)
  <2>1. UNCHANGED <<platform, row, changed, slot, instance, stopping, conn, loopOwner, login,
                    act, lock, server, ops, faults>>
    BY <1>5 DEF JoinTimeout, registry, bounds
  <2>2. /\ sup' \in [Sups -> SupStates]
        /\ \A s \in Sups : sup'[s] = "closing" => sup[s] = "closing"
    BY <1>1, <1>5 DEF JoinTimeout, StopTypes, SupStates
  <2>3. StopTypes' /\ Calm
    BY <1>1, <2>1, <2>2 DEF StopTypes, Calm
  <2>. QED  BY <1>3, <2>1, <2>3, CalmTypes
<1>. QED  BY <1>4, <1>5

\* The watchdog takes its snapshot, a code expires, the process begins and
\* ends.
LEMMA ProcessIsCalm ==
  ASSUME ConnectionTypeOK, CodeExpires \/ ListRows \/ Shutdown \/ Boot
  PROVE  ConnectionTypeOK' /\ Calm
<1>1. StopTypes /\ OtherTypes
  BY TypesSplit
<1>2. act \in [Actors -> Entry] /\ row \in Row
  BY <1>1 DEF StopTypes
<1>3. lock \in Requests \cup {None} /\ server \in {"up", "stopping", "down"}
  BY <1>1 DEF OtherTypes
<1>4. FALSE \in BOOLEAN
  OBVIOUS
<1>5. Idle \in Entry /\ Idle.taken = None
  BY EntriesAreEntries DEF Idle
<1>6. CASE CodeExpires
  <2>1. UNCHANGED <<platform, changed, slot, instance, stopping, sup, conn, loopOwner, login,
                    act, lock, server, ops, faults>>
    BY <1>6 DEF CodeExpires, registry, bounds
  <2>2. row' \in Row
    BY <1>2, <1>6, RowsAreRows DEF CodeExpires
  <2>3. StopTypes' /\ Calm
    BY <1>1, <2>1, <2>2 DEF StopTypes, Calm
  <2>. QED  BY <1>3, <2>1, <2>3, CalmTypes
<1>7. CASE ListRows
  <2>1. UNCHANGED <<platform, row, slot, instance, stopping, sup, conn, loopOwner, login,
                    lock, server, ops, faults>>
    BY <1>7 DEF ListRows, registry, bounds
  <2>2. PICK m : m = [Idle EXCEPT !.op = "check", !.at = "check", !.loaded = row]
    OBVIOUS
  <2>3. m \in Entry /\ m.taken = None
    BY <1>2, <1>5, <2>2 DEF Entry, Ops, Ats
  <2>4. act' = [act EXCEPT !["watchdog"] = m]
    BY <1>7, <2>2 DEF ListRows
  <2>5. changed' \in BOOLEAN
    BY <1>4, <1>7 DEF ListRows
  <2>6. StopTypes' /\ Calm
    BY <1>1, <1>2, <2>1, <2>3, <2>4, <2>5, TheActors DEF StopTypes, Calm
  <2>. QED  BY <1>3, <2>1, <2>6, CalmTypes
<1>8. CASE Shutdown
  <2>1. UNCHANGED <<platform, row, slot, instance, stopping, sup, conn, loopOwner, login,
                    lock, ops>>
    BY <1>8 DEF Shutdown, registry
  <2>2. /\ changed' = FALSE /\ server' = "stopping"
        /\ faults > 0 /\ faults' = faults - 1
    BY <1>8 DEF Shutdown
  <2>3. PICK m : m = [Idle EXCEPT !.op = "stop_all", !.at = "stop"]
    OBVIOUS
  <2>4. m \in Entry /\ m.taken = None
    BY <1>5, <2>3 DEF Entry, Ops, Ats
  <2>5. act' = [act EXCEPT !["watchdog"] = Idle, !["lifespan"] = m]
    BY <1>8, <2>3 DEF Shutdown
  <2>6. StopTypes' /\ Calm
    BY <1>1, <1>2, <1>4, <1>5, <2>1, <2>2, <2>4, <2>5 DEF StopTypes, Calm
  <2>. QED  BY <1>3, <2>1, <2>2, <2>6, CalmTypes
<1>9. CASE Boot
  <2>1. /\ UNCHANGED <<platform, changed, instance, stopping, conn, loopOwner, login, act, lock,
                       ops, faults>>
        /\ server' = "up"
    BY <1>9 DEF Boot, bounds
  <2>2. /\ row' \in Row /\ slot' \in Sups \cup {None} /\ sup' \in [Sups -> SupStates]
        /\ \A s \in Sups : sup'[s] = "closing" => sup[s] = "closing"
    <3>1. 1 \in Sups
      BY ScenariosAreBounded DEF Sups
    <3>2. [row EXCEPT !.state = "starting"] \in Row
      BY <1>2, RowsAreRows DEF States
    <3>3. \/ UNCHANGED <<row, slot, sup>>
          \/ /\ row' = [row EXCEPT !.state = "starting"]
             /\ slot' = 1 /\ sup' = [sup EXCEPT ![1] = "ready"]
      BY <1>9 DEF Boot
    <3>. QED  BY <1>1, <3>1, <3>2, <3>3 DEF StopTypes, SupStates
  <2>3. StopTypes' /\ Calm
    BY <1>1, <2>1, <2>2 DEF StopTypes, Calm
  <2>. QED  BY <1>3, <2>1, <2>3, CalmTypes
<1>. QED  BY <1>6, <1>7, <1>8, <1>9
----------------------------------------------------------------------------
(* The steps that begin a stop(). *)

\* stop() keeps the types of what it leaves alone.
LEMMA TakingTypes ==
  ASSUME ConnectionTypeOK, NEW a \in Actors, NEW e \in Entry, NEW base \in Row,
         ManagerStop(a, e, base), UNCHANGED <<platform, lock, server, ops, faults>>
  PROVE  ConnectionTypeOK' /\ TakesTheConnector
<1>1. OtherTypes
  BY TypesSplit
<1>2. StopTypes' /\ TakesTheConnector
  BY ManagerStopTypes
<1>3. \E c \in Scenarios : platform' = c.platform /\ ops' \in 0..c.ops /\ faults' \in 0..c.faults
  BY <1>1, BoundsTypes
<1>4. OtherTypes'
  BY <1>1, <1>2, <1>3 DEF OtherTypes, TakesTheConnector
<1>. QED  BY <1>2, <1>4, TypesSplit

\* A request, the inbound handler, the watchdog and the lifespan call stop(),
\* or do something calm.
LEMMA StoppersTakeOrAreCalm ==
  ASSUME ConnectionTypeOK,
         (\E r \in Requests : CallStop(r)) \/ Bind \/ CheckRow \/ StopAll
  PROVE  /\ ConnectionTypeOK' /\ platform' = platform
         /\ Calm \/ TakesTheConnector
<1>1. StopTypes /\ OtherTypes
  BY TypesSplit
<1>2. act \in [Actors -> Entry] /\ row \in Row
  BY <1>1 DEF StopTypes
<1>3. lock \in Requests \cup {None} /\ server \in {"up", "stopping", "down"}
  BY <1>1 DEF OtherTypes
<1>4. Idle \in Entry /\ Idle.taken = None
  BY EntriesAreEntries DEF Idle
<1>5. FALSE \in BOOLEAN /\ TRUE \in BOOLEAN /\ Watched \in BOOLEAN
  BY DEF Watched
<1>6. CASE \E r \in Requests : CallStop(r)
  <2>1. PICK r \in Requests : CallStop(r)
    BY <1>6
  <2>2. /\ ManagerStop(r, act[r], row)
        /\ UNCHANGED <<platform, lock, server, ops, faults>>
    BY <2>1 DEF CallStop, bounds
  <2>. QED  BY <1>2, <2>2, TheActors, TakingTypes
<1>7. CASE Bind
  <2>1. UNCHANGED <<platform, lock, server, ops, faults>>
    BY <1>7 DEF Bind, bounds
  <2>2. PICK b : b = [row EXCEPT !.bound = TRUE, !.code = "none"]
    OBVIOUS
  <2>3. b \in Row
    BY <1>2, <2>2 DEF Row
  <2>4. CASE row.desired
    <3>1. /\ row' = b /\ changed' = Watched
          /\ UNCHANGED <<slot, instance, stopping, sup, conn, loopOwner, login, act>>
      BY <1>7, <2>2, <2>4 DEF Bind, registry
    <3>2. StopTypes' /\ Calm
      BY <1>1, <1>5, <2>1, <2>3, <3>1 DEF StopTypes, Calm
    <3>. QED  BY <1>3, <2>1, <3>2, CalmTypes
  <2>5. CASE ~row.desired
    <3>1. PICK e : e = [Idle EXCEPT !.op = "bound", !.loaded = b]
      OBVIOUS
    <3>2. e \in Entry
      BY <1>4, <2>3, <3>1 DEF Entry, Ops
    <3>3. ManagerStop("binder", e, b)
      BY <1>7, <2>2, <2>5, <3>1 DEF Bind
    <3>. QED  BY <2>1, <2>3, <3>2, <3>3, TheActors, TakingTypes
  <2>. QED  BY <2>4, <2>5
<1>8. CASE CheckRow
  <2>1. UNCHANGED <<platform, lock, server, ops, faults>>
    BY <1>8 DEF CheckRow, bounds
  <2>2. CASE BindingExpired \/ Abnormal
    <3>1. PICK e : e = [act["watchdog"] EXCEPT !.op = IF Abnormal THEN "disable" ELSE "expire"]
      OBVIOUS
    <3>2. e \in Entry
      BY <1>2, <3>1, TheActors DEF Entry, Ops
    <3>3. ManagerStop("watchdog", e, row)
      BY <1>8, <2>2, <3>1 DEF CheckRow
    <3>. QED  BY <1>2, <2>1, <3>2, <3>3, TheActors, TakingTypes
  <2>3. CASE ~(BindingExpired \/ Abnormal)
    <3>1. /\ Done("watchdog") /\ changed' = FALSE
          /\ UNCHANGED <<row, slot, instance, stopping, sup, conn, loopOwner, login>>
      BY <1>8, <2>3 DEF CheckRow, registry
    <3>2. /\ act' \in [Actors -> Entry]
          /\ \A b \in Actors : act'[b].taken \in {None, act[b].taken}
      BY <1>2, <1>4, <3>1 DEF Done
    <3>3. StopTypes' /\ Calm
      BY <1>1, <1>5, <2>1, <3>1, <3>2 DEF StopTypes, Calm
    <3>. QED  BY <1>3, <2>1, <3>3, CalmTypes
  <2>. QED  BY <2>2, <2>3
<1>9. CASE StopAll
  <2>1. UNCHANGED <<platform, lock, server, ops, faults>>
    BY <1>9 DEF StopAll, bounds
  <2>2. CASE slot = None
    <3>1. /\ Goto("lifespan", "halt")
          /\ UNCHANGED <<row, changed, slot, instance, stopping, sup, conn, loopOwner, login>>
      BY <1>9, <2>2 DEF StopAll, registry
    <3>2. "halt" \in Ats
      BY DEF Ats
    <3>3. /\ act' \in [Actors -> Entry]
          /\ \A b \in Actors : act'[b].taken \in {None, act[b].taken}
      BY <1>1, <3>1, <3>2, TheActors, MovesTypes
    <3>4. StopTypes' /\ Calm
      BY <1>1, <2>1, <3>1, <3>3 DEF StopTypes, Calm
    <3>. QED  BY <1>3, <2>1, <3>4, CalmTypes
  <2>3. CASE slot # None
    <3>1. ManagerStop("lifespan", act["lifespan"], row)
      BY <1>9, <2>3 DEF StopAll
    <3>. QED  BY <1>2, <2>1, <3>1, TheActors, TakingTypes
  <2>. QED  BY <2>2, <2>3
<1>. QED  BY <1>6, <1>7, <1>8, <1>9

----------------------------------------------------------------------------
(* The steps of connectors and supervisors. *)

\* connector.stop() returns: it lets go of its connector and does not touch
\* another one.
GivesUp(a) ==
  /\ platform' = platform /\ instance' = instance
  /\ \A s \in Sups : sup'[s] = "closing" => sup[s] = "closing"
  /\ \A b \in Actors : act'[b].taken \in {None, act[b].taken}
  /\ \/ UNCHANGED <<conn, loopOwner>>
     \/ /\ act[a].taken \in Sups
        /\ \E x \in ConnStates \ {"open"} :
             /\ conn' = [conn EXCEPT ![act[a].taken] = x]
             /\ \/ loopOwner' = loopOwner
                \/ x \notin {"closing", "hung"} /\ loopOwner = act[a].taken /\ loopOwner' = None
             /\ x \in {"closing", "hung"} => ThreadAlive(act[a].taken)

\* What StopReturns does to connectors and to the types.
LEMMA StopReturnsTypes ==
  ASSUME ConnectionTypeOK, Told, NEW a \in Actors, StopReturns(a)
  PROVE  ConnectionTypeOK' /\ GivesUp(a)
<1>1. StopTypes /\ OtherTypes
  BY TypesSplit
<1>2. act \in [Actors -> Entry] /\ act[a] \in Entry /\ row \in Row /\ slot \in Sups \cup {None}
  BY <1>1 DEF StopTypes
<1>3. conn \in [Sups -> ConnStates] /\ loopOwner \in Sups \cup {None}
  BY <1>1 DEF OtherTypes
<1>4. UNCHANGED <<platform, instance, lock, server, ops, faults>>
  BY DEF StopReturns, bounds
<1>5. StopTypes' /\ Settles
  <2>1. CASE Live(slot)
    <3>1. PICK m : m = [act[a] EXCEPT !.taken = None, !.task = slot, !.at = "joining"]
      OBVIOUS
    <3>2. m \in Entry /\ m.taken = None
      BY <1>2, <3>1 DEF Entry, Ats
    <3>3. act' = [act EXCEPT ![a] = m]
      BY <1>2, <2>1, <3>1 DEF StopReturns
    <3>4. UNCHANGED <<row, changed, slot, sup, stopping, login>>
      BY <2>1 DEF StopReturns
    <3>. QED  BY <1>1, <1>2, <3>2, <3>3, <3>4 DEF StopTypes, Settles
  <2>2. CASE ~Live(slot)
    <3>1. AfterStop(a, act[a], row)
      BY <2>2 DEF StopReturns
    <3>. QED  BY <1>1, <1>2, <3>1, AfterStopTypes
  <2>. QED  BY <2>1, <2>2
<1>6. /\ \/ UNCHANGED <<conn, loopOwner>>
         \/ /\ act[a].taken \in Sups
            /\ \E x \in ConnStates \ {"open"} :
                 /\ conn' = [conn EXCEPT ![act[a].taken] = x]
                 /\ \/ loopOwner' = loopOwner
                    \/ x \notin {"closing", "hung"} /\ loopOwner = act[a].taken /\ loopOwner' = None
                 /\ x \in {"closing", "hung"} => ThreadAlive(act[a].taken)
  <2>1. PICK s : s = act[a].taken
    OBVIOUS
  <2>2. CASE s = None
    BY <2>1, <2>2 DEF StopReturns
  <2>3. CASE s # None /\ conn[s] \notin {"closing", "hung"}
    <3>1. s \in Sups /\ conn[s] # "open" /\ conn[s] \in ConnStates
      BY <1>2, <1>3, <2>1, <2>3 DEF Told, Entry
    <3>2. PICK x : x = IF Live(s) THEN conn[s] ELSE "none"
      OBVIOUS
    <3>3. x \in ConnStates \ {"open"} /\ x \notin {"closing", "hung"}
      BY <2>3, <3>1, <3>2 DEF ConnStates
    <3>4. conn' = [conn EXCEPT ![s] = x]
      BY <1>3, <2>1, <2>3, <3>1, <3>2 DEF StopReturns
    <3>5. loopOwner' = IF loopOwner = s THEN None ELSE loopOwner
      BY <2>1, <2>3 DEF StopReturns
    <3>. QED  BY <2>1, <3>1, <3>3, <3>4, <3>5
  <2>4. CASE s # None /\ conn[s] \in {"closing", "hung"}
    <3>1. s \in Sups
      BY <1>2, <2>1, <2>4 DEF Entry
    <3>2. PICK x : x = IF platform = "lark" THEN "hung" ELSE IF Live(s) THEN "closed" ELSE "none"
      OBVIOUS
    <3>3. x \in ConnStates \ {"open"}
      BY <3>2 DEF ConnStates
    <3>4. conn' = [conn EXCEPT ![s] = x] /\ loopOwner' = loopOwner
      BY <2>1, <2>4, <3>2 DEF StopReturns
    <3>. QED  BY <2>1, <2>4, <3>1, <3>3, <3>4 DEF ThreadAlive
  <2>. QED  BY <2>2, <2>3, <2>4
<1>7. conn' \in [Sups -> ConnStates] /\ loopOwner' \in Sups \cup {None}
  BY <1>3, <1>6
<1>8. \E c \in Scenarios : platform' = c.platform /\ ops' \in 0..c.ops /\ faults' \in 0..c.faults
  BY <1>1, <1>4, BoundsTypes
<1>9. OtherTypes'
  BY <1>1, <1>4, <1>7, <1>8 DEF OtherTypes
<1>. QED  BY <1>4, <1>5, <1>6, <1>9, TypesSplit DEF GivesUp, Settles
\* Recording a state writes a row.
LEMMA RecordTypes ==
  ASSUME StopTypes, NEW x \in States, Record(x)
  PROVE  row' \in Row /\ changed' \in BOOLEAN
<1>1. row \in Row /\ changed \in BOOLEAN /\ Watched \in BOOLEAN
  BY DEF StopTypes, Watched
<1>2. [row EXCEPT !.state = x] \in Row
  BY <1>1, RowsAreRows
<1>. QED  BY <1>1, <1>2 DEF Record

\* What becomes of connectors when a supervisor or a thread moves.
Connects(s) ==
  /\ platform = "lark" => loopOwner = None
  /\ conn' = [conn EXCEPT ![s] = "open"] /\ instance' = s
  /\ loopOwner' = IF platform = "lark" THEN s ELSE None
  /\ \A r \in Sups : sup'[r] = "closing" => sup[r] = "closing" /\ r # s
  /\ \A a \in Actors : act'[a].taken \in {None, act[a].taken} /\ act'[a].taken # s

Unregisters(s) ==
  /\ conn[s] \in {"lost", "expired", "closed"}
  /\ instance' \in {None, instance} /\ instance' # s
  /\ conn' = conn \/ conn' = [conn EXCEPT ![s] = "none"]
  /\ \A r \in Sups : sup'[r] = "closing" => sup[r] = "closing" \/ r = s
  /\ UNCHANGED <<loopOwner, act>>

Releases(s) ==
  /\ sup[s] = "closing"
  /\ conn' = [conn EXCEPT ![s] = "none"]
  /\ loopOwner' = IF loopOwner = s THEN None ELSE loopOwner
  /\ \A r \in Sups : sup'[r] = "closing" => sup[r] = "closing"
  /\ UNCHANGED <<instance, act>>

ThreadMoves(s) ==
  /\ \/ conn[s] = "open" /\ \E x \in {"lost", "expired"} : conn' = [conn EXCEPT ![s] = x]
     \/ conn[s] \in {"closing", "hung"} /\ \E x \in {"closed", "none"} : conn' = [conn EXCEPT ![s] = x]
  /\ UNCHANGED <<instance, loopOwner, sup, act>>

\* The head of the loop.
LEMMA ConnectTypes ==
  ASSUME ConnectionTypeOK, NEW s \in Sups, Connect(s), UNCHANGED <<platform, slot, stopping, login>>
  PROVE  /\ StopTypes' /\ conn' \in [Sups -> ConnStates]
         /\ instance' \in Sups \cup {None} /\ loopOwner' \in Sups \cup {None}
         /\ Calm \/ Connects(s)
<1>1. StopTypes /\ OtherTypes
  BY TypesSplit
<1>2. /\ sup \in [Sups -> SupStates] /\ act \in [Actors -> Entry]
      /\ conn \in [Sups -> ConnStates] /\ loopOwner \in Sups \cup {None}
      /\ instance \in Sups \cup {None}
  BY <1>1 DEF StopTypes, OtherTypes
<1>3. CASE stopping
  <2>1. sup' = [sup EXCEPT ![s] = "none"] /\ UNCHANGED <<row, changed, instance, conn, loopOwner, act>>
    BY <1>3 DEF Connect
  <2>2. sup' \in [Sups -> SupStates] /\ \A r \in Sups : sup'[r] = "closing" => sup[r] = "closing"
    BY <1>2, <2>1 DEF SupStates
  <2>. QED  BY <1>1, <1>2, <2>1, <2>2 DEF StopTypes, Calm
<1>4. CASE ~stopping /\ "config" \in StartOutcomes
  <2>1. platform = "lark" /\ loopOwner # None
    BY <1>4 DEF StartOutcomes
  <2>2. "ok" \notin StartOutcomes
    BY <2>1 DEF StartOutcomes
  <2>3. /\ sup' = [sup EXCEPT ![s] = "none"] /\ Record("error")
        /\ UNCHANGED <<instance, conn, loopOwner, act>>
    BY <1>4, <2>2 DEF Connect
  <2>4. sup' \in [Sups -> SupStates] /\ \A r \in Sups : sup'[r] = "closing" => sup[r] = "closing"
    BY <1>2, <2>3 DEF SupStates
  <2>5. row' \in Row /\ changed' \in BOOLEAN
    BY <1>1, <2>3, RecordTypes DEF States
  <2>. QED  BY <1>1, <1>2, <2>3, <2>4, <2>5 DEF StopTypes, Calm
<1>5. CASE ~stopping /\ "config" \notin StartOutcomes
  <2>1. platform = "lark" => loopOwner = None
    BY <1>5 DEF StartOutcomes
  <2>2. /\ sup' = [sup EXCEPT ![s] = "online"]
        /\ conn' = [conn EXCEPT ![s] = "open"]
        /\ instance' = s
        /\ loopOwner' = IF platform = "lark" THEN s ELSE None
        /\ Record("online") /\ Supersede(s)
    BY <1>5 DEF Connect
  <2>3. /\ sup' \in [Sups -> SupStates]
        /\ \A r \in Sups : sup'[r] = "closing" => sup[r] = "closing" /\ r # s
    BY <1>2, <2>2 DEF SupStates
  <2>4. row' \in Row /\ changed' \in BOOLEAN
    BY <1>1, <2>2, RecordTypes DEF States
  <2>5. /\ act' \in [Actors -> Entry]
        /\ \A a \in Actors : act'[a].taken \in {None, act[a].taken} /\ act'[a].taken # s
    <3>1. act' = [a \in Actors |->
                    IF act[a].taken = s THEN [act[a] EXCEPT !.taken = None] ELSE act[a]]
      BY <2>2 DEF Supersede
    <3>2. ASSUME NEW a \in Actors
          PROVE  /\ act'[a] \in Entry
                 /\ act'[a].taken \in {None, act[a].taken} /\ act'[a].taken # s
      <4>1. CASE act[a].taken = s
        <5>1. PICK m : m = [act[a] EXCEPT !.taken = None]
          OBVIOUS
        <5>2. m \in Entry /\ m.taken = None
          BY <1>2, <5>1 DEF Entry
        <5>3. act'[a] = m
          BY <3>1, <4>1, <5>1
        <5>. QED  BY <5>2, <5>3, NoSupIsNone
      <4>2. CASE act[a].taken # s
        BY <1>2, <3>1, <4>2
      <4>. QED  BY <4>1, <4>2
    <3>. QED  BY <3>1, <3>2
  <2>6. conn' \in [Sups -> ConnStates] /\ loopOwner' \in Sups \cup {None}
    BY <1>2, <2>2 DEF ConnStates
  <2>. QED  BY <1>1, <2>1, <2>2, <2>3, <2>4, <2>5, <2>6 DEF StopTypes, Connects
<1>. QED  BY <1>3, <1>4, <1>5

\* What is recorded once a dead connector is stopped.
LEMMA RecordClosedTypes ==
  ASSUME StopTypes, NEW s \in Sups, RecordClosed(s)
  PROVE  /\ row' \in Row /\ changed' \in BOOLEAN
         /\ sup' \in [Sups -> SupStates]
         /\ \A r \in Sups : sup'[r] = "closing" => sup[r] = "closing"
<1>1. PICK x \in States, y \in {"none", "backoff"} : sup' = [sup EXCEPT ![s] = y] /\ Record(x)
  BY DEF RecordClosed, States
<1>2. sup \in [Sups -> SupStates]
  BY DEF StopTypes
<1>3. row' \in Row /\ changed' \in BOOLEAN
  BY <1>1, RecordTypes
<1>. QED  BY <1>1, <1>2, <1>3 DEF SupStates

\* Supervisors, threads and the platform.
LEMMA SupervisorForms ==
  ASSUME ConnectionTypeOK, NEW s \in Sups, Supervisor(s) \/ Drop(s) \/ HungThreadEnds(s)
  PROVE  /\ ConnectionTypeOK' /\ platform' = platform
         /\ Calm \/ Connects(s) \/ Unregisters(s) \/ Releases(s) \/ ThreadMoves(s)
<1>1. StopTypes /\ OtherTypes
  BY TypesSplit
<1>2. /\ sup \in [Sups -> SupStates] /\ act \in [Actors -> Entry]
      /\ conn \in [Sups -> ConnStates] /\ loopOwner \in Sups \cup {None}
      /\ instance \in Sups \cup {None}
  BY <1>1 DEF StopTypes, OtherTypes
<1>3. /\ UNCHANGED <<platform, slot, stopping, login, lock, server, ops>>
      /\ faults' = faults \/ (faults > 0 /\ faults' = faults - 1)
  BY DEF Supervisor, Supervise, ThreadEnds, HungThreadEnds, Ends, Drop, bounds, registry
<1>4. SUFFICES /\ StopTypes' /\ conn' \in [Sups -> ConnStates]
               /\ instance' \in Sups \cup {None} /\ loopOwner' \in Sups \cup {None}
               /\ Calm \/ Connects(s) \/ Unregisters(s) \/ Releases(s) \/ ThreadMoves(s)
  <2>1. \E c \in Scenarios : platform' = c.platform /\ ops' \in 0..c.ops /\ faults' \in 0..c.faults
    BY <1>1, <1>3, BoundsTypes
  <2>2. ASSUME conn' \in [Sups -> ConnStates], instance' \in Sups \cup {None},
               loopOwner' \in Sups \cup {None}
        PROVE  OtherTypes'
    BY <1>1, <1>3, <2>1, <2>2 DEF OtherTypes
  <2>. QED  BY <1>3, <2>2, TypesSplit
<1>5. CASE Begin(s) \/ WakeUp(s)
  <2>1. Connect(s)
    BY <1>5 DEF Begin, WakeUp
  <2>. QED  BY <1>3, <2>1, ConnectTypes
<1>6. CASE SeeClosed(s)
  <2>1. /\ conn[s] \in {"lost", "expired", "closed"}
        /\ instance' = IF instance = s THEN None ELSE instance
        /\ conn' = conn \/ conn' = [conn EXCEPT ![s] = "none"]
        /\ UNCHANGED <<loopOwner, act>>
    BY <1>6 DEF SeeClosed, Unregister
  <2>2. /\ row' \in Row /\ changed' \in BOOLEAN /\ sup' \in [Sups -> SupStates]
        /\ \A r \in Sups : sup'[r] = "closing" => sup[r] = "closing" \/ r = s
    <3>1. CASE RecordClosed(s)
      BY <1>1, <3>1, RecordClosedTypes
    <3>2. CASE ~RecordClosed(s)
      <4>1. \E y \in {"none", "closing"} : sup' = [sup EXCEPT ![s] = y]
        BY <1>6, <3>2 DEF SeeClosed
      <4>2. UNCHANGED <<row, changed>>
        BY <1>6, <3>2 DEF SeeClosed
      <4>. QED  BY <1>1, <1>2, <4>1, <4>2 DEF StopTypes, SupStates
    <3>. QED  BY <3>1, <3>2
  <2>3. conn' \in [Sups -> ConnStates] /\ instance' \in Sups \cup {None}
    BY <1>2, <2>1 DEF ConnStates
  <2>4. instance' \in {None, instance} /\ instance' # s
    BY <2>1, NoSupIsNone
  <2>. QED  BY <1>1, <1>2, <1>3, <2>1, <2>2, <2>3, <2>4 DEF StopTypes, Unregisters
<1>7. CASE Release(s)
  <2>1. /\ sup[s] = "closing" /\ RecordClosed(s)
        /\ conn' = [conn EXCEPT ![s] = "none"]
        /\ loopOwner' = IF loopOwner = s THEN None ELSE loopOwner
        /\ UNCHANGED <<instance, act>>
    BY <1>7 DEF Release
  <2>2. /\ row' \in Row /\ changed' \in BOOLEAN /\ sup' \in [Sups -> SupStates]
        /\ \A r \in Sups : sup'[r] = "closing" => sup[r] = "closing"
    BY <1>1, <2>1, RecordClosedTypes
  <2>3. conn' \in [Sups -> ConnStates] /\ loopOwner' \in Sups \cup {None}
    BY <1>2, <2>1 DEF ConnStates
  <2>. QED  BY <1>1, <1>2, <1>3, <2>1, <2>2, <2>3 DEF StopTypes, Releases
<1>8. CASE Drop(s) \/ ThreadEnds(s) \/ HungThreadEnds(s)
  <2>1. UNCHANGED <<row, changed, slot, instance, stopping, sup, loopOwner, login, act>>
    BY <1>8 DEF Drop, ThreadEnds, HungThreadEnds, Ends, registry
  <2>2. \/ conn[s] = "open" /\ \E x \in {"lost", "expired"} : conn' = [conn EXCEPT ![s] = x]
        \/ conn[s] \in {"closing", "hung"} /\ \E x \in {"closed", "none"} : conn' = [conn EXCEPT ![s] = x]
    BY <1>8 DEF Drop, ThreadEnds, HungThreadEnds, Ends
  <2>3. conn' \in [Sups -> ConnStates]
    BY <1>2, <2>2 DEF ConnStates
  <2>4. StopTypes'
    BY <1>1, <2>1 DEF StopTypes
  <2>. QED  BY <1>2, <2>1, <2>2, <2>3, <2>4 DEF ThreadMoves
<1>. QED  BY <1>5, <1>6, <1>7, <1>8 DEF Supervisor, Supervise

\* The end of the process takes everything but the row with it.
LEMMA FreshTypes ==
  ASSUME ConnectionTypeOK, Crash \/ ShutDown
  PROVE  ConnectionTypeOK' /\ Fresh /\ platform' = platform
<1>1. StopTypes /\ OtherTypes
  BY TypesSplit
<1>2. /\ Fresh /\ platform' = platform /\ row' = row /\ server' = "down" /\ ops' = ops
      /\ faults' = faults \/ (faults > 0 /\ faults' = faults - 1)
  BY DEF Crash, ShutDown, bounds
<1>3. FALSE \in BOOLEAN
  OBVIOUS
<1>4. StopTypes'
  BY <1>1, <1>2, <1>3, EntriesAreEntries DEF StopTypes, Fresh, SupStates
<1>5. \E c \in Scenarios : platform' = c.platform /\ ops' \in 0..c.ops /\ faults' \in 0..c.faults
  BY <1>1, <1>2, BoundsTypes
<1>6. OtherTypes'
  BY <1>1, <1>2, <1>5 DEF OtherTypes, Fresh, ConnStates
<1>. QED  BY <1>2, <1>4, <1>6, TypesSplit
----------------------------------------------------------------------------
(* The invariant. *)

\* A step that takes no connector and touches none keeps them.
LEMMA CalmIsSafe ==
  ASSUME ConnectionTypeOK, ConnectionTypeOK', Safe, Calm
  PROVE  Safe'
<1>1. platform' = platform /\ instance' = instance /\ conn' = conn /\ loopOwner' = loopOwner
  BY DEF Calm
<1>2. Told'
  BY <1>1 DEF Safe, Told, Calm
<1>3. Released'
  BY <1>1 DEF Safe, Released, Calm
<1>4. Owned' /\ RegisteredIsNotStopped'
  BY <1>1 DEF Safe, Owned, ThreadAlive, RegisteredIsNotStopped
<1>. QED  BY <1>2, <1>3, <1>4 DEF Safe

\* stop() keeps them: what it takes is no longer registered and is told to stop.
LEMMA TakingIsSafe ==
  ASSUME ConnectionTypeOK, ConnectionTypeOK', Safe, platform' = platform, TakesTheConnector
  PROVE  Safe'
<1>1. \A a \in Actors : act[a].taken \in Sups \cup {None} /\ act'[a].taken \in Sups \cup {None}
  BY TypesSplit DEF StopTypes, Entry
<1>2. instance' = None /\ loopOwner' = loopOwner
  BY DEF TakesTheConnector
<1>3. Told'
  <2>. SUFFICES ASSUME NEW a \in Actors, act'[a].taken # None
                PROVE  act'[a].taken # instance' /\ conn'[act'[a].taken] # "open"
    BY DEF Told
  <2>1. PICK t \in Sups : t = act'[a].taken
    BY <1>1
  <2>2. t # None /\ (t = act[a].taken \/ t = instance)
    BY <2>1 DEF TakesTheConnector
  <2>3. conn'[t] # "open"
    <3>1. CASE t = instance
      BY <3>1 DEF TakesTheConnector
    <3>2. CASE t = act[a].taken
      <4>1. conn[t] # "open"
        BY <2>2, <3>2 DEF Safe, Told
      <4>. QED  BY <4>1 DEF TakesTheConnector
    <3>. QED  BY <2>2, <3>1, <3>2
  <2>. QED  BY <1>2, <2>1, <2>2, <2>3
<1>4. Released' /\ RegisteredIsNotStopped'
  BY <1>2, NoSupIsNone DEF Released, RegisteredIsNotStopped
<1>5. Owned'
  <2>. SUFFICES ASSUME platform = "lark", NEW s \in Sups, ThreadAlive(s)'
                PROVE  loopOwner' = s
    BY DEF Owned
  <2>1. ThreadAlive(s)
    BY DEF TakesTheConnector, ThreadAlive
  <2>. QED  BY <1>2, <2>1 DEF Safe, Owned
<1>. QED  BY <1>3, <1>4, <1>5 DEF Safe

\* The return of a connector's stop() keeps them: that connector is not the
\* registered one, and who frees the loop owned it with a thread that is gone.
LEMMA GivingUpIsSafe ==
  ASSUME ConnectionTypeOK, ConnectionTypeOK', Safe, NEW a \in Actors, GivesUp(a)
  PROVE  Safe'
<1>1. /\ platform' = platform /\ instance' = instance
      /\ \A s \in Sups : sup'[s] = "closing" => sup[s] = "closing"
      /\ \A b \in Actors : act'[b].taken \in {None, act[b].taken}
  BY DEF GivesUp
<1>2. CASE UNCHANGED <<conn, loopOwner>>
  <2>1. Calm
    BY <1>1, <1>2 DEF Calm
  <2>. QED  BY <2>1, CalmIsSafe
<1>3. CASE ~UNCHANGED <<conn, loopOwner>>
  <2>1. PICK t \in Sups, x \in ConnStates \ {"open"} :
          /\ t = act[a].taken
          /\ conn' = [conn EXCEPT ![t] = x]
          /\ \/ loopOwner' = loopOwner
             \/ x \notin {"closing", "hung"} /\ loopOwner = t /\ loopOwner' = None
          /\ x \in {"closing", "hung"} => ThreadAlive(t)
    BY <1>3 DEF GivesUp
  <2>2. conn \in [Sups -> ConnStates]
    BY TypesSplit DEF OtherTypes
  <2>3. t # None /\ t # instance
    BY <2>1, NoSupIsNone DEF Safe, Told
  <2>4. Told'
    <3>1. \A b \in Actors : act[b].taken \in Sups \cup {None}
      BY TypesSplit DEF StopTypes, Entry
    <3>. QED  BY <1>1, <2>1, <2>2, <3>1 DEF Safe, Told
  <2>5. Released'
    BY <1>1 DEF Safe, Released
  <2>6. RegisteredIsNotStopped'
    BY <1>1, <2>1, <2>2, <2>3, TypesSplit DEF Safe, RegisteredIsNotStopped, OtherTypes
  <2>7. Owned'
    <3>. SUFFICES ASSUME platform = "lark", NEW s \in Sups, ThreadAlive(s)'
                  PROVE  loopOwner' = s
      BY <1>1 DEF Owned
    <3>1. ThreadAlive(s)
      BY <2>1, <2>2 DEF ThreadAlive
    <3>2. loopOwner = s
      BY <3>1 DEF Safe, Owned
    <3>3. CASE loopOwner' = loopOwner
      BY <3>2, <3>3
    <3>4. CASE loopOwner' # loopOwner
      <4>1. x \notin {"closing", "hung"} /\ s = t
        BY <2>1, <3>2, <3>4
      <4>2. conn'[s] = x /\ x # "open"
        BY <2>1, <2>2, <4>1
      <4>. QED  BY <4>1, <4>2 DEF ThreadAlive
    <3>. QED  BY <3>3, <3>4
  <2>. QED  BY <2>4, <2>5, <2>6, <2>7 DEF Safe
<1>. QED  BY <1>2, <1>3

\* Supervisors and threads keep them.
LEMMA SupervisorIsSafe ==
  ASSUME ConnectionTypeOK, ConnectionTypeOK', Safe, platform' = platform, NEW s \in Sups,
         Connects(s) \/ Unregisters(s) \/ Releases(s) \/ ThreadMoves(s)
  PROVE  Safe'
<1>1. /\ conn \in [Sups -> ConnStates] /\ instance \in Sups \cup {None}
      /\ \A a \in Actors : act[a].taken \in Sups \cup {None}
  BY TypesSplit DEF OtherTypes, StopTypes, Entry
<1>2. \A a \in Actors : act'[a].taken \in Sups \cup {None}
  BY TypesSplit DEF StopTypes, Entry
<1>3. CASE Connects(s)
  <2>1. /\ platform = "lark" => loopOwner = None
        /\ conn' = [conn EXCEPT ![s] = "open"] /\ instance' = s
        /\ loopOwner' = IF platform = "lark" THEN s ELSE None
    BY <1>3 DEF Connects
  <2>2. Told'
    <3>. SUFFICES ASSUME NEW a \in Actors, act'[a].taken # None
                  PROVE  act'[a].taken # instance' /\ conn'[act'[a].taken] # "open"
      BY DEF Told
    <3>1. act'[a].taken = act[a].taken /\ act'[a].taken # s
      BY <1>3 DEF Connects
    <3>2. conn[act[a].taken] # "open"
      BY <3>1 DEF Safe, Told
    <3>. QED  BY <1>1, <1>2, <2>1, <3>1, <3>2
  <2>3. Released'
    BY <1>3, <2>1 DEF Released, Connects
  <2>4. RegisteredIsNotStopped'
    BY <1>1, <2>1 DEF RegisteredIsNotStopped
  <2>5. Owned'
    <3>. SUFFICES ASSUME platform = "lark", NEW r \in Sups, ThreadAlive(r)'
                  PROVE  loopOwner' = r
      BY DEF Owned
    <3>1. ~ThreadAlive(r)
      BY <2>1, NoSupIsNone DEF Safe, Owned
    <3>2. r = s
      BY <1>1, <2>1, <3>1 DEF ThreadAlive
    <3>. QED  BY <2>1, <3>2
  <2>. QED  BY <2>2, <2>3, <2>4, <2>5 DEF Safe
<1>4. CASE Unregisters(s)
  <2>1. /\ instance' \in {None, instance} /\ instance' # s
        /\ conn' = conn \/ conn' = [conn EXCEPT ![s] = "none"]
        /\ UNCHANGED <<loopOwner, act>>
    BY <1>4 DEF Unregisters
  <2>2. Told'
    BY <1>1, <2>1 DEF Safe, Told
  <2>3. Released'
    BY <1>4, NoSupIsNone DEF Safe, Released, Unregisters
  <2>4. RegisteredIsNotStopped'
    BY <1>1, <2>1 DEF Safe, RegisteredIsNotStopped
  <2>5. Owned'
    BY <1>1, <2>1 DEF Safe, Owned, ThreadAlive
  <2>. QED  BY <2>2, <2>3, <2>4, <2>5 DEF Safe
<1>5. CASE Releases(s)
  <2>1. /\ conn' = [conn EXCEPT ![s] = "none"]
        /\ loopOwner' = IF loopOwner = s THEN None ELSE loopOwner
        /\ UNCHANGED <<instance, act>>
    BY <1>5 DEF Releases
  <2>2. instance # s
    BY <1>5 DEF Safe, Released, Releases
  <2>3. Told'
    BY <1>1, <2>1 DEF Safe, Told
  <2>4. Released'
    BY <1>5, <2>1 DEF Safe, Released, Releases
  <2>5. RegisteredIsNotStopped'
    BY <1>1, <2>1, <2>2 DEF Safe, RegisteredIsNotStopped
  <2>6. Owned'
    BY <1>1, <2>1 DEF Safe, Owned, ThreadAlive
  <2>. QED  BY <2>3, <2>4, <2>5, <2>6 DEF Safe
<1>6. CASE ThreadMoves(s)
  <2>1. /\ \/ conn[s] = "open" /\ \E x \in {"lost", "expired"} : conn' = [conn EXCEPT ![s] = x]
           \/ conn[s] \in {"closing", "hung"} /\ \E x \in {"closed", "none"} : conn' = [conn EXCEPT ![s] = x]
        /\ UNCHANGED <<instance, loopOwner, sup, act>>
    BY <1>6 DEF ThreadMoves
  <2>2. Told'
    BY <1>1, <2>1 DEF Safe, Told
  <2>3. Released'
    BY <2>1 DEF Safe, Released
  <2>4. RegisteredIsNotStopped'
    BY <1>1, <2>1 DEF Safe, RegisteredIsNotStopped
  <2>5. Owned'
    BY <1>1, <2>1 DEF Safe, Owned, ThreadAlive
  <2>. QED  BY <2>2, <2>3, <2>4, <2>5 DEF Safe
<1>. QED  BY <1>3, <1>4, <1>5, <1>6

\* A new process has nothing registered and nothing running.
LEMMA FreshIsSafe ==
  ASSUME Fresh
  PROVE  Safe'
BY NoSupIsNone DEF Fresh, Safe, Told, Released, Owned, ThreadAlive, RegisteredIsNotStopped, Idle

\* The first states satisfy the invariant.
LEMMA InitIsSafe == Init => ConnectionTypeOK /\ Safe
<1>. SUFFICES ASSUME Init
              PROVE  ConnectionTypeOK /\ Safe
  OBVIOUS
<1>1. /\ changed = FALSE /\ stopping = FALSE /\ login = FALSE
      /\ slot = None /\ instance = None /\ loopOwner = None /\ lock = None /\ server = "down"
      /\ sup = [s \in Sups |-> "none"] /\ conn = [s \in Sups |-> "none"]
      /\ act = [a \in Actors |-> Idle]
  BY DEF Init
<1>2. FALSE \in BOOLEAN /\ TRUE \in BOOLEAN
  OBVIOUS
<1>3. row \in Row
  <2>1. PICK m : m = [NewConnection EXCEPT !.bound = RequiresBinding, !.desired = TRUE,
                                           !.state = "online"]
    OBVIOUS
  <2>2. RequiresBinding \in BOOLEAN
    BY DEF RequiresBinding, Client
  <2>3. m \in Row
    <3>1. PICK x, y : /\ x = [NewConnection EXCEPT !.bound = RequiresBinding]
                      /\ y = [x EXCEPT !.desired = TRUE]
      OBVIOUS
    <3>2. x \in Row
      BY <2>2, <3>1, RowsAreRows
    <3>3. y \in Row
      BY <1>2, <3>1, <3>2, RowsAreRows
    <3>4. "online" \in States
      BY DEF States
    <3>5. [y EXCEPT !.state = "online"] \in Row
      BY <3>3, <3>4, RowsAreRows
    <3>6. m = [y EXCEPT !.state = "online"]
      BY <2>1, <3>1, <3>2, RowsAreRows DEF Row
    <3>. QED  BY <3>5, <3>6
  <2>4. row = NewConnection \/ row = m
    BY <2>1 DEF Init
  <2>. QED  BY <2>3, <2>4, RowsAreRows
<1>4. StopTypes
  BY <1>1, <1>2, <1>3, EntriesAreEntries DEF StopTypes, SupStates
<1>5. PICK c \in Scenarios : platform = c.platform /\ ops = c.ops /\ faults = c.faults
  BY DEF Init
<1>6. c.platform \in AllPlatforms /\ c.ops \in Nat /\ c.faults \in Nat
  BY ScenariosAreBounded
<1>7. ops \in 0..c.ops /\ faults \in 0..c.faults
  BY <1>5, <1>6
<1>8. OtherTypes
  BY <1>1, <1>5, <1>6, <1>7 DEF OtherTypes, ConnStates
<1>9. Safe
  BY <1>1, NoSupIsNone DEF Safe, Told, Released, Owned, ThreadAlive, RegisteredIsNotStopped, Idle
<1>. QED  BY <1>4, <1>8, <1>9, TypesSplit

\* Every step keeps the invariant.
LEMMA NextIsSafe ==
  ASSUME ConnectionTypeOK, Safe, [Next]_vars
  PROVE  ConnectionTypeOK' /\ Safe'
<1>1. CASE \E a \in Actors : Stopping(a)
  <2>1. PICK a \in Actors : StopReturns(a) \/ TaskEnds(a) \/ JoinTimeout(a)
    BY <1>1 DEF Stopping
  <2>2. CASE StopReturns(a)
    BY <2>2, StopReturnsTypes, GivingUpIsSafe DEF Safe
  <2>3. CASE TaskEnds(a) \/ JoinTimeout(a)
    BY <2>3, JoinIsCalm, CalmIsSafe
  <2>. QED  BY <2>1, <2>2, <2>3
<1>2. CASE \E r \in Requests : StartLogin(r) \/ Open(r) \/ Request(r)
  <2>1. PICK r \in Requests : StartLogin(r) \/ Open(r) \/ Request(r)
    BY <1>2
  <2>2. CASE CallStop(r)
    BY <2>2, StoppersTakeOrAreCalm, TakingIsSafe, CalmIsSafe
  <2>3. CASE ~CallStop(r)
    <3>1. ConnectionTypeOK' /\ Calm
      BY <2>1, <2>3, RequestIsCalm DEF Request
    <3>. QED  BY <3>1, CalmIsSafe
  <2>. QED  BY <2>2, <2>3
<1>3. CASE \E s \in Sups : Supervisor(s) \/ Drop(s) \/ HungThreadEnds(s)
  BY <1>3, SupervisorForms, SupervisorIsSafe, CalmIsSafe
<1>4. CASE Bind \/ CheckRow \/ StopAll
  BY <1>4, StoppersTakeOrAreCalm, TakingIsSafe, CalmIsSafe
<1>5. CASE CodeExpires \/ ListRows \/ Shutdown \/ Boot
  BY <1>5, ProcessIsCalm, CalmIsSafe
<1>6. CASE Crash \/ ShutDown
  BY <1>6, FreshTypes, FreshIsSafe
<1>7. CASE UNCHANGED vars
  <2>1. UNCHANGED <<platform, row, changed, slot, instance, stopping, sup, conn, loopOwner,
                    login, act, lock, server, ops, faults>>
    BY <1>7 DEF vars
  <2>2. ConnectionTypeOK'
    BY <2>1 DEF ConnectionTypeOK
  <2>3. Calm
    BY <2>1 DEF Calm
  <2>. QED  BY <2>2, <2>3, CalmIsSafe
<1>. QED  BY <1>1, <1>2, <1>3, <1>4, <1>5, <1>6, <1>7 DEF Next, Watchdog

\* The invariant holds in every behaviour.
LEMMA SafeAlways == Spec => [](ConnectionTypeOK /\ Safe)
<1>1. Init => ConnectionTypeOK /\ Safe
  BY InitIsSafe
<1>2. (ConnectionTypeOK /\ Safe) /\ [Next]_vars => (ConnectionTypeOK /\ Safe)'
  BY NextIsSafe
<1>. QED  BY <1>1, <1>2, PTL DEF Spec

----------------------------------------------------------------------------

\* The variables of the connection runtime have their types: also between two
\* suspensions of a stop(), after a cancelled supervisor and after a restart.
THEOREM ConnectionTypesHold == Spec => []ConnectionTypeOK
BY SafeAlways, PTL

\* What get_instance() hands to a delivery is never a connector somebody has
\* stopped, for any number of requests and supervisors.
THEOREM RegisteredIsNotStoppedHolds == Spec => []RegisteredIsNotStopped
<1>1. ConnectionTypeOK /\ Safe => RegisteredIsNotStopped
  BY DEF Safe
<1>. QED  BY <1>1, SafeAlways, PTL

\* A process never runs two Lark threads: a thread that outlives its stop()
\* keeps the loop, and no other connector starts on it.
THEOREM OneLarkThreadHolds == Spec => []OneLarkThread
<1>1. ConnectionTypeOK /\ Safe => OneLarkThread
  <2>. SUFFICES ASSUME Safe, platform = "lark"
                PROVE  Cardinality({s \in Sups : ThreadAlive(s)}) <= 1
    BY DEF OneLarkThread
  <2>1. {s \in Sups : ThreadAlive(s)} \subseteq {loopOwner}
    BY DEF Safe, Owned
  <2>2. IsFiniteSet({loopOwner}) /\ Cardinality({loopOwner}) = 1
    BY FS_Singleton
  <2>. HIDE DEF ThreadAlive
  <2>3. Cardinality({s \in Sups : ThreadAlive(s)}) <= Cardinality({loopOwner})
    BY <2>1, <2>2, FS_Subset
  <2>. QED  BY <2>2, <2>3
<1>. QED  BY <1>1, SafeAlways, PTL
============================================================================
