------------------------ MODULE ConnectionMessages ------------------------
(***************************************************************************)
(* What travels over one IM connection: task packages out (through          *)
(* DeliveryService and, for the server platforms, connector_outbox), and    *)
(* messages of people in (ConnectionService.handle_inbound).                *)
(*                                                                         *)
(* Webhook and HTTP requests are handled in threads, side by side; the      *)
(* handler of the other platforms runs on the event loop without a          *)
(* suspension, so there one message is handled at a time.  Creating a task  *)
(* is a thread of its own in both cases.                                    *)
(*                                                                         *)
(* A step ends where SQLite lets others in.  Reads leave no transaction     *)
(* open; the first write takes the write lock until the commit, and who     *)
(* finds it taken waits busy_timeout and then fails.  The savepoint of      *)
(* record_receipt is the outermost one of its connection: releasing it      *)
(* commits the receipt, whatever becomes of the handler after that.         *)
(***************************************************************************)
EXTENDS Naturals, FiniteSets

CONSTANTS
  Scenarios,     \* platform, bound user, messages, the tasks that demand a tool
                 \* call, is a connector registered, does retention run; bounds:
                 \* deliveries of messages and crashes
  Handlers,      \* messages handled at the same time
  MaxTask,       \* tasks created
  PageSize,      \* the limit of a pull
  Nobody,        \* the sender of a message that names none
  None

Tasks     == 1..MaxTask
Platforms == {"lark", "wecom_ilink", "wecom_aibot", "webhook", "websocket", "http_poll"}
Kinds     == {"code", "text", "stage", "page"}

\* quotes: how the message names a task: by what it replies to, by a leading
\* "#<task>", or not at all.
IsMessage(m) ==
  /\ m.kind \in Kinds /\ m.id # None
  /\ m.quotes \in {"reply", "marker", "nothing"}
  /\ m.to \in Tasks \cup {None}
  /\ m.to = None <=> m.quotes = "nothing"

ASSUME NoneIsNoTask == None \notin Nat
ASSUME NobodyIsNotNone == Nobody # None
ASSUME BoundsAreNumbers == MaxTask \in Nat \ {0} /\ PageSize \in Nat \ {0}
ASSUME ScenariosAreScenarios ==
  \A c \in Scenarios :
    /\ c.platform \in Platforms /\ c.strict \subseteq Tasks
    /\ c.online \in BOOLEAN /\ c.retention \in BOOLEAN
    /\ c.deliveries \in Nat /\ c.faults \in Nat
    /\ None \notin c.messages /\ \A m \in c.messages : IsMessage(m)
    /\ \A m, n \in c.messages : m.id = n.id => m = n

VARIABLES
  setup,        \* the scenario
  conn,         \* the im_connections row: bound user, one-time code
  task,         \* [Tasks -> the request_tasks row]
  receipts,     \* ids with a row in inbound_receipts
  outbox,       \* connector_outbox
  creating,     \* the task whose create_task is open, or None
  handler,      \* [Handlers -> the message handled]
  seen,         \* tasks whose package reached the chat
  cursor,       \* what the poller passes next
  got,          \* tasks whose package reached the poller
  forgotten,    \* history: retention deleted the row with the greatest id
  effects,      \* history: [ids -> times the message changed anything]
  answers,      \* history: [ids -> what its deliveries were answered]
  budget        \* deliveries and crashes still to come

store == <<conn, task, receipts, outbox>>
poller == <<cursor, got, forgotten>>
history == <<effects, answers>>
vars == <<setup, store, creating, handler, seen, poller, history, budget>>

Messages == setup.messages
Ids      == {m.id : m \in Messages}
Results  == {"bound", "unbound", "accepted", "late", "unhandled", "duplicate", "error"}

----------------------------------------------------------------------------
(* Platforms and locks. *)

Threaded    == setup.platform \in {"webhook", "http_poll"}
UsesOutbox  == setup.platform \in {"webhook", "http_poll", "websocket"}
PullOnly    == setup.platform = "http_poll"

\* create_task pushes the package with its transaction open.
WriteLocked == creating # None

Resting == [at |-> "idle", message |-> None, bound |-> None, code |-> FALSE, target |-> None]
Busy(h) == handler[h].at # "idle"

\* Mutant: as if the loop took the next message at a suspension of the handler.
MutMayStart == TRUE

MayStart == Threaded \/ \A g \in Handlers : ~Busy(g)

----------------------------------------------------------------------------
(* Handling a message. *)

Answer(h, result) ==
  /\ handler' = [handler EXCEPT ![h] = Resting]
  /\ answers' = [answers EXCEPT ![handler[h].message.id] = @ \cup {result}]

Takes(h) ==
  effects' = [effects EXCEPT ![handler[h].message.id] = @ + 1]

\* People name tasks they have seen.
Writable(m) == m.to = None \/ m.to \in seen \cup got

\* A platform delivers a message again for minutes, retention forgets it after
\* a week.
Fresh(m) == m.id \in receipts \/ answers[m.id] \subseteq {"error"}

\* Only the endpoints know a task that is replied to, and two connectors drop a
\* message without a sender.
FromChat(m) == setup.online /\ m.quotes # "reply"
IsSigned(m) == m.from # Nobody

\* The endpoints ask for the connection's token, that of WebSockets also for a
\* running connector; a client connector has to run.  A pulling client always names
\* the task it replies to.
FromWebhook(m)    == setup.platform = "webhook"
FromHttpClient(m) == setup.platform = "http_poll" /\ m.quotes = "reply"
FromSocket(m)     == setup.platform = "websocket" /\ setup.online
FromLark(m)       == setup.platform = "lark" /\ FromChat(m) /\ IsSigned(m)
FromWecom(m)      == setup.platform = "wecom_aibot" /\ FromChat(m) /\ IsSigned(m)
FromIlink(m)      == setup.platform = "wecom_ilink" /\ FromChat(m)

ComesIn(m) ==
  \/ FromWebhook(m) \/ FromHttpClient(m) \/ FromSocket(m)
  \/ FromLark(m) \/ FromWecom(m) \/ FromIlink(m)

\* The row is read; its bound user and its code are not read again.
Receive(h, m) ==
  /\ ~Busy(h) /\ MayStart
  /\ ComesIn(m) /\ Writable(m) /\ Fresh(m)
  /\ budget.deliveries > 0
  /\ budget' = [budget EXCEPT !.deliveries = @ - 1]
  /\ handler' = [handler EXCEPT ![h] =
                   [Resting EXCEPT !.at = "receipt", !.message = m,
                                   !.bound = conn.bound, !.code = conn.code]]
  /\ UNCHANGED <<setup, store, creating, seen, poller, history>>

\* Mutant: the row is looked up, and inserted with the commit of the handler.
MutIsDuplicate(m) == effects[m.id] > 0

IsDuplicate(m) == m.id \in receipts

\* Mutant: a writer does not wait for the transaction of create_task.
MutMayWrite == TRUE

MayWrite == ~WriteLocked

RecordReceipt(h) ==
  /\ handler[h].at = "receipt" /\ MayWrite
  /\ IF IsDuplicate(handler[h].message)
     THEN Answer(h, "duplicate") /\ UNCHANGED receipts
     ELSE /\ receipts' = receipts \cup {handler[h].message.id}
          /\ handler' = [handler EXCEPT ![h].at = "sender"]
          /\ UNCHANGED answers
  /\ UNCHANGED <<setup, conn, task, outbox, creating, seen, poller, effects, budget>>

\* The sender of a pulling client is whoever is bound.
Sender(h) == IF PullOnly THEN handler[h].bound ELSE handler[h].message.from

\* The connectors of iLink and of HTTP clients pass no code on.
CodeFits(h) ==
  /\ handler[h].message.kind = "code" /\ setup.platform \notin {"wecom_ilink", "http_poll"}
  /\ handler[h].code

\* bind_external_user: an UPDATE by id.
BindSender(h) ==
  /\ handler[h].at = "sender" /\ MayWrite
  /\ handler[h].bound = None
  /\ IF CodeFits(h)
     THEN /\ conn' = [bound |-> handler[h].message.from, code |-> FALSE]
          /\ Takes(h)
          /\ Answer(h, "bound")
     ELSE Answer(h, "unbound") /\ UNCHANGED <<conn, effects>>
  /\ UNCHANGED <<setup, task, receipts, outbox, creating, seen, poller, budget>>

\* A sender that is named has to be the one who is bound.
IsStranger(h) == handler[h].bound # None /\ Sender(h) \notin {handler[h].bound, Nobody}

RejectStranger(h) ==
  /\ handler[h].at = "sender" /\ MayWrite
  /\ IsStranger(h)
  /\ Answer(h, "unbound")
  /\ UNCHANGED <<setup, store, creating, seen, poller, effects, budget>>

----------------------------------------------------------------------------
(* Rows of connector_outbox, unique by task. *)

RowIds == {r.id : r \in outbox}

\* INTEGER PRIMARY KEY without AUTOINCREMENT.
NewRowId == IF RowIds = {} THEN 1 ELSE 1 + CHOOSE n \in RowIds : \A k \in RowIds : k <= n

NewRow(t) ==
  [id |-> NewRowId, task |-> t,
   state |-> IF t \in seen THEN "delivered" ELSE "pending"]

\* _enqueue_outbound_payload: the row of the task takes the payload.
ReopenRow(t) ==
  IF \E r \in outbox : r.task = t
  THEN {IF r.task = t THEN [r EXCEPT !.state = "pending"] ELSE r : r \in outbox}
  ELSE outbox \cup {[id |-> NewRowId, task |-> t, state |-> "pending"]}

----------------------------------------------------------------------------
(* _submit_task_reply. *)

Exists(t)   == task[t].state \in {"waiting", "ended"}
Waiting     == {t \in Tasks : task[t].state = "waiting"}
SoleWaiting == IF Cardinality(Waiting) = 1 THEN CHOOSE t \in Waiting : TRUE ELSE None

\* The text of a pulling client always starts with "#", so no command of it is
\* recognised; a code from the bound user is a text like any other.
IsCommand(m) == m.kind \in {"stage", "page"} /\ ~PullOnly

\* An unknown marker before a text is part of the text.
Target(m) ==
  IF m.quotes # "nothing" /\ Exists(m.to) THEN m.to
  ELSE IF m.quotes = "nothing" \/ (m.quotes = "marker" /\ ~IsCommand(m))
       THEN SoleWaiting
       ELSE None

\* Mutant: a message without a task waits for one.
MutLocate(h) ==
  /\ handler[h].at = "sender"
  /\ handler[h].bound # None /\ ~IsStranger(h)
  /\ Target(handler[h].message) # None
  /\ handler' = [handler EXCEPT ![h].at = "submit", ![h].target = Target(handler[h].message)]
  /\ UNCHANGED <<setup, store, creating, seen, poller, history, budget>>

Locate(h) ==
  /\ handler[h].at = "sender"
  /\ handler[h].bound # None /\ ~IsStranger(h)
  /\ handler' = [handler EXCEPT ![h].at = "submit", ![h].target = Target(handler[h].message)]
  /\ UNCHANGED <<setup, store, creating, seen, poller, history, budget>>

\* Mutant: without the condition on the state of the task.
MutReplyMatches(t) == TRUE

\* first_reply_wins; the version only changes with the state.
ReplyMatches(t) == task[t].state = "waiting"

SubmitText(h, m, t) ==
  /\ ~IsCommand(m)
  /\ UNCHANGED outbox
  /\ IF t = None \/ t \in setup.strict
     THEN Answer(h, "unhandled") /\ UNCHANGED <<task, effects>>
     ELSE IF ReplyMatches(t)
          THEN /\ task' = [task EXCEPT ![t] = [state |-> "ended", reply |-> m.id]]
               /\ Takes(h)
               /\ Answer(h, "accepted")
          ELSE Answer(h, "late") /\ UNCHANGED <<task, effects>>

\* Into the draft, which TaskDrafts has.
Stage(m) == m.kind = "stage" /\ UNCHANGED outbox

\* Whoever is connected also gets the page pushed, or only that.
DispatchOutbound(t) == outbox' = IF UsesOutbox THEN ReopenRow(t) ELSE outbox

SendPage(m, t) == m.kind = "page" /\ DispatchOutbound(t)

ObeyCommand(h, m, t) ==
  /\ IsCommand(m)
  /\ IF t = None
     THEN Answer(h, "unhandled") /\ UNCHANGED <<outbox, effects>>
     ELSE /\ Stage(m) \/ SendPage(m, t)
          /\ Takes(h)
          /\ Answer(h, "accepted")
  /\ UNCHANGED task

\* One transaction: the feedback is pushed in it, or after it on the loop.
Submit(h) ==
  /\ handler[h].at = "submit" /\ MayWrite
  /\ \/ SubmitText(h, handler[h].message, handler[h].target)
     \/ ObeyCommand(h, handler[h].message, handler[h].target)
  /\ UNCHANGED <<setup, conn, receipts, creating, seen, poller, budget>>

\* "database is locked" after busy_timeout: rolled back, answered 500.
GiveUp(h) ==
  /\ handler[h].at \in {"receipt", "sender", "submit"} /\ WriteLocked
  /\ Answer(h, "error")
  /\ UNCHANGED <<setup, store, creating, seen, poller, effects, budget>>

----------------------------------------------------------------------------
(* create_task and DeliveryService.deliver_task. *)

BeginCreate(t) ==
  /\ ~WriteLocked
  /\ task[t].state = "none" /\ \A u \in Tasks : u < t => task[u].state # "none"
  /\ creating' = t
  /\ UNCHANGED <<setup, store, handler, seen, poller, history, budget>>

\* connector.deliver: the client connectors send to the bound user, the others
\* to whoever is connected; that of HTTP clients has none.
WebhookReaches == setup.platform = "webhook"
SocketReaches  == setup.platform = "websocket"
LarkReaches    == setup.platform = "lark" /\ conn.bound # None
WecomReaches   == setup.platform = "wecom_aibot" /\ conn.bound # None
IlinkReaches   == setup.platform = "wecom_ilink" /\ conn.bound # None

\* That it fails is the commit without this step.
Push ==
  /\ WriteLocked /\ setup.online /\ creating \notin seen
  /\ WebhookReaches \/ SocketReaches \/ LarkReaches \/ WecomReaches \/ IlinkReaches
  /\ seen' = seen \cup {creating}
  /\ UNCHANGED <<setup, store, creating, handler, poller, history, budget>>

CommitCreate ==
  /\ WriteLocked
  /\ task' = [task EXCEPT ![creating].state = "waiting"]
  /\ outbox' = IF UsesOutbox THEN outbox \cup {NewRow(creating)} ELSE outbox
  /\ creating' = None
  /\ UNCHANGED <<setup, conn, receipts, handler, seen, poller, history, budget>>

\* The reply workbench, the sweeper, the caller or the forwarder ends the task.
EndElsewhere(t) ==
  /\ ~WriteLocked
  /\ task[t].state = "waiting"
  /\ task' = [task EXCEPT ![t].state = "ended"]
  /\ UNCHANGED <<setup, conn, receipts, outbox, creating, handler, seen, poller, history, budget>>

----------------------------------------------------------------------------
(* The poller of an http_poll connection, and retention. *)

Pullable == {r \in outbox : r.id > cursor /\ r.state \in {"pending", "delivered"}}

\* The first PageSize rows by id.
Batch == {r \in Pullable : Cardinality({s \in Pullable : s.id < r.id}) < PageSize}

\* Mutant: the cursor of the newest row, whether or not it fitted.
MutCursorAfter(rows) ==
  IF rows = {} THEN cursor ELSE CHOOSE n \in RowIds : \A k \in RowIds : k <= n

CursorAfter(rows) ==
  IF rows = {} THEN cursor
  ELSE CHOOSE n \in {r.id : r \in rows} : \A r \in rows : r.id <= n

\* Mutant: pulling inserts what it marks.
MutMarkDelivered(rows) ==
  outbox \cup {[r EXCEPT !.state = "delivered"] : r \in rows}

MarkDelivered(rows) ==
  (outbox \ rows) \cup {[r EXCEPT !.state = "delivered"] : r \in rows}

\* The answer may be lost; the poller then asks with its old cursor.
PullTasks(arrives) ==
  /\ PullOnly /\ ~WriteLocked
  /\ outbox' = MarkDelivered(Batch)
  /\ IF arrives
     THEN /\ cursor' = CursorAfter(Batch) /\ got' = got \cup {r.task : r \in Batch}
          /\ UNCHANGED forgotten
     ELSE UNCHANGED poller
  /\ UNCHANGED <<setup, conn, task, receipts, creating, handler, seen, history, budget>>

AckTask(t) ==
  /\ PullOnly /\ ~WriteLocked
  /\ t \in got
  /\ \E r \in outbox : r.task = t /\ r.state # "acked"
  /\ outbox' = {IF r.task = t THEN [r EXCEPT !.state = "acked"] ELSE r : r \in outbox}
  /\ UNCHANGED <<setup, conn, task, receipts, creating, handler, seen, poller, history, budget>>

\* cleanup_once, a week after what it deletes.
Retain ==
  /\ setup.retention /\ ~WriteLocked
  /\ \A h \in Handlers : ~Busy(h)
  /\ \/ receipts # {} \/ \E r \in outbox : r.state = "acked"
  /\ receipts' = {}
  /\ outbox' = {r \in outbox : r.state # "acked"}
  /\ forgotten' = (forgotten \/ \E r \in outbox \ outbox' : \A q \in outbox : q.id <= r.id)
  /\ UNCHANGED <<setup, conn, task, creating, handler, seen, cursor, got, history, budget>>

Crash ==
  /\ budget.faults > 0
  /\ budget' = [budget EXCEPT !.faults = @ - 1]
  /\ handler' = [h \in Handlers |-> Resting]
  /\ task' = [t \in Tasks |-> IF t = creating THEN [task[t] EXCEPT !.state = "lost"] ELSE task[t]]
  /\ creating' = None
  /\ UNCHANGED <<setup, conn, receipts, outbox, seen, poller, history>>

----------------------------------------------------------------------------

Init ==
  /\ setup \in Scenarios
  /\ conn = [bound |-> setup.bound, code |-> setup.bound = None]
  /\ task = [t \in Tasks |-> [state |-> "none", reply |-> None]]
  /\ receipts = {} /\ outbox = {}
  /\ creating = None
  /\ handler = [h \in Handlers |-> Resting]
  /\ seen = {} /\ cursor = 0 /\ got = {} /\ forgotten = FALSE
  /\ effects = [i \in Ids |-> 0]
  /\ answers = [i \in Ids |-> {}]
  /\ budget = [deliveries |-> setup.deliveries, faults |-> setup.faults]

Handle(h) ==
  \/ RecordReceipt(h) \/ BindSender(h) \/ RejectStranger(h)
  \/ Locate(h) \/ Submit(h) \/ GiveUp(h)

Next ==
  \/ \E h \in Handlers, m \in Messages : Receive(h, m)
  \/ \E h \in Handlers : Handle(h)
  \/ \E t \in Tasks : BeginCreate(t) \/ EndElsewhere(t) \/ AckTask(t)
  \/ Push \/ CommitCreate
  \/ PullTasks(TRUE) \/ PullTasks(FALSE)
  \/ Retain
  \/ Crash

Spec == Init /\ [][Next]_vars

\* A thread runs, and so does the handler the loop is in; a push has a timeout.
FairSpec == Spec /\ WF_vars(CommitCreate) /\ \A h \in Handlers : WF_vars(Handle(h))

----------------------------------------------------------------------------
(* Properties. *)

States == {"none", "waiting", "ended", "lost"}

\* Types of the state; each created task has at most one outbox row.
MessagesTypeOK ==
  /\ setup \in Scenarios
  /\ \A t \in Tasks : task[t].state \in States /\ task[t].reply \in Ids \cup {None}
  /\ receipts \subseteq Ids
  /\ creating \in Tasks \cup {None} /\ forgotten \in BOOLEAN
  /\ \A r \in outbox : /\ r.id \in Nat \ {0} /\ r.task \in Tasks
                       /\ r.state \in {"pending", "delivered", "acked"}
  /\ \A r, q \in outbox : (r.id = q.id \/ r.task = q.task) => r = q
  /\ \A h \in Handlers :
       /\ handler[h].at \in {"idle", "receipt", "sender", "submit"}
       /\ handler[h].target \in Tasks \cup {None}
       /\ Busy(h) <=> handler[h].message \in Messages
  /\ \A t \in Tasks : task[t].state = "none" /\ creating # t => t \notin seen \cup got
  /\ answers \in [Ids -> SUBSET Results]

\* However often and however concurrently a platform delivers a message, it
\* binds, answers, stages or sends pages once (record_receipt).
OncePerMessage == \A i \in Ids : effects[i] <= 1

\* A text that was answered "accepted" is the reply of a task, and stays it: of
\* the messages and the other people who may end the task, one does
\* (first_reply_wins).
AcceptedIsTheReply ==
  \A m \in Messages :
    "accepted" \in answers[m.id] /\ ~IsCommand(m) => \E t \in Tasks : task[t].reply = m.id

\* The package of a task is pushed before the task is committed; a reply to it
\* that comes in meanwhile finds its task all the same, because its receipt
\* waits for the commit: it is only unhandled when the task was lost in a crash.
ReplyFindsItsTask ==
  \A m \in Messages :
    "unhandled" \in answers[m.id] /\ m.quotes = "reply" =>
      task[m.to].state = "lost" \/ (m.to \in setup.strict /\ ~IsCommand(m))

\* On the platforms whose messages are handled on the loop, one sender binds
\* with the one-time code, and whoever is told so stays bound.
CodeBindsOne ==
  ~Threaded =>
    \A m \in Messages : "bound" \in answers[m.id] => conn = [bound |-> m.from, code |-> FALSE]

\* A poller that passes on the cursor it was given has been given every task up
\* to it: ids are given in the order of the commits, and are not given again
\* unless retention deleted the newest row.
CursorSkipsNothing ==
  forgotten \/ \A r \in outbox : r.id <= cursor => r.task \in got

\* Whoever delivers a message gets an answer or an error, though the lock may be
\* held across a push.
MessagesAnswered == \A h \in Handlers : Busy(h) ~> ~Busy(h)
============================================================================
