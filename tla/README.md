# Human LLM Gateway in TLA+

The gateway answers OpenAI-, Anthropic- and decision-style inference calls with
the words of people. A caller's request becomes a *task*; its owner (or several
browser tabs and IM chats at once) writes the reply, an upstream LLM may take
over when nobody does, and the caller's HTTP handler, which has been waiting on
the database all along, sends what was stored. This directory is a model of
that program: specifications checked with TLC on small instances, and theorems
about them checked by TLAPS for every value of the constants.

Paths below are relative to `src/app/` unless they begin with `src/`.

Contents: 1 inventory · 2 what is modelled · 3 runs · 4 fairness · 5 findings ·
6 proofs · 7 plan · 8 not modelled.

## 1. Inventory

One Python process (FastAPI on asyncio), worker threads for upstream calls, one
SQLite database (WAL). All coordination goes through the database; the actors
share no lock. SQLite serialises writing transactions, but a `SELECT` made
before the first write of a session opens no transaction in pysqlite, so what
was read is stale by the time it is used unless `begin_immediate_if_sqlite`
(`core/db.py`) came first. That is why the code works with conditional
`UPDATE`s, and why the models have one action per transaction *and* one per
read that a later decision depends on.

| component | state it keeps | operations | interacts with | what is hard | what makes it correct |
|---|---|---|---|---|---|
| Request-task rows and slot counter (`repositories/tasks.py`, `users.py`, `services/admission.py`, `domain/tasks.py`) | `request_tasks` (state, version, slot_released_at, reply), `users.active_task_count` | insert, acquire/release slot, first_reply_wins, claim_fallback, accept_forward_reply, start_response, release_slot_to_terminal, cancel_caller_disconnected | everything that moves a task | nothing consults `can_transition`; only WHERE clauses arbitrate | counter = unfinished rows; declared state machine; terminal is final |
| Inference handlers and responses (`api/inference.py`, `api/task_responses.py`, `services/inference_service.py`) | a coroutine per call: place, loaded reply, bytes sent | create_task, wait loop (0.5 s), second look, timeout, fallback, JSON / SSE sending, completion, disconnect | rows, forwarder, caller | every decision rests on an earlier transaction; the caller may vanish at any await | reply sent = reply stored; completed only if sent; no timeout after an accepted reply |
| LLM forwarding (`services/forward_runtime.py`, `llm_forward_service.py`, `llm_upstream.py`) | a thread per task, version read before the accept, upstream budget | claim, call, re-read version, accept, monitor / cancel | handler, rows, upstream | deadline races people and sweeper; failure at each point | at most one call; none after a human answer; a failure is not a timeout |
| Human reply submission (`services/task_service.py`, `api/tasks.py`) | the version read when the task was opened | read, submit with compare-and-set | rows | several people, one answer | one accepted author |
| Task sweeper and recovery (`services/task_sweeper.py`, `task_lifecycle.py`, `api/__init__.py`) | a list of rows per sweep (15 s period) | overdue list, stale-output list, finalize each, cancel on start / shutdown | rows | acts on a stale list; a failing entry rolls back the session | every admitted task ends; a late timeout overwrites nothing |
| Account administration (`services/user_service.py`, `api/users.py`) | `users` row, sessions, keys | disable (cancels tasks, clears counter, revokes sessions), enable, roles, passwords | rows, sessions, connections | counting while others release | nothing runs for a disabled account |
| LLM reply drafts (`services/task_service.py`, `llm_draft_service.py`, `tool_argument_generation_service.py`) | `task_drafts` (state, source, version; one EDITING per task) | save, update, delete, generate, submit | upstream, rows, several tabs | an upstream call between read and write; conditional upsert without version | one editing draft a task; a text stays with its task; an answer takes one draft at most out of the editors |
| IM connection runtime (`connectors/manager.py`, `services/connection_service.py`, `connection_watchdog.py`) | `_instances`, `_tasks`, `_stopping`; `im_connections` (desired_running, state, config) | start, stop, supervise with retry, apply configuration, rotate, delete, bind, disable, QR login, watchdog, recovery, shutdown | connectors and their threads, database | awaits between the maps and the rows; a stop that waits while others start | nothing registered is stopped; one Lark thread; every request ends; what is switched on is attended |
| IM delivery (`services/delivery_service.py`, `outbound_service.py`, `connection_service.py`, `repositories/connections.py`, `api/connectors.py`) | `connector_outbox`, `inbound_receipts`, the one-time binding code | enqueue, push, pull by cursor, acknowledge, receive, deduplicate, bind, reply | tasks, connectors | a push before the commit; redelivery; rows that retention takes from behind the cursor | a message takes effect once; a reply finds its task; an accepted text is the reply; the cursor skips nothing unless retention frees the newest id |
| Authentication (`services/auth_service.py`, `invitation_service.py`, `core/login_throttle.py`, `core/captcha.py`) | sessions, invitations (used_count), failure windows, one-shot captchas | register, login, logout, change password, create / change / revoke / delete invitation | users | check-then-act over rows and in-memory tables by parallel threads | invitation uses counted and bounded; a captcha passes once; a window is bounded; an administrator remains (it does not: finding 4) |
| Assistant (`services/assistant/`) | `assistant_sessions`, `assistant_messages` with summaries | create, send (JSON and streamed), compress, tool rounds, delete, retention | upstream LLM, MCP tools | sends of one conversation overlap between awaits | what was said is told once, by a message or a summary, until it is deleted or a summary's transcript leaves it out; a request carries what it answers; a send ends |
| MCP server (`services/mcp/`, `api/mcp.py`) | none of its own | read-only queries and validation of task data | assistant, rows | – | – |
| API keys and effective models (`services/api_key_service.py`, `effective_models.py`, `fake_model_service.py`) | keys with their selections, fake models, groups | create, change, switch, delete, resolve | admission, configurations | validation of rows that others delete; an empty selection means all | a restriction is never widened; no dangling row; a delete that was let through is carried out (it is not: finding 5) |
| LLM configuration (`services/llm_config_service.py`, `llm_test_service.py`) | configurations | create, update with test, delete | forwarding, drafts, keys | the test is awaited between flush and commit, the write lock held | what is enabled passed its test |
| Connector implementations (`connectors/implementations/`) | SDK sessions | adapters to vendor SDKs | manager | vendor behaviour | external |
| Protocols (`protocols/`, `domain/request_view.py`, `domain/dsl.py`) | none | parse, render, convert five wire formats | handlers | breadth of formats | – |
| Logging, metrics, retention (`core/logging.py`, `core/metrics.py`, `services/data_retention.py`) | bounded queue, counters, old rows | enqueue, drop oldest, purge | everything | purging what is still needed for deduplication | – |
| Admin console (`src/admin/`) | browser state | client of the API | API | – | – |

The hazards this gives rise to, each at its line and with the properties that
cover it, are the list `hazards` of `PROJECT.json`.

## 2. What is modelled

### Modules

| module | models | role |
|---|---|---|
| `TaskStates` | `domain/tasks.py`, `domain/enums.py` | the declared state machine; a table, never a guard |
| `TaskRepository` | `repositories/tasks.py`, `users.py`, `services/admission.py` | the two tables and every conditional UPDATE, as a `...Matches` (WHERE) and a `...Sets` (SET) operator each |
| `TaskLifecycle` | handlers, responses, forwarder, people, sweeper, administrator, process | one action per transaction or decisive read |
| `TaskContract` | `src/docs/PRODUCT.md` sections 5 and 9 | the abstract promise that `TaskLifecycle` implements |
| `TaskDrafts` (on `TaskRepository`) | the draft operations of `services/task_service.py`, `llm_draft_service.py`, `repositories/tasks.py`, and `/ans`, `/res`, `/commit` of `services/connection_service.py` | one action per read and per write of a request |
| `ConnectionRuntime` | `connectors/manager.py`, the connectors' start and stop, `services/connection_service.py`, `connection_watchdog.py`, the lifespan | one connection on one event loop; an action is what happens between two suspensions |
| `ConnectionMessages` | `services/delivery_service.py`, `outbound_service.py`, `connection_service.py` (inbound), `repositories/connections.py`, `api/connectors.py`, `data_retention.py` | packages out and messages in over one connection; an action ends where SQLite lets others in |
| `Accounts` | `services/auth_service.py`, `user_service.py`, `invitation_service.py`, `core/captcha.py`, `core/login_throttle.py` and their endpoints | worker threads: a read step, a write step, and one per visit to the tables in memory |
| `ApiAccess` (extends `Accounts`) | `services/api_key_service.py`, `effective_models.py`, `fake_model_service.py`, `llm_config_service.py`, `llm_test_service.py`, `repositories/catalog.py` | more operations on the same threads, users and sessions; the refusals of the foreign keys |
| `Assistant` | `services/assistant/`, `api/assistant.py` | sends of one user's conversations |
| `MC...` | – | TLC instances, one per specification (`ApiAccess` brings `Accounts`) |
| `TaskLifecycleProofs`, `TaskContractProofs` | – | proofs about `TaskLifecycle` (the second extends the first); types and slots in one, answers, delivery and the refinement in the other |
| `TaskDraftsProofs`, `ConnectionRuntimeProofs`, `ConnectionMessagesProofs`, `AssistantProofs` | – | proofs about those modules |
| `ApiAccessProofs` | – | proofs about `ApiAccess` with `Accounts` |
| `RowLemmas` | – | lemmas about finite tables: they have a greatest id, and a count grows with its set |

### State and code

| variable | code |
|---|---|
| `isActive`, `activeTaskCount` | `users.is_active`, `users.active_task_count` |
| `state`, `version`, `slotHeld`, `reply` | the columns `state`, `version`, `slot_released_at IS NULL`, `response_payload_json` (abstracted to its author) |
| `age` | the row's two clocks: `human_deadline_at` and the distance of `updated_at` from the sweeper's cutoffs (values 0, 1, 2) |
| `pc`, `held`, `received`, `connected` | where `_handle` / `_wait_for_reply` / the response object is, the reply it loaded, what the caller was sent, the TCP connection |
| `worker`, `workerVersion`, `calls` | the thread of `run_forward`, the version read before the accept, upstream requests made |
| `reading`, `readVersion`, `acceptedBy` | a person's open task, the version it showed, the authors who were told "accepted" |
| `sweepPhase`, `sweep`, `sweepFaults` | `sweep_once`: which list, the state each entry was read in, or `expired` after a rollback |
| `server`, `restarts` | the lifespan of the process |

A handler at `pc = "recheck"` has decided to time out and is about to look
again; at `"expire"` it has looked and is about to run the UPDATE. These two are
separate because they are separate transactions in the code. `Expire` sends the
timeout whether or not its UPDATE matched, as `_wait_for_reply` does.

`ReleaseSlots(S)` takes the rows that one transaction ended: `Close` runs it in
the same step as the terminal values, as `InferenceService.finalize` does.

`SweepFault` is the `except` branch of the sweeper: `session.rollback()` expires
every ORM object of the session (`expire_on_commit=False` speaks of commits
only), so the remaining entries are reloaded when `task.state` is next read,
which is inside `allowed_sources={task.state}` - hence `SweepSource`.

### Drafts

`TaskDrafts` takes the rows of `TaskRepository` and adds `task_drafts`. It is a
module of its own, and not a part of `TaskLifecycle`, because drafts touch the
task in two places only: every operation reads that the task waits, and a
submit marks its draft in the transaction of `first_reply_wins`. The rest of the
system is `TaskEnds`, which takes a task away at any moment.

| variable | code |
|---|---|
| `drafts` | the rows, by id: task, source, state, version, and a text known by a number and by the task it was written for |
| `lastId`, `reused` | history: the greatest id given, and whether one was given twice |
| `view` | what a tab, or a chat message, read last: task, draft id, version, text |
| `request`, `checked` | the request it has under way, and the task version and draft id that request holds |

A request is two steps, `Check` and its write, or `ReadDraft` and its write for
a chat. That the two are not one is a fact about this code's transactions:
`require_current_user` has read by the time a handler runs,
`begin_immediate_if_sqlite` does nothing in a session that has begun, and
pysqlite opens a transaction only with the first write. `generate` ends the
reading part with a `rollback` before its upstream call, and its
`BEGIN IMMEDIATE` after it does take the lock: `GenerateDraft` looks at the task
and at the row again, in one step with its write. A chat message has stored its
receipt in a SAVEPOINT that is the outermost of its connection, and releasing
that one commits, so it holds no lock either.

`NewId` is how SQLite numbers rows: the primary key is declared without
`AUTOINCREMENT`, so the id of the newest row is given again once that row is
deleted. `ActiveDraft` is `get_active_draft`, `Shows` and `ShowsWritten` are
what the answers bring to the tab, and `Forgets` ends a chat message, which
keeps nothing. `NamedDrafts` is `source_draft_id`: any id, since the code
compares it with neither the task nor the owner, and the console itself may send
the draft of the task it showed before (section 5).

### Connections

`ConnectionRuntime` is one row of `im_connections` with everything that runs it.
All its actors share one event loop, so an action reaches from one suspension to
the next; no `start()` suspends, the `stop()` of the three client connectors
does. A connector is known by the supervisor that made it. When the supervisor
reconnects, it has a new one, and a `stop()` that is still busy with the dead one
before it has nothing left to stop (`Supersede`).

| variable | code |
|---|---|
| `platform`, `row` | the platform, and the committed row: exists, desired_running, state, bound, the one-time code |
| `changed` | `updated_at` differs from the snapshot the watchdog works on (its optimistic UPDATE) |
| `slot`, `instance`, `stopping` | `_tasks[id]`, `_instances[id]`, `id in _stopping` |
| `sup` | each supervisor task: at the head of its loop, in `wait_closed`, releasing, backing off |
| `conn` | its connector, with the thread that a client SDK runs in: open, lost, expired, being stopped, hung, closed |
| `loopOwner` | `LarkConnector._active_instance` |
| `login` | a login connector that waits for its QR code |
| `act` | the operation of each request, of the watchdog, of the binding listener and of the lifespan: where it is suspended, what it loaded before |
| `lock` | who holds SQLite's write lock across a suspension |
| `server` | the lifespan of the process |

### Messages

`ConnectionMessages` is the traffic of one connection. `create_task` pushes the
package inside its own transaction, before its commit, and a reply can be back
in between: `BeginCreate`, the push and `CommitCreate` are separate, and while
`creating` is set every writer waits or gives up (`GiveUp`, the `busy_timeout`).
The savepoint of `record_receipt` is the outermost one of its connection, and
its release commits the receipt before the message is handled.

| variable | code |
|---|---|
| `conn` | bound sender and one-time code of the row |
| `task` | the `request_tasks` row, as far as messages see it: state, the message that became its reply |
| `receipts`, `outbox`, `cursor` | the two tables, and what the poller sends as `after` |
| `handler` | each message under way: before its receipt, before the sender check, before the submit, with what it read |
| `seen`, `got`, `effects`, `answers` | history: packages that arrived, effects and answers of each message |
| `forgotten` | history: retention deleted the row with the greatest id, whose id SQLite gives again |

The composition with the tasks is by the rows: `SubmitText` takes effect only
on a waiting task, as `first_reply_wins` does, and others end tasks at any time
(`EndElsewhere`); what those actions do to the whole row is in `TaskLifecycle`.

### Accounts, keys and configurations

A request is `Begin`, which stands for all its reads, and one write action. The
reads hold no snapshot, so everything in `request[t].seen` may be stale, and the
write uses it exactly where the code does. Attempts to log in or to register
visit the throttle and the captchas in steps of their own. Scenarios fix the
database to start from and the operations to explore (`ops`); the theorems hold
for all of them at once.

| variable | code |
|---|---|
| `user`, `session`, `code` | `users`, `auth_sessions`, `invitation_codes`; `via` is the code a user registered with |
| `failures`, `captcha`, `passed` | `_failures` inside the window, `_store`, history: attempts past a captcha |
| `model`, `group`, `key`, `config` | `fake_models`, `model_groups` with items, `api_keys` with selections, `llm_configs` |
| `lock` | the update of a configuration, which awaits its test with the lock held |
| `chosen`, `proven`, `broken` | history: last selection of each key, endpoints that passed a test, deletes that the database refused |

### Assistant

A send stores its message, may compress (read, upstream, delete and insert),
builds its request, asks, runs tools, and stores the answer; each await lets the
other sends, the deletion and the retention job in.

| variable | code |
|---|---|
| `sessions`, `messages`, `enabled` | the rows of `assistant_sessions` and `assistant_messages`, `is_enabled` of the bound configuration |
| `tells` of a message | what it says: itself, or what the messages told that a summary replaced |
| `send` | each request: where it awaits, the rows it read, what its upstream request carries, rounds |
| `created`, `reused`, `removed` | bound; history: a session id was given twice; what deletion and retention took |
| `unread` of a send, `cut` | history: what the rows to fold say beyond the transcript; what folds deleted without having shown it |

`_generate_summary` shows the summariser the first 8000 characters of the rows it
is to fold, and the fold deletes all of them. `Transcripts` is every way to cut
that text between two rows; what lies beyond goes to `cut` with the deletion.

### Abstractions

* Payloads are their authors; nothing depends on their text. A reply that
  cannot be rendered is the action `FailRender` (every body that is not streamed
  is rendered before the response is built) or `FailFrame`.
* A stream sends any number of frames; the model keeps "some" (`partial`) and
  "all" (`reply`).
* Time is `age`: `TimePasses` may happen at any moment, which allows every
  ordering of the two clocks with the other steps.
* The upstream is external: any answer, any failure, or none until the
  forwarding budget is used up (`ForwardFails`).
* The sweeper's limit of 200 rows a list, and the batch size of
  `cancel_active_tasks`, are abstracted: a list holds every row that qualifies,
  and `CancelBatch` takes any non-empty set.
* Task events, inbox state, audit entries and outbox rows, written in the same
  transactions, are left out; none of them appears in a WHERE clause of these
  modules.
* A draft's text is one value: `generate` in the modes `reasoning` and `reply`
  replaces a part of it. A reply may be submitted without naming a draft, or
  naming any.
* A row of a conversation is either in the transcript as a whole or not at all,
  and a summary is taken to tell all it was shown: what an LLM makes of a text is
  data.
* `Record` may fail while a request of the same connection is between its flush
  and its commit. What else may hold the write lock then (another connection, a
  task) is not in this module.
* `Nobody` is the empty sender that a platform may report; two connectors drop
  such a message, the others pass it on, and the sender check lets it through.
* Creating a configuration tests the address and the model as they were sent and
  stores them trimmed and normalised; an endpoint is one value for both.
* Active tasks that refer to a configuration only make its delete refuse more
  often; the model leaves that count out. Sessions of the assistant and
  connections that refer to one are a flag of its row (`CiteConfig`).

## 3. Runs

| run | instance | shows | distinct states |
|---|---|---|---|
| `fallback` | one streamed `human_fallback_llm` task, two people, forwarder, sweeper with one failing entry, disconnect, disable, restart | who may answer, what the caller is sent, how many upstream calls; that the call ends, that the task ends, that it all implements the contract: `SingleAcceptedReply`, `CallerGetsStoredReply`, `CompletedMeansDelivered`, `HumanAnswerCostsNoCall`, `UpstreamFailureIsNotATimeout`, `CallersAnswered`, `Converges`, `ImplementsContract` | 82,503 |
| `pair` | a `human` task that is not streamed and an `llm` task of one user, limit 2 | `TypeOK`, `SlotAccounting`, `DisabledUserHoldsNothing`, `TransitionsAllowed` while two tasks end in any order | 2,048,296 |
| `drafts` | two tasks, two tabs and a chat, two draft ids, two texts | `DraftsTypeOK`, `OneEditingDraft`, `OneDraftPerReply`, `TextStaysUntilReuse` while stale requests of all kinds end in any order | 2,784,439 |
| `connections` | a `lark`, a `wecom_ilink` and a `websocket` connection; two requests of any kind, or one and a fault; three supervisor tasks | `ConnectionTypeOK`, `RegisteredIsNotStopped`, `OneLarkThread`, `RequestsEnd`, `EnabledIsAttended` | 459,314 |
| `messages` | seven scenarios: every platform, two handlers, two tasks, three messages, page size 1, a crash or retention | `MessagesTypeOK`, `OncePerMessage`, `AcceptedIsTheReply`, `ReplyFindsItsTask`, `CodeBindsOne`, `CursorSkipsNothing`, `MessagesAnswered` | 249,588 |
| `administration` | six scenarios (administrators, invitations, log-ins, catalogue, ownership, configurations), two threads, three or four requests | `AccountsTypeOK`, `InvitationsCount`, `CaptchaOnce`, `FailuresBounded`, `AccessTypeOK`, `RestrictionHolds`, `EnabledWasTested` | 379,029 |
| `assistant` | two sends of one conversation, one of them streamed, at most two earlier messages, a second conversation | `AssistantTypeOK`, `NothingIsLost`, `ToldOnce`, `RequestAnswersItsMessage`, `SendsEnd` | 273,818 |
| `late_reply` | one `human` task, one person | finding 1 (violation of `TimeoutMeansNoReply`) | – |
| `sweep_fault` | two `human` tasks, one failing sweep | finding 2 (violation of `LateTimeoutOverwritesNothing`) | – |
| `drafts_reuse` | two tasks, two tabs, three texts | finding 3 (violation of `TextStaysWithItsTask`) | – |
| `last_admin` | two administrators, two requests | finding 4 (violation of `SomeAdminIsActive`) | – |
| `deletes` | a key that has been used, two requests | finding 5 (violation of `DeletesAreCarriedOut`) | – |

Deadlock is checked in `fallback`, `pair`, `drafts` and their violation runs. In
the other five modules' runs the requests, deliveries and sends are bounded, and
a program that nobody calls may stop there: `CHECK_DEADLOCK FALSE`. That nobody
waits for ever is what `RequestsEnd`, `MessagesAnswered` and `SendsEnd` say.

Why the bounds are enough.

* **Tasks.** The three strategies are all there: `human_fallback_llm` in
  `fallback`, `human` and `llm` in `pair`. Two people suffice for a race between
  people, since a reply is decided by one compare-and-set on one row. Two tasks
  suffice for the counter, since a transaction touches one row except in
  `CancelBatch` and `DisableUser`, whose sets are any. One user, because no
  action relates two; one restart, because a second starts from the state the
  first one leaves: rows ended, memory empty.
* **Drafts.** Two tabs and a chat give each kind of request a rival of each
  kind, two tasks give a draft a wrong task to end up in, two ids are enough for
  one row to be deleted and its id given again, and two texts for one write to
  follow another. A deadlock cannot be met there, since tabs can always read.
* **Connections.** The three platforms are the three ways a connector stops: a
  thread that must be joined and may hang (`lark`), one that only suspends
  (`wecom_ilink`, which also has the QR login), none (`websocket`). Two requests
  of any kind race each other, the supervisor, its backoff, the watchdog and the
  binding listener. `MaxSups = 3` bounds supervisor tasks that exist at once,
  leaked ones included; one that has ended is used again.
* **Messages.** Two deliveries of a message, or of two with the same claim, race
  in two handlers on the threaded platforms; two tasks make the newest row
  different from the others, and a page size of 1 makes a pull leave a row.
* **Administration.** Every hazard there is between the read of one request and
  the write of another, hence two threads, with a third and a fourth request to
  bring about or to use the state. The scenarios divide the operations by the
  tables they share.
* **Assistant.** `KeepRecent = 1` makes a send that finds two earlier messages
  compress, `MaxHistory = 3` makes a request shorter than the conversation, two
  conversations are one deletion and one id given again.

Symmetry is used over tabs and tasks in `drafts` and over threads in
`administration`, whose runs check invariants only and no formula of which names
one. (Ids are numbers and are not permuted.)

Each property of a passing run has a *mutant* in `PROJECT.json`: a plausible
slip in the code (a dropped WHERE condition, a state forgotten in a query, the
wrong target) with which TLC finds that property violated. Definitions that
begin with `Mut` are these slips; no specification refers to them.

## 4. Fairness

Whatever is assumed is assumed of the program's own scheduling. Nothing is
assumed of people, callers, platforms, the upstream LLM or the vendors' SDKs,
and crashes, faults, disconnects, disabling and deletions are never fair.

* `HandlersServed`, the hypothesis of `CallersAnswered`: `WF` of each task's
  handler, of its forwarding thread, and of the passing of time. The handler
  polls every 0.5 s and every one of its awaits is bounded; the thread is ended
  by the forwarding budget or the monitor of `_execute` if nothing else ends it.
  A stream's frames (`SendFrame`) are optional, `FinishSend` is one of the
  handler's own steps.
* `SweeperRuns`, the hypothesis of `Converges`: `WF` of the sweeper (its loop has
  a 15 s period and survives exceptions), of the passing of time, and of start-up
  and shutdown (the unit of `src/docs/DEPLOYMENT.md:113`, `Restart=on-failure`,
  restarts the process after a crash; an ordered shutdown ends every unfinished
  row itself). It assumes nothing of handlers, threads and people, each of which
  may be stuck for ever: sweeper and recovery alone suffice.
* `ConnectionRuntime!FairSpec`: `WF` of each request with the stop it calls, of
  each supervisor with its connector's thread, of the watchdog (a periodic
  loop), of the binding listener's stop, and of the lifespan. A task that is
  ready is scheduled by the event loop; a thread that was told to stop ends, or
  the join times out, and one that was given up on may end or not. No request has to be issued and no connection kept. `RequestsEnd`
  says `<>[]` idle, which is that each request ends: a behaviour has finitely
  many (`ops`).
* `ConnectionMessages!FairSpec`: `WF` of the commit of `create_task` (its push
  has a timeout) and of each handler (`busy_timeout` ends its waiting).
* `Assistant!FairSpec`: `WF` of `Proceed(s)`, the steps a send takes by itself
  and its deadlines. That the upstream answers is not among them.

`ApiAccess` has no liveness: each request is a read and a write, and
`DatabaseIsLocked` ends what cannot write.

## 5. Findings

1. **A caller may be told of a timeout although a reply was accepted**
   (`api/inference.py:322`, run `late_reply`). `_wait_for_reply` looks a second
   time before it times out - its comment says a reply that has arrived is
   returned and not overwritten - and then ignores whether the UPDATE matched.
   A reply committed between the two is kept (the row is not overwritten), its
   author is told that it was accepted, and the caller gets a 504. The slot
   stays held until the 600 s stale-output sweep.
2. **A sweep whose entry fails may overwrite an accepted reply**
   (`services/task_sweeper.py:97`, run `sweep_fault`). The comment above says
   that the source state read with the list guards against exactly that; after
   the `rollback` the entries left in the list are reloaded, and the "state that
   was read" is the current one. `response_ready` then becomes `timed_out`.
3. **A generated draft may end up in the draft of another task**
   (`services/llm_draft_service.py:807`, run `drafts_reuse`). `generate` holds
   the id of the LLM draft it found while it waits for the upstream, and merges
   into the row of that id if it is being edited, without comparing its task.
   Meanwhile the draft can be deleted in another tab and the next draft, saved
   on any task (of any user), gets its id. The endpoint speaks of the drafts of
   its own task only (`api/tasks.py:778`). `TextStaysUntilReuse` and its theorem
   say that this is the only way: without a reused id no text changes tasks.
4. **The last two administrators can disable each other**
   (`services/user_service.py:370`, run `last_admin`). The active administrators
   are counted before the first write, with a `FOR UPDATE` that SQLite ignores
   although its comment (`repositories/users.py:93`) relies on it. Two requests
   in two threads each count two, and none is left; `src/docs/PRODUCT.md:46`
   says that one always is.
5. **A used API key cannot be deleted, and says so with a 500**
   (`services/api_key_service.py:228`, run `deletes`). The tasks refer to the key
   with a RESTRICT; the docstring promises that it goes while its tasks go on,
   `src/docs/DATABASE.md:729` promises a 409, and the `IntegrityError` is caught
   nowhere. The model has the same outcome for a model that is in a group or a
   selection, a group with disabled keys, and an administrator's delete of a
   configuration that keys use, or anybody's of one that the assistant or a
   connection uses.

Two more departures from what the repository says are part of the models, and
the properties are stated so that they hold in spite of them:

* **A submission may mark the draft of another task.** `source_draft_id` is
  compared with neither the task nor the owner (`api/tasks.py:819`,
  `services/task_service.py:314`, `repositories/tasks.py:541`). The console sends
  what it holds (`src/admin/src/features/tasks/TaskEditor.tsx:330`), and when a
  generation ends after another task was opened, that is the draft of the task
  before (line 380). The draft then is `SUBMITTED`, lost to its editors, while
  its own task waits; `src/docs/DATABASE.md:503` says that a submission marks
  the chosen draft with the result so that no submitted draft has a task that is
  still competed for. What holds is `OneDraftPerReply`: each accepted reply takes
  one draft at most, a late one none.
* **A fold may delete what no summary tells.** The summariser sees 8000 characters
  (`services/assistant/service.py:379`), the fold deletes every row it covers
  (lines 352-353) and begins, with the default limit of 8000 tokens, at about
  25,600 characters; the docstring (line 312) speaks of folding early messages
  into a summary. `cut` is what is lost this way, and `NothingIsLost`
  and `RequestAnswersItsMessage` say that nothing else is.

`src/docs/DATABASE.md:234` calls the outbox id a monotonic cursor; after retention
the id of the newest row is given again (`forgotten`, up to which
`CursorSkipsNothing` is stated).

Observed without a violation run, since nothing in the repository promises
otherwise: the id of a deleted assistant conversation is given again (`reused`;
the properties are stated up to it); on the threaded platforms two senders who present the
one-time code together may both be told that they are bound (`CodeBindsOne` is
about the other platforms); and a log-in that authenticated before a disable or
a password reset creates its session after it.

## 6. Proofs

The theorems hold for every value of the constants under the named assumptions
of the modules, which TLC evaluates in the runs. The bounds of the runs (how many
requests, supervisors, tasks, ids) are constants too, so they hold for any bound.

* Tasks: `TasksFinite`, `OwnerType`, `StrategyType`, `MaxActiveTasksType`,
  `LlmIsNotASubmitter`, `NoReplyIsNotAnAuthor`, `StreamType`,
  `NoTaskIsNoTask`, `BoundsType`; `TransitionsAllowedHolds`,
  `LateTimeoutOverwritesNothingHolds`, `UpstreamFailureIsNotATimeoutHolds` and
  `ImplementsContractHolds` also have `MaxSweepFaults = 0` as a hypothesis,
  because of finding 2.
* Drafts: `ChatsType`, `DraftBoundsType`.
* Connections: `ScenariosAreBounded`, `NoneIsNoSupervisor`, `NamesDiffer` (the
  actors of the program are not requests).
* Messages: `NoneIsNoTask`, `NobodyIsNotNone`, `BoundsAreNumbers`, `ScenariosAreScenarios` (messages
  are messages, one per id).
* Accounts and access: `AccountsAssumption`; `ScenariosAreAccounts` and
  `ScenariosAreDatabases` say that the databases one may start from are ones the
  program can have written: rows of the tables' columns, unique addresses, no
  dangling reference, codes that count their users, enabled configurations with
  an endpoint.
* Assistant: `AssistantAssumption`.

| theorem | rests on |
|---|---|
| `TypeCorrect` | itself inductive; one lemma per group of variables |
| `SlotAccountingHolds`, `DisabledUserHoldsNothingHolds` | `SlotInv`: a row holds a slot exactly while its state is unfinished, and the counter is the number of such rows. The property alone is not inductive: `Finalize` tests `slotHeld`, not membership in the unfinished states. `SweepInv`: what the sweeper's list remembers is an unfinished state. `RowSteps` reduces each action to one of a few kinds of write; the arithmetic is done once per kind (`AdmittedCounts`, `ClosedCounts`, `DisabledCounts`) |
| `SingleAcceptedReplyHolds` | `AnswerInv`: a row in an open state has no reply, so the two UPDATEs that store one store the first |
| `HumanAnswerCostsNoCallHolds` | `CallInv`: a thread between claim and accept implies a row that was claimed, and a claimed row has no human reply |
| `CompletedMeansDeliveredHolds`, `CallerGetsStoredReplyHolds` | `DeliveryInv`: from the moment the handler holds a reply, the row's reply is that one, and the place before the completing UPDATE implies that the end was sent or that the row has left `responding` |
| `TransitionsAllowedHolds`, `LateTimeoutOverwritesNothingHolds` | `RowSteps` with the invariants above: the source of each write |
| `UpstreamFailureIsNotATimeoutHolds` | `TimeoutInv`: relates `calls`, the handler's place and the row |
| `ImplementsContractHolds` | the refinement: initial states map to initial states, and each step maps to a step of `TaskContract` or a stutter (`ContractStep`), from `SlotInv` for the limit and `AnswerInv` for the first answer |
| `DraftsTypeCorrect` | itself inductive |
| `OneEditingDraftHolds` | `RowsSteps`: a step inserts, rewrites, marks or removes one row, and an insert finds no editing draft of its task. Inductive as it stands |
| `TextStaysUntilReuseHolds` | `LinkInv`: a draft id on screen, or held by a generation, is at most `lastId`, and its row, while it exists, is of the task on screen; a new row has a greater id. The property alone is not inductive: nothing in it speaks of the ids that requests hold |
| `OneDraftPerReplyHolds` | `Waits`: a task that waits has no reply, so the step that marks a draft adds an answered task. `SubmittedStep` and `RepliesStep` say what a step does to the two sets, and the counts of both follow (`FiniteAll`, `SubmittedGrows`); it needs no hypothesis on ids |
| `ConnectionTypesHold` | `ConnectionTypeOK` and `Safe` together are inductive: where a `stop()` returns, `Told` is what says that the connector it ends is not another's |
| `RegisteredIsNotStoppedHolds` | `Safe`. The property alone is not inductive: nothing in it speaks of a stop that is suspended (`Told`: the connector it has taken is not registered and not open) or of a supervisor that is releasing (`Released`). All operations come down to a few kinds of step (`Calm`, `TakesTheConnector`, `GivesUp`, `Connects`, `Unregisters`, `Releases`, `ThreadMoves`, `Fresh`), and preservation is proved once per kind |
| `OneLarkThreadHolds` | `Owned`, a part of `Safe`: a living Lark thread is that of `loopOwner`, and there is one owner |
| `MessagesWellTyped` | `TypeInv`, inductive: what the later invariants need of the types |
| `MessagesTypeOKHolds` | `TypeInv`, `OutboxInv` (rows unique by id and by task, what is acknowledged had arrived) and `IdleInv` |
| `CursorSkipsNothingHolds` | `CursorInv`: unless retention freed the newest id, a row at or beyond the cursor exists, so `NewRowId` is greater than the cursor. The property alone is not inductive: a new row could get an id that the cursor has passed. `FiniteMax` gives `NewRowId` its meaning |
| `OncePerMessageHolds` | `OnceInv`: a handler past the receipt is the only one of its message, its receipt is stored and its message has had no effect; and what took effect is not delivered anew once retention took its receipt |
| `CodeBindsOneHolds` | `BindInv`: where one handler works at a time, the row it read is the current one |
| `AcceptedIsTheReplyHolds` | `CreatingInv`: the commit of `create_task` meets a task nobody has answered; `AcceptedInv`: an accepted text is the reply of an ended task |
| `ReplyFindsItsTaskHolds` | `SeenInv`: a package that was seen is of a task that exists or is being created; `AimInv`: a reply past its receipt finds a committed task, since the receipt had to wait for the lock. These tie the order of push, receipt and commit together |
| `AccountTypesHold` | `AccountInv`: what a write puts into the tables is what an earlier step read, so the invariant types the notes of waiting requests (`NotesInv`) and says that the rows they speak of stay; with `UseInv`, `ThrottleInv` and `CaptchaInv` for the counters |
| `AccessTypesHold` | `TableInv`: `AccountInv`, the tables with their references (`Database`), and `HolderTests` (who holds the lock is testing). A reference that was validated by a read may be gone by the write: there the foreign key's refusal, in the same step as the write, is what the proof uses |
| `CaptchaOnceHolds` | `CaptchaInv`: a captcha that is pending has let nobody past |
| `FailuresBoundedHolds` | `ThrottleInv`: the failures in the window and the attempts that were let in and may still fail are together within the bound; `Cardinality` of those attempts is what each visit changes |
| `InvitationsCountHolds` | `UseInv`: a code that does not exist has used 0, a user who does not exist came through none. The registration adds one user and one use; the delete unlinks its users with it |
| `EnabledWasTestedHolds` | `ConfigInv`; an edit without a test neither changes the endpoint nor enables |
| `RestrictionHoldsAlways` | `KeyInv`: the selection of a key is the one chosen last. It needs `ModelReferred`: no selected model is ever deleted, so an empty selection is never the remainder of another |
| `AssistantTypes` | `TypeInv`: the types and `Numbers`, that ids stay within what was created; inductive |
| `NothingIsLostHolds`, `ToldOnceHolds` | `FoldingInv`. Neither property is inductive: a send that awaits its summary is about to delete rows and to tell what they told. `FoldInv`: the rows it read are of its conversation; if they are all there, the summary tells what they tell, up to what the transcript left out (`unread`, which the deletion moves to `cut`); and a row of the conversation stands beyond any that is missing, so that its id is not given to a new row. `FreshInv`: what is not stored yet is told by nobody. `OldFirst`: the earlier messages have the smaller ids |
| `RequestAnswersItsMessageHolds` | an action property, from `TypeInv`, `FoldingInv` and `NothingIsLost`: the message is told by some row of its conversation unless it was deleted or cut, and a row outside the newest `MaxHistory` has that many rows after it |

Each invariant is `Init => Inv` and `Inv /\ [Next]_vars => Inv'` with one step
per action or per kind of write, and the temporal step is `PTL`. In
`ApiAccessProofs`, `StepKinds` says once and for all which actions move a
thread, so that an invariant about the tables in memory looks only at those.

Every invariant and every action property of the passing runs is stated by a
theorem. Only model-checked are the six liveness properties (`Converges`,
`CallersAnswered`, `RequestsEnd`, `EnabledIsAttended`, `MessagesAnswered`,
`SendsEnd`), since the prover does not handle `ENABLED`; and the violations of
section 5, which are counterexamples and need no proof.

## 7. Plan

Done: tasks, drafts, connections, messages, accounts, access and assistant, each
with a run, and theorems for all their safety properties. What is left, the most
useful first:

1. What would repair a finding, as a theorem with that as its hypothesis:
   `SomeAdminIsActive` with a single worker thread, `TextStaysWithItsTask` when
   ids are not given again, `TimeoutMeansNoReply` when nobody submits between the
   second look and the UPDATE.
2. The hazards of `PROJECT.json` that have no property (their notes say why):
   the most useful is the session that a log-in inserts after a disable.
3. Abstract specifications for the connections (a registry that hands out living
   connectors only) and for the conversations (a log with summaries), refined by
   the modules there are.

## 8. Not modelled

* Parsing and rendering of the five wire formats: functions of their input,
  without state; a rendering that fails is an action of `TaskLifecycle`.
* Vendor SDKs and the upstream LLM: external, any answer or none.
* The browser console, which keeps no state the server relies on; metrics, the
  log queue, backup and the command line, which share none with the rest.
* The stand-alone test of a configuration and the encryption of secrets;
  `Group.is_enabled`, names and avatars, which no decision here reads.
* Summaries and feedback that the event loop pushes by itself after a commit,
  and acknowledgements of tool calls, which change no row.

The database itself is assumed to serialise writers and to make a commit
durable.
