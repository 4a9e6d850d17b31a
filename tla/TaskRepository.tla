-------------------------- MODULE TaskRepository --------------------------
(***************************************************************************)
(* The two tables that arbitrate every race on a request task:             *)
(* request_tasks and the users' slot counter.  Each write of the           *)
(* repositories (app/repositories/tasks.py, app/repositories/users.py) is  *)
(* one SQL UPDATE whose WHERE clause decides the race and whose SET clause *)
(* is applied to the rows it matched.  A WHERE clause is an operator named *)
(* ...Matches, a SET clause an operator named ...Sets, and callers test    *)
(* the one before they apply the other, in one step: SQLite serialises     *)
(* writers.                                                                *)
(***************************************************************************)
EXTENDS Integers, FiniteSets, TaskStates

CONSTANTS
  Users,            \* accounts that own API keys
  Tasks,            \* the inference requests that may arrive
  Submitters,       \* browser tabs, IM chats, MCP calls that send human replies
  Llm,              \* the automatic forwarder as the author of a reply
  NoReply,          \* response_payload_json IS NULL
  Owner,            \* [Tasks -> Users], owner_user_id
  Strategy,         \* [Tasks -> Strategies], reply_strategy_snapshot
  MaxActiveTasks    \* MAX_ACTIVE_TASKS_PER_USER, 10 in the code

Strategies == {"human", "llm", "human_fallback_llm"}
Authors    == Submitters \cup {Llm}

ASSUME TasksFinite == IsFiniteSet(Tasks)
ASSUME OwnerType == Owner \in [Tasks -> Users]
ASSUME StrategyType == Strategy \in [Tasks -> Strategies]
ASSUME MaxActiveTasksType == MaxActiveTasks \in Nat \ {0}
ASSUME LlmIsNotASubmitter == Llm \notin Submitters
ASSUME NoReplyIsNotAnAuthor == NoReply \notin Authors

VARIABLES
  isActive,         \* [Users -> BOOLEAN], users.is_active
  activeTaskCount,  \* [Users -> Nat], users.active_task_count
  state,            \* [Tasks -> state column], "absent" before the INSERT
  version,          \* [Tasks -> Nat], the optimistic-lock column
  slotHeld,         \* [Tasks -> BOOLEAN], slot_released_at IS NULL
  reply,            \* [Tasks -> author of response_payload_json]
  age               \* [Tasks -> 0..2], the clocks the row is compared with

(***************************************************************************)
(* age abstracts the two clocks of a row.  While it waits for a human:     *)
(* 0 before human_deadline_at, 1 past it, 2 past it by the sweeper's claim *)
(* grace.  In a later state: 2 when updated_at is older than the sweeper's *)
(* cutoff for that state.  Every UPDATE sets updated_at, so it resets age. *)
(***************************************************************************)
Fresh      == 0
PastDue    == 1
PastGrace  == 2

rowVars  == <<state, version, slotHeld, reply, age>>
userVars == <<isActive, activeTaskCount>>

RowState == TaskState \cup {"absent"}

Activated(u)    == {t \in Tasks : Owner[t] = u /\ slotHeld[t]}
ActiveRows      == {t \in Tasks : state[t] \notin TerminalStates /\ slotHeld[t]}

-----------------------------------------------------------------------------
(* users *)

\* Mutant: the account may be disabled.
MutAcquireSlotMatches(u) == activeTaskCount[u] < MaxActiveTasks

AcquireSlotMatches(u) == isActive[u] /\ activeTaskCount[u] < MaxActiveTasks

AcquireSlotSets(u) ==
  activeTaskCount' = [activeTaskCount EXCEPT ![u] = @ + 1]

\* Mutant: the counter is decremented twice and without its "> 0" condition.
MutReleaseSlots(S) ==
  activeTaskCount' =
    [u \in Users |-> activeTaskCount[u] - 2 * Cardinality({t \in S : Owner[t] = u})]

\* atomic_release_slot, once for each row of S: the counter never goes below 0.
ReleaseSlots(S) ==
  activeTaskCount' =
    [u \in Users |->
      LET released == Cardinality({t \in S : Owner[t] = u})
      IN  IF released <= activeTaskCount[u]
            THEN activeTaskCount[u] - released ELSE 0]

-----------------------------------------------------------------------------
(* request_tasks *)

\* The INSERT of create_task: always waiting_human, whatever the strategy.
InsertTask(t) ==
  /\ state'    = [state EXCEPT ![t] = "waiting_human"]
  /\ version'  = [version EXCEPT ![t] = 1]
  /\ slotHeld' = [slotHeld EXCEPT ![t] = TRUE]
  /\ age'      = [age EXCEPT ![t] = Fresh]
  /\ UNCHANGED reply

\* What every UPDATE of one row does besides its own columns.
Advance(t, to) ==
  /\ state'   = [state EXCEPT ![t] = to]
  /\ version' = [version EXCEPT ![t] = @ + 1]
  /\ age'     = [age EXCEPT ![t] = Fresh]

\* Mutant: any unfinished task takes a reply.
MutFirstReplyMatches(t, expected) == slotHeld[t]

FirstReplyMatches(t, expected) ==
  state[t] = "waiting_human" /\ version[t] = expected

FirstReplySets(t, author) ==
  /\ Advance(t, "response_ready")
  /\ reply' = [reply EXCEPT ![t] = author]
  /\ UNCHANGED slotHeld

\* Mutant: the claim looks at the slot only.
MutClaimFallbackMatches(t) == slotHeld[t]

ClaimFallbackMatches(t) == state[t] = "waiting_human"

ClaimFallbackSets(t) ==
  /\ Advance(t, "forwarding_llm")
  /\ UNCHANGED <<slotHeld, reply>>

AcceptForwardMatches(t, expected) ==
  state[t] = "forwarding_llm" /\ version[t] = expected

AcceptForwardSets(t) ==
  /\ Advance(t, "response_ready")
  /\ reply' = [reply EXCEPT ![t] = Llm]
  /\ UNCHANGED slotHeld

StartResponseMatches(t) == state[t] = "response_ready" /\ slotHeld[t]

StartResponseSets(t) ==
  /\ Advance(t, "responding")
  /\ UNCHANGED <<slotHeld, reply>>

\* Mutant: without slot_released_at IS NULL.
MutFinalizeMatches(t, sources) == state[t] \in sources

\* release_slot_to_terminal: sources is allowed_sources, every state when None.
FinalizeMatches(t, sources) == slotHeld[t] /\ state[t] \in sources

\* cancel_caller_disconnected.
CancelMatches(t) == slotHeld[t] /\ state[t] \notin TerminalStates

\* _terminal_values, on each row of S.
TerminalValues(S, to) ==
  /\ state'    = [t \in Tasks |-> IF t \in S THEN to ELSE state[t]]
  /\ version'  = [t \in Tasks |-> IF t \in S THEN version[t] + 1 ELSE version[t]]
  /\ slotHeld' = [t \in Tasks |-> slotHeld[t] /\ t \notin S]
  /\ age'      = [t \in Tasks |-> IF t \in S THEN Fresh ELSE age[t]]
  /\ UNCHANGED reply

-----------------------------------------------------------------------------
RepositoryTypeOK ==
  /\ isActive        \in [Users -> BOOLEAN]
  /\ activeTaskCount \in [Users -> Nat]
  /\ state           \in [Tasks -> RowState]
  /\ version         \in [Tasks -> Nat]
  /\ slotHeld        \in [Tasks -> BOOLEAN]
  /\ reply           \in [Tasks -> Authors \cup {NoReply}]
  /\ age             \in [Tasks -> Fresh .. PastGrace]

RepositoryInit ==
  /\ isActive        = [u \in Users |-> TRUE]
  /\ activeTaskCount = [u \in Users |-> 0]
  /\ state           = [t \in Tasks |-> "absent"]
  /\ version         = [t \in Tasks |-> 0]
  /\ slotHeld        = [t \in Tasks |-> FALSE]
  /\ reply           = [t \in Tasks |-> NoReply]
  /\ age             = [t \in Tasks |-> Fresh]
=============================================================================
