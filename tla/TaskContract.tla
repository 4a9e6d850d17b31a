---------------------------- MODULE TaskContract ----------------------------
(***************************************************************************)
(* What the gateway promises about request tasks, with no handler, worker, *)
(* sweeper, clock, version or counter in sight (docs/PRODUCT.md sections   *)
(* 5 and 9): a user has at most Limit unfinished tasks and none while      *)
(* disabled; the first answer to an open task is its answer for ever; only *)
(* an answered task completes and only an open one times out; a verdict is *)
(* final.  TaskLifecycle is shown to implement it.                         *)
(***************************************************************************)
EXTENDS Integers, FiniteSets

CONSTANTS Users, Tasks, Answers, NoAnswer, Owner, Limit

VARIABLES
  enabled,   \* [Users -> BOOLEAN]
  phase,     \* [Tasks -> absent, open, answered, done]
  answer,    \* [Tasks -> Answers or NoAnswer]
  verdict    \* [Tasks -> none or how the task ended]

vars == <<enabled, phase, answer, verdict>>

Unended       == {t \in Tasks : phase[t] \in {"open", "answered"}}
UnendedOf(u)  == {t \in Unended : Owner[t] = u}

Admit(t) ==
  /\ phase[t] = "absent"
  /\ enabled[Owner[t]]
  /\ Cardinality(UnendedOf(Owner[t])) < Limit
  /\ phase' = [phase EXCEPT ![t] = "open"]
  /\ UNCHANGED <<enabled, answer, verdict>>

Answer(t, a) ==
  /\ phase[t] = "open"
  /\ phase' = [phase EXCEPT ![t] = "answered"]
  /\ answer' = [answer EXCEPT ![t] = a]
  /\ UNCHANGED <<enabled, verdict>>

Verdicts == [open     |-> {"timed_out", "failed", "cancelled"},
             answered |-> {"completed", "failed", "cancelled"}]

Finish(t, v) ==
  /\ t \in Unended
  /\ v \in Verdicts[phase[t]]
  /\ phase' = [phase EXCEPT ![t] = "done"]
  /\ verdict' = [verdict EXCEPT ![t] = v]
  /\ UNCHANGED <<enabled, answer>>

CancelAll(S) ==
  /\ phase' = [t \in Tasks |-> IF t \in S THEN "done" ELSE phase[t]]
  /\ verdict' = [t \in Tasks |-> IF t \in S THEN "cancelled" ELSE verdict[t]]
  /\ UNCHANGED answer

\* A restart, or a shutdown, takes the unfinished tasks with it.
Abandon(S) ==
  /\ S # {}
  /\ CancelAll(S)
  /\ UNCHANGED enabled

Disable(u) ==
  /\ enabled[u]
  /\ enabled' = [enabled EXCEPT ![u] = FALSE]
  /\ CancelAll(UnendedOf(u))

Enable(u) ==
  /\ ~enabled[u]
  /\ enabled' = [enabled EXCEPT ![u] = TRUE]
  /\ UNCHANGED <<phase, answer, verdict>>

Init ==
  /\ enabled = [u \in Users |-> TRUE]
  /\ phase   = [t \in Tasks |-> "absent"]
  /\ answer  = [t \in Tasks |-> NoAnswer]
  /\ verdict = [t \in Tasks |-> "none"]

Next ==
  \/ \E t \in Tasks : Admit(t)
  \/ \E t \in Tasks, a \in Answers : Answer(t, a)
  \/ \E t \in Tasks, v \in {"completed", "failed", "timed_out", "cancelled"} : Finish(t, v)
  \/ \E S \in SUBSET Unended : Abandon(S)
  \/ \E u \in Users : Disable(u) \/ Enable(u)

Spec == Init /\ [][Next]_vars
=============================================================================
