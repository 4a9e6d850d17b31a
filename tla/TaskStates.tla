---------------------------- MODULE TaskStates ----------------------------
(***************************************************************************)
(* The request-task state machine as the domain layer declares it          *)
(* (app/domain/tasks.py, app/domain/enums.py).  No code path consults      *)
(* can_transition when it writes a row: every write is a conditional       *)
(* UPDATE of its own, so that the writes stay inside this table is a       *)
(* property to be checked, not a guard of the model.                       *)
(***************************************************************************)

\* Every value the state column takes, and "absent" for a row not inserted yet.
TaskState == {"received", "waiting_human", "forwarding_llm", "response_ready",
              "responding", "completed", "failed", "timed_out", "cancelled"}

\* Final: the slot is given back and nothing may follow.
TerminalStates == {"completed", "failed", "timed_out", "cancelled"}

SlotHoldingStates == {"received", "waiting_human", "forwarding_llm",
                      "response_ready", "responding"}

\* The successors of each state.
AllowedTransitions ==
  [ received       |-> {"waiting_human", "forwarding_llm", "failed", "cancelled"},
    waiting_human  |-> {"response_ready", "forwarding_llm", "timed_out",
                        "failed", "cancelled"},
    forwarding_llm |-> {"response_ready", "responding", "failed", "cancelled"},
    response_ready |-> {"responding", "failed", "cancelled"},
    responding     |-> {"completed", "failed", "cancelled"} ]

CanTransition(from, to) ==
  /\ from \in DOMAIN AllowedTransitions
  /\ to \in AllowedTransitions[from]
=============================================================================
