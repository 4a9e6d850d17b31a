-------------------------- MODULE MCTaskLifecycle --------------------------
(***************************************************************************)
(* Instances of TaskLifecycle for TLC.  The tasks' attributes are functions *)
(* of the task, which a .cfg cannot write.                                 *)
(***************************************************************************)
EXTENDS TaskLifecycle, TLC

CONSTANTS t1, t2, u1, s1, s2

MCOwner == [t \in Tasks |-> u1]

\* A person answers, the forwarder takes over at the deadline; streamed.
FallbackStrategy == [t \in Tasks |-> "human_fallback_llm"]
StreamFirst      == [t \in Tasks |-> t = t1]

\* One task of each kind that differs in its flow.
MixedStrategy == [t \in Tasks |-> IF t = t1 THEN "human" ELSE "llm"]
HumanStrategy == [t \in Tasks |-> "human"]
NoStream      == [t \in Tasks |-> FALSE]

\* The submitters are interchangeable: no formula names one.
SubmitterSymmetry == Permutations(Submitters)
============================================================================
