---------------------------- MODULE MCTaskDrafts ----------------------------
(***************************************************************************)
(* Instances of TaskDrafts for TLC: tasks of one user, answered by people. *)
(***************************************************************************)
EXTENDS TaskDrafts, TLC

CONSTANTS u1, t1, t2, p1, p2, c1

MCOwner    == [t \in Tasks |-> u1]
MCStrategy == [t \in Tasks |-> "human"]

\* Tabs and tasks are interchangeable: no formula names one.
TabSymmetry == Permutations(Submitters \ Chats) \cup Permutations(Tasks)
============================================================================
