SPECIFICATION Spec
CONSTANTS
  t1 = t1
  t2 = t2
  u1 = u1
  s1 = s1
  s2 = s2
  Users = {u1}
  Tasks = {t1}
  Submitters = {s1}
  Llm = Llm
  NoReply = NoReply
  NoTask = NoTask
  Owner <- MCOwner
  Strategy <- MixedStrategy
  Stream <- StreamFirst
  MaxActiveTasks = 1
  MaxRestarts = 1
  MaxSweepFaults = 0
INVARIANTS
  TimeoutMeansNoReply
