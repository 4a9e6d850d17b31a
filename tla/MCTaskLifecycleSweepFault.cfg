SPECIFICATION Spec
CONSTANTS
  t1 = t1
  t2 = t2
  u1 = u1
  s1 = s1
  s2 = s2
  Users = {u1}
  Tasks = {t1, t2}
  Submitters = {s1}
  Llm = Llm
  NoReply = NoReply
  NoTask = NoTask
  Owner <- MCOwner
  Strategy <- HumanStrategy
  Stream <- NoStream
  MaxActiveTasks = 2
  MaxRestarts = 0
  MaxSweepFaults = 1
PROPERTIES
  LateTimeoutOverwritesNothing
