SPECIFICATION Spec
CONSTANTS
  t1 = t1
  t2 = t2
  u1 = u1
  s1 = s1
  s2 = s2
  Users = {u1}
  Tasks = {t1}
  Submitters = {s1, s2}
  Llm = Llm
  NoReply = NoReply
  NoTask = NoTask
  Owner <- MCOwner
  Strategy <- FallbackStrategy
  Stream <- StreamFirst
  MaxActiveTasks = 1
  MaxRestarts = 1
  MaxSweepFaults = 1
INVARIANTS
  SingleAcceptedReply
  CallerGetsStoredReply
  CompletedMeansDelivered
  HumanAnswerCostsNoCall
  UpstreamFailureIsNotATimeout
PROPERTIES
  CallersAnswered
  Converges
  ImplementsContract
