CHECK_DEADLOCK FALSE
SPECIFICATION FairSpec
CONSTANTS
  r1 = r1
  r2 = r2
  Requests = {r1, r2}
  Scenarios <- MCScenarios
  MaxSups = 3
  None = None
INVARIANTS
  ConnectionTypeOK
  RegisteredIsNotStopped
  OneLarkThread
PROPERTIES
  RequestsEnd
  EnabledIsAttended
