SPECIFICATION FairSpec
CONSTANTS
  h1 = h1
  h2 = h2
  ann = ann
  bob = bob
  m1 = m1
  m2 = m2
  m3 = m3
  None = None
  Nobody = Nobody
  Handlers = {h1, h2}
  MaxTask = 2
  PageSize = 1
  Scenarios <- MCScenarios
CHECK_DEADLOCK FALSE
INVARIANTS
  MessagesTypeOK
  OncePerMessage
  AcceptedIsTheReply
  ReplyFindsItsTask
  CodeBindsOne
  CursorSkipsNothing
PROPERTIES
  MessagesAnswered
