SPECIFICATION FairSpec
CONSTANTS
  s1 = s1
  s2 = s2
  Sends = {s1, s2}
  Streams = {s2}
  KeepRecent = 1
  MaxHistory = 3
  MaxRounds = 3
  MaxSessions = 2
  MaxEarlier = 2
CHECK_DEADLOCK FALSE
INVARIANTS
  AssistantTypeOK
  NothingIsLost
  ToldOnce
PROPERTIES
  RequestAnswersItsMessage
  SendsEnd
