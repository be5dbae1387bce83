SPECIFICATION FairSpec
CONSTANTS
  Messages = {m1, m2}
  Clients = {c1}
  BatchLimit = 1
  MaxClock = 2
  MaxFaults = 2
  NoMessage = NoMessage
  NoSend = NoSend
INVARIANTS
  TypeOK
  AtMostOnceUnlessUnrecorded
  SentRowsHoldTheirId
PROPERTIES
  CancelFinalUnlessHeld
  ImplementsOutbox
  DueMessagesSettle
