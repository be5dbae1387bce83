SPECIFICATION Spec
CONSTANTS
  Messages = {m1}
  Clients = {c1}
  BatchLimit = 1
  MaxClock = 1
  MaxFaults = 0
  NoMessage = NoMessage
  NoSend = NoSend
PROPERTIES
  CancelsOnlyScheduled
