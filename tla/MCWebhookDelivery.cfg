SPECIFICATION FairSpec
CONSTANTS
  Events = {e1, e2}
  Workers = {w1, w2}
  Patchers = {p1}
  Capacity = 1
  Attempts = 3
  Deadline = 30
  Timeout = 10
  Durations = {0, 29}
  MaxFaults = 1
  Idle = Idle
  NoPatch = NoPatch
INVARIANTS
  TypeOK
  OpenIsInOnePlace
  ReceivedAtMostAttempts
  VerdictMatchesReceipt
  WorkerIsFreedInTime
PROPERTIES
  ImplementsDeliveries
  EventsSettle
