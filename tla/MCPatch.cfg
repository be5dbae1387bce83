SPECIFICATION Spec
CONSTANTS
  Events = {e1}
  Workers = {w1}
  Patchers = {p1, p2}
  Capacity = 1
  Attempts = 3
  Deadline = 30
  Timeout = 10
  Durations = {0}
  MaxFaults = 0
  Idle = Idle
  NoPatch = NoPatch
PROPERTIES
  UnsentFieldsAreKept
