SPECIFICATION Spec
CONSTANTS
  MaxSyncs = 2
  MaxFaults = 0
INVARIANTS
  OneRowPerMessage
