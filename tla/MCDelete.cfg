SPECIFICATION Spec
CONSTANTS
  Ids = {i1, i2}
  Workspaces = {w1}
  Requests = {r1, r2}
  MaxInstances = 2
  DefaultLimit = 2
  MaxFaults = 0
  NoRow = NoRow
  NoCall = NoCall
INVARIANTS
  DeleteLeavesNothing
