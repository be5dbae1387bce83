SPECIFICATION Spec
CONSTANTS
  Ids = {i1, i2, i3}
  Workspaces = {w1, w2}
  Requests = {r1, r2}
  MaxInstances = 1
  DefaultLimit = 2
  MaxFaults = 2
  NoRow = NoRow
  NoCall = NoCall
SYMMETRY Symmetry
INVARIANTS
  TypeOK
  ServedUnlessFault
  ClientsKeepTheirStore
  OrphansWereOvertaken
  LimitGivesWayToOverlaps
