SPECIFICATION Spec
CONSTANTS
  Workspaces = {w1, w2}
  Users = {u1, u2}
  Addresses = {a1}
  AddressOf <- MCAddressOf
  Tokens = {t1, t2}
  Keys = {k1, k2}
  Requests = {r1, r2}
  RegistrationEnabled = FALSE
  MaxAttempts = 1
  MaxFaults = 1
  None = None
SYMMETRY MCSymmetry
INVARIANTS
  TypeOK
  SecondWorkspaceHadARival
  NobodyLeftAfterAFault
  OrphanKeysSlippedThrough
  GuessesAreBounded
PROPERTIES
  LastAdminFallsToAFormerOne
