SPECIFICATION FairSpec
CONSTANTS
  Callers = {c1}
  Main = Main
  AutoReconnect = TRUE
  MaxPending = 2
  MaxMishaps = 2
INVARIANTS
  TypeOK
PROPERTIES
  ReinitReplacesDeadClient
  PhoneLogoutHeals
  
  ConnectedComesBack
