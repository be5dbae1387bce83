SPECIFICATION Spec
CONSTANTS
  Callers = {c1}
  Main = Main
  AutoReconnect = TRUE
  MaxPending = 2
  MaxMishaps = 1
PROPERTIES
  LoggedOutStaysDown
