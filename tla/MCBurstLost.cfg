SPECIFICATION Spec
CONSTANTS
  s1 = s1
  s2 = s2
  Events = {1, 2, 3}
  Sessions = {s1}
  NoSession = NoSession
  Owner <- Resumed
  Stops = {}
  Workers = {w1}
  Backed = {TRUE}
  Window = 3
  MaxTries = 3
  MaxFaults = 0
  MaxTies = 0
  MaxReprocs = 0
INVARIANTS Covered
