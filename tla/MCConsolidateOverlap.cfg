SPECIFICATION Spec
CONSTANTS
  s1 = s1
  s2 = s2
  Events = {1, 2}
  Sessions = {s1, s2}
  NoSession = NoSession
  Owner <- Pair
  Stops = {2}
  Workers = {w1, w2}
  Backed = {FALSE}
  Window = 2
  MaxTries = 2
  MaxFaults = 1
  MaxTies = 0
  MaxReprocs = 1
INVARIANTS CoveredWithoutRetry GateRestored
