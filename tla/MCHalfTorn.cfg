SPECIFICATION Spec
CONSTANTS
  s1 = s1
  s2 = s2
  Events = {1, 2, 3}
  Sessions = {s1, s2}
  NoSession = NoSession
  Owner <- Interleaved
  Stops = {2}
  Workers = {w1}
  Backed = {FALSE}
  Window = 3
  MaxTries = 2
  MaxFaults = 0
  MaxTies = 0
  MaxReprocs = 1
INVARIANTS NotHalfTorn
