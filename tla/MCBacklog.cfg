SPECIFICATION FairSpec
CONSTANTS
  s1 = s1
  s2 = s2
  Events = {1, 2, 3}
  Sessions = {s1, s2}
  NoSession = NoSession
  Owner <- Interleaved
  Stops = {}
  Workers = {w1}
  Backed = {FALSE}
  Window = 1
  MaxTries = 2
  MaxFaults = 0
  MaxTies = 0
  MaxReprocs = 0
PROPERTIES EventuallyConsolidated
