SPECIFICATION Spec
CONSTANTS
  m1 = m1
  m2 = m2
  Memories = {1, 2}
  Levels = {1}
  Born <- AsConfident
  Twins = {}
  Tracked = {}
  Workers = {m1, m2}
  Does <- MergerAndAny
  MaxFaults = 0
  MaxCalls = 1
  MaxRewrites = 0
PROPERTIES StaysForgotten
