SPECIFICATION Spec
CONSTANTS
  m1 = m1
  m2 = m2
  Memories = {1, 2, 3}
  Levels = {1}
  Born <- AsConfident
  Twins = {}
  Tracked = {1}
  Workers = {m1}
  Does <- RememberAndMerge
  MaxFaults = 0
  MaxCalls = 0
  MaxRewrites = 0
INVARIANTS SourcesKept
