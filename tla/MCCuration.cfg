SPECIFICATION FairSpec
CONSTANTS
  m1 = m1
  m2 = m2
  Memories = {1, 2, 3}
  Levels = {1}
  Born <- AsConfident
  Twins = {}
  Tracked = {}
  Workers = {m1, m2}
  Does <- MergerAndAny
  MaxFaults = 0
  MaxCalls = 1
  MaxRewrites = 0
INVARIANTS TypeOK Climbs SomeoneStands
PROPERTIES EventuallyOne
