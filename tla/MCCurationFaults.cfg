SPECIFICATION FairSpec
CONSTANTS
  m1 = m1
  m2 = m2
  Memories = {1, 2}
  Levels = {1, 2, 3}
  Born <- OlderIsBetter
  Twins = {1, 2}
  Tracked = {}
  Workers = {m1, m2}
  Does <- MergerAndAny
  MaxFaults = 1
  MaxCalls = 2
  MaxRewrites = 1
INVARIANTS TypeOK Climbs SomeoneStands
PROPERTIES RevivedFromCopy EventuallyOne
