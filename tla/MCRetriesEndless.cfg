SPECIFICATION FairSpec
CONSTANTS
  Events = {1}
  Workers = {w1}
  ClaimLimit = 1
  BatchLimit = 1
  MaxTries = 2
  ReadOnly = {}
  HeurFinds = {1}
  HeurKeeps = {1}
  a = a
  b = b
  Texts = {a, b}
  Alike <- AllAlike
  Kind <- Facts
  HeurText <- FoundA
  MaxFaults = 0
  MaxChanges = 2
  MaxResets = 0
PROPERTIES RetriesEnd
