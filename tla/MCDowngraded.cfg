SPECIFICATION Spec
CONSTANTS
  Events = {1, 2}
  Workers = {w1}
  ClaimLimit = 1
  BatchLimit = 1
  MaxTries = 2
  ReadOnly = {}
  HeurFinds = {1, 2}
  HeurKeeps = {1, 2}
  a = a
  b = b
  Texts = {a, b}
  Alike <- AllAlike
  Kind <- Facts
  HeurText <- Found
  MaxFaults = 0
  MaxChanges = 0
  MaxResets = 0
PROPERTIES NeverDowngraded
