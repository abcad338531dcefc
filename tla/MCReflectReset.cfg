SPECIFICATION Spec
CONSTANTS
  Events = {1, 2}
  Workers = {w1, w2}
  ClaimLimit = 1
  BatchLimit = 1
  MaxTries = 2
  ReadOnly = {2}
  HeurFinds = {1, 2}
  HeurKeeps = {1}
  a = a
  b = b
  Texts = {a, b}
  Alike <- NoneAlike
  Kind <- Facts
  HeurText <- Found
  MaxFaults = 0
  MaxChanges = 1
  MaxResets = 1
INVARIANTS LeaseInv RetryPending
SYMMETRY Perms
