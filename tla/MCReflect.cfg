SPECIFICATION FairSpec
CONSTANTS
  Events = {1, 2}
  Workers = {w1, w2}
  ClaimLimit = 2
  BatchLimit = 2
  MaxTries = 2
  ReadOnly = {2}
  HeurFinds = {1, 2}
  HeurKeeps = {1, 2}
  a = a
  b = b
  Texts = {a, b}
  Alike <- AllAlike
  Kind <- Facts
  HeurText <- Found
  MaxFaults = 1
  MaxChanges = 1
  MaxResets = 0
INVARIANTS TypeOK LeaseInv RetryPending
PROPERTIES ImplementsLease RetriedEventsReturn AllSettle
