SPECIFICATION Spec
CONSTANTS
  Setups <- Ways
  Events <- Seen
  Policies <- Ignored
  Prompts <- Asked
  Recalled <- Found
  MaxEvents = 3
  MaxPrompts = 1
  MaxFaults = 2
CHECK_DEADLOCK FALSE
INVARIANTS TypeOK StoredOnce StoredInOrder NothingMissing ContextBounded
