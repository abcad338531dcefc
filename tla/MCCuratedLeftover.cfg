SPECIFICATION Spec
CONSTANTS
  a1 = a1
  a2 = a2
  p1 = p1
  p2 = p2
  Entries = {"x", "y", "z"}
  MayHold <- One
  Found <- Empty
  Alike <- Similar
  Conf <- Served
  Build = "npm"
  Agents = {a1}
  Processes = {p1}
  Host <- Alone
  QueueLimit = 2
  MaxTurns = 3
  MaxEdits = 2
  MaxFaults = 0
CHECK_DEADLOCK FALSE
INVARIANT RemovalsMirrored
