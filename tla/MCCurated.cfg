SPECIFICATION FairSpec
CONSTANTS
  a1 = a1
  a2 = a2
  p1 = p1
  p2 = p2
  Entries = {"x", "y"}
  MayHold <- Shared
  Found <- Old
  Alike <- Similar
  Conf <- Served
  Build = "npm"
  Agents = {a1, a2}
  Processes = {p1, p2}
  Host <- Apart
  QueueLimit = 2
  MaxTurns = 3
  MaxEdits = 2
  MaxFaults = 1
CHECK_DEADLOCK FALSE
INVARIANTS TypeOK MapIsTrue QueueExplains NoEntryDropped MirrorIsExact
PROPERTIES HandlersEnd
