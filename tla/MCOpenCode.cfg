SPECIFICATION FairSpec
CONSTANTS
  Sessions = {"s1"}
  Announcements <- Told
  Tools <- Calls
  IdleGap = 2
  MaxAnnounced = 2
  MaxRestarts = 1
CHECK_DEADLOCK FALSE
INVARIANTS TypeOK NoRepeat FinalTextsStored NoSelfFeeding WorkIsKnown
PROPERTY ProcessesEnd
