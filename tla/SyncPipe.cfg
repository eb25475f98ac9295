SPECIFICATION FairSpec
CONSTANTS
  MaxSessions = 2
  MaxSent = 3
  MaxFree = 2
  MaxSignals = 1
INVARIANT OneAnnouncement
PROPERTIES DataIsRead DisconnectEnds
CHECK_DEADLOCK FALSE
