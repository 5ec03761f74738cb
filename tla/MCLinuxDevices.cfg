CONSTANTS
  Nodes = {event3, event4}
  MaxPlugs = 2
  MaxUnread = 2
  MaxRestarts = 2
  MaxFaults = 1
  Batch = 1
SPECIFICATION FairSpec
CHECK_DEADLOCK FALSE
INVARIANTS
  GoneIsAnnounced
  NoneForgotten
PROPERTIES
  FollowsPlugging
  SmallBurstsAreRead
