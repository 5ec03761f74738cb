CONSTANTS
  shift = shift
  a = a
  volume = volume
  ConsumerUsages <- MCConsumerUsages
  ModifierOrder <- MCModifierOrder
  ModifierUsage <- MCModifierUsage
  Users = {ann, bob}
  NoUser = nobody
  Frames <- MCFrames
  Corrupt = corrupt
  Paths <- MCPaths
  Servers <- MCServers
  Messages <- MCMessages
  QueueCapacity = 4
  AcceptLimit = 1
  FrameLimit = 1
  MaxInbox = 1
  Overlaps = FALSE
SPECIFICATION Spec
INVARIANT NothingStuck
PROPERTIES
  PeerFollowsConsole
  StopsUnlessServing
CHECK_DEADLOCK FALSE
