SPECIFICATION FairSpec
CONSTANTS
  lctl = lctl
  a = a
  vol = vol
  nousage = nousage
  nobit = nobit
  kbd = kbd
  pad = pad
  nodev = nodev
  editor = editor
  admin = admin
  Keys <- MCKeys
  Devices <- MCDevices
  Usages <- MCUsages
  NoUsage = nousage
  Modifiers <- MCModifiers
  NoBit = nobit
  UsageOf <- MCUsageOf
  BitOf <- MCBitOf
  Rules <- MCRules
  NoDevice = nodev
  KeysOn <- MCKeysOn
  Nameless = {}
  ConsumerUsages = {vol}
  Windows = {editor, admin}
  Elevated = {admin}
  Protected = {}
  ChannelCapacity = 1
  MaxQueue = 1
  MaxRaw = 1
  MaxPending = 2
  MaxOwed = 0
INVARIANT NothingStuck
PROPERTIES OutputsDrained HookComesBack
CHECK_DEADLOCK FALSE
