CONSTANTS
  shift = shift
  caps = caps
  a = a
  volume = volume
  nousage = nousage
  nobit = nobit
  Keys <- MCKeys
  Devices <- MCDevices
  Usages <- MCUsages
  NoUsage = nousage
  Modifiers <- MCModifiers
  NoBit = nobit
  UsageOf <- MCUsageOf
  BitOf <- MCBitOf
  Rules <- MCRules
  ConsumerUsages <- MCConsumerUsages
  FlagOf <- MCFlagOf
  NoFlag = noflag
  CapsLock = caps
  ModifierOrder <- MCModifierOrder
  ModifierUsage <- MCModifierUsage
  NoDevice = none
  ChannelCapacity = 1
  MaxEcho = 4
  MaxWire = 1
  MaxLate = 1
  MaxCredit = 0
SPECIFICATION MacSpec
INVARIANTS
  NoFeedback
  NoStuckKeys
  EngineAtRest
