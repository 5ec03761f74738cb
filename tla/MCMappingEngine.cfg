CONSTANTS
  lctl = lctl
  lsft = lsft
  caps = caps
  j = j
  media = media
  nousage = nousage
  nobit = nobit
  kbd = kbd
  Keys <- MCKeys
  Devices <- MCDevices
  Usages <- MCUsages
  NoUsage = nousage
  Modifiers <- MCModifiers
  NoBit = nobit
  UsageOf <- MCUsageOf
  BitOf <- MCBitOf
  Lookups <- MCLookups
  Reachability <- MCBoth
  NoKey = NoKey
SPECIFICATION Spec
INVARIANTS
  MarksBelongToPress
  ModifierBitsJustified
  ModifierStateExact
PROPERTIES
  NothingDroppedSilently
  KeyFateKept
