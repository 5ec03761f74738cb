CONSTANTS
  lctl = lctl
  lsft = lsft
  caps = caps
  j = j
  media = media
  nousage = nousage
  nobit = nobit
  kbd = kbd
  Keys <- MCKeys
  Devices <- MCKeyboards
  Usages <- MCUsages
  NoUsage = nousage
  Modifiers <- MCModifiers
  NoBit = nobit
  UsageOf <- MCUsageOf
  BitOf <- MCBitOf
  Keyboards <- MCKeyboards
  KeysOn <- MCKeysOn
  Lookups <- MCLookups
  NoKeyboard = NoKeyboard
  MaxBatch = 1
  MaxRing = 1
  MaxQueued = 0
  MaxMissed = 1
SPECIFICATION Spec
INVARIANTS
  NoStuckKeys
  CleanTapUndisturbed
  EmittedModifiersDown
