CONSTANTS
  lctl = lctl
  lsft = lsft
  j = j
  power = power
  nousage = nousage
  nobit = nobit
  Keys <- MCKeys
  Devices = {}
  Usages <- MCUsages
  NoUsage = nousage
  Modifiers <- MCModifiers
  NoBit = nobit
  UsageOf <- MCUsageOf
  BitOf <- MCBitOf
  Actions <- MCActions
  MaxFailures = 2
SPECIFICATION EmissionSpec
INVARIANTS
  EffectAsPlanned
  ChordComplete
