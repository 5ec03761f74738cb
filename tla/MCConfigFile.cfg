CONSTANTS
  MaxSaves = 3
  Missing = Missing
  c1 = c1
  c2 = c2
  Commands = {c1, c2}
  Systems <- MCSystems
  Edits <- MCEdits
  MaxFaults = 1
  MaxEvents = 0
SPECIFICATION FileSpec
CHECK_DEADLOCK FALSE
INVARIANTS
  WrittenIsReadable
PROPERTIES
  OnlyForward
  LastSaveTakesEffect
  NoRuleLost
