CONSTANTS
  Threads = {t1, t2}
  NoThread = NoThread
  MaxFocus = 2
  MaxPanics = 1
  MaxReloads = 1
  MaxFaults = 1
  Sessions <- MCSessions
  App <- MCApp
  Entries <- MCEntries
  Updated <- MCUpdated
  Panicking <- MCPanicking
  Reloading <- MCReloading
SPECIFICATION FairQuerySpec
INVARIANTS
  NeverGoesBack
  NothingLeftBehind
  ActiveIsListed
PROPERTIES
  AnswersWithTheFocus
  KnowsTheFocus
  EveryoneIsServed
