SPECIFICATION FairSpec
CONSTANTS
  w1 = w1
  w2 = w2
  Writers <- MCWriters
  Plugin = Plugin
  NoOne = NoOne
  HeldToCommit = TRUE
  MaxAppends = 5
INVARIANTS
  TypeOK
PROPERTIES
  ImplementsTitleFeed
  EventuallyPublished
  TriggerReturns
CHECK_DEADLOCK FALSE
