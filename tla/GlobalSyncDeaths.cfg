SPECIFICATION DeathSpec
CONSTANTS
  w1 = w1
  w2 = w2
  Writers <- MCWriters
  Plugin = Plugin
  NoOne = NoOne
  HeldToCommit = FALSE
  MaxAppends = 4
INVARIANTS
  NumbersAreNew
PROPERTY ImplementsLossyTitleFeed
CHECK_DEADLOCK FALSE
