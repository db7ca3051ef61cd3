SPECIFICATION FairSpec
CONSTANTS
  w1 = w1
  w2 = w2
  art1 = art1
  old = old
  new = new
  Writers <- MCWriters
  Articles <- MCArticles
  Titles <- MCTitles
  MaxMsg = 2
  MaxPerTick = 2
  MaxSent = 3
  MaxFaults = 1
INVARIANTS
  TypeOK
  QuietAgreement
PROPERTIES
  ImplementsLossyTitleFeed
  EventuallyPublished
  TriggerReturns
CHECK_DEADLOCK FALSE
