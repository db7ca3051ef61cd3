SPECIFICATION FairSpec
CONSTANTS
  bids = bids
  Topics <- MCTopic
  Bodies <- MCBodies
  Replies = Replies
  OnePerFrame = TRUE
  MaxCalls = 2
  MaxInFlight = 2
INVARIANTS
  TypeOK
  NothingStray
  DiscardedWereLate
  CallbacksAgree
PROPERTIES
  ImplementsRequests
  EntriesEnd
CHECK_DEADLOCK FALSE
