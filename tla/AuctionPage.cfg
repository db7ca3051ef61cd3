SPECIFICATION Spec
CONSTANTS
  art1 = art1
  art2 = art2
  bids1 = bids1
  bids2 = bids2
  title1 = title1
  title2 = title2
  old = old
  new = new
  ArticleList <- MCArticles
  Titles <- MCTitles
  BidTopic <- MCBidTopic
  TitleTopic <- MCTitleTopic
  Replies = Replies
  All = All
  None = None
  MaxClicks = 2
  MaxChanges = 2
  MaxInFlight = 3
INVARIANTS
  ListAgrees
  DetailShowsPrice
CHECK_DEADLOCK FALSE
