SPECIFICATION Spec
CONSTANTS
  TopicLengths <- MCTopicLengths
  TitleTexts <- MCTitleTexts
  Size <- MCSize
INVARIANTS
  TopicIsIntact
  FirstWordIsPublished
  AbortsOnBlankTitleOnly
