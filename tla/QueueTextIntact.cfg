SPECIFICATION Spec
CONSTANTS
  TopicLengths <- MCTopicLengths
  TitleTexts <- MCTitleTexts
  Size <- MCSize
INVARIANT EveryWordIsPublished
