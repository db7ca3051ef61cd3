SPECIFICATION FairSpec
CONSTANTS
  w1 = w1
  w2 = w2
  art = art
  number = number
  blank = blank
  Writers <- MCWriters
  Modes <- MCModes
  Versions <- MCVersions
  OptionLists <- MCOptionLists
  Articles <- MCArticles
  Titles <- MCTitles
  Numbers <- MCNumbers
  Blanks <- MCBlanks
  Maximum = 2
  MaxMsg = 2
  MaxEvents = 3
INVARIANTS
  TypeOK
  Agreement
PROPERTIES
  LanesDrain
  WaitsOnlyForReader
CHECK_DEADLOCK FALSE
