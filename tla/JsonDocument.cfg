SPECIFICATION Spec
CONSTANTS
  MaxInt = 7
  MaxLargestInt = 127
  StackLimit = 3
  NameLimit = 3
  RightMargin = 12
  Sessions <- MCSessions
  Leaves <- MCLeaves
  Names <- MCNames
  MaxSize = 3
  Layouts <- MCLayouts
  Comparands <- MCComparands
PROPERTIES
  ReadsJson
  AcceptsOnlyJson
  WrittenIsRead
  NumbersConvert
  OrderIsTotal
  ImplementsSequence
CHECK_DEADLOCK FALSE
