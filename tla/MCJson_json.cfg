SPECIFICATION FairSpec
CHECK_DEADLOCK FALSE
CONSTANTS
  MaxInt = 127
  MaxExact = 1024
  MaxDouble = 400000
  BufferSize = 16
  Alphabet <- MCAlphabet
  Texts <- MCTexts
  RightMargin = 14
  Cost <- MCCost
  MaxCost = 6
  MaxPing = 2
  Costs = {0, 6}
INVARIANTS
  NodesLive
  ErrorsTold
  NumbersConvert
  RoundTrip
PROPERTIES
  Finishes
