\* The comment on the first pass, for every text: violated by one that ends in ':'.
SPECIFICATION Spec
CONSTANTS
  Values <- MCValues
  Texts <- MCTexts
  NoNumber = NoNumber
  IntMax = 1000
INVARIANT
  CountedIsAssigned
CHECK_DEADLOCK FALSE
