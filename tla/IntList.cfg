\* Every text of up to three items.
SPECIFICATION Spec
CONSTANTS
  Values <- MCValues
  Texts <- MCTexts
  NoNumber = NoNumber
  IntMax = 7
INVARIANTS
  TypeOK
  PassesAgree
  OnlyLegalTexts
  ListIsTheExpansion
CHECK_DEADLOCK FALSE
