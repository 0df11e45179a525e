SPECIFICATION Spec
CONSTANTS
  Names <- MCNames
  Texts <- MCTexts
  Numbers <- MCNumbers
  LowerCase <- MCLowerCase
  Cases <- PageCases
INVARIANT
  RestIsCommitted
