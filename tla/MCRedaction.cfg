SPECIFICATION Spec
CONSTANTS
  Names <- MCNames
  Texts <- MCTexts
  Numbers <- MCNumbers
  LowerCase <- MCLowerCase
  Cases <- AllCases
INVARIANTS
  TypeOK
  ParsedAsOwned
  OnlyNamedIsLegible
  RulesAreHonoured
  VerifierReadsTheBank
  AnswerIsRead
