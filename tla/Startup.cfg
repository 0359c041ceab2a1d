SPECIFICATION MCSpec
CONSTANTS
  Texts <- MCTexts
  Argvs <- MCArgvs
  Lists <- MCLists
  Values <- MCValues
  StoulOf <- MCStoulOf
  Regex <- MCRegex
  Default <- MCDefault
  Modulus = 131072
  None = None
INVARIANTS
  TypeOK
  TokensAreText
  KeptAsDeclared
  StartedAsTold
  AttachedAsListed
PROPERTIES
  ReadReturns
\* The parsers return.
CHECK_DEADLOCK FALSE
