CONSTANTS
  Chars <- MCChars
  MaxChars = 6
  IntBits = 6
SPECIFICATION Spec
INVARIANTS
  LexerTypeOK
  TokensBeginInCode
  LinesCounted
  AssertOnlyAtEnd
  LongestToken
PROPERTIES
  IntegersConverted
  LexerEnds
