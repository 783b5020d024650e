SPECIFICATION Spec
CONSTANTS
  Tokens <- MCTokens
  MaxTokens = 7
  AllUpTo = 4
INVARIANTS
  TreeIsRight
  PassesExpressions
