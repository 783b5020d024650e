SPECIFICATION Spec
CONSTANTS
  Languages <- WholeLanguage
INVARIANTS
  ParserTypeOK
  BracketsMatch
  OnlyConstAsserts
PROPERTY
  AlwaysAdvances
