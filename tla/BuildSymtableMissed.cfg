SPECIFICATION WalkSpec
CONSTANTS
  Keywords <- MCKeywords
  Names <- MCNames
  Ksigma <- MCKsigma
  HashWidth = 2
  InitialLog2 = 1
  MaxLog2 = 2
  MaxScope = 9
  MaxSymbols = 9
  MaxElements = 5
INVARIANT
  RedeclarationReported
