SPECIFICATION Spec
CONSTANTS
  Keywords <- MCKeywords
  Names <- MCNames
  Ksigma <- MCKsigma
  HashWidth = 3
  InitialLog2 = 1
  MaxLog2 = 3
  MaxScope = 2
  MaxSymbols = 4
INVARIANTS
  TypeOK
  TableIsMap
PROPERTY
  ImplementsMap
