SPECIFICATION Spec
CONSTANTS
  a1 = a1
  a2 = a2
  storage = storage
  Arenas <- MCArenas
  pageblock_storage <- storage
  PageSize = 4
  TotalPages = 4
  StructSize = 1
  Sizes = {1, 4, 7, 8}
INVARIANTS
  TypeOK
  PagesPartitioned
  StructsLinkedOnce
  StructsAccessible
  ProtectionMatchesOwnership
  MemoryIsExclusive
  FreelistNonEmpty
  NoAssert
PROPERTIES
  CallReturns
  KeepsContract
