CONSTANTS
  AttrCapacity = 15
  AttrHash <- MCAttrHash
  Memory = 5
  MaxText = 2
  MaxNodes = 4
  MaxLinks = 2
SPECIFICATION Spec
INVARIANT CompilerTypeOK
INVARIANT ReadsLiveMemory
INVARIANT PrintsEveryNodeOnce
INVARIANT OnlyKnownAsserts
PROPERTY PrintEnds
PROPERTY ImplementsTree
