CONSTANTS
  a1 = a1
  a2 = a2
  e1 = e1
  e2 = e2
  NoElem = NoElem
  storage = storage
  Arrays <- MCArrays
  Elems <- MCElems
  ElemSize <- MCElemSize
  SegmentSlots = 3
  MemSize = 7
  OtherSizes = {1}
SPECIFICATION Spec
INVARIANT ArrayTypeOK
PROPERTY ImplementsSequence
