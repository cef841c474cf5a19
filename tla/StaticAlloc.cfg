SPECIFICATION Spec
CONSTANTS
  N = 5
  Sizes = {1, 60, 61, 130, 200}
  BlockSize = 64
  HeaderSize = 4
  Word = 1024
  MaxRef = 3
  NULL = NULL
  MaxHeld = 3
INVARIANTS
  TypeOK
  RefcountExact
  RegionsDisjoint
  BitmapExact
  RegionFitsRequest
PROPERTIES
  ImplementsMemory
