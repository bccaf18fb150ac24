SPECIFICATION Spec
CONSTANTS
  Arrays = {a1, a2}
  Blocks = {b1, b2, b3}
  Null = null
  Dimensions = {0, 2}
  Point = point
  Extents <- MCExtents
  Values = {0, 1}
  DefaultValue = 0
  standard = standard
  pool = pool
  Allocators = {standard, pool}
  DefaultAlloc = standard
  Select <- SelectDefault
  POCCA = FALSE
  POCMA = TRUE
  POCS = TRUE
  Mixes = {}
  Throws = {}
  Archives <- MCArchives
SYMMETRY MCSymmetry
INVARIANTS
  ArraysHoldTheirElements
  OwnBlocks
  NoLeakedBlocks
  NoUndefinedBehaviour
PROPERTIES
  ViewsStayValid
  ImplementsArrayValues
