SPECIFICATION Spec
CONSTANTS
  Arrays = {a1, a2}
  Blocks = {b1, b2, b3}
  Null = null
  Dimensions = {0, 2}
  Point = point
  Extents <- RowExtents
  Values = {0}
  DefaultValue = 0
  standard = standard
  pool = pool
  Allocators = {standard}
  DefaultAlloc = standard
  Select <- SelectSame
  POCCA = FALSE
  POCMA = TRUE
  POCS = FALSE
  Mixes = {}
  Throws <- CopyAllocateThrows
  Archives <- RowArchives
SYMMETRY MCSymmetry
INVARIANTS
  NoUndefinedBehaviour
