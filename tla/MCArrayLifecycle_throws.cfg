SPECIFICATION Spec
CONSTANTS
  Arrays = {a1, a2, a3}
  Blocks = {b1, b2, b3, b4}
  Null = null
  Dimensions = {0, 2}
  Point = point
  Extents <- RowExtents
  Values = {0, 1}
  DefaultValue = 0
  standard = standard
  pool = pool
  Allocators = {standard}
  DefaultAlloc = standard
  Select <- SelectSame
  POCCA = FALSE
  POCMA = TRUE
  POCS = FALSE
  Mixes = {}
  Throws <- AllThrows
  Archives <- RowArchives
SYMMETRY MCSymmetry
CONSTRAINT NoDamageYet
INVARIANTS
  DamageIsContained
PROPERTIES
  FailureHurtsTargetOnly
  StrongGuarantee
