\* A source-less arena fed by arena_add, one thread, every style and
\* xalloc constraint, MEM_ATOMIC or not, any initial nextfit cursor.
CONSTANTS
  Threads = {t1}
  NULL = NULL
  Kinds <- PlainKind
  AddRanges <- PlainAddRanges
  SourceSpace = {}
  ImportScale = 0
  PageSize = 2
  BtsPerPage = 3
  MaxBtPages = 2
  MaxHeld = 1
  Sizes <- KpSizes
  Styles <- AllStyles
  Atomic = {FALSE, TRUE}
  Aligns <- KpAligns
  Phases <- KpPhases
  Nocrosses = {0}
  MinAddrs <- PlainMinAddrs
  MaxAddrs <- PlainMaxAddrs
  MaxAddr = 8
  Cursors <- AllCursors
  TrackStarts = TRUE
  CanDestroy = TRUE
CONSTRAINT ImportBound
SPECIFICATION Spec
INVARIANTS Tiling Accounting NoAdjacentFree NoAssertionFailure DescentFindsLeastUpper
PROPERTIES XallocConstraints
