\* kpages_arena (importing spans from a source, BTs from the base) or base_arena
\* (self-sufficient for BTs, fed by arena_add), two threads, MEM_ATOMIC or not.
CONSTANTS
  Threads = {t1, t2}
  NULL = NULL
  Kinds <- KpagesOrBase
  AddRanges <- BaseAddRanges
  SourceSpace <- KpSourceSpace
  ImportScale = 0
  PageSize = 4
  BtsPerPage = 3
  MaxBtPages = 2
  MaxHeld = 1
  Sizes <- KpSizes
  Styles <- KpStyles
  Atomic = {FALSE, TRUE}
  Aligns <- KpAligns
  Phases <- KpPhases
  Nocrosses = {0}
  MinAddrs = {0}
  MaxAddrs = {0}
  MaxAddr = 8
  Cursors = {0}
  TrackStarts = FALSE
  CanDestroy = FALSE
SYMMETRY ThreadSym
SPECIFICATION Spec
INVARIANTS TypeOK Tiling Accounting Ownership SpanConservation NoAdjacentFree NoAssertionFailure
PROPERTIES FreeReturnsEmptySpans
CONSTRAINT ImportBound
