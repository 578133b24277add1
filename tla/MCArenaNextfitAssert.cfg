\* A source-less arena, one thread holding two blocks, NEXTFIT and INSTANTFIT.
CONSTANTS
  Threads = {t1}
  NULL = NULL
  Kinds <- PlainKind
  AddRanges <- OneRange
  SourceSpace = {}
  ImportScale = 0
  PageSize = 2
  BtsPerPage = 3
  MaxBtPages = 2
  MaxHeld = 2
  Sizes <- KpSizes
  Styles <- NextInstant
  Atomic = {FALSE}
  Aligns = {1}
  Phases = {0}
  Nocrosses = {0}
  MinAddrs = {0}
  MaxAddrs = {0}
  MaxAddr = 8
  Cursors = {0}
  TrackStarts = FALSE
  CanDestroy = FALSE
CONSTRAINT ImportBound
SPECIFICATION Spec
INVARIANT NoAssertionFailure
