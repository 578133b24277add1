\* xalloc with a phase and a nocross boundary from one segment [2, 6).
CONSTANTS
  Threads = {t1}
  NULL = NULL
  Kinds <- PlainKind
  AddRanges <- NocrossRange
  SourceSpace = {}
  ImportScale = 0
  PageSize = 2
  BtsPerPage = 3
  MaxBtPages = 2
  MaxHeld = 1
  Sizes = {2}
  Styles = {"BEST"}
  Atomic = {FALSE}
  Aligns = {1}
  Phases = {1}
  Nocrosses = {2}
  MinAddrs = {0}
  MaxAddrs = {0}
  MaxAddr = 8
  Cursors = {0}
  TrackStarts = FALSE
  CanDestroy = FALSE
CONSTRAINT ImportBound
SPECIFICATION Spec
PROPERTY XallocConstraints
