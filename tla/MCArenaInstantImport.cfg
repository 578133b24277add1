\* INSTANTFIT requests of a size that is not a power of two, import_scale 0.
CONSTANTS
  Threads = {t1}
  NULL = NULL
  Kinds <- KpagesKind
  AddRanges = {}
  SourceSpace <- LargeSourceSpace
  ImportScale = 0
  PageSize = 4
  BtsPerPage = 3
  MaxBtPages = 2
  MaxHeld = 1
  Sizes = {3}
  Styles = {"INSTANT"}
  Atomic = {FALSE}
  Aligns = {1}
  Phases = {0}
  Nocrosses = {0}
  MinAddrs = {0}
  MaxAddrs = {0}
  MaxAddr = 8
  Cursors = {0}
  TrackStarts = FALSE
  CanDestroy = FALSE
SPECIFICATION Spec
INVARIANT AtMostOneImportPerAlloc
CONSTRAINT ImportBound
