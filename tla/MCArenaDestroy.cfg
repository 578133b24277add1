\* arena_destroy of a source-less arena fed by arena_add: which pages it
\* hands back to the base arena when the range it was given starts on a page.
CONSTANTS
  Threads = {t1}
  NULL = NULL
  Kinds <- PlainKind
  AddRanges <- AlignedRange
  SourceSpace = {}
  ImportScale = 0
  PageSize = 2
  BtsPerPage = 3
  MaxBtPages = 2
  MaxHeld = 1
  Sizes <- KpSizes
  Styles <- AllStyles
  Atomic = {FALSE, TRUE}
  Aligns <- KpAligns
  Phases <- KpPhases
  Nocrosses = {0}
  MinAddrs <- PlainMinAddrs
  MaxAddrs <- PlainMaxAddrs
  MaxAddr = 8
  Cursors <- AllCursors
  TrackStarts = TRUE
  CanDestroy = TRUE
CONSTRAINT ImportBound
SPECIFICATION Spec
INVARIANT DestroyFreesBtPages
