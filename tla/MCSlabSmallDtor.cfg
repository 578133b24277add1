\* A small-layout cache with a destructor: objects freed in allocation
\* order leave free_small_obj off buffer 0, and kmem_cache_destroy's walk
\* runs past the objects.
CONSTANTS
  Threads = {t1, t2}
  Pages = {p1, p2, p3}
  PGSIZE = 32
  WordSize = 4
  SlabHdrSize = 12
  LargeCutoff = 4
  NumBufPerSlab = 2
  Caches <- OnlySmallDtor
  MaxHeld = 3
  MaxReaps = 0
SYMMETRY Sym
SPECIFICATION Spec
INVARIANT DtorOnObjects
