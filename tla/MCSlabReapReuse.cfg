\* After a reap the freed slab stays on the empty list and its page is reused.
CONSTANTS
  Threads = {t1, t2}
  Pages = {p1, p2}
  PGSIZE = 32
  WordSize = 4
  SlabHdrSize = 12
  LargeCutoff = 4
  NumBufPerSlab = 2
  Caches <- OnlySmall
  MaxHeld = 2
  MaxReaps = 1
SYMMETRY Sym
SPECIFICATION Spec
PROPERTY PoolSpec
