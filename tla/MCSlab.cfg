\* A small-layout cache, or a large-layout one with constructor and
\* destructor; two threads, three pages; a client that never reaps.
CONSTANTS
  Threads = {t1, t2}
  Pages = {p1, p2, p3}
  PGSIZE = 32
  WordSize = 4
  SlabHdrSize = 12
  LargeCutoff = 4
  NumBufPerSlab = 2
  Caches <- BothLayouts
  MaxHeld = 3
  MaxReaps = 0
SYMMETRY Sym
SPECIFICATION NoReapSpec
INVARIANTS TypeOK SlabsListed BuffersConserved Accounting NoAssertionFailure 
PROPERTIES PoolSpec
