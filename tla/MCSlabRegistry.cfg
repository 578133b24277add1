\* Three threads and one struct of kmem_cache_cache: enough for a destroy,
\* a create that reuses the freed struct, and two clients of the new cache.
CONSTANTS
  Threads = {t1, t2, t3}
  Structs = {s1}
  Sizes = {1, 2}
  NoCache = NoCache
SPECIFICATION Spec
INVARIANT CacheLockExclusive
