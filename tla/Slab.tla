-------------------------------- MODULE Slab --------------------------------
(***************************************************************************)
(* One kmem_cache of the slab allocator, as kern/src/slab.c implements    *)
(* it.  In this repository that file is concatenated into                 *)
(*   src/tools/compilers/gcc-glibc/glibc-2.19-akaros/sysdeps/akaros/_exit.c *)
(* at lines 305-682; every line number below refers to that file.         *)
(*                                                                         *)
(* State.  A slab is named by the page (small layout) or the run of pages *)
(* (large layout) that backs it: Pages is all the memory the cache could  *)
(* ever be given, and page[p] is the reference count of page p, 0 when it *)
(* is free.  The three TAILQs of struct kmem_cache are the sequences      *)
(* lists.full, lists.partial, lists.empty, head first.  An object is      *)
(* <<p, i>>, the i-th buffer of slab p.  freeObjs[p] is the slab's free   *)
(* chain (free_small_obj threaded through the trailing words, or the      *)
(* bufctl SLIST), head first; busy[p] is num_busy_obj.  These per-slab    *)
(* fields live in the slab's own memory, so kmem_slab_destroy does not    *)
(* clear them: a freed slab keeps its contents until its page is reused.  *)
(*                                                                         *)
(* Threads.  Every operation holds cp->cache_lock from start to end       *)
(* (spin_lock_irqsave), so each operation is one step.  kmem_cache_grow   *)
(* runs inside kmem_cache_alloc under the lock and is part of that step.  *)
(***************************************************************************)
EXTENDS Integers, Sequences, SequencesExt, FiniteSets, FiniteSetsExt

CONSTANTS
  Threads,        \* kernel threads using the cache
  Pages,          \* pages the cache may get from kpage_alloc/get_cont_pages
  PGSIZE,         \* bytes per page
  WordSize,       \* sizeof(uintptr_t): the trailing link word of an object
  SlabHdrSize,    \* sizeof(struct kmem_slab), at the top of a small slab's page
  LargeCutoff,    \* SLAB_LARGE_CUTOFF
  NumBufPerSlab,  \* NUM_BUF_PER_SLAB
  Caches,         \* __kmem_cache_create's arguments: [obj_size, align, ctor, dtor]
  MaxHeld,        \* bound: objects one thread holds at a time
  MaxReaps        \* bound: kmem_cache_reap calls

ROUNDUP(x, a) == ((x + a - 1) \div a) * a

LOG2_UP(n) == CHOOSE k \in 0..n : 2^k >= n /\ (k = 0 \/ 2^(k-1) < n)

\* kmem_cache_grow: the layout and size of every slab of the cache c
IsLargeOf(c) == c.obj_size > LargeCutoff

SlabObjSize(c) == ROUNDUP(c.obj_size + WordSize, c.align)

OrderPgAlloc(c) == LOG2_UP(ROUNDUP(NumBufPerSlab * SlabObjSize(c), PGSIZE) \div PGSIZE)

NumTotalObjOf(c) ==
  IF IsLargeOf(c) THEN (2^OrderPgAlloc(c) * PGSIZE) \div SlabObjSize(c)
                  ELSE (PGSIZE - SlabHdrSize) \div SlabObjSize(c)

ASSUME \A c \in Caches :
         /\ c.align >= 1 /\ c.obj_size >= 1
         \* with fewer, grow builds a slab with no objects (and, small, loops
         \* on num_total_obj - 1 wrapping around)
         /\ NumTotalObjOf(c) >= 1

\* every object any of the caches can hand out
Objects == Pages \X (0..Max({NumTotalObjOf(c) : c \in Caches}) - 1)

ListNames == {"full", "partial", "empty"}

VARIABLES
  cp,         \* the cache's fixed parameters, one of Caches
  lists,      \* [ListNames -> Seq(Pages)]: the three slab TAILQs
  page,       \* [Pages -> Int]: reference count of each backing page
  busy,       \* [Pages -> Int]: num_busy_obj of the slab on that page
  freeObjs,   \* [Pages -> Seq(0..NumTotalObj-1)]: the slab's free chain
  nrCurAlloc, \* cp->nr_cur_alloc
  held,       \* [Threads -> SUBSET Objects]: objects handed out, not freed
  ctored,     \* objects the constructor has run on
  dtored,     \* <<p, i>> the destructor ran on; i may lie past the objects
  reaps,      \* kmem_cache_reap calls so far
  halt        \* "none", or why the kernel stopped

vars == <<cp, lists, page, busy, freeObjs, nrCurAlloc, held, ctored, dtored,
          reaps, halt>>

\* the parameters of the cache in hand
IsLarge == IsLargeOf(cp)

NumTotalObj == NumTotalObjOf(cp)

HasCtor == cp.ctor

HasDtor == cp.dtor

(***************************************************************************)
(* List surgery: TAILQ_REMOVE then TAILQ_INSERT_HEAD.                      *)
(***************************************************************************)
Move(ls, s, from, to) == [ls EXCEPT ![from] = Remove(@, s), ![to] = Cons(s, @)]

(***************************************************************************)
(* kmem_cache_grow (556-627).  A small slab's free chain runs through the *)
(* page in address order; a large slab pushes bufctl i for i = 0, 1, ...  *)
(* on the head, so its list runs backwards.  The small loop runs the      *)
(* constructor only for i < num_total_obj - 1: the last buffer is never   *)
(* constructed.                                                           *)
(***************************************************************************)
\* mutant: the chain numbers the buffers from 1
FreshFreeListOffByOne ==
  IF IsLarge THEN [k \in 1..NumTotalObj |-> NumTotalObj - k + 1]
             ELSE [k \in 1..NumTotalObj |-> k]

FreshFreeList ==
  IF IsLarge THEN [k \in 1..NumTotalObj |-> NumTotalObj - k]
             ELSE [k \in 1..NumTotalObj |-> k - 1]

Constructed(p) ==
  IF ~HasCtor THEN {}
  ELSE IF IsLarge THEN {<<p, i>> : i \in 0..NumTotalObj - 1}
  ELSE {<<p, i>> : i \in 0..NumTotalObj - 2}

(***************************************************************************)
(* kmem_slab_destroy (398-432).  A small slab runs the destructor on      *)
(* num_total_obj buffers starting at free_small_obj and stepping by the   *)
(* object size, then drops its page; the walk is right only when the      *)
(* chain's head is buffer 0.  A large slab runs the destructor on every   *)
(* bufctl's buffer, frees the bufctls, the pages and the slab header.     *)
(* -1 stands for the NULL head of an exhausted small chain.               *)
(***************************************************************************)
DtorWalk(p) ==
  IF ~HasDtor THEN {}
  ELSE IF IsLarge THEN {<<p, i>> : i \in ToSet(freeObjs[p])}
  ELSE LET h == IF freeObjs[p] = <<>> THEN -1 ELSE Head(freeObjs[p])
       IN {<<p, h + k>> : k \in 0..NumTotalObj - 1}

\* kmem_slab_destroy on every slab of the sequence L, in turn: the pages
\* go back, and what lay in them is no longer a constructed object
DestroySlabs(L) ==
  /\ page' = [p \in Pages |-> page[p] - Cardinality({k \in DOMAIN L : L[k] = p})]
  /\ dtored' = dtored \cup UNION {DtorWalk(L[k]) : k \in DOMAIN L}
  /\ ctored' = {o \in ctored : o[1] \notin ToSet(L)}

(***************************************************************************)
(* kmem_cache_alloc (460-505), from the point where slab s heads the      *)
(* partial list: pop the head of its free chain, count it busy, and move  *)
(* the slab to the full list when it has no free object left.  A slab    *)
(* whose chain is empty hands out NULL, and the next read through it      *)
(* faults.                                                                *)
(***************************************************************************)
\* mutant: the chain's head is read but not advanced
TakeObjNoPop(t, s, ls, fo, bz, pg, ct) ==
  /\ fo[s] # <<>>
  /\ freeObjs' = fo
  /\ busy' = [bz EXCEPT ![s] = @ + 1]
  /\ lists' = IF bz[s] + 1 = NumTotalObj THEN Move(ls, s, "partial", "full") ELSE ls
  /\ held' = [held EXCEPT ![t] = @ \cup {<<s, Head(fo[s])>>}]
  /\ nrCurAlloc' = nrCurAlloc + 1
  /\ page' = pg /\ ctored' = ct /\ UNCHANGED halt

TakeObj(t, s, ls, fo, bz, pg, ct) ==
  IF fo[s] = <<>>
  THEN /\ halt' = "fault"
       /\ UNCHANGED <<lists, page, busy, freeObjs, nrCurAlloc, held, ctored>>
  ELSE /\ freeObjs' = [fo EXCEPT ![s] = Tail(@)]
       /\ busy' = [bz EXCEPT ![s] = @ + 1]
       /\ lists' = IF bz[s] + 1 = NumTotalObj THEN Move(ls, s, "partial", "full")
                                              ELSE ls
       /\ held' = [held EXCEPT ![t] = @ \cup {<<s, Head(fo[s])>>}]
       /\ nrCurAlloc' = nrCurAlloc + 1
       /\ page' = pg
       /\ ctored' = ct
       /\ UNCHANGED halt

\* kmem_cache_grow's effect on the state, for the free page p
KmemCacheGrow(t, p) ==
  LET ls == [lists EXCEPT !.empty = Cons(p, @)]
  IN TakeObj(t, p, Move(ls, p, "empty", "partial"),
             [freeObjs EXCEPT ![p] = FreshFreeList],
             [busy EXCEPT ![p] = 0],
             [page EXCEPT ![p] = 1],
             {o \in ctored : o[1] # p} \cup Constructed(p))

(***************************************************************************)
(* kmem_cache_alloc (460-505): the first partial slab; else the first     *)
(* empty slab, moved to partial; else grow by one slab.  Grow fails when  *)
(* no page is free, and the allocation panics (flags without MEM_ERROR;   *)
(* with MEM_ERROR it unlocks and throws, changing nothing).               *)
(***************************************************************************)
\* mutant: an empty slab is used in place, never moved to the partial list
KmemCacheAllocNoMove(t) ==
  /\ halt = "none"
  /\ Cardinality(held[t]) < MaxHeld
  /\ UNCHANGED <<cp, dtored, reaps>>
  /\ CASE lists.partial # <<>> ->
            TakeObj(t, Head(lists.partial), lists, freeObjs, busy, page, ctored)
       [] lists.empty # <<>> ->
            TakeObj(t, Head(lists.empty), lists, freeObjs, busy, page, ctored)
       [] \E p \in Pages : page[p] = 0 ->
            \E p \in Pages : page[p] = 0 /\ KmemCacheGrow(t, p)
       [] OTHER ->
            /\ halt' = "panic"
            /\ UNCHANGED <<lists, page, busy, freeObjs, nrCurAlloc, held, ctored>>

KmemCacheAlloc(t) ==
  /\ halt = "none"
  /\ Cardinality(held[t]) < MaxHeld
  /\ UNCHANGED <<cp, dtored, reaps>>
  /\ CASE lists.partial # <<>> ->
            TakeObj(t, Head(lists.partial), lists, freeObjs, busy, page, ctored)
       [] lists.empty # <<>> ->
            TakeObj(t, Head(lists.empty),
                    Move(lists, Head(lists.empty), "empty", "partial"),
                    freeObjs, busy, page, ctored)
       [] \E p \in Pages : page[p] = 0 ->
            \E p \in Pages : page[p] = 0 /\ KmemCacheGrow(t, p)
       [] OTHER ->
            /\ halt' = "panic"
            /\ UNCHANGED <<lists, page, busy, freeObjs, nrCurAlloc, held, ctored>>

(***************************************************************************)
(* kmem_cache_free (513-554): find the slab (page masking, or the bufctl  *)
(* back-pointer), push the buffer on its chain, and move the slab from    *)
(* full to partial if it was full, else from partial to empty if it has  *)
(* no busy object left.  The tests read num_busy_obj after the decrement. *)
(***************************************************************************)
\* kmem_cache_free with one change, for the mutants below
FreeVariant(t, push, count, toEmpty) ==
  /\ halt = "none"
  /\ \E o \in held[t] :
       LET s == o[1]
           n == busy[s] - 1
       IN /\ freeObjs' = IF push THEN [freeObjs EXCEPT ![s] = Cons(o[2], @)] ELSE freeObjs
          /\ busy' = [busy EXCEPT ![s] = n]
          /\ nrCurAlloc' = IF count THEN nrCurAlloc - 1 ELSE nrCurAlloc
          /\ lists' = IF n + 1 = NumTotalObj THEN Move(lists, s, "full", "partial")
                      ELSE IF n = 0 /\ toEmpty THEN Move(lists, s, "partial", "empty")
                      ELSE lists
          /\ held' = [held EXCEPT ![t] = @ \ {o}]
  /\ UNCHANGED <<cp, page, ctored, dtored, reaps, halt>>

\* mutants: the buffer is not pushed back; nr_cur_alloc is not decremented;
\* a slab that runs empty stays on the partial list
KmemCacheFreeNoPush(t) == FreeVariant(t, FALSE, TRUE, TRUE)
KmemCacheFreeNoCount(t) == FreeVariant(t, TRUE, FALSE, TRUE)
KmemCacheFreeNoEmpty(t) == FreeVariant(t, TRUE, TRUE, FALSE)

KmemCacheFree(t) ==
  /\ halt = "none"
  /\ \E o \in held[t] :
       LET s == o[1]
           n == busy[s] - 1
       IN /\ freeObjs' = [freeObjs EXCEPT ![s] = Cons(o[2], @)]
          /\ busy' = [busy EXCEPT ![s] = n]
          /\ nrCurAlloc' = nrCurAlloc - 1
          /\ lists' = IF n + 1 = NumTotalObj THEN Move(lists, s, "full", "partial")
                      ELSE IF n = 0 THEN Move(lists, s, "partial", "empty")
                      ELSE lists
          /\ held' = [held EXCEPT ![t] = @ \ {o}]
  /\ UNCHANGED <<cp, page, ctored, dtored, reaps, halt>>

(***************************************************************************)
(* kmem_cache_reap (632-645): kmem_slab_destroy every slab of the empty   *)
(* list.  The list itself is left as it was.                              *)
(***************************************************************************)
KmemCacheReap(t) ==
  /\ halt = "none"
  /\ reaps < MaxReaps
  /\ DestroySlabs(lists.empty)
  /\ reaps' = reaps + 1
  /\ UNCHANGED <<cp, lists, busy, freeObjs, nrCurAlloc, held, halt>>

(***************************************************************************)
(* kmem_cache_destroy (436-458): assert that no slab is full or partial,  *)
(* destroy the empty slabs, unlink the cache and free it.  Callers must   *)
(* never use the cache again, and destroy it only with no object out;    *)
(* the cache is gone afterwards.                                         *)
(***************************************************************************)
KmemCacheDestroy(t) ==
  /\ halt = "none"
  /\ \A u \in Threads : held[u] = {}
  /\ IF lists.full # <<>> \/ lists.partial # <<>>
     THEN /\ halt' = "assert"
          /\ UNCHANGED <<page, dtored, ctored>>
     ELSE /\ DestroySlabs(lists.empty)
          /\ halt' = "destroyed"
  /\ UNCHANGED <<cp, lists, busy, freeObjs, nrCurAlloc, held, reaps>>

\* after a panic, a failed assert or the cache's destruction nothing moves
Halted == halt # "none" /\ UNCHANGED vars

(***************************************************************************)
(* __kmem_cache_create (336-370): the caller's size, alignment,          *)
(* constructor and destructor, empty lists, nr_cur_alloc = 0.             *)
(***************************************************************************)
Init ==
  /\ cp \in Caches
  /\ lists = [l \in ListNames |-> <<>>]
  /\ page = [p \in Pages |-> 0]
  /\ busy = [p \in Pages |-> 0]
  /\ freeObjs = [p \in Pages |-> <<>>]
  /\ nrCurAlloc = 0
  /\ held = [t \in Threads |-> {}]
  /\ ctored = {}
  /\ dtored = {}
  /\ reaps = 0
  /\ halt = "none"

\* what a client does with the cache, kmem_cache_reap aside
ClientStep(t) == KmemCacheAlloc(t) \/ KmemCacheFree(t) \/ KmemCacheDestroy(t)

Next ==
  \/ \E t \in Threads : ClientStep(t) \/ KmemCacheReap(t)
  \/ Halted

Spec == Init /\ [][Next]_vars

(* The cache of a client that never calls kmem_cache_reap.  One reap of   *)
(* a cache with an empty slab leaves the destroyed slab listed (line 641), *)
(* and from then on no property of the cache holds, so the properties of  *)
(* a correct cache are checked against this specification, and reaps run *)
(* in the configurations that exhibit that defect.                         *)
NoReapNext == (\E t \in Threads : ClientStep(t)) \/ Halted

NoReapSpec == Init /\ [][NoReapNext]_vars

(***************************************************************************)
(* Properties.                                                            *)
(***************************************************************************)
TypeOK ==
  /\ cp \in Caches
  /\ lists \in [ListNames -> Seq(Pages)]
  /\ page \in [Pages -> Int]
  /\ busy \in [Pages -> Int]
  /\ freeObjs \in [Pages -> Seq(Int)]
  /\ nrCurAlloc \in Int
  /\ held \in [Threads -> SUBSET Objects]
  /\ ctored \subseteq Objects
  /\ reaps \in 0..MaxReaps
  /\ halt \in {"none", "panic", "assert", "fault", "destroyed"}

\* the list a slab with b busy objects belongs on
ListFor(b) == CASE b = 0 -> "empty" [] b = NumTotalObj -> "full" [] OTHER -> "partial"

Occurrences(l, p) == Cardinality({k \in DOMAIN lists[l] : lists[l][k] = p})

\* Every slab of the live cache is on exactly one list, once, and that is
\* the list its busy count calls for: kmem_cache_alloc/free move slabs
\* between the lists, and kmem_cache_reap must take destroyed slabs off.
\* A slab on the wrong list is handed out after its page is freed (reap) or
\* makes kmem_cache_destroy's assert fire (a free that leaves it partial).
SlabsListed ==
  halt = "none" =>
    \A p \in Pages :
      \A l \in ListNames :
        Occurrences(l, p) = IF page[p] > 0 /\ l = ListFor(busy[p]) THEN 1 ELSE 0

HeldOf(p) == {o \in UNION {held[t] : t \in Threads} : o[1] = p}

\* Every buffer of a live slab is either out with exactly one thread or on
\* the slab's free chain exactly once, and num_busy_obj counts the ones out:
\* kmem_cache_alloc pops the chain's head and kmem_cache_free pushes it back.
BuffersConserved ==
  \A p \in Pages : page[p] > 0 =>
    /\ busy[p] = Cardinality(HeldOf(p))
    /\ Len(freeObjs[p]) = Cardinality(ToSet(freeObjs[p]))
    /\ ToSet(freeObjs[p]) = (0..NumTotalObj - 1) \ {o[2] : o \in HeldOf(p)}
    /\ \A t, u \in Threads : t # u => held[t] \cap held[u] = {}

\* nr_cur_alloc, kept by kmem_cache_alloc and kmem_cache_free under the
\* lock, is the number of objects out, whatever slabs they came from.
Accounting == nrCurAlloc = MapThenSumSet(LAMBDA t : Cardinality(held[t]), Threads)

\* kmem_cache_destroy of a cache with no object out finds no full or
\* partial slab, and no allocation reads through an exhausted chain.
NoAssertionFailure == halt \notin {"assert", "fault"}

DtorOnObjects == \A d \in dtored : d[2] \in 0..NumTotalObj - 1

\* The cache implements an object pool: an allocation hands out an object
\* nobody holds, a free takes one back from its holder.
Pool == INSTANCE ObjectPool WITH Objects <- Objects, out <- held

PoolSpec == Pool!Spec

=============================================================================
