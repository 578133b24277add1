---------------------------- MODULE SlabRegistry ----------------------------
(***************************************************************************)
(* The lifetime of struct kmem_cache objects in the slab allocator of     *)
(* kern/src/slab.c, concatenated into                                      *)
(*   src/tools/compilers/gcc-glibc/glibc-2.19-akaros/sysdeps/akaros/_exit.c *)
(* (line numbers below refer to that file).  Slab.tla models what one     *)
(* cache does with its slabs; this module models where the cache object   *)
(* itself comes from and goes to:                                          *)
(*   - kmem_cache_create takes a struct from kmem_cache_cache, sets up    *)
(*     its cache_lock and links it into the global kmem_caches list,       *)
(*     sorted by obj_size;                                                  *)
(*   - clients take cp->cache_lock around every operation on the cache    *)
(*     (kmem_cache_alloc, kmem_cache_free, kmem_cache_reap);               *)
(*   - kmem_cache_destroy takes cp->cache_lock, unlinks cp, returns cp to *)
(*     kmem_cache_cache, and only then releases cp->cache_lock.            *)
(*                                                                         *)
(* Structs is the memory of kmem_cache_cache's objects; what a slab does  *)
(* inside one critical section is Slab.tla's business and is one step     *)
(* here.  locked[s] is the spinlock word in struct s.  The three static   *)
(* caches of kmem_cache_init are never destroyed and are left out of the  *)
(* list.  A thread that created a cache owns it (mine) and may destroy    *)
(* it; any thread may use any cache that is on the list and not being     *)
(* destroyed, which is the contract the comment at line 434 states.       *)
(***************************************************************************)
EXTENDS Integers, FiniteSets, SequencesExt

CONSTANTS
  Threads,   \* kernel threads
  Structs,   \* objects of kmem_cache_cache: the memory a struct kmem_cache lives in
  Sizes,     \* obj_size arguments of kmem_cache_create
  NoCache    \* a thread that owns no cache

ASSUME NoCache \notin Structs

VARIABLES
  free,         \* structs free in kmem_cache_cache
  kmem_caches,  \* the SLIST kmem_caches, head first
  objSize,      \* kc->obj_size of each struct
  locked,       \* the spinlock word kc->cache_lock of each struct
  pc,           \* where each thread is
  mine,         \* the cache each thread created and may destroy
  on            \* the cache whose lock a client thread holds

vars == <<free, kmem_caches, objSize, locked, pc, mine, on>>

Destroying == {"d_locked", "d_unlinked", "d_freed"}

TypeOK ==
  /\ free \subseteq Structs
  /\ kmem_caches \in Seq(Structs)
  /\ objSize \in [Structs -> Sizes]
  /\ locked \in [Structs -> BOOLEAN]
  /\ pc \in [Threads -> {"idle", "use"} \cup Destroying]
  /\ mine \in [Threads -> Structs \cup {NoCache}]
  /\ on \in [Threads -> Structs \cup {NoCache}]

Init ==
  /\ free = Structs
  /\ kmem_caches = <<>>
  /\ objSize \in [Structs -> Sizes]
  /\ locked \in [Structs -> BOOLEAN]     \* never-used memory: any contents
  /\ pc = [t \in Threads |-> "idle"]
  /\ mine = [t \in Threads |-> NoCache]
  /\ on = [t \in Threads |-> NoCache]

(* The list position after the last cache smaller than size: the         *)
(* SLIST_FOREACH that stops at the first cache not smaller.               *)
InsertPos(l, size) ==
  1 + Cardinality({i \in 1..Len(l) : \A j \in 1..i : objSize[l[j]] < size})

(* kmem_cache_create: kmem_cache_alloc(kmem_cache_cache) and              *)
(* __kmem_cache_create.  Nobody else knows kc until it is on the list.    *)
KmemCacheCreate(t) ==
  /\ pc[t] = "idle" /\ mine[t] = NoCache
  /\ \E kc \in free, size \in Sizes :
       /\ free' = free \ {kc}
       /\ locked' = [locked EXCEPT ![kc] = FALSE]
       /\ objSize' = [objSize EXCEPT ![kc] = size]
       /\ kmem_caches' = InsertAt(kmem_caches, InsertPos(kmem_caches, size), kc)
       /\ mine' = [mine EXCEPT ![t] = kc]
  /\ UNCHANGED <<pc, on>>

(* A cache a client may still use: on the list and not being destroyed.  *)
Usable(c) ==
  /\ c \in ToSet(kmem_caches)
  /\ \A u \in Threads : ~(pc[u] \in {"d_locked", "d_unlinked"} /\ mine[u] = c)

(* spin_lock_irqsave(&cp->cache_lock) at the top of kmem_cache_alloc,     *)
(* kmem_cache_free and kmem_cache_reap.                                     *)
CacheLock(t) ==
  /\ pc[t] = "idle"
  /\ \E c \in Structs :
       /\ Usable(c) /\ ~locked[c]
       /\ locked' = [locked EXCEPT ![c] = TRUE]
       /\ on' = [on EXCEPT ![t] = c]
  /\ pc' = [pc EXCEPT ![t] = "use"]
  /\ UNCHANGED <<free, kmem_caches, objSize, mine>>

(* The matching spin_unlock_irqsave at the end of the operation.          *)
CacheUnlock(t) ==
  /\ pc[t] = "use"
  /\ locked' = [locked EXCEPT ![on[t]] = FALSE]
  /\ pc' = [pc EXCEPT ![t] = "idle"]
  /\ on' = [on EXCEPT ![t] = NoCache]
  /\ UNCHANGED <<free, kmem_caches, objSize, mine>>

(* kmem_cache_destroy: spin_lock_irqsave(&cp->cache_lock); the empty      *)
(* slabs are freed under it (Slab.tla).  The caller may not destroy a     *)
(* cache it or another thread is still using.                              *)
DestroyLock(t) ==
  LET cp == mine[t] IN
  /\ pc[t] = "idle" /\ cp # NoCache
  /\ \A u \in Threads : on[u] # cp
  /\ ~locked[cp]
  /\ locked' = [locked EXCEPT ![cp] = TRUE]
  /\ pc' = [pc EXCEPT ![t] = "d_locked"]
  /\ UNCHANGED <<free, kmem_caches, objSize, mine, on>>

(* SLIST_REMOVE(&kmem_caches, cp) under kmem_caches_lock.                 *)
DestroyUnlink(t) ==
  /\ pc[t] = "d_locked"
  /\ kmem_caches' = SelectSeq(kmem_caches, LAMBDA c : c # mine[t])
  /\ pc' = [pc EXCEPT ![t] = "d_unlinked"]
  /\ UNCHANGED <<free, objSize, locked, mine, on>>

(* kmem_cache_free(kmem_cache_cache, cp): cp's memory may be handed out   *)
(* again from here on.                                                      *)
DestroyFree(t) ==
  /\ pc[t] = "d_unlinked"
  /\ free' = free \cup {mine[t]}
  /\ pc' = [pc EXCEPT ![t] = "d_freed"]
  /\ UNCHANGED <<kmem_caches, objSize, locked, mine, on>>

(* spin_unlock_irqsave(&cp->cache_lock): a store to freed memory.          *)
DestroyUnlock(t) ==
  /\ pc[t] = "d_freed"
  /\ locked' = [locked EXCEPT ![mine[t]] = FALSE]
  /\ pc' = [pc EXCEPT ![t] = "idle"]
  /\ mine' = [mine EXCEPT ![t] = NoCache]
  /\ UNCHANGED <<free, kmem_caches, objSize, on>>

Next ==
  \E t \in Threads :
    \/ KmemCacheCreate(t)
    \/ CacheLock(t)
    \/ CacheUnlock(t)
    \/ DestroyLock(t)
    \/ DestroyUnlink(t)
    \/ DestroyFree(t)
    \/ DestroyUnlock(t)

Spec == Init /\ [][Next]_vars

(* The threads inside a critical section of cache c that still belong to *)
(* c: a client between lock and unlock, or its destroyer until cp is     *)
(* freed.  A destroyer past kmem_cache_free no longer owns that memory.   *)
HoldersOf(c) ==
  {t \in Threads : \/ pc[t] = "use" /\ on[t] = c
                   \/ pc[t] \in {"d_locked", "d_unlinked"} /\ mine[t] = c}

(* cache_lock is a mutual-exclusion lock: at most one thread is inside    *)
(* the critical section of a cache.  kmem_cache_destroy's unlock after    *)
(* kmem_cache_free can release the lock of a cache that kmem_cache_create *)
(* has built in the same memory meanwhile, while a client of that new     *)
(* cache holds it.                                                          *)
CacheLockExclusive ==
  \A c \in Structs : Cardinality(HoldersOf(c)) <= 1

=============================================================================
