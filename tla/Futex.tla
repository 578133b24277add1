------------------------------- MODULE Futex -------------------------------
(***************************************************************************)
(* The user-level futex of parlib, as                                     *)
(*   src/tools/compilers/gcc-glibc/glibc-2.19-akaros/sysdeps/akaros/_exit.c *)
(* implements it at lines 38-142; line numbers below refer to that file.  *)
(*                                                                         *)
(* One global struct futex_data: an MCS-PDR lock, a TAILQ of              *)
(* futex_elements [thr, uaddr, from] and the kmem_cache the elements come *)
(* from, set up by futex_init behind the static flag `initialized`.       *)
(* Caches are numbered in the order kmem_cache_create made them; the      *)
(* pointer __futex.element_cache is elementCache (0 for NULL), and of     *)
(* each cache only nr_cur_alloc is kept (Slab.tla models the rest).  An   *)
(* element's `from` is the cache whose slab its memory lies in.           *)
(*                                                                         *)
(* Threads are uthreads calling futex() on the words of mem.  A step is   *)
(* one plain store of futex_init, one lock acquisition, or one critical   *)
(* section: futex_wait holds the lock from the value test until           *)
(* __futex_block, run by uthread_yield on the thread's way out, has       *)
(* queued the element and unlocked, so that is one step.  A blocked       *)
(* thread takes no step until futex_wake makes it runnable.               *)
(*                                                                         *)
(* Callers.  Nothing in the repository calls futex(); the callers here    *)
(* use it the way a futex is meant to be used: a waiter loops on          *)
(*   while (word == 0) futex(&word, FUTEX_WAIT, 0, ...)                    *)
(* and a waker stores word = 1, then calls futex(&word, FUTEX_WAKE, n).   *)
(***************************************************************************)
EXTENDS Integers, Sequences, SequencesExt, FiniteSets

CONSTANTS
  Waiters,      \* threads waiting for their word to become 1
  Wakers,       \* threads setting a word to 1 and waking its waiters
  Addrs,        \* the futex words
  AddrOf,       \* [Waiters \cup Wakers -> Addrs]: the word each thread uses
  WakeCount,    \* the val argument of FUTEX_WAKE: how many to wake
  NoOwner,      \* model value: the lock is free
  Starts        \* how the threads may start: [initialized, callers]

Threads == Waiters \cup Wakers

\* the caches kmem_cache_create may make: one per caller that passes the
\* flag, which each does at most once, and one made before the start
CacheIds == 1..Cardinality(Threads) + 1

ASSUME /\ Waiters \cap Wakers = {}
       /\ AddrOf \in [Threads -> Addrs]
       /\ WakeCount \in Nat
       /\ Starts \subseteq [initialized : BOOLEAN, callers : SUBSET Threads]

VARIABLES
  initialized,  \* static bool initialized of futex_init
  lock,         \* __futex.lock: its holder, or NoOwner
  queue,        \* __futex.queue: Seq([thr, uaddr]), head first
  elementCache, \* __futex.element_cache: a cache number, 0 for NULL
  nCaches,      \* element caches kmem_cache_create has made so far
  nrCurAlloc,   \* nr_cur_alloc of each of those caches
  mem,          \* [Addrs -> {0, 1}]: the futex words
  pc,           \* [Threads -> Pcs]
  op,           \* [Threads -> {"WAIT", "WAKE"}]: the futex() op in progress
  halt          \* "none", or "fault" after a NULL dereference

vars == <<initialized, lock, queue, elementCache, nCaches, nrCurAlloc, mem, pc, op, halt>>

Pcs == {"loop", "init_check", "init_set", "init_lock", "init_queue",
        "init_cache", "lock", "body", "blocked", "done"}

Goto(t, where) == pc' = [pc EXCEPT ![t] = where]

\* futex() returns to its caller: a waiter tests its word again
Return(t) == Goto(t, IF t \in Waiters THEN "loop" ELSE "done")

(***************************************************************************)
(* Callers.                                                               *)
(***************************************************************************)
WaiterLoop(t) ==
  /\ halt = "none" /\ t \in Waiters /\ pc[t] = "loop"
  /\ IF mem[AddrOf[t]] = 0
     THEN Goto(t, "init_check") /\ op' = [op EXCEPT ![t] = "WAIT"]
     ELSE Goto(t, "done") /\ UNCHANGED op
  /\ UNCHANGED <<initialized, lock, queue, elementCache, nCaches, nrCurAlloc, mem, halt>>

WakerStore(t) ==
  /\ halt = "none" /\ t \in Wakers /\ pc[t] = "loop"
  /\ mem' = [mem EXCEPT ![AddrOf[t]] = 1]
  /\ Goto(t, "init_check")
  /\ op' = [op EXCEPT ![t] = "WAKE"]
  /\ UNCHANGED <<initialized, lock, queue, elementCache, nCaches, nrCurAlloc, halt>>

(***************************************************************************)
(* futex_init (62-74): test the flag; if clear, set it, then initialise   *)
(* the lock, the queue and the element cache, each a store of its own.    *)
(***************************************************************************)
InitCheck(t) ==
  /\ halt = "none" /\ pc[t] = "init_check"
  /\ Goto(t, IF initialized THEN "lock" ELSE "init_set")
  /\ UNCHANGED <<initialized, lock, queue, elementCache, nCaches, nrCurAlloc, mem, op, halt>>

InitSet(t) ==
  /\ halt = "none" /\ pc[t] = "init_set"
  /\ initialized' = TRUE
  /\ Goto(t, "init_lock")
  /\ UNCHANGED <<lock, queue, elementCache, nCaches, nrCurAlloc, mem, op, halt>>

\* mcs_pdr_init: the lock is free, whoever held it
InitLock(t) ==
  /\ halt = "none" /\ pc[t] = "init_lock"
  /\ lock' = NoOwner
  /\ Goto(t, "init_queue")
  /\ UNCHANGED <<initialized, queue, elementCache, nCaches, nrCurAlloc, mem, op, halt>>

\* TAILQ_INIT: the queue is empty, whatever it held
InitQueue(t) ==
  /\ halt = "none" /\ pc[t] = "init_queue"
  /\ queue' = <<>>
  /\ Goto(t, "init_cache")
  /\ UNCHANGED <<initialized, lock, elementCache, nCaches, nrCurAlloc, mem, op, halt>>

(* kmem_cache_create (386-392): a fresh cache with nothing allocated,     *)
(* stored into __futex.element_cache.                                      *)
InitCache(t) ==
  /\ halt = "none" /\ pc[t] = "init_cache"
  /\ nCaches' = nCaches + 1
  /\ elementCache' = nCaches + 1
  /\ nrCurAlloc' = [nrCurAlloc EXCEPT ![nCaches + 1] = 0]
  /\ Goto(t, "lock")
  /\ UNCHANGED <<initialized, lock, queue, mem, op, halt>>

(***************************************************************************)
(* mcs_pdr_lock at the top of futex_wait (86) and futex_wake (102).       *)
(***************************************************************************)
Lock(t) ==
  /\ halt = "none" /\ pc[t] = "lock"
  /\ lock = NoOwner
  /\ lock' = t
  /\ Goto(t, "body")
  /\ UNCHANGED <<initialized, queue, elementCache, nCaches, nrCurAlloc, mem, op, halt>>

(***************************************************************************)
(* futex_wait (84-97) with __futex_block (76-82): if the word still holds *)
(* val (0), take an element from the cache (kmem_cache_alloc counts it,   *)
(* line 502), queue it, unlock and block; otherwise unlock and return.    *)
(* With no cache yet, kmem_cache_alloc dereferences NULL.                 *)
(***************************************************************************)
\* mutant: the element is queued without e->uaddr being set
FutexWaitNoUaddr(t) ==
  /\ halt = "none" /\ pc[t] = "body" /\ op[t] = "WAIT"
  /\ IF mem[AddrOf[t]] # 0
     THEN lock' = NoOwner /\ Return(t) /\ UNCHANGED <<queue, nrCurAlloc>>
     ELSE /\ queue' = Append(queue, [thr |-> t])
          /\ nrCurAlloc' = [nrCurAlloc EXCEPT ![elementCache] = @ + 1]
          /\ lock' = NoOwner
          /\ Goto(t, "blocked")
  /\ UNCHANGED <<initialized, elementCache, nCaches, mem, op, halt>>

FutexWait(t) ==
  /\ halt = "none" /\ pc[t] = "body" /\ op[t] = "WAIT"
  /\ IF mem[AddrOf[t]] # 0
     THEN lock' = NoOwner /\ Return(t) /\ UNCHANGED <<queue, nrCurAlloc, halt>>
     ELSE IF elementCache = 0
     THEN halt' = "fault" /\ UNCHANGED <<lock, queue, nrCurAlloc, pc>>
     ELSE /\ queue' = Append(queue, [thr |-> t, uaddr |-> AddrOf[t], from |-> elementCache])
          /\ nrCurAlloc' = [nrCurAlloc EXCEPT ![elementCache] = @ + 1]
          /\ lock' = NoOwner
          /\ Goto(t, "blocked")
          /\ UNCHANGED halt
  /\ UNCHANGED <<initialized, elementCache, nCaches, mem, op>>

(***************************************************************************)
(* futex_wake (99-122): walk the queue from its head and, while count > 0, *)
(* take out every element on uaddr, make its thread runnable, give the    *)
(* element back with kmem_cache_free(__futex.element_cache, e) -- which   *)
(* decrements that cache's nr_cur_alloc (line 535) whatever cache the     *)
(* element came from -- and count it.  The woken threads are the first    *)
(* WakeCount elements on uaddr.                                            *)
(***************************************************************************)
Woken(q, a, count) ==
  {q[i].thr : i \in {j \in DOMAIN q :
                       q[j].uaddr = a
                       /\ Cardinality({k \in 1..j - 1 : q[k].uaddr = a}) < count}}

\* mutants: the uaddr test left out of the loop; kmem_cache_free left out
FutexWakeAnyWord(t) ==
  /\ halt = "none" /\ pc[t] = "body" /\ op[t] = "WAKE"
  /\ LET w == {queue[i].thr : i \in {j \in DOMAIN queue : j <= WakeCount}}
     IN /\ queue' = SelectSeq(queue, LAMBDA e : e.thr \notin w)
        /\ nrCurAlloc' = IF w = {} THEN nrCurAlloc
                         ELSE [nrCurAlloc EXCEPT ![elementCache] = @ - Cardinality(w)]
        /\ pc' = [u \in Threads |-> IF u \in w THEN "loop" ELSE IF u = t THEN "done" ELSE pc[u]]
  /\ lock' = NoOwner
  /\ UNCHANGED <<initialized, elementCache, nCaches, mem, op, halt>>

FutexWakeNoFree(t) ==
  /\ halt = "none" /\ pc[t] = "body" /\ op[t] = "WAKE"
  /\ LET w == Woken(queue, AddrOf[t], WakeCount)
     IN /\ queue' = SelectSeq(queue, LAMBDA e : e.thr \notin w)
        /\ pc' = [u \in Threads |-> IF u \in w THEN "loop" ELSE IF u = t THEN "done" ELSE pc[u]]
  /\ lock' = NoOwner
  /\ UNCHANGED <<initialized, elementCache, nCaches, nrCurAlloc, mem, op, halt>>

FutexWake(t) ==
  /\ halt = "none" /\ pc[t] = "body" /\ op[t] = "WAKE"
  /\ LET w == Woken(queue, AddrOf[t], WakeCount)
     IN /\ queue' = SelectSeq(queue, LAMBDA e : e.thr \notin w)
        /\ nrCurAlloc' = IF w = {} THEN nrCurAlloc
                         ELSE [nrCurAlloc EXCEPT ![elementCache] = @ - Cardinality(w)]
        /\ pc' = [u \in Threads |->
                    IF u \in w THEN "loop"
                    ELSE IF u = t THEN "done" ELSE pc[u]]
  /\ lock' = NoOwner
  /\ UNCHANGED <<initialized, elementCache, nCaches, mem, op, halt>>

\* every caller has returned for good, or a fault stopped everything
Finished ==
  /\ halt # "none" \/ \A t \in Threads : pc[t] = "done"
  /\ UNCHANGED vars

(* Either the threads make the program's first futex calls, or futex_init *)
(* ran before and left its cache with nothing out.  Threads not among the *)
(* callers make no futex call.                                             *)
Init ==
  /\ \E s \in Starts :
       /\ initialized = s.initialized
       /\ elementCache = IF s.initialized THEN 1 ELSE 0
       /\ pc = [t \in Threads |-> IF t \in s.callers THEN "loop" ELSE "done"]
  /\ lock = NoOwner
  /\ queue = <<>>
  /\ nCaches = elementCache
  /\ nrCurAlloc = [c \in CacheIds |-> 0]
  /\ mem = [a \in Addrs |-> 0]
  /\ op = [t \in Threads |-> "WAIT"]
  /\ halt = "none"

ThreadStep(t) ==
  \/ WaiterLoop(t) \/ WakerStore(t)
  \/ InitCheck(t) \/ InitSet(t) \/ InitLock(t) \/ InitQueue(t) \/ InitCache(t)
  \/ Lock(t) \/ FutexWait(t) \/ FutexWake(t)

Next == (\E t \in Threads : ThreadStep(t)) \/ Finished

(***************************************************************************)
(* Fairness.  The uthread scheduler runs every runnable uthread again, so *)
(* each step a thread can keep taking is taken (weak fairness).  The MCS  *)
(* lock queues its waiters and hands the lock over in FIFO order, so a    *)
(* thread that wants the lock while it is repeatedly free gets it (strong *)
(* fairness on Lock).                                                     *)
(***************************************************************************)
Fairness ==
  \A t \in Threads :
    /\ WF_vars(ThreadStep(t))
    /\ SF_vars(Lock(t))

Spec == Init /\ [][Next]_vars /\ Fairness


(***************************************************************************)
(* Properties.                                                            *)
(***************************************************************************)
TypeOK ==
  /\ initialized \in BOOLEAN
  /\ lock \in Threads \cup {NoOwner}
  /\ queue \in Seq([thr : Threads, uaddr : Addrs, from : CacheIds])
  /\ elementCache \in 0..nCaches /\ nCaches \in 0..Cardinality(CacheIds)
  /\ nrCurAlloc \in [CacheIds -> Int]
  /\ mem \in [Addrs -> {0, 1}]
  /\ pc \in [Threads -> Pcs]
  /\ op \in [Threads -> {"WAIT", "WAKE"}]
  /\ halt \in {"none", "fault"}

\* A blocked thread has exactly one element in the futex queue, and every
\* element belongs to a blocked thread: futex_wait queues the element and
\* blocks in one critical section, futex_wake dequeues and wakes in one,
\* and nothing else may touch the queue (futex_init's TAILQ_INIT does).
BlockedAreQueued ==
  \A t \in Threads :
    Cardinality({i \in DOMAIN queue : queue[i].thr = t}) =
      IF pc[t] = "blocked" THEN 1 ELSE 0

\* The futex and its element cache agree: each cache's nr_cur_alloc counts
\* exactly the queued elements whose memory came from it.  futex_wait
\* allocates from __futex.element_cache and queues in one critical
\* section, and futex_wake dequeues and frees to __futex.element_cache in
\* another; it breaks if an element leaves the queue without a free, or if
\* a second futex_init replaces element_cache while an element allocated
\* from the first cache is queued, so the free goes to the wrong cache.
ElementCacheBalanced ==
  \A c \in 1..nCaches :
    nrCurAlloc[c] = Cardinality({i \in DOMAIN queue : queue[i].from = c})

\* Every futex caller returns for good: no wake-up is lost between a
\* waiter's test of its word under the lock and the waker's store and
\* wake, and the lock is always handed on.
EveryCallerReturns == \A t \in Threads : <>(pc[t] = "done")

=============================================================================
