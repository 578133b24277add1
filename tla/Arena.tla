------------------------------- MODULE Arena -------------------------------
(***************************************************************************)
(* One Vmem-style boundary-tag arena, as kern/src/arena.c implements it.  *)
(* In this repository that file is concatenated into                      *)
(*   src/tools/compilers/gcc-glibc/glibc-2.19-akaros/sysdeps/akaros/_exit.c *)
(* at lines 683-1859; every line number below refers to that file.        *)
(*                                                                         *)
(* State.  The lock-protected fields of struct arena form the record      *)
(* variable `arena`.  all_segs holds every boundary tag (BT) as a record  *)
(* [start, size, status]; the free lists free_segs[] and the alloc hash   *)
(* are the FREE and the ALLOC tags of all_segs, bucketed by LOG2_DOWN of  *)
(* the size and keyed by start.  List order inside one bucket is not      *)
(* modelled: a policy that takes "the first BT of a list" takes any BT of *)
(* that list.  unused_btags is the list of spare BTs, head first, each    *)
(* given by the start field it still carries: a BT given back keeps the   *)
(* start of the segment it last tracked, and a BT fresh from a page never  *)
(* had one written (Garbage).  With TrackStarts FALSE every entry is 0 and *)
(* the list is just its length.  The quantum is 1: addresses and sizes are *)
(* counted in quanta.                                                     *)
(*                                                                         *)
(* Threads.  Every operation holds arena->lock from acquisition to        *)
(* release, so each critical section is one step.  A thread's operation   *)
(* is split into several steps exactly where the code drops the lock:     *)
(* __add_more_btags calling the base arena (line 1044), get_more_resources *)
(* calling the source's afunc (line 1297) before __arena_add relocks, the *)
(* retry loops of arena_alloc / arena_xalloc, and free_from_arena calling *)
(* ffunc after unlocking (line 1706).  The base arena that grants BT     *)
(* pages and the source arena that grants spans are abstract: any answer  *)
(* their own arena could give.  A kernel panic or a failed assert stops   *)
(* the system: `halt` records it and nothing moves afterwards.            *)
(***************************************************************************)
EXTENDS Integers, FiniteSets, SequencesExt

CONSTANTS
  Threads,      \* kernel threads calling into the arena
  NULL,         \* model value: no span pending, no request
  Kinds,        \* the arenas to check, as arena_init sets them up: whether
                \* arena->source is set, arena->is_base, and the spare BTs at
                \* creation (2 from arena_builder, 0 from arena_create)
  AddRanges,    \* segments boot code may arena_add to a source-less arena
  SourceSpace,  \* addresses the source's afunc may hand out
  ImportScale,  \* arena->import_scale
  PageSize,     \* PGSIZE in quanta
  BtsPerPage,   \* PGSIZE / sizeof(struct btag): BTs one page provides
  MaxBtPages,   \* bound: BT pages the base arena grants this arena
  MaxHeld,      \* bound: allocations one thread holds at a time
  Sizes,        \* request sizes
  Styles,       \* allocation styles: subset of {"BEST", "INSTANT", "NEXT"}
  Atomic,       \* MEM_ATOMIC set in the flags: subset of BOOLEAN
  Aligns, Phases, Nocrosses, MinAddrs, MaxAddrs,  \* arena_xalloc arguments
  MaxAddr,      \* every address of the model lies in 1..MaxAddr
  Cursors,      \* initial last_nextfit_alloc: never initialised, any value
  TrackStarts,  \* keep the start field of spare BTs (else only their number)
  CanDestroy    \* the arena's owner may call arena_destroy

Quantum == 1

IsPow2(n) == \E i \in 0..n : 2^i = n

(* The arenas the two constructors make.  arena_create (878-891) kmallocs *)
(* the struct and runs arena_init: not a base, no spare BTs; the initial  *)
(* span it may pass to arena_add is an ArenaAdd step of its own.          *)
(* arena_builder (1729-1745) builds the arena in a page, sets is_base when *)
(* there is no source, and puts the page's two trailing BTs on            *)
(* unused_btags.                                                           *)
Created == {[source |-> s, is_base |-> FALSE, btags |-> 0] : s \in BOOLEAN}
Built == {[source |-> s, is_base |-> ~s, btags |-> 2] : s \in BOOLEAN}

ASSUME /\ Kinds \subseteq Created \cup Built
       \* a real page holds dozens of BTs; __get_enough_btags asserts (1079)
       \* that one page covers the two BTs any operation needs
       /\ BtsPerPage >= 3
       /\ Sizes \subseteq 1..MaxAddr
       /\ Styles \subseteq {"BEST", "INSTANT", "NEXT"}
       \* arena_xalloc panics on these; callers never pass them (1549-1570)
       /\ \A al \in Aligns : IsPow2(al)
       /\ \A nc \in Nocrosses : nc = 0 \/ IsPow2(nc)
       \* an arena with a source panics on nocross/minaddr/maxaddr (1587)
       /\ (\E k \in Kinds : k.source) => Nocrosses \cup MinAddrs \cup MaxAddrs \subseteq {0}
       /\ SourceSpace \subseteq 1..MaxAddr
       /\ Cursors \subseteq 0..MaxAddr
       /\ CanDestroy => TrackStarts

VARIABLES
  arena,     \* struct arena's lock-protected fields (plus two ghost fields)
  pc,        \* where each thread is in its current operation
  op,        \* each thread's current request
  pend,      \* span held by a thread between two steps (import, add, ffunc)
  held,      \* allocations returned to each thread and not yet freed
  srcOut,    \* spans the source has handed to this arena and not got back
  added,     \* ranges arena_add has put into a source-less arena
  basePages, \* BT pages the base arena has granted (non-base arena)
  imports,   \* spans imported during the thread's current request
  halt,      \* "none", the panic that stopped the kernel, or "destroyed"
  toBase     \* bag of the addresses arena_destroy gave back to the base

vars == <<arena, pc, op, pend, held, srcOut, added, basePages, imports, halt, toBase>>

Statuses == {"FREE", "ALLOC", "SPAN"}
BTag == [start : 1..MaxAddr, size : 1..MaxAddr, status : Statuses]
Extent(b) == [start |-> b.start, size |-> b.size]
Addrs(r) == r.start .. (r.start + r.size - 1)
RoundUp(x, a) == ((x + a - 1) \div a) * a

LOG2_DOWN(n) == CHOOSE i \in 0..n : 2^i <= n /\ n < 2^(i + 1)
LOG2_UP(n) == CHOOSE i \in 0..n : n <= 2^i /\ (i = 0 \/ 2^(i - 1) < n)

FreeOf(S) == {b \in S : b.status = "FREE"}
AllocOf(S) == {b \in S : b.status = "ALLOC"}
SpansOf(S) == {b \in S : b.status = "SPAN"}

(* all_segs order: by start; a SPAN sorts before a co-starting segment.    *)
Precedes(a, b) ==
  \/ a.start < b.start
  \/ a.start = b.start /\ a.status = "SPAN" /\ b.status # "SPAN"

(* rb_next / rb_prev, as a set holding zero or one BT. *)
Succ(S, b) == {c \in S : Precedes(b, c) /\ ~\E d \in S : Precedes(b, d) /\ Precedes(d, c)}
Pred(S, b) == {c \in S : Precedes(c, b) /\ ~\E d \in S : Precedes(c, d) /\ Precedes(d, b)}

(* The BTs a scan from free_segs[idx] upward meets first: the non-empty    *)
(* bucket of lowest index among C.                                         *)
FirstBucket(C) == {b \in C : \A c \in C : LOG2_DOWN(b.size) <= LOG2_DOWN(c.size)}

(* Spare BTs.  __get_btag (1086-1096) pops the head of unused_btags and    *)
(* __free_btag (1098-1101) pushes there.  A BT carved from a fresh page    *)
(* (__add_more_btags, 1049-1050; arena_builder's two_tags) has an         *)
(* uninitialised start.                                                    *)
Garbage == -1
StartOf(x) == IF TrackStarts THEN x ELSE 0
FreshBtags(n) == [i \in 1..n |-> StartOf(Garbage)]
PopBtags(u, n) == SubSeq(u, n + 1, Len(u))
FreeBtags(u, starts) == Reverse([i \in DOMAIN starts |-> StartOf(starts[i])]) \o u

-----------------------------------------------------------------------------
(* Segment surgery.  Each returns the new all_segs and how many spare BTs  *)
(* it took (__get_btag asserts one is there; the caller checks).           *)

(* Mutant of __account_alloc: a tail BT even for an exact fit. *)
AccountAllocAlwaysSplit(S, bt, size) ==
  LET tail == {[start |-> bt.start + size, size |-> bt.size - size, status |-> "FREE"]}
  IN [segs |-> (S \ {bt}) \cup {[bt EXCEPT !.size = size, !.status = "ALLOC"]} \cup tail,
      used |-> 1]

(* __account_alloc (1125-1147): shrink bt to size, the rest becomes FREE.  *)
AccountAlloc(S, bt, size) ==
  LET tail == IF bt.size # size
                THEN {[start |-> bt.start + size, size |-> bt.size - size, status |-> "FREE"]}
                ELSE {}
  IN [segs |-> (S \ {bt}) \cup {[bt EXCEPT !.size = size, !.status = "ALLOC"]} \cup tail,
      used |-> Cardinality(tail)]

(* Mutants of __split_bt_at: bt's size not reduced; front not a new BT.   *)
SplitBtAtNoShrink(S, bt, at) ==
  LET front == [start |-> bt.start, size |-> at - bt.start, status |-> "FREE"]
      rest == [bt EXCEPT !.start = at]
  IN [segs |-> (S \ {bt}) \cup {front, rest}, bt |-> rest, used |-> 1]
SplitBtAtNoBtag(S, bt, at) ==
  LET front == [start |-> bt.start, size |-> at - bt.start, status |-> "FREE"]
      rest == [bt EXCEPT !.start = at, !.size = bt.size - (at - bt.start)]
  IN [segs |-> (S \ {bt}) \cup {front, rest}, bt |-> rest, used |-> 0]

(* __split_bt_at (1385-1404): [bt.start, at) becomes a FREE front BT.      *)
SplitBtAt(S, bt, at) ==
  LET front == [start |-> bt.start, size |-> at - bt.start, status |-> "FREE"]
      rest == [bt EXCEPT !.start = at, !.size = bt.size - (at - bt.start)]
  IN [segs |-> (S \ {bt}) \cup {front, rest}, bt |-> rest, used |-> 1]

(* __find_sufficient (1343-1381): a start inside [bt_start, +bt_size) for  *)
(* the constraints, or 0.  The wraparound checks cannot fire on model      *)
(* addresses; the unsigned underflow of try_size is its going negative.    *)
RECURSIVE FindSufficient(_, _, _, _, _, _)
\* mutant: the phase added before rounding up to the alignment
FindSufficientPhaseFirst(bt_start, bt_size, size, align, phase, nocross) ==
  LET try == RoundUp(bt_start + phase, align)
  IN IF try + size > bt_start + bt_size THEN 0
     ELSE IF nocross = 0 \/ RoundUp(try, nocross) >= try + size THEN try
     ELSE FindSufficient(RoundUp(bt_start, nocross), bt_size - (RoundUp(bt_start, nocross) - bt_start),
                         size, align, phase, 0)

FindSufficient(bt_start, bt_size, size, align, phase, nocross) ==
  LET try == RoundUp(bt_start, align) + phase
  IN IF try + size > bt_start + bt_size THEN 0
     ELSE IF nocross = 0 THEN try
     ELSE IF RoundUp(try, nocross) >= try + size THEN try
     ELSE LET try2 == RoundUp(bt_start, nocross)
              try_size == bt_size - (try2 - bt_start)
          IN IF try_size < 0 THEN 0
             ELSE FindSufficient(try2, try_size, size, align, phase, 0)

-----------------------------------------------------------------------------
(* Allocation policies.  An outcome is a record: res is "ok", "fail" or    *)
(* "assert" (a failed assert inside the lock).                             *)

Fail(a) == [res |-> "fail", addr |-> 0, segs |-> a.all_segs, used |-> 0,
            cursor |-> a.last_nextfit_alloc]

Took(a, bt, addr, g, extra) ==
  [res |-> "ok", addr |-> addr, segs |-> g.segs, used |-> g.used + extra,
   cursor |-> a.last_nextfit_alloc]

(* Allocate from one of the BTs in C, whole, from its start. *)
Take(a, C, size) ==
  IF C = {} THEN {Fail(a)}
  ELSE {Took(a, b, b.start, AccountAlloc(a.all_segs, b, size), 0) : b \in C}

(* __alloc_bestfit (1168-1185) *)
AllocBestfit(a, size) ==
  LET idx == LOG2_DOWN(size)
      inList == {b \in FreeOf(a.all_segs) : LOG2_DOWN(b.size) = idx /\ b.size >= size}
      best == {b \in inList : \A c \in inList : b.size <= c.size}
  IN IF inList # {} THEN Take(a, best, size)
     ELSE Take(a, FirstBucket({b \in FreeOf(a.all_segs) : LOG2_DOWN(b.size) >= idx + 1}), size)

(* __alloc_instantfit (1195-1204) with __get_from_freelists (1150-1162) *)
AllocInstantfit(a, size) ==
  Take(a, FirstBucket({b \in FreeOf(a.all_segs) : LOG2_DOWN(b.size) >= LOG2_UP(size)}), size)

(* Carve [try, try+size) out of bt: split the head off, then account. *)
Carve(a, bt, try, size) ==
  LET h == IF try # bt.start THEN SplitBtAt(a.all_segs, bt, try)
           ELSE [segs |-> a.all_segs, bt |-> bt, used |-> 0]
  IN Took(a, h.bt, try, AccountAlloc(h.segs, h.bt, size), h.used)

(* The rb-tree all_segs.  InOrder lists the BTs in tree order.  The       *)
(* tree's shape comes from rb_insert_color and rb_erase (called at 958),   *)
(* whose rebalancing is not in this repository: it may be any red-black    *)
(* shape, i.e. any binary search tree in which, at every node, the longest *)
(* path to a leaf is at most twice the shortest.  A shape over positions   *)
(* lo..hi is the set of triples <<lo', hi', root>> of its subtrees, with   *)
(* mn and mx the shortest and longest paths from its root to a leaf.       *)
InOrder(S) == [i \in 1..Cardinality(S) |->
                 CHOOSE b \in S : Cardinality({c \in S : Precedes(c, b)}) = i - 1]

RECURSIVE RbShapes(_, _)
RbShapes(lo, hi) ==
  IF lo > hi THEN {[t |-> {}, mn |-> 0, mx |-> 0]}
  ELSE {s \in UNION {{[t |-> {<<lo, hi, r>>} \cup L.t \cup R.t,
                       mn |-> 1 + Min({L.mn, R.mn}), mx |-> 1 + Max({L.mx, R.mx})] :
                        L \in RbShapes(lo, r - 1), R \in RbShapes(r + 1, hi)} : r \in lo..hi} :
          s.mx <= 2 * s.mn}

Trees(S) == {s.t : s \in RbShapes(1, Cardinality(S))}

(* Mutant: the predecessor test left out. *)
FoundLeastUpperBtagNoPrev(q, i, minaddr) == q[i].start >= minaddr

(* __found_least_upper_btag (1406-1419) for the BT at position i of q. *)
FoundLeastUpperBtag(q, i, minaddr) ==
  q[i].start >= minaddr /\ (i = 1 \/ q[i - 1].start < minaddr)

(* The descent of __xalloc_min_max (1429-1438) from the root of the       *)
(* subtree over lo..hi of tree T: the position the scan starts from, or   *)
(* 0 when it falls off the tree.                                          *)
RECURSIVE Descend(_, _, _, _, _)
Descend(q, T, lo, hi, minaddr) ==
  IF lo > hi THEN 0
  ELSE LET r == CHOOSE r \in lo..hi : <<lo, hi, r>> \in T
       IN IF FoundLeastUpperBtag(q, r, minaddr) THEN r
          ELSE IF minaddr < q[r].start THEN Descend(q, T, lo, r - 1, minaddr)
          ELSE Descend(q, T, r + 1, hi, minaddr)

(* __xalloc_min_max (1422-1457) in tree T: descend to a start point, then  *)
(* scan with rb_next, testing every BT whatever its status, as the code    *)
(* does.                                                                   *)
XallocMinMax(a, T, size, align, phase, nocross, minaddr, maxaddr) ==
  LET q == InOrder(a.all_segs)
      k == Descend(q, T, 1, Len(q), minaddr)
      Fit(c) == FindSufficient(c.start, c.size, size, align, phase, nocross)
      fits == {i \in 1..Len(q) : k # 0 /\ i >= k /\ Fit(q[i]) # 0}
  IN IF fits = {} THEN Fail(a)
     ELSE LET c == q[Min(fits)]
          IN IF maxaddr # 0 /\ Fit(c) + size > maxaddr THEN Fail(a)
             \* __account_alloc asserts bt->status == BTAG_FREE (1130)
             ELSE IF c.status # "FREE" THEN [Fail(a) EXCEPT !.res = "assert"]
             ELSE Carve(a, c, Fit(c), size)

(* __xalloc_nextfit (1493-1511): from the cursor, then wrap to quantum. *)
XallocNextfit(a, T, size, align, phase, nocross) ==
  LET o1 == XallocMinMax(a, T, size, align, phase, nocross, a.last_nextfit_alloc + Quantum, 0)
      o == IF o1.res = "fail"
             THEN XallocMinMax(a, T, size, align, phase, nocross, Quantum, 0)
             ELSE o1
  IN IF o.res = "ok" THEN [o EXCEPT !.cursor = o.addr] ELSE o

(* __xalloc_from_freelists (1461-1491) *)
XallocFromFreelists(a, size, align, phase, nocross, instant) ==
  LET idx == LOG2_DOWN(RoundUp(size, align) + phase) + (IF instant THEN 1 ELSE 0)
      Fit(b) == FindSufficient(b.start, b.size, size, align, phase, nocross)
      C == FirstBucket({b \in FreeOf(a.all_segs) : LOG2_DOWN(b.size) >= idx /\ Fit(b) # 0})
  IN IF C = {} THEN {Fail(a)} ELSE {Carve(a, b, Fit(b), size) : b \in C}

(* The style dispatch of alloc_from_arena (1217-1222). *)
AllocPolicy(a, r) ==
  CASE r.style = "BEST" -> AllocBestfit(a, r.size)
    [] r.style = "NEXT" -> {XallocNextfit(a, T, r.size, Quantum, 0, 0) : T \in Trees(a.all_segs)}
    [] OTHER -> AllocInstantfit(a, r.size)

(* The dispatch of xalloc_from_arena (1525-1538). *)
XallocPolicy(a, r) ==
  IF r.min # 0 \/ r.max # 0
    THEN {XallocMinMax(a, T, r.size, r.align, r.phase, r.nocross, r.min, r.max) : T \in Trees(a.all_segs)}
  ELSE CASE r.style = "BEST" -> XallocFromFreelists(a, r.size, r.align, r.phase, r.nocross, FALSE)
         [] r.style = "NEXT" -> {XallocNextfit(a, T, r.size, r.align, r.phase, r.nocross) : T \in Trees(a.all_segs)}
         [] OTHER -> XallocFromFreelists(a, r.size, r.align, r.phase, r.nocross, TRUE)

-----------------------------------------------------------------------------
(* Freeing and coalescing *)

(* __merge_right_to_left (1625-1644) *)
MergeRightToLeft(S, left, right) ==
  IF left.status = "FREE" /\ right.status = "FREE" /\ left.start + left.size = right.start
    THEN LET m == [left EXCEPT !.size = left.size + right.size]
         IN [merged |-> TRUE, segs |-> (S \ {left, right}) \cup {m}, left |-> m]
    ELSE [merged |-> FALSE, segs |-> S, left |-> left]

(* Mutant: the span looked for after cur (rb_next) instead of before it. *)
WholeSpanNext(S, cur) ==
  {s \in Succ(S, cur) : s.status = "SPAN" /\ s.start = cur.start /\ s.size = cur.size}

(* The span check of __coalesce_free_seg (1665-1683): the SPAN BT just    *)
(* before cur, if it has exactly cur's extent.                             *)
WholeSpan(S, cur) ==
  {s \in Pred(S, cur) : s.status = "SPAN" /\ s.start = cur.start /\ s.size = cur.size}

(* Mutant: the merge with the successor left out. *)
CoalesceFreeSegNoNext(S, bt) ==
  LET p == Pred(S, bt)
      r2 == IF p = {} THEN [merged |-> FALSE, segs |-> S, left |-> bt]
            ELSE MergeRightToLeft(S, CHOOSE x \in p : TRUE, bt)
      cur == r2.left
      whole == WholeSpan(r2.segs, cur)
      f2 == IF r2.merged THEN <<bt.start>> ELSE <<>>
  IN IF whole = {}
       THEN [segs |-> r2.segs, freed |-> f2, span |-> NULL]
       ELSE LET s == CHOOSE s \in whole : TRUE
            IN [segs |-> r2.segs \ {s, cur}, freed |-> f2 \o <<s.start, cur.start>>,
                span |-> Extent(s)]

(* __coalesce_free_seg (1649-1684): merge the successor into bt, bt into   *)
(* its predecessor, then drop a span that became entirely free.  Returns   *)
(* the new all_segs, the starts of the BTs given back in the order         *)
(* __free_btag gets them, and the span for ffunc (or NULL).                *)
CoalesceFreeSeg(S, bt) ==
  LET n == Succ(S, bt)
      r1 == IF n = {} THEN [merged |-> FALSE, segs |-> S, left |-> bt]
            ELSE MergeRightToLeft(S, bt, CHOOSE x \in n : TRUE)
      p == Pred(r1.segs, r1.left)
      r2 == IF p = {} THEN [merged |-> FALSE, segs |-> r1.segs, left |-> r1.left]
            ELSE MergeRightToLeft(r1.segs, CHOOSE x \in p : TRUE, r1.left)
      cur == IF r2.merged THEN r2.left ELSE r1.left
      nfree == (IF r1.merged THEN <<(CHOOSE x \in n : TRUE).start>> ELSE <<>>)
               \o (IF r2.merged THEN <<bt.start>> ELSE <<>>)
      whole == WholeSpan(r2.segs, cur)
  IN IF whole = {}
       THEN [segs |-> r2.segs, freed |-> nfree, span |-> NULL]
       ELSE LET s == CHOOSE s \in whole : TRUE
            IN [segs |-> r2.segs \ {s, cur}, freed |-> nfree \o <<s.start, cur.start>>,
                span |-> Extent(s)]

-----------------------------------------------------------------------------
(* Thread steps *)

Requests ==
  [kind : {"alloc"}, size : Sizes, style : Styles, atomic : Atomic,
   align : {Quantum}, phase : {0}, nocross : {0}, min : {0}, max : {0}, addr : {0}]
  \cup
  [kind : {"xalloc"}, size : Sizes, style : Styles, atomic : Atomic,
   align : Aligns, phase : Phases, nocross : Nocrosses, min : MinAddrs,
   max : MaxAddrs, addr : {0}]

NoRequest == [kind |-> "none", size |-> 0, style |-> "INSTANT", atomic |-> TRUE,
              align |-> Quantum, phase |-> 0, nocross |-> 0, min |-> 0, max |-> 0, addr |-> 0]

Goto(t, where) == pc' = [pc EXCEPT ![t] = where]

(* The thread's call returns: its request's arguments are gone. *)
Return(t) == /\ Goto(t, "idle")
             /\ op' = [op EXCEPT ![t] = NoRequest]
             /\ imports' = [imports EXCEPT ![t] = 0]

(* A panic or a failed assert stops the kernel. *)
Panic(why) == /\ halt' = why
              /\ UNCHANGED <<arena, pc, op, pend, held, srcOut, added, imports, toBase>>

(* The critical section of alloc_from_arena / xalloc_from_arena once the  *)
(* BTs are there: run the policy; on NULL go to get_more_resources.        *)
AllocBody(t, a) ==
  LET r == op[t]
      outs == IF r.kind = "alloc" THEN AllocPolicy(a, r) ELSE XallocPolicy(a, r)
  IN \E o \in outs :
       CASE o.res = "ok" /\ o.used <= Len(a.unused_btags) ->
              /\ arena' = [a EXCEPT !.all_segs = o.segs,
                                    !.unused_btags = PopBtags(@, o.used),
                                    !.amt_alloc_segs = @ + r.size,
                                    !.nr_allocs = @ + 1,
                                    !.last_nextfit_alloc = o.cursor]
              /\ held' = [held EXCEPT ![t] = @ \cup {[start |-> o.addr, size |-> r.size]}]
              /\ Return(t)
              /\ UNCHANGED <<pend, srcOut, added, halt, toBase>>
         [] o.res = "fail" ->
              /\ arena' = a
              /\ Goto(t, "import")
              /\ UNCHANGED <<op, pend, held, srcOut, added, imports, halt, toBase>>
         \* __account_alloc's assert, or __get_btag's assert(ret)
         [] OTHER -> Panic("assert")

(* __get_enough_btags failed under MEM_ATOMIC: alloc_from_arena returns    *)
(* NULL, and arena_alloc goes on to get_more_resources anyway.             *)
AllocNoBtags(t) ==
  /\ Goto(t, "import")
  /\ UNCHANGED <<arena, op, pend, held, srcOut, added, imports, halt, toBase>>

(* __arena_add (1244-1275) once it has its two BTs: a FREE BT, and a SPAN  *)
(* BT when the arena has a source.  Called from arena_add it returns;      *)
(* called from get_more_resources the caller's loop retries, and          *)
(* arena_xalloc downgrades the style to BESTFIT (1616-1617).              *)
AddBody(t, a) ==
  LET r == pend[t]
      bt == [start |-> r.start, size |-> r.size, status |-> "FREE"]
      span == IF a.source THEN {[bt EXCEPT !.status = "SPAN"]} ELSE {}
  IN /\ arena' = [a EXCEPT !.all_segs = @ \cup {bt} \cup span,
                           !.unused_btags = PopBtags(@, 1 + Cardinality(span)),
                           !.amt_total_segs = @ + r.size]
     /\ pend' = [pend EXCEPT ![t] = NULL]
     /\ IF op[t].kind = "add"
          THEN /\ added' = added \cup {r}
               /\ Return(t)
          ELSE /\ Goto(t, "alloc")
               /\ op' = [op EXCEPT ![t].style = IF op[t].kind = "xalloc" THEN "BEST" ELSE @]
               /\ UNCHANGED <<added, imports>>
     /\ UNCHANGED <<held, srcOut, halt, toBase>>

(* __arena_add returned NULL: arena_add returns NULL; get_more_resources   *)
(* gives the span back with ffunc (1300-1304) and its caller returns NULL. *)
AddNoBtags(t) ==
  /\ srcOut' = IF op[t].kind = "add" THEN srcOut ELSE srcOut \ {pend[t]}
  /\ pend' = [pend EXCEPT ![t] = NULL]
  /\ Return(t)
  /\ UNCHANGED <<arena, held, added, halt, toBase>>

(* What the thread does once it holds the lock and its BTs, and what it    *)
(* does when MEM_ATOMIC BT allocation fails: alloc_from_arena's policy     *)
(* (or NULL), or __arena_add's insertion (or NULL).                        *)
Locked(t, a) == IF pc[t] \in {"alloc", "alloc_bt"} THEN AllocBody(t, a) ELSE AddBody(t, a)
NoBtags(t) == IF pc[t] \in {"alloc", "alloc_bt"} THEN AllocNoBtags(t) ELSE AddNoBtags(t)

(* __get_enough_btags (1065-1081) with __has_enough_btags (993-1004) and   *)
(* the base arena's half of __add_more_btags (1023-1041): make sure `need` *)
(* spare BTs exist, then run Locked(t, a) on the arena state a.  The base    *)
(* carves a page from its own free lists under its lock; any other arena   *)
(* unlocks and asks the base (step BtagsFromBase).  NoBtags(t) is the       *)
(* caller's NULL path when MEM_ATOMIC allocation of BTs fails.             *)
(* Mutants of the base's growth: the BT used for the tail not skipped      *)
(* (tags++, nr_bts--); the whole segment taken instead of one page.        *)
BaseGrowBtagsNoSkip(a, b) ==
  LET g == AccountAlloc(a.all_segs, b, PageSize)
  IN [a EXCEPT !.all_segs = g.segs,
               !.unused_btags = FreshBtags(BtsPerPage) \o @,
               !.amt_alloc_segs = @ + PageSize,
               !.nr_allocs = @ + 1,
               !.btag_pages = @ \cup {[start |-> b.start, size |-> PageSize]},
               !.nr_btags = @ + BtsPerPage]
BaseGrowBtagsWholeSeg(a, b) ==
  LET g == AccountAlloc(a.all_segs, b, b.size)
  IN [a EXCEPT !.all_segs = g.segs,
               !.unused_btags = FreshBtags(BtsPerPage - g.used) \o @,
               !.amt_alloc_segs = @ + PageSize,
               !.nr_allocs = @ + 1,
               !.btag_pages = @ \cup {[start |-> b.start, size |-> PageSize]},
               !.nr_btags = @ + BtsPerPage]

(* The base arena's branch of __add_more_btags (1023-1041): page b taken   *)
(* with __get_from_freelists(LOG2_UP(PGSIZE)) becomes BTs; if               *)
(* __account_alloc needs a tail BT it uses the page's first one.           *)
BaseGrowBtags(a, b) ==
  LET g == AccountAlloc(a.all_segs, b, PageSize)
  IN [a EXCEPT !.all_segs = g.segs,
               !.unused_btags = FreshBtags(BtsPerPage - g.used) \o @,
               !.amt_alloc_segs = @ + PageSize,
               !.nr_allocs = @ + 1,
               !.btag_pages = @ \cup {[start |-> b.start, size |-> PageSize]},
               !.nr_btags = @ + BtsPerPage]

GetEnoughBtags(t, need, waitpc) ==
  LET a == arena
      pages == FirstBucket({b \in FreeOf(a.all_segs) : LOG2_DOWN(b.size) >= LOG2_UP(PageSize)})
  IN \/ Len(a.unused_btags) >= need /\ Locked(t, a) /\ UNCHANGED basePages
     \/ /\ Len(a.unused_btags) < need /\ a.is_base
        /\ UNCHANGED basePages
        /\ \/ \E b \in pages : Locked(t, BaseGrowBtags(a, b))
           \/ pages = {} /\ op[t].atomic /\ NoBtags(t)
           \/ pages = {} /\ ~op[t].atomic /\ Panic("oom")
     \/ /\ Len(a.unused_btags) < need /\ ~a.is_base
        /\ Goto(t, waitpc)
        /\ UNCHANGED <<arena, op, pend, held, srcOut, added, basePages, imports, halt, toBase>>

(* The other half of __add_more_btags (1043-1053): the base arena's        *)
(* arena_alloc(PGSIZE) returns (or fails), the lock is retaken, the page's *)
(* BTs join unused_btags and the interrupted critical section goes on.     *)
BtagsFromBase(t) ==
  \/ /\ basePages < MaxBtPages
     /\ basePages' = basePages + 1
     /\ Locked(t, [arena EXCEPT !.unused_btags = FreshBtags(BtsPerPage) \o @, !.nr_btags = @ + BtsPerPage])
  \/ op[t].atomic /\ NoBtags(t) /\ UNCHANGED basePages
  \/ basePages >= MaxBtPages /\ ~op[t].atomic /\ Panic("oom") /\ UNCHANGED basePages

(* Mutant: xalloc_from_arena reserving one BT, as alloc_from_arena does. *)
AllocFromArenaOneBtag(t) ==
  /\ halt = "none"
  /\ pc[t] = "alloc"
  /\ GetEnoughBtags(t, 1, "alloc_bt")

(* alloc_from_arena (1208-1225), xalloc_from_arena (1513-1541) *)
AllocFromArena(t) ==
  /\ halt = "none"
  /\ pc[t] = "alloc"
  /\ GetEnoughBtags(t, IF op[t].kind = "alloc" THEN 1 ELSE 2, "alloc_bt")

AllocWaitBase(t) ==
  /\ halt = "none"
  /\ pc[t] = "alloc_bt"
  /\ BtagsFromBase(t)

ArenaAddLocked(t) ==
  /\ halt = "none"
  /\ pc[t] = "add"
  /\ GetEnoughBtags(t, 2, "add_bt")

AddWaitBase(t) ==
  /\ halt = "none"
  /\ pc[t] = "add_bt"
  /\ BtagsFromBase(t)

ImportSize(r) ==
  (IF r.kind = "alloc" THEN r.size ELSE r.size + r.align + r.phase) * 2^ImportScale

(* Ranges of the source still free to hand out. *)
SourcePlaces(n) ==
  {[start |-> s, size |-> n] : s \in {x \in SourceSpace :
      /\ x .. (x + n - 1) \subseteq SourceSpace
      /\ \A o \in srcOut : Addrs(o) \cap (x .. (x + n - 1)) = {}}}

(* get_more_resources (1289-1313), unlocked.  With a source, afunc returns *)
(* a span or NULL (MEM_ATOMIC), or the source panics on OOM.  Without one  *)
(* there is nothing to wait for: NULL if MEM_ATOMIC, else panic.           *)
GetMoreResources(t) ==
  /\ halt = "none"
  /\ pc[t] = "import"
  /\ IF arena.source
       THEN \/ \E sp \in SourcePlaces(ImportSize(op[t])) :
                 /\ srcOut' = srcOut \cup {sp}
                 /\ pend' = [pend EXCEPT ![t] = sp]
                 /\ imports' = [imports EXCEPT ![t] = @ + 1]
                 /\ Goto(t, "add")
                 /\ UNCHANGED <<arena, op, held, added, basePages, halt, toBase>>
            \/ /\ op[t].atomic
               /\ Return(t)
               /\ UNCHANGED <<arena, pend, held, srcOut, added, basePages, halt, toBase>>
            \/ /\ SourcePlaces(ImportSize(op[t])) = {} /\ ~op[t].atomic
               /\ Panic("oom") /\ UNCHANGED basePages
       ELSE \/ /\ op[t].atomic
               /\ Return(t)
               /\ UNCHANGED <<arena, pend, held, srcOut, added, basePages, halt, toBase>>
            \/ ~op[t].atomic /\ Panic("oom") /\ UNCHANGED basePages

(* free_from_arena (1686-1707) under the lock: find the ALLOC BT by start, *)
(* check the size, mark it FREE and coalesce.  A span that became free is  *)
(* handed to ffunc after the unlock (step ReturnSpan).                     *)
FreeFromArena(t) ==
  LET r == op[t]
      a == arena
      found == {b \in AllocOf(a.all_segs) : b.start = r.addr}
      bt == CHOOSE b \in found : TRUE
      c == CoalesceFreeSeg((a.all_segs \ {bt}) \cup {[bt EXCEPT !.status = "FREE"]},
                           [bt EXCEPT !.status = "FREE"])
  IN /\ halt = "none"
     /\ pc[t] = "free"
     /\ UNCHANGED basePages
     /\ IF found = {} \/ bt.size # r.size
          THEN Panic("assert")
          ELSE /\ arena' = [a EXCEPT !.all_segs = c.segs,
                                     !.unused_btags = FreeBtags(@, c.freed),
                                     !.amt_alloc_segs = @ - r.size,
                                     !.nr_allocs = @ - 1,
                                     !.amt_total_segs = @ - (IF c.span = NULL THEN 0 ELSE c.span.size)]
               /\ held' = [held EXCEPT ![t] = @ \ {[start |-> r.addr, size |-> r.size]}]
               /\ pend' = [pend EXCEPT ![t] = c.span]
               /\ Goto(t, IF c.span = NULL THEN "idle" ELSE "ffunc")
               /\ op' = [op EXCEPT ![t] = NoRequest]
               /\ UNCHANGED <<srcOut, added, imports, halt, toBase>>

(* Mutant: the span dropped instead of handed to ffunc. *)
ReturnSpanLost(t) ==
  /\ halt = "none"
  /\ pc[t] = "ffunc"
  /\ pend' = [pend EXCEPT ![t] = NULL]
  /\ Goto(t, "idle")
  /\ UNCHANGED <<arena, op, held, srcOut, added, basePages, imports, halt, toBase>>

(* arena->ffunc(arena->source, ...) after the unlock (1705-1706). *)
ReturnSpan(t) ==
  /\ halt = "none"
  /\ pc[t] = "ffunc"
  /\ srcOut' = srcOut \ {pend[t]}
  /\ pend' = [pend EXCEPT ![t] = NULL]
  /\ Goto(t, "idle")
  /\ UNCHANGED <<arena, op, held, added, basePages, imports, halt, toBase>>

(* arena_alloc (1315-1335) and arena_xalloc (1543-1621): a new request.    *)
(* ROUNDUP to the quantum is the identity; the argument panics are         *)
(* excluded by the ASSUMEs.                                                *)
ArenaAlloc(t) ==
  /\ halt = "none"
  /\ pc[t] = "idle"
  /\ Cardinality(held[t]) < MaxHeld
  /\ \E r \in Requests :
       /\ op' = [op EXCEPT ![t] = r]
       /\ imports' = [imports EXCEPT ![t] = 0]
  /\ Goto(t, "alloc")
  /\ UNCHANGED <<arena, pend, held, srcOut, added, basePages, halt, toBase>>

(* arena_free / arena_xfree (1709-1722): free something the thread holds. *)
ArenaFree(t) ==
  /\ halt = "none"
  /\ pc[t] = "idle"
  /\ \E h \in held[t] :
       op' = [op EXCEPT ![t] = [NoRequest EXCEPT !.kind = "free", !.size = h.size, !.addr = h.start]]
  /\ Goto(t, "free")
  /\ UNCHANGED <<arena, pend, held, srcOut, added, basePages, imports, halt, toBase>>

(* arena_add (1278-1285): only for arenas without a source (else panic).   *)
ArenaAdd(t) ==
  /\ halt = "none"
  /\ pc[t] = "idle"
  /\ ~arena.source
  /\ \E r \in AddRanges :
       /\ r \notin added
       /\ \A u \in Threads : pend[u] # r
       /\ pend' = [pend EXCEPT ![t] = r]
       /\ \E at \in Atomic : op' = [op EXCEPT ![t] = [NoRequest EXCEPT !.kind = "add", !.atomic = at]]
  /\ Goto(t, "add")
  /\ UNCHANGED <<arena, held, srcOut, added, basePages, imports, halt, toBase>>

(* The address the base arena returned for this arena's k-th BT page:    *)
(* page aligned, and outside every segment of the model.                  *)
BtPageAddr(k) == (MaxAddr \div PageSize + k) * PageSize
BtPages == {BtPageAddr(k) : k \in 1..basePages}

(* What an uninitialised start may read as when arena_destroy tests it: a *)
(* value that is not page aligned, or zero, or a BT page's address.        *)
GarbageReads == {0} \cup {BtPageAddr(k) : k \in 1..MaxBtPages}
PageAligned(x) == x % PageSize = 0

(* arena_destroy (902-936), called by the arena's owner once no thread is *)
(* inside it and nothing is allocated.  Asserts the alloc hash is empty,  *)
(* and with a source the free lists too; moves the FREE BTs onto          *)
(* unused_btags, keeps those whose start is page aligned and calls        *)
(* arena_free(base, start, PGSIZE) on each.  Freeing the struct ends it.   *)
ArenaDestroy ==
  LET a == arena
      known == SelectSeq(a.unused_btags, LAMBDA x : x # Garbage)
      nGarbage == Len(a.unused_btags) - Len(known)
      freeStarts == {b.start : b \in FreeOf(a.all_segs)}
      aligned == ToBag(SelectSeq(known, PageAligned))
                 (+) SetToBag({x \in freeStarts : PageAligned(x)})
  IN /\ halt = "none"
     /\ CanDestroy
     \* the base arena is never destroyed
     /\ ~a.is_base
     /\ \A t \in Threads : pc[t] = "idle" /\ held[t] = {}
     /\ IF AllocOf(a.all_segs) # {} \/ (a.source /\ FreeOf(a.all_segs) # {})
          THEN Panic("assert") /\ UNCHANGED basePages
          ELSE /\ \E g \in [GarbageReads -> 0..nGarbage] :
                    /\ MapThenSumSet(LAMBDA x : g[x], GarbageReads) <= nGarbage
                    /\ toBase' = aligned (+) [x \in {y \in GarbageReads : g[y] > 0} |-> g[x]]
               /\ halt' = "destroyed"
               /\ UNCHANGED <<arena, pc, op, pend, held, srcOut, added, basePages, imports>>

(* __arena_asserter (1748-1778): walk the free lists, the alloc hash and  *)
(* all_segs, and assert that the counters match the tags.  The free lists *)
(* and the hash are FreeOf and AllocOf of all_segs, bucketed by LOG2_DOWN  *)
(* of the size, so the per-list status and bucket asserts hold by what     *)
(* the lists are; the three counter asserts remain.                        *)
ArenaAsserterHolds(a) ==
  LET amtFree == MapThenSumSet(LAMBDA b : b.size, FreeOf(a.all_segs))
      amtAlloc == MapThenSumSet(LAMBDA b : b.size, AllocOf(a.all_segs))
  IN /\ a.amt_total_segs = amtFree + amtAlloc
     /\ a.amt_alloc_segs = amtAlloc
     /\ a.nr_allocs = Cardinality(AllocOf(a.all_segs))

(* print_arena_stats (1788-1859): under the lock, sum the tags for the     *)
(* printout (not modelled) and run __arena_asserter.  Any thread may call  *)
(* it between its own operations; it changes nothing unless an assert      *)
(* fires.                                                                  *)
PrintArenaStats(t) ==
  /\ halt = "none"
  /\ pc[t] = "idle"
  /\ IF ArenaAsserterHolds(arena)
       THEN UNCHANGED vars
       ELSE Panic("assert") /\ UNCHANGED basePages

(* The kernel stopped, or the arena is gone: nothing else happens. *)
Halted == halt # "none" /\ UNCHANGED vars

ThreadStep(t) ==
  \/ ArenaAlloc(t) \/ ArenaFree(t) \/ ArenaAdd(t)
  \/ AllocFromArena(t) \/ AllocWaitBase(t) \/ GetMoreResources(t)
  \/ ArenaAddLocked(t) \/ AddWaitBase(t)
  \/ FreeFromArena(t) \/ ReturnSpan(t)
  \/ PrintArenaStats(t)

(* arena_init (840-876) and arena_builder (1729-1745).  last_nextfit_alloc *)
(* is never initialised: any value.                                        *)
Init ==
  /\ \E k \in Kinds :
       arena \in [source : {k.source}, is_base : {k.is_base},
                  all_segs : {{}}, unused_btags : {FreshBtags(k.btags)}, amt_total_segs : {0},
                  amt_alloc_segs : {0}, nr_allocs : {0}, last_nextfit_alloc : Cursors,
                  btag_pages : {{}}, nr_btags : {k.btags}]
  /\ pc = [t \in Threads |-> "idle"]
  /\ op = [t \in Threads |-> NoRequest]
  /\ pend = [t \in Threads |-> NULL]
  /\ held = [t \in Threads |-> {}]
  /\ srcOut = {}
  /\ added = {}
  /\ basePages = 0
  /\ imports = [t \in Threads |-> 0]
  /\ halt = "none"
  /\ toBase = EmptyBag

Next ==
  \/ \E t \in Threads : ThreadStep(t)
  \/ ArenaDestroy
  \/ Halted

Spec == Init /\ [][Next]_vars

-----------------------------------------------------------------------------
(* Properties *)

Segs == {b \in arena.all_segs : b.status # "SPAN"}
SizeSum(S) == MapThenSumSet(LAMBDA b : b.size, S)

TypeOK ==
  /\ arena.all_segs \subseteq BTag
  /\ arena.unused_btags \in Seq({Garbage} \cup 0..MaxAddr)
  /\ arena.amt_total_segs \in Nat /\ arena.amt_alloc_segs \in Nat /\ arena.nr_allocs \in Nat
  /\ arena.last_nextfit_alloc \in 0..MaxAddr
  /\ pc \in [Threads -> {"idle", "alloc", "alloc_bt", "import", "add", "add_bt", "free", "ffunc"}]
  /\ pend \in [Threads -> {NULL} \cup [start : 1..MaxAddr, size : 1..MaxAddr]]
  /\ held \in [Threads -> SUBSET [start : 1..MaxAddr, size : 1..MaxAddr]]
  /\ halt \in {"none", "oom", "assert", "destroyed"}
  /\ IsABag(toBase)

(* The resources the arena manages: its spans, or what arena_add put in.   *)
Managed ==
  IF arena.source THEN UNION {Addrs(s) : s \in SpansOf(arena.all_segs)}
  ELSE UNION {Addrs(r) : r \in added}

(* Boundary tags tile the arena: the FREE and ALLOC segments are pairwise  *)
(* disjoint, cover exactly what was added or imported, and with a source   *)
(* each lies inside one span -- across splits by __account_alloc and      *)
(* __split_bt_at, merges by __coalesce_free_seg and span removal.          *)
Tiling ==
  /\ \A b, c \in Segs : b # c => Addrs(b) \cap Addrs(c) = {}
  /\ UNION {Addrs(b) : b \in Segs} = Managed
  /\ arena.source => \A b \in Segs : \E s \in SpansOf(arena.all_segs) : Addrs(b) \subseteq Addrs(s)

(* The counters __arena_asserter (1748-1777) and the stats rely on match   *)
(* the tags after every critical section: amt_total_segs is the managed   *)
(* size, amt_alloc_segs and nr_allocs are the ALLOC segments, and every   *)
(* BT ever obtained is in all_segs or on unused_btags.                     *)
Accounting ==
  /\ arena.amt_total_segs = SizeSum(Segs)
  /\ arena.amt_alloc_segs = SizeSum(AllocOf(arena.all_segs))
  /\ arena.nr_allocs = Cardinality(AllocOf(arena.all_segs))
  /\ Len(arena.unused_btags) + Cardinality(arena.all_segs) = arena.nr_btags

(* Every ALLOC segment is either a block some thread holds (from           *)
(* arena_alloc/xalloc until its arena_free completes) or a BT page the    *)
(* base arena carved for itself; no two threads hold overlapping blocks.   *)
Ownership ==
  /\ {Extent(b) : b \in AllocOf(arena.all_segs)} = UNION {held[t] : t \in Threads} \cup arena.btag_pages
  /\ \A t, u \in Threads : \A h \in held[t], k \in held[u] :
        (t # u \/ h # k) => Addrs(h) \cap Addrs(k) = {}

(* Spans in flight: a span the source handed out is tracked by a SPAN BT,  *)
(* or held by the thread between afunc and __arena_add, or between the    *)
(* unlock in free_from_arena and ffunc; never lost or returned twice.      *)
InFlight == {pend[t] : t \in {u \in Threads : pc[u] \in {"add", "add_bt", "ffunc"}}}

SpanConservation ==
  arena.source => srcOut = {Extent(s) : s \in SpansOf(arena.all_segs)} \cup InFlight

(* No operation trips an assert: in particular __account_alloc's           *)
(* assert(bt->status == BTAG_FREE) after __xalloc_min_max picked a tag.   *)
NoAssertionFailure == halt # "assert"

(* When free_from_arena completes, the span holding the freed block is not *)
(* left wholly free: __coalesce_free_seg merged both neighbours and handed *)
(* the span to ffunc if it became empty.                                   *)
FreeReturnsEmptySpans ==
  [][\A t \in Threads :
       (pc[t] = "free" /\ halt' = "none") =>
         ~\E s \in SpansOf(arena.all_segs'), b \in FreeOf(arena.all_segs') :
            /\ op[t].addr \in Addrs(s)
            /\ Extent(b) = Extent(s)]_vars

(* Coalescing is complete: no FREE BT is immediately followed, in         *)
(* all_segs order and in address, by another FREE BT (__coalesce_free_seg *)
(* merges both neighbours on every free; splits leave a FREE tail only     *)
(* before a non-FREE tag).                                                 *)
NoAdjacentFree ==
  \A b \in FreeOf(arena.all_segs) :
    \A c \in Succ(arena.all_segs, b) : ~(c.status = "FREE" /\ b.start + b.size = c.start)

(* What arena_xalloc promises: the address it returns is phase modulo      *)
(* align, at or above minaddr, ends at or below maxaddr, and does not     *)
(* cross a nocross boundary (__find_sufficient, __xalloc_min_max).         *)
Satisfies(r, p) ==
  /\ (p - r.phase) % r.align = 0
  /\ p >= r.min
  /\ r.max # 0 => p + r.size <= r.max
  /\ r.nocross # 0 => p \div r.nocross = (p + r.size - 1) \div r.nocross

XallocConstraints ==
  [][\A t \in Threads : \A h \in held'[t] \ held[t] :
       op[t].kind = "xalloc" => Satisfies(op[t], h.start)]_vars

(* arena_destroy gives back to the base arena exactly the pages            *)
(* __add_more_btags got from it for BTs, each once: the comment at         *)
(* 1015-1017 and spec.md say the first BT of each page sits at a page-     *)
(* aligned start, and destroy frees the BTs whose start is page aligned.   *)
DestroyFreesBtPages == halt = "destroyed" => toBase = SetToBag(BtPages)

(* The descent of __xalloc_min_max starts the scan where spec.md 4.3.2   *)
(* says: at the least-upper BT, the first BT in tree order with start >=  *)
(* minaddr, whatever the red-black shape of the tree.                      *)
LeastUpper(q, minaddr) ==
  IF \E i \in 1..Len(q) : q[i].start >= minaddr
    THEN Min({i \in 1..Len(q) : q[i].start >= minaddr})
    ELSE 0

DescentFindsLeastUpper ==
  LET q == InOrder(arena.all_segs)
  IN \A T \in Trees(arena.all_segs), m \in 1..MaxAddr + 1 :
       Descend(q, T, 1, Len(q), m) = LeastUpper(q, m)

(* One import is enough: after get_more_resources added a span of the      *)
(* import size, the retried allocation finds room in it and the request   *)
(* does not import again.                                                  *)
AtMostOneImportPerAlloc == \A t \in Threads : imports[t] <= 1

=============================================================================
