------------------------------- MODULE MCSlab -------------------------------
(* Instances of Slab for TLC.  The sizes are a page scaled down to 32      *)
(* bytes with 4-byte words, a 12-byte slab header, SLAB_LARGE_CUTOFF at    *)
(* PGSIZE >> 3 and NUM_BUF_PER_SLAB 2, so that a slab holds one to three   *)
(* objects and every list transition happens within a few steps.          *)
EXTENDS Slab, TLC

\* 2-byte objects aligned to 2: the small layout, three buffers per page
SmallCache == [obj_size |-> 2, align |-> 2, ctor |-> FALSE, dtor |-> FALSE]

\* 16-byte objects aligned to 4 with a constructor and a destructor: the
\* large layout, three buffers per two-page slab
LargeCache == [obj_size |-> 16, align |-> 4, ctor |-> TRUE, dtor |-> TRUE]

BothLayouts == {SmallCache, LargeCache}

OnlySmall == {SmallCache}

\* the small layout with a destructor
SmallDtorCache == [SmallCache EXCEPT !.dtor = TRUE]

OnlySmallDtor == {SmallDtorCache}

Sym == Permutations(Threads) \cup Permutations(Pages)

=============================================================================
