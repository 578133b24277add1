------------------------------ MODULE MCArena ------------------------------
(* Instances of Arena for TLC: small address spaces, one or two threads.  *)
EXTENDS Arena, TLC

ThreadSym == Permutations(Threads)

(* Bound: imports one request makes.  arena_alloc / arena_xalloc retry     *)
(* without limit while other threads take each newly imported span.        *)
MaxImports == 2
ImportBound == \A t \in Threads : imports[t] <= MaxImports

(* The arenas of the kernel.  kpages_arena: layered on a source, BTs     *)
(* from the base arena.  base_arena: self-sufficient for BTs.  An arena    *)
(* from arena_create without a source, fed by arena_add.                   *)
KpagesArena == [source |-> TRUE, is_base |-> FALSE, btags |-> 0]
BaseArena == [source |-> FALSE, is_base |-> TRUE, btags |-> 2]
PlainArena == [source |-> FALSE, is_base |-> FALSE, btags |-> 0]
KpagesKind == {KpagesArena}
BaseKind == {BaseArena}
PlainKind == {PlainArena}
KpagesOrBase == {KpagesArena, BaseArena}

(* kpages_arena: layered on a source, BTs from the base arena. *)
KpSourceSpace == 1..5
KpSizes == {1, 2}
KpStyles == {"BEST", "INSTANT"}
KpAligns == {1, 2}
KpPhases == {0, 1}

(* What boot code gives base_arena: more than one BT page. *)
BaseAddRanges == {[start |-> 1, size |-> 6]}

(* A source-less, non-base arena fed by arena_add. *)
PlainAddRanges == {[start |-> 1, size |-> 4], [start |-> 6, size |-> 3]}

AllStyles == {"BEST", "INSTANT", "NEXT"}
PlainMinAddrs == {0, 3}
PlainMaxAddrs == {0, 6}
AllCursors == 0..MaxAddr

(* Single ranges and pairs for the runs that exhibit disagreements. *)
OneRange == {[start |-> 1, size |-> 8]}
NocrossRange == {[start |-> 2, size |-> 4]}
NextInstant == {"NEXT", "INSTANT"}
LargeSourceSpace == 1..8

(* One range whose start is page aligned, for arena_destroy. *)
AlignedRange == {[start |-> 6, size |-> 3]}

=============================================================================
