----------------------------- MODULE ObjectPool -----------------------------
(***************************************************************************)
(* What an object cache promises its callers, with no slabs in sight: a   *)
(* get hands the caller one object that nobody holds, and a put takes an  *)
(* object back from the caller that holds it.  A step moves one object.   *)
(* Slab.tla is checked to implement this specification, with out[t] the   *)
(* objects thread t got from kmem_cache_alloc and has not freed yet.      *)
(***************************************************************************)
CONSTANTS Threads, Objects

VARIABLE out   \* out[t]: the objects thread t holds

Unheld == Objects \ UNION {out[t] : t \in Threads}

Init == out = [t \in Threads |-> {}]

Get(t) == \E o \in Unheld : out' = [out EXCEPT ![t] = @ \cup {o}]

Put(t) == \E o \in out[t] : out' = [out EXCEPT ![t] = @ \ {o}]

Next == \E t \in Threads : Get(t) \/ Put(t)

Spec == Init /\ [][Next]_out

=============================================================================
