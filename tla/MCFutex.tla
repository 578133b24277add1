------------------------------- MODULE MCFutex -------------------------------
(* Instances of Futex for TLC. *)
EXTENDS Futex, TLC

CONSTANTS w1, w2, w3, k1, k2, k3, a1, a2   \* model values

\* two waiters and a waker on one word, a waiter and a waker on another
TwoWordsAddrOf == (w1 :> a1) @@ (w2 :> a1) @@ (k1 :> a1) @@ (w3 :> a2) @@ (k2 :> a2)

\* the same, with a third waker on the first word
TwoWordsAddrOfK3 == TwoWordsAddrOf @@ (k3 :> a1)

\* the first futex calls: a waiter and two wakers of one word; or, on an
\* initialised futex, two waiters and a waker on one word and a waiter
\* and a waker on the other
FirstCallsOrTwoWords ==
  {[initialized |-> FALSE, callers |-> {w1, k1, k3}],
   [initialized |-> TRUE, callers |-> {w1, w2, w3, k1, k2}]}

\* the first futex calls of every thread
FirstCalls == {[initialized |-> FALSE, callers |-> Threads]}

\* every thread on one word
OneWordAddrOf == [t \in Threads |-> CHOOSE a \in Addrs : TRUE]

=============================================================================
