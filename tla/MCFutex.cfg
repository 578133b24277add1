\* Two starts: the first futex calls, one waiter and two wakers on one word
\* racing through futex_init; or an initialised futex with two waiters and
\* a waker on one word and a waiter and a waker on another, so that a wake
\* must pick its own word's elements out of a mixed queue.
CONSTANTS
  w1 = w1
  w2 = w2
  w3 = w3
  k1 = k1
  k2 = k2
  k3 = k3
  a1 = a1
  a2 = a2
  Waiters = {w1, w2, w3}
  Wakers = {k1, k2, k3}
  Addrs = {a1, a2}
  AddrOf <- TwoWordsAddrOfK3
  WakeCount = 2
  NoOwner = NoOwner
  Starts <- FirstCallsOrTwoWords
SPECIFICATION Spec
INVARIANTS TypeOK ElementCacheBalanced
PROPERTY EveryCallerReturns
