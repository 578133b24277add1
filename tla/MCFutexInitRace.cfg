\* Two waiters and a waker make the first futex calls and race through futex_init.
CONSTANTS
  w1 = w1
  w2 = w2
  w3 = w3
  k1 = k1
  k2 = k2
  k3 = k3
  a1 = a1
  a2 = a2
  Waiters = {w1, w2}
  Wakers = {k1}
  Addrs = {a1}
  AddrOf <- OneWordAddrOf
  WakeCount = 2
  NoOwner = NoOwner
  Starts <- FirstCalls
SPECIFICATION Spec
INVARIANT BlockedAreQueued
