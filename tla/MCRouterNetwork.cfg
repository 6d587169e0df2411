SPECIFICATION FairSpec
CONSTANTS
  m1 = m1
  m2 = m2
  m3 = m3
  m4 = m4
  netsize = 3
  Capacity = 3
  RxCapacity = 2
  Msgs = {m1, m2, m3, m4}
  Src <- SmallSrc
  Dst <- SmallDst
  MaxArrivals = 2
CHECK_DEADLOCK FALSE
INVARIANTS QueueNeverExplodes TotalOrder
PROPERTY AllDelivered
