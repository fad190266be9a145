CONSTANTS
  t1 = t1
  t2 = t2
  t3 = t3
  Threads = {t1, t2, t3}
  Size = 2
  MaxPushes = 2
  MaxPops = 1
SPECIFICATION FairSpec
CHECK_DEADLOCK FALSE
INVARIANT IInv
INVARIANT SlotExclusive
PROPERTY ImplementsBoundedQueue
PROPERTY MatchedCallsReturn
