SPECIFICATION FairSpec
CONSTANTS
  Threads = {t1, t2, t3}
  MaxAvailable = 2
INVARIANT NoPermitSleptThrough
PROPERTIES WaiterGetsOn LimitedWaitReturns
