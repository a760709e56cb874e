CONSTANTS
  Threads = {t1, t2, t3}
  NoThread = NoThread
SPECIFICATION FairSpec_31_01
PROPERTY EveryCallReturns
CHECK_DEADLOCK FALSE
