SPECIFICATION Spec
CONSTANTS
  t1 = t1
  t2 = t2
  t3 = t3
  t4 = t4
  NoThread = NoThread
  Cpus = {1, 2}
  Threads = {t1, t2, t3, t4}
  InitCur <- TwoCur
  InitQueue <- TwoQueue4
  Mutexes = {1}
CHECK_DEADLOCK FALSE
INVARIANTS TypeOK MutualExclusion OwnerIsHolder NoOrphanedMutex OneListPerThread NoThreadLost
PROPERTIES ImplementsFifo
