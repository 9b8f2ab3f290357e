SPECIFICATION FairSpec
CONSTANTS
  t1 = t1
  t2 = t2
  t3 = t3
  t4 = t4
  NoThread = NoThread
  Cpus = {1}
  Threads = {t1, t2, t3}
  InitCur <- OneCur
  InitQueue <- OneQueue3
  Mutexes = {1, 2}
INVARIANT NoAssertFails
PROPERTY NoStarvation
