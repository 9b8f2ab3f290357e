SPECIFICATION FairSpec
CONSTANTS
  Cpus = {1, 2}
  Locks = {1}
  Handlers = FALSE
  ByValue = TRUE
PROPERTY LockProgress
CHECK_DEADLOCK FALSE
