SPECIFICATION AtomicsSpec
CONSTANTS
  t1 = t1
  t2 = t2
  Threads <- MCThreads
  v1 = v1
  v2 = v2
  Slots <- MCSlots
  o1 = o1
  o2 = o2
  Objects <- MCObjects
  Null = Null
  Cpus = {1, 2}
  Locks = {1, 2}
  Handlers = TRUE
  ByValue = FALSE
SYMMETRY Alike
INVARIANTS CountExact OnlyPopDangles Lifetime Exclusion IrqOffInside FlagsKept
CHECK_DEADLOCK FALSE
