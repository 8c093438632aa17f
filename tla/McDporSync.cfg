\* Condition variables, barriers and reader-writer locks.
SPECIFICATION Spec
CONSTANTS
  m1 = m1
  m2 = m2
  m3 = m3
  g1 = g1
  s1 = s1
  c1 = c1
  b1 = b1
  l1 = l1
  w1 = w1
  Threads <- ThreeWorkers
  Mutexes = {m1}
  Sems = {}
  Globals = {}
  SemCount <- NoObjects
  Conds = {c1}
  CondMutex <- OneMutex
  Barriers = {b1}
  BarrierCount <- Waits2
  RWLocks = {l1}
  RWWLocks = {w1}
  Programs <- SyncPrograms
  MaxThreadDepth = 1000
  StopAtFirst = {}
  MaxTransitions = 100
INVARIANTS EveryOutcomeExplored WakeGroupsNested WakeupsCaused
  ServedInOrder WritersExclude
\* The scheduler process exits when its search is over.
CHECK_DEADLOCK FALSE
