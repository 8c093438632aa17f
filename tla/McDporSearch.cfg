\* Two and three workers on mutexes, a global and a semaphore, and programs
\* checked with --first-deadlock; one trace fills the transition stack.
SPECIFICATION Spec
CONSTANTS
  m1 = m1
  m2 = m2
  m3 = m3
  g1 = g1
  s1 = s1
  c1 = c1
  b1 = b1
  l1 = l1
  w1 = w1
  Threads <- ThreeWorkers
  Mutexes = {m1, m2, m3}
  Sems = {s1}
  Globals = {g1}
  SemCount <- Zero
  Conds = {}
  CondMutex <- NoObjects
  Barriers = {}
  BarrierCount <- NoObjects
  RWLocks = {}
  RWWLocks = {}
  Programs <- SearchPrograms
  MaxThreadDepth = 1000
  StopAtFirst <- StoppingPrograms
  MaxTransitions = 28
INVARIANTS TypeOK SchedulerTracksTrace ClocksExact BacktrackSetsSound
  EveryOutcomeExplored RunsOnlyEnabled DeadlocksExact RacesExact IndependenceSound StacksFit
PROPERTIES NoTraceTwice Terminates
\* The scheduler process exits when its search is over.
CHECK_DEADLOCK FALSE
