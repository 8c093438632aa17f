\* Eight programs of up to four threads, two traces.
SPECIFICATION FairSpec
CONSTANTS
  Routines = {main, w1, w2, w3}
  Main = main
  w1 = w1
  w2 = w2
  w3 = w3
  Nobody = Nobody
  Programs <- HandshakePrograms
  StopAtFirst <- Deadlocking
  MaxTraces = 2
INVARIANTS OneAtATime SchedulerKnowsTrace NothingLeftBehind
PROPERTIES McMiniEnds
CHECK_DEADLOCK FALSE
