\* Four threads, one permit: barging, several sleepers, spurious wakeups
\* (no symmetry: EventuallyServed is a liveness property).
SPECIFICATION FairSpec
CONSTANTS
  Threads = {t1, t2, t3, t4}
  NoThread = NoThread
  InitCount = 1
  MaxCount = 2
INVARIANTS NoLostWakeup
PROPERTIES EventuallyServed Implements
