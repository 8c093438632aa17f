\* Three readers and three writers, as in main, in every policy.  When all are done the
\* program ends, and under a preference it may hang.
SPECIFICATION FairSpec
CONSTANTS
  r1 = r1
  r2 = r2
  r3 = r3
  w1 = w1
  w2 = w2
  w3 = w3
  Readers = {r1, r2, r3}
  Writers = {w1, w2, w3}
  Policies = {"writers", "readers", "default"}
INVARIANTS Exclusion HangsOnlyMixed
PROPERTIES DefaultFinishes
CHECK_DEADLOCK FALSE
