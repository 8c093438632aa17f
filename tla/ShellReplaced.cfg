\* ^C between fork and the test of what it returned.
SPECIFICATION FairSpec
CONSTANTS
  p1 = p1
  p2 = p2
  p3 = p3
  Pids = {p1, p2, p3}
  Sh = Sh
  Nobody = Nobody
INVARIANT ShellStays
CHECK_DEADLOCK FALSE
