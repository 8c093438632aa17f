\* Two producers and two consumers on three slots: the least that is enough.
SPECIFICATION FairSpec
CONSTANTS
  p1 = p1
  p2 = p2
  c1 = c1
  c2 = c2
  NoThread = NoThread
  Producers = {p1, p2}
  Consumers = {c1, c2}
  BufferSize = 3
INVARIANTS PermitsCounted NeverStuck
PROPERTIES GoesOn SlotsImplement
