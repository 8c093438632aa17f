\* The three producers and three consumers of the program on three slots; five
\* items, so that the buffer fills and both indexes wrap.  Producers stop at
\* MaxItems, so the instance may come to rest.
SPECIFICATION FairSpec
CONSTANTS
  Producers = {p1, p2, p3}
  Consumers = {c1, c2, c3}
  NoThread = NoThread
  BufferSize = 3
  MaxItems = 5
INVARIANTS NoOverwrite TakesOldest
PROPERTIES EveryItemTaken
CHECK_DEADLOCK FALSE
