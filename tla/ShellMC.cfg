\* Room for a pipe, or for a command beside a job in the background; the shell may quit.
SPECIFICATION FairSpec
CONSTANTS
  p1 = p1
  p2 = p2
  p3 = p3
  Pids = {p1, p2, p3}
  Sh = Sh
  Nobody = Nobody
INVARIANTS PromptMeansDone WaitHasChild
PROPERTIES InterruptGetsPrompt
CHECK_DEADLOCK FALSE
