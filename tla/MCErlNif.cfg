\* Two processes, two objects, every request; p1 may be killed at any time.
SPECIFICATION FairSpec
CONSTANTS
  p1 = p1
  p2 = p2
  Procs = {p1, p2}
  Mortal = {p1}
  Objects = {o1, o2}
  Asks <- MCMixed
  MaxLost = 1
  None = None
INVARIANTS ObjectsSafe NoStrayAnswer QueueOutlivesWorker
PROPERTIES Answered DestructionEnds
CHECK_DEADLOCK FALSE
