\* A process is killed while it waits for an iterator.
SPECIFICATION Spec
CONSTANTS
  p1 = p1
  p2 = p2
  Procs = {p1}
  Mortal = {p1}
  Objects = {o1}
  Asks <- MCIterator
  MaxLost = 0
  None = None
INVARIANTS QueueOutlivesWorker
CHECK_DEADLOCK FALSE
