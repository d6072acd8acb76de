\* Two threads push, two pop; three list items, so that freed ones are used again.
SPECIFICATION FairSpec
CONSTANTS
  Producers = {p1, p2}
  Consumers = {c1, c2}
  Messages = {m1, m2}
  Entries = {e1, e2, e3}
  None = None
INVARIANTS QueueSafe
PROPERTY FifoSpec
