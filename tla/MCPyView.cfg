\* Two databases, iterators and queries, one object of each other type, a call within a call.
SPECIFICATION Spec
CONSTANTS
  Dbs = {d1, d2}
  Iters = {i1, i2}
  Views = {v1}
  Queries = {q1, q2}
  Strings = {b1}
  Builders = {c1}
  None = None
  MaxObjects = 5
  MaxDepth = 2
  MaxErrors = 1
SYMMETRY Alike
INVARIANT ViewsOutliveCursors
CHECK_DEADLOCK FALSE
