---------------------------- MODULE MCPyObjects ----------------------------
EXTENDS PyObjects

\* Objects of one type do not differ.
Alike == Permutations(Dbs) \cup Permutations(Iters) \cup Permutations(Queries)
=============================================================================
