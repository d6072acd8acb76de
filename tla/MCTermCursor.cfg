\* Every key, negation and view over six ids; ids are far from the limit.
SPECIFICATION FairSpec
CONSTANTS
  NumUniq = 6
  IdLimit = 64
INVARIANTS TermSafe
PROPERTY IterSpec
