\* Decoding a value can fail; a decode after that may crash, so the system may stop.
SPECIFICATION FairSpec
CONSTANTS
  NumUniq = 4
  Window = 2
  IdLimit = 64
  Queries <- MCQueries
  Compressed = TRUE
INVARIANTS IInv
PROPERTIES NullMeansAll WindowsAdvance IterSpec AllDelivered
CHECK_DEADLOCK FALSE
