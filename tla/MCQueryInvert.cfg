\* Four names, and queries of up to four operators.
SPECIFICATION AlgebraSpec
CONSTANTS
  Keys = {"a", "b", "c", "d"}
  Dbs <- MCDbs
  MaxOps = 4
INVARIANT InversionIsAQ
CHECK_DEADLOCK FALSE
