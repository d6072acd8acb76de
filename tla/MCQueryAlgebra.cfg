\* Four names, and queries of up to four operators.
SPECIFICATION AlgebraSpec
CONSTANTS
  Keys = {"a", "b", "c", "d"}
  Dbs <- MCDbs
  MaxOps = 4
INVARIANTS AnswerIsRight MetaqueryAgrees ParsedIsPrinted
CHECK_DEADLOCK FALSE
