\* Room for two values of three and, in a database, for two ids of a key; any allocation may fail, once; calls after finalize, too.
SPECIFICATION Spec
CONSTANTS
  Strings <- MCStrings
  LeafOf <- MCLeafOf
  Keys = {"a", "b"}
  Values = {"x", "y", "z"}
  MaxItems = 2
  MaxListed = 2
  MaxCopies = 2
  MaxFailures = 1
  Again = TRUE
  HashMin = 1
  LeafInc = 1
  ListFirst = 1
  ListInc = 1
  Nil = Nil
INVARIANTS IdsArePositions DatabaseIsSound CrashNeedsFailure
PROPERTIES MultimapSpec CopyKeepsPairs
CHECK_DEADLOCK FALSE
