\* Every database of up to two keys with up to two of three values each; one key is not there.
\* Views are made of up to four strings, one of which is no value, in a map where two share a leaf.
\* Files have up to three dumps of buffers of three and four cells, written by at most three.
SPECIFICATION LibrarySpec
CONSTANTS
  Databases <- MCDatabases
  Keys = {"a", "b", "c"}
  IdLimit = 64
  CountLimit = 8
  Nil = Nil
  Seen = Seen
  Strings = {"w", "x", "y", "z"}
  LeafOf <- MCLeafOf
  MaxItems = 4
  LeafInc = 1
  ListFirst = 1
  ListInc = 1
  PageSize = 4
  Prefix = 1
  LengthOf <- MCLengthOf
  ListBytes = 32
  Buffers = {"d", "e"}
  SizeOf <- MCSizeOf
  Header = 2
  BSize = 3
  Page = 2
  MaxDumps = 3
  MaxOffset = 5
  Nowhere = Nowhere
  Viewed <- MCViewed
  MaxFailures = 1
INVARIANTS IInv ViewIsExact StringsIntact LoadedStaysWhole
PROPERTIES ContentsSpec CountIsRight CountEnds FinalizeEnds DumpedIsLoaded
CHECK_DEADLOCK FALSE
