\* Segments grow 0, 2, 4, 5 and are full with five entries; a delta is at most 2; ids have three bits.
\* Bytes of two bits, words of two bytes, codes of up to three bits.
SPECIFICATION PackingSpec
CONSTANTS
  MaxId = 6
  DeltaMax = 2
  FirstSize = 2
  HalfSize = 4
  Sizes = {2, 4}
  MaxSize = 5
  MaxAppends = 6
  MaxFailures = 1
  IdBits = 3
  WidthBits = 2
  Corpora <- MCCorpora
  ByteBits = 2
  Word = 2
  MaxDepth = 3
  CodebookSize = 8
  MaxCandidates = 5
  FreqLimit = 6
  SizeLimit = 5
INVARIANTS ListSafe PackedRight RoundTrip Optimal NodesFit
CHECK_DEADLOCK FALSE
