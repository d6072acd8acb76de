--------------------------- MODULE MCConstructor ---------------------------
EXTENDS Constructor

\* The strings "a" and "x" share a leaf.
MCStrings == {"a", "b", "c", "x", "y", "z"}
MCLeafOf == [s \in MCStrings |-> IF s \in {"a", "x"} THEN "l" ELSE s]
=============================================================================
