------------------------------ MODULE MCReader ------------------------------
EXTENDS Library, TLC

KeyNames == <<"a", "b">>
ValueNames == <<"x", "y", "z">>

\* Ascending ids, with repetitions, at most two.
IdLists(m) == {l \in UNION {[1 .. k -> 1 .. m] : k \in 0 .. 2} :
                 \A j \in 1 .. Len(l) - 1 : l[j] <= l[j + 1]}

MCDatabases == UNION {
  [keys : {SubSeq(KeyNames, 1, k)}, lists : [1 .. k -> IdLists(m)],
   vals : {SubSeq(ValueNames, 1, m)}, hash : {FALSE, k > 1}, compressed : BOOLEAN] :
  k \in 0 .. 2, m \in 0 .. 3}

MCViewed == {d \in MCDatabases : d.keys = <<>>}

\* Strings x and w share a leaf of the map; w is no value.
MCLeafOf == [s \in {"w", "x", "y", "z"} |-> IF s = "w" THEN "x" ELSE s]

\* A page has room for two short strings; z needs more than a page.
MCLengthOf == [s \in {"w", "x", "y", "z"} |-> IF s = "z" THEN 4 ELSE IF s = "y" THEN 2 ELSE 1]

MCSizeOf == [b \in Buffers |-> IF b = "d" THEN 3 ELSE 4]
=============================================================================
