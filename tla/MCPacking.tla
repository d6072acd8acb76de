------------------------------ MODULE MCPacking ------------------------------
EXTENDS Packing

Bin == {0, 1}
Strings(S, k) == [1 .. k -> S]

\* Runs: the words of both bytes of a run are as frequent as the run is long.
Runs(q) == FoldLeft(LAMBDA v, r : v \o [k \in 1 .. r[2] |-> r[1]], <<>>, q)

\* No value, one of up to seven bytes, two of six, too many different words, four
\* words of which one is frequent, and five of which two lie too deep; there one word
\* is so frequent that its count wraps, and once the compressed value is too long.
MCCorpora ==
  {{}} \cup {{v} : v \in UNION {Strings(Bin, k) : k \in 0 .. 7}}
    \cup {{v, w} : v, w \in Strings(Bin, 6)}
    \cup {{v} : v \in {<<0, 1, 0, 2, 1, 2, 0, 1>>, <<2, 2, 1, 1, 0, 0, 2, 2>>,
                      Runs(<< <<0, 6>>, <<1, 2>>, <<2, 1>>, <<3, 1>> >>),
                      Runs(<< <<0, 7>>, <<1, 4>>, <<2, 4>> >>),
                      Runs(<< <<0, 13>>, <<1, 4>>, <<2, 4>> >>)}}
=============================================================================
