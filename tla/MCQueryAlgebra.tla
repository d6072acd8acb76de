--------------------------- MODULE MCQueryAlgebra ---------------------------
EXTENDS QueryAlgebra

\* Values that are keys, of themselves too, of nothing, and in a circle.
MCDbs == {[k \in Keys |-> CASE k = "a" -> {"b", "c"} [] k = "b" -> {"c", "d"} [] OTHER -> {}],
          [k \in Keys |-> CASE k = "a" -> {"a", "b"} [] k = "b" -> {"c"} [] OTHER -> {"a", "d"}],
          [k \in Keys |-> CASE k = "a" -> {"b", "c", "d"} [] k = "b" -> {"a", "c"} [] OTHER -> {"b"}]}
=============================================================================
