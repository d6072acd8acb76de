---------------------------- MODULE MCCnfCursor ----------------------------
EXTENDS CnfCursor

\* Query shapes: none, an empty clause, one clause, two clauses, a view.
Q(t, v) == [terms |-> t, view |-> v]
MCQueries == {Q(<<>>, FALSE), Q(<<>>, TRUE), Q(<<0>>, FALSE), Q(<<1, 0>>, FALSE),
              Q(<<1>>, FALSE), Q(<<2>>, FALSE), Q(<<1, 2>>, FALSE), Q(<<2>>, TRUE)}
=============================================================================
