---------------------------- MODULE QueryAlgebra ----------------------------
(***************************************************************************)
(* The queries of the Python package (src/python/discodb/query.py).  A     *)
(* program builds them with &, |, ~ and +, from keys: two of them are      *)
(* followed here, each with the values it asks for.  A query is resolved   *)
(* before a database is asked, which replaces what stands behind a + by    *)
(* the disjunction of its values, or expanded by a metaquery, which makes  *)
(* a query of every value.  Python raises an exception where a reduction   *)
(* gets nothing, or where more than two literals are joined by &.          *)
(***************************************************************************)
EXTENDS Clauses, Integers, FiniteSets

CONSTANTS
  Keys,     \* what is a key or a value
  Dbs,      \* the databases asked: functions from Keys to sets of values
  MaxOps    \* operators a program applies

Slots == {1, 2}

ASSUME QueryAlgebraAssumption ==
  Deref \notin Keys /\ Dbs \subseteq [Keys -> SUBSET Keys] /\ MaxOps \in Nat

VARIABLES
  db,       \* the database
  query,    \* the clauses of each query
  asked,    \* the values each query asks for
  raised,   \* an inversion has raised an exception
  ops

algebraVars == <<db, query, asked, raised, ops>>

Values == UNION Range(db)

\* The literals over keys and over the queries Q, and the queries that + nests at
\* most n deep; an operator nests once more at most.
LiteralsOver(Q) == [key : Keys, of : {{}}, negated : BOOLEAN]
                     \cup [key : {Deref}, of : Q, negated : BOOLEAN]
Nested[n \in Nat] == IF n = 0 THEN {{}} ELSE SUBSET SUBSET LiteralsOver(Nested[n - 1])
Queries == Nested[MaxOps + 1]
-----------------------------------------------------------------------------
(***************************************************************************)
(* Operators                                                               *)
(***************************************************************************)
AlgebraInit == /\ db \in Dbs
               /\ \E f \in [Slots -> Keys] :
                    query = [r \in Slots |-> Wrap(f[r])] /\ asked = [r \in Slots |-> db[f[r]]]
               /\ raised = FALSE /\ ops = 0

Step(r, q, values) == /\ ~raised /\ ops < MaxOps
                      /\ query' = [query EXCEPT ![r] = q]
                      /\ asked' = [asked EXCEPT ![r] = values]
                      /\ ops' = ops + 1
                      /\ UNCHANGED <<db, raised>>

Other(r) == 3 - r

Take(r, k) == Step(r, Wrap(k), db[k])
Conjoin(r) == Step(r, And(query[r], query[Other(r)]), asked[r] \cap asked[Other(r)])
Disjoin(r) == Step(r, Or(query[r], query[Other(r)]), asked[r] \cup asked[Other(r)])

\* Q.__pos__
Dereference(r) == Step(r, {{MetaLiteral(query[r])}}, UNION {db[v] : v \in asked[r]})

\* l1 & l2 is a Q, and (l1 & l2) & l3 asks l3 for its clauses; no literal cannot be reduced.
InvertRaises(c) == Cardinality(c) \notin {1, 2}

Negate(r) == /\ \A c \in query[r] : ~InvertRaises(c)
             /\ Step(r, Invert(query[r]), Values \ asked[r])

NegateRaises(r) == /\ ~raised /\ ops < MaxOps
                   /\ \E c \in query[r] : InvertRaises(c)
                   /\ raised' = TRUE
                   /\ UNCHANGED <<db, query, asked, ops>>

AlgebraNext == \E r \in Slots : \/ \E k \in Keys : Take(r, k)
                                \/ Conjoin(r)
                                \/ Disjoin(r)
                                \/ Dereference(r)
                                \/ Negate(r)
                                \/ NegateRaises(r)

AlgebraSpec == AlgebraInit /\ [][AlgebraNext]_algebraVars
-----------------------------------------------------------------------------
(***************************************************************************)
(* Resolving                                                               *)
(***************************************************************************)
\* What the library answers to a query of keys only: nothing if there is no clause.
Answer(q) == IF q = {} THEN {}
             ELSE {v \in Values : Satisfied(q, {k \in Keys : v \in db[k]})}

\* The clause a MetaLiteral stands for: the values of its query, which is resolved.
Dereferenced(of) == {Literal(v) : v \in Answer(of)}

ResolveLiteral(l, of) ==
  CASE l.key # Deref -> {{l}}
    [] l.key = Deref /\ ~l.negated -> {Dereferenced(of)}
    [] l.key = Deref /\ l.negated -> InvertClause(Dereferenced(of))

ResolveClause(c, of) == OrAll([l \in c |-> ResolveLiteral(l, of[l])])

Resolve[q \in Queries] == UNION {ResolveClause(c, [l \in c |-> Resolve[l.of]]) : c \in q}

\* DiscoDB.query resolves once more: an empty clause is then an error.
ResolveLiteralRaises(l, raises) ==
  /\ l.key = Deref
  /\ \/ raises
     \/ {} \in Resolve[l.of]
     \/ l.negated /\ InvertRaises(Dereferenced(Resolve[l.of]))

ResolveRaises[q \in Queries] ==
  \E c \in q : c = {} \/ \E l \in c : ResolveLiteralRaises(l, ResolveRaises[l.of])
-----------------------------------------------------------------------------
(***************************************************************************)
(* Expanding, for a metaquery                                              *)
(***************************************************************************)
\* Mutant: the queries behind a + are taken for their values.
ExpandLiteralOnce(l, of) ==
  IF l.key # Deref THEN {{{l}}}
  ELSE {IF l.negated THEN Invert(p) ELSE p : p \in of}

ExpandLiteral(l, of) ==
  IF l.key # Deref THEN {{{l}}}
  ELSE {IF l.negated THEN Invert(Wrap(v)) ELSE Wrap(v) : v \in UNION {Answer(p) : p \in of}}

ExpandClause(c, of) == {OrAll(f) : f \in Selections([l \in c |-> ExpandLiteral(l, of[l])])}

Expand[q \in Queries] ==
  {UNION Range(f) : f \in Selections([c \in q |-> ExpandClause(c, [l \in c |-> Expand[l.of]])])}
-----------------------------------------------------------------------------
(***************************************************************************)
(* Printing and parsing: the operators of the printed query, applied.      *)
(***************************************************************************)
\* Mutant: the ~ of a + is not printed.
ReparseLiteralPlain(l, of) == IF l.key = Deref THEN {{MetaLiteral(of)}}
                              ELSE IF l.negated THEN Invert(Wrap(l.key)) ELSE Wrap(l.key)

ReparseLiteral(l, of) ==
  LET term == IF l.key = Deref THEN {{MetaLiteral(of)}} ELSE Wrap(l.key)
  IN  IF l.negated THEN Invert(term) ELSE term

\* Clauses of several literals are printed in brackets when there are several.
Reparse[q \in Queries] == UNION {OrAll([l \in c |-> ReparseLiteral(l, Reparse[l.of])]) : c \in q}
-----------------------------------------------------------------------------
(***************************************************************************)
(* However a query was built, and however deep it looks up values as keys, *)
(* its resolution has the values it asks for.                              *)
(***************************************************************************)
AnswerIsRight ==
  \A r \in Slots : ~ResolveRaises[query[r]] => Answer(Resolve[query[r]]) = asked[r]

Positive[q \in Queries] == \A c \in q : \A l \in c : ~l.negated /\ Positive[l.of]

\* No + stands before a query without values.
Fruitful[q \in Queries] ==
  \A c \in q : \A l \in c : Fruitful[l.of] /\ ExpandLiteral(l, Expand[l.of]) # {}

(***************************************************************************)
(* The queries of a metaquery have, together, no values but those of the   *)
(* query, and all of them unless something behind a + has none: then every *)
(* combination with it is lost.  (Negation tells the two apart.)           *)
(***************************************************************************)
MetaqueryAgrees ==
  \A r \in Slots : LET expanded == UNION {Answer(p) : p \in Expand[query[r]]} IN
    Positive[query[r]] => /\ expanded \subseteq asked[r]
                          /\ Fruitful[query[r]] => expanded = asked[r]

\* A printed query is parsed as the same query.
ParsedIsPrinted == \A r \in Slots : Reparse[query[r]] = query[r]

(***************************************************************************)
(* "Inversion of a Clause is always a Q" (src/python/discodb/query.py:219) *)
(***************************************************************************)
InversionIsAQ == ~raised
=============================================================================
