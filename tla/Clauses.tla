------------------------------- MODULE Clauses -------------------------------
(***************************************************************************)
(* Conjunctive normal form as src/python/discodb/query.py keeps it: a      *)
(* query is a set of clauses, all of which must hold, a clause a set of    *)
(* literals, one of which must hold.  A literal is a key or, behind a "+", *)
(* a query whose values are keys; and it may be negated.                   *)
(***************************************************************************)
EXTENDS Functions

Deref == "+"   \* in the place of a key: the term is a query

Literal(k) == [key |-> k, of |-> {}, negated |-> FALSE]
MetaLiteral(q) == [key |-> Deref, of |-> q, negated |-> FALSE]
InvertLiteral(l) == [key |-> l.key, of |-> l.of, negated |-> ~l.negated]

\* Q.wrap of a key.
Wrap(k) == {{Literal(k)}}

\* Q.__and__
And(p, q) == p \cup q

\* Q.__or__
Or(p, q) == {c \cup d : c \in p, d \in q}

\* All ways to take an element of each of the sets of a family.
Selections(family) == {f \in [DOMAIN family -> UNION Range(family)] :
                      \A x \in DOMAIN family : f[x] \in family[x]}

\* reduce(__or__, ...) of several queries.
OrAll(family) == {UNION Range(f) : f \in Selections(family)}

\* Clause.__invert__: each literal negated, in a clause of its own.
InvertClause(c) == {{InvertLiteral(l)} : l \in c}

\* Mutant: the inverted clauses are joined as they were.
InvertAnd(q) == UNION {InvertClause(c) : c \in q}

\* Q.__invert__
Invert(q) == IF q = {} THEN q ELSE OrAll([c \in q |-> InvertClause(c)])

(***************************************************************************)
(* What a query means: keys is the set of keys that have a certain value.  *)
(***************************************************************************)
Holds(l, keys) == (l.key \in keys) # l.negated
Satisfied(q, keys) == \A c \in q : \E l \in c : Holds(l, keys)
=============================================================================
