------------------------------ MODULE MCErlNif ------------------------------
EXTENDS ErlNif, TLC

CONSTANTS p1, p2

\* A process that may be killed asks for no iterators; the other one for everything.
MCMixed == (p1 :> {"add", "finalize", "dump"}) @@ (p2 :> {"add", "finalize", "dump", "get"})

\* A process that may be killed asks for an iterator.
MCIterator == p1 :> {"get"}
=============================================================================
