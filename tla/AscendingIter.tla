--------------------------- MODULE AscendingIter ---------------------------
(***************************************************************************)
(* What every cursor of DiscoDB promises: successive calls deliver the     *)
(* value ids of a fixed set in ascending order, each exactly once, and     *)
(* then answer "no more" for ever.  A cursor whose value has to be         *)
(* decompressed may run out of memory; it then says so and delivers        *)
(* nothing more.  The detailed cursors (TermCursor, CnfCursor) implement   *)
(* this module.                                                            *)
(***************************************************************************)
EXTENDS FiniteSetsExt

CONSTANTS
  Ids,       \* every value id of the database; 0 is none
  Fallible   \* TRUE if a delivery can fail (compressed values)

VARIABLES
  want,      \* the ids the cursor has to deliver
  out,       \* the ids delivered so far
  entry,     \* what the last call returned; 0 is NULL
  failed     \* a delivery failed: the cursor's errno is set

vars == <<want, out, entry, failed>>

Init == /\ want \in SUBSET Ids
        /\ out = {}
        /\ entry = 0
        /\ failed = FALSE

\* The next call delivers the least id not delivered yet.
Deliver == /\ ~failed
           /\ out # want
           /\ entry' = Min(want \ out)
           /\ out' = out \cup {entry'}
           /\ UNCHANGED <<want, failed>>

\* Nothing is left, or a delivery failed: the call returns NULL.
End == /\ out = want \/ failed
       /\ entry' = 0
       /\ UNCHANGED <<want, out, failed>>

\* The value of the next id cannot be decoded: errno is set, and the call
\* that meets the failure returns NULL, now or after looking further.
Break == /\ Fallible
         /\ ~failed
         /\ out # want
         /\ failed' = TRUE
         /\ entry' \in {entry, 0}
         /\ UNCHANGED <<want, out>>

Next == Deliver \/ End \/ Break

Spec == Init /\ [][Next]_vars

\* A caller that keeps calling gets everything, unless a delivery fails.
FairSpec == Spec /\ WF_vars(Next)
=============================================================================
