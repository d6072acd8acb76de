----------------------------- MODULE TermCursor -----------------------------
(***************************************************************************)
(* One term of a CNF query (src/src/ddb_cnf.c): an iterator over the value *)
(* ids of a key ("val"), over all ids that are not values of a key ("not") *)
(* or over the ids of a view ("view").  ddb_query_view gives the term its  *)
(* `next' function, each call of which is followed here step by step; the  *)
(* caller may call again at any time.                                      *)
(*                                                                         *)
(* The delta cursor a term reads (ddb_delta.c) is the ascending list of    *)
(* the key's ids; `vcur' is its cur_id, and its num_left is the number of  *)
(* ids behind vcur.                                                        *)
(***************************************************************************)
EXTENDS FiniteSetsExt

CONSTANTS
  NumUniq,   \* db->num_uniq_values; ids are 1 .. NumUniq
  IdLimit    \* 2^32: a valueid_t is 0 .. IdLimit - 1

ASSUME NumUniqAssumption == NumUniq \in Nat
ASSUME IdLimitAssumption == IdLimit \in Nat /\ NumUniq < IdLimit

Ids == 1 .. NumUniq
ValueId == 0 .. IdLimit - 1
Kind == {"val", "not", "view"}

VARIABLES
  kind,      \* which next function the term has
  posting,   \* the ids of the key, or of the view
  vcur,      \* cur_id of the delta cursor; the view's last id
  cur,       \* t->cur_id
  empty,     \* t->empty
  pc,        \* "ready" between calls, "skip" in the loop of ddb_not_next
  ret,       \* what the last call returned; 0 when nothing is left
  out        \* every id returned so far

vars == <<kind, posting, vcur, cur, empty, pc, ret, out>>

\* The ids the delta cursor has not read yet.
Left == {p \in posting : p > vcur}

\* ddb_delta_cursor_next, and v->num_left != 0 before it.
DeltaNext == vcur' = IF Left # {} THEN Min(Left) ELSE vcur

Return(id) == /\ cur' = id
              /\ ret' = id
              /\ empty' = (id = 0)
              /\ out' = IF id = 0 THEN out ELSE out \cup {id}
              /\ pc' = "ready"

\* A key that is not in the database has no ids.
Init == /\ kind \in Kind
        /\ posting \in SUBSET Ids
        /\ vcur = 0 /\ cur = 0 /\ ret = 0
        /\ empty = FALSE
        /\ pc = "ready"
        /\ out = {}

\* Every next function answers 0 once the term is empty.
EmptyNext == /\ pc = "ready" /\ empty
             /\ ret' = 0
             /\ UNCHANGED <<kind, posting, vcur, cur, empty, pc, out>>

ValNext == /\ kind = "val"
           /\ pc = "ready" /\ ~empty
           /\ DeltaNext
           /\ Return(IF Left # {} THEN vcur' ELSE 0)
           /\ UNCHANGED <<kind, posting>>

\* Mutant: the last id of the view is returned for ever.
ViewNextStays == /\ kind = "view"
                 /\ pc = "ready" /\ ~empty
                 /\ DeltaNext
                 /\ Return(vcur')
                 /\ UNCHANGED <<kind, posting>>

ViewNext == /\ kind = "view"
            /\ pc = "ready" /\ ~empty
            /\ DeltaNext
            /\ Return(IF Left # {} THEN vcur' ELSE 0)
            /\ UNCHANGED <<kind, posting>>

\* if (!t->cur_id++ && v->num_left) ddb_delta_cursor_next(v);
NotEnter == /\ kind = "not"
            /\ pc = "ready" /\ ~empty
            /\ IF cur = 0 THEN DeltaNext ELSE UNCHANGED vcur
            /\ cur' = (cur + 1) % IdLimit
            /\ pc' = "skip"
            /\ UNCHANGED <<kind, posting, empty, ret, out>>

\* Mutant: the loop does not step the delta cursor.
NotSkipStale == /\ pc = "skip"
                /\ cur = vcur
                /\ cur' = (cur + 1) % IdLimit
                /\ UNCHANGED <<kind, posting, vcur, empty, pc, ret, out>>

\* One pass of the loop over the ids that belong to the key.
NotSkip == /\ pc = "skip"
           /\ cur = vcur
           /\ cur' = (cur + 1) % IdLimit
           /\ DeltaNext
           /\ UNCHANGED <<kind, posting, empty, pc, ret, out>>

\* The id after the last one ends the term; num_uniq_values + 1 is 32 bits wide.
NotLeave == /\ pc = "skip"
            /\ cur # vcur
            /\ Return(IF cur >= (NumUniq + 1) % IdLimit THEN 0 ELSE cur)
            /\ UNCHANGED <<kind, posting, vcur>>

Next == EmptyNext \/ ValNext \/ ViewNext \/ NotEnter \/ NotSkip \/ NotLeave

Spec == Init /\ [][Next]_vars

\* clause_unions calls a term's next function until the term is empty or
\* beyond the window, and every call is straight-line code.
FairSpec == Spec /\ WF_vars(Next)
-----------------------------------------------------------------------------
TypeOK == /\ kind \in Kind
          /\ posting \in SUBSET Ids
          /\ vcur \in posting \cup {0}
          /\ cur \in ValueId
          /\ empty \in BOOLEAN
          /\ pc \in {"ready", "skip"}
          /\ ret \in ValueId
          /\ out \in SUBSET ValueId

\* The ids the term stands for in its clause.
Want == IF kind = "not" THEN Ids \ posting ELSE posting

(***************************************************************************)
(* Between calls the term has returned exactly the wanted ids up to its    *)
(* cur_id, and an empty term has returned all of them: no id is lost where *)
(* ddb_not_next steps from one run of the key's ids to the next.           *)
(***************************************************************************)
ReturnedPrefix == pc = "ready" =>
  out = IF empty THEN Want ELSE {x \in Want : x <= cur}

(***************************************************************************)
(* In the loop of ddb_not_next the delta cursor stands at the first id of  *)
(* the key that is not below cur_id: this is why comparing with that one   *)
(* id is enough.                                                           *)
(***************************************************************************)
DeltaAhead == pc = "skip" =>
  \A p \in posting : p >= cur => p >= vcur /\ vcur >= cur

(***************************************************************************)
(* What a term guarantees at every moment, whatever its kind: an id is     *)
(* neither lost nor returned twice, between calls or inside ddb_not_next.  *)
(***************************************************************************)
TermSafe == TypeOK /\ ReturnedPrefix /\ DeltaAhead

(***************************************************************************)
(* A term is an ascending iterator over the ids it stands for.             *)
(***************************************************************************)
Iter == INSTANCE AscendingIter
          WITH want <- Want, entry <- ret, failed <- FALSE, Fallible <- FALSE
IterSpec == Iter!FairSpec
-----------------------------------------------------------------------------
(***************************************************************************)
(* Where cur_id and the delta cursor stand relative to each other: what    *)
(* has to be added to the properties above to make them inductive.         *)
(***************************************************************************)
Position ==
  /\ pc = "ready" /\ ~empty /\ kind # "not" => vcur = cur
  /\ pc = "ready" /\ ~empty /\ kind = "not" =>
       /\ cur <= NumUniq /\ cur \notin posting
       /\ cur = 0 => vcur = 0
       /\ cur # 0 => \A p \in posting : p > cur => p >= vcur /\ vcur > cur
  /\ pc = "skip" => /\ kind = "not" /\ ~empty
                    /\ 1 <= cur /\ cur <= NumUniq + 1
                    /\ out = {x \in Want : x < cur}

IInv == TypeOK /\ ReturnedPrefix /\ DeltaAhead /\ Position
=============================================================================
