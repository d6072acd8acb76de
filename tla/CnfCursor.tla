----------------------------- MODULE CnfCursor -----------------------------
(***************************************************************************)
(* The cursor of a CNF query (src/src/ddb_cnf.c): a conjunction of clauses *)
(* whose terms are ascending iterators (module TermCursor).  It works in   *)
(* windows of WINDOW_SIZE ids: the window starts at the greatest of the    *)
(* clauses' least ids, each clause collects the ids of its terms that fall *)
(* into it, and the intersection of the clauses is delivered id by id.     *)
(*                                                                         *)
(* One behaviour is one cursor: a query is chosen, ddb_query_view sets the *)
(* cursor up, and the caller then calls ddb_cnf_cursor_next as often as it *)
(* likes.  The passes of the two loops over a term's ids are the steps.    *)
(***************************************************************************)
EXTENDS FiniteSetsExt, Sequences

CONSTANTS
  NumUniq,     \* db->num_uniq_values; ids are 1 .. NumUniq
  Window,      \* WINDOW_SIZE
  IdLimit,     \* 2^32: a valueid_t is 0 .. IdLimit - 1
  Queries,     \* the queries asked: [terms |-> terms per clause, view |-> BOOLEAN]
  Compressed   \* F_COMPRESSED: a value has to be decoded before it is delivered

ASSUME CnfAssumption ==
  /\ NumUniq \in Nat
  /\ Window \in Nat \ {0}
  /\ IdLimit \in Nat /\ NumUniq < IdLimit /\ Window < IdLimit
  /\ Queries \subseteq [terms : Seq(Nat), view : BOOLEAN]
  /\ Compressed \in BOOLEAN

Ids == 1 .. NumUniq
ValueId == 0 .. IdLimit - 1
Offset == 0 .. Window - 1

VARIABLES
  nterms,     \* terms per clause, the view's clause included
  sem,        \* what a term's iterator yields: the ids of its key, all others, or a view's
  cur,        \* t->cur_id of each term
  empty,      \* t->empty of each term
  base,       \* cnf->base_id
  unionn,     \* clause->unionn of each clause, as the set of its set bits
  isect,      \* cnf->isect, likewise
  offset,     \* cnf->isect_offset
  i, j,       \* the clause and the term the loops of clause_unions have reached
  pc,         \* "idle" between calls; "window", "union", "isect" within one; "crashed"
  entry,      \* what the last call returned: the id of the value, or 0 for NULL
  errno,      \* c->errno is set; the decode buffer is then NULL with its length grown
  out         \* every id delivered so far

vars == <<nterms, sem, cur, empty, base, unionn, isect, offset, i, j, pc,
          entry, errno, out>>

query == <<nterms, sem>>
terms == <<cur, empty>>
loop  == <<i, j>>
answer == <<entry, errno, out>>

Clauses == DOMAIN nterms
TermsOf(c) == {c} \X (1 .. nterms[c])
Terms == UNION {TermsOf(c) : c \in Clauses}

\* What a term's next function returns after id x: see TermCursor.
IdsAfter(S, x) == {y \in S : y > x}
NextId(S, x) == IF IdsAfter(S, x) = {} THEN 0 ELSE Min(IdsAfter(S, x))
TermNext(t) == LET id == NextId(sem[t], cur[t])
               IN  /\ cur'   = [cur EXCEPT ![t] = id]
                   /\ empty' = [empty EXCEPT ![t] = (id = 0)]

\* ddb_query_view: every term is primed with one call of its next function,
\* a view is a clause of its own, and a query without clauses ignores it.
Init ==
  /\ \E q \in Queries :
        nterms = IF q.view /\ q.terms # <<>> THEN Append(q.terms, 1) ELSE q.terms
  /\ sem   \in [Terms -> SUBSET Ids]
  /\ cur   = [t \in Terms |-> NextId(sem[t], 0)]
  /\ empty = [t \in Terms |-> NextId(sem[t], 0) = 0]
  /\ base = 0 /\ offset = Window
  /\ unionn = [c \in Clauses |-> {}] /\ isect = {}
  /\ i = 0 /\ j = 0
  /\ pc = "idle"
  /\ entry = 0 /\ errno = FALSE /\ out = {}
-----------------------------------------------------------------------------
(***************************************************************************)
(* next_isect_entry: the first set bit from isect_offset on.               *)
(***************************************************************************)
Bits == {b \in isect : b >= offset}

\* Mutant: the error of an earlier call is forgotten.
DeliverAgain(b) == /\ entry' = base + b
                   /\ out' = out \cup {entry'}
                   /\ offset' = b + 1
                   /\ errno' = FALSE

\* ddb_get_valuestr succeeds; once errno is set it never does again.
Deliver(b) == /\ ~errno
              /\ entry' = base + b
              /\ out' = out \cup {entry'}
              /\ offset' = b + 1
              /\ UNCHANGED errno

\* Mutant: the failure is not recorded in the cursor.
CannotDecodeSilent(b) == /\ Compressed
                         /\ offset' = b
                         /\ UNCHANGED <<errno, out>>

\* ddb_get_valuestr fails: the bit stays where it is.  A value that is decoded
\* after a failure is written through the NULL buffer, unless it is empty.
CannotDecode(b) == /\ Compressed
                   /\ errno' = TRUE
                   /\ offset' = b
                   /\ UNCHANGED out

\* c->next of a query without clauses is empty_next.
EmptyNext == /\ pc = "idle" /\ Clauses = {}
             /\ entry' = 0
             /\ UNCHANGED <<query, terms, base, unionn, isect, offset, loop, pc, errno, out>>

NextInWindow == /\ pc = "idle" /\ Bits # {}
                /\ Deliver(Min(Bits))
                /\ UNCHANGED <<query, terms, base, unionn, isect, loop, pc>>

\* The NULL of next_isect_entry is taken for the end of the window.
WindowFails == /\ pc = "idle" /\ Bits # {}
               /\ CannotDecode(Min(Bits))
               /\ pc' \in IF errno THEN {"window", "crashed"} ELSE {"window"}
               /\ UNCHANGED <<query, terms, base, unionn, isect, loop, entry>>

WindowDone == /\ pc = "idle" /\ Clauses # {} /\ Bits = {}
              /\ offset' = Window
              /\ pc' = "window"
              /\ UNCHANGED <<query, terms, base, unionn, isect, loop, answer>>
-----------------------------------------------------------------------------
(***************************************************************************)
(* find_max_clause goes through the clauses from the last to the first.    *)
(***************************************************************************)
Live(c) == {t \in TermsOf(c) : ~empty[t]}
LeastId(c) == Min({cur[t] : t \in Live(c)})
Exhausted == {c \in Clauses : Live(c) = {}}
GreatestOf(C) == Max({0} \cup {LeastId(c) : c \in C})

\* A clause has no ids left: NULL.  base_id keeps what was found before it.
NoMore == /\ pc = "window" /\ Exhausted # {}
          /\ base' = GreatestOf({c \in Clauses : c > Max(Exhausted)})
          /\ entry' = 0
          /\ pc' = "idle"
          /\ UNCHANGED <<query, terms, unionn, isect, offset, loop, errno, out>>

\* clause_unions clears a clause's union when it comes to the clause.
NewWindow == /\ pc = "window" /\ Exhausted = {}
             /\ base' = GreatestOf(Clauses)
             /\ i' = Len(nterms) /\ j' = 1
             /\ unionn' = [unionn EXCEPT ![Len(nterms)] = {}]
             /\ pc' = "union"
             /\ UNCHANGED <<query, terms, isect, offset, answer>>
-----------------------------------------------------------------------------
(***************************************************************************)
(* clause_unions.  Its "return 0" for a clause without ids is not here:    *)
(* find_max_clause has just seen an id in every clause, and no term is     *)
(* shared between clauses (invariant ClauseAlive).                         *)
(***************************************************************************)
MaxId == (base + Window) % IdLimit      \* 32-bit addition
Here == <<i, j>>
InTerm == pc = "union" /\ j <= nterms[i]

\* Mutant: the id the window starts with is skipped too.
SkipIdAtBase == /\ InTerm /\ ~empty[Here] /\ cur[Here] <= base
                /\ TermNext(Here)
                /\ UNCHANGED <<query, base, unionn, isect, offset, loop, pc, answer>>

SkipId == /\ InTerm /\ ~empty[Here] /\ cur[Here] < base
          /\ TermNext(Here)
          /\ UNCHANGED <<query, base, unionn, isect, offset, loop, pc, answer>>

\* Mutant: the term is not advanced behind the id that was collected.
CollectIdStays == /\ InTerm /\ ~empty[Here] /\ cur[Here] >= base /\ cur[Here] < MaxId
                  /\ unionn' = [unionn EXCEPT ![i] = @ \cup {cur[Here] - base}]
                  /\ UNCHANGED <<query, terms, base, isect, offset, loop, pc, answer>>

CollectId == /\ InTerm /\ ~empty[Here] /\ cur[Here] >= base /\ cur[Here] < MaxId
             /\ unionn' = [unionn EXCEPT ![i] = @ \cup {cur[Here] - base}]
             /\ TermNext(Here)
             /\ UNCHANGED <<query, base, isect, offset, loop, pc, answer>>

\* Mutant: one id per term and window, `if' instead of `while'.
TermDoneEarly == /\ InTerm
                 /\ empty[Here] \/ cur[Here] > base
                 /\ j' = j + 1
                 /\ UNCHANGED <<query, terms, base, unionn, isect, offset, i, pc, answer>>

TermDone == /\ InTerm
            /\ empty[Here] \/ (cur[Here] >= base /\ cur[Here] >= MaxId)
            /\ j' = j + 1
            /\ UNCHANGED <<query, terms, base, unionn, isect, offset, i, pc, answer>>

ClauseDone == /\ pc = "union" /\ j > nterms[i] /\ i > 1
              /\ i' = i - 1 /\ j' = 1
              /\ unionn' = [unionn EXCEPT ![i - 1] = {}]
              /\ UNCHANGED <<query, terms, base, isect, offset, pc, answer>>

UnionsDone == /\ pc = "union" /\ j > nterms[i] /\ i = 1
              /\ pc' = "isect"
              /\ UNCHANGED <<query, terms, base, unionn, isect, offset, loop, answer>>
-----------------------------------------------------------------------------
(***************************************************************************)
(* intersect_clauses and what ddb_cnf_cursor_next makes of it.             *)
(***************************************************************************)
Common == {b \in Offset : \A c \in Clauses : b \in unionn[c]}

IntersectEmpty == /\ pc = "isect" /\ Common = {}
                  /\ isect' = Common
                  /\ offset' = 0
                  /\ pc' = "window"
                  /\ UNCHANGED <<query, terms, base, unionn, loop, answer>>

IntersectHit == /\ pc = "isect" /\ Common # {}
                /\ isect' = Common
                /\ Deliver(Min(Common))
                /\ pc' = "idle"
                /\ UNCHANGED <<query, terms, base, unionn, loop>>

IntersectFails == /\ pc = "isect" /\ Common # {}
                  /\ isect' = Common
                  /\ CannotDecode(Min(Common))
                  /\ \/ entry' = 0 /\ pc' = "idle"
                     \/ errno /\ entry' = entry /\ pc' = "crashed"
                  /\ UNCHANGED <<query, terms, base, unionn, loop>>

Next == \/ EmptyNext \/ NextInWindow \/ WindowFails \/ WindowDone
        \/ NoMore \/ NewWindow
        \/ SkipId \/ CollectId \/ TermDone \/ ClauseDone \/ UnionsDone
        \/ IntersectEmpty \/ IntersectHit \/ IntersectFails

Spec == Init /\ [][Next]_vars

\* The caller (ddb_cursor_count, an iterator) calls until it gets NULL, and a
\* call is straight-line code on one thread.
FairSpec == Spec /\ WF_vars(Next)
-----------------------------------------------------------------------------
\* Set bits stay inside the window's bitmaps: set_bit never writes beyond them.
TypeOK == /\ nterms \in Seq(Nat)
          /\ sem \in [Terms -> SUBSET Ids]
          /\ cur \in [Terms -> ValueId]
          /\ empty \in [Terms -> BOOLEAN]
          /\ base \in ValueId
          /\ unionn \in [Clauses -> SUBSET Offset]
          /\ isect \in SUBSET Offset
          /\ offset \in 0 .. Window
          /\ i \in Nat /\ j \in Nat
          /\ pc \in {"idle", "window", "union", "isect", "crashed"}
          /\ entry \in ValueId
          /\ errno \in BOOLEAN
          /\ out \in SUBSET ValueId

\* The ids that satisfy the query; a query without clauses matches nothing.
Want == {x \in Ids : /\ Clauses # {}
                     /\ \A c \in Clauses : \E t \in TermsOf(c) : x \in sem[t]}

(***************************************************************************)
(* The "return 0" of clause_unions cannot happen: a clause the loop has    *)
(* not come to yet still has the id find_max_clause saw.                   *)
(***************************************************************************)
ClauseAlive == pc = "union" => \A c \in Clauses : c < i => Live(c) # {}

(***************************************************************************)
(* Only ids that satisfy the query are delivered, and an id is in the      *)
(* pending part of the window only if it does.                             *)
(***************************************************************************)
OnlyMatches ==
  /\ out \subseteq Want
  /\ pc = "idle" /\ ~errno => {base + b : b \in Bits} \subseteq Want \ out

(***************************************************************************)
(* NULL without an error means that every match has been delivered: no id  *)
(* is lost between two windows, between a skipped and a collected id, or   *)
(* when one term of a clause ends before the others.                       *)
(***************************************************************************)
NullMeansAll == [][NoMore /\ ~errno => out = Want]_vars

(***************************************************************************)
(* Windows never overlap: a new window starts behind the last one.         *)
(***************************************************************************)
WindowsAdvance == [][NewWindow /\ base # 0 => base' >= base + Window]_vars

(***************************************************************************)
(* A query cursor is an ascending iterator over the matches.               *)
(***************************************************************************)
Iter == INSTANCE AscendingIter WITH want <- Want, failed <- errno, Fallible <- Compressed
IterSpec == Iter!Spec

(***************************************************************************)
(* The documented limit of 2^32 unique values (src/doc/index.rst:124)      *)
(* holds for queries too: a caller that keeps calling gets every match,    *)
(* unless a value cannot be decoded.  False for a window that would reach  *)
(* beyond the last 32-bit id.                                              *)
(***************************************************************************)
AllDelivered == <>(out = Want \/ errno)
-----------------------------------------------------------------------------
(***************************************************************************)
(* The inductive invariant behind the properties above, part by part.      *)
(***************************************************************************)
InWindow == pc \in {"union", "isect"}

\* Clause c, or term t, as far as the loops of clause_unions have come.
Visited(c) == pc = "isect" \/ c >= i
Passed(t) == pc = "isect" \/ t[1] > i \/ (t[1] = i /\ t[2] < j)

\* Term t has not read past id x: x is still to come in clause c.
Ahead(x, t) == ~empty[t] /\ x \in sem[t] /\ x >= cur[t]
ToCome(x, c) == \E t \in TermsOf(c) : Ahead(x, t)

CursorsInTerms == \A t \in Terms : ~empty[t] => cur[t] \in sem[t]

LoopsInRange == /\ Clauses = {} => pc = "idle" /\ isect = {}
                /\ pc = "union" => i \in Clauses /\ j \in 1 .. nterms[i] + 1

\* A union holds ids of its clause that lie in the window.
BitsMatch == InWindow =>
  \A c \in Clauses : Visited(c) =>
    \A b \in unionn[c] : base + b < MaxId /\ \E t \in TermsOf(c) : base + b \in sem[t]

\* The terms passed stand behind the window.
TermsPassed == InWindow =>
  \A t \in Terms : Passed(t) /\ ~empty[t] => cur[t] >= base /\ cur[t] >= MaxId

\* A match is delivered, or a bit of the window, or still to come in every clause.
NothingLost == ~errno =>
  /\ pc = "idle" /\ Clauses # {} =>
       \A x \in Want \ out : (\E b \in Bits : x = base + b) \/ \A c \in Clauses : ToCome(x, c)
  /\ pc = "window" => \A x \in Want \ out : \A c \in Clauses : ToCome(x, c)
  /\ InWindow =>
       \A x \in Want \ out :
         x >= base /\ \A c \in Clauses : ToCome(x, c) \/ (Visited(c) /\ x - base \in unionn[c])

\* Delivered ids, then the bits of the window, then what the terms still hold.
InOrder ==
  /\ \A x \in out, t \in Terms : ~empty[t] => x < cur[t]
  /\ pc = "idle" /\ ~errno =>
       \A b \in Bits : /\ \A t \in Terms : ~empty[t] => base + b < cur[t]
                       /\ \A x \in out : x < base + b
  /\ pc = "window" /\ ~errno => Bits = {}
  /\ InWindow => \A x \in out : x < base

IInv == /\ TypeOK /\ CursorsInTerms /\ LoopsInRange /\ ClauseAlive
        /\ BitsMatch /\ TermsPassed /\ NothingLost /\ InOrder /\ OnlyMatches
=============================================================================
