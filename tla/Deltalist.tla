----------------------------- MODULE Deltalist -----------------------------
(***************************************************************************)
(* The compressed list of value ids that a constructor keeps per key       *)
(* (src/src/ddb_deltalist.c): segments of 16-bit deltas in ascending order,*)
(* searched from the head for one that can take the next id.  Ids arrive   *)
(* in any order and any number of times.  One thread uses a list, so one   *)
(* call of ddb_deltalist_append is one step.                               *)
(***************************************************************************)
EXTENDS SequencesExt

CONSTANTS
  MaxId,       \* UINT32_MAX, the greatest value id
  DeltaMax,    \* UINT16_MAX, the greatest delta
  FirstSize,   \* 4, the size of a segment that grows for the first time
  HalfSize,    \* 32768, the last size but one
  Sizes,       \* 4, 8, 16, .. 32768
  MaxSize,     \* UINT16_MAX, the size of a segment that cannot grow
  MaxAppends,  \* bound on the successful appends of a behaviour
  MaxFailures  \* bound on the failed ones

ASSUME DeltalistAssumption ==
  /\ MaxId \in Nat \ {0} /\ DeltaMax \in Nat \ {0}
  /\ Sizes \subseteq Nat /\ FirstSize \in Sizes /\ FirstSize > 1
  /\ HalfSize \in Sizes /\ MaxSize \in Nat
  /\ \A n \in Sizes : n < MaxSize /\ n > 0 /\ (n = HalfSize \/ 2 * n \in Sizes)
  /\ MaxAppends \in Nat /\ MaxFailures \in Nat

\* DDB_MAX_NUM_VALUES: the constructor hands out ids from 1.
Ids == 1 .. MaxId
Delta == 0 .. DeltaMax

VARIABLES
  segs,        \* the segments from d->head on
  min_maxval,  \* d->min_maxval
  failures,    \* the appends that returned -1: memory ran out
  overrun,     \* a delta was written beyond the memory of its segment
  added        \* how often each id has been appended with success

vars == <<segs, min_maxval, failures, overrun, added>>

\* new_segment.  `cap' is the number of deltas there is memory for.
NewSegment == [maxval |-> 0, i |-> 0, size |-> 0, cap |-> 0, deltas |-> <<>>]

Full(s) == s.size = MaxSize /\ s.i = MaxSize

Init == /\ segs = <<>>
        /\ min_maxval = MaxId
        /\ failures = 0 /\ overrun = FALSE
        /\ added = [v \in Ids |-> 0]
-----------------------------------------------------------------------------
\* Segment s can take id e: it is greater, by no more than a delta holds.
Matches(s, e) == e > s.maxval /\ e - s.maxval <= DeltaMax

\* Mutant: the search passes full segments.
CandidatesAll(e) == {k \in DOMAIN segs : Matches(segs[k], e)}

\* The segments matching_segment may pick: it stops at the first full one.
Candidates(e) == {k \in DOMAIN segs : /\ Matches(segs[k], e)
                                      /\ \A m \in 1 .. k : ~Full(segs[m])}

\* No segment can take id e, so append does not look for one.
NoneBelow(e) == min_maxval > e \/ segs = <<>>

\* The list once the segment for e is at its head.
Fronted(e) == IF Candidates(e) = {}
              THEN <<NewSegment>> \o segs
              ELSE LET k == Min(Candidates(e)) IN <<segs[k]>> \o RemoveAt(segs, k)

\* grow_segment; a full segment never gets here (invariant HeadHasRoom).
Grown(s) ==
  LET size == IF s.size = 0 THEN FirstSize ELSE IF s.size = HalfSize THEN MaxSize ELSE 2 * s.size
  IN  [s EXCEPT !.size = size, !.cap = size]

\* The entry goes behind the others; a delta has 16 bits.
Put(s, e) == IF s.i = 0
             THEN [s EXCEPT !.i = 1, !.maxval = e]
             ELSE [s EXCEPT !.i = @ + 1,
                            !.deltas = Append(@, (e - s.maxval) % (DeltaMax + 1)),
                            !.maxval = e]

Taken(e) == /\ min_maxval' = IF e < min_maxval THEN e ELSE min_maxval
            /\ added' = [added EXCEPT ![e] = @ + 1]

\* The head segment of list f takes e, if the delta is inside its memory.
PutAtHead(f, e) ==
  IF f[1].i > f[1].cap
  THEN /\ overrun' = TRUE
       /\ UNCHANGED <<segs, min_maxval, added>>
  ELSE /\ segs' = <<Put(f[1], e)>> \o Tail(f)
       /\ Taken(e)
       /\ UNCHANGED overrun

NeedsGrowth(s) == s.i >= s.size
-----------------------------------------------------------------------------
\* What a caller may still append; nothing is known of a list overrun.
Open == ~overrun /\ FoldFunction(LAMBDA x, y : x + y, 0, added) < MaxAppends
Failing == ~overrun /\ failures < MaxFailures

\* The new segment takes its first entry without growing.
AppendNew(e) == /\ Open /\ NoneBelow(e)
                /\ segs' = <<Put(NewSegment, e)>> \o segs
                /\ Taken(e)
                /\ UNCHANGED <<failures, overrun>>

AppendMatch(e) == /\ Open /\ ~NoneBelow(e)
                  /\ LET f == Fronted(e)
                     IN  PutAtHead(IF NeedsGrowth(f[1]) THEN <<Grown(f[1])>> \o Tail(f) ELSE f, e)
                  /\ UNCHANGED failures

\* calloc of a new segment fails: the list is as it was.
NewFails(e) == /\ Failing
               /\ NoneBelow(e) \/ Candidates(e) = {}
               /\ failures' = failures + 1
               /\ UNCHANGED <<segs, min_maxval, overrun, added>>

\* realloc fails: the segment has its new size, but its old memory.
GrowthFails(e) == /\ Failing /\ ~NoneBelow(e)
                  /\ NeedsGrowth(Fronted(e)[1])
                  /\ LET f == Fronted(e)
                     IN  segs' = <<[f[1] EXCEPT !.size = Grown(f[1]).size]>> \o Tail(f)
                  /\ failures' = failures + 1
                  /\ UNCHANGED <<min_maxval, overrun, added>>

Next == \E e \in Ids : AppendNew(e) \/ AppendMatch(e) \/ NewFails(e) \/ GrowthFails(e)

Spec == Init /\ [][Next]_vars
-----------------------------------------------------------------------------
\* decode: the entries of a segment, from the last one down.
Decoded(s) ==
  LET entry[k \in 1 .. s.i] == IF k = 1 THEN s.maxval ELSE entry[k - 1] - s.deltas[s.i + 1 - k]
  IN  entry

\* ddb_deltalist_to_array, in the order of the segments.
ToArray ==
  LET upto[k \in 0 .. Len(segs)] == IF k = 0 THEN <<>> ELSE upto[k - 1] \o Decoded(segs[k])
  IN  upto[Len(segs)]
-----------------------------------------------------------------------------
Segment == [maxval : Ids \cup {0}, i : Nat, size : Nat, cap : Nat, deltas : Seq(Delta)]

TypeOK == /\ segs \in Seq(Segment)
          /\ min_maxval \in Ids
          /\ failures \in Nat
          /\ overrun \in BOOLEAN
          /\ added \in [Ids -> Nat]

(***************************************************************************)
(* An id below min_maxval fits no segment that holds an entry: not looking *)
(* for one loses nothing, although min_maxval is never raised again.       *)
(***************************************************************************)
NoneBelowIsRight == \A k \in DOMAIN segs : segs[k].i > 0 => min_maxval <= segs[k].maxval

\* A segment has no more entries than its size; the first one takes no delta.
SizeBounds(s) == /\ s.i <= s.size \/ (s.i = 1 /\ s.size = 0)
                 /\ s.size \in Sizes \cup {0, MaxSize}

(***************************************************************************)
(* The segment matching_segment brings to the head can take the entry or   *)
(* can grow: grow_segment never meets a full one, so segment_full is never *)
(* called.                                                                 *)
(***************************************************************************)
HeadHasRoom == \A e \in Ids :
  ~NoneBelow(e) => LET h == Fronted(e)[1] IN h.i < h.size \/ h.size < MaxSize

(***************************************************************************)
(* A delta is written beyond the memory of its segment only if an earlier  *)
(* append failed: realloc left the size ahead of the memory.               *)
(***************************************************************************)
OverrunNeedsFailure == overrun => failures > 0

(***************************************************************************)
(* What append keeps of a list through every order of ids and every failed *)
(* allocation: the search for a segment misses none, and memory holds what *)
(* is written.                                                             *)
(***************************************************************************)
ListSafe == TypeOK /\ NoneBelowIsRight /\ HeadHasRoom /\ OverrunNeedsFailure
-----------------------------------------------------------------------------
\* What makes the properties of the segments inductive.
Filled(s) == s.i > 0 => s.maxval \in Ids
MemoryKept == failures = 0 => \A k \in DOMAIN segs : segs[k].cap = segs[k].size

IInv == /\ TypeOK
        /\ \A k \in DOMAIN segs : SizeBounds(segs[k]) /\ Filled(segs[k])
        /\ NoneBelowIsRight /\ MemoryKept /\ OverrunNeedsFailure
=============================================================================
