----------------------------- MODULE DeltaCodec -----------------------------
(***************************************************************************)
(* How the value ids of a key are packed (src/src/ddb_delta.c): the number *)
(* of ids, the width of a field, and the differences of the sorted ids as  *)
(* fields of that width.  A field keeps the low bits of what is written.   *)
(***************************************************************************)
EXTENDS Integers, SequencesExt

CONSTANTS
  IdBits,      \* 32, the bits of an id
  WidthBits    \* 5, the bits the width of a field, less one, is written in

TwoTo == LET power[b \in 0 .. IdBits] == IF b = 0 THEN 1 ELSE 2 * power[b - 1] IN power

ASSUME CodecAssumption ==
  IdBits \in Nat \ {0} /\ WidthBits \in 0 .. IdBits /\ IdBits <= TwoTo[WidthBits]

\* bits_needed: how often a number is halved until nothing is left; one for zero.
BitsNeeded(x) ==
  LET halved[b \in 0 .. IdBits] == IF b = 0 THEN x ELSE halved[b - 1] \div 2
  IN  Min({b \in 1 .. IdBits : halved[b] = 0})

\* The k-th is the least id that is not exceeded by k ids.
Sorted(ids) ==
  [k \in DOMAIN ids |->
     Min({v \in Range(ids) : Cardinality({j \in DOMAIN ids : ids[j] <= v}) >= k})]

Diff(q, k) == IF k = 1 THEN q[1] ELSE q[k] - q[k - 1]

\* Mutant: a repeated id is dropped although it may be repeated.
KeptOnce(q, unique) ==
  LET kept[k \in 0 .. Len(q)] ==
        CASE k = 0 -> <<>>
          [] k > 0 /\ (k = 1 \/ Diff(q, k) # 0) -> Append(kept[k - 1], k)
          [] OTHER -> kept[k - 1]
  IN  kept[Len(q)]

\* The places of the sorted ids that are written: with unique_values each id once.
Kept(q, unique) ==
  LET kept[k \in 0 .. Len(q)] ==
        CASE k = 0 -> <<>>
          [] k > 0 /\ (k = 1 \/ Diff(q, k) # 0 \/ ~unique) -> Append(kept[k - 1], k)
          [] OTHER -> kept[k - 1]
  IN  kept[Len(q)]

\* ddb_delta_encode
Encode(ids, unique) ==
  LET q == Sorted(ids)
      width == BitsNeeded(Max({0} \cup {Diff(q, k) : k \in DOMAIN q}))
      kept == Kept(q, unique)
  IN  [count |-> Len(kept),
       width |-> (width - 1) % TwoTo[WidthBits],
       fields |-> [k \in DOMAIN kept |-> Diff(q, kept[k]) % TwoTo[width]],
       duplicates |-> ~unique /\ \E k \in DOMAIN q : k > 1 /\ Diff(q, k) = 0]

\* ddb_delta_cursor and ddb_delta_cursor_next: the sums of the fields.
Decode(e) ==
  LET read[k \in 0 .. e.count] ==
        IF k = 0 THEN 0 ELSE read[k - 1] + (e.fields[k] % TwoTo[e.width + 1])
  IN  [k \in 1 .. e.count |-> read[k]]
=============================================================================
