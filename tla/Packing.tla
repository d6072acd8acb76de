------------------------------ MODULE Packing ------------------------------
(***************************************************************************)
(* What ddb_cons_finalize packs (src/src/ddb_cons.c): the ids of each key, *)
(* from its list (module Deltalist) into a field of bits (DeltaCodec), and *)
(* the values, compressed by a code made for them (Huffman).  The two have *)
(* nothing in common: where lists are followed there are no values to      *)
(* compress, and where values are compressed the list is empty.            *)
(***************************************************************************)
EXTENDS Deltalist, DeltaCodec, Huffman

\* An id fits into its type.
ASSUME PackingAssumption == MaxId < TwoTo[IdBits]

packVars == <<vars, hvars>>

PackingInit == Init /\ HuffmanInit

Appending == corpus = {} /\ stage = "counting" /\ Next /\ UNCHANGED hvars
Compressing == segs = <<>> /\ failures = 0 /\ HuffmanNext /\ UNCHANGED vars

PackingNext == Appending \/ Compressing

PackingSpec == PackingInit /\ [][PackingNext]_packVars
-----------------------------------------------------------------------------
Times(v, q) == Cardinality({k \in DOMAIN q : q[k] = v})

(***************************************************************************)
(* The delta cursor of a reader gets the ids that were added to the key,   *)
(* ascending, each as often as it was added, or once if the database is    *)
(* built of unique items; the database is a multiset if an id is in the    *)
(* list twice.                                                             *)
(***************************************************************************)
PackedRight == ~overrun =>
  \A unique \in BOOLEAN :
    LET e == Encode(ToArray, unique)
        ids == Decode(e)
    IN  /\ ids \in Seq(Ids) /\ \A k \in 2 .. Len(ids) : ids[k - 1] <= ids[k]
        /\ \A v \in Ids : Times(v, ids) = IF unique /\ added[v] > 0 THEN 1 ELSE added[v]
        /\ e.duplicates = \E v \in Ids : ~unique /\ added[v] > 1
=============================================================================
