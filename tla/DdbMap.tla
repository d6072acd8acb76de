------------------------------- MODULE DdbMap -------------------------------
(***************************************************************************)
(* The map of strings behind constructors and views (src/src/ddb_map.c     *)
(* with ddb_list.c and ddb_membuffer.c), as operators on a record that its *)
(* users keep in a variable:                                               *)
(*                                                                         *)
(*   num    map->num_items                                                 *)
(*   keys   map->keys, the strings in the order they were inserted; Nil    *)
(*          for a string whose copy could not be allocated                 *)
(*   torn   map->keys is NULL: the list could not grow                     *)
(*   bad    the leaves that a lookup must not enter: their items are NULL, *)
(*          or one of their keys is                                        *)
(*   wild   the strings whose value was never initialised                  *)
(*                                                                         *)
(* A string is found by comparing it with the strings of its leaf, so that *)
(* without failures a lookup is membership in `keys'.  The values that the *)
(* items hold belong to the user of the map.                               *)
(***************************************************************************)
EXTENDS SequencesExt

CONSTANTS
  Strings,    \* what keys and values can be
  LeafOf,     \* the leaf a string is hashed to
  MaxItems,   \* map->max_num_items
  LeafInc,    \* LEAF_SIZE_INCREMENT
  ListFirst,  \* the room of a new ddb_list
  ListInc,    \* LIST_INCREMENT
  Nil         \* NULL

ASSUME MapAssumption ==
  /\ Nil \notin Strings
  /\ DOMAIN LeafOf = Strings
  /\ MaxItems \in Nat \ {0} /\ LeafInc \in Nat \ {0}
  /\ ListFirst \in Nat /\ ListInc \in Nat \ {0}

EmptyMap == [num |-> 0, keys |-> <<>>, torn |-> FALSE, bad |-> {}, wild |-> {}]

\* Maps of strings in S.
Map(S) == [num : 0 .. MaxItems, keys : Seq(S \cup {Nil}), torn : BOOLEAN,
           bad : SUBSET {LeafOf[s] : s \in S}, wild : SUBSET S]

Stored(m) == ToSet(m.keys)
InLeaf(m, l) == Cardinality({i \in DOMAIN m.keys : m.keys[i] # Nil /\ LeafOf[m.keys[i]] = l})

\* lookup_leaf reads the keys of the leaf; the caller reads the value it finds.
LookupSafe(m, s) == LeafOf[s] \notin m.bad /\ s \notin m.wild

\* ddb_map_cursor_new and ddb_map_next_str go through the list of keys.
CursorSafe(m) == ~m.torn /\ Nil \notin Stored(m)

\* ddb_map_next_item_str looks every key up, too.
ItemsSafe(m) == CursorSafe(m) /\ \A s \in Stored(m) : LookupSafe(m, s)

\* The string is not there, and one more item is allowed.
Room(m, s) == LookupSafe(m, s) /\ s \notin Stored(m) /\ m.num < MaxItems

\* The map is full: new_item returns NULL.
Full(m, s) == LookupSafe(m, s) /\ s \notin Stored(m) /\ m.num >= MaxItems

\* Mutant: the string is not looked up before it is inserted.
InsertedTwice(m, s) == IF m.num = MaxItems
                       THEN m
                       ELSE [m EXCEPT !.num = @ + 1, !.keys = Append(@, s)]

\* ddb_map_insert_str of a string the map has, or has room for.
Inserted(m, s) == IF s \in Stored(m)
                  THEN m
                  ELSE [m EXCEPT !.num = @ + 1, !.keys = Append(@, s)]

CanInsert(m, s) == LookupSafe(m, s) /\ (s \in Stored(m) \/ (Room(m, s) /\ ~m.torn))

\* NULL is dereferenced: in the leaf, or in the list of keys.
InsertCrashes(m, s) == ~LookupSafe(m, s) \/ (Room(m, s) /\ m.torn)

(***************************************************************************)
(* An allocation of new_item fails after num_items was raised.             *)
(***************************************************************************)
\* realloc of the leaf's items: they are lost, and NULL is returned.
LeafFails(m, s) == IF Room(m, s) /\ InLeaf(m, LeafOf[s]) % LeafInc = 0
                   THEN {[m EXCEPT !.num = @ + 1, !.bad = @ \cup {LeafOf[s]}]}
                   ELSE {}

\* realloc of the list: the item stays, its value is not initialised.
ListFails(m, s) ==
  IF /\ Room(m, s) /\ ~m.torn
     /\ \E n \in 0 .. Len(m.keys) : Len(m.keys) = ListFirst + n * ListInc
  THEN {[m EXCEPT !.num = @ + 1, !.torn = TRUE, !.wild = @ \cup {s}]}
  ELSE {}

InsertFails(m, s) == LeafFails(m, s) \cup ListFails(m, s)

\* The copy of the string: a NULL key is stored, and the insertion succeeds.
StringFails(m, s) == IF Room(m, s) /\ ~m.torn
                   THEN {[m EXCEPT !.num = @ + 1, !.keys = Append(@, Nil), !.bad = @ \cup {LeafOf[s]}]}
                   ELSE {}

\* calloc of the 256 leaves in lookup_leaf: new_item gets no leaf to write to.
NoLeaves(m, s) == Room(m, s) /\ InLeaf(m, LeafOf[s]) = 0
=============================================================================
