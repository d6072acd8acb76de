------------------------------ MODULE Contents ------------------------------
(***************************************************************************)
(* What a database promises to its readers: a cursor over its keys, its    *)
(* unique values, all its values or the values of a key returns each of    *)
(* their strings once, in the order of the database, and then NULL.  A     *)
(* cursor whose value cannot be decoded returns nothing more.              *)
(***************************************************************************)
EXTENDS Naturals, Sequences

CONSTANTS
  Databases,  \* [keys |-> strings, lists |-> the value ids of each key, vals |-> strings,
              \*  hash |-> F_HASH, compressed |-> F_COMPRESSED]
  Keys,       \* the keys asked for
  Nil,        \* NULL
  Seen        \* a string nobody looks at

VARIABLES
  db,      \* the database, which never changes
  asked,   \* what the cursor is for: "keys", "unique", "all" or a key
  todo,    \* the places in the database the cursor has still to come to
  blind,   \* the strings are only counted
  entry,   \* what the last call returned
  failed   \* a value could not be decoded

vars == <<db, asked, todo, blind, entry, failed>>

\* The places of keys, unique values and the values of keys, and their order.
KeyPlaces == (DOMAIN db.keys) \X {0}
UniquePlaces == {0} \X DOMAIN db.vals
ValuePlaces == UNION {{n} \X DOMAIN db.lists[n] : n \in DOMAIN db.keys}
ItemPlaces(k) == {p \in ValuePlaces : db.keys[p[1]] = k}

Before(p, q) == p[1] < q[1] \/ (p[1] = q[1] /\ p[2] < q[2])

String(p) == IF p[2] = 0 THEN db.keys[p[1]]
             ELSE db.vals[IF p[1] = 0 THEN p[2] ELSE db.lists[p[1]][p[2]]]

Init == /\ db \in Databases
        /\ asked = "nothing" /\ todo = {} /\ blind = FALSE /\ entry = Nil /\ failed = FALSE

Opens(what, places) == /\ asked' = what /\ todo' = places
                       /\ blind' = FALSE /\ entry' = Nil /\ failed' = FALSE
                       /\ UNCHANGED db

\* A cursor is opened, or freed.
Open == \/ Opens("keys", KeyPlaces)
        \/ Opens("unique", UniquePlaces)
        \/ Opens("all", ValuePlaces)
        \/ \E k \in Keys : Opens(k, ItemPlaces(k))
        \/ Opens("nothing", {})

\* What is left is counted.
Count == blind' = TRUE /\ UNCHANGED <<db, asked, todo, entry, failed>>

Give == \E p \in todo :
          /\ \A q \in todo \ {p} : Before(p, q)
          /\ todo' = todo \ {p}
          /\ entry' = IF blind THEN Seen ELSE String(p)
          /\ UNCHANGED <<db, asked, blind, failed>>

End == todo = {} /\ entry' = Nil /\ UNCHANGED <<db, asked, todo, blind, failed>>

Break == /\ todo # {} /\ db.compressed /\ ~blind
         /\ todo' = {} /\ entry' = Nil /\ failed' = TRUE
         /\ UNCHANGED <<db, asked, blind>>

Next == Open \/ Count \/ Give \/ End \/ Break

Spec == Init /\ [][Next]_vars
=============================================================================
