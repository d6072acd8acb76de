------------------------------ MODULE Multimap ------------------------------
(***************************************************************************)
(* What a constructor promises: the database it makes has the keys and the *)
(* pairs that were added, each pair as often as it was added, or once if   *)
(* the caller asked for unique items.  A pair may be refused when there is *)
(* no room for another key or value; the key may stay, without the pair.   *)
(***************************************************************************)
EXTENDS Naturals

CONSTANTS Keys, Values

VARIABLES
  named,    \* the keys added
  count,    \* how often each pair was added
  result    \* the database made last, an empty one at first

vars == <<named, count, result>>

Contents == [named : SUBSET Keys, count : [Keys -> [Values -> Nat]]]
Nothing == [k \in Keys |-> [v \in Values |-> 0]]

Init == /\ named = {} /\ count = Nothing
        /\ result = [named |-> {}, count |-> Nothing]

Name(k) == /\ named' = named \cup {k}
           /\ UNCHANGED <<count, result>>

Add(k, v) == /\ named' = named \cup {k}
             /\ count' = [count EXCEPT ![k][v] = @ + 1]
             /\ UNCHANGED result

Once(n) == IF n = 0 THEN 0 ELSE 1

Finalize(unique) ==
  /\ result' = [named |-> named,
                count |-> [k \in Keys |-> [v \in Values |-> IF unique THEN Once(count[k][v])
                                                                      ELSE count[k][v]]]]
  /\ UNCHANGED <<named, count>>

\* Another constructor takes the place of this one.
New == /\ named' = {} /\ count' = Nothing
       /\ UNCHANGED result

Next == \/ \E k \in Keys : Name(k) \/ \E v \in Values : Add(k, v)
        \/ \E unique \in BOOLEAN : Finalize(unique)
        \/ New

Spec == Init /\ [][Next]_vars
=============================================================================
