------------------------- MODULE ConstructorProofs -------------------------
(***************************************************************************)
(* Proofs about the constructor: whatever is added and whichever of its    *)
(* allocations fail, value ids are places of strings as long as the map of *)
(* values is whole, and what is written can be read; and nothing undefined *)
(* happens without a failure before the constructor is finalized.          *)
(***************************************************************************)
EXTENDS Constructor, FiniteSetTheorems, TLAPS

LEMMA Constants ==
  /\ MaxItems \in Nat \ {0} /\ MaxFailures \in Nat /\ Again \in BOOLEAN
  /\ Keys \subseteq Strings /\ Values \subseteq Strings /\ Nil \notin Strings
  /\ Ids \subseteq Nat /\ NoIds \in Lists /\ Nil \notin Lists
  /\ \A i \in Ids : i >= 1 /\ NoIds[i] = 0
BY MapAssumption, ConstructorAssumption DEF Ids, NoIds, Lists
-----------------------------------------------------------------------------
(***************************************************************************)
(* Maps: no more strings than items, none of them twice.                   *)
(***************************************************************************)
Good(m, S) ==
  /\ m \in Map(S)
  /\ Len(m.keys) <= m.num
  /\ \A i, j \in DOMAIN m.keys : m.keys[i] = m.keys[j] /\ m.keys[i] # Nil => i = j

\* A map with one more string at the end.
Longer(n, m, s) ==
  /\ n.num = m.num + 1 /\ Len(n.keys) = Len(m.keys) + 1
  /\ n.keys[Len(m.keys) + 1] = s
  /\ \A i \in DOMAIN m.keys : i \in DOMAIN n.keys /\ n.keys[i] = m.keys[i]

\* A new map is good.
LEMMA EmptyMapGood == ASSUME NEW S PROVE Good(EmptyMap, S)
<1>1. EmptyMap.keys \in Seq(S \cup {Nil}) /\ Len(EmptyMap.keys) = 0
  BY DEF EmptyMap
<1> QED BY <1>1, Constants DEF EmptyMap, Good, Map

\* Appending a string, or NULL, makes a map longer and keeps it good.
LEMMA AppendGood ==
  ASSUME NEW S, NEW m, Good(m, S), m.num < MaxItems,
         NEW s \in S \cup {Nil}, s = Nil \/ s \notin Stored(m),
         NEW n, n \in Map(S), n.num = m.num + 1, n.keys = Append(m.keys, s)
  PROVE  Good(n, S) /\ Longer(n, m, s)
<1> DEFINE ks == m.keys  ns == n.keys
<1>1. ks \in Seq(S \cup {Nil}) /\ m.num \in Nat /\ Len(ks) <= m.num
  BY Constants DEF Good, Map
<1>2. /\ ns \in Seq(S \cup {Nil}) /\ Len(ns) = Len(ks) + 1 /\ ns[Len(ks) + 1] = s
      /\ DOMAIN ks = 1 .. Len(ks) /\ DOMAIN ns = 1 .. Len(ks) + 1
      /\ \A i \in 1 .. Len(ks) : ns[i] = ks[i]
      /\ Len(ks) \in Nat
  BY <1>1
<1>3. Longer(n, m, s)
  BY <1>2 DEF Longer
<1>4. ASSUME NEW i \in DOMAIN ns, NEW j \in DOMAIN ns, ns[i] = ns[j], ns[i] # Nil
      PROVE  i = j
  <2>1. CASE i \in DOMAIN ks /\ j \in DOMAIN ks
    BY <1>2, <1>4, <2>1 DEF Good
  <2>2. CASE i \notin DOMAIN ks /\ j \notin DOMAIN ks
    BY <1>2, <2>2
  <2>3. CASE i \in DOMAIN ks /\ j \notin DOMAIN ks
    BY <1>2, <1>4, <2>3 DEF Stored, ToSet
  <2>4. CASE i \notin DOMAIN ks /\ j \in DOMAIN ks
    BY <1>2, <1>4, <2>4 DEF Stored, ToSet
  <2> QED BY <2>1, <2>2, <2>3, <2>4
<1> QED BY <1>1, <1>2, <1>3, <1>4 DEF Good

\* The updates of a map that new_item makes, one field after the other.
LEMMA PutInMap ==
  ASSUME NEW S, NEW m \in Map(S), m.num < MaxItems, NEW s \in S, NEW x \in S \cup {Nil}
  PROVE  /\ [m EXCEPT !.num = @ + 1, !.keys = Append(@, x)] \in Map(S)
         /\ [m EXCEPT !.num = @ + 1, !.keys = Append(@, x), !.bad = @ \cup {LeafOf[s]}] \in Map(S)
         /\ [m EXCEPT !.num = @ + 1, !.bad = @ \cup {LeafOf[s]}] \in Map(S)
         /\ [m EXCEPT !.num = @ + 1, !.torn = TRUE, !.wild = @ \cup {s}] \in Map(S)
<1>1. m.num + 1 \in 0 .. MaxItems
  BY Constants DEF Map
<1>2. m.keys \in Seq(S \cup {Nil})
  BY DEF Map
<1>3. Append(m.keys, x) \in Seq(S \cup {Nil})
  BY <1>2
<1>4. m.bad \cup {LeafOf[s]} \in SUBSET {LeafOf[r] : r \in S}
  BY DEF Map
<1>5. m.wild \cup {s} \in SUBSET S
  BY DEF Map
<1>6. m = [num |-> m.num, keys |-> m.keys, torn |-> m.torn, bad |-> m.bad, wild |-> m.wild]
  BY DEF Map
<1> DEFINE A == Append(m.keys, x)  B == m.bad \cup {LeafOf[s]}  W == m.wild \cup {s}  N == m.num + 1
<1>7. /\ N \in 0 .. MaxItems /\ A \in Seq(S \cup {Nil}) /\ B \in SUBSET {LeafOf[r] : r \in S}
      /\ W \in SUBSET S
  BY <1>1, <1>3, <1>4, <1>5
<1> HIDE DEF A, B, W, N
<1>8. /\ [m EXCEPT !.num = N, !.keys = A] \in Map(S)
      /\ [m EXCEPT !.num = N, !.keys = A, !.bad = B] \in Map(S)
      /\ [m EXCEPT !.num = N, !.bad = B] \in Map(S)
      /\ [m EXCEPT !.num = N, !.torn = TRUE, !.wild = W] \in Map(S)
  BY <1>7 DEF Map
<1> QED BY <1>6, <1>8 DEF A, B, W, N

\* ddb_map_insert_str finds the string or puts it behind the others.
LEMMA InsertedGood ==
  ASSUME NEW S \in SUBSET Strings, NEW m, Good(m, S), NEW s \in S, CanInsert(m, s)
  PROVE  LET n == Inserted(m, s) IN
           /\ Good(n, S)
           /\ s \in Stored(m) => n = m
           /\ s \notin Stored(m) => Longer(n, m, s)
<1>1. CASE s \in Stored(m)
  BY <1>1 DEF Inserted
<1>2. CASE s \notin Stored(m)
  <2> DEFINE n == Inserted(m, s)
  <2>1. n = [m EXCEPT !.num = @ + 1, !.keys = Append(@, s)] /\ m.num < MaxItems
    BY <1>2 DEF Inserted, CanInsert, Room
  <2> HIDE DEF n
  <2>2. m \in Map(S)
    BY DEF Good
  <2>3. n.num = m.num + 1 /\ n.keys = Append(m.keys, s) /\ n \in Map(S)
    <3>1. n.num = m.num + 1 /\ n.keys = Append(m.keys, s)
      BY <2>1, <2>2 DEF Map
    <3>2. n \in Map(S)
      BY <2>1, <2>2, PutInMap
    <3> QED BY <3>1, <3>2
  <2> QED BY <1>2, <2>1, <2>3, AppendGood DEF n
<1> QED BY <1>1, <1>2

\* An insertion that fails half-way leaves the strings and counts an item.
LEMMA InsertFailsGood ==
  ASSUME NEW S \in SUBSET Strings, NEW m, Good(m, S), NEW s \in S, NEW n \in InsertFails(m, s)
  PROVE  Good(n, S) /\ n.keys = m.keys /\ ~Whole(n)
<1>1. m \in Map(S)
  BY DEF Good
<1>2. m.num < MaxItems /\ m.num \in Nat /\ Len(m.keys) \in Nat /\ Len(m.keys) <= m.num
  BY <1>1, Constants DEF InsertFails, LeafFails, ListFails, Room, Good, Map
<1>3. CASE n \in LeafFails(m, s)
  <2>1. n = [m EXCEPT !.num = @ + 1, !.bad = @ \cup {LeafOf[s]}]
    BY <1>3 DEF LeafFails
  <2>2. n.num = m.num + 1 /\ n.keys = m.keys
    BY <1>1, <2>1 DEF Map
  <2>3. n \in Map(S)
    BY <1>1, <1>2, <2>1, PutInMap
  <2> QED BY <1>2, <2>2, <2>3 DEF Good, Whole
<1>4. CASE n \in ListFails(m, s)
  <2>1. n = [m EXCEPT !.num = @ + 1, !.torn = TRUE, !.wild = @ \cup {s}]
    BY <1>4 DEF ListFails
  <2>2. n.num = m.num + 1 /\ n.keys = m.keys
    BY <1>1, <2>1 DEF Map
  <2>3. n \in Map(S)
    BY <1>1, <1>2, <2>1, PutInMap
  <2> QED BY <1>2, <2>2, <2>3 DEF Good, Whole
<1> QED BY <1>3, <1>4 DEF InsertFails

\* A string that cannot be copied leaves NULL behind the others.
LEMMA StringFailsGood ==
  ASSUME NEW S \in SUBSET Strings, NEW m, Good(m, S), NEW s \in S, NEW n \in StringFails(m, s)
  PROVE  Good(n, S) /\ Longer(n, m, Nil)
<1>1. m \in Map(S)
  BY DEF Good
<1>2. m.num < MaxItems /\ m.num \in Nat
  BY <1>1, Constants DEF StringFails, Room, Map
<1>3. n.num = m.num + 1 /\ n.keys = Append(m.keys, Nil) /\ n \in Map(S)
  <2>1. n = [m EXCEPT !.num = @ + 1, !.keys = Append(@, Nil), !.bad = @ \cup {LeafOf[s]}]
    BY DEF StringFails
  <2>2. n.num = m.num + 1 /\ n.keys = Append(m.keys, Nil)
    BY <1>1, <2>1 DEF Map
  <2>3. n \in Map(S)
    BY <1>1, <1>2, <2>1, PutInMap
  <2> QED BY <2>2, <2>3
<1> QED BY <1>2, <1>3, AppendGood
-----------------------------------------------------------------------------
(***************************************************************************)
(* Constructors: the maps are good, a value that is there has an id, and   *)
(* ids are places.                                                         *)
(***************************************************************************)
Numbered(c) == \A v \in Values : v \in Stored(c.values_map) => c.id[v] # 0

ConsInv(c) ==
  /\ c \in Constructors
  /\ Good(c.keys_map, Keys) /\ Good(c.values_map, Values)
  /\ Numbered(c)
  /\ Whole(c.values_map) => Placed(c)

\* A new constructor has empty maps and no lists.
LEMMA NewConsInv == ConsInv(NewCons)
<1>1. Good(EmptyMap, Keys) /\ Good(EmptyMap, Values)
  BY EmptyMapGood
<1>2. NewCons \in Constructors
  BY <1>1, Constants DEF NewCons, Constructors, Good
<1>3. Stored(EmptyMap) = {}
  BY DEF EmptyMap, Stored, ToSet
<1>4. /\ NewCons.values_map = EmptyMap /\ NewCons.keys_map = EmptyMap
      /\ \A v \in Values : NewCons.id[v] = 0
      /\ \A k \in Keys : NewCons.list[k] = Nil
  BY DEF NewCons
<1>5. \A k \in Keys : Ids0(NewCons.list[k]) = NoIds
  BY <1>4 DEF Ids0
<1>6. \A k \in Keys : \A i \in Ids : ~(Ids0(NewCons.list[k])[i] > 0)
  BY <1>5, Constants
<1>7. Placed(NewCons)
  BY <1>4, <1>6 DEF Placed
<1> QED BY <1>1, <1>2, <1>3, <1>4, <1>7 DEF ConsInv, Numbered

\* Another map of keys, other fragile lists, or no values: nothing else changes.
LEMMA OtherFields ==
  ASSUME NEW c, ConsInv(c)
  PROVE  /\ \A m : Good(m, Keys) => ConsInv([c EXCEPT !.keys_map = m])
         /\ \A k \in Keys : ConsInv([c EXCEPT !.frail = @ \cup {k}])
         /\ ConsInv([c EXCEPT !.live = FALSE])
<1>1. c \in Constructors
  BY DEF ConsInv
<1>2. ASSUME NEW m, Good(m, Keys) PROVE ConsInv([c EXCEPT !.keys_map = m])
  <2> DEFINE d == [c EXCEPT !.keys_map = m]
  <2>1. m \in Map(Keys)
    BY <1>2 DEF Good
  <2>2. /\ d \in Constructors /\ d.keys_map = m /\ d.values_map = c.values_map
        /\ d.id = c.id /\ d.list = c.list
    BY <1>1, <2>1 DEF Constructors
  <2> HIDE DEF d
  <2> QED BY <1>2, <2>2 DEF ConsInv, Numbered, Placed, d
<1>3. ASSUME NEW k \in Keys PROVE ConsInv([c EXCEPT !.frail = @ \cup {k}])
  <2> DEFINE d == [c EXCEPT !.frail = @ \cup {k}]
  <2>1. /\ d \in Constructors /\ d.keys_map = c.keys_map /\ d.values_map = c.values_map
        /\ d.id = c.id /\ d.list = c.list
    BY <1>1 DEF Constructors
  <2> HIDE DEF d
  <2> QED BY <2>1 DEF ConsInv, Numbered, Placed, d
<1>4. ConsInv([c EXCEPT !.live = FALSE])
  <2> DEFINE d == [c EXCEPT !.live = FALSE]
  <2>1. /\ d \in Constructors /\ d.keys_map = c.keys_map /\ d.values_map = c.values_map
        /\ d.id = c.id /\ d.list = c.list
    BY <1>1 DEF Constructors
  <2> HIDE DEF d
  <2> QED BY <2>1 DEF ConsInv, Numbered, Placed, d
<1> QED BY <1>2, <1>3, <1>4

\* With its key, the constructor has a list to append to.
LEMMA WithKeyInv ==
  ASSUME NEW c, ConsInv(c), NEW k \in Keys, KeyOk(c, k)
  PROVE  LET d == WithKey(c, k) IN
           /\ ConsInv(d)
           /\ d.keys_map = Inserted(c.keys_map, k)
           /\ d.values_map = c.values_map /\ d.live = c.live /\ d.frail = c.frail /\ d.id = c.id
           /\ d.list = [c.list EXCEPT ![k] = Ids0(@)]
           /\ d.list[k] \in Lists
<1> DEFINE d == WithKey(c, k)  m == Inserted(c.keys_map, k)
<1>1. c \in Constructors /\ Good(c.keys_map, Keys) /\ Good(c.values_map, Values)
  BY DEF ConsInv
<1>2. Good(m, Keys) /\ m \in Map(Keys)
  BY <1>1, InsertedGood, Constants DEF KeyOk, Good
<1>3. Ids0(c.list[k]) \in Lists /\ c.list \in [Keys -> Lists \cup {Nil}]
  BY <1>1, Constants DEF Constructors, Ids0
<1>4. d = [c EXCEPT !.keys_map = m, !.list = [c.list EXCEPT ![k] = Ids0(@)]]
  BY <1>1 DEF WithKey, Constructors
<1> HIDE DEF m, d
<1>5. [c.list EXCEPT ![k] = Ids0(@)] \in [Keys -> Lists \cup {Nil}]
  BY <1>3
<1>6. /\ d \in Constructors /\ d.keys_map = m
      /\ d.values_map = c.values_map /\ d.live = c.live /\ d.frail = c.frail /\ d.id = c.id
      /\ d.list = [c.list EXCEPT ![k] = Ids0(@)]
  BY <1>1, <1>2, <1>4, <1>5 DEF Constructors
<1>7. /\ d.list[k] = Ids0(c.list[k]) /\ d.list[k] \in Lists
      /\ \A l \in Keys : Ids0(d.list[l]) = Ids0(c.list[l])
  BY <1>3, <1>6, Constants DEF Ids0
<1>8. Numbered(d) /\ (Whole(d.values_map) => Placed(d))
  BY <1>6, <1>7 DEF ConsInv, Numbered, Placed
<1> QED BY <1>1, <1>2, <1>6, <1>7, <1>8 DEF ConsInv, m, d

\* With its value, the constructor has the value's id, which is its place.
LEMMA WithValueInv ==
  ASSUME NEW c, ConsInv(c), NEW v \in Values, ValueOk(c, v)
  PROVE  LET d == WithValue(c, v) IN
           /\ ConsInv(d)
           /\ d.values_map = Inserted(c.values_map, v)
           /\ d.keys_map = c.keys_map /\ d.live = c.live /\ d.frail = c.frail /\ d.list = c.list
           /\ d.id[v] \in Ids
           /\ \A w \in Values : w # v => d.id[w] = c.id[w]
           /\ c.id[v] # 0 => d.id[v] = c.id[v]
           /\ Whole(d.values_map) => /\ d.id[v] \in DOMAIN d.values_map.keys
                                     /\ d.values_map.keys[d.id[v]] = v
<1> DEFINE d == WithValue(c, v)  m == c.values_map  n == Inserted(m, v)
           a == IF c.id[v] = 0 THEN n.num ELSE c.id[v]
<1>1. c \in Constructors /\ Good(m, Values)
  BY DEF ConsInv
<1>2. /\ Good(n, Values)
      /\ v \in Stored(m) => n = m
      /\ v \notin Stored(m) => Longer(n, m, v)
  BY <1>1, InsertedGood, Constants DEF ValueOk
<1>3. d = [c EXCEPT !.values_map = n, !.id = [c.id EXCEPT ![v] = a]]
  BY <1>1 DEF WithValue, Constructors
<1> HIDE DEF n, d
<1>4. /\ n \in Map(Values) /\ n.num \in 0 .. MaxItems /\ m.num \in 0 .. MaxItems
      /\ Len(n.keys) \in Nat /\ Len(m.keys) \in Nat
      /\ Len(m.keys) <= m.num /\ DOMAIN m.keys = 1 .. Len(m.keys)
      /\ Len(n.keys) <= n.num /\ DOMAIN n.keys = 1 .. Len(n.keys)
  BY <1>1, <1>2 DEF Good, Map
<1>5. c.id[v] \in {0} \cup Ids /\ c.id \in [Values -> {0} \cup Ids]
  BY <1>1 DEF Constructors
<1>6. c.id[v] = 0 => v \notin Stored(m)
  BY DEF ConsInv, Numbered
<1>7. a \in Ids
  BY <1>2, <1>4, <1>5, <1>6, Constants DEF Longer, Ids
<1> HIDE DEF a
<1>8. /\ d \in Constructors /\ d.values_map = n /\ d.keys_map = c.keys_map /\ d.live = c.live
      /\ d.frail = c.frail /\ d.list = c.list /\ d.id = [c.id EXCEPT ![v] = a]
  BY <1>1, <1>3, <1>4, <1>5, <1>7 DEF Constructors
<1>9. d.id[v] = a /\ \A w \in Values : w # v => d.id[w] = c.id[w]
  BY <1>5, <1>8
<1>10. \A w \in Values : w \in Stored(n) => w = v \/ w \in Stored(m)
  <2>1. CASE v \in Stored(m)
    BY <1>2, <2>1
  <2>2. CASE v \notin Stored(m)
    <3>1. /\ n.keys[Len(m.keys) + 1] = v /\ Len(n.keys) = Len(m.keys) + 1
          /\ \A i \in 1 .. Len(m.keys) : n.keys[i] = m.keys[i]
      BY <1>2, <1>4, <2>2 DEF Longer
    <3>2. ASSUME NEW w \in Values, NEW i \in 1 .. Len(n.keys), w = n.keys[i], w # v
          PROVE  w \in Stored(m)
      <4>1. i \in 1 .. Len(m.keys)
        BY <1>4, <3>1, <3>2
      <4> QED BY <1>4, <3>1, <3>2, <4>1 DEF Stored, ToSet
    <3> QED BY <1>4, <3>2 DEF Stored, ToSet
  <2> QED BY <2>1, <2>2
<1>11. Numbered(d)
  BY <1>7, <1>8, <1>9, <1>10, Constants DEF ConsInv, Numbered
<1>12. ASSUME Whole(n)
       PROVE  /\ Whole(m)
              /\ \A i \in DOMAIN m.keys : i \in DOMAIN n.keys /\ n.keys[i] = m.keys[i]
              /\ a \in DOMAIN n.keys /\ n.keys[a] = v
  <2>1. Whole(m)
    BY <1>2, <1>4, <1>12 DEF Longer, Whole
  <2>2. \A i \in DOMAIN m.keys : i \in DOMAIN n.keys /\ n.keys[i] = m.keys[i]
    BY <1>2 DEF Longer
  <2>3. CASE c.id[v] = 0
    <3>1. Longer(n, m, v) /\ a = n.num
      BY <1>2, <1>6, <2>3 DEF a
    <3>2. n.num = m.num + 1 /\ m.num = Len(m.keys) /\ Len(n.keys) = Len(m.keys) + 1
          /\ n.keys[Len(m.keys) + 1] = v
      BY <2>1, <3>1 DEF Longer, Whole
    <3> QED BY <1>4, <2>1, <2>2, <3>1, <3>2
  <2>4. CASE c.id[v] # 0
    <3>1. c.id[v] \in DOMAIN m.keys /\ m.keys[c.id[v]] = v /\ a = c.id[v]
      BY <2>1, <2>4 DEF ConsInv, Placed, a
    <3> QED BY <2>1, <2>2, <3>1
  <2> QED BY <2>3, <2>4
<1>13. ASSUME Whole(n) PROVE Placed(d)
  <2>1. Placed(c)
    BY <1>12, <1>13 DEF ConsInv
  <2> QED BY <1>8, <1>9, <1>12, <1>13, <2>1 DEF Placed
<1>14. c.id[v] # 0 => a = c.id[v]
  BY DEF a
<1> QED BY <1>1, <1>2, <1>7, <1>8, <1>9, <1>11, <1>12, <1>13, <1>14 DEF ConsInv, n, d

\* An entry more in a list there is, for an id with a string.
LEMMA WithPairInv ==
  ASSUME NEW c, ConsInv(c), NEW k \in Keys, c.list[k] \in Lists, NEW i \in Ids,
         Whole(c.values_map) => i \in DOMAIN c.values_map.keys
  PROVE  LET d == WithPair(c, k, i) IN
           /\ ConsInv(d)
           /\ d.keys_map = c.keys_map /\ d.values_map = c.values_map
           /\ d.live = c.live /\ d.frail = c.frail /\ d.id = c.id
           /\ d.list = [c.list EXCEPT ![k] = [c.list[k] EXCEPT ![i] = @ + 1]]
           /\ d.list[k] \in Lists
<1> DEFINE d == WithPair(c, k, i)  l == [c.list[k] EXCEPT ![i] = @ + 1]
<1>1. c \in Constructors /\ Good(c.keys_map, Keys) /\ Good(c.values_map, Values)
  BY DEF ConsInv
<1>2. l \in Lists /\ c.list \in [Keys -> Lists \cup {Nil}]
      /\ \A j \in Ids : j # i => l[j] = c.list[k][j]
  BY <1>1 DEF Lists, Constructors
<1>3. d = [c EXCEPT !.list = [c.list EXCEPT ![k] = l]]
  BY <1>1 DEF WithPair, Constructors
<1>4. [c.list EXCEPT ![k] = [c.list[k] EXCEPT ![i] = @ + 1]] = [c.list EXCEPT ![k] = l]
  OBVIOUS
<1> HIDE DEF d, l
<1>5. [c.list EXCEPT ![k] = l] \in [Keys -> Lists \cup {Nil}]
  BY <1>2
<1>6. /\ d \in Constructors /\ d.keys_map = c.keys_map /\ d.values_map = c.values_map
      /\ d.live = c.live /\ d.frail = c.frail /\ d.id = c.id
      /\ d.list = [c.list EXCEPT ![k] = l]
  BY <1>1, <1>3, <1>5 DEF Constructors
<1>7. d.list[k] = l /\ \A r \in Keys : r # k => d.list[r] = c.list[r]
  BY <1>2, <1>6
<1>8. l # Nil /\ c.list[k] # Nil
  BY <1>2, Constants
<1>9. \A r \in Keys, j \in Ids :
        Ids0(d.list[r])[j] > 0 => Ids0(c.list[r])[j] > 0 \/ (r = k /\ j = i)
  BY <1>2, <1>7, <1>8 DEF Ids0
<1>10. Numbered(d) /\ (Whole(d.values_map) => Placed(d))
  BY <1>6, <1>9 DEF ConsInv, Numbered, Placed
<1> QED BY <1>1, <1>2, <1>4, <1>6, <1>7, <1>10 DEF ConsInv, d

\* What ddb_cons_add does when it succeeds, step by step.
LEMMA AddedInv ==
  ASSUME NEW c, ConsInv(c), NEW k \in Keys, NEW v \in Values, KeyOk(c, k), ValueOk(c, v)
  PROVE  LET d == WithValue(WithKey(c, k), v) IN
           /\ ConsInv(WithKey(c, k)) /\ ValueOk(WithKey(c, k), v)
           /\ ConsInv(d) /\ d.list[k] \in Lists /\ d.id[v] \in Ids
           /\ Whole(d.values_map) => d.id[v] \in DOMAIN d.values_map.keys
           /\ ConsInv(Added(c, k, v))
           /\ Added(c, k, v) = WithPair(d, k, d.id[v])
<1> DEFINE b == WithKey(c, k)  d == WithValue(b, v)
<1>1. ConsInv(b) /\ b.values_map = c.values_map /\ b.live = c.live /\ b.list[k] \in Lists
  BY WithKeyInv
<1>2. ValueOk(b, v)
  BY <1>1 DEF ValueOk
<1> HIDE DEF b
<1>3. /\ ConsInv(d) /\ d.list = b.list /\ d.id[v] \in Ids
      /\ Whole(d.values_map) => d.id[v] \in DOMAIN d.values_map.keys
  BY <1>1, <1>2, WithValueInv
<1>4. Added(c, k, v) = WithPair(d, k, d.id[v])
  BY DEF Added, b
<1> HIDE DEF d
<1>5. ConsInv(WithPair(d, k, d.id[v]))
  BY <1>1, <1>3, WithPairInv
<1> QED BY <1>1, <1>2, <1>3, <1>4, <1>5 DEF b, d

\* Another map of values with the same strings, or with NULL behind them.
LEMMA OtherValues ==
  ASSUME NEW c, ConsInv(c), NEW m, Good(m, Values),
         \/ m.keys = c.values_map.keys /\ ~Whole(m)
         \/ Longer(m, c.values_map, Nil)
  PROVE  LET d == [c EXCEPT !.values_map = m] IN
           /\ ConsInv(d) /\ d.values_map = m /\ d.list = c.list /\ d.keys_map = c.keys_map
<1> DEFINE d == [c EXCEPT !.values_map = m]  n == c.values_map
<1>1. c \in Constructors /\ Good(n, Values) /\ m \in Map(Values)
  BY DEF ConsInv, Good
<1>2. /\ d \in Constructors /\ d.values_map = m /\ d.keys_map = c.keys_map
      /\ d.id = c.id /\ d.list = c.list
  BY <1>1 DEF Constructors
<1> HIDE DEF d
<1>3. CASE m.keys = n.keys /\ ~Whole(m)
  BY <1>2, <1>3 DEF ConsInv, Numbered, Stored, d
<1>4. CASE Longer(m, n, Nil)
  <2>1. /\ m.num = n.num + 1 /\ Len(m.keys) = Len(n.keys) + 1
        /\ \A i \in DOMAIN n.keys : i \in DOMAIN m.keys /\ m.keys[i] = n.keys[i]
        /\ m.keys[Len(n.keys) + 1] = Nil
    BY <1>4 DEF Longer
  <2>2. /\ n.num \in Nat /\ Len(n.keys) \in Nat /\ DOMAIN n.keys = 1 .. Len(n.keys)
        /\ Len(m.keys) \in Nat /\ DOMAIN m.keys = 1 .. Len(m.keys)
    BY <1>1 DEF Good, Map
  <2>3. Whole(m) => Whole(n)
    BY <2>1, <2>2 DEF Whole
  <2>4. ASSUME NEW w \in Values, w \in Stored(m) PROVE w \in Stored(n)
    <3>1. PICK i \in 1 .. Len(m.keys) : m.keys[i] = w
      BY <2>2, <2>4 DEF Stored, ToSet
    <3>2. i # Len(n.keys) + 1
      BY <2>1, <3>1, Constants
    <3>3. i \in DOMAIN n.keys
      BY <2>1, <2>2, <3>1, <3>2
    <3> QED BY <2>1, <3>1, <3>3 DEF Stored, ToSet
  <2>5. Whole(m) => Placed(d)
    BY <1>2, <2>1, <2>3 DEF ConsInv, Placed
  <2> QED BY <1>2, <2>4, <2>5 DEF ConsInv, Numbered, d
<1> QED BY <1>3, <1>4

\* A failed add leaves ids at their places, if the values are whole.
LEMMA FailedInv ==
  ASSUME NEW c, ConsInv(c), NEW k \in Keys, NEW v \in Values, NEW e \in Failed(c, k, v)
  PROVE  ConsInv(e)
<1>1. Good(c.keys_map, Keys) /\ Good(c.values_map, Values)
  BY DEF ConsInv
<1>2. CASE e \in KeyFails(c, k)
  <2>1. PICK m \in InsertFails(c.keys_map, k) : e = [c EXCEPT !.keys_map = m]
    BY <1>2 DEF KeyFails
  <2>2. Good(m, Keys)
    BY <1>1, InsertFailsGood, Constants
  <2> QED BY <2>1, <2>2, OtherFields
<1>3. CASE e \in ListNewFails(c, k)
  <2>1. KeyOk(c, k) /\ e = [c EXCEPT !.keys_map = Inserted(@, k)]
    BY <1>3 DEF ListNewFails
  <2>2. Good(Inserted(c.keys_map, k), Keys)
    BY <1>1, <2>1, InsertedGood, Constants DEF KeyOk
  <2>3. ConsInv([c EXCEPT !.keys_map = Inserted(c.keys_map, k)])
    BY <2>2, OtherFields
  <2> QED BY <2>1, <2>3
<1>4. CASE e \in ValueFails(c, k, v)
  <2>1. PICK m \in InsertFails(c.values_map, v) :
          KeyOk(c, k) /\ e = [WithKey(c, k) EXCEPT !.values_map = m]
    BY <1>4 DEF ValueFails
  <2>2. Good(m, Values) /\ m.keys = c.values_map.keys /\ ~Whole(m)
    BY <1>1, InsertFailsGood, Constants
  <2>3. ConsInv(WithKey(c, k)) /\ WithKey(c, k).values_map = c.values_map
    BY <2>1, WithKeyInv
  <2> QED BY <2>1, <2>2, <2>3, OtherValues
<1>5. CASE e \in AppendFails(c, k, v)
  <2> DEFINE d == WithValue(WithKey(c, k), v)
  <2>1. KeyOk(c, k) /\ ValueOk(c, v) /\ (e = d \/ e = [d EXCEPT !.frail = @ \cup {k}])
    BY <1>5 DEF AppendFails
  <2>2. ConsInv(d)
    BY <2>1, AddedInv
  <2> HIDE DEF d
  <2> QED BY <2>1, <2>2, OtherFields
<1> QED BY <1>2, <1>3, <1>4, <1>5 DEF Failed

\* So does one that stores NULL for a string, or finds no room for it.
LEMMA UnnamedInv ==
  ASSUME NEW c, ConsInv(c), NEW k \in Keys, NEW v \in Values, NEW e \in Unnamed(c, k, v)
  PROVE  ConsInv(e)
<1>1. Good(c.keys_map, Keys) /\ Good(c.values_map, Values) /\ c \in Constructors
  BY DEF ConsInv
<1>2. \/ /\ ValueOk(c, v)
         /\ \E m \in StringFails(c.keys_map, k) : e = WithValue([c EXCEPT !.keys_map = m], v)
      \/ /\ KeyOk(c, k)
         /\ \E m \in StringFails(c.values_map, v) :
              e = WithPair([WithKey(c, k) EXCEPT !.values_map = m], k, m.num)
  BY DEF Unnamed
<1>3. CASE /\ ValueOk(c, v)
           /\ \E m \in StringFails(c.keys_map, k) : e = WithValue([c EXCEPT !.keys_map = m], v)
  <2>1. PICK m \in StringFails(c.keys_map, k) : e = WithValue([c EXCEPT !.keys_map = m], v)
    BY <1>3
  <2> DEFINE d == [c EXCEPT !.keys_map = m]
  <2>2. Good(m, Keys)
    BY <1>1, StringFailsGood, Constants
  <2>3. ConsInv(d)
    BY <2>2, OtherFields
  <2>4. d.values_map = c.values_map /\ d.live = c.live
    BY <1>1 DEF Constructors
  <2>5. ValueOk(d, v)
    BY <1>3, <2>4 DEF ValueOk
  <2> HIDE DEF d
  <2> QED BY <2>1, <2>3, <2>5, WithValueInv DEF d
<1>4. CASE /\ KeyOk(c, k)
           /\ \E m \in StringFails(c.values_map, v) :
                e = WithPair([WithKey(c, k) EXCEPT !.values_map = m], k, m.num)
  <2>1. PICK m \in StringFails(c.values_map, v) :
          e = WithPair([WithKey(c, k) EXCEPT !.values_map = m], k, m.num)
    BY <1>4
  <2> DEFINE b == WithKey(c, k)  d == [b EXCEPT !.values_map = m]
  <2>2. Good(m, Values) /\ Longer(m, c.values_map, Nil)
    BY <1>1, StringFailsGood, Constants
  <2>3. ConsInv(b) /\ b.values_map = c.values_map /\ b.list[k] \in Lists
    BY <1>4, WithKeyInv
  <2> HIDE DEF b
  <2>4. ConsInv(d) /\ d.values_map = m /\ d.list = b.list
    BY <2>2, <2>3, OtherValues
  <2> HIDE DEF d
  <2>5. /\ m.num \in Ids
        /\ Whole(m) => m.num \in DOMAIN m.keys
    <3>1. m \in Map(Values) /\ c.values_map \in Map(Values)
      BY <1>1, <2>2 DEF Good
    <3>2. /\ m.num \in 0 .. MaxItems /\ c.values_map.num \in Nat /\ m.num = c.values_map.num + 1
          /\ DOMAIN m.keys = 1 .. Len(m.keys) /\ Len(m.keys) \in Nat
      BY <2>2, <3>1, Constants DEF Map, Longer
    <3> QED BY <3>2, Constants DEF Ids, Whole
  <2>6. ConsInv(WithPair(d, k, m.num))
    BY <2>3, <2>4, <2>5, WithPairInv
  <2> QED BY <2>1, <2>6 DEF b, d
<1> QED BY <1>2, <1>3, <1>4

LEMMA RefusedInv ==
  ASSUME NEW c, ConsInv(c), NEW k \in Keys, NEW v \in Values, NEW e \in Refused(c, k, v)
  PROVE  ConsInv(e)
<1>1. e = c \/ (KeyOk(c, k) /\ e = WithKey(c, k))
  BY DEF Refused
<1> QED BY <1>1, WithKeyInv
-----------------------------------------------------------------------------
(***************************************************************************)
(* Constructors none of whose allocations failed: every lookup is safe.    *)
(***************************************************************************)
CleanMap(m) == m.bad = {} /\ m.wild = {} /\ ~m.torn /\ Nil \notin Stored(m) /\ Whole(m)

Clean(c) == /\ CleanMap(c.keys_map) /\ CleanMap(c.values_map)
            /\ \A k \in Stored(c.keys_map) : c.list[k] # Nil
            /\ c.frail = {}

LEMMA CleanLookups ==
  ASSUME NEW m, CleanMap(m)
  PROVE  CursorSafe(m) /\ ItemsSafe(m) /\ \A s : LookupSafe(m, s) /\ ~InsertCrashes(m, s)
BY DEF CleanMap, CursorSafe, ItemsSafe, LookupSafe, InsertCrashes

LEMMA CleanInserted ==
  ASSUME NEW S \in SUBSET Strings, NEW m, Good(m, S), CleanMap(m), NEW s \in S, CanInsert(m, s)
  PROVE  /\ CleanMap(Inserted(m, s))
         /\ Stored(Inserted(m, s)) = Stored(m) \cup {s}
<1> DEFINE n == Inserted(m, s)
<1>1. Good(n, S) /\ (s \in Stored(m) => n = m) /\ (s \notin Stored(m) => Longer(n, m, s))
  BY InsertedGood
<1>2. m \in Map(S) /\ n \in Map(S)
  BY <1>1 DEF Good
<1>3. n.bad = m.bad /\ n.wild = m.wild /\ n.torn = m.torn
  BY <1>2 DEF Inserted, Map
<1> HIDE DEF n
<1>4. CASE s \in Stored(m)
  BY <1>1, <1>4 DEF n
<1>5. CASE s \notin Stored(m)
  <2>1. /\ n.num = m.num + 1 /\ Len(n.keys) = Len(m.keys) + 1
        /\ n.keys[Len(m.keys) + 1] = s
        /\ \A i \in DOMAIN m.keys : i \in DOMAIN n.keys /\ n.keys[i] = m.keys[i]
    BY <1>1, <1>5 DEF Longer
  <2>2. /\ Len(m.keys) \in Nat /\ DOMAIN m.keys = 1 .. Len(m.keys)
        /\ Len(n.keys) \in Nat /\ DOMAIN n.keys = 1 .. Len(n.keys)
    BY <1>2 DEF Map
  <2>3. Stored(n) \subseteq Stored(m) \cup {s}
    <3>1. ASSUME NEW i \in DOMAIN n.keys PROVE n.keys[i] \in Stored(m) \cup {s}
      <4>1. i \in DOMAIN m.keys \/ i = Len(m.keys) + 1
        BY <2>1, <2>2
      <4> QED BY <2>1, <4>1 DEF Stored, ToSet
    <3> QED BY <3>1 DEF Stored, ToSet
  <2>4. Stored(m) \cup {s} \subseteq Stored(n)
    <3>1. Len(m.keys) + 1 \in DOMAIN n.keys
      BY <2>1, <2>2
    <3> QED BY <2>1, <3>1 DEF Stored, ToSet
  <2>5. Nil # s
    BY Constants
  <2> QED BY <1>3, <2>1, <2>3, <2>4, <2>5 DEF CleanMap, Whole, n
<1> QED BY <1>4, <1>5

\* Adding to a clean constructor keeps it clean.
LEMMA CleanWithKey ==
  ASSUME NEW c, ConsInv(c), Clean(c), NEW k \in Keys, KeyOk(c, k)
  PROVE  Clean(WithKey(c, k))
<1> DEFINE d == WithKey(c, k)
<1>1. /\ d.keys_map = Inserted(c.keys_map, k) /\ d.values_map = c.values_map
      /\ d.frail = c.frail /\ d.list[k] \in Lists
      /\ d.list = [c.list EXCEPT ![k] = Ids0(@)]
  BY WithKeyInv
<1>2. /\ CleanMap(Inserted(c.keys_map, k))
      /\ Stored(Inserted(c.keys_map, k)) = Stored(c.keys_map) \cup {k}
  BY CleanInserted, Constants DEF ConsInv, Clean, KeyOk
<1> HIDE DEF d
<1>3. \A l : l # k /\ l \in Stored(c.keys_map) => d.list[l] # Nil
  <2>1. DOMAIN c.list = Keys
    BY DEF ConsInv, Constructors
  <2>2. \A l \in Stored(c.keys_map) : l \in Keys
    BY Constants DEF ConsInv, Good, Map, Stored, ToSet, Clean, CleanMap
  <2> QED BY <1>1, <2>1, <2>2 DEF Clean
<1>4. d.list[k] # Nil
  BY <1>1, Constants
<1> QED BY <1>1, <1>2, <1>3, <1>4 DEF Clean, d

LEMMA CleanAdded ==
  ASSUME NEW c, ConsInv(c), Clean(c), NEW k \in Keys, NEW v \in Values, KeyOk(c, k), ValueOk(c, v)
  PROVE  Clean(Added(c, k, v)) /\ Added(c, k, v).live = c.live
<1> DEFINE b == WithKey(c, k)  d == WithValue(b, v)  e == Added(c, k, v)
<1>1. /\ ConsInv(b) /\ ValueOk(b, v) /\ ConsInv(d) /\ d.list[k] \in Lists /\ d.id[v] \in Ids
      /\ Whole(d.values_map) => d.id[v] \in DOMAIN d.values_map.keys
      /\ e = WithPair(d, k, d.id[v])
  BY AddedInv
<1>2. Clean(b) /\ b.live = c.live
  BY CleanWithKey, WithKeyInv
<1> HIDE DEF b
<1>3. /\ d.values_map = Inserted(b.values_map, v) /\ d.keys_map = b.keys_map
      /\ d.frail = b.frail /\ d.list = b.list /\ d.live = b.live
  BY <1>1, WithValueInv
<1>4. CleanMap(Inserted(b.values_map, v))
  BY <1>1, <1>2, CleanInserted, Constants DEF ConsInv, Clean, ValueOk
<1> HIDE DEF d, e
<1>5. /\ e.keys_map = d.keys_map /\ e.values_map = d.values_map /\ e.frail = d.frail
      /\ e.live = d.live /\ e.list[k] \in Lists
      /\ e.list = [d.list EXCEPT ![k] = [d.list[k] EXCEPT ![d.id[v]] = @ + 1]]
  BY <1>1, WithPairInv
<1>6. DOMAIN d.list = Keys
  BY <1>1 DEF ConsInv, Constructors
<1>7. \A l \in Stored(b.keys_map) : l \in Keys
  BY <1>1, <1>2, Constants DEF ConsInv, Good, Map, Stored, ToSet, Clean, CleanMap
<1>8. \A l \in Stored(b.keys_map) : e.list[l] # Nil
  BY <1>2, <1>3, <1>5, <1>6, <1>7, Constants DEF Clean
<1> QED BY <1>2, <1>3, <1>4, <1>5, <1>8 DEF Clean, e

\* A clean constructor can be used, unless it was finalized.
LEMMA CleanIsSafe ==
  ASSUME NEW c, Clean(c)
  PROVE  /\ \A k \in Keys, v \in Values : AddUndefined(c, k, v) => ~c.live
         /\ ~FinalizeSafe(c) => ~c.live
         /\ FreeSafe(c)
<1>1. CleanMap(c.keys_map) /\ CleanMap(c.values_map)
  BY DEF Clean
<1>2. ASSUME NEW k \in Keys, NEW v \in Values, AddUndefined(c, k, v) PROVE ~c.live
  BY <1>1, <1>2, CleanLookups DEF AddUndefined, Clean
<1>3. FreeSafe(c)
  BY <1>1, CleanLookups DEF FreeSafe, Clean
<1>4. ~FinalizeSafe(c) => ~c.live
  BY <1>1, CleanLookups DEF FinalizeSafe, ListsFound, KeysFound, Clean, CleanMap, Whole
<1> QED BY <1>2, <1>3, <1>4

\* What finalize writes can be read.
LEMMA PackedReadings ==
  ASSUME NEW c, ConsInv(c), FinalizeSafe(c), NEW unique \in BOOLEAN, NEW order \in Orders(c)
  PROVE  LET d == Packed(c, order, unique) IN
           /\ Readings(d)
           /\ Whole(c.values_map) => Readable(d)
<1> DEFINE d == Packed(c, order, unique)  ks == c.keys_map.keys  post == Post(c, unique)
<1>1. /\ d.keys = order /\ d.post = post /\ d.vals = c.values_map.keys
      /\ DOMAIN post = Stored(c.keys_map)
  BY DEF Packed, Post
<1>2. /\ c.list \in [Keys -> Lists \cup {Nil}] /\ ks \in Seq(Keys \cup {Nil})
      /\ c.values_map.keys \in Seq(Values \cup {Nil})
  BY DEF ConsInv, Constructors, Map
<1>3. Nil \notin Stored(c.keys_map) /\ Nil \notin Stored(c.values_map)
  BY DEF FinalizeSafe, ListsFound, KeysFound, ItemsSafe, CursorSafe
<1>4. ks \in Seq(Keys)
  BY <1>2, <1>3 DEF Stored, ToSet
<1>5. c.values_map.keys \in Seq(Values)
  BY <1>2, <1>3 DEF Stored, ToSet
<1>6. Stored(c.keys_map) \subseteq Keys
  BY <1>4 DEF Stored, ToSet
<1>7. order \in Seq(Keys) /\ ToSet(order) = Stored(c.keys_map)
  <2>1. order = ks \/ (order \in [1 .. Len(ks) -> ToSet(ks)] /\ ToSet(order) = ToSet(ks))
    BY DEF Orders
  <2>2. CASE order = ks
    BY <1>4, <2>2 DEF Stored
  <2>3. CASE order \in [1 .. Len(ks) -> ToSet(ks)] /\ ToSet(order) = ToSet(ks)
    <3>1. ToSet(ks) \subseteq Keys /\ Len(ks) \in Nat
      BY <1>4, <1>6 DEF Stored
    <3>2. order \in [1 .. Len(ks) -> Keys]
      BY <2>3, <3>1
    <3> QED BY <2>3, <3>1, <3>2 DEF Stored
  <2> QED BY <2>1, <2>2, <2>3
<1>8. ASSUME NEW k \in Stored(c.keys_map)
      PROVE  /\ c.list[k] \in Lists /\ post[k] \in Lists
             /\ \A i \in Ids : post[k][i] > 0 => c.list[k][i] > 0
  <2>1. c.list[k] \in Lists
    BY <1>2, <1>6, <1>8 DEF FinalizeSafe, ListsFound, KeysFound
  <2>2. Dedup(c.list[k]) \in Lists /\ \A i \in Ids : Dedup(c.list[k])[i] > 0 => c.list[k][i] > 0
    BY <2>1, Constants DEF Dedup, Lists
  <2>3. post[k] = IF unique THEN Dedup(c.list[k]) ELSE c.list[k]
    BY <1>8 DEF Post
  <2> QED BY <2>1, <2>2, <2>3
<1> HIDE DEF post, d
<1>9. Readings(d)
  BY <1>1, <1>5, <1>7, <1>8 DEF Readings
<1>10. ASSUME Whole(c.values_map) PROVE Readable(d)
  <2>1. Placed(c)
    BY <1>10 DEF ConsInv
  <2>2. \A k \in Stored(c.keys_map) : Ids0(c.list[k]) = c.list[k]
    BY <1>8, Constants DEF Ids0
  <2> QED BY <1>1, <1>6, <1>8, <2>1, <2>2 DEF Placed, Readable
<1> QED BY <1>9, <1>10 DEF d
-----------------------------------------------------------------------------
(***************************************************************************)
(* The inductive invariant: the types, ids at their places, a copy that    *)
(* has a string for every id still to come, and without failures a         *)
(* constructor and a database in which every lookup is safe.               *)
(***************************************************************************)
CopyInv == state = "copying" =>
             /\ cons.live
             /\ \A k \in Keys, i \in Ids : left[k][i] > 0 => i \in DOMAIN db.vals

CleanInv == failures = 0 => Clean(cons) /\ Readable(db)

IInv == TypeOK /\ ConsInv(cons) /\ CopyInv /\ CleanInv /\ CrashNeedsFailure

LEMMA InitInv == Init => IInv
<1> SUFFICES ASSUME Init PROVE IInv
  OBVIOUS
<1>1. ConsInv(cons) /\ cons \in Constructors
  BY NewConsInv DEF Init, ConsInv
<1>2. Readings(db) /\ Readable(db)
  <2>1. db.keys = <<>> /\ db.vals = <<>> /\ DOMAIN db.post = {}
    BY DEF Init, EmptyDb
  <2> QED BY <2>1 DEF Readings, Readable, ToSet
<1>3. Clean(cons)
  <2>1. EmptyMap.keys = <<>> /\ Stored(EmptyMap) = {} /\ CleanMap(EmptyMap)
    BY DEF EmptyMap, Stored, ToSet, CleanMap, Whole
  <2> QED BY <2>1 DEF Init, NewCons, Clean
<1>4. TypeOK
  BY <1>1, <1>2, Constants DEF Init, TypeOK
<1> QED BY <1>1, <1>2, <1>3, <1>4 DEF Init, IInv, CopyInv, CleanInv, CrashNeedsFailure

\* A step that changes the constructor alone, or its allocations failing.
LEMMA ConsStep ==
  ASSUME IInv, state # "copying", state' = state, db' = db, left' = left, ConsInv(cons'),
         \/ failures' = failures /\ (failures = 0 => Clean(cons')) /\ state # "undefined"
         \/ MayFail /\ failures' = failures + 1
  PROVE  IInv'
<1>1. cons' \in Constructors
  BY DEF ConsInv
<1>2. failures' \in 0 .. MaxFailures /\ (failures' = 0 => failures = 0 /\ failures' = failures)
  BY Constants DEF IInv, TypeOK, MayFail
<1>3. TypeOK'
  BY <1>1, <1>2 DEF IInv, TypeOK, Readings
<1>4. CleanInv' /\ CrashNeedsFailure'
  BY <1>2, Constants DEF IInv, TypeOK, MayFail, CleanInv, CrashNeedsFailure, Readable
<1> QED BY <1>3, <1>4 DEF IInv, CopyInv

\* A step that ends where nothing is defined.
LEMMA LostStep ==
  ASSUME IInv, NEW n \in {0, 1}, Lost(n), failures + n <= MaxFailures,
         n = 0 /\ failures = 0 => Again /\ ~cons.live
  PROVE  IInv'
<1>1. failures \in Nat /\ failures' = failures + n
  BY Constants DEF IInv, TypeOK, Lost
<1>2. TypeOK'
  BY <1>1, Constants DEF IInv, TypeOK, Lost, Readings
<1> QED BY <1>1, <1>2 DEF IInv, Lost, CopyInv, CleanInv, CrashNeedsFailure, Readable

\* Crashes(k, v) in a state that satisfies the invariant.
LEMMA CrashStep ==
  ASSUME IInv, NEW k \in Keys, NEW v \in Values, Crashes(k, v), cons.live \/ Again
  PROVE  IInv'
<1>1. failures \in 0 .. MaxFailures /\ (failures = 0 => Clean(cons))
  BY DEF IInv, TypeOK, CleanInv
<1>2. CASE AddUndefined(cons, k, v) /\ Lost(0)
  <2>1. failures = 0 => Again /\ ~cons.live
    BY <1>1, <1>2, CleanIsSafe
  <2>2. failures + 0 <= MaxFailures
    BY <1>1, Constants
  <2> QED BY <1>2, <2>1, <2>2, LostStep
<1>3. CASE MayFail /\ LeavesFail(cons, k, v) /\ Lost(1)
  <2>1. failures + 1 <= MaxFailures
    BY <1>1, <1>3, Constants DEF MayFail
  <2> QED BY <1>3, <2>1, LostStep
<1> QED BY <1>2, <1>3 DEF Crashes

LEMMA AddingInv == IInv /\ Adding => IInv'
<1> SUFFICES ASSUME IInv, Adding PROVE IInv'
  OBVIOUS
<1>1. ConsInv(cons) /\ CleanInv
  BY DEF IInv
<1>2. ASSUME NEW k \in Keys, AddKey(k) PROVE IInv'
  <2>1. /\ KeyOk(cons, k) /\ cons' = WithKey(cons, k) /\ state = "open"
        /\ UNCHANGED <<state, db, left, failures>>
    BY <1>2 DEF AddKey, Becomes, Usable
  <2>2. ConsInv(cons') /\ (failures = 0 => Clean(cons'))
    BY <1>1, <2>1, WithKeyInv, CleanWithKey DEF CleanInv
  <2> QED BY <2>1, <2>2, ConsStep
<1>3. ASSUME NEW k \in Keys, NEW v \in Values, AddPair(k, v) PROVE IInv'
  <2>1. /\ KeyOk(cons, k) /\ ValueOk(cons, v) /\ cons' = Added(cons, k, v) /\ state = "open"
        /\ UNCHANGED <<state, db, left, failures>>
    BY <1>3 DEF AddPair, Becomes, Usable
  <2>2. ConsInv(cons') /\ (failures = 0 => Clean(cons'))
    BY <1>1, <2>1, AddedInv, CleanAdded DEF CleanInv
  <2> QED BY <2>1, <2>2, ConsStep
<1>4. ASSUME NEW k \in Keys, NEW v \in Values, AddRefused(k, v) PROVE IInv'
  <2>1. PICK c \in Refused(cons, k, v) : Becomes(c) /\ state = "open"
    BY <1>4 DEF AddRefused, Usable
  <2>2. cons' = c /\ UNCHANGED <<state, db, left, failures>>
    BY <2>1 DEF Becomes
  <2>3. ConsInv(c)
    BY <1>1, RefusedInv
  <2>4. c = cons \/ (KeyOk(cons, k) /\ c = WithKey(cons, k))
    BY DEF Refused
  <2>5. failures = 0 => Clean(c)
    BY <1>1, <2>4, CleanWithKey DEF CleanInv
  <2> QED BY <2>1, <2>2, <2>3, <2>5, ConsStep
<1>5. ASSUME NEW k \in Keys, NEW v \in Values, AddFails(k, v) PROVE IInv'
  <2>1. PICK c \in Failed(cons, k, v) : FailsTo(c) /\ state = "open"
    BY <1>5 DEF AddFails, Usable
  <2>2. ConsInv(c)
    BY <1>1, FailedInv
  <2> QED BY <2>1, <2>2, ConsStep DEF FailsTo
<1>6. ASSUME NEW k \in Keys, NEW v \in Values, AddUnnamed(k, v) PROVE IInv'
  <2>1. PICK c \in Unnamed(cons, k, v) : FailsTo(c) /\ state = "open"
    BY <1>6 DEF AddUnnamed, Usable
  <2>2. ConsInv(c)
    BY <1>1, UnnamedInv
  <2> QED BY <2>1, <2>2, ConsStep DEF FailsTo
<1>7. ASSUME NEW k \in Keys, NEW v \in Values, AddCrashes(k, v) PROVE IInv'
  BY <1>7, CrashStep DEF AddCrashes, Usable
<1> QED BY <1>2, <1>3, <1>4, <1>5, <1>6, <1>7 DEF Adding

\* Where nothing changes the invariant stays.
LEMMA StepKept == IInv /\ UNCHANGED vars => IInv'
BY DEF vars, IInv, TypeOK, CopyInv, CleanInv, CrashNeedsFailure, Readings, Readable

LEMMA FinalizingInv == IInv /\ Finalizing => IInv'
<1> SUFFICES ASSUME IInv, Finalizing PROVE IInv'
  OBVIOUS
<1>1. ConsInv(cons) /\ CleanInv
  BY DEF IInv
<1>2. /\ ConsInv([cons EXCEPT !.live = FALSE])
      /\ Clean(cons) => Clean([cons EXCEPT !.live = FALSE])
  <2>1. cons \in Constructors
    BY DEF IInv, TypeOK
  <2> DEFINE d == [cons EXCEPT !.live = FALSE]
  <2>2. /\ d.keys_map = cons.keys_map /\ d.values_map = cons.values_map
        /\ d.list = cons.list /\ d.frail = cons.frail
    BY <2>1 DEF Constructors
  <2> HIDE DEF d
  <2> QED BY <1>1, <2>2, OtherFields DEF Clean, d
<1>3. ASSUME NEW unique \in BOOLEAN, Finalize(unique) PROVE IInv'
  <2>1. /\ state = "open" /\ FinalizeSafe(cons)
        /\ cons' = [cons EXCEPT !.live = FALSE] /\ UNCHANGED <<state, left, failures>>
    BY <1>3 DEF Finalize, Usable
  <2>2. PICK order \in Orders(cons) : db' = Packed(cons, order, unique)
    BY <1>3 DEF Finalize
  <2>3. /\ Readings(db')
        /\ Whole(cons.values_map) => Readable(db')
    BY <1>1, <2>1, <2>2, PackedReadings
  <2>4. CleanInv'
    BY <1>1, <1>2, <2>1, <2>3 DEF CleanInv, Clean, CleanMap
  <2>5. ConsInv(cons') /\ cons' \in Constructors
    BY <1>2, <2>1 DEF ConsInv
  <2>6. TypeOK'
    BY <2>1, <2>3, <2>5 DEF IInv, TypeOK, Readings
  <2> QED BY <2>1, <2>4, <2>5, <2>6 DEF IInv, CopyInv, CrashNeedsFailure
<1>4. ASSUME FinalizeFails PROVE IInv'
  <2>1. PICK c \in {cons, [cons EXCEPT !.live = FALSE]} : FailsTo(c) /\ state = "open"
    BY <1>4 DEF FinalizeFails, Usable
  <2>2. ConsInv(c)
    BY <1>1, <1>2
  <2> QED BY <2>1, <2>2, ConsStep DEF FailsTo
<1>5. ASSUME FinalizeCrashes PROVE IInv'
  <2>1. Lost(0) /\ ~FinalizeSafe(cons) /\ (cons.live \/ Again)
    BY <1>5 DEF FinalizeCrashes, Usable
  <2>2. failures = 0 => Again /\ ~cons.live
    BY <1>1, <2>1, CleanIsSafe DEF CleanInv
  <2>3. failures + 0 <= MaxFailures
    BY Constants DEF IInv, TypeOK
  <2> QED BY <2>1, <2>2, <2>3, LostStep
<1>6. ASSUME FinalizeRefused PROVE IInv'
  BY <1>6, StepKept DEF FinalizeRefused
<1> QED BY <1>3, <1>4, <1>5, <1>6 DEF Finalizing

LEMMA FreeInv == IInv /\ Free => IInv'
<1> SUFFICES ASSUME IInv, Free PROVE IInv'
  OBVIOUS
<1>1. /\ UNCHANGED <<cons, db, left, failures>>
      /\ state' = IF FreeSafe(cons) THEN "freed" ELSE "undefined"
  BY DEF Free
<1>2. failures = 0 => FreeSafe(cons)
  BY CleanIsSafe DEF IInv, CleanInv
<1>3. TypeOK'
  BY <1>1 DEF IInv, TypeOK, Readings
<1> QED BY <1>1, <1>2, <1>3 DEF IInv, CopyInv, CleanInv, CrashNeedsFailure, Readable

\* The pair at the cursors has a key and a value, and it is one less to come.
LEMMA PairAtCursors ==
  ASSUME IInv, NEW n \in Ids, NEW i \in Ids, AtPair(n, i)
  PROVE  /\ db.keys[n] \in Keys /\ db.vals[i] \in Values /\ cons.live
         /\ Passed(db.keys[n], i) =>
              /\ left' \in [Keys -> Lists]
              /\ \A k \in Keys, j \in Ids : left'[k][j] > 0 => left[k][j] > 0
<1> DEFINE k == db.keys[n]
<1>1. /\ Readings(db) /\ left \in [Keys -> Lists] /\ n \in DOMAIN db.keys /\ left[k][i] > 0
      /\ state = "copying"
  BY DEF IInv, TypeOK, AtPair
<1>2. k \in Keys
  BY <1>1 DEF Readings
<1>3. cons.live /\ i \in DOMAIN db.vals
  BY <1>1, <1>2 DEF IInv, CopyInv
<1>4. db.vals[i] \in Values
  BY <1>1, <1>3 DEF Readings
<1> HIDE DEF k
<1>5. ASSUME Passed(k, i)
      PROVE  /\ left' \in [Keys -> Lists]
             /\ \A l \in Keys, j \in Ids : left'[l][j] > 0 => left[l][j] > 0
  <2> DEFINE new == [left[k] EXCEPT ![i] = @ - 1]
  <2>1. left' = [left EXCEPT ![k] = new]
    BY <1>5 DEF Passed
  <2>2. left[k] \in Lists /\ left[k][i] \in Nat
    BY <1>1, <1>2 DEF Lists
  <2>3. new \in Lists /\ \A j \in Ids : new[j] > 0 => left[k][j] > 0
    BY <1>1, <2>2 DEF Lists
  <2> HIDE DEF new
  <2>4. left' \in [Keys -> Lists]
    BY <1>1, <2>1, <2>3
  <2>5. \A l \in Keys : left'[l] = IF l = k THEN new ELSE left[l]
    BY <1>1, <2>1
  <2> QED BY <2>3, <2>4, <2>5
<1> QED BY <1>2, <1>3, <1>4, <1>5 DEF k

\* Adding a pair, also one with NULL for a string, keeps the values there.
LEMMA AddedIsLive ==
  ASSUME NEW c, ConsInv(c), c.live, NEW k \in Keys, NEW v \in Values, NEW e \in Unnamed(c, k, v)
  PROVE  e.live
<1>1. c \in Constructors
  BY DEF ConsInv
<1>2. \A m : [c EXCEPT !.keys_map = m].live
  BY <1>1 DEF Constructors
<1>3. \A d : d \in {[c EXCEPT !.keys_map = m] : m \in StringFails(c.keys_map, k)} =>
              WithValue(d, v).live
  <2>1. ASSUME NEW m PROVE WithValue([c EXCEPT !.keys_map = m], v).live
    BY <1>1 DEF WithValue, Constructors
  <2> QED BY <2>1
<1>4. ASSUME NEW m PROVE WithPair([WithKey(c, k) EXCEPT !.values_map = m], k, m.num).live
  BY <1>1 DEF WithPair, WithKey, Constructors
<1> QED BY <1>3, <1>4 DEF Unnamed

LEMMA CopyingInv == IInv /\ Copying => IInv'
<1> SUFFICES ASSUME IInv, Copying PROVE IInv'
  OBVIOUS
<1>1. /\ ConsInv(cons) /\ CleanInv /\ TypeOK /\ failures \in 0 .. MaxFailures
      /\ left \in [Keys -> Lists] /\ Readings(db)
  BY DEF IInv, TypeOK
<1>2. ASSUME CopyBegin PROVE IInv'
  <2>1. /\ cons' = NewCons /\ UNCHANGED <<db, failures>>
        /\ state' = IF Readable(db) THEN "copying" ELSE "undefined"
        /\ left' = [k \in Keys |-> IF k \in DOMAIN db.post THEN db.post[k] ELSE NoIds]
    BY <1>2 DEF CopyBegin
  <2>2. ConsInv(cons') /\ cons' \in Constructors /\ cons'.live
    BY <2>1, NewConsInv DEF ConsInv, NewCons
  <2>3. Clean(cons')
    <3>1. EmptyMap.keys = <<>> /\ Stored(EmptyMap) = {} /\ CleanMap(EmptyMap)
      BY DEF EmptyMap, Stored, ToSet, CleanMap, Whole
    <3> QED BY <2>1, <3>1 DEF NewCons, Clean
  <2>4. left' \in [Keys -> Lists]
    BY <1>1, <2>1, Constants DEF Readings
  <2>5. TypeOK'
    BY <1>1, <2>1, <2>2, <2>4 DEF TypeOK, Readings
  <2>6. CopyInv'
    <3>1. ASSUME Readable(db), NEW k \in Keys, NEW i \in Ids, left'[k][i] > 0
          PROVE  i \in DOMAIN db.vals
      BY <2>1, <3>1, Constants DEF Readable
    <3> QED BY <2>1, <2>2, <3>1 DEF CopyInv
  <2>7. CleanInv' /\ CrashNeedsFailure'
    BY <1>1, <2>1, <2>3 DEF CleanInv, CrashNeedsFailure, Readable
  <2> QED BY <2>2, <2>5, <2>6, <2>7 DEF IInv
<1>3. ASSUME CopyEnd PROVE IInv'
  <2>1. state' = "open" /\ UNCHANGED <<cons, db, left, failures>>
    BY <1>3 DEF CopyEnd
  <2> QED BY <1>1, <2>1 DEF IInv, TypeOK, CopyInv, CleanInv, CrashNeedsFailure, Readings, Readable
<1>4. ASSUME NEW n \in Ids, NEW i \in Ids, CopyPair(n, i) PROVE IInv'
  <2> DEFINE k == db.keys[n]  v == db.vals[i]
  <2>1. /\ AtPair(n, i) /\ KeyOk(cons, k) /\ ValueOk(cons, v) /\ cons' = Added(cons, k, v)
        /\ Passed(k, i) /\ UNCHANGED <<state, db, failures>> /\ state = "copying"
    BY <1>4 DEF CopyPair, AtPair
  <2>2. /\ k \in Keys /\ v \in Values /\ cons.live /\ left' \in [Keys -> Lists]
        /\ \A l \in Keys, j \in Ids : left'[l][j] > 0 => left[l][j] > 0
    BY <2>1, PairAtCursors
  <2> HIDE DEF k, v
  <2>3. ConsInv(cons') /\ (failures = 0 => Clean(cons')) /\ cons'.live
    <3>1. Added(cons, k, v).live
      BY <1>1, <2>2 DEF Added, WithPair, WithValue, WithKey, ConsInv, Constructors
    <3> QED BY <1>1, <2>1, <2>2, <3>1, AddedInv, CleanAdded DEF CleanInv
  <2>4. TypeOK'
    BY <1>1, <2>1, <2>2, <2>3 DEF TypeOK, Readings, ConsInv
  <2>5. CopyInv'
    BY <2>1, <2>2, <2>3 DEF IInv, CopyInv
  <2>6. CleanInv' /\ CrashNeedsFailure'
    BY <1>1, <2>1, <2>3 DEF CleanInv, CrashNeedsFailure, Readable
  <2> QED BY <2>3, <2>4, <2>5, <2>6 DEF IInv
<1>5. ASSUME NEW n \in Ids, NEW i \in Ids, CopyUnnamed(n, i) PROVE IInv'
  <2> DEFINE k == db.keys[n]  v == db.vals[i]
  <2>1. /\ AtPair(n, i) /\ MayFail /\ cons' \in Unnamed(cons, k, v)
        /\ Passed(k, i) /\ failures' = failures + 1 /\ UNCHANGED <<state, db>>
        /\ state = "copying"
    BY <1>5 DEF CopyUnnamed, AtPair
  <2>2. /\ k \in Keys /\ v \in Values /\ cons.live /\ left' \in [Keys -> Lists]
        /\ \A l \in Keys, j \in Ids : left'[l][j] > 0 => left[l][j] > 0
    BY <2>1, PairAtCursors
  <2> HIDE DEF k, v
  <2>3. ConsInv(cons') /\ cons'.live
    BY <1>1, <2>1, <2>2, UnnamedInv, AddedIsLive
  <2>4. failures' \in 0 .. MaxFailures /\ failures' # 0
    BY <1>1, <2>1, Constants DEF MayFail
  <2>5. TypeOK'
    BY <1>1, <2>1, <2>2, <2>3, <2>4 DEF TypeOK, Readings, ConsInv
  <2>6. CopyInv'
    BY <2>1, <2>2, <2>3 DEF IInv, CopyInv
  <2> QED BY <2>3, <2>4, <2>5, <2>6 DEF IInv, CleanInv, CrashNeedsFailure
<1>6. ASSUME NEW n \in Ids, NEW i \in Ids, CopyFails(n, i) PROVE IInv'
  <2>1. /\ MayFail /\ failures' = failures + 1 /\ UNCHANGED <<cons, db, left>>
        /\ state' \in {"freed", "undefined"}
    BY <1>6 DEF CopyFails
  <2>2. failures' \in 0 .. MaxFailures /\ failures' # 0
    BY <1>1, <2>1, Constants DEF MayFail
  <2>3. TypeOK'
    BY <1>1, <2>1, <2>2 DEF TypeOK, Readings
  <2> QED BY <1>1, <2>1, <2>2, <2>3 DEF IInv, CopyInv, CleanInv, CrashNeedsFailure
<1>7. ASSUME NEW n \in Ids, NEW i \in Ids, CopyCrashes(n, i) PROVE IInv'
  <2>1. AtPair(n, i) /\ Crashes(db.keys[n], db.vals[i])
    BY <1>7 DEF CopyCrashes
  <2> QED BY <2>1, PairAtCursors, CrashStep
<1> QED BY <1>2, <1>3, <1>4, <1>5, <1>6, <1>7 DEF Copying

\* The invariant is inductive.
LEMMA StepInv == IInv /\ [Next]_vars => IInv'
<1>1. IInv /\ UNCHANGED vars => IInv'
  BY StepKept
<1> QED BY <1>1, AddingInv, FinalizingInv, FreeInv, CopyingInv DEF Next

(***************************************************************************)
(* For every set of keys and values, every size of the maps and any number *)
(* of failed allocations the id of a value is the place of its string, as  *)
(* long as no insertion of a value failed half-way (ddb_cons_add).         *)
(***************************************************************************)
THEOREM ConstructorIds == Spec => []IdsArePositions
<1>1. IInv => IdsArePositions
  BY DEF IInv, ConsInv, IdsArePositions
<1> QED BY <1>1, InitInv, StepInv, PTL DEF Spec

(***************************************************************************)
(* Undefined behaviour of ddb_cons_add, ddb_cons_finalize, ddb_cons_free   *)
(* or ddb_cons_ddb needs a failed allocation, or a constructor that is     *)
(* used after it was finalized.                                            *)
(***************************************************************************)
THEOREM ConstructorCrashes == Spec => [](TypeOK /\ CrashNeedsFailure)
<1>1. IInv => TypeOK /\ CrashNeedsFailure
  BY DEF IInv
<1> QED BY <1>1, InitInv, StepInv, PTL DEF Spec

-----------------------------------------------------------------------------
(***************************************************************************)
(* A constructor is a multimap as long as no allocation fails, and a copy  *)
(* has the pairs of the database it is made from.                          *)
(***************************************************************************)
\* Only keys that are there have lists.
Listed(c) == \A k \in Keys : c.list[k] # Nil => k \in Stored(c.keys_map)

LEMMA PairsValue ==
  ASSUME NEW c, NEW k \in Keys, NEW v \in Values
  PROVE  PairsOf(c)[k][v] = IF c.list[k] = Nil \/ c.id[v] = 0 THEN 0 ELSE c.list[k][c.id[v]]
BY DEF PairsOf

\* A key without values adds no pair.
LEMMA WithKeyPairs ==
  ASSUME NEW c, ConsInv(c), Clean(c), Listed(c), NEW k \in Keys, KeyOk(c, k)
  PROVE  LET d == WithKey(c, k) IN
           /\ PairsOf(d) = PairsOf(c)
           /\ Stored(d.keys_map) = Stored(c.keys_map) \cup {k}
           /\ Listed(d)
<1> DEFINE d == WithKey(c, k)
<1>1. /\ d.keys_map = Inserted(c.keys_map, k) /\ d.id = c.id
      /\ d.list = [c.list EXCEPT ![k] = Ids0(@)]
  BY WithKeyInv
<1>2. Stored(d.keys_map) = Stored(c.keys_map) \cup {k}
  BY <1>1, CleanInserted, Constants DEF ConsInv, Clean, KeyOk
<1>3. c.list \in [Keys -> Lists \cup {Nil}] /\ c.id \in [Values -> {0} \cup Ids]
  BY DEF ConsInv, Constructors
<1> HIDE DEF d
<1>4. \A l \in Keys : d.list[l] = IF l = k THEN Ids0(c.list[k]) ELSE c.list[l]
  BY <1>1, <1>3
<1>5. Listed(d)
  BY <1>2, <1>4 DEF Listed
<1>6. ASSUME NEW l \in Keys, NEW v \in Values PROVE PairsOf(d)[l][v] = PairsOf(c)[l][v]
  <2>1. c.id[v] = 0 \/ NoIds[c.id[v]] = 0
    BY <1>3, Constants
  <2>2. PairsOf(d)[l][v] = IF d.list[l] = Nil \/ d.id[v] = 0 THEN 0 ELSE d.list[l][d.id[v]]
    BY PairsValue
  <2>3. d.id = c.id
    BY <1>1
  <2>4. CASE l = k /\ c.list[k] = Nil
    <3>1. d.list[l] = NoIds /\ NoIds # Nil
      BY <1>4, <2>4, Constants DEF Ids0
    <3>2. PairsOf(d)[l][v] = IF c.id[v] = 0 THEN 0 ELSE NoIds[c.id[v]]
      BY <2>2, <2>3, <3>1
    <3>3. PairsOf(c)[l][v] = 0
      BY <2>4, PairsValue
    <3> QED BY <2>1, <3>2, <3>3
  <2>5. CASE ~(l = k /\ c.list[k] = Nil)
    <3>1. d.list[l] = c.list[l]
      BY <1>4, <2>5 DEF Ids0
    <3> QED BY <2>2, <2>3, <3>1, PairsValue
  <2> QED BY <2>4, <2>5
<1>7. PairsOf(d) = PairsOf(c)
  BY <1>6 DEF PairsOf
<1> QED BY <1>2, <1>5, <1>7 DEF d

\* An added pair is counted once more, and no other is.
LEMMA AddedPairs ==
  ASSUME NEW c, ConsInv(c), Clean(c), Listed(c), NEW k \in Keys, NEW v \in Values,
         KeyOk(c, k), ValueOk(c, v)
  PROVE  LET e == Added(c, k, v) IN
           /\ PairsOf(e) = [PairsOf(c) EXCEPT ![k][v] = @ + 1]
           /\ Stored(e.keys_map) = Stored(c.keys_map) \cup {k}
           /\ Listed(e)
<1> DEFINE b == WithKey(c, k)  d == WithValue(b, v)  i == d.id[v]  e == Added(c, k, v)
<1>1. /\ ConsInv(b) /\ ValueOk(b, v) /\ ConsInv(d) /\ d.list[k] \in Lists /\ i \in Ids
      /\ Whole(d.values_map) => i \in DOMAIN d.values_map.keys
      /\ e = WithPair(d, k, i) /\ ConsInv(e)
  BY AddedInv
<1>2. Clean(b) /\ Clean(e)
  BY CleanWithKey, CleanAdded
<1>3. PairsOf(b) = PairsOf(c) /\ Stored(b.keys_map) = Stored(c.keys_map) \cup {k} /\ Listed(b)
  BY WithKeyPairs
<1> HIDE DEF b
<1>4. /\ d.keys_map = b.keys_map /\ d.list = b.list /\ d.values_map = Inserted(b.values_map, v)
      /\ \A w \in Values : w # v => d.id[w] = b.id[w]
      /\ b.id[v] # 0 => i = b.id[v]
      /\ Whole(d.values_map) => d.values_map.keys[i] = v
  BY <1>1, WithValueInv
<1> HIDE DEF d
<1>5. /\ e.keys_map = d.keys_map /\ e.values_map = d.values_map /\ e.id = d.id
      /\ e.list = [d.list EXCEPT ![k] = [d.list[k] EXCEPT ![i] = @ + 1]]
  BY <1>1, WithPairInv
<1> HIDE DEF e
<1>6. Whole(e.values_map) /\ Whole(b.values_map)
  BY <1>2 DEF Clean, CleanMap
<1>7. /\ d.list \in [Keys -> Lists \cup {Nil}] /\ d.id \in [Values -> {0} \cup Ids]
      /\ b.id \in [Values -> {0} \cup Ids]
  BY <1>1 DEF ConsInv, Constructors
<1>8. \A l \in Keys : l # k => e.list[l] = d.list[l]
  BY <1>5, <1>7
<1>9. /\ e.list[k] \in Lists /\ e.list[k][i] = d.list[k][i] + 1 /\ d.list[k][i] \in Nat
      /\ \A j \in Ids : j # i => e.list[k][j] = d.list[k][j]
  BY <1>1, <1>5, <1>7 DEF Lists
<1>10. d.list[k] # Nil /\ e.list[k] # Nil
  BY <1>1, <1>9, Constants
\* Until now no list had the id of a value that is new.
<1>11. ASSUME b.id[v] = 0, NEW l \in Keys, d.list[l] # Nil PROVE d.list[l][i] = 0
  <2>1. Placed(b) /\ Good(b.values_map, Values)
    BY <1>1, <1>6 DEF ConsInv
  <2>2. v \notin Stored(b.values_map)
    BY <1>1, <1>11 DEF ConsInv, Numbered
  <2>3. i \notin DOMAIN b.values_map.keys
    <3>1. Longer(d.values_map, b.values_map, v)
      BY <1>1, <1>4, <2>1, <2>2, InsertedGood, Constants DEF ValueOk
    <3>2. \A j \in DOMAIN b.values_map.keys : d.values_map.keys[j] = b.values_map.keys[j]
      BY <3>1 DEF Longer
    <3>3. d.values_map.keys[i] = v
      BY <1>4, <1>5, <1>6
    <3> QED BY <2>2, <3>2, <3>3 DEF Stored, ToSet
  <2>4. ~(Ids0(b.list[l])[i] > 0)
    BY <1>1, <2>1, <2>3 DEF Placed
  <2>5. d.list[l] \in Lists /\ Ids0(b.list[l]) = d.list[l]
    BY <1>4, <1>7, <1>11 DEF Ids0
  <2> QED BY <1>1, <2>4, <2>5 DEF Lists
\* The ids of two values differ.
<1>12. ASSUME NEW w \in Values, w # v, b.id[w] # 0 PROVE b.id[w] # i
  <2>1. Placed(e)
    BY <1>1, <1>6 DEF ConsInv
  <2>2. e.id[w] = b.id[w] /\ e.id[v] = i /\ i # 0
    BY <1>1, <1>4, <1>5, <1>12, Constants
  <2>3. e.values_map.keys[e.id[w]] = w /\ e.values_map.keys[e.id[v]] = v
    BY <1>12, <2>1, <2>2 DEF Placed
  <2> QED BY <1>12, <2>2, <2>3
<1>13. ASSUME NEW l \in Keys, NEW w \in Values
       PROVE  PairsOf(e)[l][w] = IF l = k /\ w = v THEN PairsOf(b)[l][w] + 1 ELSE PairsOf(b)[l][w]
  <2>1. CASE w # v
    <3>1. e.id[w] = b.id[w] /\ (b.id[w] # 0 => b.id[w] # i /\ b.id[w] \in Ids)
      BY <1>4, <1>5, <1>7, <1>12, <2>1
    <3>2. CASE l = k
      BY <1>4, <1>9, <1>10, <2>1, <3>1, <3>2, PairsValue
    <3>3. CASE l # k
      BY <1>4, <1>8, <2>1, <3>1, <3>3, PairsValue
    <3> QED BY <3>2, <3>3
  <2>2. CASE w = v
    <3>1. e.id[v] = i /\ i # 0
      BY <1>1, <1>5, Constants
    <3>2. b.list[l] # Nil => PairsOf(b)[l][v] = b.list[l][i]
      BY <1>4, <1>11, PairsValue
    <3>3. CASE l = k
      BY <1>4, <1>9, <1>10, <2>2, <3>1, <3>2, <3>3, PairsValue
    <3>4. CASE l # k
      BY <1>4, <1>8, <2>2, <3>1, <3>2, <3>4, PairsValue
    <3> QED BY <3>3, <3>4
  <2> QED BY <2>1, <2>2
<1>14. PairsOf(e) = [PairsOf(b) EXCEPT ![k] = [PairsOf(b)[k] EXCEPT ![v] = @ + 1]]
  <2> DEFINE P == PairsOf(b)  Q == PairsOf(e)
  <2>1. /\ DOMAIN P = Keys /\ DOMAIN Q = Keys
        /\ P = [l \in Keys |-> P[l]] /\ Q = [l \in Keys |-> Q[l]]
        /\ \A l \in Keys : /\ P[l] = [w \in Values |-> P[l][w]]
                           /\ Q[l] = [w \in Values |-> Q[l][w]]
    BY DEF PairsOf
  <2>2. \A l \in Keys, w \in Values : Q[l][w] = IF l = k /\ w = v THEN P[l][w] + 1 ELSE P[l][w]
    BY <1>13
  <2> HIDE DEF P, Q
  <2>3. Q[k] = [P[k] EXCEPT ![v] = @ + 1]
    BY <2>1, <2>2
  <2>4. \A l \in Keys : l # k => Q[l] = P[l]
    <3>1. ASSUME NEW l \in Keys, l # k PROVE Q[l] = P[l]
      <4>1. \A w \in Values : Q[l][w] = P[l][w]
        BY <2>2, <3>1
      <4> QED BY <2>1, <4>1
    <3> QED BY <3>1
  <2>5. Q = [P EXCEPT ![k] = [P[k] EXCEPT ![v] = @ + 1]]
    BY <2>1, <2>3, <2>4
  <2> QED BY <2>5 DEF P, Q
<1>15. Listed(e)
  BY <1>3, <1>4, <1>5, <1>8 DEF Listed
<1> QED BY <1>3, <1>4, <1>5, <1>14, <1>15 DEF e

\* Where its values are.
LEMMA PlaceIs ==
  ASSUME NEW d, IsInjective(d.vals), NEW i \in DOMAIN d.vals
  PROVE  Place(d, d.vals[i]) = i /\ d.vals[i] \in ToSet(d.vals)
BY DEF Place, IsInjective, ToSet

\* The database that finalize writes reads as the pairs of the constructor.
LEMMA PackedReads ==
  ASSUME NEW c, ConsInv(c), Clean(c), Listed(c), FinalizeSafe(c),
         NEW unique \in BOOLEAN, NEW order \in Orders(c)
  PROVE  LET d == Packed(c, order, unique) IN
           /\ IsInjective(d.vals) /\ DOMAIN d.vals \subseteq Ids
           /\ Read(d) = [named |-> Stored(c.keys_map),
                         count |-> [k \in Keys |-> [v \in Values |->
                                      IF unique THEN Abstract!Once(PairsOf(c)[k][v])
                                                ELSE PairsOf(c)[k][v]]]]
<1> DEFINE d == Packed(c, order, unique)  vs == c.values_map.keys
<1>1. /\ d.keys = order /\ d.post = Post(c, unique) /\ d.vals = vs
      /\ DOMAIN Post(c, unique) = Stored(c.keys_map)
  BY DEF Packed, Post
<1>2. Readings(d)
  BY PackedReadings
<1> HIDE DEF d
<1>3. ToSet(d.keys) = Stored(c.keys_map)
  BY <1>1, <1>2 DEF Readings
<1>4. IsInjective(vs) /\ DOMAIN vs \subseteq Ids
  <2>1. IsInjective(vs)
    BY DEF ConsInv, Good, IsInjective, Clean, CleanMap, Stored, ToSet
  <2>2. Len(vs) <= MaxItems /\ DOMAIN vs = 1 .. Len(vs) /\ Len(vs) \in Nat
    BY Constants DEF ConsInv, Good, Map
  <2> QED BY <2>1, <2>2, Constants DEF Ids
<1>5. Placed(c) /\ Whole(c.values_map)
  BY DEF ConsInv, Clean, CleanMap
<1>6. c.list \in [Keys -> Lists \cup {Nil}] /\ c.id \in [Values -> {0} \cup Ids]
  BY DEF ConsInv, Constructors
<1>7. ASSUME NEW k \in Keys, NEW v \in Values
      PROVE  Read(d).count[k][v] = IF unique THEN Abstract!Once(PairsOf(c)[k][v])
                                             ELSE PairsOf(c)[k][v]
  <2>1. Read(d).count[k][v] = IF k \in Stored(c.keys_map) /\ v \in ToSet(vs)
                              THEN Post(c, unique)[k][Place(d, v)] ELSE 0
    BY <1>1 DEF Read
  <2>2. CASE k \notin Stored(c.keys_map)
    <3>1. PairsOf(c)[k][v] = 0
      BY <2>2, PairsValue DEF Listed
    <3> QED BY <2>1, <2>2, <3>1 DEF Abstract!Once
  <2>3. CASE v \notin ToSet(vs)
    <3>1. c.id[v] = 0
      BY <1>5, <2>3 DEF Placed, ToSet
    <3>2. PairsOf(c)[k][v] = 0
      BY <3>1, PairsValue
    <3> QED BY <2>1, <2>3, <3>2 DEF Abstract!Once
  <2>4. CASE k \in Stored(c.keys_map) /\ v \in ToSet(vs)
    <3>1. c.id[v] # 0
      BY <2>4 DEF ConsInv, Numbered, Stored
    <3>2. c.id[v] \in DOMAIN vs /\ vs[c.id[v]] = v /\ c.id[v] \in Ids
      BY <1>5, <1>6, <3>1 DEF Placed
    <3>3. Place(d, v) = c.id[v]
      BY <1>1, <1>4, <3>2, PlaceIs
    <3>4. c.list[k] # Nil /\ c.list[k] \in Lists
      BY <1>6, <2>4 DEF FinalizeSafe, ListsFound, KeysFound
    <3>5. PairsOf(c)[k][v] = c.list[k][c.id[v]]
      BY <3>1, <3>4, PairsValue
    <3>6. Post(c, unique)[k] = IF unique THEN Dedup(c.list[k]) ELSE c.list[k]
      BY <2>4 DEF Post
    <3>7. Dedup(c.list[k])[c.id[v]] = Abstract!Once(c.list[k][c.id[v]])
      BY <3>2 DEF Dedup, Abstract!Once
    <3>8. Read(d).count[k][v] = Post(c, unique)[k][c.id[v]]
      BY <2>1, <2>4, <3>3
    <3> QED BY <3>5, <3>6, <3>7, <3>8
  <2> QED BY <2>2, <2>3, <2>4
<1>8. Read(d).named = Stored(c.keys_map)
  BY <1>3 DEF Read
<1> DEFINE W == [k \in Keys |-> [v \in Values |->
                   IF unique THEN Abstract!Once(PairsOf(c)[k][v]) ELSE PairsOf(c)[k][v]]]
<1>9. Read(d).count = W
  BY <1>7 DEF Read
<1>10. Read(d) = [named |-> Read(d).named, count |-> Read(d).count]
  BY DEF Read
<1> QED BY <1>1, <1>4, <1>8, <1>9, <1>10 DEF d
-----------------------------------------------------------------------------
(***************************************************************************)
(* The steps as long as no allocation has failed.                          *)
(***************************************************************************)
NamesKey(k) == /\ KeyOk(cons, k) /\ cons' = WithKey(cons, k)
               /\ UNCHANGED <<state, db, left>> /\ state = "open"

AddsPair(k, v) == /\ KeyOk(cons, k) /\ ValueOk(cons, v) /\ cons' = Added(cons, k, v)
                  /\ UNCHANGED <<state, db, left>> /\ state = "open"

Ends == UNCHANGED <<cons, db>> /\ (state' = "copying" => state = "copying" /\ left' = left)

LEMMA QuietSteps ==
  ASSUME IInv, [Next]_vars, failures' = 0
  PROVE  /\ failures = 0
         /\ \/ \E k \in Keys : NamesKey(k)
            \/ \E k \in Keys, v \in Values : AddsPair(k, v)
            \/ \E unique \in BOOLEAN : Finalize(unique)
            \/ CopyBegin
            \/ \E n \in Ids, i \in Ids : CopyPair(n, i)
            \/ Ends
<1>1. failures \in Nat /\ failures + 1 # 0
  BY Constants DEF IInv, TypeOK
<1>2. ~(failures' = failures + 1)
  BY <1>1
<1>3. \A c : ~FailsTo(c)
  BY <1>2 DEF FailsTo
<1>4. \A k, v : Crashes(k, v) => failures' = failures /\ Ends
  <2>1. ~Lost(1) /\ (Lost(0) => failures' = failures /\ Ends)
    BY <1>1, <1>2 DEF Lost, Ends
  <2> QED BY <2>1 DEF Crashes
<1>5. CASE Adding
  <2>1. ASSUME NEW k \in Keys, AddKey(k) PROVE failures' = failures /\ NamesKey(k)
    BY <2>1 DEF AddKey, Becomes, Usable, NamesKey
  <2>2. ASSUME NEW k \in Keys, NEW v \in Values, AddPair(k, v)
        PROVE  failures' = failures /\ AddsPair(k, v)
    BY <2>2 DEF AddPair, Becomes, Usable, AddsPair
  <2>3. ASSUME NEW k \in Keys, NEW v \in Values, AddRefused(k, v)
        PROVE  failures' = failures /\ (NamesKey(k) \/ Ends)
    <3>1. PICK c \in Refused(cons, k, v) : Becomes(c) /\ state = "open"
      BY <2>3 DEF AddRefused, Usable
    <3>2. c = cons \/ (KeyOk(cons, k) /\ c = WithKey(cons, k))
      BY DEF Refused
    <3> QED BY <3>1, <3>2 DEF Becomes, NamesKey, Ends
  <2>4. ASSUME NEW k \in Keys, NEW v \in Values, AddCrashes(k, v)
        PROVE  failures' = failures /\ Ends
    BY <1>4, <2>4 DEF AddCrashes
  <2>5. ASSUME NEW k \in Keys, NEW v \in Values PROVE ~AddFails(k, v) /\ ~AddUnnamed(k, v)
    BY <1>3 DEF AddFails, AddUnnamed
  <2> QED BY <1>5, <2>1, <2>2, <2>3, <2>4, <2>5 DEF Adding
<1>6. CASE Finalizing
  <2>1. ~FinalizeFails
    BY <1>3 DEF FinalizeFails
  <2>2. FinalizeCrashes => failures' = failures /\ Ends
    BY <1>1 DEF FinalizeCrashes, Lost, Ends
  <2>3. \A unique \in BOOLEAN : Finalize(unique) => failures' = failures
    BY DEF Finalize
  <2>4. FinalizeRefused => failures' = failures /\ Ends
    BY DEF FinalizeRefused, vars, Ends
  <2> QED BY <1>6, <2>1, <2>2, <2>3, <2>4 DEF Finalizing
<1>7. CASE Free
  BY <1>7 DEF Free, Ends
<1>8. CASE Copying
  <2>1. CopyEnd => failures' = failures /\ Ends
    BY DEF CopyEnd, Ends
  <2>2. CopyBegin => failures' = failures
    BY DEF CopyBegin
  <2>3. ASSUME NEW n \in Ids, NEW i \in Ids
        PROVE  /\ ~CopyUnnamed(n, i) /\ ~CopyFails(n, i)
               /\ CopyCrashes(n, i) => failures' = failures /\ Ends
               /\ CopyPair(n, i) => failures' = failures
    BY <1>2, <1>4 DEF CopyUnnamed, CopyFails, CopyCrashes, CopyPair
  <2> QED BY <1>8, <2>1, <2>2, <2>3 DEF Copying
<1>9. CASE UNCHANGED vars
  BY <1>9 DEF vars, Ends
<1> QED BY <1>5, <1>6, <1>7, <1>8, <1>9 DEF Next
-----------------------------------------------------------------------------
(***************************************************************************)
(* What a copy has and what is left add up to the database.                *)
(***************************************************************************)
Left(k, v) == IF v \in ToSet(db.vals) THEN left[k][Place(db, v)] ELSE 0

Balance == \A k \in Keys, v \in Values : Read(db).count[k][v] = PairsOf(cons)[k][v] + Left(k, v)

RInv == failures = 0 => /\ Listed(cons)
                        /\ IsInjective(db.vals) /\ DOMAIN db.vals \subseteq Ids
                        /\ state = "copying" => Balance

LEMMA NewPairs ==
  /\ PairsOf(NewCons) = [k \in Keys |-> [v \in Values |-> 0]]
  /\ Stored(NewCons.keys_map) = {} /\ Listed(NewCons)
<1>1. NewCons.keys_map = EmptyMap /\ NewCons.list = [k \in Keys |-> Nil]
  BY DEF NewCons
<1>2. Stored(EmptyMap) = {}
  BY DEF EmptyMap, Stored, ToSet
<1>3. \A k \in Keys, v \in Values : PairsOf(NewCons)[k][v] = 0
  BY <1>1, PairsValue
<1>4. PairsOf(NewCons) = [k \in Keys |-> [v \in Values |-> 0]]
  BY <1>3 DEF PairsOf
<1> QED BY <1>1, <1>2, <1>4 DEF Listed

LEMMA RInit == Init => RInv
<1> SUFFICES ASSUME Init PROVE RInv
  OBVIOUS
<1>1. db.vals = <<>> /\ cons = NewCons /\ state = "open"
  BY DEF Init, EmptyDb
<1> QED BY <1>1, NewPairs, Constants DEF RInv, IsInjective

LEMMA CopyPairStep ==
  ASSUME IInv, RInv, failures = 0, NEW n \in Ids, NEW i \in Ids, CopyPair(n, i)
  PROVE  /\ db' = db /\ Listed(cons') /\ Balance'
         /\ db.keys[n] \in Keys /\ db.vals[i] \in Values
         /\ PairsOf(cons') = [PairsOf(cons) EXCEPT ![db.keys[n]][db.vals[i]] = @ + 1]
         /\ Stored(cons'.keys_map) = Stored(cons.keys_map) \cup {db.keys[n]}
<1> DEFINE k == db.keys[n]  v == db.vals[i]
<1>1. /\ AtPair(n, i) /\ KeyOk(cons, k) /\ ValueOk(cons, v) /\ cons' = Added(cons, k, v)
      /\ Passed(k, i) /\ db' = db /\ state = "copying"
  BY DEF CopyPair, AtPair
<1>2. /\ k \in Keys /\ v \in Values /\ left' \in [Keys -> Lists] /\ left \in [Keys -> Lists]
      /\ left[k][i] > 0
  BY <1>1, PairAtCursors DEF IInv, TypeOK, AtPair
<1>3. i \in DOMAIN db.vals
  BY <1>1, <1>2 DEF IInv, CopyInv
<1>4. db.vals[i] = v /\ ConsInv(cons) /\ Clean(cons) /\ Listed(cons) /\ IsInjective(db.vals)
      /\ DOMAIN db.vals \subseteq Ids
  BY <1>1 DEF IInv, CleanInv, RInv
<1> HIDE DEF k, v
<1>5. /\ PairsOf(cons') = [PairsOf(cons) EXCEPT ![k][v] = @ + 1]
      /\ Stored(cons'.keys_map) = Stored(cons.keys_map) \cup {k}
      /\ Listed(cons')
  BY <1>1, <1>2, <1>4, AddedPairs
<1>6. Place(db, v) = i /\ v \in ToSet(db.vals)
  BY <1>3, <1>4, PlaceIs
<1>7. Balance
  BY <1>1 DEF RInv
<1>8. ASSUME NEW w \in Values, w \in ToSet(db.vals)
      PROVE  Place(db, w) \in Ids /\ (w # v => Place(db, w) # i)
  <2>1. PICK j \in DOMAIN db.vals : db.vals[j] = w
    BY <1>8 DEF ToSet
  <2>2. Place(db, w) = j
    BY <1>4, <2>1, PlaceIs
  <2> QED BY <1>4, <2>1, <2>2
<1>9. ASSUME NEW l \in Keys, NEW w \in Values
      PROVE  Read(db').count[l][w] = PairsOf(cons')[l][w] + Left(l, w)'
  <2>1. Read(db).count[l][w] = PairsOf(cons)[l][w] + Left(l, w)
    BY <1>7 DEF Balance
  <2>2. PairsOf(cons')[l][w] = IF l = k /\ w = v THEN PairsOf(cons)[l][w] + 1 ELSE PairsOf(cons)[l][w]
    <3> DEFINE P == PairsOf(cons)
    <3>1. P = [x \in Keys |-> [y \in Values |-> P[x][y]]]
      BY DEF PairsOf
    <3> HIDE DEF P
    <3> QED BY <1>2, <1>5, <3>1 DEF P
  <2>3. PairsOf(cons)[l][w] \in Nat
    <3>1. cons.list[l] \in Lists \cup {Nil} /\ cons.id[w] \in {0} \cup Ids
      BY DEF IInv, TypeOK, Constructors
    <3> QED BY <3>1, PairsValue DEF Lists
  <2>4. left[l] \in Lists /\ \A j \in Ids : left[l][j] \in Int
    BY <1>2 DEF Lists
  <2>5. Left(l, w) \in Int
    BY <1>8, <2>4 DEF Left
  <2>6. \A j \in Ids : left'[l][j] = IF l = k /\ j = i THEN left[l][j] - 1 ELSE left[l][j]
    BY <1>1, <1>2, <2>4 DEF Passed, Lists
  <2>7. CASE w \notin ToSet(db.vals)
    BY <1>1, <1>6, <2>1, <2>2, <2>3, <2>7 DEF Left
  <2>8. CASE w \in ToSet(db.vals)
    <3>1. Left(l, w)' = left'[l][Place(db, w)] /\ Left(l, w) = left[l][Place(db, w)]
      BY <1>1, <2>8 DEF Left, Place
    <3>2. left'[l][Place(db, w)] = IF l = k /\ w = v THEN left[l][Place(db, w)] - 1
                                                    ELSE left[l][Place(db, w)]
      BY <1>6, <1>8, <2>6, <2>8
    <3> QED BY <1>1, <2>1, <2>2, <2>3, <2>5, <3>1, <3>2
  <2> QED BY <2>7, <2>8
<1>10. Balance'
  BY <1>9 DEF Balance
<1> QED BY <1>1, <1>2, <1>5, <1>10 DEF k, v

\* While it is copied, a database is left alone and so are its places.
LEMMA BalanceKept ==
  ASSUME Balance, cons' = cons, db' = db, left' = left
  PROVE  Balance'
BY DEF Balance, Left, Place

\* A copy begins with no pair, and all of the database's are left.
LEMMA CopyBeginStep ==
  ASSUME IInv, RInv, failures = 0, CopyBegin
  PROVE  /\ db' = db /\ cons' = NewCons /\ Listed(cons')
         /\ state' = "copying" => Balance'
<1>1. /\ cons' = NewCons /\ db' = db
      /\ left' = [k \in Keys |-> IF k \in DOMAIN db.post THEN db.post[k] ELSE NoIds]
  BY DEF CopyBegin
<1>2. IsInjective(db.vals) /\ DOMAIN db.vals \subseteq Ids /\ Readings(db)
  BY DEF RInv, IInv, TypeOK
<1>3. ASSUME NEW k \in Keys, NEW v \in Values
      PROVE  Read(db').count[k][v] = PairsOf(cons')[k][v] + Left(k, v)'
  <2>1. PairsOf(cons')[k][v] = 0
    BY <1>1, NewPairs
  <2>2. Read(db).count[k][v] = IF k \in DOMAIN db.post /\ v \in ToSet(db.vals)
                               THEN db.post[k][Place(db, v)] ELSE 0
    BY DEF Read
  <2>3. Left(k, v)' = IF v \in ToSet(db.vals) THEN left'[k][Place(db, v)] ELSE 0
    BY <1>1 DEF Left
  <2>4. ASSUME v \in ToSet(db.vals) PROVE Place(db, v) \in Ids
    <3>1. PICK j \in DOMAIN db.vals : db.vals[j] = v
      BY <2>4 DEF ToSet
    <3>2. Place(db, v) = j
      BY <1>2, <3>1, PlaceIs
    <3> QED BY <1>2, <3>1, <3>2
  <2>5. left'[k] = IF k \in DOMAIN db.post THEN db.post[k] ELSE NoIds
    BY <1>1
  <2>6. CASE v \notin ToSet(db.vals)
    BY <1>1, <2>1, <2>2, <2>3, <2>6
  <2>7. CASE v \in ToSet(db.vals) /\ k \notin DOMAIN db.post
    <3>1. NoIds[Place(db, v)] = 0
      BY <2>4, <2>7, Constants
    <3> QED BY <1>1, <2>1, <2>2, <2>3, <2>5, <2>7, <3>1
  <2>8. CASE v \in ToSet(db.vals) /\ k \in DOMAIN db.post
    <3>1. db.post[k][Place(db, v)] \in Nat
      BY <1>2, <2>4, <2>8 DEF Readings, Lists
    <3> QED BY <1>1, <2>1, <2>2, <2>3, <2>5, <2>8, <3>1
  <2> QED BY <2>6, <2>7, <2>8
<1>4. Balance'
  BY <1>3 DEF Balance
<1> QED BY <1>1, <1>4, NewPairs

\* What finalize does without a failure.
LEMMA FinalizeStep ==
  ASSUME IInv, RInv, failures = 0, NEW unique \in BOOLEAN, Finalize(unique)
  PROVE  /\ Listed(cons') /\ IsInjective(db'.vals) /\ DOMAIN db'.vals \subseteq Ids
         /\ state' = "open"
         /\ PairsOf(cons') = PairsOf(cons) /\ Stored(cons'.keys_map) = Stored(cons.keys_map)
         /\ Read(db') = [named |-> Stored(cons.keys_map),
                         count |-> [k \in Keys |-> [v \in Values |->
                                      IF unique THEN Abstract!Once(PairsOf(cons)[k][v])
                                                ELSE PairsOf(cons)[k][v]]]]
<1>1. /\ FinalizeSafe(cons) /\ cons' = [cons EXCEPT !.live = FALSE] /\ state' = "open"
  BY DEF Finalize, Usable
<1>2. PICK order \in Orders(cons) : db' = Packed(cons, order, unique)
  BY DEF Finalize
<1>3. cons'.keys_map = cons.keys_map /\ cons'.list = cons.list /\ cons'.id = cons.id
  BY <1>1 DEF IInv, TypeOK, Constructors
<1>4. ConsInv(cons) /\ Clean(cons) /\ Listed(cons)
  BY DEF IInv, CleanInv, RInv
<1>5. PairsOf(cons') = PairsOf(cons) /\ Listed(cons')
  BY <1>3, <1>4 DEF PairsOf, Listed
<1> QED BY <1>1, <1>2, <1>3, <1>4, <1>5, PackedReads

LEMMA RStep == IInv /\ RInv /\ [Next]_vars => RInv'
<1> SUFFICES ASSUME IInv, RInv, [Next]_vars, failures' = 0
             PROVE  /\ Listed(cons')
                    /\ IsInjective(db'.vals) /\ DOMAIN db'.vals \subseteq Ids
                    /\ state' = "copying" => Balance'
  BY DEF RInv
<1>1. failures = 0
  BY QuietSteps
<1>2. /\ Listed(cons) /\ IsInjective(db.vals) /\ DOMAIN db.vals \subseteq Ids
      /\ (state = "copying" => Balance) /\ ConsInv(cons) /\ Clean(cons)
  BY <1>1 DEF RInv, IInv, CleanInv
<1>3. ASSUME NEW k \in Keys, NamesKey(k) PROVE Listed(cons') /\ db' = db /\ state' = "open"
  BY <1>2, <1>3, WithKeyPairs DEF NamesKey
<1>4. ASSUME NEW k \in Keys, NEW v \in Values, AddsPair(k, v)
      PROVE  Listed(cons') /\ db' = db /\ state' = "open"
  BY <1>2, <1>4, AddedPairs DEF AddsPair
<1>5. ASSUME Ends PROVE Listed(cons') /\ db' = db /\ (state' = "copying" => Balance')
  BY <1>2, <1>5, BalanceKept DEF Ends
<1> QED BY <1>1, <1>2, <1>3, <1>4, <1>5, QuietSteps, FinalizeStep, CopyBeginStep, CopyPairStep
-----------------------------------------------------------------------------
\* For all keys, values and sizes, and whatever fails in other constructors:
\* when ddb_cons_ddb returns a constructor none of whose allocations failed,
\* it has each pair of the database as often as the database has it.
THEOREM CopyIsFaithful == Spec => CopyKeepsPairs
<1>1. ASSUME IInv, RInv, [Next]_vars, state = "copying", state' = "open", failures = 0
      PROVE  Pairs = Read(db).count
  <2>1. CopyEnd
    <3>1. /\ \A unique \in BOOLEAN : ~Finalize(unique)
          /\ ~FinalizeRefused /\ ~FinalizeFails /\ ~FinalizeCrashes /\ ~Free /\ ~CopyBegin
          /\ ~UNCHANGED vars
      BY <1>1 DEF Finalize, FinalizeRefused, FinalizeFails, FinalizeCrashes, Usable, Free, CopyBegin, vars
    <3>2. ~Adding
      BY <1>1 DEF Adding, AddKey, AddPair, AddRefused, AddFails, AddUnnamed, AddCrashes, Usable
    <3>3. \A n \in Ids, i \in Ids : ~CopyPair(n, i) /\ ~CopyUnnamed(n, i) /\ ~CopyFails(n, i)
                                      /\ ~CopyCrashes(n, i)
      BY <1>1 DEF CopyPair, CopyUnnamed, CopyFails, CopyCrashes, Crashes, Lost
    <3> QED BY <1>1, <3>1, <3>2, <3>3 DEF Next, Finalizing, Copying
  <2>2. /\ \A k \in Keys : left[k] = NoIds
        /\ Balance /\ IsInjective(db.vals) /\ DOMAIN db.vals \subseteq Ids
    BY <1>1, <2>1 DEF CopyEnd, RInv
  <2>3. ASSUME NEW k \in Keys, NEW v \in Values PROVE Read(db).count[k][v] = Pairs[k][v]
    <3>1. Left(k, v) = 0
      <4>1. CASE v \in ToSet(db.vals)
        <5>1. PICK j \in DOMAIN db.vals : db.vals[j] = v
          BY <4>1 DEF ToSet
        <5>2. Place(db, v) = j /\ j \in Ids
          BY <2>2, <5>1, PlaceIs
        <5>3. left[k][j] = 0
          BY <2>2, <5>2, Constants
        <5> QED BY <5>2, <5>3 DEF Left
      <4>2. CASE v \notin ToSet(db.vals)
        BY <4>2 DEF Left
      <4> QED BY <4>1, <4>2
    <3>2. Read(db).count[k][v] = PairsOf(cons)[k][v] + Left(k, v)
      BY <2>2 DEF Balance
    <3>3. PairsOf(cons)[k][v] \in Nat
      <4>1. cons.list[k] \in Lists \cup {Nil} /\ cons.id[v] \in {0} \cup Ids
        BY <1>1 DEF IInv, TypeOK, Constructors
      <4> QED BY <4>1, PairsValue DEF Lists
    <3> QED BY <3>1, <3>2, <3>3 DEF Pairs
  <2>4. /\ Pairs = [k \in Keys |-> [v \in Values |-> Pairs[k][v]]]
        /\ Read(db).count = [k \in Keys |-> [v \in Values |-> Read(db).count[k][v]]]
    BY DEF Pairs, PairsOf, Read
  <2> QED BY <2>3, <2>4
<1>2. IInv /\ RInv /\ [Next]_vars
        => [state = "copying" /\ state' = "open" /\ failures = 0 => Pairs = Read(db).count]_vars
  BY <1>1
<1> QED BY <1>2, InitInv, StepInv, RInit, RStep, PTL DEF Spec, CopyKeepsPairs
-----------------------------------------------------------------------------
(***************************************************************************)
(* Every step is one of the multimap, or leaves it as it is.               *)
(***************************************************************************)
\* A new constructor, and no database, are a new multimap.
LEMMA AbstractInit == Init => Abstract!Init
<1> SUFFICES ASSUME Init PROVE Abstract!Init
  OBVIOUS
<1>1. cons = NewCons /\ db = EmptyDb
  BY DEF Init
<1>2. EmptyDb.keys = <<>> /\ DOMAIN EmptyDb.post = {}
  BY DEF EmptyDb
<1>3. Read(db).named = {} /\ Read(db).count = [k \in Keys |-> [v \in Values |-> 0]]
  BY <1>1, <1>2 DEF Read, ToSet
<1>4. Read(db) = [named |-> Read(db).named, count |-> Read(db).count]
  BY DEF Read
<1> QED BY <1>1, <1>3, <1>4, NewPairs DEF Abstract!Init, Abstract!Nothing, Pairs

LEMMA AbstractStep ==
  ASSUME IInv, RInv, [Next]_vars, failures' = 0
  PROVE  Abstract!Next \/ UNCHANGED Abstract!vars
<1>1. failures = 0
  BY QuietSteps
<1>2. ConsInv(cons) /\ Clean(cons) /\ Listed(cons)
  BY <1>1 DEF IInv, CleanInv, RInv
<1>3. ASSUME NEW k \in Keys, NamesKey(k) PROVE Abstract!Name(k)
  <2>1. KeyOk(cons, k) /\ cons' = WithKey(cons, k) /\ db' = db
    BY <1>3 DEF NamesKey
  <2>2. PairsOf(cons') = PairsOf(cons) /\ Stored(cons'.keys_map) = Stored(cons.keys_map) \cup {k}
    BY <1>2, <2>1, WithKeyPairs
  <2> QED BY <2>1, <2>2 DEF Abstract!Name, Pairs
<1>4. ASSUME NEW k \in Keys, NEW v \in Values, AddsPair(k, v) PROVE Abstract!Add(k, v)
  <2>1. KeyOk(cons, k) /\ ValueOk(cons, v) /\ cons' = Added(cons, k, v) /\ db' = db
    BY <1>4 DEF AddsPair
  <2>2. /\ PairsOf(cons') = [PairsOf(cons) EXCEPT ![k][v] = @ + 1]
        /\ Stored(cons'.keys_map) = Stored(cons.keys_map) \cup {k}
    BY <1>2, <2>1, AddedPairs
  <2> QED BY <2>1, <2>2 DEF Abstract!Add, Pairs
<1>5. ASSUME NEW unique \in BOOLEAN, Finalize(unique) PROVE Abstract!Finalize(unique)
  BY <1>1, <1>5, FinalizeStep DEF Abstract!Finalize, Pairs
<1>6. ASSUME CopyBegin PROVE Abstract!New
  BY <1>1, <1>6, CopyBeginStep, NewPairs DEF Abstract!New, Abstract!Nothing, Pairs
<1>7. ASSUME NEW n \in Ids, NEW i \in Ids, CopyPair(n, i)
      PROVE  db.keys[n] \in Keys /\ db.vals[i] \in Values /\ Abstract!Add(db.keys[n], db.vals[i])
  BY <1>1, <1>7, CopyPairStep DEF Abstract!Add, Pairs
<1>8. ASSUME Ends PROVE UNCHANGED Abstract!vars
  BY <1>8 DEF Ends, Abstract!vars, Pairs
<1>9. CASE \E k \in Keys : NamesKey(k)
  BY <1>3, <1>9 DEF Abstract!Next
<1>10. CASE \E k \in Keys, v \in Values : AddsPair(k, v)
  BY <1>4, <1>10 DEF Abstract!Next
<1>11. CASE \E unique \in BOOLEAN : Finalize(unique)
  BY <1>5, <1>11 DEF Abstract!Next
<1>12. CASE CopyBegin
  BY <1>6, <1>12 DEF Abstract!Next
<1>13. CASE \E n \in Ids, i \in Ids : CopyPair(n, i)
  BY <1>7, <1>13 DEF Abstract!Next
<1>14. CASE Ends
  BY <1>8, <1>14
<1> QED BY <1>9, <1>10, <1>11, <1>12, <1>13, <1>14, QuietSteps

\* As long as its allocations succeed a constructor implements the multimap:
\* every database that ddb_cons_finalize writes has the keys and the pairs that
\* were added with ddb_cons_add, however many and in whatever order.
THEOREM ConstructorIsMultimap == Spec => MultimapSpec
<1>1. IInv /\ RInv /\ [Next]_vars
        => [failures' = 0 => Abstract!Next \/ UNCHANGED Abstract!vars]_vars
  BY AbstractStep
<1> QED BY <1>1, AbstractInit, InitInv, StepInv, RInit, RStep, PTL DEF Spec, MultimapSpec
-----------------------------------------------------------------------------
(***************************************************************************)
(* What finalize writes is sound.                                          *)
(***************************************************************************)
\* The keys of a database in any order that has them all: none is there twice.
LEMMA OrderInjective ==
  ASSUME NEW S, NEW ks \in Seq(S), IsInjective(ks),
         NEW f \in [1 .. Len(ks) -> ToSet(ks)], ToSet(f) = ToSet(ks)
  PROVE  IsInjective(f)
<1> DEFINE n == Len(ks)  T == ToSet(ks)
<1>1. n \in Nat /\ DOMAIN ks = 1 .. n /\ DOMAIN f = 1 .. n
  OBVIOUS
<1>2. IsFiniteSet(1 .. n) /\ Cardinality(1 .. n) = n
  <2>1. PICK m : m = n
    OBVIOUS
  <2>2. m \in Nat /\ 1 \in Int /\ m \in Int
    BY <1>1, <2>1
  <2>3. IsFiniteSet(1 .. m) /\ Cardinality(1 .. m) = IF 1 > m THEN 0 ELSE m - 1 + 1
    BY <2>2, FS_Interval
  <2>4. Cardinality(1 .. m) = m
    BY <2>2, <2>3
  <2> QED BY <2>1, <2>3, <2>4
<1>3. ks \in [1 .. n -> T]
  BY <1>1 DEF ToSet
<1>4. ks \in Bijection(1 .. n, T)
  <2>1. \A t \in T : \E i \in 1 .. n : ks[i] = t
    BY <1>1 DEF ToSet
  <2> QED BY <1>1, <1>3, <2>1 DEF Bijection, Injection, Surjection, IsInjective
<1>5. Cardinality(T) = n
  <2>1. ExistsBijection(1 .. n, T)
    BY <1>4 DEF ExistsBijection
  <2> QED BY <1>1, <2>1, FS_CountingElements
<1>6. f \in Surjection(1 .. n, T)
  <2>1. \A t \in T : \E i \in 1 .. n : f[i] = t
    BY <1>1 DEF ToSet
  <2> QED BY <2>1 DEF Surjection
<1>7. f \in Injection(1 .. n, T)
  BY <1>2, <1>5, <1>6, FS_SurjSameCardinalityImpliesInj
<1> QED BY <1>7 DEF Injection

\* What finalize writes, when every item of values_map has its string.
LEMMA PackedSound ==
  ASSUME NEW c, ConsInv(c), FinalizeSafe(c), NEW unique \in BOOLEAN, NEW order \in Orders(c),
         NEW d, d = Packed(c, order, unique), d.num_uniq = Len(d.vals)
  PROVE  /\ IsInjective(d.vals) /\ IsInjective(d.keys)
         /\ ToSet(d.keys) = DOMAIN d.post
         /\ Readable(d)
         /\ d.multiset <=> \E k \in DOMAIN d.post : \E i \in Ids : d.post[k][i] > 1
<1> DEFINE ks == c.keys_map.keys
<1>1. /\ d.keys = order /\ d.post = Post(c, unique) /\ d.vals = c.values_map.keys
      /\ d.num_uniq = c.values_map.num /\ d.multiset = Multiset(c, unique)
  BY DEF Packed
<1>2. Whole(c.values_map)
  BY <1>1 DEF Whole
<1>3. Readings(d) /\ Readable(d)
  BY <1>2, PackedReadings
<1>4. Nil \notin Stored(c.keys_map) /\ Nil \notin Stored(c.values_map)
  BY DEF FinalizeSafe, ListsFound, KeysFound, ItemsSafe, CursorSafe
<1>5. IsInjective(d.vals)
  BY <1>1, <1>4 DEF ConsInv, Good, Stored, ToSet, IsInjective
<1>6. ks \in Seq(Keys \cup {Nil}) /\ IsInjective(ks)
  BY <1>4 DEF ConsInv, Good, Map, Stored, ToSet, IsInjective
<1>7. IsInjective(order)
  <2>1. order = ks \/ (order \in [1 .. Len(ks) -> ToSet(ks)] /\ ToSet(order) = ToSet(ks))
    BY DEF Orders
  <2> QED BY <1>6, <2>1, OrderInjective
<1>8. ASSUME NEW k \in Stored(c.keys_map)
      PROVE  c.list[k] \in Lists /\ d.post[k] = IF unique THEN Dedup(c.list[k]) ELSE c.list[k]
  <2>1. k \in Keys
    BY <1>4, <1>6, <1>8 DEF Stored, ToSet
  <2> QED BY <1>1, <1>8, <2>1 DEF Post, FinalizeSafe, ListsFound, KeysFound, ConsInv, Constructors
<1>9. DOMAIN d.post = Stored(c.keys_map)
  BY <1>1 DEF Post
<1>10. d.multiset <=> \E k \in DOMAIN d.post : \E i \in Ids : d.post[k][i] > 1
  <2>1. CASE unique
    <3>1. ASSUME NEW k \in Stored(c.keys_map), NEW i \in Ids
          PROVE  ~(d.post[k][i] > 1)
      <4>1. d.post[k] = Dedup(c.list[k])
        BY <1>8, <2>1
      <4>2. Dedup(c.list[k])[i] = IF c.list[k][i] = 0 THEN 0 ELSE 1
        BY DEF Dedup
      <4> QED BY <4>1, <4>2
    <3> QED BY <1>1, <1>9, <2>1, <3>1 DEF Multiset
  <2>2. CASE ~unique
    BY <1>1, <1>8, <1>9, <2>2 DEF Multiset
  <2> QED BY <2>1, <2>2
<1> QED BY <1>1, <1>3, <1>5, <1>7, <1>10 DEF Readings

\* A database is written by finalize alone.
LEMMA Rewritten == Next => db' = db \/ \E unique \in BOOLEAN : Finalize(unique)
<1>1. Adding => db' = db
  BY DEF Adding, AddPair, AddKey, AddRefused, AddFails, AddUnnamed, AddCrashes, Crashes, Becomes, FailsTo, Lost
<1>2. Finalizing => db' = db \/ \E unique \in BOOLEAN : Finalize(unique)
  BY DEF Finalizing, FinalizeRefused, FinalizeFails, FinalizeCrashes, FailsTo, Lost, vars
<1>3. Free \/ Copying => db' = db
  BY DEF Free, Copying, CopyBegin, CopyEnd, CopyPair, CopyUnnamed, CopyFails, CopyCrashes, Crashes, Lost
<1> QED BY <1>1, <1>2, <1>3 DEF Next

(***************************************************************************)
(* Whatever was added and whichever allocations failed, a database that    *)
(* ddb_cons_finalize writes can be read when num_uniq counts its values:   *)
(* keys and values are there once, in whatever order the hash function     *)
(* puts the keys, ids have their strings, and the flag is right.           *)
(***************************************************************************)
THEOREM ConstructorIsSound == Spec => []DatabaseIsSound
<1>1. Init => DatabaseIsSound
  <2> SUFFICES ASSUME Init PROVE DatabaseIsSound
    OBVIOUS
  <2>1. /\ db.keys = <<>> /\ db.vals = <<>> /\ DOMAIN db.post = {} /\ db.multiset = FALSE
    BY DEF Init, EmptyDb
  <2> QED BY <2>1 DEF DatabaseIsSound, Readable, ToSet, IsInjective
<1>2. IInv /\ DatabaseIsSound /\ [Next]_vars => DatabaseIsSound'
  <2> SUFFICES ASSUME IInv, DatabaseIsSound, [Next]_vars PROVE DatabaseIsSound'
    OBVIOUS
  <2>1. CASE db' = db
    BY <2>1 DEF DatabaseIsSound, Readable
  <2>2. ASSUME NEW unique \in BOOLEAN, Finalize(unique)
        PROVE  DatabaseIsSound'
    <3>1. FinalizeSafe(cons) /\ ConsInv(cons)
      BY <2>2 DEF Finalize, IInv
    <3>2. PICK order \in Orders(cons) : db' = Packed(cons, order, unique)
      BY <2>2 DEF Finalize
    <3>3. PICK d : d = db'
      OBVIOUS
    <3>4. d = Packed(cons, order, unique)
      BY <3>2, <3>3
    <3>5. d.num_uniq = Len(d.vals) =>
            /\ IsInjective(d.vals) /\ IsInjective(d.keys) /\ ToSet(d.keys) = DOMAIN d.post /\ Readable(d)
            /\ d.multiset <=> \E k \in DOMAIN d.post : \E i \in Ids : d.post[k][i] > 1
      BY <3>1, <3>4, PackedSound
    <3> QED BY <3>3, <3>5 DEF DatabaseIsSound, Readable
  <2> QED BY <2>1, <2>2, Rewritten DEF vars
<1> QED BY <1>1, <1>2, InitInv, StepInv, PTL DEF Spec
=============================================================================
