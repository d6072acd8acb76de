---------------------------- MODULE LibraryProofs ----------------------------
(***************************************************************************)
(* A cursor stays inside the database and returns what it was opened for;  *)
(* a file that could be loaded has a whole database; a view has the ids of *)
(* the values that were added to it.                                       *)
(***************************************************************************)
EXTENDS Library, FiniteSetTheorems, WellFoundedInduction, TLAPS

\* A set of numbers that is not empty has a least element.
LEMMA NatLeast ==
  ASSUME NEW S \in SUBSET Nat, S # {}
  PROVE  \E x \in S : \A y \in S : x <= y
<1> DEFINE R == {ss \in Nat \X Nat : ss[1] < ss[2]}
<1>1. IsWellFoundedOn(R, Nat)
  BY NatLessThanWellFounded, Zenon DEF OpToRel
<1> HIDE DEF R
<1>2. PICK x \in S : \A y \in S : ~(<<y, x>> \in R)
  BY <1>1, WFMin
<1>3. \A y \in S : ~(y < x)
  BY <1>2 DEF R
<1> QED BY <1>3

\* Min returns it.
LEMMA MinIsLeast ==
  ASSUME NEW S \in SUBSET Nat, S # {}
  PROVE  Min(S) \in S /\ \A y \in S : Min(S) <= y
BY NatLeast DEF Min

\* A bounded set of numbers that is not empty has a greatest element.
LEMMA MaxIsGreatest ==
  ASSUME NEW S \in SUBSET Nat, S # {}, NEW top \in Nat, \A y \in S : y <= top
  PROVE  Max(S) \in S /\ \A y \in S : y <= Max(S)
<1> DEFINE D == {k \in Nat : top - k \in S}
<1>1. PICK y \in S : TRUE
  OBVIOUS
<1>2. top - y \in D
  BY <1>1
<1>3. PICK d \in D : \A e \in D : d <= e
  BY <1>2, NatLeast
<1>4. \A z \in S : top - z \in D
  OBVIOUS
<1>5. top - d \in S /\ \A z \in S : z <= top - d
  BY <1>3, <1>4
<1> QED BY <1>5 DEF Max

\* The remainder of 32-bit arithmetic stays in range and does not grow.
LEMMA ModBound ==
  ASSUME NEW a \in Nat, NEW m \in Nat \ {0}
  PROVE  a % m \in 0 .. m - 1 /\ a % m <= a /\ (a < m => a % m = a)
OBVIOUS
-----------------------------------------------------------------------------
\* The number after the last value id is an id too, which ddb_cons_add does not
\* promise: it allows DDB_MAX_NUM_VALUES = 2^32 - 1 of them.
ValuesFit == \A d \in Databases : Len(d.vals) + 1 < IdLimit

Fits == Len(db.vals) + 1 < IdLimit

\* What ddb_get_valuestr and ddb_next leave behind, in four cases.
LEMMA ValueReturned ==
  ASSUME IInv, NEW id \in DOMAIN db.vals, ReturnValue(id)
  PROVE  /\ asked' = asked /\ no_valuestr' = no_valuestr /\ errno' \in BOOLEAN
         /\ counting' \in BOOLEAN /\ n' \in Nat /\ given' \in Nat
         /\ \/ kind' = "crashed" /\ errno /\ errno' /\ ~no_valuestr /\ db.compressed
               /\ entry' = entry /\ counting' = counting
            \/ kind' = kind /\ errno' /\ db.compressed /\ ~no_valuestr /\ entry' = Nil /\ ~counting'
            \/ kind' = kind /\ errno /\ errno' /\ entry' = Nil /\ ~counting'
            \/ kind' = kind /\ ~errno /\ ~errno' /\ counting' = counting
               /\ entry' = IF counting THEN Seen ELSE db.vals[id]
<1> USE DEF Return, fields
<1>1. /\ ValueOf(id) = db.vals[id] /\ ValueOf(id) # Nil
      /\ errno \in BOOLEAN /\ counting \in BOOLEAN /\ no_valuestr \in BOOLEAN
      /\ n \in Nat /\ given \in Nat /\ CountLimit \in Nat \ {0}
      /\ n % CountLimit \in Nat
  BY ReaderAssumption DEF IInv, TypeOK, IsDatabase, ValueOf
<1>2. (n + 1) % CountLimit \in Nat /\ (given + 1) % CountLimit \in Nat
  BY <1>1
<1>3. CASE (~db.compressed \/ no_valuestr) /\ errno
  BY <1>1, <1>2, <1>3 DEF ReturnValue, IInv, CursorsAgree
<1>4. CASE (~db.compressed \/ no_valuestr) /\ ~errno
  <2>1. Return(ValueOf(id)) /\ UNCHANGED <<fields, errno>>
    BY <1>4 DEF ReturnValue
  <2>2. /\ counting' = counting /\ kind' = kind /\ asked' = asked
        /\ no_valuestr' = no_valuestr /\ errno' = errno
    BY <2>1, <1>1
  <2>3. entry' = IF counting THEN Seen ELSE db.vals[id]
    BY <2>1, <1>1
  <2>4. n' \in Nat /\ given' \in Nat
    BY <2>1, <1>1, <1>2
  <2> QED BY <2>2, <2>3, <2>4, <1>1, <1>4
<1>5. CASE db.compressed /\ ~no_valuestr /\ errno'
  <2>1. ~counting
    BY <1>5 DEF IInv, CursorsAgree
  <2>2. CASE errno' \in {TRUE, errno} /\ Return(Nil) /\ UNCHANGED fields
    BY <1>1, <1>2, <1>5, <2>1, <2>2
  <2>3. CASE errno /\ kind' = "crashed" /\ UNCHANGED <<asked, num_items, no_valuestr, errno, entry, counting, n, given>>
    BY <1>1, <1>5, <2>3
  <2> QED BY <1>5, <2>2, <2>3 DEF ReturnValue
<1>6. CASE db.compressed /\ ~no_valuestr /\ ~errno'
  BY <1>1, <1>2, <1>6 DEF ReturnValue
<1>7. db.compressed \in BOOLEAN
  BY DEF IInv, TypeOK, IsDatabase
<1> QED BY <1>3, <1>4, <1>5, <1>6, <1>7, <1>1

\* A call gives one of what is left, or NULL when nothing is, or the cursor breaks,
\* which it does not while it is counted.
Passes == /\ counting => errno' = errno
          /\ ~errno' => /\ ~errno /\ kind' = kind /\ num_items' = num_items
                        /\ \/ Return(Nil) /\ Left = {} /\ Left' = {}
                           \/ \E e : e # Nil /\ Return(e) /\ \E p \in Left : Left' = Left \ {p}

\* So does ddb_get_valuestr.
LEMMA ValuePasses ==
  ASSUME IInv, NEW id \in DOMAIN db.vals, ReturnValue(id)
  PROVE  /\ counting => errno' = errno
         /\ ~errno' => /\ ~errno /\ kind' = kind /\ num_items' = num_items
                       /\ db.vals[id] # Nil /\ Return(db.vals[id])
<1>1. /\ ValueOf(id) = db.vals[id] /\ db.vals[id] # Nil /\ errno \in BOOLEAN
      /\ counting => no_valuestr
  BY DEF IInv, TypeOK, IsDatabase, ValueOf, CursorsAgree
<1>2. CASE Return(IF errno THEN Nil ELSE ValueOf(id)) /\ UNCHANGED <<fields, errno>>
  BY <1>1, <1>2 DEF fields
<1>3. CASE ~no_valuestr /\ errno' \in {TRUE, errno} /\ UNCHANGED fields
           /\ Return(IF errno' THEN Nil ELSE ValueOf(id))
  <2>1. ~counting /\ kind' = kind /\ num_items' = num_items
    BY <1>1, <1>3 DEF fields
  <2>2. CASE ~errno'
    <3>1. ~errno
      BY <1>3, <2>2
    <3>2. Return(ValueOf(id))
      BY <1>3, <2>2
    <3> QED BY <1>1, <2>1, <3>1, <3>2
  <2> QED BY <2>1, <2>2
<1>4. CASE ~no_valuestr /\ errno /\ errno' = errno
  BY <1>1, <1>4
<1> QED BY <1>2, <1>3, <1>4 DEF ReturnValue

\* What is left to the cursor over all values, after k ids of the list m.
From(m, k) == UNION {{h} \X {j \in DOMAIN db.lists[h] : h = m => j > k} :
                       h \in {h \in DOMAIN db.keys : h >= m}}

\* The same, place by place.
LEMMA FromPlaces ==
  ASSUME NEW m, NEW k
  PROVE  \A p : p \in From(m, k) <=> /\ p[1] \in DOMAIN db.keys /\ p[1] >= m
                                     /\ p[2] \in DOMAIN db.lists[p[1]]
                                     /\ (p[1] = m => p[2] > k)
                                     /\ p = <<p[1], p[2]>>
<1> DEFINE Of(h) == {h} \X {j \in DOMAIN db.lists[h] : h = m => j > k}
<1>1. From(m, k) = UNION {Of(h) : h \in {h \in DOMAIN db.keys : h >= m}}
  BY DEF From
<1>2. \A h, p : p \in Of(h) <=> /\ p = <<p[1], p[2]>> /\ p[1] = h
                                /\ p[2] \in DOMAIN db.lists[h] /\ (h = m => p[2] > k)
  OBVIOUS
<1> HIDE DEF Of
<1>3. \A p : p \in From(m, k) <=> \E h \in DOMAIN db.keys : h >= m /\ p \in Of(h)
  BY <1>1
<1> QED BY <1>2, <1>3

\* The database's lists belong to its keys.
LEMMA ListsOf ==
  ASSUME IInv
  PROVE  /\ IsDatabase(db) /\ DOMAIN db.keys = 1 .. Len(db.keys) /\ DOMAIN db.lists = 1 .. Len(db.keys)
         /\ Len(db.keys) \in Nat
         /\ \A m \in 1 .. Len(db.keys) : /\ Len(db.lists[m]) \in Nat
                                        /\ DOMAIN db.lists[m] = 1 .. Len(db.lists[m])
<1>1. IsDatabase(db)
  BY DEF IInv, TypeOK
<1>2. DOMAIN db.keys = 1 .. Len(db.keys) /\ DOMAIN db.lists = 1 .. Len(db.keys) /\ Len(db.keys) \in Nat
  BY <1>1 DEF IsDatabase
<1>3. \A m \in DOMAIN db.lists : db.lists[m] \in Seq(DOMAIN db.vals)
  BY <1>1 DEF IsDatabase
<1>4. \A l \in Seq(DOMAIN db.vals) : Len(l) \in Nat /\ DOMAIN l = 1 .. Len(l)
  OBVIOUS
<1> QED BY <1>1, <1>2, <1>3, <1>4

\* Behind a list that was read, and lists that are empty, stands the next one.
LEMMA FromNext ==
  ASSUME IInv, NEW m \in 0 .. Len(db.keys), NEW h \in m .. Len(db.keys), h > 0, NEW k \in Nat, NEW j \in Nat,
         h = m => j = k, h > m => j = 0, j < Len(db.lists[h]),
         m # h => \A g \in m .. h - 1 : g = 0 \/ (g = m /\ k >= Len(db.lists[g])) \/ db.lists[g] = <<>>
  PROVE  /\ <<h, j + 1>> \in From(m, k)
         /\ From(h, j + 1) = From(m, k) \ {<<h, j + 1>>}
         /\ \A q \in From(m, k) \ {<<h, j + 1>>} : Iter!Before(<<h, j + 1>>, q)
<1> DEFINE p == <<h, j + 1>>
<1>1. /\ DOMAIN db.keys = 1 .. Len(db.keys) /\ Len(db.keys) \in Nat
      /\ \A g \in DOMAIN db.keys : Len(db.lists[g]) \in Nat /\ DOMAIN db.lists[g] = 1 .. Len(db.lists[g])
  BY ListsOf
<1>2. \A q : q \in From(m, k) <=> /\ q[1] \in DOMAIN db.keys /\ q[1] >= m
                                  /\ q[2] \in DOMAIN db.lists[q[1]]
                                  /\ (q[1] = m => q[2] > k)
                                  /\ q = <<q[1], q[2]>>
  BY FromPlaces
<1>3. \A q : q \in From(h, j + 1) <=> /\ q[1] \in DOMAIN db.keys /\ q[1] >= h
                                      /\ q[2] \in DOMAIN db.lists[q[1]]
                                      /\ (q[1] = h => q[2] > j + 1)
                                      /\ q = <<q[1], q[2]>>
  BY FromPlaces
<1>4. \A q \in From(m, k) : q[1] >= h /\ (q[1] = h => q[2] > j)
  <2> TAKE q \in From(m, k)
  <2>1. /\ q[1] \in 1 .. Len(db.keys) /\ q[1] >= m /\ q[2] \in 1 .. Len(db.lists[q[1]])
        /\ (q[1] = m => q[2] > k) /\ Len(db.lists[q[1]]) \in Nat
    BY <1>1, <1>2
  <2>2. CASE q[1] < h
    <3>1. q[1] \in m .. h - 1 /\ q[1] # 0 /\ m # h
      BY <2>1, <2>2
    <3>2. (q[1] = m /\ k >= Len(db.lists[q[1]])) \/ db.lists[q[1]] = <<>>
      BY <3>1
    <3>3. db.lists[q[1]] = <<>> => Len(db.lists[q[1]]) = 0
      OBVIOUS
    <3> QED BY <2>1, <3>2, <3>3
  <2>3. CASE q[1] = h
    BY <2>1, <2>3
  <2> QED BY <2>1, <2>2, <2>3
<1>5. p[1] = h /\ p[2] = j + 1 /\ h \in DOMAIN db.keys /\ j + 1 \in DOMAIN db.lists[h]
  BY <1>1
<1>6. p \in From(m, k)
  <2>1. p[1] = m => p[2] > k
    BY <1>5
  <2> QED BY <1>2, <1>5, <2>1
<1>7. \A q \in From(m, k) \ {p} : Iter!Before(p, q)
  <2> TAKE q \in From(m, k) \ {p}
  <2>1. /\ q[1] >= h /\ (q[1] = h => q[2] > j) /\ q = <<q[1], q[2]>> /\ q # p
        /\ q[1] \in Nat /\ q[2] \in Nat
    BY <1>1, <1>2, <1>4
  <2> QED BY <1>5, <2>1 DEF Iter!Before
<1>8. \A q : q \in From(h, j + 1) <=> q \in From(m, k) /\ q # p
  <2> TAKE q
  <2>1. ASSUME q \in From(h, j + 1)
        PROVE  q \in From(m, k) /\ q # p
    <3>1. /\ q[1] \in 1 .. Len(db.keys) /\ q[1] >= h /\ q[2] \in 1 .. Len(db.lists[q[1]])
          /\ (q[1] = h => q[2] > j + 1) /\ q = <<q[1], q[2]>> /\ q[1] \in DOMAIN db.keys
          /\ q[2] \in DOMAIN db.lists[q[1]]
      BY <1>1, <1>3, <2>1
    <3>2. q # p
      BY <1>5, <3>1
    <3>3. q[1] >= m /\ (q[1] = m => q[2] > k)
      BY <3>1
    <3> QED BY <1>2, <3>1, <3>2, <3>3
  <2>2. ASSUME q \in From(m, k), q # p
        PROVE  q \in From(h, j + 1)
    <3>1. /\ q[1] \in DOMAIN db.keys /\ q[2] \in DOMAIN db.lists[q[1]] /\ q = <<q[1], q[2]>>
          /\ q[1] >= h /\ (q[1] = h => q[2] > j) /\ q[2] \in 1 .. Len(db.lists[q[1]])
      BY <1>1, <1>2, <1>4, <2>2
    <3>2. q[1] = h => q[2] > j + 1
      BY <2>2, <3>1
    <3> QED BY <1>3, <3>1, <3>2
  <2> QED BY <2>1, <2>2
<1> QED BY <1>6, <1>7, <1>8

\* A delta cursor that has read j ids of the list m.
At(m, j) == [list |-> m, read |-> j, left |-> Len(db.lists[m]) - j,
             id |-> IF j = 0 THEN 0 ELSE db.lists[m][j]]

\* It reads the next one: the differences add up.
LEMMA DeltaReads ==
  ASSUME IsDatabase(db), NEW m \in DOMAIN db.lists, NEW j \in Nat, j < Len(db.lists[m])
  PROVE  DeltaNext(At(m, j)) = At(m, j + 1) /\ db.lists[m][j + 1] \in DOMAIN db.vals
<1> DEFINE l == db.lists[m]
<1>1. l \in Seq(DOMAIN db.vals) /\ DOMAIN db.vals \subseteq Nat
  BY DEF IsDatabase
<1>2. Len(l) \in Nat /\ j + 1 \in 1 .. Len(l) /\ (j # 0 => j \in 1 .. Len(l))
  BY <1>1
<1>3. l[j + 1] \in DOMAIN db.vals /\ (j # 0 => l[j] \in DOMAIN db.vals)
  BY <1>1, <1>2
<1>4. At(m, j).id + Delta(l, j + 1) = l[j + 1]
  <2>1. l[j + 1] \in Nat /\ (j # 0 => l[j] \in Nat)
    BY <1>1, <1>3
  <2>2. At(m, j).id = IF j = 0 THEN 0 ELSE l[j]
    BY DEF At
  <2>3. Delta(l, j + 1) = IF j = 0 THEN l[1] ELSE l[j + 1] - l[j]
    BY <1>2 DEF Delta
  <2> HIDE DEF l
  <2> QED BY <2>1, <2>2, <2>3
<1>5. /\ At(m, j).list = m /\ At(m, j).read = j /\ At(m, j).left = Len(l) - j
      /\ Len(l) - j - 1 = Len(l) - (j + 1) /\ j + 1 # 0
  BY <1>2 DEF At
<1>6. DeltaNext(At(m, j)) = [list |-> m, read |-> j + 1, left |-> Len(l) - (j + 1), id |-> l[j + 1]]
  BY <1>4, <1>5 DEF DeltaNext
<1> QED BY <1>3, <1>5, <1>6 DEF At

\* Wherever there is a list, the cursor is that.
LEMMA CursorAt ==
  ASSUME IInv, kind \in {"all", "value"}, cur.list > 0
  PROVE  /\ cur.list \in DOMAIN db.lists /\ cur.read \in Nat
         /\ cur.left = Len(db.lists[cur.list]) - cur.read
         /\ cur = At(cur.list, cur.read)
<1>1. /\ cur = [list |-> cur.list, read |-> cur.read, left |-> cur.left, id |-> cur.id]
      /\ cur.list \in 1 .. Len(db.keys) /\ cur.read \in Nat /\ cur.left \in Nat
      /\ DOMAIN db.lists = 1 .. Len(db.keys)
  BY DEF IInv, TypeOK, Places, IsDatabase
<1>2. Len(db.lists[cur.list]) \in Nat
  BY <1>1 DEF IInv, TypeOK, IsDatabase
<1>3. /\ cur.read + cur.left = Len(db.lists[cur.list])
      /\ cur.id = IF cur.read = 0 THEN 0 ELSE db.lists[cur.list][cur.read]
  BY DEF IInv, DeltaInStep
<1>4. cur.left = Len(db.lists[cur.list]) - cur.read
  BY <1>1, <1>2, <1>3
<1> QED BY <1>1, <1>3, <1>4 DEF At

\* A new delta cursor has read nothing.
LEMMA DeltaCursorAt ==
  ASSUME IsDatabase(db), NEW m \in DOMAIN db.lists
  PROVE  DeltaCursor(m) = At(m, 0)
<1>1. Len(db.lists[m]) \in Nat
  BY DEF IsDatabase
<1> QED BY <1>1 DEF DeltaCursor, At
-----------------------------------------------------------------------------
(***************************************************************************)
(* Calls, as steps of the abstract cursor.                                 *)
(***************************************************************************)
Step == Iter!Next \/ UNCHANGED Iter!vars

\* A value is returned, cannot be decoded, or is not asked for any more.
LEMMA ValueStep ==
  ASSUME IInv, kind # "none", NEW p \in Left, NEW id \in DOMAIN db.vals, ReturnValue(id), UNCHANGED db,
         Iter!String(p) = db.vals[id], \A q \in Left \ {p} : Iter!Before(p, q),
         kind' = kind => Left' = Left \ {p}
  PROVE  /\ Step /\ CountedOut'
         /\ kind' = "crashed" => errno'
         /\ errno' => db'.compressed
         /\ counting' => no_valuestr' /\ kind' \notin {"none", "crashed"}
<1>1. CASE kind' = "crashed" /\ errno /\ errno' /\ ~no_valuestr /\ db.compressed
           /\ entry' = entry /\ counting' = counting /\ asked' = asked /\ no_valuestr' = no_valuestr
  <2>1. UNCHANGED Iter!vars
    BY <1>1 DEF Iter!vars
  <2> QED BY <2>1, <1>1 DEF Step, CountedOut, IInv, CursorsAgree
<1>2. CASE kind' = kind /\ errno' /\ db.compressed /\ ~no_valuestr /\ entry' = Nil /\ ~counting'
           /\ asked' = asked /\ no_valuestr' = no_valuestr
  <2>1. CASE errno
    BY <1>2, <2>1 DEF Step, Iter!Next, Iter!End, CountedOut, IInv, CursorsAgree
  <2>2. CASE ~errno
    BY <1>2, <2>2 DEF Step, Iter!Next, Iter!Break, CountedOut, IInv, CursorsAgree
  <2> QED BY <2>1, <2>2
<1>3. CASE kind' = kind /\ errno /\ errno' /\ entry' = Nil /\ ~counting'
           /\ asked' = asked /\ no_valuestr' = no_valuestr
  BY <1>3 DEF Step, Iter!Next, Iter!End, CountedOut, IInv, CursorsAgree
<1>4. CASE kind' = kind /\ ~errno /\ ~errno' /\ errno' \in BOOLEAN /\ counting' = counting
           /\ entry' = (IF counting THEN Seen ELSE db.vals[id])
           /\ asked' = asked /\ no_valuestr' = no_valuestr
  <2>1. counting = no_valuestr
    BY <1>4 DEF IInv, CountedOut, CursorsAgree, TypeOK
  <2>2. Iter!Give
    <3>1. (IF errno THEN {} ELSE Left) = Left /\ (IF errno THEN {} ELSE Left)' = Left \ {p}
      BY <1>4
    <3>2. entry' = IF no_valuestr THEN Seen ELSE Iter!String(p)
      BY <1>4, <2>1
    <3>3. UNCHANGED <<db, asked, no_valuestr, errno>>
      BY <1>4 DEF IInv, TypeOK
    <3> HIDE DEF Left
    <3> QED BY <3>1, <3>2, <3>3 DEF Iter!Give
  <2> QED BY <1>4, <2>1, <2>2 DEF Step, Iter!Next, CountedOut, IInv, CursorsAgree
<1> QED BY ValueReturned, <1>1, <1>2, <1>3, <1>4

\* The end is reached, or was before.
LEMMA EndStep ==
  ASSUME IInv, kind # "none", Return(Nil), UNCHANGED <<db, fields, errno>>, Left = {}, Left' = {}
  PROVE  /\ Step /\ CountedOut' /\ entry' = Nil /\ counting' = FALSE
         /\ n' \in Nat /\ given' \in Nat
<1>0. counting \in BOOLEAN
  BY DEF IInv, TypeOK
<1>1. entry' = Nil /\ counting' = FALSE /\ n' = n /\ given' = given
  <2>1. CASE counting
    BY <2>1 DEF Return
  <2>2. CASE counting = FALSE
    BY <2>2 DEF Return
  <2> QED BY <2>1, <2>2, <1>0
<1>2. Iter!End
  BY <1>1 DEF Iter!End, fields
<1> QED BY <1>1, <1>2 DEF Step, Iter!Next, CountedOut, IInv, TypeOK
-----------------------------------------------------------------------------
(***************************************************************************)
(* Each call keeps the invariant and is a step of the abstract cursor.     *)
(***************************************************************************)
\* ddb_next over keys.
LEMMA KeyNext ==
  ASSUME IInv, NextKey
  PROVE  IInv' /\ Step /\ Passes
<1> USE DEF NextKey, fields
<1>1. /\ i \in 0 .. Len(db.keys) /\ Len(db.keys) \in Nat /\ DOMAIN db.keys = 1 .. Len(db.keys)
      /\ \A m \in DOMAIN db.keys : db.keys[m] # Nil
      /\ n \in Nat /\ given \in Nat /\ counting \in BOOLEAN /\ CountLimit \in Nat \ {0} /\ Nil # Seen
  BY ReaderAssumption DEF IInv, TypeOK, IsDatabase, Places
<1>2. Left = (i + 1 .. Len(db.keys)) \X {0} /\ Left' = (i' + 1 .. Len(db.keys)) \X {0}
  BY DEF Left
<1>3. CASE i = Len(db.keys)
  <2>1. Left = {} /\ Left' = {}
    BY <1>1, <1>2, <1>3
  <2>2. /\ Step /\ CountedOut' /\ entry' = Nil /\ counting' = FALSE
        /\ n' \in Nat /\ given' \in Nat
    BY <1>3, <2>1, EndStep
  <2>3. Passes
    BY <1>1, <1>3, <2>1 DEF Passes, IInv, CursorsAgree
  <2>4. IInv'
    BY <1>1, <1>3, <2>2 DEF IInv, TypeOK, DeltaInStep, CursorsAgree, Places, IsDatabase
  <2> QED BY <2>2, <2>3, <2>4
<1>4. CASE i # Len(db.keys)
  <2> DEFINE p == <<i + 1, 0>>
  <2>1. p \in Left /\ Left' = Left \ {p} /\ \A q \in Left \ {p} : Iter!Before(p, q)
    BY <1>1, <1>2, <1>4 DEF Iter!Before
  <2>2. i + 1 \in DOMAIN db.keys /\ db.keys[i + 1] # Nil /\ Return(db.keys[i + 1]) /\ i' = i + 1
    BY <1>1, <1>4
  <2>3. ~errno /\ counting = no_valuestr
    <3>1. ~errno
      BY <1>1 DEF IInv, CursorsAgree, TypeOK
    <3> QED BY <3>1, <2>1 DEF IInv, CountedOut, CursorsAgree, TypeOK
  <2>4. counting' = counting /\ entry' = IF counting THEN Seen ELSE db.keys[i + 1]
    BY <2>2, <1>1 DEF Return
  <2>5. n' \in Nat /\ given' \in Nat
    <3>1. (n + 1) % CountLimit \in Nat /\ (given + 1) % CountLimit \in Nat
      BY <1>1
    <3> QED BY <3>1, <2>2, <1>1 DEF Return
  <2>6. Iter!Give
    <3>1. (IF errno THEN {} ELSE Left) = Left /\ (IF errno THEN {} ELSE Left)' = Left \ {p}
      BY <2>1, <2>3
    <3>2. Iter!String(p) = db.keys[i + 1]
      BY DEF Iter!String
    <3> HIDE DEF p
    <3> QED BY <3>1, <3>2, <2>1, <2>3, <2>4 DEF Iter!Give
  <2>7. TypeOK'
    <3>1. i' \in 0 .. Len(db.keys) /\ kind = "keys" /\ UNCHANGED <<kind, db, cur, errno, no_valuestr>>
      BY <1>1, <1>4, <2>2
    <3>2. counting' \in BOOLEAN
      BY <1>1, <2>4
    <3> QED BY <2>5, <3>1, <3>2 DEF IInv, TypeOK, Places, IsDatabase
  <2>8. DeltaInStep' /\ CursorsAgree' /\ CountedOut'
    BY <1>1, <2>3, <2>4 DEF IInv, DeltaInStep, CursorsAgree, CountedOut
  <2>9. Passes
    <3>1. kind' = kind /\ num_items' = num_items /\ errno' = errno /\ ~errno
      BY <2>3
    <3> HIDE DEF p
    <3> QED BY <2>1, <2>2, <3>1 DEF Passes
  <2> QED BY <2>6, <2>7, <2>8, <2>9 DEF Step, Iter!Next, IInv
<1> QED BY <1>3, <1>4

\* ddb_next over unique values: the position does not wrap.
LEMMA UniqueNext ==
  ASSUME IInv, Fits, NextUnique
  PROVE  IInv' /\ Step /\ Passes
<1> USE DEF NextUnique
<1>1. /\ i \in 1 .. Len(db.vals) + 1 /\ Len(db.vals) \in Nat /\ DOMAIN db.vals = 1 .. Len(db.vals)
      /\ IdLimit \in Nat \ {0} /\ kind = "unique"
  BY ReaderAssumption DEF IInv, TypeOK, IsDatabase
<1>2. Left = {0} \X (i .. Len(db.vals)) /\ (kind' = kind => Left' = {0} \X (i' .. Len(db.vals)))
  BY DEF Left
<1>3. CASE i > Len(db.vals)
  <2>1. Left = {} /\ kind' = kind /\ Left' = {}
    BY <1>1, <1>2, <1>3 DEF fields
  <2>2. /\ Step /\ CountedOut' /\ entry' = Nil /\ counting' = FALSE
        /\ n' \in Nat /\ given' \in Nat
    BY <1>3, <2>1, EndStep
  <2>3. Passes
    BY <1>1, <1>3, <2>1 DEF Passes, fields
  <2>4. IInv'
    BY <1>1, <1>3, <2>2 DEF IInv, TypeOK, DeltaInStep, CursorsAgree, Places, IsDatabase, fields
  <2> QED BY <2>2, <2>3, <2>4
<1>4. CASE ~(i > Len(db.vals))
  <2> DEFINE p == <<0, i>>
  <2>0. i' = i + 1
    <3>1. i + 1 \in Nat /\ i + 1 < IdLimit
      BY <1>1, <1>4 DEF Fits
    <3>2. (i + 1) % IdLimit = i + 1
      BY <1>1, <3>1, ModBound
    <3> QED BY <1>1, <1>4, <3>2
  <2>1. p \in Left /\ (kind' = kind => Left' = Left \ {p}) /\ \A q \in Left \ {p} : Iter!Before(p, q)
    BY <1>1, <1>2, <1>4, <2>0 DEF Iter!Before
  <2>2. i \in DOMAIN db.vals /\ ReturnValue(i) /\ UNCHANGED <<db, cur>>
    BY <1>1, <1>4
  <2>3. Iter!String(p) = db.vals[i]
    BY <1>1 DEF Iter!String
  <2>4. /\ Step /\ CountedOut'
        /\ kind' = "crashed" => errno'
        /\ errno' => db'.compressed
        /\ counting' => no_valuestr' /\ kind' \notin {"none", "crashed"}
    <3> HIDE DEF p
    <3> QED BY <1>1, <2>1, <2>2, <2>3, ValueStep
  <2>5. /\ no_valuestr' = no_valuestr /\ errno' \in BOOLEAN /\ kind' \in {kind, "crashed"}
        /\ counting' \in BOOLEAN /\ n' \in Nat /\ given' \in Nat
    BY <2>2, ValueReturned
  <2>6. i' \in 1 .. Len(db.vals) + 1
    BY <1>1, <1>4, <2>0
  <2>7. TypeOK'
    <3>1. kind' \in {"unique", "crashed"} /\ kind' \in Kinds /\ UNCHANGED <<db, cur>>
      BY <1>1, <2>2, <2>5 DEF Kinds
    <3> QED BY <2>5, <2>6, <3>1 DEF IInv, TypeOK, Places, IsDatabase
  <2>8. DeltaInStep' /\ CursorsAgree'
    BY <1>1, <2>2, <2>4, <2>5 DEF IInv, DeltaInStep, CursorsAgree
  <2>9. Passes
    <3>1. kind' = kind => \E q \in Left : Left' = Left \ {q}
      <4> HIDE DEF p
      <4> QED BY <2>1
    <3> QED BY <2>2, <3>1, ValuePasses DEF Passes
  <2> QED BY <2>4, <2>7, <2>8, <2>9 DEF IInv
<1> QED BY <1>3, <1>4

\* A read of the list m, j ids into it, keeps what is known of the delta cursor.
LEMMA ReadStep ==
  ASSUME IInv, kind \in {"all", "value"}, NEW m \in DOMAIN db.lists, NEW j \in Nat,
         j < Len(db.lists[m]), cur' = At(m, j + 1), ReturnValue(cur'.id), UNCHANGED db,
         kind = "all" => i' = m, kind = "value" => i' = i,
         <<m, j + 1>> \in Left, \A q \in Left \ {<<m, j + 1>>} : Iter!Before(<<m, j + 1>>, q),
         kind' = kind => Left' = Left \ {<<m, j + 1>>}
  PROVE  IInv' /\ Step /\ Passes
<1>1. /\ IsDatabase(db) /\ DOMAIN db.lists = 1 .. Len(db.keys) /\ Len(db.keys) \in Nat
      /\ Len(db.lists[m]) \in Nat
  BY ListsOf
<1> DEFINE p == <<m, j + 1>>
           id == db.lists[m][j + 1]
<1>2. /\ cur' = [list |-> m, read |-> j + 1, left |-> Len(db.lists[m]) - (j + 1), id |-> id]
      /\ cur'.id = id /\ id \in DOMAIN db.vals
  <2>1. id \in DOMAIN db.vals
    BY <1>1, DeltaReads
  <2>2. j + 1 # 0
    OBVIOUS
  <2>3. cur' = [list |-> m, read |-> j + 1, left |-> Len(db.lists[m]) - (j + 1), id |-> id]
    BY <2>2 DEF At
  <2> QED BY <2>1, <2>3
<1>3. Iter!String(p) = db.vals[id]
  <2>1. p[1] = m /\ p[2] = j + 1 /\ m # 0 /\ j + 1 # 0
    BY <1>1
  <2> HIDE DEF p
  <2> QED BY <2>1 DEF Iter!String
<1>4. /\ Step /\ CountedOut'
      /\ kind' = "crashed" => errno'
      /\ errno' => db'.compressed
      /\ counting' => no_valuestr' /\ kind' \notin {"none", "crashed"}
  <2>1. p \in Left /\ (\A q \in Left \ {p} : Iter!Before(p, q)) /\ (kind' = kind => Left' = Left \ {p})
    OBVIOUS
  <2>2. ReturnValue(id) /\ kind # "none"
    BY <1>2
  <2> HIDE DEF p, id
  <2> QED BY <1>2, <1>3, <2>1, <2>2, ValueStep
<1>5. /\ no_valuestr' = no_valuestr /\ errno' \in BOOLEAN /\ kind' \in {kind, "crashed"}
      /\ counting' \in BOOLEAN /\ n' \in Nat /\ given' \in Nat
  BY <1>2, ValueReturned
<1>6. TypeOK'
  <2>1. cur' \in [list : Places, read : Nat, left : Nat, id : {0} \cup DOMAIN db.vals]
    <3>1. m \in Places /\ j + 1 \in Nat /\ Len(db.lists[m]) - (j + 1) \in Nat
      BY <1>1 DEF Places
    <3> HIDE DEF id
    <3> QED BY <1>2, <3>1
  <2>2. kind' \in {"all", "value", "crashed"} /\ kind' \in Kinds /\ (kind' = "all" => i' \in Places)
    BY <1>1, <1>5 DEF Kinds, Places
  <2>3. IsDatabase(db)' /\ Places' = Places /\ db' = db
    BY <1>1 DEF IsDatabase, Places
  <2>4. kind' \notin {"keys", "unique"}
    BY <2>2
  <2>5. no_valuestr' \in BOOLEAN
    BY <1>5 DEF IInv, TypeOK
  <2>6. cur' \in [list : Places', read : Nat, left : Nat, id : {0} \cup DOMAIN db'.vals]
    BY <2>1, <2>3
  <2> HIDE DEF id
  <2> QED BY <1>5, <2>2, <2>3, <2>4, <2>5, <2>6 DEF TypeOK
<1>7. DeltaInStep'
  <2>1. \A k \in Nat : (j + 1) + (k - (j + 1)) = k /\ j + 1 # 0
    OBVIOUS
  <2>2. db' = db
    OBVIOUS
  <2> HIDE DEF id
  <2>3. cur'.read = j + 1 /\ cur'.left = Len(db.lists[m]) - (j + 1) /\ cur'.list = m
    BY <1>2
  <2>4. (j + 1) + (Len(db.lists[m]) - (j + 1)) = Len(db.lists[m])
    BY <1>1, <2>1
  <2>5. cur'.read + cur'.left = Len(db.lists[m]) /\ cur'.list = m /\ cur'.read = j + 1
    BY <2>3, <2>4
  <2> QED BY <1>2, <2>1, <2>2, <2>5 DEF DeltaInStep, id
<1>8. CursorsAgree'
  <2>1. cur'.list = m /\ m > 0
    BY <1>1, <1>2
  <2> QED BY <1>4, <1>5, <2>1 DEF CursorsAgree
<1>9. Passes
  <2>1. kind' = kind => \E q \in Left : Left' = Left \ {q}
    OBVIOUS
  <2> HIDE DEF id
  <2> QED BY <1>2, <2>1, ValuePasses DEF Passes
<1> QED BY <1>4, <1>6, <1>7, <1>8, <1>9 DEF IInv

\* A cursor over ids that is at its end stays there.
LEMMA StopStep ==
  ASSUME IInv, kind \in {"all", "value", "empty"}, Return(Nil), UNCHANGED <<db, fields, errno>>,
         Left = {}, Left' = {}, kind = "all" => i' \in Places,
         cur' = cur \/ (kind = "all" /\ i' > 0 /\ cur' = DeltaCursor(i')),
         kind = "all" => cur'.list = i'
  PROVE  IInv' /\ Step /\ Passes
<1>1. /\ Step /\ CountedOut' /\ entry' = Nil /\ counting' = FALSE
      /\ n' \in Nat /\ given' \in Nat
  BY EndStep
<1>2. /\ kind' = kind /\ no_valuestr' = no_valuestr /\ errno' = errno /\ db' = db
      /\ IsDatabase(db)' /\ Places' = Places
  BY DEF fields, IInv, TypeOK, IsDatabase, Places
<1>3. Passes
  BY DEF Passes, fields
<1>4. CASE cur' = cur
  <2>1. TypeOK'
    BY <1>1, <1>2, <1>4 DEF IInv, TypeOK
  <2>2. DeltaInStep'
    BY <1>2, <1>4 DEF IInv, DeltaInStep
  <2>3. CursorsAgree'
    BY <1>1, <1>2, <1>4 DEF IInv, CursorsAgree
  <2> QED BY <1>1, <1>3, <2>1, <2>2, <2>3 DEF IInv
<1>5. CASE kind = "all" /\ i' > 0 /\ cur' = DeltaCursor(i')
  <2>1. i' \in DOMAIN db.lists /\ i' \in Places
    BY <1>5, ListsOf DEF Places
  <2>2. Len(db.lists[i']) \in Nat
    BY <2>1, ListsOf
  <2>3. cur' = [list |-> i', read |-> 0, left |-> Len(db.lists[i']), id |-> 0]
    BY <1>5 DEF DeltaCursor
  <2>4. TypeOK'
    <3>1. cur' \in [list : Places, read : Nat, left : Nat, id : {0} \cup DOMAIN db.vals]
      BY <2>1, <2>2, <2>3
    <3> QED BY <1>1, <1>2, <1>5, <2>1, <3>1 DEF IInv, TypeOK
  <2>5. DeltaInStep'
    <3>1. cur'.read + cur'.left = Len(db.lists[i']) /\ cur'.list = i' /\ cur'.read = 0 /\ cur'.id = 0
      BY <2>2, <2>3
    <3> QED BY <1>2, <3>1 DEF DeltaInStep
  <2>6. CursorsAgree'
    BY <1>1, <1>2, <1>5, <2>1, <2>3 DEF IInv, CursorsAgree
  <2> QED BY <1>1, <1>3, <2>4, <2>5, <2>6 DEF IInv
<1> QED BY <1>4, <1>5

\* ddb_next over the values of a key.
LEMMA ValueNext ==
  ASSUME IInv, NextValue
  PROVE  IInv' /\ Step /\ Passes
<1> DEFINE m == cur.list
           j == cur.read
<1>1. /\ kind = "value" /\ m \in 1 .. Len(db.keys) /\ j \in Nat
      /\ cur.left = Len(db.lists[m]) - j /\ cur = At(m, j)
      /\ m \in DOMAIN db.lists /\ Len(db.lists[m]) \in Nat
  BY ListsOf, CursorAt DEF NextValue, IInv, CursorsAgree
<1>2. Left = {m} \X (j + 1 .. Len(db.lists[m]))
  BY <1>1 DEF Left
<1>3. CASE ReadOn
  <2>1. j < Len(db.lists[m]) /\ UNCHANGED <<db, i>>
    BY <1>1, <1>3 DEF ReadOn
  <2>2. cur' = At(m, j + 1) /\ ReturnValue(cur'.id)
    BY <1>1, <1>3, <2>1, DeltaReads, ListsOf DEF ReadOn
  <2>3. kind' = kind => Left' = {m} \X (j + 2 .. Len(db.lists[m]))
    <3>1. cur'.list = m /\ cur'.read = j + 1 /\ (j + 1) + 1 = j + 2
      BY <1>1, <2>2 DEF At
    <3> HIDE DEF m, j
    <3> QED BY <1>1, <2>1, <3>1 DEF Left
  <2>4. /\ <<m, j + 1>> \in Left /\ \A q \in Left \ {<<m, j + 1>>} : Iter!Before(<<m, j + 1>>, q)
        /\ kind' = kind => Left' = Left \ {<<m, j + 1>>}
    BY <1>1, <1>2, <2>1, <2>3 DEF Iter!Before
  <2> HIDE DEF m, j
  <2> QED BY <1>1, <2>1, <2>2, <2>4, ReadStep
<1>4. CASE cur.left = 0 /\ Return(Nil) /\ UNCHANGED <<db, i, cur, fields, errno>>
  <2>1. Left = {}
    BY <1>1, <1>2, <1>4
  <2>2. Left' = Left
    BY <1>1, <1>4 DEF Left, fields
  <2> QED BY <1>1, <1>4, <2>1, <2>2, StopStep
<1> QED BY <1>3, <1>4 DEF NextValue

\* ddb_next for a key that is not there.
LEMMA EmptyNext ==
  ASSUME IInv, NextEmpty
  PROVE  IInv' /\ Step /\ Passes
<1>1. Left = {} /\ Left' = {}
  BY DEF Left, NextEmpty, fields
<1> QED BY <1>1, StopStep DEF NextEmpty

\* ddb_next over all values: empty lists are passed.
LEMMA AllNext ==
  ASSUME IInv, NextOfAll
  PROVE  IInv' /\ Step /\ Passes
<1>1. /\ kind = "all" /\ cur.list = i /\ i \in 0 .. Len(db.keys) /\ Len(db.keys) \in Nat
      /\ cur.read \in Nat /\ cur.left \in Nat
      /\ DOMAIN db.keys = 1 .. Len(db.keys) /\ DOMAIN db.lists = 1 .. Len(db.keys)
      /\ \A m \in 1 .. Len(db.keys) : /\ Len(db.lists[m]) \in Nat
                                      /\ DOMAIN db.lists[m] = 1 .. Len(db.lists[m])
  BY ListsOf DEF NextOfAll, IInv, TypeOK, CursorsAgree, Places
<1>2. i > 0 => /\ i \in DOMAIN db.lists /\ cur.left = Len(db.lists[i]) - cur.read
               /\ cur = At(i, cur.read)
  BY <1>1, CursorAt
<1>3. Left = From(i, cur.read)
  BY <1>1 DEF Left, From
<1>4. CASE ReadOn
  <2>1. i > 0 /\ UNCHANGED <<db, i>> /\ cur.left > 0
    <3>1. i = 0 => cur = NoDelta
      BY <1>1 DEF IInv, CursorsAgree
    <3>2. i # 0
      BY <1>1, <1>4, <3>1 DEF ReadOn, NoDelta
    <3> QED BY <1>1, <1>4, <3>2 DEF ReadOn
  <2>2. cur.read < Len(db.lists[i])
    BY <1>1, <1>2, <2>1
  <2>3. cur' = At(i, cur.read + 1) /\ ReturnValue(cur'.id)
    BY <1>1, <1>2, <1>4, <2>1, <2>2, DeltaReads, ListsOf DEF ReadOn
  <2>4. kind' = kind => Left' = From(i, cur.read + 1)
    <3>1. cur'.read = cur.read + 1
      BY <2>3 DEF At
    <3> QED BY <1>1, <2>1, <3>1 DEF Left, From
  <2>5. /\ <<i, cur.read + 1>> \in Left
        /\ kind' = kind => Left' = Left \ {<<i, cur.read + 1>>}
        /\ \A q \in Left \ {<<i, cur.read + 1>>} : Iter!Before(<<i, cur.read + 1>>, q)
    BY <1>1, <1>3, <2>1, <2>2, <2>4, FromNext
  <2> QED BY <1>1, <1>2, <2>1, <2>2, <2>3, <2>5, ReadStep
<1>5. i > 0 /\ cur.left = 0 => cur.read >= Len(db.lists[i])
  BY <1>1, <1>2
<1>6. CASE NextList
  <2> DEFINE h == Min(Filled)
  <2>1. h \in Filled /\ \A g \in Filled : h <= g
    <3>1. Filled \subseteq Nat /\ Filled # {}
      BY <1>1, <1>6 DEF Filled, NextList
    <3> QED BY <3>1, MinIsLeast
  <2>2. h \in i + 1 .. Len(db.keys) /\ h \in 1 .. Len(db.keys) /\ db.lists[h] # <<>>
    BY <1>1, <2>1 DEF Filled
  <2>3. \A g \in i .. h - 1 : g = 0 \/ (g = i /\ cur.read >= Len(db.lists[g])) \/ db.lists[g] = <<>>
    <3> TAKE g \in i .. h - 1
    <3>1. CASE g = i
      BY <1>1, <1>5, <1>6, <3>1 DEF NextList
    <3>2. CASE g # i
      <4>1. g \in i + 1 .. Len(db.keys) /\ g < h
        BY <1>1, <2>2, <3>2
      <4>2. g \notin Filled
        BY <1>1, <2>1, <2>2, <4>1
      <4> QED BY <4>1, <4>2 DEF Filled
    <3> QED BY <3>1, <3>2
  <2>4. 0 < Len(db.lists[h])
    <3>1. db.lists[h] \in Seq(DOMAIN db.vals)
      BY <1>1, <2>2, ListsOf DEF IsDatabase
    <3> QED BY <2>2, <3>1
  <2>5. i' = h /\ cur' = DeltaNext(DeltaCursor(h)) /\ ReturnValue(cur'.id) /\ UNCHANGED db
    BY <1>6 DEF NextList
  <2> HIDE DEF h
  <2>6. cur' = At(h, 0 + 1)
    BY <1>1, <2>2, <2>4, <2>5, DeltaCursorAt, DeltaReads, ListsOf
  <2>7. kind' = kind => Left' = From(h, 0 + 1)
    <3>1. cur'.read = 0 + 1
      BY <2>6 DEF At
    <3> QED BY <1>1, <2>5, <3>1 DEF Left, From
  <2>8. /\ <<h, 0 + 1>> \in From(i, cur.read)
        /\ From(h, 0 + 1) = From(i, cur.read) \ {<<h, 0 + 1>>}
        /\ \A q \in From(i, cur.read) \ {<<h, 0 + 1>>} : Iter!Before(<<h, 0 + 1>>, q)
    <3> DEFINE z == 0
    <3>1. h \in i .. Len(db.keys) /\ h > 0 /\ h > i /\ h # i
      BY <1>1, <2>2
    <3>2. z \in Nat /\ z < Len(db.lists[h]) /\ z = 0
      BY <2>4
    <3> HIDE DEF z
    <3>3. /\ <<h, z + 1>> \in From(i, cur.read)
          /\ From(h, z + 1) = From(i, cur.read) \ {<<h, z + 1>>}
          /\ \A q \in From(i, cur.read) \ {<<h, z + 1>>} : Iter!Before(<<h, z + 1>>, q)
      BY <1>1, <2>3, <3>1, <3>2, FromNext
    <3> QED BY <3>2, <3>3
  <2> QED BY <1>1, <1>3, <2>2, <2>4, <2>5, <2>6, <2>7, <2>8, ReadStep
<1>7. CASE NoList
  <2>1. /\ cur.left = 0 /\ Filled = {} /\ i' = Len(db.keys) /\ Return(Nil) /\ UNCHANGED <<db, fields, errno>>
        /\ cur' = IF i = i' THEN cur ELSE DeltaCursor(i')
    BY <1>7 DEF NoList
  <2>2. \A g \in i + 1 .. Len(db.keys) : db.lists[g] = <<>> /\ Len(db.lists[g]) = 0
    <3>1. \A g \in i + 1 .. Len(db.keys) : db.lists[g] = <<>>
      BY <2>1 DEF Filled
    <3> QED BY <3>1
  <2>3. Left = {}
    <3> SUFFICES ASSUME NEW q \in From(i, cur.read) PROVE FALSE
      BY <1>3
    <3>1. /\ q[1] \in 1 .. Len(db.keys) /\ q[1] >= i /\ q[2] \in 1 .. Len(db.lists[q[1]])
          /\ (q[1] = i => q[2] > cur.read)
      BY <1>1, FromPlaces
    <3>2. Len(db.lists[q[1]]) \in Nat
      BY <1>1, <3>1
    <3>3. CASE q[1] = i
      BY <1>1, <1>5, <2>1, <3>1, <3>2, <3>3
    <3>4. CASE q[1] # i
      <4>1. q[1] \in i + 1 .. Len(db.keys)
        BY <1>1, <3>1, <3>4
      <4> QED BY <2>2, <3>1, <4>1
    <3> QED BY <3>3, <3>4
  <2>4. i' \in Places /\ kind' = kind /\ cur'.list = i'
    BY <1>1, <2>1 DEF Places, fields, DeltaCursor
  <2>5. Left' = From(i', cur'.read)
    BY <1>1, <2>1, <2>4 DEF Left, From
  <2>6. Left' = {}
    <3>1. CASE i = i'
      BY <1>3, <2>1, <2>3, <2>5, <3>1
    <3>2. CASE i # i'
      <4> SUFFICES ASSUME NEW q \in From(i', cur'.read) PROVE FALSE
        BY <2>5
      <4>1. q[1] \in 1 .. Len(db.keys) /\ q[1] >= i' /\ q[2] \in 1 .. Len(db.lists[q[1]])
        BY <1>1, FromPlaces
      <4>2. q[1] \in i + 1 .. Len(db.keys)
        BY <1>1, <2>1, <3>2, <4>1
      <4> QED BY <2>2, <4>1, <4>2
    <3> QED BY <3>1, <3>2
  <2>7. cur' = cur \/ (kind = "all" /\ i' > 0 /\ cur' = DeltaCursor(i'))
    BY <1>1, <2>1
  <2> QED BY <1>1, <2>1, <2>3, <2>4, <2>6, <2>7, StopStep
<1> QED BY <1>4, <1>6, <1>7 DEF NextOfAll

\* ddb_cursor_count begins where the cursor is.
LEMMA CountBegins ==
  ASSUME IInv, CountBegin
  PROVE  IInv' /\ Step
<1> USE DEF CountBegin
<1>1. n' \in Nat /\ given' \in Nat
  BY ReaderAssumption DEF IInv, TypeOK
<1>2. Left' = Left
  BY DEF Left
<1>3. Iter!Count
  BY <1>2 DEF Iter!Count
<1>4. TypeOK'
  BY <1>1 DEF IInv, TypeOK, Places, IsDatabase
<1>5. DeltaInStep' /\ CursorsAgree' /\ CountedOut'
  BY DEF IInv, DeltaInStep, CursorsAgree, CountedOut
<1> QED BY <1>3, <1>4, <1>5 DEF Step, Iter!Next, IInv

\* ddb_free_cursor.
LEMMA Frees ==
  ASSUME IInv, FreeCursor
  PROVE  IInv' /\ Step
<1> USE DEF FreeCursor
<1>1. Left' = {}
  BY DEF Left
<1>2. Iter!Opens("nothing", {})
  BY <1>1 DEF Iter!Opens
<1>3. counting \in BOOLEAN /\ ~counting /\ Len(db.keys) \in Nat
  BY ListsOf DEF IInv, TypeOK
<1>4. TypeOK'
  <2>1. NoDelta \in [list : Places, read : Nat, left : Nat, id : {0} \cup DOMAIN db.vals]
    BY <1>3 DEF Places, NoDelta
  <2>2. Places' = Places /\ IsDatabase(db)' /\ kind' \in Kinds
    BY DEF IInv, TypeOK, Places, IsDatabase, Kinds
  <2> QED BY <1>3, <2>1, <2>2 DEF TypeOK
<1>5. DeltaInStep' /\ CursorsAgree' /\ CountedOut'
  BY <1>3 DEF DeltaInStep, CursorsAgree, CountedOut
<1> QED BY <1>2, <1>4, <1>5 DEF Step, Iter!Next, Iter!Open, IInv

\* A cursor that was opened, whatever for.
LEMMA OpensStep ==
  ASSUME IInv, NEW what, NEW k \in Kinds \ {"none", "crashed"}, NEW first, NEW delta, NEW items,
         Opens(what, k, first, delta, items),
         k \in {"keys", "all"} => first = 0,
         k = "unique" => first = 1,
         delta = NoDelta \/ (k = "value" /\ \E m \in DOMAIN db.lists : delta = DeltaCursor(m)),
         k = "value" => delta # NoDelta
  PROVE  IInv' /\ Iter!Opens(what, Left')
<1> USE DEF Opens
<1>1. ~errno /\ ~no_valuestr /\ entry = Nil /\ ~counting
  BY DEF IInv, CursorsAgree
<1>2. Iter!Opens(what, Left')
  BY <1>1 DEF Iter!Opens, IInv, TypeOK
<1>3. IsDatabase(db)' /\ Len(db.keys) \in Nat /\ Len(db.vals) \in Nat /\ db' = db
  BY DEF IInv, TypeOK, IsDatabase
<1>4. CASE delta = NoDelta
  <2>1. TypeOK'
    <3>1. cur' \in [list : Places, read : Nat, left : Nat, id : {0} \cup DOMAIN db.vals]
      BY <1>3, <1>4 DEF Places, NoDelta
    <3>2. k = "keys" => i' \in Places
      BY <1>3 DEF Places
    <3>3. k = "all" => i' \in Places
      BY <1>3 DEF Places
    <3>4. k = "unique" => i' \in 1 .. Len(db.vals) + 1
      BY <1>3
    <3>5. kind' = k /\ Places' = Places /\ UNCHANGED <<errno, no_valuestr, counting, n, given>>
      BY <1>3 DEF Places
    <3> QED BY <1>3, <3>1, <3>2, <3>3, <3>4, <3>5 DEF IInv, TypeOK
  <2>2. DeltaInStep' /\ CursorsAgree' /\ CountedOut'
    BY <1>1, <1>4 DEF DeltaInStep, CursorsAgree, CountedOut, NoDelta
  <2> QED BY <1>2, <2>1, <2>2 DEF IInv
<1>5. CASE k = "value" /\ \E m \in DOMAIN db.lists : delta = DeltaCursor(m)
  <2>1. PICK m \in DOMAIN db.lists : delta = DeltaCursor(m)
    BY <1>5
  <2>2. /\ cur' = [list |-> m, read |-> 0, left |-> Len(db.lists[m]), id |-> 0]
        /\ m \in 1 .. Len(db.keys) /\ Len(db.lists[m]) \in Nat
    BY <2>1, ListsOf DEF DeltaCursor
  <2>3. TypeOK'
    <3>1. cur' \in [list : Places, read : Nat, left : Nat, id : {0} \cup DOMAIN db.vals]
      BY <1>3, <2>2 DEF Places
    <3> QED BY <1>3, <1>5, <3>1 DEF IInv, TypeOK, Places
  <2>4. DeltaInStep'
    <3>1. cur'.read + cur'.left = Len(db.lists[m]) /\ cur'.list = m /\ cur'.read = 0 /\ cur'.id = 0
      BY <2>2
    <3> QED BY <1>3, <3>1 DEF DeltaInStep
  <2>5. CursorsAgree' /\ CountedOut'
    BY <1>1, <1>5, <2>2 DEF CursorsAgree, CountedOut
  <2> QED BY <1>2, <2>3, <2>4, <2>5 DEF IInv
<1> QED BY <1>4, <1>5

\* A cursor over all values has the values of all keys left.
LEMMA AllLeft ==
  ASSUME IInv, OpenValues
  PROVE  Left' = Iter!ValuePlaces
<1>1. /\ Len(db.keys) \in Nat /\ DOMAIN db.keys = 1 .. Len(db.keys)
      /\ \A m \in 1 .. Len(db.keys) : DOMAIN db.lists[m] = 1 .. Len(db.lists[m])
  BY ListsOf
<1>2. Left' = From(0, 0)
  BY <1>1 DEF OpenValues, Opens, NoDelta, Left, From
<1>3. \A m \in DOMAIN db.keys : m >= 0 /\ m # 0
  BY <1>1
<1>4. \A q : q \in From(0, 0) <=> q[1] \in DOMAIN db.keys /\ q[2] \in DOMAIN db.lists[q[1]] /\ q = <<q[1], q[2]>>
  BY <1>3, FromPlaces
<1>5. \A q : q \in Iter!ValuePlaces <=> q[1] \in DOMAIN db.keys /\ q[2] \in DOMAIN db.lists[q[1]] /\ q = <<q[1], q[2]>>
  <2>1. \A q : q \in Iter!ValuePlaces <=> \E m \in DOMAIN db.keys : q \in {m} \X DOMAIN db.lists[m]
    BY DEF Iter!ValuePlaces
  <2> QED BY <2>1
<1> QED BY <1>2, <1>4, <1>5

\* What is opened is what was asked for.
LEMMA Opened ==
  ASSUME IInv, Opening
  PROVE  IInv' /\ Step
<1> USE DEF Kinds
<1>1. /\ IsDatabase(db) /\ db' = db /\ kind = "none"
      /\ DOMAIN db.keys = 1 .. Len(db.keys) /\ DOMAIN db.lists = 1 .. Len(db.keys)
      /\ DOMAIN db.vals = 1 .. Len(db.vals) /\ Len(db.keys) \in Nat
      /\ \A m \in 1 .. Len(db.keys) : DOMAIN db.lists[m] = 1 .. Len(db.lists[m])
  <2>1. db' = db /\ kind = "none"
    BY DEF Opening, OpenKeys, OpenUnique, OpenValues, OpenHashed, OpenScanned, OpenFound, NotFound, Opens
  <2>2. DOMAIN db.vals = 1 .. Len(db.vals)
    BY ListsOf DEF IsDatabase
  <2> QED BY <2>1, <2>2, ListsOf
<1>2. CASE OpenKeys
  <2>1. IInv' /\ Iter!Opens("keys", Left')
    BY <1>2, OpensStep DEF OpenKeys
  <2>2. Left' = Iter!KeyPlaces
    BY <1>1, <1>2 DEF OpenKeys, Opens, Left, Iter!KeyPlaces
  <2> QED BY <2>1, <2>2 DEF Step, Iter!Next, Iter!Open
<1>3. CASE OpenUnique
  <2>1. IInv' /\ Iter!Opens("unique", Left')
    BY <1>3, OpensStep DEF OpenUnique
  <2>2. Left' = Iter!UniquePlaces
    BY <1>1, <1>3 DEF OpenUnique, Opens, Left, Iter!UniquePlaces
  <2> QED BY <2>1, <2>2 DEF Step, Iter!Next, Iter!Open
<1>4. CASE OpenValues
  <2>1. IInv' /\ Iter!Opens("all", Left')
    BY <1>4, OpensStep DEF OpenValues
  <2>2. Left' = Iter!ValuePlaces
    BY <1>4, AllLeft
  <2> QED BY <2>1, <2>2 DEF Step, Iter!Next, Iter!Open
<1>5. ASSUME NEW k \in Keys, NEW m \in DOMAIN db.keys, db.keys[m] = k, OpenFound(k, m)
      PROVE  IInv' /\ Step
  <2>1. m \in DOMAIN db.lists /\ DeltaCursor(m) # NoDelta
    BY <1>1 DEF DeltaCursor, NoDelta
  <2>2. IInv' /\ Iter!Opens(k, Left')
    BY <1>5, <2>1, OpensStep DEF OpenFound
  <2>3. Left' = {m} \X DOMAIN db.lists[m]
    <3>1. cur'.list = m /\ cur'.read = 0 /\ kind' = "value"
      BY <1>5 DEF OpenFound, Opens, DeltaCursor
    <3> QED BY <1>1, <3>1 DEF Left
  <2>4. Left' = Iter!ItemPlaces(k)
    <3>1. \A h \in DOMAIN db.keys : db.keys[h] = k => h = m
      BY <1>1, <1>5 DEF IsDatabase
    <3>2. \A q : q \in Iter!ItemPlaces(k) <=> q \in {m} \X DOMAIN db.lists[m]
      <4>1. \A q : q \in Iter!ItemPlaces(k) <=>
                     db.keys[q[1]] = k /\ \E h \in DOMAIN db.keys : q \in {h} \X DOMAIN db.lists[h]
        BY DEF Iter!ItemPlaces, Iter!ValuePlaces
      <4> QED BY <1>5, <3>1, <4>1
    <3> QED BY <2>3, <3>2
  <2> QED BY <2>2, <2>4 DEF Step, Iter!Next, Iter!Open
<1>6. ASSUME NEW k \in Keys, \A m \in DOMAIN db.keys : db.keys[m] # k, NotFound(k)
      PROVE  IInv' /\ Step
  <2>1. IInv' /\ Iter!Opens(k, Left')
    BY <1>6, OpensStep DEF NotFound
  <2>2. Left' = {}
    BY <1>6 DEF NotFound, Opens, Left
  <2>3. Iter!ItemPlaces(k) = {}
    <3>1. \A q \in Iter!ValuePlaces : q[1] \in DOMAIN db.keys
      BY DEF Iter!ValuePlaces
    <3> QED BY <1>6, <3>1 DEF Iter!ItemPlaces
  <2> QED BY <2>1, <2>2, <2>3 DEF Step, Iter!Next, Iter!Open
<1>7. ASSUME NEW k \in Keys, OpenHashed(k)
      PROVE  IInv' /\ Step
  <2>1. PICK id \in 1 .. Len(db.keys) + 1 :
          /\ \A m \in DOMAIN db.keys : db.keys[m] = k => id = m
          /\ IF id \in DOMAIN db.keys /\ db.keys[id] = k THEN OpenFound(k, id) ELSE NotFound(k)
    BY <1>7 DEF OpenHashed
  <2>2. CASE id \in DOMAIN db.keys /\ db.keys[id] = k
    BY <1>5, <2>1, <2>2
  <2>3. CASE ~(id \in DOMAIN db.keys /\ db.keys[id] = k)
    BY <1>6, <2>1, <2>3
  <2> QED BY <2>2, <2>3
<1>8. ASSUME NEW k \in Keys, OpenScanned(k)
      PROVE  IInv' /\ Step
  <2> DEFINE S == {m \in DOMAIN db.keys : db.keys[m] = k}
  <2>1. CASE S # {}
    <3>1. Max(S) \in S
      <4>1. S \subseteq Nat /\ \A y \in S : y <= Len(db.keys)
        BY <1>1
      <4> HIDE DEF S
      <4> QED BY <1>1, <2>1, <4>1, MaxIsGreatest
    <3>2. OpenFound(k, Max(S))
      BY <1>8, <2>1 DEF OpenScanned
    <3> QED BY <1>5, <3>1, <3>2
  <2>2. CASE S = {}
    BY <1>6, <1>8, <2>2 DEF OpenScanned
  <2> QED BY <2>1, <2>2
<1> QED BY <1>2, <1>3, <1>4, <1>7, <1>8 DEF Opening

-----------------------------------------------------------------------------
\* Without a cursor nothing is left.
LEMMA FirstState ==
  ASSUME Init
  PROVE  IInv /\ Iter!Init
<1>1. IsDatabase(db)
  BY ReaderAssumption DEF Init
<1>2. Len(db.keys) \in Nat
  BY <1>1 DEF IsDatabase
<1>3. NoDelta \in [list : Places, read : Nat, left : Nat, id : {0} \cup DOMAIN db.vals]
  BY <1>2 DEF NoDelta, Places
<1>4. TypeOK
  BY <1>1, <1>2, <1>3 DEF Init, TypeOK, Kinds
<1>5. DeltaInStep /\ CursorsAgree /\ CountedOut
  BY DEF Init, DeltaInStep, CursorsAgree, CountedOut
<1>6. Left = {}
  BY DEF Init, Left
<1> QED BY <1>4, <1>5, <1>6 DEF Init, IInv, Iter!Init

\* All steps together.
LEMMA EveryStep ==
  ASSUME IInv, Fits, [Next]_vars
  PROVE  IInv' /\ Step /\ db' = db
<1>1. CASE Opening
  BY <1>1, Opened DEF Opening, OpenKeys, OpenUnique, OpenValues, OpenHashed, OpenScanned, OpenFound, NotFound, Opens
<1>2. CASE FreeCursor
  BY <1>2, Frees DEF FreeCursor
<1>3. CASE NextKey
  BY <1>3, KeyNext DEF NextKey
<1>4. CASE NextUnique
  BY <1>4, UniqueNext DEF NextUnique
<1>5. CASE NextValue
  BY <1>5, ValueNext DEF NextValue, ReadOn
<1>6. CASE NextOfAll
  BY <1>6, AllNext DEF NextOfAll, ReadOn, NextList, NoList
<1>7. CASE NextEmpty
  BY <1>7, EmptyNext DEF NextEmpty
<1>8. CASE CountBegin
  BY <1>8, CountBegins DEF CountBegin
<1>9. CASE UNCHANGED vars
  <2> USE <1>9 DEF vars
  <2>1. Left' = Left
    BY DEF Left
  <2>2. UNCHANGED Iter!vars
    BY <2>1 DEF Iter!vars
  <2>3. TypeOK'
    BY DEF IInv, TypeOK, Places, IsDatabase
  <2>4. DeltaInStep' /\ CursorsAgree' /\ CountedOut'
    BY <2>1 DEF IInv, DeltaInStep, CursorsAgree, CountedOut
  <2> QED BY <2>2, <2>3, <2>4 DEF IInv, Step
<1> QED BY <1>1, <1>2, <1>3, <1>4, <1>5, <1>6, <1>7, <1>8, <1>9 DEF Next, NextEntry

\* The positions of every cursor stay in the database, and a delta cursor
\* stands at an id of its list.
THEOREM ReaderSafety == ValuesFit => (Spec => []IInv)
<1> SUFFICES ASSUME ValuesFit PROVE Spec => []IInv
  OBVIOUS
<1>1. Init => IInv /\ Fits
  BY FirstState DEF Init, ValuesFit, Fits
<1>2. IInv /\ Fits /\ [Next]_vars => (IInv /\ Fits)'
  BY EveryStep DEF Fits
<1> QED BY <1>1, <1>2, PTL DEF Spec

\* Every cursor of ddb.c returns the strings it was opened for, each once and in
\* order, then NULL, or an error and nothing more.
THEOREM ReaderReadsContents == ValuesFit => (Spec => ContentsSpec)
<1> SUFFICES ASSUME ValuesFit PROVE Spec => ContentsSpec
  OBVIOUS
<1>1. Init => IInv /\ Fits /\ Iter!Init
  BY FirstState DEF Init, ValuesFit, Fits
<1>2. IInv /\ Fits /\ [Next]_vars => (IInv /\ Fits)' /\ [Iter!Next]_(Iter!vars)
  BY EveryStep DEF Fits, Step
<1> QED BY <1>1, <1>2, PTL DEF Spec, ContentsSpec, Iter!Spec

-----------------------------------------------------------------------------
(***************************************************************************)
(* What ddb_cursor_count counts.                                           *)
(***************************************************************************)
\* From the first on, what holds of one holds of all.
LEMMA FromBelow ==
  ASSUME NEW top \in Nat, NEW U, 0 \in U, \A b \in 0 .. top : b < top /\ b \in U => b + 1 \in U
  PROVE  0 .. top \subseteq U
<1> DEFINE S == {b \in 0 .. top : b \notin U}
<1>1. CASE S = {}
  BY <1>1
<1>2. CASE S # {}
  <2>1. S \in SUBSET Nat
    OBVIOUS
  <2>2. PICK b \in S : \A c \in S : b <= c
    <3> HIDE DEF S
    <3> QED BY <1>2, <2>1, NatLeast
  <2>3. b \in 0 .. top /\ b \notin U /\ b # 0
    BY <2>2
  <2>4. b - 1 \in 0 .. top /\ b - 1 < top /\ (b - 1) + 1 = b /\ ~(b <= b - 1)
    BY <2>3
  <2>5. b - 1 \in U
    BY <2>2, <2>4
  <2> QED BY <2>3, <2>4, <2>5
<1> QED BY <1>1, <1>2

\* A set is as large as its pairs with one thing.
LEMMA PairsOfOne ==
  ASSUME NEW S, IsFiniteSet(S), NEW x
  PROVE  /\ IsFiniteSet({x} \X S) /\ Cardinality({x} \X S) = Cardinality(S)
         /\ IsFiniteSet(S \X {x}) /\ Cardinality(S \X {x}) = Cardinality(S)
<1>1. IsFiniteSet({x}) /\ Cardinality({x}) = 1
  BY FS_Singleton
<1>2. Cardinality(S) \in Nat
  BY FS_CardinalityType
<1>3. /\ IsFiniteSet({x} \X S) /\ Cardinality({x} \X S) = Cardinality({x}) * Cardinality(S)
      /\ IsFiniteSet(S \X {x}) /\ Cardinality(S \X {x}) = Cardinality(S) * Cardinality({x})
  BY <1>1, FS_Product
<1> QED BY <1>1, <1>2, <1>3

\* The numbers up to k are k.
LEMMA UpTo ==
  ASSUME NEW k \in Nat
  PROVE  IsFiniteSet(1 .. k) /\ Cardinality(1 .. k) = k
<1>1. IsFiniteSet(1 .. k) /\ Cardinality(1 .. k) = IF 1 > k THEN 0 ELSE k - 1 + 1
  BY FS_Interval
<1>2. (IF 1 > k THEN 0 ELSE k - 1 + 1) = k
  OBVIOUS
<1> QED BY <1>1, <1>2

\* The places of the values of the first m keys.
Upto(m) == UNION {{h} \X DOMAIN db.lists[h] : h \in 1 .. m}

\* The number in the header is that of the values.
LEMMA ValuesCounted ==
  ASSUME IInv
  PROVE  IsFiniteSet(Iter!ValuePlaces) /\ Cardinality(Iter!ValuePlaces) = NumValues
<1>1. PICK top \in Nat : Len(db.keys) = top
  BY ListsOf
<1>2. /\ DOMAIN db.keys = 1 .. top
      /\ \A m \in 1 .. top : Len(db.lists[m]) \in Nat /\ DOMAIN db.lists[m] = 1 .. Len(db.lists[m])
  BY <1>1, ListsOf
<1>3. Upto(0) = {} /\ Upto(top) = Iter!ValuePlaces
  BY <1>2 DEF Upto, Iter!ValuePlaces
<1> DEFINE more(m) == {m} \X DOMAIN db.lists[m]
<1>4. ASSUME NEW m \in 0 .. top, m < top
      PROVE  /\ Upto(m + 1) = Upto(m) \cup more(m + 1) /\ Upto(m) \cap more(m + 1) = {}
             /\ IsFiniteSet(more(m + 1)) /\ Cardinality(more(m + 1)) = Len(db.lists[m + 1])
  <2>1. 1 .. m + 1 = (1 .. m) \cup {m + 1} /\ m + 1 \notin 1 .. m /\ m + 1 \in 1 .. top
    BY <1>4
  <2>2. IsFiniteSet(DOMAIN db.lists[m + 1]) /\ Cardinality(DOMAIN db.lists[m + 1]) = Len(db.lists[m + 1])
    BY <1>2, <2>1, UpTo
  <2>3. IsFiniteSet(more(m + 1)) /\ Cardinality(more(m + 1)) = Len(db.lists[m + 1])
    BY <2>2, PairsOfOne
  <2>4. Upto(m + 1) = Upto(m) \cup more(m + 1)
    BY <2>1 DEF Upto
  <2>5. \A p \in Upto(m) : p[1] \in 1 .. m
    BY DEF Upto
  <2>6. \A p \in more(m + 1) : p[1] = m + 1
    OBVIOUS
  <2> QED BY <2>1, <2>3, <2>4, <2>5, <2>6
<1> HIDE DEF more
<1> DEFINE T == {m \in 0 .. top : IsFiniteSet(Upto(m))}
<1>5. \A m \in 0 .. top : IsFiniteSet(Upto(m))
  <2>1. 0 \in T
    BY <1>3, FS_EmptySet
  <2>2. ASSUME NEW m \in 0 .. top, m < top, m \in T PROVE m + 1 \in T
    <3>1. IsFiniteSet(Upto(m)) /\ IsFiniteSet(more(m + 1)) /\ m + 1 \in 0 .. top
      BY <1>4, <2>2
    <3>2. IsFiniteSet(Upto(m) \cup more(m + 1))
      BY <3>1, FS_Union
    <3> QED BY <1>4, <2>2, <3>1, <3>2
  <2> HIDE DEF T
  <2>3. 0 .. top \subseteq T
    BY <2>1, <2>2, FromBelow
  <2> QED BY <2>3 DEF T
<1>6. ASSUME NEW m \in 0 .. top, m < top
      PROVE  Cardinality(Upto(m + 1)) = Cardinality(Upto(m)) + Len(db.lists[m + 1])
  <2>1. IsFiniteSet(Upto(m)) /\ IsFiniteSet(more(m + 1)) /\ Cardinality(more(m + 1)) = Len(db.lists[m + 1])
    BY <1>4, <1>5, <1>6
  <2>2. Cardinality(Upto(m) \cup more(m + 1))
          = Cardinality(Upto(m)) + Cardinality(more(m + 1)) - Cardinality(Upto(m) \cap more(m + 1))
    BY <2>1, FS_Union
  <2>3. /\ Cardinality(Upto(m) \cap more(m + 1)) = 0 /\ Cardinality(Upto(m)) \in Nat
        /\ Cardinality(more(m + 1)) \in Nat
    BY <1>4, <1>6, <2>1, FS_EmptySet, FS_CardinalityType
  <2>4. Upto(m + 1) = Upto(m) \cup more(m + 1)
    BY <1>4, <1>6
  <2>5. PICK a \in Nat : Cardinality(Upto(m)) = a
    BY <2>3
  <2>6. PICK b \in Nat : Cardinality(more(m + 1)) = b
    BY <2>3
  <2>7. Cardinality(Upto(m + 1)) = a + b - 0
    BY <2>2, <2>3, <2>4, <2>5, <2>6
  <2>8. Len(db.lists[m + 1]) = b
    BY <2>1, <2>6
  <2>9. a + b - 0 = a + b
    OBVIOUS
  <2> QED BY <2>5, <2>7, <2>8, <2>9
<1>7. Cardinality(Upto(0)) = 0
  BY <1>3, FS_EmptySet
<1> DEFINE f == [m \in 0 .. top |-> Cardinality(Upto(m))]
<1>8. ASSUME NEW m \in 0 .. top
      PROVE  Cardinality(Upto(m)) = IF m = 0 THEN 0 ELSE f[m - 1] + Len(db.lists[m])
  <2>1. CASE m = 0
    BY <1>7, <2>1
  <2>2. CASE m # 0
    <3>1. m - 1 \in 0 .. top /\ m - 1 < top /\ (m - 1) + 1 = m
      BY <2>2
    <3>2. Cardinality(Upto((m - 1) + 1)) = Cardinality(Upto(m - 1)) + Len(db.lists[(m - 1) + 1])
      BY <1>6, <3>1
    <3> QED BY <2>2, <3>1, <3>2
  <2> QED BY <2>1, <2>2
<1>9. f = [m \in 0 .. top |-> IF m = 0 THEN 0 ELSE f[m - 1] + Len(db.lists[m])]
  <2> DEFINE g == [m \in 0 .. top |-> IF m = 0 THEN 0 ELSE f[m - 1] + Len(db.lists[m])]
  <2>1. \A m \in 0 .. top : f[m] = Cardinality(Upto(m))
    OBVIOUS
  <2>2. \A m \in 0 .. top : f[m] = g[m]
    <3> HIDE DEF f
    <3> QED BY <1>8, <2>1
  <2>3. f = [m \in 0 .. top |-> f[m]] /\ g = [m \in 0 .. top |-> g[m]]
    <3>1. g = [m \in 0 .. top |-> g[m]]
      <4> HIDE DEF f
      <4> QED OBVIOUS
    <3> HIDE DEF g
    <3> QED BY <3>1
  <2> HIDE DEF f, g
  <2>4. f = g
    BY <2>2, <2>3
  <2> QED BY <2>4 DEF g
<1> DEFINE tally == CHOOSE a : a = [m \in 0 .. top |-> IF m = 0 THEN 0 ELSE a[m - 1] + Len(db.lists[m])]
<1>10. tally = [m \in 0 .. top |-> IF m = 0 THEN 0 ELSE tally[m - 1] + Len(db.lists[m])]
  <2> HIDE DEF f
  <2> QED BY <1>9
<1>11. NumValues = tally[top]
  BY <1>1 DEF NumValues
<1> HIDE DEF tally
<1>12. 0 .. top \subseteq {m \in 0 .. top : tally[m] = Cardinality(Upto(m))}
  <2> DEFINE U == {m \in 0 .. top : tally[m] = Cardinality(Upto(m))}
  <2>1. 0 \in U
    <3>1. tally[0] = 0
      BY <1>10
    <3> QED BY <1>7, <3>1
  <2>2. ASSUME NEW m \in 0 .. top, m < top, m \in U PROVE m + 1 \in U
    <3>1. m + 1 \in 0 .. top /\ m + 1 # 0 /\ (m + 1) - 1 = m
      BY <2>2
    <3>2. tally[m + 1] = tally[m] + Len(db.lists[m + 1])
      BY <1>10, <3>1
    <3>3. tally[m] = Cardinality(Upto(m))
      BY <2>2
    <3> QED BY <1>6, <2>2, <3>1, <3>2, <3>3
  <2> HIDE DEF U
  <2>3. 0 .. top \subseteq U
    BY <2>1, <2>2, FromBelow
  <2> QED BY <2>3 DEF U
<1>13. top \in 0 .. top
  OBVIOUS
<1> QED BY <1>3, <1>5, <1>11, <1>12, <1>13

\* The places of the values of a database.
PlacesIn(d) == UNION {{m} \X DOMAIN d.lists[m] : m \in DOMAIN d.keys}

Counts(d) == {Len(d.keys), Len(d.vals), Cardinality(PlacesIn(d))}

\* num_items has 32 bits.  ddb_cons_add keeps the number of keys and that of values
\* below 2^32, but not that of the values of all keys, which num_values counts.
ItemsFit == \A d \in Databases : \A c \in Counts(d) : c < IdLimit /\ c < CountLimit

ItemsOfThisFit == \A c \in Counts(db) : c < IdLimit /\ c < CountLimit

\* The calls before, those of this count and what is left are what
\* ddb_resultset_size said.
CountInv == /\ kind = "none" => given = 0 /\ n = 0
            /\ ~errno /\ kind # "none" =>
                 /\ num_items \in Nat /\ num_items < CountLimit
                 /\ IsFiniteSet(Left) /\ given + n + Cardinality(Left) = num_items

\* Every call keeps the invariant and passes by one of what is left.
LEMMA CallPasses ==
  ASSUME IInv, Fits, NextEntry
  PROVE  IInv' /\ Passes
<1>1. CASE NextKey
  BY <1>1, KeyNext DEF NextKey
<1>2. CASE NextUnique
  BY <1>2, UniqueNext DEF NextUnique
<1>3. CASE NextValue
  BY <1>3, ValueNext DEF NextValue, ReadOn
<1>4. CASE NextOfAll
  BY <1>4, AllNext DEF NextOfAll, ReadOn, NextList, NoList
<1>5. CASE NextEmpty
  BY <1>5, EmptyNext DEF NextEmpty
<1> QED BY <1>1, <1>2, <1>3, <1>4, <1>5 DEF NextEntry

\* A cursor that was opened has all its items left.
LEMMA OpenedLeaves ==
  ASSUME IInv, CountInv, ItemsOfThisFit, IInv',
         NEW what, NEW k, NEW first, NEW delta, NEW items, Opens(what, k, first, delta, items),
         NEW c \in Counts(db), items \in Nat, items <= c,
         IsFiniteSet(Left'), Cardinality(Left') = items
  PROVE  CountInv'
<1>1. kind = "none" /\ given' = given /\ n' = n /\ num_items' = items % IdLimit
  BY DEF Opens
<1>2. given' = 0 /\ n' = 0
  BY <1>1 DEF CountInv
<1>3. c < IdLimit /\ c < CountLimit /\ IdLimit \in Nat \ {0} /\ CountLimit \in Nat \ {0}
  BY ReaderAssumption DEF ItemsOfThisFit
<1>4. Len(db.keys) \in Nat /\ Len(db.vals) \in Nat /\ Cardinality(PlacesIn(db)) \in Nat
  <2>1. IsFiniteSet(PlacesIn(db))
    BY ValuesCounted DEF PlacesIn, Iter!ValuePlaces
  <2> QED BY <2>1, FS_CardinalityType DEF IInv, TypeOK, IsDatabase
<1>5. c \in Nat
  BY <1>4 DEF Counts
<1>6. items < IdLimit /\ items < CountLimit
  BY <1>3, <1>5
<1>7. num_items' = items
  BY <1>1, <1>3, <1>6, ModBound
<1>8. given' + n' + Cardinality(Left') = items
  BY <1>2
<1> QED BY <1>2, <1>6, <1>7, <1>8 DEF CountInv

\* Whatever is opened.
LEMMA OpeningCounts ==
  ASSUME IInv, CountInv, ItemsOfThisFit, Opening, IInv'
  PROVE  CountInv'
<1>1. PICK top \in Nat : Len(db.keys) = top
  BY ListsOf
<1>2. PICK most \in Nat : Len(db.vals) = most
  BY DEF IInv, TypeOK, IsDatabase
<1>3. /\ DOMAIN db.keys = 1 .. top /\ DOMAIN db.lists = 1 .. top /\ DOMAIN db.vals = 1 .. most
      /\ \A m \in 1 .. top : Len(db.lists[m]) \in Nat /\ DOMAIN db.lists[m] = 1 .. Len(db.lists[m])
  BY <1>1, <1>2, ListsOf DEF IInv, TypeOK, IsDatabase
<1>4. top \in Counts(db) /\ most \in Counts(db) /\ Cardinality(Iter!ValuePlaces) \in Counts(db)
  BY <1>1, <1>2 DEF Counts, PlacesIn, Iter!ValuePlaces
<1>5. IsFiniteSet(Iter!ValuePlaces) /\ Cardinality(Iter!ValuePlaces) = NumValues
  BY ValuesCounted
<1>6. Cardinality(Iter!ValuePlaces) \in Nat
  BY <1>5, FS_CardinalityType
<1>7. CASE OpenKeys
  <2>1. Opens("keys", "keys", 0, NoDelta, top)
    BY <1>1, <1>7 DEF OpenKeys
  <2>2. Left' = (1 .. top) \X {0}
    BY <1>1, <2>1 DEF Opens, Left
  <2>3. IsFiniteSet(1 .. top) /\ Cardinality(1 .. top) = top
    BY UpTo
  <2>4. IsFiniteSet(Left') /\ Cardinality(Left') = top
    BY <2>2, <2>3, PairsOfOne
  <2>5. top <= top
    OBVIOUS
  <2> QED BY <1>4, <2>1, <2>4, <2>5, OpenedLeaves
<1>8. CASE OpenUnique
  <2>1. Opens("unique", "unique", 1, NoDelta, most)
    BY <1>2, <1>8 DEF OpenUnique
  <2>2. Left' = {0} \X (1 .. most)
    BY <1>2, <2>1 DEF Opens, Left
  <2>3. IsFiniteSet(1 .. most) /\ Cardinality(1 .. most) = most
    BY UpTo
  <2>4. IsFiniteSet(Left') /\ Cardinality(Left') = most
    BY <2>2, <2>3, PairsOfOne
  <2>5. most <= most
    OBVIOUS
  <2> QED BY <1>4, <2>1, <2>4, <2>5, OpenedLeaves
<1>9. CASE OpenValues
  <2>1. Opens("all", "all", 0, NoDelta, NumValues)
    BY <1>9 DEF OpenValues
  <2>2. Left' = Iter!ValuePlaces
    BY <1>9, AllLeft DEF OpenValues
  <2>3. IsFiniteSet(Left') /\ Cardinality(Left') = NumValues /\ NumValues \in Nat
    BY <2>2, <1>5, <1>6
  <2>4. NumValues <= NumValues /\ NumValues \in Counts(db)
    BY <2>3, <1>4, <1>5
  <2> QED BY <2>1, <2>3, <2>4, OpenedLeaves
<1>10. ASSUME NEW k, NEW m \in 1 .. top, OpenFound(k, m)
       PROVE  CountInv'
  <2>1. PICK len \in Nat : Len(db.lists[m]) = len
    BY <1>3
  <2>2. Opens(k, "value", 0, DeltaCursor(m), len)
    BY <1>10, <2>1 DEF OpenFound
  <2>3. Left' = {m} \X (1 .. len)
    BY <2>1, <2>2 DEF Opens, DeltaCursor, Left
  <2>4. IsFiniteSet(1 .. len) /\ Cardinality(1 .. len) = len
    BY UpTo
  <2>5. IsFiniteSet(Left') /\ Cardinality(Left') = len
    BY <2>3, <2>4, PairsOfOne
  <2>6. Left' \in SUBSET Iter!ValuePlaces
    <3>1. Left' = {m} \X DOMAIN db.lists[m] /\ m \in DOMAIN db.keys
      BY <1>3, <2>1, <2>3
    <3> QED BY <3>1 DEF Iter!ValuePlaces
  <2>7. Cardinality(Left') <= Cardinality(Iter!ValuePlaces)
    BY <1>5, <2>6, FS_Subset
  <2>8. len <= Cardinality(Iter!ValuePlaces)
    BY <2>5, <2>7
  <2> QED BY <1>4, <2>2, <2>5, <2>8, OpenedLeaves
<1>11. ASSUME NEW k, NotFound(k)
       PROVE  CountInv'
  <2>1. Opens(k, "empty", 0, NoDelta, 0)
    BY <1>11 DEF NotFound
  <2>2. Left' = {}
    BY <2>1 DEF Opens, Left
  <2>3. IsFiniteSet(Left') /\ Cardinality(Left') = 0
    BY <2>2, FS_EmptySet
  <2>4. 0 \in Nat /\ 0 <= top
    OBVIOUS
  <2> QED BY <1>4, <2>1, <2>3, <2>4, OpenedLeaves
<1>12. ASSUME NEW k \in Keys, OpenHashed(k)
       PROVE  CountInv'
  <2>1. PICK id \in 1 .. Len(db.keys) + 1 :
          IF id \in DOMAIN db.keys /\ db.keys[id] = k THEN OpenFound(k, id) ELSE NotFound(k)
    BY <1>12 DEF OpenHashed
  <2>2. CASE id \in 1 .. top /\ OpenFound(k, id)
    BY <1>10, <2>2
  <2>3. CASE NotFound(k)
    BY <1>11, <2>3
  <2> QED BY <1>3, <2>1, <2>2, <2>3
<1>13. ASSUME NEW k \in Keys, OpenScanned(k)
       PROVE  CountInv'
  <2> DEFINE S == {m \in DOMAIN db.keys : db.keys[m] = k}
  <2>1. CASE S # {}
    <3>1. Max(S) \in S
      <4>1. S \in SUBSET Nat /\ \A y \in S : y <= top
        BY <1>3
      <4> HIDE DEF S
      <4> QED BY <2>1, <4>1, MaxIsGreatest
    <3>2. OpenFound(k, Max(S))
      BY <1>13, <2>1 DEF OpenScanned
    <3>3. Max(S) \in 1 .. top
      BY <1>3, <3>1
    <3> QED BY <1>10, <3>2, <3>3
  <2>2. CASE S = {}
    <3>1. NotFound(k)
      BY <1>13, <2>2 DEF OpenScanned
    <3> QED BY <1>11, <3>1
  <2> QED BY <2>1, <2>2
<1> QED BY <1>7, <1>8, <1>9, <1>12, <1>13 DEF Opening

\* A count that goes on by one stays in range.
LEMMA OneOn ==
  ASSUME NEW a \in Nat, NEW b \in Nat, NEW c \in Nat, NEW all \in Nat, a + b + c = all, all < CountLimit, c >= 1
  PROVE  (a + 1) % CountLimit = a + 1 /\ (b + 1) % CountLimit = b + 1
<1>1. CountLimit \in Nat \ {0}
  BY ReaderAssumption
<1>2. a + 1 < CountLimit /\ b + 1 < CountLimit /\ a + 1 \in Nat /\ b + 1 \in Nat
  BY <1>1
<1> QED BY <1>1, <1>2, ModBound

\* What a call returns is counted, and no longer left.
LEMMA CallCounts ==
  ASSUME IInv, CountInv, NextEntry, IInv', Passes
  PROVE  /\ CountInv'
         /\ counting /\ ~counting' /\ ~errno => given + n = num_items
<1>1. kind # "none" /\ errno \in BOOLEAN /\ errno' \in BOOLEAN /\ counting \in BOOLEAN
  BY DEF NextEntry, NextKey, NextUnique, NextValue, NextOfAll, NextEmpty, IInv, TypeOK
<1>2. CASE errno'
  <2>1. kind' # "none"
    BY <1>2 DEF IInv, CursorsAgree
  <2>2. counting => errno
    BY <1>2 DEF Passes
  <2> QED BY <1>2, <2>1, <2>2 DEF CountInv
<1>3. CASE ~errno'
  <2>1. ~errno /\ kind' = kind /\ num_items' = num_items
    BY <1>3 DEF Passes
  <2>2. IsFiniteSet(Left) /\ given + n + Cardinality(Left) = num_items
    BY <1>1, <2>1 DEF CountInv
  <2>3. PICK all \in Nat : num_items = all /\ all < CountLimit
    BY <1>1, <2>1 DEF CountInv
  <2>4. PICK a \in Nat : given = a
    BY DEF IInv, TypeOK
  <2>5. PICK b \in Nat : n = b
    BY DEF IInv, TypeOK
  <2>6. PICK c \in Nat : Cardinality(Left) = c
    BY <2>2, FS_CardinalityType
  <2>7. a + b + c = all
    BY <2>2, <2>3, <2>4, <2>5, <2>6
  <2>8. ASSUME IsFiniteSet(Left'), given' + n' + Cardinality(Left') = all
        PROVE  CountInv'
    BY <1>1, <2>1, <2>3, <2>8 DEF CountInv
  <2>9. CASE Return(Nil) /\ Left = {} /\ Left' = {}
    <3>1. given' = given /\ n' = n
      BY <1>1, <2>9 DEF Return
    <3>2. given' + n' + Cardinality(Left') = all /\ IsFiniteSet(Left')
      BY <2>2, <2>3, <2>9, <3>1
    <3>3. Cardinality(Left) = 0
      BY <2>9, FS_EmptySet
    <3>4. a + b = all
      BY <2>6, <2>7, <3>3
    <3> QED BY <2>3, <2>4, <2>5, <2>8, <3>2, <3>4
  <2>10. CASE \E e : e # Nil /\ Return(e) /\ \E p \in Left : Left' = Left \ {p}
    <3>1. PICK e : e # Nil /\ Return(e) /\ \E p \in Left : Left' = Left \ {p}
      BY <2>10
    <3>2. PICK p \in Left : Left' = Left \ {p}
      BY <3>1
    <3>3. IsFiniteSet(Left') /\ Cardinality(Left') = c - 1
      BY <2>2, <2>6, <3>2, FS_RemoveElement
    <3>4. c - 1 \in Nat
      BY <3>3, FS_CardinalityType
    <3>5. c >= 1
      BY <3>4
    <3>6. (a + 1) % CountLimit = a + 1 /\ (b + 1) % CountLimit = b + 1
      BY <2>3, <2>7, <3>5, OneOn
    <3>7. CASE counting
      <4>1. given' = a /\ n' = (b + 1) % CountLimit /\ counting'
        BY <2>4, <2>5, <3>1, <3>7 DEF Return
      <4>2. given' = a /\ n' = b + 1
        BY <3>6, <4>1
      <4>3. a + (b + 1) + (c - 1) = all
        BY <2>7
      <4> QED BY <2>8, <3>3, <4>1, <4>2, <4>3
    <3>8. CASE ~counting
      <4>1. n' = b /\ given' = (a + 1) % CountLimit
        BY <2>4, <2>5, <3>1, <3>8 DEF Return
      <4>2. n' = b /\ given' = a + 1
        BY <3>6, <4>1
      <4>3. (a + 1) + b + (c - 1) = all
        BY <2>7
      <4> QED BY <2>8, <3>3, <3>8, <4>2, <4>3
    <3> QED BY <1>1, <3>7, <3>8
  <2> QED BY <1>3, <2>9, <2>10 DEF Passes
<1> QED BY <1>1, <1>2, <1>3

\* A count goes on from the calls before it.
LEMMA CountFrom ==
  ASSUME IInv, CountInv, CountBegin
  PROVE  CountInv'
<1>1. /\ kind' = kind /\ errno' = errno /\ num_items' = num_items
      /\ n' = 0 /\ given' = (given + n) % CountLimit /\ kind # "none"
  BY DEF CountBegin
<1>2. Left' = Left
  BY DEF CountBegin, Left
<1>3. CASE ~errno
  <2>1. IsFiniteSet(Left) /\ given + n + Cardinality(Left) = num_items
    BY <1>1, <1>3 DEF CountInv
  <2>2. PICK all \in Nat : num_items = all /\ all < CountLimit
    BY <1>1, <1>3 DEF CountInv
  <2>3. PICK a \in Nat : given + n = a
    BY DEF IInv, TypeOK
  <2>4. PICK c \in Nat : Cardinality(Left) = c
    BY <2>1, FS_CardinalityType
  <2>5. a + c = all /\ CountLimit \in Nat \ {0}
    BY <2>1, <2>2, <2>3, <2>4, ReaderAssumption
  <2>6. a < CountLimit
    BY <2>2, <2>5
  <2>7. given' = a
    BY <1>1, <2>3, <2>5, <2>6, ModBound
  <2>8. given' + n' + Cardinality(Left') = all
    <3>1. n' = 0 /\ Cardinality(Left') = c
      BY <1>1, <1>2, <2>4
    <3>2. a + 0 + c = all
      BY <2>5
    <3> QED BY <2>7, <3>1, <3>2
  <2> QED BY <1>1, <1>2, <2>1, <2>2, <2>8 DEF CountInv
<1>4. CASE errno
  BY <1>1, <1>4 DEF CountInv
<1> QED BY <1>3, <1>4

\* Every step keeps the invariant, and a count that ends has all.
LEMMA EveryStepCounts ==
  ASSUME IInv, Fits, CountInv, ItemsOfThisFit, [Next]_vars
  PROVE  /\ CountInv'
         /\ counting /\ ~counting' /\ ~errno => given + n = num_items
<1>1. IInv'
  BY EveryStep
<1>2. CASE Opening
  <2>1. ~counting
    BY <1>2 DEF Opening, OpenKeys, OpenUnique, OpenValues, OpenHashed, OpenScanned, OpenFound, NotFound,
                Opens, IInv, CursorsAgree
  <2> QED BY <1>1, <1>2, <2>1, OpeningCounts
<1>3. CASE FreeCursor
  BY <1>3 DEF FreeCursor, CountInv
<1>4. CASE NextEntry
  BY <1>1, <1>4, CallPasses, CallCounts
<1>5. CASE CountBegin
  BY <1>5, CountFrom DEF CountBegin
<1>6. CASE UNCHANGED vars
  <2> USE <1>6 DEF vars
  <2>1. Left' = Left
    BY DEF Left
  <2> QED BY <2>1 DEF CountInv
<1> QED BY <1>2, <1>3, <1>4, <1>5, <1>6 DEF Next

\* Whatever cursor is counted, and from wherever in it, ddb_cursor_count and the calls
\* of ddb_next before it add up to ddb_resultset_size, unless a value could not be decoded.
THEOREM CountsAddUp == ValuesFit /\ ItemsFit => (Spec => CountIsRight)
<1> SUFFICES ASSUME ValuesFit, ItemsFit PROVE Spec => CountIsRight
  OBVIOUS
<1>1. Init => IInv /\ Fits /\ CountInv /\ ItemsOfThisFit
  BY FirstState DEF Init, ValuesFit, Fits, ItemsFit, ItemsOfThisFit, CountInv
<1>2. IInv /\ Fits /\ CountInv /\ ItemsOfThisFit /\ [Next]_vars
        => /\ (IInv /\ Fits /\ CountInv /\ ItemsOfThisFit)'
           /\ [counting /\ ~counting' /\ ~errno => given + n = num_items]_vars
  <2> SUFFICES ASSUME IInv, Fits, CountInv, ItemsOfThisFit, [Next]_vars
               PROVE  /\ (IInv /\ Fits /\ CountInv /\ ItemsOfThisFit)'
                      /\ [counting /\ ~counting' /\ ~errno => given + n = num_items]_vars
    OBVIOUS
  <2>1. IInv' /\ db' = db
    BY EveryStep
  <2>2. CountInv' /\ (counting /\ ~counting' /\ ~errno => given + n = num_items)
    BY EveryStepCounts
  <2> QED BY <2>1, <2>2 DEF Fits, ItemsOfThisFit, Counts, PlacesIn
<1> QED BY <1>1, <1>2, PTL DEF Spec, CountIsRight

-----------------------------------------------------------------------------
\* A program that also makes views and files reads like one that only reads.
LEMMA LibraryStep == [LibraryNext]_libraryVars => [Next]_vars
<1> SUFFICES ASSUME [LibraryNext]_libraryVars PROVE [Next]_vars
  OBVIOUS
<1>1. CASE UNCHANGED libraryVars \/ Filing
  BY <1>1 DEF libraryVars, allVars, Filing
<1>2. CASE ReadingOrViewing
  <2>1. CASE Reading
    BY <2>1 DEF Reading
  <2>2. CASE ConsNew \/ ConsFree \/ ViewFree \/ \E s \in Strings : AddTakes(s) \/ AddRefuses(s) \/ AddCrashes(s)
    <3>1. UNCHANGED vars
      BY <2>2 DEF ConsNew, ConsFree, ViewFree, AddTakes, AddRefuses, AddCrashes
    <3> QED BY <3>1
  <2>3. CASE ScanBegin
    BY <2>3 DEF ScanBegin, Next, Opening
  <2>4. CASE ScanValue
    BY <2>4 DEF ScanValue, Next, NextEntry
  <2>5. CASE ScanEnd
    BY <2>5 DEF ScanEnd, Next
  <2> QED BY <1>2, <2>1, <2>2, <2>3, <2>4, <2>5 DEF ReadingOrViewing, ViewNext
<1> QED BY <1>1, <1>2 DEF LibraryNext

\* ddb_view_cons_finalize and ddb_dump use the cursors as their users do: every
\* behaviour of the library is one of the reader.
THEOREM LibraryIsReader == LibrarySpec => Spec
<1>1. LibraryInit => Init
  BY DEF LibraryInit, ViewInit
<1> QED BY <1>1, LibraryStep, PTL DEF LibrarySpec, Spec
-----------------------------------------------------------------------------
(***************************************************************************)
(* The files.                                                              *)
(***************************************************************************)
Cells == [of : Buffers, at : Nat \ {0}]

\* A file and its cells.
LEMMA FileFacts ==
  ASSUME FilesInv
  PROVE  /\ Len(file) \in Nat /\ DOMAIN file = 1 .. Len(file) /\ file \in Seq(Cells)
         /\ \A k \in 1 .. Len(file) : /\ file[k] \in Cells /\ file[k].of \in Buffers
                                      /\ file[k].at \in Nat \ {0} /\ SizeOf[file[k].of] \in Nat
                                      /\ Rest(k) \in Int
         /\ start \in Nat /\ offs \in Nat /\ source \in Buffers \cup {Nowhere}
         /\ source # Nowhere => SizeOf[source] \in Nat
         /\ stopped \in BOOLEAN /\ patched \in BOOLEAN
<1>1. /\ file \in Seq(Cells) /\ start \in Nat /\ offs \in Nat /\ source \in Buffers \cup {Nowhere}
      /\ stopped \in BOOLEAN /\ patched \in BOOLEAN
  BY DEF FilesInv, FileTypes, Cells
<1>2. Len(file) \in Nat /\ DOMAIN file = 1 .. Len(file) /\ \A k \in 1 .. Len(file) : file[k] \in Cells
  BY <1>1
<1>3. \A c \in Cells : c.of \in Buffers /\ c.at \in Nat \ {0}
  BY DEF Cells
<1>4. \A b \in Buffers : SizeOf[b] \in Nat
  BY LoadDumpAssumption
<1>5. \A k \in 1 .. Len(file) : Rest(k) \in Int
  BY <1>2, <1>3, <1>4 DEF Rest
<1> QED BY <1>1, <1>2, <1>3, <1>4, <1>5

\* What passes the tests of ddb_loads is whole, when nothing can be missing
\* from the file but at its end.
LEMMA LoadableIsWhole ==
  ASSUME FilesInv, NEW o \in Nat, Loadable(o), ~patched \/ (source = Nowhere /\ ~stopped)
  PROVE  WholeAt(o)
<1>1. /\ Len(file) \in Nat /\ DOMAIN file = 1 .. Len(file)
      /\ \A k \in 1 .. Len(file) : file[k] \in Cells /\ file[k].of \in Buffers /\ SizeOf[file[k].of] \in Nat
      /\ start \in Nat /\ offs \in Nat
  BY FileFacts
<1>2. Header \in Nat \ {0} /\ Nowhere \notin Buffers \cup Nat
  BY LoadDumpAssumption
<1>3. o + 1 \in DOMAIN file /\ file[o + 1].at = 1
  BY <1>2 DEF Loadable, IsDiscodb, CellAt, Zero
<1>4. o + Header <= Len(file)
  BY <1>1, <1>2, <1>3 DEF Loadable, TooSmall
<1>5. PICK b \in Buffers : b = file[o + 1].of
  BY <1>1, <1>3
<1>6. SizeOf[b] \in Nat /\ Header <= SizeOf[b] /\ Rest(o + 1) = SizeOf[b] - 1
  BY <1>3, <1>5, LoadDumpAssumption DEF Rest
<1>7. \A j \in 1 .. SizeOf[b] - 1 : o + 1 + j <= Len(file) => ~Missing(o + 1, j)
  <2> SUFFICES ASSUME NEW j \in 1 .. SizeOf[b] - 1, o + 1 + j <= Len(file), Missing(o + 1, j)
               PROVE  FALSE
    OBVIOUS
  <2>1. ~patched
    BY DEF Missing
  <2>2. source # Nowhere /\ o + 1 + j > start + offs
    BY <2>1, <1>1 DEF Missing
  <2>3. start + offs = Len(file)
    BY <2>1, <2>2 DEF FilesInv, UnderWay
  <2> QED BY <2>2, <2>3, <1>1
<1>8. \A j \in 1 .. SizeOf[b] - 1 :
        o + 1 + j <= Len(file) => file[o + 1 + j] = [of |-> b, at |-> 1 + j]
  BY <1>3, <1>5, <1>6, <1>7 DEF FilesInv, GoesOn
<1>9. file[o + 1] = [of |-> b, at |-> 1]
  <2>1. file[o + 1] \in Cells
    BY <1>1, <1>3
  <2> QED BY <2>1, <1>3, <1>5 DEF Cells
<1>10. \A k \in 1 .. SizeOf[b] : o + k <= Len(file) => CellAt(o + k) = [of |-> b, at |-> k]
  <2> SUFFICES ASSUME NEW k \in 1 .. SizeOf[b], o + k <= Len(file)
               PROVE  CellAt(o + k) = [of |-> b, at |-> k]
    OBVIOUS
  <2>1. o + k \in DOMAIN file
    BY <1>1
  <2>2. CASE k = 1
    BY <1>9, <2>1, <2>2 DEF CellAt
  <2>3. CASE k # 1
    <3>1. PICK j \in 1 .. SizeOf[b] - 1 : k = 1 + j
      <4>1. k - 1 \in 1 .. SizeOf[b] - 1 /\ k = 1 + (k - 1)
        BY <1>6, <2>3
      <4> QED BY <4>1
    <3>2. o + k = o + 1 + j
      BY <3>1
    <3> QED BY <1>8, <2>1, <3>1, <3>2 DEF CellAt
  <2> QED BY <2>2, <2>3
<1>11. SizeOf[b] <= Len(file) - o
  <2>1. CellAt(o + Header).of = b /\ b # Nowhere
    <3>1. Header \in 1 .. SizeOf[b]
      BY <1>2, <1>6
    <3>2. CellAt(o + Header) = [of |-> b, at |-> Header]
      BY <3>1, <1>4, <1>10
    <3> QED BY <3>2, <1>2
  <2>2. HeadSize(o) = SizeOf[b]
    BY <2>1 DEF HeadSize
  <2> QED BY <1>1, <1>4, <1>2, <1>6, <2>2 DEF Loadable, Truncated
<1>12. \A k \in 1 .. SizeOf[b] : o + k <= Len(file)
  BY <1>1, <1>6, <1>11
<1> QED BY <1>10, <1>12 DEF WholeAt

\* Where nothing was written, the file still has what it had.
LEMMA WholeStays ==
  ASSUME FilesInv, NEW o \in Nat, WholeAt(o), \A k \in DOMAIN file : k \in DOMAIN file' /\ file'[k] = file[k]
  PROVE  WholeAt(o)'
<1>1. PICK b \in Buffers : \A k \in 1 .. SizeOf[b] : CellAt(o + k) = [of |-> b, at |-> k]
  BY DEF WholeAt
<1>2. \A k \in 1 .. SizeOf[b] : CellAt(o + k)' = [of |-> b, at |-> k]
  <2> TAKE k \in 1 .. SizeOf[b]
  <2>1. CellAt(o + k) = [of |-> b, at |-> k]
    BY <1>1
  <2>2. o + k \in DOMAIN file
    BY <2>1, LoadDumpAssumption DEF CellAt, Zero
  <2> QED BY <2>1, <2>2 DEF CellAt
<1> QED BY <1>2 DEF WholeAt

\* What is loaded stays whole in a step that writes nothing over it.
LEMMA LoadedStays ==
  ASSUME FilesInv, mapped' = mapped,
         ~patched' => ~patched /\ \A k \in DOMAIN file : k \in DOMAIN file' /\ file'[k] = file[k]
  PROVE  LoadedStaysWhole'
<1> SUFFICES ASSUME mapped' # Nowhere, ~patched' PROVE WholeAt(mapped)'
  BY DEF LoadedStaysWhole
<1>1. PICK o \in Nat : o = mapped
  BY DEF FilesInv, FileTypes
<1>2. WholeAt(o)
  BY <1>1 DEF FilesInv, LoadedStaysWhole
<1>3. WholeAt(o)'
  BY <1>2, WholeStays
<1> QED BY <1>1, <1>3 DEF WholeAt, CellAt

\* A dump begins.
LEMMA BeginsFiles ==
  ASSUME FilesInv, NEW b \in Buffers, DumpAnew(b) \/ DumpOver(b) \/ DumpBehind(b)
  PROVE  FilesInv'
<1>1. /\ Len(file) \in Nat /\ DOMAIN file = 1 .. Len(file) /\ file \in Seq(Cells)
      /\ \A k \in 1 .. Len(file) : Rest(k) \in Int
      /\ stopped \in BOOLEAN /\ patched \in BOOLEAN
  BY FileFacts
<1>2. /\ source = Nowhere /\ source' = b /\ offs' = 0 /\ stopped' = stopped /\ mapped' = mapped
      /\ start' \in {0, Len(file)} /\ file' \in {<<>>, file}
      /\ patched' = (patched \/ start' # Len(file) \/ (stopped /\ start' > 0))
  BY DEF DumpAnew, DumpOver, DumpBehind, DumpBegins
<1>3. SizeOf[b] \in Nat /\ Nowhere \notin Buffers
  BY LoadDumpAssumption
<1>4. CASE file' = <<>> /\ start' = 0
  <2>1. Len(file') = 0 /\ DOMAIN file' = {} /\ file' \in Seq(Cells)
    BY <1>4
  <2>2. FileTypes'
    BY <1>1, <1>2, <1>3, <1>4, <2>1 DEF FilesInv, FileTypes, Cells
  <2>3. UnderWay'
    BY <1>2, <1>3, <1>4, <2>1 DEF UnderWay
  <2>4. GoesOn'
    BY <2>1 DEF GoesOn
  <2>5. LoadedStaysWhole'
    <3>1. ~patched' => ~patched /\ start' = Len(file)
      BY <1>2
    <3>2. start' = Len(file) => DOMAIN file = {}
      BY <1>1, <1>4
    <3> QED BY <1>2, <3>1, <3>2, LoadedStays
  <2> QED BY <2>2, <2>3, <2>4, <2>5 DEF FilesInv
<1>5. CASE file' = file
  <2>1. FileTypes'
    BY <1>1, <1>2, <1>3, <1>5 DEF FilesInv, FileTypes, Cells
  <2>2. ~stopped' \/ ~patched' => \A k \in 1 .. start' : k + Rest(k)' <= start'
    <3> SUFFICES ASSUME ~stopped' \/ ~patched', NEW k \in 1 .. start'
                 PROVE  k + Rest(k)' <= start'
      OBVIOUS
    <3>1. start' = Len(file) /\ start' > 0 /\ ~stopped /\ k \in 1 .. Len(file)
      BY <1>1, <1>2
    <3>2. Rest(k)' = Rest(k) /\ Rest(k) \in Int
      BY <1>1, <1>5, <3>1 DEF Rest
    <3>3. CASE Rest(k) <= 0
      BY <1>1, <3>1, <3>2, <3>3
    <3>4. CASE Rest(k) > 0
      <4>1. Rest(k) \in 1 .. Rest(k) /\ k \in DOMAIN file
        BY <1>1, <3>1, <3>2, <3>4
      <4>2. ~Missing(k, Rest(k))
        BY <1>2, <3>1 DEF Missing
      <4>3. k + Rest(k) <= Len(file)
        BY <4>1, <4>2 DEF FilesInv, GoesOn
      <4> QED BY <3>1, <3>2, <4>3
    <3> QED BY <3>2, <3>3, <3>4
  <2>3. UnderWay'
    <3>1. start' + offs' <= Len(file') /\ offs' <= SizeOf[source'] /\ 1 .. offs' = {}
      BY <1>1, <1>2, <1>3, <1>5
    <3>2. ~patched' => start' + offs' = Len(file')
      <4>1. ~patched' => start' = Len(file)
        BY <1>2
      <4>2. Len(file) + 0 = Len(file)
        BY <1>1
      <4> QED BY <4>1, <4>2, <1>2, <1>5
    <3> QED BY <2>2, <3>1, <3>2 DEF UnderWay
  <2>4. GoesOn'
    <3> SUFFICES ASSUME NEW k \in DOMAIN file, NEW j \in 1 .. Rest(k)
                 PROVE  \/ k + j <= Len(file) /\ file[k + j] = [of |-> file[k].of, at |-> file[k].at + j]
                        \/ Missing(k, j)'
      BY <1>5 DEF GoesOn, Rest
    <3>1. Missing(k, j) => Missing(k, j)'
      BY <1>2, <1>5 DEF Missing
    <3> QED BY <3>1 DEF FilesInv, GoesOn
  <2>5. LoadedStaysWhole'
    <3>1. ~patched' => ~patched
      BY <1>2
    <3> QED BY <1>2, <1>5, <3>1, LoadedStays
  <2> QED BY <2>1, <2>3, <2>4, <2>5 DEF FilesInv
<1> QED BY <1>4, <1>5 DEF DumpAnew, DumpOver, DumpBehind, DumpBegins

\* The file behind a write.
LEMMA WrittenFile ==
  ASSUME FilesInv, source # Nowhere, NEW w \in Nat \ {0}
  PROVE  /\ Written(w) \in Seq(Cells)
         /\ Len(Written(w)) = IF start + offs + w > Len(file) THEN start + offs + w ELSE Len(file)
         /\ \A k \in 1 .. Len(Written(w)) :
              IF k \in start + offs + 1 .. start + offs + w
              THEN Written(w)[k] = [of |-> source, at |-> k - start]
              ELSE k \in 1 .. Len(file) /\ Written(w)[k] = file[k]
<1> DEFINE m == IF start + offs + w > Len(file) THEN start + offs + w ELSE Len(file)
           here == start + offs + 1 .. start + offs + w
           cell(k) == IF k \in here THEN [of |-> source, at |-> k - start] ELSE CellAt(k)
<1>1. /\ Len(file) \in Nat /\ DOMAIN file = 1 .. Len(file) /\ \A k \in 1 .. Len(file) : file[k] \in Cells
      /\ start \in Nat /\ offs \in Nat /\ source \in Buffers /\ start + offs <= Len(file)
  BY FileFacts DEF FilesInv, UnderWay
<1>2. m \in Nat
  BY <1>1
<1>3. \A k \in 1 .. m : k \in here \/ k \in 1 .. Len(file)
  BY <1>1
<1>4. \A k \in here : [of |-> source, at |-> k - start] \in Cells
  <2> TAKE k \in here
  <2>1. k - start \in Nat \ {0}
    BY <1>1
  <2> QED BY <1>1, <2>1 DEF Cells
<1>5. \A k \in 1 .. m : k \notin here => CellAt(k) = file[k] /\ file[k] \in Cells
  BY <1>1, <1>3 DEF CellAt
<1>6. Written(w) = [k \in 1 .. m |-> cell(k)]
  BY DEF Written
<1>7. \A k \in 1 .. m : cell(k) \in Cells
  BY <1>4, <1>5
<1> HIDE DEF m, cell
<1>8. Written(w) \in Seq(Cells) /\ Len(Written(w)) = m /\ \A k \in 1 .. m : Written(w)[k] = cell(k)
  BY <1>2, <1>6, <1>7
<1> USE DEF cell
<1>9. \A k \in 1 .. m : IF k \in here THEN Written(w)[k] = [of |-> source, at |-> k - start]
                        ELSE k \in 1 .. Len(file) /\ Written(w)[k] = file[k]
  BY <1>3, <1>5, <1>8
<1> QED BY <1>8, <1>9 DEF m

\* A write, which may take less than it was asked to.
LEMMA WritesFiles ==
  ASSUME FilesInv, DumpWrites
  PROVE  FilesInv'
<1>1. PICK s \in Nat, o \in Nat, l \in Nat, b \in Buffers :
        /\ s = start /\ o = offs /\ l = Len(file) /\ b = source
        /\ s + o <= l /\ (patched \/ s + o = l)
  <2>1. Len(file) \in Nat /\ start \in Nat /\ offs \in Nat /\ source \in Buffers
    BY FileFacts DEF DumpWrites
  <2>2. start + offs <= Len(file) /\ (patched \/ start + offs = Len(file))
    BY DEF FilesInv, UnderWay, DumpWrites
  <2> QED BY <2>1, <2>2
<1>2. /\ source # Nowhere /\ source' = b /\ start' = s /\ stopped' = stopped
      /\ patched' = patched /\ mapped' = mapped
      /\ stopped \in BOOLEAN /\ patched \in BOOLEAN /\ SizeOf[b] \in Nat
  BY <1>1, FileFacts DEF DumpWrites
<1>3. PICK w \in Nat \ {0} : w <= SizeOf[b] - o /\ file' = Written(w) /\ offs' = o + w
  <2>1. PICK w \in 1 .. Piece(b) : file' = Written(w) /\ offs' = o + w
    BY <1>1 DEF DumpWrites
  <2>2. BSize \in Nat
    BY LoadDumpAssumption
  <2>3. Piece(b) = IF SizeOf[b] - o > BSize THEN BSize ELSE SizeOf[b] - o
    BY <1>1 DEF Piece
  <2>4. w \in Nat \ {0} /\ w <= SizeOf[b] - o
    BY <1>2, <2>1, <2>2, <2>3
  <2> QED BY <2>1, <2>4
<1>4. PICK e \in Nat, m \in Nat : e = s + o + w /\ m = IF e > l THEN e ELSE l
  OBVIOUS
<1>5. file' \in Seq(Cells) /\ Len(file') = m /\ DOMAIN file' = 1 .. m /\ DOMAIN file = 1 .. l
  <2>1. file' \in Seq(Cells)
    BY <1>2, <1>3, WrittenFile
  <2>2. Len(file') = m
    BY <1>1, <1>2, <1>3, <1>4, WrittenFile
  <2> QED BY <1>1, <2>1, <2>2, FileFacts
<1>6. \A k \in 1 .. m : IF k \in s + o + 1 .. e THEN file'[k] = [of |-> b, at |-> k - s]
                        ELSE k \in 1 .. l /\ file'[k] = file[k]
  BY <1>1, <1>2, <1>3, <1>4, <1>5, WrittenFile
<1>7. \A k \in s + 1 .. e : k \in 1 .. m /\ file'[k] = [of |-> b, at |-> k - s]
  <2> TAKE k \in s + 1 .. e
  <2>1. k \in 1 .. m
    BY <1>1, <1>4
  <2>2. CASE k \in s + o + 1 .. e
    BY <1>6, <2>1, <2>2
  <2>3. CASE k \notin s + o + 1 .. e
    <3>1. PICK h \in 1 .. o : h = k - s /\ k = s + h
      <4>1. k - s \in 1 .. o /\ k = s + (k - s)
        BY <1>4, <2>3
      <4> QED BY <4>1
    <3>2. file[s + h] = [of |-> b, at |-> h]
      BY <1>1, <1>2 DEF FilesInv, UnderWay
    <3> QED BY <1>6, <2>1, <2>3, <3>1, <3>2
  <2> QED BY <2>1, <2>2, <2>3
<1>8. \A k \in 1 .. m : k \notin s + 1 .. e => k \in 1 .. l /\ file'[k] = file[k]
  <2> TAKE k \in 1 .. m
  <2>1. k \notin s + 1 .. e => k \notin s + o + 1 .. e
    BY <1>4
  <2> QED BY <1>6, <2>1
<1>9. \A k \in 1 .. s : k \in 1 .. l /\ k \in 1 .. m /\ k \notin s + 1 .. e
  BY <1>1, <1>4
<1>10. ~stopped \/ ~patched => \A k \in 1 .. s : k + Rest(k) <= s
  BY <1>1, <1>2 DEF FilesInv, UnderWay
<1>11. FileTypes'
  <2>1. offs' \in Nat
    BY <1>3
  <2>2. file' \in Seq([of : Buffers, at : Nat \ {0}])
    BY <1>5 DEF Cells
  <2> QED BY <2>1, <2>2, <1>2 DEF FilesInv, FileTypes
<1>12. UnderWay'
  <2>1. s + (o + w) = e /\ e <= m /\ o + w <= SizeOf[b]
    BY <1>2, <1>3, <1>4
  <2>2. \A k \in 1 .. o + w : file'[s + k] = [of |-> b, at |-> k]
    <3> TAKE k \in 1 .. o + w
    <3>1. PICK h \in s + 1 .. e : h = s + k /\ h - s = k
      <4>1. s + k \in s + 1 .. e /\ s + k - s = k
        BY <1>4
      <4> QED BY <4>1
    <3> QED BY <1>7, <3>1
  <2>3. patched \/ e = m
    <3>1. s + o = l => e = m
      BY <1>4
    <3> QED BY <1>1, <3>1
  <2>4. ~stopped \/ ~patched => \A k \in 1 .. s : k + Rest(k)' <= s
    <3>1. \A k \in 1 .. s : Rest(k)' = Rest(k)
      BY <1>8, <1>9 DEF Rest
    <3> QED BY <1>10, <3>1
  <2> QED BY <2>1, <2>2, <2>3, <2>4, <1>2, <1>3, <1>5 DEF UnderWay
<1>13. GoesOn'
  <2> SUFFICES ASSUME NEW k \in 1 .. m, NEW j \in 1 .. SizeOf[file'[k].of] - file'[k].at,
                      ~Missing(k, j)'
               PROVE  k + j <= m /\ file'[k + j] = [of |-> file'[k].of, at |-> file'[k].at + j]
    BY <1>5 DEF GoesOn, Rest
  <2>1. ~(k \in s + 1 .. e /\ k + j > e) /\ ~(stopped /\ patched) /\ ~(stopped /\ k + j > m)
    <3>1. s + (o + w) = e
      BY <1>4
    <3>2. /\ ~(b # Nowhere /\ k \in s + 1 .. s + (o + w) /\ k + j > s + (o + w))
          /\ ~(stopped /\ (patched \/ k + j > m))
      BY <1>2, <1>3, <1>5 DEF Missing
    <3>3. b # Nowhere
      BY <1>1, <1>2
    <3> QED BY <3>1, <3>2, <3>3
  <2>2. CASE k \in s + 1 .. e
    <3>1. file'[k] = [of |-> b, at |-> k - s] /\ file'[k].of = b /\ file'[k].at = k - s
      BY <1>7, <2>2
    <3>2. PICK g \in Nat : g = SizeOf[b]
      BY <1>2
    <3>3. j \in 1 .. g - (k - s)
      BY <3>1, <3>2
    <3>4. PICK h \in s + 1 .. e : h = k + j /\ h - s = (k - s) + j /\ h <= m
      <4>1. k + j \in s + 1 .. e /\ k + j - s = (k - s) + j /\ k + j <= m
        BY <1>4, <2>1, <2>2, <3>3
      <4> QED BY <4>1
    <3> QED BY <1>7, <3>1, <3>4
  <2>3. CASE k \notin s + 1 .. e
    <3>1. k \in 1 .. l /\ file'[k] = file[k] /\ k \in DOMAIN file
      BY <1>5, <1>8, <2>3
    <3>2. PICK r \in Int : r = Rest(k)
      BY <1>1, <3>1, FileFacts
    <3>3. j \in 1 .. r
      BY <3>1, <3>2 DEF Rest
    <3>4. \/ k + j <= l /\ file[k + j] = [of |-> file[k].of, at |-> file[k].at + j]
          \/ Missing(k, j)
      BY <1>1, <3>1, <3>2, <3>3 DEF FilesInv, GoesOn
    <3>5. Missing(k, j) => stopped /\ (patched \/ k + j > l)
      <4>1. k \notin s + 1 .. s + o
        BY <1>4, <2>3
      <4> QED BY <1>1, <4>1 DEF Missing
    <3>6. CASE k <= s
      <4>1. k + j \in 1 .. s
        <5>1. k + r <= s
          BY <1>2, <1>10, <2>1, <3>2, <3>6
        <5> QED BY <5>1, <3>3
      <4>2. PICK h \in 1 .. s : h = k + j
        BY <4>1
      <4>3. h <= l /\ h <= m /\ file'[h] = file[h]
        BY <1>8, <1>9
      <4>4. ~(k + j > l)
        BY <4>2, <4>3
      <4> QED BY <2>1, <3>1, <3>4, <3>5, <4>2, <4>3, <4>4
    <3>7. CASE k > s
      <4>1. k > e /\ m = l /\ s + o # l
        BY <1>4, <2>3, <3>1, <3>7
      <4>2. ~Missing(k, j)
        BY <1>1, <2>1, <3>5, <4>1
      <4>3. k + j <= l
        BY <3>4, <4>2
      <4>4. PICK h \in 1 .. m : h = k + j /\ h \notin s + 1 .. e
        <5>1. k + j \in 1 .. m /\ k + j \notin s + 1 .. e
          BY <3>3, <4>1, <4>3
        <5> QED BY <5>1
      <4> QED BY <1>8, <3>1, <3>4, <4>2, <4>4
    <3> QED BY <3>6, <3>7
  <2> QED BY <2>2, <2>3
<1>14. LoadedStaysWhole'
  <2>1. ASSUME ~patched, NEW k \in 1 .. l
        PROVE  k \in 1 .. m /\ file'[k] = file[k]
    <3>1. s + o = l
      BY <1>1, <2>1
    <3>2. k \in 1 .. m /\ k \notin s + o + 1 .. e
      BY <3>1, <1>4
    <3> QED BY <1>6, <3>2
  <2> QED BY <1>2, <1>5, <2>1, LoadedStays
<1> QED BY <1>11, <1>12, <1>13, <1>14 DEF FilesInv

\* The last write has been made: nothing of the buffer is missing.
LEMMA EndsFiles ==
  ASSUME FilesInv, DumpEnds
  PROVE  FilesInv'
<1>1. /\ source' = Nowhere /\ start' = 0 /\ offs' = 0 /\ file' = file /\ mapped' = mapped
      /\ stopped' = stopped /\ patched' = patched
      /\ source # Nowhere /\ offs = SizeOf[source]
  BY DEF DumpEnds
<1>2. FileTypes'
  BY <1>1 DEF FilesInv, FileTypes
<1>3. UnderWay'
  BY <1>1 DEF UnderWay
<1>4. ASSUME NEW k \in DOMAIN file, NEW j \in 1 .. Rest(k), Missing(k, j)
      PROVE  Missing(k, j)'
  <2>1. PICK s \in Nat, o \in Nat : s = start /\ o = offs /\ o = SizeOf[source]
    BY <1>1, FileFacts
  <2>2. k \in Nat
    BY FileFacts
  <2>3. ASSUME k \in s + 1 .. s + o, k + j > s + o
        PROVE  FALSE
    <3>1. PICK h \in 1 .. o : h = k - s /\ k = s + h
      <4>1. k - s \in 1 .. o /\ k = s + (k - s)
        BY <2>1, <2>3
      <4> QED BY <4>1
    <3>2. file[k] = [of |-> source, at |-> h]
      BY <1>1, <2>1, <3>1 DEF FilesInv, UnderWay
    <3>3. Rest(k) = o - h
      BY <2>1, <3>2 DEF Rest
    <3>4. j \in 1 .. o - h
      BY <3>3
    <3> QED BY <2>1, <2>3, <3>1, <3>4
  <2>4. stopped /\ (patched \/ k + j > Len(file))
    BY <1>4, <2>1, <2>3 DEF Missing
  <2> QED BY <1>1, <2>4 DEF Missing
<1>5. GoesOn'
  BY <1>1, <1>4 DEF FilesInv, GoesOn, Rest
<1>6. LoadedStaysWhole'
  BY <1>1, LoadedStays
<1> QED BY <1>2, <1>3, <1>5, <1>6 DEF FilesInv

\* A dump is cut off: what is missing now, will be.
LEMMA StopsFiles ==
  ASSUME FilesInv, DumpStops
  PROVE  FilesInv'
<1>1. /\ source' = Nowhere /\ start' = 0 /\ offs' = 0 /\ file' = file /\ mapped' = mapped
      /\ stopped' = TRUE /\ patched' = patched /\ source # Nowhere
  BY DEF DumpStops
<1>2. FileTypes'
  BY <1>1 DEF FilesInv, FileTypes
<1>3. UnderWay'
  BY <1>1 DEF UnderWay
<1>4. ASSUME NEW k \in DOMAIN file, NEW j \in 1 .. Rest(k), Missing(k, j)
      PROVE  Missing(k, j)'
  <2>1. patched \/ start + offs = Len(file)
    BY <1>1 DEF FilesInv, UnderWay
  <2>2. patched \/ k + j > Len(file)
    BY <1>4, <2>1 DEF Missing
  <2> QED BY <1>1, <2>2 DEF Missing
<1>5. GoesOn'
  BY <1>1, <1>4 DEF FilesInv, GoesOn, Rest
<1>6. LoadedStaysWhole'
  BY <1>1, LoadedStays
<1> QED BY <1>2, <1>3, <1>5, <1>6 DEF FilesInv

\* What a load or an unload leaves as it was.
LEMMA SameFile ==
  ASSUME FilesInv, UNCHANGED <<file, source, start, offs, stopped, patched>>
  PROVE  UnderWay' /\ GoesOn'
BY DEF FilesInv, UnderWay, GoesOn, Rest, Missing

\* All steps together.
LEMMA FilesStep ==
  ASSUME FilesInv, [LoadDumpNext]_lvars
  PROVE  FilesInv'
<1>1. ASSUME NEW b \in Buffers, DumpAnew(b) \/ DumpOver(b) \/ DumpBehind(b)
      PROVE  FilesInv'
  BY <1>1, BeginsFiles
<1>2. CASE DumpWrites
  BY <1>2, WritesFiles
<1>3. CASE DumpEnds
  BY <1>3, EndsFiles
<1>4. CASE DumpStops
  BY <1>4, StopsFiles
<1>5. ASSUME NEW o \in 0 .. MaxOffset, Load(o)
      PROVE  FilesInv'
  <2>1. mapped' = o /\ UNCHANGED <<file, source, start, offs, stopped, patched>> /\ Loadable(o) /\ o \in Nat
    BY <1>5, LoadDumpAssumption DEF Load
  <2>2. FileTypes'
    BY <2>1 DEF FilesInv, FileTypes
  <2>3. ~patched => WholeAt(o)
    BY <2>1, LoadableIsWhole
  <2>4. LoadedStaysWhole'
    BY <2>1, <2>3 DEF LoadedStaysWhole, WholeAt, CellAt
  <2>5. UnderWay' /\ GoesOn'
    BY <2>1, SameFile
  <2> QED BY <2>2, <2>4, <2>5 DEF FilesInv
<1>6. CASE Unload \/ UNCHANGED lvars
  <2>1. UNCHANGED <<file, source, start, offs, stopped, patched>> /\ mapped' \in {mapped, Nowhere}
    BY <1>6 DEF Unload, lvars
  <2>2. FileTypes'
    BY <2>1 DEF FilesInv, FileTypes
  <2>3. LoadedStaysWhole'
    BY <2>1 DEF FilesInv, LoadedStaysWhole, WholeAt, CellAt
  <2>4. UnderWay' /\ GoesOn'
    BY <2>1, SameFile
  <2> QED BY <2>2, <2>3, <2>4 DEF FilesInv
<1> QED BY <1>1, <1>2, <1>3, <1>4, <1>5, <1>6 DEF LoadDumpNext

\* An empty file.
LEMMA NoFile == LoadDumpInit => FilesInv
<1> SUFFICES ASSUME LoadDumpInit PROVE FilesInv
  OBVIOUS
<1> USE DEF LoadDumpInit
<1>1. FileTypes
  <2>1. file \in Seq([of : Buffers, at : Nat \ {0}])
    OBVIOUS
  <2>2. source \in Buffers \cup {Nowhere} /\ mapped \in Nat \cup {Nowhere} /\ start \in Nat /\ offs \in Nat
    OBVIOUS
  <2>3. stopped \in BOOLEAN /\ patched \in BOOLEAN
    OBVIOUS
  <2> QED BY <2>1, <2>2, <2>3 DEF FileTypes
<1>2. UnderWay /\ GoesOn /\ LoadedStaysWhole
  BY DEF UnderWay, GoesOn, LoadedStaysWhole
<1> QED BY <1>1, <1>2 DEF FilesInv

\* Of the library's steps the ones that concern files are those of LoadDump.
LEMMA LibraryFiles == [LibraryNext]_libraryVars => [LoadDumpNext]_lvars
BY DEF LibraryNext, Filing, ReadingOrViewing, libraryVars

\* Whatever the sizes, the files and the writes: a database that was dumped from
\* the beginning of a file, or behind whole ones, and could be loaded is whole and
\* stays so, even when its dump was cut off.
THEOREM LoadedIsWhole == LibrarySpec => []LoadedStaysWhole
<1>1. LibraryInit => FilesInv
  BY NoFile DEF LibraryInit
<1>2. FilesInv /\ [LibraryNext]_libraryVars => FilesInv'
  BY FilesStep, LibraryFiles
<1>3. FilesInv => LoadedStaysWhole
  BY DEF FilesInv
<1> QED BY <1>1, <1>2, <1>3, PTL DEF LibrarySpec

\* A load finds a whole database when every dump has come to its end, wherever
\* they were written.
THEOREM CompletedIsWhole == LibrarySpec => DumpedIsLoaded
<1> DEFINE Whole == \A o \in 0 .. MaxOffset :
              mapped = Nowhere /\ mapped' = o /\ source = Nowhere /\ ~stopped => WholeAt(o)
<1>1. LibraryInit => FilesInv
  BY NoFile DEF LibraryInit
<1>2. FilesInv /\ [LibraryNext]_libraryVars => FilesInv'
  BY FilesStep, LibraryFiles
<1>3. FilesInv /\ [LibraryNext]_libraryVars => [Whole]_lvars
  <2> SUFFICES ASSUME FilesInv, LoadDumpNext, NEW o \in 0 .. MaxOffset,
                      mapped = Nowhere, mapped' = o, source = Nowhere, ~stopped
               PROVE  WholeAt(o)
    BY LibraryFiles
  <2>1. o \in Nat /\ mapped' # mapped
    BY LoadDumpAssumption
  <2>2. Loadable(o)
    BY <2>1 DEF LoadDumpNext, DumpAnew, DumpOver, DumpBehind, DumpBegins, DumpWrites, DumpEnds,
                DumpStops, Load, Unload
  <2> QED BY <2>1, <2>2, LoadableIsWhole
<1> QED BY <1>1, <1>2, <1>3, PTL DEF LibrarySpec, DumpedIsLoaded
-----------------------------------------------------------------------------
(***************************************************************************)
(* The strings of a map: what a copy leaves as it was.                     *)
(***************************************************************************)
Pages == [size : Nat, offset : Nat]

LEMMA ViewParameters ==
  /\ Nil \notin Strings /\ MaxItems \in Nat /\ ListBytes \in Nat \ {0}
  /\ ListFirst \in Nat /\ ListInc \in Nat \ {0} /\ PageSize \in Nat /\ Prefix \in Nat
  /\ LengthOf \in [Strings -> Nat] /\ DOMAIN LengthOf = Strings
  /\ \A s \in Strings : B!Fitting(s) \in Nat
<1>1. LengthOf \in [Strings -> Nat] /\ Prefix \in Nat
  BY ViewAssumption
<1>2. \A s \in Strings : LengthOf[s] + Prefix \in Nat
  BY <1>1
<1> QED BY <1>1, <1>2, ViewAssumption DEF B!Fitting

\* set_emptiest finds a page.
LEMMA EmptiestIsAPage ==
  ASSUME NEW P \in Seq(Pages), NEW c \in DOMAIN P, NEW most \in Nat,
         \A k \in DOMAIN P : P[k].offset <= P[k].size /\ P[k].size <= most
  PROVE  B!Emptiest(P, c) \in DOMAIN P
<1> DEFINE S == {P[k].size - P[k].offset : k \in DOMAIN P}
           T == {k \in DOMAIN P : P[k].size - P[k].offset = Max(S)}
<1>1. B!Emptiest(P, c) = IF Max(S) = 0 THEN c ELSE Min(T)
  <2>1. \A U : B!Max(U) = Max(U) /\ B!Min(U) = Min(U)
    BY DEF B!Max, Max, B!Min, Min
  <2>2. B!Emptiest(P, c) = IF B!Max(S) = 0 THEN c
                           ELSE B!Min({k \in DOMAIN P : P[k].size - P[k].offset = B!Max(S)})
    BY DEF B!Emptiest, B!FreeIn
  <2> QED BY <2>1, <2>2
<1>2. DOMAIN P = 1 .. Len(P) /\ \A k \in DOMAIN P : P[k].size \in Nat /\ P[k].offset \in Nat
  <2>1. DOMAIN P = 1 .. Len(P) /\ \A k \in DOMAIN P : P[k] \in Pages
    OBVIOUS
  <2> QED BY <2>1 DEF Pages
<1>3. S \subseteq Nat /\ S # {} /\ \A y \in S : y <= most
  BY <1>2
<1>4. Max(S) \in S
  <2> HIDE DEF S
  <2> QED BY <1>3, MaxIsGreatest
<1>5. T # {} /\ T \subseteq DOMAIN P /\ T \subseteq Nat
  <2>1. PICK k \in DOMAIN P : P[k].size - P[k].offset = Max(S)
    BY <1>4
  <2>2. T \subseteq DOMAIN P /\ k \in T
    BY <2>1
  <2> HIDE DEF T
  <2> QED BY <1>2, <2>2
<1>6. Min(T) \in T
  <2> HIDE DEF T
  <2> QED BY <1>5, MinIsLeast
<1> QED BY <1>1, <1>5, <1>6

\* A string goes behind the offset of a page that has room for it.
LEMMA PageFilled ==
  ASSUME NEW P \in Seq(Pages), NEW c \in DOMAIN P, NEW len \in Nat,
         \A k \in DOMAIN P : P[k].offset <= P[k].size,
         len <= P[c].size - P[c].offset
  PROVE  LET F == [P EXCEPT ![c].offset = @ + len]
         IN  /\ F \in Seq(Pages) /\ DOMAIN F = DOMAIN P
             /\ \A k \in DOMAIN P : /\ F[k].size = P[k].size /\ F[k].offset <= F[k].size
                                    /\ F[k].offset = IF k = c THEN P[k].offset + len ELSE P[k].offset
<1> DEFINE F == [P EXCEPT ![c].offset = @ + len]
<1>1. DOMAIN P = 1 .. Len(P) /\ Len(P) \in Nat /\ \A k \in DOMAIN P : P[k] \in Pages
  OBVIOUS
<1>2. \A k \in DOMAIN P : /\ P[k].size \in Nat /\ P[k].offset \in Nat
                          /\ P[k] = [size |-> P[k].size, offset |-> P[k].offset]
  BY <1>1 DEF Pages
<1>3. DOMAIN F = DOMAIN P
  OBVIOUS
<1>4. F[c] = [size |-> P[c].size, offset |-> P[c].offset + len]
  BY <1>2
<1>5. \A k \in DOMAIN P : k # c => F[k] = P[k]
  OBVIOUS
<1> HIDE DEF F
<1>6. P[c].offset + len \in Nat /\ P[c].offset + len <= P[c].size
  BY <1>2
<1>7. \A k \in DOMAIN P : F[k] \in Pages
  <2>1. F[c] \in Pages
    BY <1>2, <1>4, <1>6 DEF Pages
  <2> QED BY <1>1, <1>5, <2>1
<1>8. F \in Seq(Pages)
  <2>1. F = [k \in 1 .. Len(P) |-> F[k]]
    BY <1>1, <1>3 DEF F
  <2> QED BY <1>1, <1>7, <2>1
<1>9. \A k \in DOMAIN P : /\ F[k].size = P[k].size /\ F[k].offset <= F[k].size
                          /\ F[k].offset = IF k = c THEN P[k].offset + len ELSE P[k].offset
  BY <1>2, <1>4, <1>5, <1>6
<1> QED BY <1>3, <1>8, <1>9 DEF F

\* The pages a string is copied to.
Chain(b, s) == IF B!NeedsPage(b, s) THEN Append(b.pages, B!NewPage(B!Max({B!Fitting(s), PageSize}))) ELSE b.pages
PageFor(b, s) == IF B!NeedsPage(b, s) THEN Len(b.pages) + 1 ELSE b.current

LEMMA ChainFits ==
  ASSUME NEW b, B!Sound(b), NEW s \in Strings
  PROVE  /\ Chain(b, s) \in Seq(Pages) /\ PageFor(b, s) \in DOMAIN Chain(b, s)
         /\ DOMAIN b.pages \subseteq DOMAIN Chain(b, s)
         /\ \A k \in DOMAIN b.pages : Chain(b, s)[k] = b.pages[k]
         /\ \A k \in DOMAIN Chain(b, s) : Chain(b, s)[k].offset <= Chain(b, s)[k].size
         /\ \E most \in Nat : \A k \in DOMAIN Chain(b, s) : Chain(b, s)[k].size <= most
         /\ B!Fitting(s) <= Chain(b, s)[PageFor(b, s)].size - Chain(b, s)[PageFor(b, s)].offset
<1>1. /\ b.pages \in Seq(Pages) /\ b.current \in DOMAIN b.pages
      /\ \A k \in DOMAIN b.pages : b.pages[k].offset <= b.pages[k].size
      /\ B!Fitting(s) \in Nat /\ PageSize \in Nat
  BY ViewParameters DEF B!Sound, Pages
<1>2. DOMAIN b.pages = 1 .. Len(b.pages) /\ Len(b.pages) \in Nat /\ \A k \in DOMAIN b.pages : b.pages[k] \in Pages
  BY <1>1
<1>4. \A k \in DOMAIN b.pages : b.pages[k].size \in Nat /\ b.pages[k].offset \in Nat
  BY <1>2 DEF Pages
<1>3. PICK most \in Nat : \A k \in DOMAIN b.pages : b.pages[k].size <= most
  <2>1. PICK h \in DOMAIN b.pages : \A k \in DOMAIN b.pages : b.pages[k].size <= b.pages[h].size
    BY DEF B!Sound
  <2> QED BY <1>4, <2>1
<1>5. CASE B!NeedsPage(b, s)
  <2>1. PICK g \in Nat : g = B!Max({B!Fitting(s), PageSize}) /\ g >= B!Fitting(s)
    <3>1. PICK f \in Nat : f = B!Fitting(s)
      BY <1>1
    <3> DEFINE S == {f, PageSize}
    <3>2. S \subseteq Nat /\ S # {} /\ f \in S /\ f + PageSize \in Nat /\ \A y \in S : y <= f + PageSize
      BY <1>1
    <3> HIDE DEF S
    <3>3. Max(S) \in S /\ f <= Max(S)
      BY <3>2, MaxIsGreatest
    <3>4. B!Max(S) = Max(S)
      BY DEF B!Max, Max
    <3> QED BY <3>1, <3>2, <3>3, <3>4 DEF S
  <2> DEFINE new == [size |-> g, offset |-> 0]
  <2>2. Chain(b, s) = Append(b.pages, new) /\ PageFor(b, s) = Len(b.pages) + 1
    BY <1>5, <2>1 DEF Chain, PageFor, B!NewPage
  <2>3. new \in Pages
    BY DEF Pages
  <2> HIDE DEF new
  <2>4. /\ Append(b.pages, new) \in Seq(Pages)
        /\ DOMAIN Append(b.pages, new) = 1 .. Len(b.pages) + 1
        /\ \A k \in 1 .. Len(b.pages) : Append(b.pages, new)[k] = b.pages[k]
        /\ Append(b.pages, new)[Len(b.pages) + 1] = new
    BY <1>1, <1>2, <2>3
  <2>5. Chain(b, s)[PageFor(b, s)].size = g /\ Chain(b, s)[PageFor(b, s)].offset = 0
    BY <2>2, <2>4 DEF new
  <2>6. \A k \in 1 .. Len(b.pages) + 1 : k \in 1 .. Len(b.pages) \/ k = PageFor(b, s)
    BY <1>2, <2>2
  <2>7. \A k \in DOMAIN Chain(b, s) : Chain(b, s)[k].offset <= Chain(b, s)[k].size
    BY <1>1, <1>2, <2>1, <2>2, <2>4, <2>5, <2>6
  <2>8. \A k \in DOMAIN Chain(b, s) : Chain(b, s)[k].size <= most + g
    <3>1. \A k \in DOMAIN b.pages : b.pages[k].size <= most + g
      BY <1>3, <1>4, <2>1
    <3>2. g <= most + g
      OBVIOUS
    <3> QED BY <3>1, <3>2, <1>2, <2>2, <2>4, <2>5, <2>6
  <2>9. most + g \in Nat
    OBVIOUS
  <2>10. PageFor(b, s) \in DOMAIN Chain(b, s) /\ DOMAIN b.pages \subseteq DOMAIN Chain(b, s)
    BY <1>2, <2>2, <2>4
  <2>11. B!Fitting(s) <= Chain(b, s)[PageFor(b, s)].size - Chain(b, s)[PageFor(b, s)].offset
    BY <1>1, <2>1, <2>5
  <2> QED BY <1>2, <2>2, <2>4, <2>7, <2>8, <2>9, <2>10, <2>11
<1>6. CASE ~B!NeedsPage(b, s)
  <2>1. Chain(b, s) = b.pages /\ PageFor(b, s) = b.current
    BY <1>6 DEF Chain, PageFor
  <2>2. B!Fitting(s) <= b.pages[b.current].size - b.pages[b.current].offset
    BY <1>1, <1>4, <1>6 DEF B!NeedsPage, B!FreeIn
  <2> QED BY <1>1, <1>3, <2>1, <2>2
<1> QED BY <1>5, <1>6

Slots == [of : Strings, page : Nat, at : Nat, len : Nat]

\* What is in the buffer lies apart, whatever the list.
Laid(b) ==
  /\ b.pages \in Seq(Pages) /\ b.current \in DOMAIN b.pages
  /\ b.entries \in Seq(Slots)
  /\ \A k \in DOMAIN b.pages : b.pages[k].offset <= b.pages[k].size
  /\ \E most \in Nat : \A k \in DOMAIN b.pages : b.pages[k].size <= most
  /\ \A k \in DOMAIN b.entries :
       /\ b.entries[k].page \in DOMAIN b.pages
       /\ b.entries[k].at + b.entries[k].len <= b.pages[b.entries[k].page].offset
  /\ \A k, j \in DOMAIN b.entries : k # j => ~B!Overlap(b.entries[k], b.entries[j])

\* A copied string lies behind the strings of its page, and in it.
LEMMA CopiedLaid ==
  ASSUME NEW b, B!Sound(b), NEW s \in Strings
  PROVE  LET C == B!Copied(b, s)
         IN  /\ Laid(C) /\ C.list = b.list /\ DOMAIN C = DOMAIN b
             /\ \A t : (\E k \in DOMAIN b.entries : b.entries[k].of = t) \/ t = s
                         => \E k \in DOMAIN C.entries : C.entries[k].of = t
<1> DEFINE C == B!Copied(b, s)
<1>0. PICK P, a, f : P = Chain(b, s) /\ a = PageFor(b, s) /\ f = B!Fitting(s)
  OBVIOUS
<1>20. /\ P \in Seq(Pages) /\ a \in DOMAIN P /\ f \in Nat
       /\ \A k \in DOMAIN b.pages : k \in DOMAIN P /\ P[k] = b.pages[k]
       /\ \A k \in DOMAIN P : P[k].offset <= P[k].size
       /\ f <= P[a].size - P[a].offset
  BY <1>0, ChainFits, ViewParameters
<1>21. PICK most \in Nat : \A k \in DOMAIN P : P[k].size <= most
  BY <1>0, ChainFits
<1>1. /\ DOMAIN P \subseteq Nat
      /\ \A k \in DOMAIN P : P[k].offset <= P[k].size /\ P[k].size <= most
      /\ f <= P[a].size - P[a].offset
      /\ \A k \in DOMAIN b.pages : k \in DOMAIN P /\ P[k] = b.pages[k]
  BY <1>20, <1>21
<1>2. PICK F :
        /\ F = [P EXCEPT ![a].offset = @ + f] /\ F \in Seq(Pages) /\ DOMAIN F = DOMAIN P
        /\ \A k \in DOMAIN P : /\ F[k].size = P[k].size /\ F[k].offset <= F[k].size
                               /\ F[k].offset = IF k = a THEN P[k].offset + f ELSE P[k].offset
  <2> DEFINE G == [P EXCEPT ![a].offset = @ + f]
  <2>1. /\ G \in Seq(Pages) /\ DOMAIN G = DOMAIN P
        /\ \A k \in DOMAIN P : /\ G[k].size = P[k].size /\ G[k].offset <= G[k].size
                               /\ G[k].offset = IF k = a THEN P[k].offset + f ELSE P[k].offset
    BY <1>20, PageFilled
  <2>2. G = [P EXCEPT ![a].offset = @ + f]
    OBVIOUS
  <2> HIDE DEF G
  <2> QED BY <2>1, <2>2
<1>3. b.current \in DOMAIN F /\ a \in Nat /\ \A k \in DOMAIN P : P[k].offset \in Nat /\ P[k].size \in Nat
  <2>1. DOMAIN P = 1 .. Len(P) /\ \A k \in DOMAIN P : P[k] \in Pages
    BY <1>20
  <2>2. b.current \in DOMAIN b.pages
    BY DEF B!Sound
  <2> QED BY <1>1, <1>2, <1>20, <2>1, <2>2 DEF Pages
<1>4. PICK c \in DOMAIN F : c = IF B!NeedsPage(b, s) THEN B!Emptiest(F, b.current) ELSE b.current
  <2>1. B!Emptiest(F, b.current) \in DOMAIN F
    BY <1>20, <1>21, <1>2, <1>3, EmptiestIsAPage
  <2> QED BY <1>3, <2>1
<1>5. PICK x \in Slots :
        x = [of |-> s, page |-> a, at |-> P[a].offset, len |-> f]
  <2>1. P[a].offset \in Nat
    BY <1>3, <1>20
  <2> QED BY <1>3, <1>20, <2>1 DEF Slots
<1>6. PICK m \in Nat : /\ m = Len(b.entries) /\ DOMAIN b.entries = 1 .. m
                       /\ b.entries \in Seq(Slots)
  <2>1. b.entries \in Seq(Slots)
    BY ViewParameters DEF B!Sound, Slots
  <2> QED BY <2>1
<1>7. C = [pages |-> F, current |-> c, entries |-> Append(b.entries, x), list |-> b.list]
  BY <1>0, <1>2, <1>4, <1>5 DEF B!Copied, Chain, PageFor
<1>8. PICK E : /\ E = Append(b.entries, x) /\ E \in Seq(Slots) /\ DOMAIN E = 1 .. m + 1 /\ E[m + 1] = x
               /\ \A k \in 1 .. m : E[k] = b.entries[k]
  <2>1. PICK e \in Seq(Slots) : e = b.entries /\ Len(e) = m
    BY <1>6
  <2>2. /\ Append(e, x) \in Seq(Slots) /\ DOMAIN Append(e, x) = 1 .. m + 1 /\ Append(e, x)[m + 1] = x
        /\ \A k \in 1 .. m : Append(e, x)[k] = e[k]
    BY <2>1
  <2> QED BY <2>1, <2>2
<1>9. \A k \in 1 .. m + 1 : k \in 1 .. m \/ k = m + 1
  BY <1>6
<1>10. \A k \in 1 .. m : /\ E[k].page \in Nat /\ E[k].at \in Nat /\ E[k].len \in Nat
                         /\ E[k].page \in DOMAIN b.pages /\ E[k].page \in DOMAIN P
                         /\ E[k].at + E[k].len <= P[E[k].page].offset
  <2> TAKE k \in 1 .. m
  <2>1. E[k] = b.entries[k] /\ k \in DOMAIN b.entries /\ E[k] \in Slots
    BY <1>6, <1>8
  <2>2. E[k].page \in Nat /\ E[k].at \in Nat /\ E[k].len \in Nat
    BY <2>1 DEF Slots
  <2>3. E[k].page \in DOMAIN b.pages /\ E[k].at + E[k].len <= b.pages[E[k].page].offset
    BY <2>1 DEF B!Sound
  <2> QED BY <1>1, <2>2, <2>3
<1>11. x.page = a /\ x.at = P[a].offset /\ x.len = f /\ x.of = s
  BY <1>5
<1>12. \A k \in 1 .. m + 1 : E[k].page \in DOMAIN F /\ E[k].at + E[k].len <= F[E[k].page].offset
  <2>1. ASSUME NEW k \in 1 .. m
        PROVE  E[k].page \in DOMAIN F /\ E[k].at + E[k].len <= F[E[k].page].offset
    <3>1. PICK g \in DOMAIN P : g = E[k].page
      BY <1>10
    <3>2. PICK u \in Nat, v \in Nat : u = P[g].offset /\ v = F[g].offset /\ u <= v
      <4>1. P[g].offset \in Nat
        BY <1>3
      <4>2. F[g].offset = P[g].offset + f \/ F[g].offset = P[g].offset
        BY <1>2
      <4> QED BY <4>1, <4>2, <1>20
    <3>3. PICK e1 \in Nat, e2 \in Nat : e1 = E[k].at /\ e2 = E[k].len /\ e1 + e2 <= u
      BY <1>10, <3>1, <3>2
    <3>4. F[E[k].page].offset = v /\ E[k].page \in DOMAIN F
      BY <1>2, <3>1, <3>2
    <3>5. e1 + e2 <= v
      BY <3>2, <3>3
    <3> QED BY <3>3, <3>4, <3>5
  <2>2. x.page \in DOMAIN F /\ x.at + x.len <= F[x.page].offset
    <3>1. F[a].offset = P[a].offset + f /\ a \in DOMAIN F /\ P[a].offset \in Nat
      BY <1>2, <1>3, <1>20
    <3> QED BY <1>11, <1>20, <3>1
  <2> QED BY <1>8, <1>9, <2>1, <2>2
<1>13. \A k, j \in 1 .. m + 1 : k # j => ~B!Overlap(E[k], E[j])
  <2>1. \A k, j \in 1 .. m : k # j => ~B!Overlap(E[k], E[j])
    BY <1>6, <1>8 DEF B!Sound
  <2>2. ASSUME NEW k \in 1 .. m
        PROVE  ~B!Overlap(E[k], x) /\ ~B!Overlap(x, E[k])
    <3>1. E[k].page = a => E[k].at + E[k].len <= P[a].offset
      BY <1>10
    <3>2. PICK e1 \in Nat, e2 \in Nat, u \in Nat : e1 = E[k].at /\ e2 = E[k].len /\ u = x.at
      BY <1>3, <1>10, <1>11, <1>20
    <3>3. E[k].page = x.page => e1 + e2 <= u
      BY <1>11, <3>1, <3>2
    <3> QED BY <3>2, <3>3 DEF B!Overlap
  <2> QED BY <1>8, <1>9, <2>1, <2>2
<1>14. Laid(C)
  <2>1. /\ C.pages = F /\ C.current = c /\ C.entries = E /\ C.list = b.list
    BY <1>7, <1>8
  <2>2. \A k \in DOMAIN F : F[k].offset <= F[k].size /\ F[k].size <= most
    BY <1>2, <1>21
  <2> QED BY <1>8, <1>2, <1>12, <1>13, <2>1, <2>2 DEF Laid
<1>15. \A t : (\E k \in DOMAIN b.entries : b.entries[k].of = t) \/ t = s
                => \E k \in DOMAIN C.entries : C.entries[k].of = t
  <2>1. C.entries = E /\ m + 1 \in 1 .. m + 1 /\ \A k \in 1 .. m : k \in 1 .. m + 1
    BY <1>7, <1>8
  <2> QED BY <1>6, <1>8, <1>11, <2>1
<1>16. DOMAIN b = {"pages", "current", "entries", "list"} /\ DOMAIN C = DOMAIN b /\ C.list = b.list
  BY <1>7 DEF B!Sound
<1> QED BY <1>14, <1>15, <1>16

\* ddb_list_append keeps to the memory of the list.
LEMMA PointedFits ==
  ASSUME NEW l \in [size : Nat, bytes : Nat, i : Nat], l.i <= l.size, l.i < MaxItems,
         l.size * 8 < ListBytes => l.bytes = l.size * 8
  PROVE  LET q == B!Pointed(l)
         IN  /\ q \in [size : Nat, bytes : Nat, i : Nat] /\ q.i = l.i + 1 /\ q.i <= q.size
             /\ q.size * 8 < ListBytes => q.bytes = q.size * 8
<1> USE ViewParameters
<1>1. PICK z \in Nat, y \in Nat, h \in Nat : z = l.size /\ y = l.bytes /\ h = l.i
  OBVIOUS
<1>2. l = [size |-> z, bytes |-> y, i |-> h]
  BY <1>1
<1>3. CASE h = z
  <2>1. PICK g \in Nat : /\ g = IF z >= MaxItems - ListInc THEN MaxItems ELSE z + ListInc
                         /\ h + 1 <= g
    <3>1. (IF z >= MaxItems - ListInc THEN MaxItems ELSE z + ListInc) \in Nat
      OBVIOUS
    <3>2. h + 1 <= (IF z >= MaxItems - ListInc THEN MaxItems ELSE z + ListInc)
      BY <1>1, <1>3
    <3> QED BY <3>1, <3>2
  <2>2. PICK r \in Nat : r = (g * 8) % ListBytes /\ (g * 8 < ListBytes => r = g * 8)
    <3>1. PICK u \in Nat : u = g * 8
      OBVIOUS
    <3>2. u % ListBytes \in 0 .. ListBytes - 1 /\ (u < ListBytes => u % ListBytes = u)
      BY ModBound
    <3>3. u % ListBytes \in Nat
      BY <3>2
    <3> QED BY <3>1, <3>2, <3>3
  <2>3. B!Grown(l) = [size |-> g, bytes |-> r, i |-> h]
    BY <1>1, <2>1, <2>2 DEF B!Grown
  <2>4. B!Pointed(l) = [size |-> g, bytes |-> r, i |-> h + 1]
    BY <1>1, <1>3, <2>3 DEF B!Pointed
  <2> QED BY <1>1, <2>1, <2>2, <2>4
<1>4. CASE h # z
  <2>1. B!Pointed(l) = [size |-> z, bytes |-> y, i |-> h + 1]
    BY <1>1, <1>2, <1>4 DEF B!Pointed
  <2> QED BY <1>1, <1>4, <2>1
<1> QED BY <1>3, <1>4

\* Both parts of a buffer.
LEMMA SoundParts ==
  ASSUME NEW b, Laid(b), DOMAIN b = {"pages", "current", "entries", "list"},
         b = [pages |-> b.pages, current |-> b.current, entries |-> b.entries, list |-> b.list],
         b.list \in [size : Nat, bytes : Nat, i : Nat], b.list.i <= b.list.size,
         b.list.size * 8 < ListBytes => b.list.bytes = b.list.size * 8
  PROVE  B!Sound(b)
<1>1. b.pages \in Seq(Pages) /\ b.current \in Nat /\ b.entries \in Seq(Slots)
  <2>1. b.pages \in Seq(Pages) /\ b.current \in DOMAIN b.pages /\ b.entries \in Seq(Slots)
    BY DEF Laid
  <2> QED BY <2>1
<1>2. b \in [pages : Seq([size : Nat, offset : Nat]), current : Nat,
             entries : Seq([of : DOMAIN LengthOf, page : Nat, at : Nat, len : Nat]),
             list : [size : Nat, bytes : Nat, i : Nat]]
  BY <1>1, ViewParameters DEF Pages, Slots
<1>3. \E h \in DOMAIN b.pages : \A k \in DOMAIN b.pages : b.pages[k].size <= b.pages[h].size
  <2> DEFINE S == {b.pages[k].size : k \in DOMAIN b.pages}
  <2>1. PICK most \in Nat : \A k \in DOMAIN b.pages : b.pages[k].size <= most
    BY DEF Laid
  <2>2. \A k \in DOMAIN b.pages : b.pages[k] \in Pages
    BY <1>1
  <2>3. S \subseteq Nat /\ S # {} /\ \A y \in S : y <= most
    BY <2>1, <2>2 DEF Laid, Pages
  <2>4. \A k \in DOMAIN b.pages : b.pages[k].size \in S
    OBVIOUS
  <2>5. \A y \in S : \E k \in DOMAIN b.pages : y = b.pages[k].size
    OBVIOUS
  <2> HIDE DEF S
  <2>6. Max(S) \in S /\ \A y \in S : y <= Max(S)
    BY <2>3, MaxIsGreatest
  <2> QED BY <2>4, <2>5, <2>6
<1> QED BY <1>2, <1>3 DEF Laid, B!Sound

\* What lies in the buffer, once it is sound.
LEMMA SoundIsIntact ==
  ASSUME NEW b, B!Sound(b)
  PROVE  B!Apart(b) /\ B!InMemory(b)
<1>1. ASSUME NEW k \in DOMAIN b.entries
      PROVE  b.entries[k].at + b.entries[k].len <= b.pages[b.entries[k].page].size
  <2>0. /\ \A q \in Seq(Slots) : \A h \in DOMAIN q : q[h] \in Slots
        /\ \A q \in Seq(Pages) : \A h \in DOMAIN q : q[h] \in Pages
    OBVIOUS
  <2>1. PICK e \in Slots : e = b.entries[k]
    <3>1. b.entries \in Seq(Slots)
      BY ViewParameters DEF B!Sound, Slots
    <3> QED BY <2>0, <3>1
  <2>2. PICK g \in Pages : g = b.pages[e.page] /\ g.offset <= g.size /\ e.at + e.len <= g.offset
    <3>1. b.pages \in Seq(Pages)
      BY DEF B!Sound, Pages
    <3>2. e.page \in DOMAIN b.pages /\ e.at + e.len <= b.pages[e.page].offset
      BY <2>1 DEF B!Sound
    <3>3. b.pages[e.page].offset <= b.pages[e.page].size
      BY <3>2 DEF B!Sound
    <3> QED BY <2>0, <3>1, <3>2, <3>3
  <2>3. e.at \in Nat /\ e.len \in Nat /\ g.offset \in Nat /\ g.size \in Nat
    BY DEF Pages, Slots
  <2> QED BY <2>1, <2>2, <2>3
<1>2. B!InMemory(b)
  <2>1. b.list \in [size : Nat, bytes : Nat, i : Nat] /\ b.list.i <= b.list.size
    BY DEF B!Sound
  <2>2. b.list.size * 8 < ListBytes => b.list.bytes = b.list.size * 8
    BY DEF B!Sound
  <2>3. PICK z \in Nat, y \in Nat, h \in Nat : z = b.list.size /\ y = b.list.bytes /\ h = b.list.i
    BY <2>1
  <2>4. h * 8 <= y \/ z * 8 >= ListBytes
    BY <2>1, <2>2, <2>3, ViewParameters
  <2> QED BY <2>3, <2>4 DEF B!InMemory
<1> QED BY <1>1, <1>2 DEF B!Sound, B!Apart

\* new_item copies a string and points to it; without memory for the string it
\* points to nothing.
LEMMA KeptSound ==
  ASSUME NEW b, B!Sound(b), NEW s \in Strings, b.list.i < MaxItems
  PROVE  /\ B!Sound(B!Kept(b, s)) /\ B!Kept(b, s).list.i = b.list.i + 1
         /\ \A t : (\E k \in DOMAIN b.entries : b.entries[k].of = t) \/ t = s
                     => \E k \in DOMAIN B!Kept(b, s).entries : B!Kept(b, s).entries[k].of = t
         /\ B!Sound(B!KeptNull(b)) /\ B!KeptNull(b).list.i = b.list.i + 1
         /\ B!KeptNull(b).entries = b.entries
         /\ B!Sound(B!Copied(b, s)) /\ B!Copied(b, s).list = b.list
<1>1. PICK C : C = B!Copied(b, s)
  OBVIOUS
<1>2. /\ Laid(C) /\ C.list = b.list
      /\ \A t : (\E k \in DOMAIN b.entries : b.entries[k].of = t) \/ t = s
                  => \E k \in DOMAIN C.entries : C.entries[k].of = t
  BY <1>1, CopiedLaid
<1>3. C = [pages |-> C.pages, current |-> C.current, entries |-> C.entries, list |-> b.list]
  BY <1>1 DEF B!Copied
<1>4. /\ b.list \in [size : Nat, bytes : Nat, i : Nat] /\ b.list.i <= b.list.size
      /\ b.list.size * 8 < ListBytes => b.list.bytes = b.list.size * 8
      /\ b = [pages |-> b.pages, current |-> b.current, entries |-> b.entries, list |-> b.list]
  BY DEF B!Sound
<1>5. PICK q \in [size : Nat, bytes : Nat, i : Nat] :
        /\ q = B!Pointed(b.list) /\ q.i = b.list.i + 1 /\ q.i <= q.size
        /\ q.size * 8 < ListBytes => q.bytes = q.size * 8
  BY <1>4, PointedFits
<1>6. ASSUME NEW d, Laid(d), d = [pages |-> d.pages, current |-> d.current, entries |-> d.entries, list |-> b.list]
      PROVE  LET e == [d EXCEPT !.list = B!Pointed(@)]
             IN  B!Sound(e) /\ e.list = q /\ e.entries = d.entries
  <2>1. PICK e : e = [d EXCEPT !.list = B!Pointed(@)]
    OBVIOUS
  <2>2. e = [pages |-> d.pages, current |-> d.current, entries |-> d.entries, list |-> q]
    BY <1>5, <1>6, <2>1
  <2>3. Laid(e)
    BY <1>6, <2>2 DEF Laid
  <2>4. B!Sound(e)
    BY <1>5, <2>2, <2>3, SoundParts
  <2> QED BY <2>1, <2>2, <2>4
<1>7. B!Sound(C)
  BY <1>2, <1>3, <1>4, SoundParts
<1>8. Laid(b)
  <2>1. b.pages \in Seq(Pages) /\ b.entries \in Seq(Slots)
    BY ViewParameters DEF B!Sound, Pages, Slots
  <2>2. \A k \in DOMAIN b.pages : b.pages[k].size \in Nat
    <3>1. \A k \in DOMAIN b.pages : b.pages[k] \in Pages
      BY <2>1
    <3> QED BY <3>1 DEF Pages
  <2>3. \E most \in Nat : \A k \in DOMAIN b.pages : b.pages[k].size <= most
    BY <2>2 DEF B!Sound
  <2> QED BY <2>1, <2>3 DEF B!Sound, Laid
<1>9. B!Sound(B!Kept(b, s)) /\ B!Kept(b, s).list = q /\ B!Kept(b, s).entries = C.entries
  BY <1>1, <1>2, <1>3, <1>6 DEF B!Kept
<1>10. B!Sound(B!KeptNull(b)) /\ B!KeptNull(b).list = q /\ B!KeptNull(b).entries = b.entries
  BY <1>4, <1>6, <1>8 DEF B!KeptNull
<1> QED BY <1>1, <1>2, <1>5, <1>7, <1>9, <1>10

LEMMA EmptySound == B!Sound(B!EmptyBuffer) /\ B!EmptyBuffer.list.i = 0
<1>1. PICK p \in Pages : p = [size |-> PageSize, offset |-> 0]
  BY ViewParameters DEF Pages
<1>2. /\ <<p>> \in Seq(Pages) /\ DOMAIN <<p>> = {1} /\ <<p>>[1] = p
      /\ <<>> \in Seq(Slots) /\ DOMAIN <<>> = {}
  OBVIOUS
<1>3. ListFirst * 8 \in Nat /\ ListFirst \in Nat
  BY ViewParameters
<1>4. PICK e : e = B!EmptyBuffer /\ e = [pages |-> <<p>>, current |-> 1, entries |-> <<>>,
                                         list |-> [size |-> ListFirst, bytes |-> ListFirst * 8, i |-> 0]]
  BY <1>1 DEF B!EmptyBuffer, B!NewPage
<1>5. Laid(e)
  <2>1. \A k \in {1} : <<p>>[k].offset <= <<p>>[k].size /\ <<p>>[k].size <= PageSize
    BY <1>1, ViewParameters
  <2>2. PageSize \in Nat
    BY ViewParameters
  <2> QED BY <1>2, <1>4, <2>1, <2>2 DEF Laid
<1>6. B!Sound(e)
  BY <1>3, <1>4, <1>5, SoundParts
<1> QED BY <1>4, <1>6

-----------------------------------------------------------------------------
(***************************************************************************)
(* The items of a map, whatever fails: it counts one for each of them.     *)
(***************************************************************************)
\* A map with one string more, or NULL.
LEMMA StoredBehind ==
  ASSUME NEW k \in Seq(Strings \cup {Nil}), NEW x \in Strings \cup {Nil}, NEW m, m.keys = k,
         NEW d, d.keys = Append(k, x)
  PROVE  M!Stored(d) = M!Stored(m) \cup {x} /\ d.keys \in Seq(Strings \cup {Nil}) /\ Len(d.keys) = Len(m.keys) + 1
<1>1. PICK l \in Nat : l = Len(k) /\ DOMAIN k = 1 .. l
  OBVIOUS
<1>2. PICK e : e = Append(k, x)
  OBVIOUS
<1>20. e \in Seq(Strings \cup {Nil})
  BY <1>2
<1>3. /\ Len(e) = l + 1 /\ DOMAIN e = 1 .. l + 1 /\ e[l + 1] = x
      /\ \A j \in 1 .. l : e[j] = k[j]
  BY <1>1, <1>2
<1>4. \A j \in 1 .. l + 1 : j \in 1 .. l \/ j = l + 1
  BY <1>1
<1>5. {e[j] : j \in 1 .. l + 1} = {k[j] : j \in 1 .. l} \cup {x}
  <2>1. ASSUME NEW y \in {k[j] : j \in 1 .. l} \cup {x} PROVE y \in {e[j] : j \in 1 .. l + 1}
    <3>1. \A j \in 1 .. l : j \in 1 .. l + 1
      OBVIOUS
    <3>2. l + 1 \in 1 .. l + 1
      OBVIOUS
    <3> QED BY <2>1, <3>1, <3>2, <1>3
  <2>2. ASSUME NEW y \in {e[j] : j \in 1 .. l + 1} PROVE y \in {k[j] : j \in 1 .. l} \cup {x}
    BY <1>3, <1>4
  <2> QED BY <2>1, <2>2
<1> QED BY <1>1, <1>2, <1>20, <1>3, <1>5 DEF M!Stored, M!ToSet

\* The update of a map when a string is kept.
LEMMA MapKeeps ==
  ASSUME NEW m \in M!Map(Strings), m.num < MaxItems, NEW x \in Strings, NEW d,
         d = [m EXCEPT !.num = @ + 1, !.keys = Append(@, x)]
  PROVE  d \in M!Map(Strings) /\ d.num = m.num + 1
<1>1. m.num + 1 \in 0 .. MaxItems
  BY ViewParameters DEF M!Map
<1>2. m.keys \in Seq(Strings \cup {Nil})
  BY DEF M!Map
<1>3. Append(m.keys, x) \in Seq(Strings \cup {Nil})
  BY <1>2
<1>4. PICK q \in 0 .. MaxItems, A \in Seq(Strings \cup {Nil}) :
        q = m.num + 1 /\ d = [m EXCEPT !.num = q, !.keys = A]
  BY <1>1, <1>3
<1> QED BY <1>4 DEF M!Map

\* Its updates when an item or its value is lost.
LEMMA MapLoses ==
  ASSUME NEW m \in M!Map(Strings), m.num < MaxItems, NEW s \in Strings, NEW d,
         \/ d = [m EXCEPT !.num = @ + 1, !.bad = @ \cup {LeafOf[s]}]
         \/ d = [m EXCEPT !.num = @ + 1, !.torn = TRUE, !.wild = @ \cup {s}]
  PROVE  d \in M!Map(Strings) /\ d.num = m.num + 1
<1>1. m.num + 1 \in 0 .. MaxItems
  BY ViewParameters DEF M!Map
<1>2. m.bad \cup {LeafOf[s]} \in SUBSET {LeafOf[r] : r \in Strings}
  BY DEF M!Map
<1>3. m.wild \cup {s} \in SUBSET Strings
  BY DEF M!Map
<1>4. PICK q \in 0 .. MaxItems, D \in SUBSET {LeafOf[r] : r \in Strings}, W \in SUBSET Strings :
        /\ q = m.num + 1
        /\ \/ d = [m EXCEPT !.num = q, !.bad = D]
           \/ d = [m EXCEPT !.num = q, !.torn = TRUE, !.wild = W]
  BY <1>1, <1>2, <1>3
<1> QED BY <1>4 DEF M!Map

\* An item is counted for a string before anything else: for one that was put
\* into the map, for one whose value stays wild, and for a leaf that is lost.
LEMMA OneMore ==
  ASSUME NEW m, NEW d, NEW A, NEW R, NEW s \in Strings, MapSound(m, A, R),
         d \in M!Map(Strings), d.num = m.num + 1, Len(d.keys) <= Len(m.keys) + 1,
         M!LookupSafe(m, s), s \notin M!Stored(m),
         \/ HasStrings(d) = HasStrings(m) \cup {s} /\ d.bad = m.bad
         \/ HasStrings(d) = HasStrings(m) /\ d.bad = m.bad \cup {LeafOf[s]}
  PROVE  MapSound(d, A \cup {s}, R) /\ MapSound(d, A, R \cup {s})
<1>1. PICK q \in Nat, c \in Nat, l \in Nat :
        /\ q = m.num /\ c = Cardinality(HasStrings(m)) /\ l = Len(m.keys) /\ l <= q
        /\ IsFiniteSet(HasStrings(m)) /\ c <= q /\ (m.bad # {} => c + 1 <= q)
  <2>1. m.num \in Nat /\ Len(m.keys) \in Nat
    BY ViewParameters DEF MapSound, M!Map
  <2>2. Cardinality(HasStrings(m)) \in Nat
    BY FS_CardinalityType DEF MapSound
  <2>3. Cardinality(HasStrings(m)) + (IF m.bad = {} THEN 0 ELSE 1) <= m.num
    BY DEF MapSound
  <2>4. Cardinality(HasStrings(m)) <= m.num /\ (m.bad # {} => Cardinality(HasStrings(m)) + 1 <= m.num)
    BY <2>1, <2>2, <2>3
  <2> QED BY <2>1, <2>2, <2>4 DEF MapSound
<1>2. s \notin HasStrings(m) /\ s # Nil /\ LeafOf[s] \notin m.bad
  BY ViewParameters DEF HasStrings, M!LookupSafe
<1>3. Len(d.keys) <= d.num
  <2>1. Len(d.keys) \in Nat
    BY DEF M!Map
  <2> QED BY <1>1, <2>1
<1>4. CASE HasStrings(d) = HasStrings(m) \cup {s} /\ d.bad = m.bad
  <2>1. IsFiniteSet(HasStrings(d)) /\ Cardinality(HasStrings(d)) = c + 1
    BY <1>1, <1>2, <1>4, FS_AddElement
  <2>2. Cardinality(HasStrings(d)) + (IF d.bad = {} THEN 0 ELSE 1) <= d.num
    BY <1>1, <1>4, <2>1
  <2>3. HasStrings(d) \subseteq (A \cup {s}) \cup R /\ HasStrings(d) \subseteq A \cup (R \cup {s})
    BY <1>4 DEF MapSound
  <2>4. \A t \in A \cup {s} : t \in HasStrings(d) \/ LeafOf[t] \in d.bad
    BY <1>4 DEF MapSound
  <2> QED BY <1>3, <2>1, <2>2, <2>3, <2>4 DEF MapSound
<1>5. CASE HasStrings(d) = HasStrings(m) /\ d.bad = m.bad \cup {LeafOf[s]}
  <2>1. IsFiniteSet(HasStrings(d)) /\ Cardinality(HasStrings(d)) = c
    BY <1>1, <1>5
  <2>2. Cardinality(HasStrings(d)) + (IF d.bad = {} THEN 0 ELSE 1) <= d.num
    BY <1>1, <1>5, <2>1
  <2>3. HasStrings(d) \subseteq (A \cup {s}) \cup R /\ HasStrings(d) \subseteq A \cup (R \cup {s})
    BY <1>5 DEF MapSound
  <2>4. \A t \in A \cup {s} : t \in HasStrings(d) \/ LeafOf[t] \in d.bad
    BY <1>5 DEF MapSound
  <2> QED BY <1>3, <2>1, <2>2, <2>3, <2>4 DEF MapSound
<1> QED BY <1>4, <1>5

\* A string is in the map, or stays out of it.
LEMMA MapSame ==
  ASSUME NEW m, NEW A, NEW R, NEW s \in Strings, MapSound(m, A, R)
  PROVE  /\ MapSound(m, A, R \cup {s})
         /\ s \in M!Stored(m) \cup m.wild => MapSound(m, A \cup {s}, R)
<1>1. MapSound(m, A, R \cup {s})
  BY DEF MapSound
<1>2. s \in M!Stored(m) \cup m.wild => s \in HasStrings(m)
  BY ViewParameters DEF HasStrings
<1> QED BY <1>1, <1>2 DEF MapSound

\* ddb_map_insert_str of a new string, and the failures of new_item.
LEMMA MapGrows ==
  ASSUME NEW m, NEW A, NEW R, NEW s \in Strings, MapSound(m, A, R), M!Room(m, s), NEW d,
         \/ d = M!Inserted(m, s)
         \/ d \in M!StringFails(m, s) \/ d \in M!LeafFails(m, s) \/ d \in M!ListFails(m, s)
  PROVE  /\ MapSound(d, A \cup {s}, R) /\ MapSound(d, A, R \cup {s})
         /\ Len(m.keys) < MaxItems /\ Len(m.keys) \in Nat
<1>1. /\ m \in M!Map(Strings) /\ m.num < MaxItems /\ M!LookupSafe(m, s) /\ s \notin M!Stored(m)
      /\ m.keys \in Seq(Strings \cup {Nil}) /\ Nil \notin Strings
  BY ViewParameters DEF M!Room, MapSound, M!Map
<1>2. Len(m.keys) \in Nat /\ Len(m.keys) < MaxItems /\ Len(m.keys) <= Len(m.keys) + 1
  <2>1. Len(m.keys) \in Nat /\ m.num \in Nat /\ Len(m.keys) <= m.num
    BY <1>1, ViewParameters DEF MapSound, M!Map
  <2> QED BY <1>1, <2>1, ViewParameters
<1>3. CASE d = M!Inserted(m, s)
  <2>1. d = [m EXCEPT !.num = @ + 1, !.keys = Append(@, s)]
    BY <1>1, <1>3 DEF M!Inserted
  <2>2. d \in M!Map(Strings) /\ d.num = m.num + 1
    BY <1>1, <2>1, MapKeeps
  <2>3. d.keys = Append(m.keys, s) /\ d.bad = m.bad /\ d.wild = m.wild
    BY <1>1, <2>1 DEF M!Map
  <2>4. M!Stored(d) = M!Stored(m) \cup {s} /\ Len(d.keys) = Len(m.keys) + 1
    BY <1>1, <2>3, StoredBehind
  <2>5. HasStrings(d) = HasStrings(m) \cup {s}
    BY <1>1, <2>3, <2>4 DEF HasStrings
  <2>6. MapSound(d, A \cup {s}, R) /\ MapSound(d, A, R \cup {s})
    <3>1. Len(d.keys) <= Len(m.keys) + 1
      BY <1>2, <2>4
    <3> QED BY <1>1, <2>2, <2>3, <2>5, <3>1, OneMore
  <2> QED BY <1>2, <2>6
<1>4. CASE d \in M!StringFails(m, s)
  <2>1. d = [m EXCEPT !.num = @ + 1, !.keys = Append(@, Nil), !.bad = @ \cup {LeafOf[s]}]
    BY <1>4 DEF M!StringFails
  <2>2. d \in M!Map(Strings) /\ d.num = m.num + 1
    <3>1. m.num + 1 \in 0 .. MaxItems
      BY <1>1, ViewParameters DEF M!Map
    <3>2. Append(m.keys, Nil) \in Seq(Strings \cup {Nil})
      BY <1>1
    <3>3. m.bad \cup {LeafOf[s]} \in SUBSET {LeafOf[r] : r \in Strings}
      BY <1>1 DEF M!Map
    <3>4. PICK q \in 0 .. MaxItems, K \in Seq(Strings \cup {Nil}), D \in SUBSET {LeafOf[r] : r \in Strings} :
            q = m.num + 1 /\ d = [m EXCEPT !.num = q, !.keys = K, !.bad = D]
      BY <2>1, <3>1, <3>2, <3>3
    <3> QED BY <1>1, <3>4 DEF M!Map
  <2>3. d.keys = Append(m.keys, Nil) /\ d.bad = m.bad \cup {LeafOf[s]} /\ d.wild = m.wild
    BY <1>1, <2>1 DEF M!Map
  <2>4. M!Stored(d) = M!Stored(m) \cup {Nil} /\ Len(d.keys) = Len(m.keys) + 1
    BY <1>1, <2>3, StoredBehind
  <2>5. HasStrings(d) = HasStrings(m)
    BY <2>3, <2>4 DEF HasStrings
  <2>6. MapSound(d, A \cup {s}, R) /\ MapSound(d, A, R \cup {s})
    <3>1. Len(d.keys) <= Len(m.keys) + 1
      BY <1>2, <2>4
    <3> QED BY <1>1, <2>2, <2>3, <2>5, <3>1, OneMore
  <2> QED BY <1>2, <2>6
<1>5. CASE d \in M!LeafFails(m, s) \/ d \in M!ListFails(m, s)
  <2>1. \/ d = [m EXCEPT !.num = @ + 1, !.bad = @ \cup {LeafOf[s]}]
        \/ d = [m EXCEPT !.num = @ + 1, !.torn = TRUE, !.wild = @ \cup {s}]
    BY <1>5 DEF M!LeafFails, M!ListFails
  <2>2. d \in M!Map(Strings) /\ d.num = m.num + 1
    BY <1>1, <2>1, MapLoses
  <2>3. /\ d.keys = m.keys /\ Len(d.keys) = Len(m.keys)
        /\ \/ d.bad = m.bad \cup {LeafOf[s]} /\ d.wild = m.wild
           \/ d.bad = m.bad /\ d.wild = m.wild \cup {s}
    BY <1>1, <2>1 DEF M!Map
  <2>4. M!Stored(d) = M!Stored(m)
    BY <2>3 DEF M!Stored
  <2>5. \/ HasStrings(d) = HasStrings(m) \cup {s} /\ d.bad = m.bad
        \/ HasStrings(d) = HasStrings(m) /\ d.bad = m.bad \cup {LeafOf[s]}
    BY <1>1, <2>3, <2>4 DEF HasStrings
  <2>6. MapSound(d, A \cup {s}, R) /\ MapSound(d, A, R \cup {s})
    <3>1. Len(d.keys) <= Len(m.keys) + 1
      BY <1>2, <2>3
    <3> QED BY <1>1, <2>2, <2>5, <3>1, OneMore
  <2> QED BY <1>2, <2>6
<1> QED BY <1>3, <1>4, <1>5

\* What it does to the strings of the map.
LEMMA KeysKept ==
  ASSUME NEW m, NEW A, NEW R, NEW s \in Strings, MapSound(m, A, R), M!Room(m, s), NEW d, d = M!Inserted(m, s)
  PROVE  M!Stored(d) = M!Stored(m) \cup {s} /\ Len(d.keys) = Len(m.keys) + 1
<1>1. m \in M!Map(Strings) /\ s \notin M!Stored(m) /\ m.keys \in Seq(Strings \cup {Nil})
  BY DEF M!Room, MapSound, M!Map
<1>2. d.keys = Append(m.keys, s)
  BY <1>1 DEF M!Inserted, M!Map
<1> QED BY <1>1, <1>2, StoredBehind

LEMMA KeysNull ==
  ASSUME NEW m, NEW A, NEW R, NEW s \in Strings, MapSound(m, A, R), M!Room(m, s), NEW d,
         d \in M!StringFails(m, s)
  PROVE  M!Stored(d) = M!Stored(m) \cup {Nil} /\ Len(d.keys) = Len(m.keys) + 1
<1>1. m \in M!Map(Strings) /\ m.keys \in Seq(Strings \cup {Nil})
  BY DEF MapSound, M!Map
<1>2. d.keys = Append(m.keys, Nil)
  BY <1>1 DEF M!StringFails, M!Map
<1>3. Nil \in Strings \cup {Nil} /\ Nil \notin Strings
  BY ViewParameters
<1>4. M!Stored(d) = M!Stored(m) \cup {Nil}
  BY <1>1, <1>2, <1>3, StoredBehind
<1>5. Len(d.keys) = Len(m.keys) + 1
  BY <1>1, <1>2
<1> QED BY <1>4, <1>5

LEMMA KeysSame ==
  ASSUME NEW m, NEW A, NEW R, NEW s \in Strings, MapSound(m, A, R), NEW d,
         d \in M!LeafFails(m, s) \/ d \in M!ListFails(m, s)
  PROVE  d.keys = m.keys
<1>1. m \in M!Map(Strings)
  BY DEF MapSound
<1> QED BY <1>1 DEF M!LeafFails, M!ListFails, M!Map

-----------------------------------------------------------------------------
(***************************************************************************)
(* The strings of a view constructor.                                      *)
(***************************************************************************)
EntryOf(b, t) == \E k \in DOMAIN b.entries : b.entries[k].of = t

LEMMA BufferIs ==
  ASSUME B!Sound(mem'), mem'.list.i = Len(vmap'.keys), \A t \in Strings \cap M!Stored(vmap') : EntryOf(mem', t)
  PROVE  BufferSound'
<1>1. B!Apart(mem') /\ B!InMemory(mem')
  BY SoundIsIntact
<1> QED BY <1>1 DEF BufferSound, StringsIntact, EntryOf

\* ddb_view_cons_add, whatever fails in it.
LEMMA AddsToMap ==
  ASSUME MapInv, NEW s \in Strings, AddTakes(s) \/ AddRefuses(s)
  PROVE  MapInv'
<1>1. /\ added \subseteq Strings /\ MapSound(vmap, added, refused) /\ B!Sound(mem)
      /\ mem.list.i = Len(vmap.keys) /\ \A t \in Strings \cap M!Stored(vmap) : EntryOf(mem, t)
  BY DEF MapInv, BufferSound, StringsIntact, EntryOf
<1>2. added' \subseteq Strings
  BY <1>1 DEF AddTakes, AddRefuses, adding
<1>3. CASE AddTakes(s)
  <2>1. added' = added \cup {s} /\ refused' = refused
    BY <1>3 DEF AddTakes
  <2>2. CASE M!CanInsert(vmap, s) /\ s \in M!Stored(vmap) /\ vmap' = M!Inserted(vmap, s) /\ mem' = mem
    <3>1. vmap' = vmap
      BY <2>2 DEF M!Inserted
    <3>2. MapSound(vmap', added', refused')
      BY <1>1, <2>1, <2>2, <3>1, MapSame
    <3>3. BufferSound'
      BY <1>1, <2>2, <3>1, BufferIs
    <3> QED BY <1>2, <3>2, <3>3 DEF MapInv
  <2>3. CASE M!CanInsert(vmap, s) /\ s \notin M!Stored(vmap) /\ vmap' = M!Inserted(vmap, s) /\ mem' = B!Kept(mem, s)
    <3>1. M!Room(vmap, s)
      BY <2>3 DEF M!CanInsert
    <3>2. /\ MapSound(vmap', added', refused') /\ Len(vmap.keys) < MaxItems
          /\ M!Stored(vmap') = M!Stored(vmap) \cup {s} /\ Len(vmap'.keys) = Len(vmap.keys) + 1
      <4>1. PICK d : d = vmap'
        OBVIOUS
      <4>2. /\ MapSound(d, added \cup {s}, refused) /\ Len(vmap.keys) < MaxItems
            /\ M!Stored(d) = M!Stored(vmap) \cup {s} /\ Len(d.keys) = Len(vmap.keys) + 1
        <5>1. PICK m, A, R : m = vmap /\ A = added /\ R = refused
          OBVIOUS
        <5>2. MapSound(m, A, R) /\ M!Room(m, s) /\ d = M!Inserted(m, s)
          BY <1>1, <2>3, <3>1, <4>1, <5>1
        <5>3. MapSound(d, A \cup {s}, R)
          BY <5>2, MapGrows
        <5>4. Len(m.keys) < MaxItems
          BY <5>2, MapGrows
        <5>5. M!Stored(d) = M!Stored(m) \cup {s} /\ Len(d.keys) = Len(m.keys) + 1
          BY <5>2, KeysKept
        <5> QED BY <5>1, <5>3, <5>4, <5>5
      <4> QED BY <2>1, <4>1, <4>2
    <3>3. B!Sound(mem') /\ mem'.list.i = Len(vmap'.keys)
      BY <1>1, <2>3, <3>2, KeptSound
    <3>5. \A t : EntryOf(mem, t) \/ t = s => EntryOf(mem', t)
      <4>1. mem.list.i < MaxItems
        BY <1>1, <3>2
      <4>2. \A t : EntryOf(mem, t) \/ t = s => EntryOf(B!Kept(mem, s), t)
        <5>1. PICK b, K : b = mem /\ K = B!Kept(mem, s)
          OBVIOUS
        <5>2. B!Sound(b) /\ b.list.i < MaxItems /\ K = B!Kept(b, s)
          BY <1>1, <4>1, <5>1
        <5>3. \A t : EntryOf(b, t) \/ t = s => EntryOf(K, t)
          BY <5>2, KeptSound DEF EntryOf
        <5> QED BY <5>1, <5>3
      <4> QED BY <2>3, <4>2
    <3>4. BufferSound'
      BY <1>1, <3>2, <3>3, <3>5, BufferIs
    <3> QED BY <1>2, <3>2, <3>4 DEF MapInv
  <2>4. CASE vmap' \in M!StringFails(vmap, s) /\ mem' = B!KeptNull(mem)
    <3>1. M!Room(vmap, s)
      BY <2>4 DEF M!StringFails
    <3>2. /\ MapSound(vmap', added', refused') /\ Len(vmap.keys) < MaxItems
          /\ M!Stored(vmap') = M!Stored(vmap) \cup {Nil} /\ Len(vmap'.keys) = Len(vmap.keys) + 1
      <4>1. PICK d : d = vmap'
        OBVIOUS
      <4>2. /\ MapSound(d, added \cup {s}, refused) /\ Len(vmap.keys) < MaxItems
            /\ M!Stored(d) = M!Stored(vmap) \cup {Nil} /\ Len(d.keys) = Len(vmap.keys) + 1
        <5>1. PICK m, A, R : m = vmap /\ A = added /\ R = refused
          OBVIOUS
        <5>2. MapSound(m, A, R) /\ M!Room(m, s) /\ d \in M!StringFails(m, s)
          BY <1>1, <2>4, <3>1, <4>1, <5>1
        <5>3. MapSound(d, A \cup {s}, R)
          BY <5>2, MapGrows
        <5>4. Len(m.keys) < MaxItems
          BY <5>2, MapGrows
        <5>5. M!Stored(d) = M!Stored(m) \cup {Nil} /\ Len(d.keys) = Len(m.keys) + 1
          BY <5>2, KeysNull
        <5> QED BY <5>1, <5>3, <5>4, <5>5
      <4> QED BY <2>1, <4>1, <4>2
    <3>3. /\ B!Sound(mem') /\ mem'.list.i = Len(vmap'.keys) /\ mem'.entries = mem.entries
      BY <1>1, <2>4, <3>2, KeptSound
    <3>4. \A t \in Strings \cap M!Stored(vmap') : EntryOf(mem', t)
      BY <1>1, <3>2, <3>3, ViewParameters DEF EntryOf
    <3>5. BufferSound'
      BY <3>3, <3>4, BufferIs
    <3> QED BY <1>2, <3>2, <3>5 DEF MapInv
  <2>5. CASE AddedAgain(s) /\ UNCHANGED <<vmap, mem>>
    <3>1. MapSound(vmap', added', refused')
      <4>1. s \in vmap.wild
        BY <2>5 DEF AddedAgain
      <4> QED BY <1>1, <2>1, <2>5, <4>1, MapSame
    <3>2. BufferSound'
      BY <1>1, <2>5, BufferIs
    <3> QED BY <1>2, <3>1, <3>2 DEF MapInv
  <2> QED BY <1>3, <2>2, <2>3, <2>4, <2>5 DEF AddTakes
<1>4. CASE AddRefuses(s)
  <2>1. added' = added /\ refused' = refused \cup {s}
    BY <1>4 DEF AddRefuses
  <2>2. CASE UNCHANGED <<vmap, mem>>
    <3>1. MapSound(vmap', added', refused')
      BY <1>1, <2>1, <2>2, MapSame
    <3>2. BufferSound'
      BY <1>1, <2>2, BufferIs
    <3> QED BY <1>2, <3>1, <3>2 DEF MapInv
  <2>3. CASE \/ vmap' \in M!LeafFails(vmap, s) /\ mem' = mem
             \/ vmap' \in M!ListFails(vmap, s) /\ mem' = B!Copied(mem, s)
    <3>1. M!Room(vmap, s)
      BY <2>3 DEF M!LeafFails, M!ListFails
    <3>2. MapSound(vmap', added', refused') /\ Len(vmap.keys) < MaxItems /\ vmap'.keys = vmap.keys
      <4>1. PICK d : d = vmap'
        OBVIOUS
      <4>2. /\ MapSound(d, added, refused \cup {s}) /\ Len(vmap.keys) < MaxItems
            /\ d.keys = vmap.keys
        <5>1. PICK m, A, R : m = vmap /\ A = added /\ R = refused
          OBVIOUS
        <5>2. MapSound(m, A, R) /\ M!Room(m, s) /\ d \in M!LeafFails(m, s) \cup M!ListFails(m, s)
          BY <1>1, <2>3, <3>1, <4>1, <5>1
        <5>3. MapSound(d, A, R \cup {s})
          BY <5>2, MapGrows
        <5>4. Len(m.keys) < MaxItems
          BY <5>2, MapGrows
        <5>5. d.keys = m.keys
          BY <5>2, KeysSame
        <5> QED BY <5>1, <5>3, <5>4, <5>5
      <4> QED BY <2>1, <4>1, <4>2
    <3>3. M!Stored(vmap') = M!Stored(vmap)
      BY <3>2 DEF M!Stored
    <3>4. B!Sound(mem') /\ mem'.list = mem.list /\ \A t : EntryOf(mem, t) => EntryOf(mem', t)
      <4>1. CASE mem' = mem
        BY <1>1, <4>1
      <4>2. CASE mem' = B!Copied(mem, s)
        <5>1. \A t : EntryOf(mem, t) \/ t = s => EntryOf(B!Copied(mem, s), t)
          <6>1. PICK C : C = B!Copied(mem, s)
            OBVIOUS
          <6>2. \A t : EntryOf(mem, t) \/ t = s => EntryOf(C, t)
            BY <1>1, <6>1, CopiedLaid DEF EntryOf
          <6> QED BY <6>1, <6>2
        <5>2. B!Sound(B!Copied(mem, s)) /\ B!Copied(mem, s).list = mem.list
          BY <1>1, <3>2, KeptSound
        <5> QED BY <4>2, <5>1, <5>2
      <4> QED BY <2>3, <4>1, <4>2
    <3>5. BufferSound'
      BY <1>1, <3>2, <3>3, <3>4, BufferIs
    <3> QED BY <1>2, <3>2, <3>5 DEF MapInv
  <2> QED BY <1>4, <2>2, <2>3 DEF AddRefuses
<1> QED BY <1>3, <1>4

\* A new map.
LEMMA EmptyView ==
  /\ MapSound(M!EmptyMap, {}, {}) /\ B!Sound(B!EmptyBuffer)
  /\ B!EmptyBuffer.list.i = Len(M!EmptyMap.keys) /\ M!Stored(M!EmptyMap) = {}
<1>1. M!EmptyMap = [num |-> 0, keys |-> <<>>, torn |-> FALSE, bad |-> {}, wild |-> {}]
  BY DEF M!EmptyMap
<1>2. <<>> \in Seq(Strings \cup {Nil}) /\ DOMAIN <<>> = {} /\ Len(<<>>) = 0
  OBVIOUS
<1>3. M!Stored(M!EmptyMap) = {} /\ HasStrings(M!EmptyMap) = {}
  BY <1>1, <1>2 DEF M!Stored, M!ToSet, HasStrings
<1>4. M!EmptyMap \in M!Map(Strings)
  BY <1>1, <1>2, ViewParameters DEF M!Map
<1>5. MapSound(M!EmptyMap, {}, {})
  <2>1. PICK d : d = M!EmptyMap /\ d.num = 0 /\ d.keys = <<>> /\ d.bad = {}
    BY <1>1
  <2>2. IsFiniteSet(HasStrings(d)) /\ Cardinality(HasStrings(d)) = 0
    BY <1>3, <2>1, FS_EmptySet
  <2>3. Cardinality(HasStrings(d)) + (IF d.bad = {} THEN 0 ELSE 1) <= d.num
    BY <2>1, <2>2
  <2>4. Len(d.keys) <= d.num
    BY <1>2, <2>1
  <2>5. MapSound(d, {}, {})
    BY <1>3, <1>4, <2>1, <2>2, <2>3, <2>4 DEF MapSound
  <2> QED BY <2>1, <2>5
<1> QED BY <1>1, <1>2, <1>3, <1>5, EmptySound

LEMMA MapStep ==
  ASSUME MapInv, [LibraryNext]_libraryVars
  PROVE  MapInv'
<1>1. CASE UNCHANGED <<vmap, mem, added, refused>>
  BY <1>1 DEF MapInv, BufferSound, StringsIntact
<1>2. CASE ConsFree
  <2>1. vmap' = M!EmptyMap /\ mem' = B!EmptyBuffer /\ added' = {} /\ refused' = {}
    BY <1>2 DEF ConsFree
  <2>2. BufferSound'
    BY <2>1, EmptyView, BufferIs
  <2> QED BY <2>1, <2>2, EmptyView DEF MapInv
<1>3. ASSUME NEW s \in Strings, AddTakes(s) \/ AddRefuses(s)
      PROVE  MapInv'
  BY <1>3, AddsToMap
<1>4. CASE \/ UNCHANGED libraryVars \/ Filing \/ Reading \/ ConsNew \/ ScanBegin \/ ScanValue
           \/ ScanEnd \/ ViewFree \/ \E s \in Strings : AddCrashes(s)
  <2>1. UNCHANGED <<vmap, mem, added, refused>>
    BY <1>4 DEF libraryVars, allVars, vvars, adding, Filing, Reading, ConsNew, ScanBegin, ScanValue,
                ScanEnd, ViewFree, AddCrashes
  <2> QED BY <1>1, <2>1
<1> QED BY <1>2, <1>3, <1>4 DEF LibraryNext, ReadingOrViewing, ViewNext

LEMMA FirstMap == LibraryInit => MapInv
<1> SUFFICES ASSUME LibraryInit PROVE MapInv
  OBVIOUS
<1>1. vmap = M!EmptyMap /\ mem = B!EmptyBuffer /\ added = {} /\ refused = {}
  BY DEF LibraryInit, ViewInit
<1>2. B!Apart(mem) /\ B!InMemory(mem)
  BY <1>1, EmptyView, SoundIsIntact
<1> QED BY <1>1, <1>2, EmptyView DEF MapInv, BufferSound, StringsIntact

\* For any strings, pages and sizes, and whatever fails: the strings of a view's
\* map lie apart from each other, in their pages, and the list that points to
\* them is in its memory (ddb_membuffer.c, ddb_list.c), as long as its size in
\* bytes is a 32-bit number.
THEOREM StringsStay == LibrarySpec => []StringsIntact
<1>1. LibraryInit => MapInv
  BY FirstMap
<1>2. MapInv /\ [LibraryNext]_libraryVars => MapInv'
  BY MapStep
<1>3. MapInv => StringsIntact
  BY DEF MapInv, BufferSound
<1> QED BY <1>1, <1>2, <1>3, PTL DEF LibrarySpec

-----------------------------------------------------------------------------
(***************************************************************************)
(* The view: which values finalize has found.                              *)
(***************************************************************************)
\* What the ids of w stand for.
Strung(V, w) == {V[v] : v \in Range(w)}

\* A sequence of ids up to k.
LEMMA IdsUpTo ==
  ASSUME NEW k \in Nat, NEW w \in Seq(1 .. k)
  PROVE  w \in Seq(1 .. k + 1) /\ Range(w) \subseteq 1 .. k /\ k + 1 \notin Range(w)
<1>1. \A a \in DOMAIN w : w[a] \in 1 .. k
  OBVIOUS
<1>2. \A a \in DOMAIN w : w[a] \in 1 .. k + 1
  BY <1>1
<1>3. Range(w) \subseteq 1 .. k
  BY <1>1 DEF Range
<1> QED BY <1>2, <1>3

\* One value more is found, behind the others.
OneLonger(V, k, w, e) ==
  /\ e \in Seq(1 .. k + 1) /\ Len(e) = Len(w) + 1 /\ Len(w) \in Nat
  /\ \A a, b \in DOMAIN e : a < b => e[a] < e[b]
  /\ Range(e) = Range(w) \cup {k + 1} /\ k + 1 \notin Range(w)
  /\ IsFiniteSet(Strung(V, e)) /\ Cardinality(Strung(V, e)) = Len(e)

LEMMA OneFound ==
  ASSUME NEW V, NEW k \in Nat, k + 1 \in DOMAIN V,
         \A u, v \in DOMAIN V : V[u] = V[v] => u = v, 1 .. k \subseteq DOMAIN V,
         NEW w \in Seq(1 .. k), \A a, b \in DOMAIN w : a < b => w[a] < w[b],
         IsFiniteSet(Strung(V, w)), Cardinality(Strung(V, w)) = Len(w),
         NEW e, e = Append(w, k + 1)
  PROVE  OneLonger(V, k, w, e)
<1>1. PICK l \in Nat : l = Len(w) /\ DOMAIN w = 1 .. l /\ \A a \in 1 .. l : w[a] \in 1 .. k
  <2>1. Len(w) \in Nat /\ DOMAIN w = 1 .. Len(w)
    OBVIOUS
  <2>2. \A a \in DOMAIN w : w[a] \in 1 .. k
    OBVIOUS
  <2> QED BY <2>1, <2>2
<1>2. /\ Len(e) = l + 1 /\ DOMAIN e = 1 .. l + 1 /\ e[l + 1] = k + 1
      /\ \A a \in 1 .. l : e[a] = w[a]
  BY <1>1
<1>3. e \in Seq(1 .. k + 1)
  BY IdsUpTo
<1>4. ASSUME NEW a \in DOMAIN e, NEW b \in DOMAIN e, a < b
      PROVE  e[a] < e[b]
  <2>1. a \in 1 .. l
    BY <1>1, <1>2, <1>4
  <2>2. CASE b = l + 1
    BY <1>1, <1>2, <2>1, <2>2
  <2>3. CASE b # l + 1
    BY <1>1, <1>2, <1>4, <2>1, <2>3
  <2> QED BY <2>2, <2>3
<1>5. Range(w) = {w[a] : a \in 1 .. l} /\ Range(e) = {e[a] : a \in 1 .. l + 1}
  BY <1>1, <1>2 DEF Range
<1>6. Range(e) = Range(w) \cup {k + 1}
  <2>1. \A a \in 1 .. l + 1 : a \in 1 .. l \/ a = l + 1
    BY <1>1
  <2>2. (\A a \in 1 .. l : a \in 1 .. l + 1) /\ l + 1 \in 1 .. l + 1
    BY <1>1
  <2>3. ASSUME NEW x \in Range(e) PROVE x \in Range(w) \cup {k + 1}
    <3>1. PICK a \in 1 .. l + 1 : x = e[a]
      BY <1>5
    <3>2. CASE a = l + 1
      BY <1>2, <3>1, <3>2
    <3>3. CASE a \in 1 .. l
      BY <1>2, <1>5, <3>1, <3>3
    <3> QED BY <2>1, <3>1, <3>2, <3>3
  <2>4. ASSUME NEW x \in Range(w) \cup {k + 1} PROVE x \in Range(e)
    <3>1. CASE x = k + 1
      BY <1>2, <1>5, <2>2, <3>1
    <3>2. CASE x \in Range(w)
      <4>1. PICK a \in 1 .. l : x = w[a]
        BY <1>5, <3>2
      <4>2. x = e[a] /\ a \in 1 .. l + 1
        BY <1>2, <2>2, <4>1
      <4> QED BY <1>5, <4>2
    <3> QED BY <2>4, <3>1, <3>2
  <2> QED BY <2>3, <2>4
<1>7. Range(w) \subseteq 1 .. k /\ k + 1 \notin Range(w)
  BY IdsUpTo
<1>8. PICK C : C = Strung(V, w)
  OBVIOUS
<1>9. Strung(V, e) = C \cup {V[k + 1]} /\ V[k + 1] \notin C
  <2>1. {V[v] : v \in Range(w) \cup {k + 1}} = {V[v] : v \in Range(w)} \cup {V[k + 1]}
    OBVIOUS
  <2>2. \A v \in Range(w) : V[v] # V[k + 1]
    BY <1>7
  <2> QED BY <1>6, <1>8, <2>1, <2>2 DEF Strung
<1>10. IsFiniteSet(C \cup {V[k + 1]}) /\ Cardinality(C \cup {V[k + 1]}) = l + 1
  BY <1>1, <1>8, <1>9, FS_AddElement
<1> QED BY <1>1, <1>2, <1>3, <1>4, <1>6, <1>7, <1>9, <1>10 DEF OneLonger

\* When as many values were found as the map has items there is no other string
\* in it, and no leaf was lost.
LEMMA AllFound ==
  ASSUME NEW m, NEW A, NEW R, MapSound(m, A, R), NEW C, C \subseteq HasStrings(m), Cardinality(C) = m.num
  PROVE  C = HasStrings(m) /\ m.bad = {}
<1>1. IsFiniteSet(HasStrings(m)) /\ C \in SUBSET HasStrings(m)
  BY DEF MapSound
<1>2. IsFiniteSet(C) /\ Cardinality(C) <= Cardinality(HasStrings(m))
      /\ (Cardinality(C) = Cardinality(HasStrings(m)) => C = HasStrings(m))
  BY <1>1, FS_Subset
<1>3. PICK c \in Nat, q \in Nat : c = Cardinality(HasStrings(m)) /\ q = Cardinality(C)
  BY <1>1, <1>2, FS_CardinalityType
<1>4. c + (IF m.bad = {} THEN 0 ELSE 1) <= q
  BY <1>3 DEF MapSound
<1>5. q <= c
  BY <1>2, <1>3
<1>6. m.bad = {}
  BY <1>3, <1>4, <1>5
<1>7. q = c
  BY <1>3, <1>4, <1>5, <1>6
<1> QED BY <1>2, <1>3, <1>6, <1>7

\* The values of a database that views are made for.
LEMMA ViewedValues ==
  ASSUME IInv, db \in Viewed
  PROVE  /\ Len(db.vals) \in Nat /\ DOMAIN db.vals = 1 .. Len(db.vals)
         /\ \A v \in DOMAIN db.vals : db.vals[v] # Nil
         /\ \A u, v \in DOMAIN db.vals : db.vals[u] = db.vals[v] => u = v
BY ViewAssumption DEF IInv, TypeOK, IsDatabase

\* ddb_view_cons_finalize opens its cursor.
LEMMA ScanBegins ==
  ASSUME MapInv, ScanInv, IInv, ScanBegin
  PROVE  ScanInv'
<1>1. /\ db' = db /\ db \in Viewed /\ kind' = "unique" /\ i' = 1 /\ vpc' = "scan"
      /\ errno' = errno /\ no_valuestr' = no_valuestr /\ counting' = counting
      /\ vid' = 0 /\ vids' = <<>> /\ vleft' = vmap.num /\ vmap' = vmap
  BY DEF ScanBegin, OpenUnique, Opens, ScanInv, adding
<1>2. ~errno /\ ~no_valuestr /\ ~counting
  BY DEF ScanBegin, OpenUnique, Opens, IInv, CursorsAgree
<1>3. Len(db.vals) \in Nat
  BY <1>1, ViewedValues
<1>4. DOMAIN vids' = {} /\ vids' \in Seq(1 .. 0) /\ Len(vids') = 0
  BY <1>1
<1>5. Range(vids') = {} /\ Chosen' = {}
  <2>1. Range(vids') = {}
    BY <1>4 DEF Range
  <2> QED BY <2>1 DEF Chosen
<1>6. IsFiniteSet(Chosen') /\ Cardinality(Chosen') = 0
  BY <1>5, FS_EmptySet
<1>7. vmap.num \in Nat
  BY ViewParameters DEF MapInv, MapSound, M!Map
<1>8. Scanned'
  BY <1>1, <1>3, <1>4, <1>5, <1>6, <1>7 DEF Scanned
<1> QED BY <1>1, <1>2, <1>8 DEF ScanInv, ViewIsExact

\* One pass of its loop.
LEMMA ScanGoesOn ==
  ASSUME ScanInv, IInv, Fits, ScanValue
  PROVE  ScanInv'
<1>1. /\ vpc = "scan" /\ kind = "unique" /\ ~errno /\ ~no_valuestr /\ ~counting /\ i = vid + 1
      /\ Scanned /\ db \in Viewed /\ db' = db /\ vmap' = vmap
  BY DEF ScanValue, ScanInv, NextUnique, adding
<1>2. /\ Len(db.vals) \in Nat /\ DOMAIN db.vals = 1 .. Len(db.vals) /\ vid \in 0 .. Len(db.vals)
      /\ \A v \in DOMAIN db.vals : db.vals[v] # Nil
  BY <1>1, ViewedValues DEF Scanned
<1>3. vpc' = "crashed" => ScanInv'
  BY <1>1 DEF ScanInv, ViewIsExact
<1>4. CASE i > Len(db.vals)
  <2>1. /\ entry' = Nil /\ kind' = kind /\ errno' = errno /\ no_valuestr' = no_valuestr /\ ~counting'
        /\ vid = Len(db.vals)
    BY <1>1, <1>2, <1>4 DEF ScanValue, NextUnique, Return, fields
  <2>2. vpc' = "ended" /\ UNCHANGED scanning
    BY <1>1, <2>1 DEF ScanValue
  <2>3. Scanned'
    BY <1>1, <2>2 DEF scanning, Scanned, Chosen, LookupCrashes, Found
  <2> QED BY <1>1, <2>1, <2>2, <2>3 DEF scanning, ScanInv, ViewIsExact
<1>5. CASE ~(i > Len(db.vals))
  <2>1. i \in DOMAIN db.vals /\ ReturnValue(i) /\ i' = (i + 1) % IdLimit
    BY <1>1, <1>2, <1>5 DEF ScanValue, NextUnique
  <2>2. i' = i + 1
    <3>1. i + 1 \in Nat /\ i + 1 < IdLimit
      <4>1. PICK q \in Nat : q = i
        BY <1>1, <1>2
      <4>2. q <= Len(db.vals)
        BY <1>2, <1>5, <4>1
      <4>3. Len(db.vals) + 1 < IdLimit /\ IdLimit \in Nat
        BY ReaderAssumption DEF Fits
      <4> QED BY <1>2, <4>1, <4>2, <4>3
    <3> QED BY <2>1, <3>1, ModBound, ReaderAssumption
  <2>3. /\ no_valuestr' = no_valuestr
        /\ \/ kind' = "crashed"
           \/ kind' = kind /\ errno' /\ entry' = Nil /\ ~counting'
           \/ kind' = kind /\ ~errno' /\ ~counting' /\ entry' = db.vals[i]
    BY <1>1, <2>1, ValueReturned
  <2>4. CASE kind' = "crashed"
    <3>1. vpc' = "crashed"
      BY <2>4 DEF ScanValue
    <3> QED BY <1>3, <3>1
  <2>5. CASE kind' = kind /\ errno' /\ entry' = Nil /\ ~counting'
    <3>1. vpc' = "ended"
      BY <1>1, <2>5 DEF ScanValue
    <3> QED BY <1>1, <2>3, <2>5, <3>1 DEF ScanInv, ViewIsExact
  <2>6. CASE kind' = kind /\ ~errno' /\ ~counting' /\ entry' = db.vals[i]
    <3>1. entry' # Nil /\ entry' = db.vals[vid + 1] /\ vid + 1 \in DOMAIN db.vals
      BY <1>1, <1>2, <2>1, <2>6
    <3>2. CASE LookupCrashes(entry')
      <4>1. vpc' = "crashed"
        BY <3>1, <3>2 DEF ScanValue
      <4> QED BY <1>3, <4>1
    <3>3. CASE ~LookupCrashes(entry')
      <4>1. /\ vpc' = "scan" /\ vid' = vid + 1
            /\ IF Found(entry') THEN vids' = Append(vids, vid + 1) /\ vleft' = vleft - 1
               ELSE vids' = vids /\ vleft' = vleft
        BY <1>1, <2>6, <3>1, <3>3 DEF ScanValue
      <4>2. Scanned'
        <5>1. /\ vids \in Seq(1 .. vid) /\ \A a, b \in DOMAIN vids : a < b => vids[a] < vids[b]
              /\ IsFiniteSet(Strung(db.vals, vids)) /\ Cardinality(Strung(db.vals, vids)) = Len(vids)
              /\ vleft \in Nat /\ vleft + Len(vids) = vmap.num
              /\ \A v \in 1 .. vid : ~LookupCrashes(db.vals[v]) /\ (v \in Range(vids) <=> Found(db.vals[v]))
          BY <1>1 DEF Scanned, Chosen, Strung
        <5>2. \A s : (LookupCrashes(s)' <=> LookupCrashes(s)) /\ (Found(s)' <=> Found(s))
          BY <1>1 DEF LookupCrashes, Found
        <5>3. vid' \in 0 .. Len(db'.vals) /\ vid \in Nat
          BY <1>1, <1>2, <3>1, <4>1
        <5>4. \A v \in 1 .. vid + 1 : v \in 1 .. vid \/ v = vid + 1
          BY <5>3
        <5>7. vleft > 0
          BY DEF ScanValue
        <5>5. CASE Found(entry')
          <6>1. PICK V, k, w, e : /\ V = db.vals /\ k = vid /\ w = vids /\ e = vids'
                                 /\ k \in Nat /\ w \in Seq(1 .. k)
            BY <5>1, <5>3
          <6>2. /\ e = Append(w, k + 1) /\ k + 1 \in DOMAIN V /\ 1 .. k \subseteq DOMAIN V
                /\ \A u, v \in DOMAIN V : V[u] = V[v] => u = v
            BY <1>1, <1>2, <3>1, <4>1, <5>5, <6>1, ViewedValues
          <6>30. /\ IsFiniteSet(Strung(V, w)) /\ Cardinality(Strung(V, w)) = Len(w)
                 /\ \A a, b \in DOMAIN w : a < b => w[a] < w[b]
            BY <5>1, <6>1
          <6>3. OneLonger(V, k, w, e)
            BY <6>1, <6>2, <6>30, OneFound
          <6>4. \A v \in 1 .. vid' : ~LookupCrashes(db.vals[v]) /\ (v \in Range(vids') <=> Found(db.vals[v]))
            BY <3>1, <3>3, <4>1, <5>1, <5>4, <5>5, <6>1, <6>3 DEF OneLonger
          <6>5. vleft' \in Nat /\ vleft' + Len(vids') = vmap'.num
            <7>1. PICK l \in Nat : l = Len(vids) /\ Len(vids') = l + 1
              BY <6>1, <6>3 DEF OneLonger
            <7>2. PICK q, u : u = vleft /\ q = vmap.num /\ u + l = q /\ q \in Nat /\ u \in Nat /\ u - 1 \in Nat
              BY <5>1, <7>1, <5>7
            <7>3. vleft' = u - 1 /\ vmap'.num = q
              BY <1>1, <4>1, <5>5, <7>2
            <7> QED BY <7>1, <7>2, <7>3
          <6>6. vids' \in Seq(1 .. vid') /\ \A a, b \in DOMAIN vids' : a < b => vids'[a] < vids'[b]
            BY <4>1, <6>1, <6>3 DEF OneLonger
          <6>7. IsFiniteSet(Chosen') /\ Cardinality(Chosen') = Len(vids')
            BY <1>1, <6>1, <6>3 DEF Chosen, Strung, OneLonger
          <6> QED BY <1>1, <5>2, <5>3, <6>4, <6>5, <6>6, <6>7 DEF Scanned
        <5>6. CASE ~Found(entry')
          <6>1. vids' = vids /\ vleft' = vleft /\ vid' = vid + 1
            BY <4>1, <5>6
          <6>2. PICK k, w : /\ k = vid /\ w = vids /\ k \in Nat /\ w \in Seq(1 .. k)
            BY <5>1, <5>3
          <6>3. vid + 1 \notin Range(vids)
            BY <6>2, IdsUpTo
          <6>4. \A v \in 1 .. vid' : ~LookupCrashes(db.vals[v]) /\ (v \in Range(vids') <=> Found(db.vals[v]))
            BY <3>1, <3>3, <5>1, <5>4, <5>6, <6>1, <6>3
          <6>5. vids' \in Seq(1 .. vid')
            <7>1. w \in Seq(1 .. k + 1)
              BY <6>2, IdsUpTo
            <7> QED BY <6>1, <6>2, <7>1
          <6>6. Chosen' = Chosen
            BY <1>1, <6>1 DEF Chosen
          <6> QED BY <1>1, <5>1, <5>2, <5>3, <6>1, <6>4, <6>5, <6>6 DEF Scanned, Chosen
        <5> QED BY <5>5, <5>6
      <4>3. i' = vid' + 1
        BY <1>1, <2>2, <4>1
      <4> QED BY <1>1, <2>3, <2>6, <4>1, <4>2, <4>3 DEF ScanInv, ViewIsExact
    <3> QED BY <3>2, <3>3
  <2> QED BY <2>3, <2>4, <2>5, <2>6
<1> QED BY <1>4, <1>5

\* It returns.
LEMMA ScanEnds ==
  ASSUME MapInv, ScanInv, IInv, ScanEnd
  PROVE  ScanInv'
<1>1. /\ db \in Viewed /\ db' = db /\ kind' = "none" /\ added' = added /\ refused' = refused
      /\ vpc' = IF errno THEN "adding" ELSE "done"
      /\ ~errno => vids' = vids
  BY DEF ScanEnd, FreeCursor, ScanInv, adding
<1>2. vpc' = "done" => ViewIsExact'
  <2> SUFFICES ASSUME ~errno PROVE ViewIsExact'
    BY <1>1
  <2>1. Scanned /\ (vid = Len(db.vals) \/ vleft = 0)
    BY DEF ScanEnd, ScanInv
  <2>2. /\ DOMAIN db.vals = 1 .. Len(db.vals) /\ Len(db.vals) \in Nat
        /\ \A v \in DOMAIN db.vals : db.vals[v] # Nil
        /\ \A u, v \in DOMAIN db.vals : db.vals[u] = db.vals[v] => u = v
    BY <1>1, ViewedValues
  <2>3. \A v \in Range(vids) : v \in 1 .. vid /\ v \in DOMAIN db.vals /\ db.vals[v] \in HasStrings(vmap)
    <3>1. vids \in Seq(1 .. vid) /\ vid \in 0 .. Len(db.vals)
      BY <2>1 DEF Scanned
    <3>2. \A a \in DOMAIN vids : vids[a] \in 1 .. vid
      BY <3>1
    <3>3. \A v \in Range(vids) : v \in 1 .. vid
      BY <3>2 DEF Range
    <3>4. \A v \in 1 .. vid : v \in DOMAIN db.vals
      BY <2>2, <3>1
    <3>5. \A v \in Range(vids) : Found(db.vals[v])
      BY <2>1, <3>3 DEF Scanned
    <3> QED BY <2>2, <3>3, <3>4, <3>5 DEF HasStrings, Found
  <2>4. /\ HasStrings(vmap) \subseteq added \cup refused
        /\ \A s \in added : s \in HasStrings(vmap) \/ LeafOf[s] \in vmap.bad
    BY DEF MapInv, MapSound
  <2>5. \A v \in Range(vids) : db.vals[v] \in added \cup refused
    BY <2>3, <2>4
  <2>6. ASSUME NEW v \in DOMAIN db.vals, db.vals[v] \in added
        PROVE  v \in Range(vids)
    <3>1. CASE vid = Len(db.vals)
      <4>1. v \in 1 .. vid
        BY <2>2, <3>1
      <4>2. ~LookupCrashes(db.vals[v]) /\ (v \in Range(vids) <=> Found(db.vals[v]))
        BY <2>1, <4>1 DEF Scanned
      <4>3. db.vals[v] \in HasStrings(vmap)
        BY <2>4, <2>6, <4>2 DEF LookupCrashes
      <4> QED BY <4>2, <4>3 DEF HasStrings, Found
    <3>2. CASE vleft = 0
      <4>1. Chosen \subseteq HasStrings(vmap)
        BY <2>3 DEF Chosen
      <4>2. Cardinality(Chosen) = vmap.num
        <5>1. Cardinality(Chosen) = Len(vids) /\ vleft + Len(vids) = vmap.num /\ Len(vids) \in Nat
          BY <2>1 DEF Scanned
        <5> QED BY <3>2, <5>1
      <4>3. Chosen = HasStrings(vmap) /\ vmap.bad = {}
        BY <4>1, <4>2, AllFound DEF MapInv
      <4>4. db.vals[v] \in Chosen
        BY <2>4, <2>6, <4>3
      <4> QED BY <2>2, <2>3, <4>4 DEF Chosen
    <3> QED BY <2>1, <3>1, <3>2
  <2>7. \A a, b \in DOMAIN vids : a < b => vids[a] < vids[b]
    BY <2>1 DEF Scanned
  <2>8. vids' = vids
    BY <1>1
  <2> QED BY <1>1, <2>5, <2>6, <2>7, <2>8 DEF ViewIsExact
<1> QED BY <1>1, <1>2 DEF ScanInv, ViewIsExact

LEMMA ScanStep ==
  ASSUME ViewInv, IInv, Fits, [LibraryNext]_libraryVars
  PROVE  ScanInv'
<1>0. MapInv /\ ScanInv
  BY DEF ViewInv
<1>1. CASE UNCHANGED allVars
  BY <1>0, <1>1 DEF allVars, vars, vvars, ScanInv, ViewIsExact, Scanned, Chosen, LookupCrashes, Found
<1>2. CASE Reading
  BY <1>0, <1>2 DEF Reading, vvars, ScanInv, ViewIsExact
<1>3. CASE ConsNew
  BY <1>0, <1>3 DEF ConsNew, vars, ScanInv, ViewIsExact
<1>4. CASE ConsFree
  BY <1>0, <1>4 DEF ConsFree, ScanInv, ViewIsExact
<1>5. ASSUME NEW s \in Strings, AddTakes(s) \/ AddRefuses(s) \/ AddCrashes(s)
      PROVE  ScanInv'
  BY <1>0, <1>5 DEF AddTakes, AddRefuses, AddCrashes, vars, ScanInv, ViewIsExact
<1>6. CASE ViewFree
  BY <1>0, <1>6 DEF ViewFree, vars, ScanInv, ViewIsExact
<1>7. CASE UNCHANGED libraryVars \/ Filing
  BY <1>1, <1>7 DEF Filing, libraryVars
<1> QED BY <1>0, <1>2, <1>3, <1>4, <1>5, <1>6, <1>7, ScanBegins, ScanGoesOn, ScanEnds
        DEF LibraryNext, ReadingOrViewing, ViewNext

\* For any values and strings, and whatever allocations fail: a view has the ids
\* of the values whose strings were added to its constructor, in ascending order,
\* and no other but those of adds that reported a failure.
THEOREM ViewHasWhatWasAdded == ValuesFit => (LibrarySpec => []ViewIsExact)
<1> SUFFICES ASSUME ValuesFit PROVE LibrarySpec => []ViewIsExact
  OBVIOUS
<1>1. LibraryInit => ViewInv /\ IInv /\ Fits
  <2> SUFFICES ASSUME LibraryInit PROVE ViewInv /\ IInv /\ Fits
    OBVIOUS
  <2>1. Init /\ vpc = "none"
    BY DEF LibraryInit, ViewInit
  <2>2. IInv /\ Fits
    BY <2>1, FirstState DEF Init, ValuesFit, Fits
  <2>3. ScanInv
    BY <2>1 DEF ScanInv, ViewIsExact
  <2> QED BY <2>2, <2>3, FirstMap DEF ViewInv
<1>2. ViewInv /\ IInv /\ Fits /\ [LibraryNext]_libraryVars => (ViewInv /\ IInv /\ Fits)'
  BY LibraryStep, EveryStep, MapStep, ScanStep DEF ViewInv, Fits
<1>3. ViewInv => ViewIsExact
  BY DEF ViewInv, ScanInv
<1> QED BY <1>1, <1>2, <1>3, PTL DEF LibrarySpec
=============================================================================
