---------------------------- MODULE Constructor ----------------------------
(***************************************************************************)
(* A constructor of a database (src/src/ddb_cons.c): pairs are added, the  *)
(* database is written, the constructor is freed, and another one may be   *)
(* made from the database.  `cons' stands for struct ddb_cons:             *)
(*                                                                         *)
(*   keys_map, values_map  its maps (module DdbMap)                        *)
(*   live   values_map is not NULL                                         *)
(*   list   the list of value ids a key's item points to, or Nil; module   *)
(*          Deltalist shows that a list is the bag of what was appended    *)
(*   frail  the keys whose list could not grow: its next append may write  *)
(*          beyond its memory                                              *)
(*   id     the value id in a value's item, 0 in a new item                *)
(*                                                                         *)
(* One thread uses a constructor, so a call is a step; copying a database  *)
(* is a step for each pair.  An allocation that fails makes a call return  *)
(* an error, and the caller may go on.  Where the program follows a NULL   *)
(* pointer or uses memory that is not its own, `state' becomes "undefined" *)
(* and nothing is said of what comes after.                                *)
(***************************************************************************)
EXTENDS DdbMap

CONSTANTS
  Keys, Values,
  HashMin,      \* DDB_HASH_MIN_KEYS
  MaxListed,    \* UINT32_MAX, the value ids of a key that can be packed
  MaxCopies,    \* bound on the copies of a pair
  MaxFailures,  \* bound on the failed allocations
  Again         \* a constructor is used after it was finalized, too

ASSUME ConstructorAssumption ==
  /\ Keys \subseteq Strings /\ Values \subseteq Strings
  /\ HashMin \in Nat /\ MaxListed \in Nat /\ MaxCopies \in Nat /\ MaxFailures \in Nat
  /\ Again \in BOOLEAN
  /\ Nil \notin [1 .. MaxItems -> Nat]

\* DDB_MAX_NUM_VALUES: ids are counts of the items of values_map.
Ids == 1 .. MaxItems
NoIds == [i \in Ids |-> 0]

VARIABLES
  cons,     \* the constructor
  state,    \* "open", "copying", "freed", or "undefined"
  db,       \* the database written last, an empty one at first
  left,     \* while copying: the pairs of the database not added yet
  failures  \* the allocations that failed

vars == <<cons, state, db, left, failures>>

NewCons == [keys_map |-> EmptyMap, values_map |-> EmptyMap, live |-> TRUE,
            list |-> [k \in Keys |-> Nil], frail |-> {}, id |-> [v \in Values |-> 0]]

EmptyDb == [keys |-> <<>>, post |-> [k \in {} |-> NoIds], vals |-> <<>>,
            num_uniq |-> 0, num_values |-> 0, multiset |-> FALSE]

Init == /\ cons = NewCons
        /\ state = "open"
        /\ db = EmptyDb
        /\ left = [k \in Keys |-> NoIds]
        /\ failures = 0
-----------------------------------------------------------------------------
(***************************************************************************)
(* ddb_cons_add, on a constructor c                                        *)
(***************************************************************************)
Ids0(l) == IF l = Nil THEN NoIds ELSE l

\* A list is made for a key that has none.
WithKey(c, k) == [c EXCEPT !.keys_map = Inserted(@, k), !.list[k] = Ids0(@)]

\* Mutant: the id is counted before the value is inserted.
WithValueEarly(c, v) ==
  [c EXCEPT !.values_map = Inserted(@, v),
            !.id[v] = IF @ = 0 THEN c.values_map.num ELSE @]

\* A new value takes the number of values as its id.
WithValue(c, v) ==
  [c EXCEPT !.values_map = Inserted(@, v),
            !.id[v] = IF @ = 0 THEN Inserted(c.values_map, v).num ELSE @]

WithPair(c, k, i) == [c EXCEPT !.list[k][i] = @ + 1]

Added(c, k, v) == LET d == WithValue(WithKey(c, k), v) IN WithPair(d, k, d.id[v])

KeyOk(c, k) == CanInsert(c.keys_map, k)
ValueOk(c, v) == c.live /\ CanInsert(c.values_map, v)

\* Where it fails: the key's item, its list, the value's item, the entry of
\* the list.  What was done before that stays.
KeyFails(c, k) == {[c EXCEPT !.keys_map = m] : m \in InsertFails(c.keys_map, k)}

ListNewFails(c, k) == IF KeyOk(c, k) /\ c.list[k] = Nil
                      THEN {[c EXCEPT !.keys_map = Inserted(@, k)]}
                      ELSE {}

ValueFails(c, k, v) == IF KeyOk(c, k) /\ c.live
                       THEN {[WithKey(c, k) EXCEPT !.values_map = m] :
                                m \in InsertFails(c.values_map, v)}
                       ELSE {}

\* ddb_deltalist_append gets no segment, or cannot grow the one it has.
AppendFails(c, k, v) ==
  IF KeyOk(c, k) /\ ValueOk(c, v)
  THEN LET d == WithValue(WithKey(c, k), v)
       IN  {d} \cup (IF d.list[k] = NoIds THEN {} ELSE {[d EXCEPT !.frail = @ \cup {k}]})
  ELSE {}

Failed(c, k, v) == KeyFails(c, k) \cup ListNewFails(c, k) \cup ValueFails(c, k, v)
                     \cup AppendFails(c, k, v)

\* A string cannot be copied: the call goes on with an item for NULL.
Unnamed(c, k, v) ==
  LET noKey == {[c EXCEPT !.keys_map = m] : m \in StringFails(c.keys_map, k)}
      noValue == {WithPair([WithKey(c, k) EXCEPT !.values_map = m], k, m.num) :
                     m \in StringFails(c.values_map, v)}
  IN  (IF ValueOk(c, v) THEN {WithValue(d, v) : d \in noKey} ELSE {})
        \cup (IF KeyOk(c, k) /\ c.live /\ k \notin c.frail THEN noValue ELSE {})

\* No room for the key, or, with the key in place, for the value.
Refused(c, k, v) == (IF Full(c.keys_map, k) THEN {c} ELSE {})
                      \cup (IF KeyOk(c, k) /\ c.live /\ Full(c.values_map, v)
                            THEN {WithKey(c, k)}
                            ELSE {})

\* NULL, a value never written or memory behind a segment is used.
AddUndefined(c, k, v) ==
  \/ InsertCrashes(c.keys_map, k)
  \/ /\ KeyOk(c, k)
     /\ ~c.live \/ InsertCrashes(c.values_map, v) \/ (k \in c.frail /\ ValueOk(c, v))

\* An insertion that gets no leaves goes on without them.
LeavesFail(c, k, v) == \/ NoLeaves(c.keys_map, k)
                       \/ KeyOk(c, k) /\ c.live /\ NoLeaves(c.values_map, v)
-----------------------------------------------------------------------------
(***************************************************************************)
(* The actions of the constructor's user.  A call of add has a key, and a  *)
(* value or NULL.                                                          *)
(***************************************************************************)
Usable == state = "open" /\ (cons.live \/ Again)

Becomes(c) == cons' = c /\ UNCHANGED <<state, db, left, failures>>

MayFail == failures < MaxFailures

FailsTo(c) == /\ MayFail /\ failures' = failures + 1
              /\ cons' = c
              /\ UNCHANGED <<state, db, left>>

\* n allocations failed.
Lost(n) == /\ state' = "undefined"
           /\ failures' = failures + n
           /\ UNCHANGED <<cons, db, left>>

\* The bound on the copies of a pair.
Bounded(k) == \A i \in Ids : Ids0(cons.list[k])[i] < MaxCopies

Crashes(k, v) == \/ AddUndefined(cons, k, v) /\ Lost(0)
                 \/ MayFail /\ LeavesFail(cons, k, v) /\ Lost(1)

AddPair(k, v) == /\ Usable /\ Bounded(k)
                 /\ KeyOk(cons, k) /\ ValueOk(cons, v)
                 /\ Becomes(Added(cons, k, v))

AddKey(k) == Usable /\ KeyOk(cons, k) /\ Becomes(WithKey(cons, k))

AddRefused(k, v) == Usable /\ \E c \in Refused(cons, k, v) : Becomes(c)

AddFails(k, v) == Usable /\ \E c \in Failed(cons, k, v) : FailsTo(c)

AddUnnamed(k, v) == /\ Usable /\ Bounded(k)
                    /\ \E c \in Unnamed(cons, k, v) : FailsTo(c)

AddCrashes(k, v) == Usable /\ Crashes(k, v)
-----------------------------------------------------------------------------
(***************************************************************************)
(* ddb_cons_finalize                                                       *)
(***************************************************************************)
\* pack_hash: the order of the keys, as they were inserted or as the external
\* hash function, which gives each its place, has them.
Orders(c) == LET ks == c.keys_map.keys IN
               IF c.keys_map.num > HashMin
               THEN {f \in [1 .. Len(ks) -> ToSet(ks)] : ToSet(f) = ToSet(ks)}
               ELSE {ks}

\* Mutant: an id that is there twice is left out.
DedupAll(l) == [i \in Ids |-> IF l[i] = 1 THEN 1 ELSE 0]

Dedup(l) == [i \in Ids |-> IF l[i] = 0 THEN 0 ELSE 1]

Multiset(c, unique) ==
  ~unique /\ \E k \in Stored(c.keys_map) : \E i \in Ids : c.list[k][i] > 1

\* pack_key2values
Post(c, unique) == [k \in Stored(c.keys_map) |-> IF unique THEN Dedup(c.list[k]) ELSE c.list[k]]

\* A key has more ids than the type of their number holds, counted before the
\* repeated ones are left out.
TooMany(c) == \E k \in Stored(c.keys_map) :
                MapThenSumSet(LAMBDA i : Ids0(c.list[k])[i], Ids) > MaxListed

\* num_values: the entries that were written.
Written(post) == MapThenSumSet(LAMBDA k : MapThenSumSet(LAMBDA i : post[k][i], Ids), DOMAIN post)

Packed(c, order, unique) ==
  LET post == Post(c, unique)
  IN  [keys |-> order, post |-> post, vals |-> c.values_map.keys,
       num_uniq |-> c.values_map.num, num_values |-> Written(post),
       multiset |-> Multiset(c, unique)]

\* Mutant: a database without values is not thought of.
FinalizeSafeNonempty(c) ==
  /\ c.live /\ c.values_map.num > 0
  /\ ItemsSafe(c.keys_map) /\ c.keys_map.num = Len(c.keys_map.keys)
  /\ \A k \in Stored(c.keys_map) : c.list[k] # Nil

\* The keys are looked up and their lists read.
KeysFound(c) == c.live /\ ItemsSafe(c.keys_map) /\ c.keys_map.num = Len(c.keys_map.keys)
ListsFound(c) == KeysFound(c) /\ \A k \in Stored(c.keys_map) : c.list[k] # Nil

\* Then the values are gone through.
FinalizeSafe(c) == ListsFound(c) /\ CursorSafe(c.values_map)

\* values_map is freed once its strings are written.
Finalize(unique) ==
  /\ Usable /\ FinalizeSafe(cons) /\ ~TooMany(cons)
  /\ \E order \in Orders(cons) : db' = Packed(cons, order, unique)
  /\ cons' = [cons EXCEPT !.live = FALSE]
  /\ UNCHANGED <<state, left, failures>>

\* pack_key2values gives up, and nothing has changed.  Where a key has no list the
\* order of the keys decides whether the long list or the NULL is met first.
FinalizeRefused == Usable /\ KeysFound(cons) /\ TooMany(cons) /\ UNCHANGED vars

\* Memory runs out before values_map is freed, or for the codebook after it.
FinalizeFails == /\ Usable /\ FinalizeSafe(cons)
                 /\ \/ FailsTo(cons)
                    \/ ~TooMany(cons) /\ FailsTo([cons EXCEPT !.live = FALSE])

FinalizeCrashes == /\ Usable /\ ~FinalizeSafe(cons)
                   /\ ~(ListsFound(cons) /\ TooMany(cons))
                   /\ Lost(0)
-----------------------------------------------------------------------------
(***************************************************************************)
(* ddb_cons_free and ddb_cons_ddb                                          *)
(***************************************************************************)
FreeSafe(c) == ItemsSafe(c.keys_map) /\ \A k \in Stored(c.keys_map) : c.list[k] # Nil

Free == /\ state = "open"
        /\ state' = IF FreeSafe(cons) THEN "freed" ELSE "undefined"
        /\ UNCHANGED <<cons, db, left, failures>>

\* The values of a key are strings the database has.
Readable(d) == \A k \in DOMAIN d.post : \A i \in Ids : d.post[k][i] > 0 => i \in DOMAIN d.vals

CopyBegin ==
  /\ state = "freed"
  /\ cons' = NewCons
  /\ state' = IF Readable(db) THEN "copying" ELSE "undefined"
  /\ left' = [k \in Keys |-> IF k \in DOMAIN db.post THEN db.post[k] ELSE NoIds]
  /\ UNCHANGED <<db, failures>>

\* The pair the two cursors are at: keys in order, ids ascending.
AtPair(n, i) == /\ state = "copying" /\ n \in DOMAIN db.keys
                /\ left[db.keys[n]][i] > 0
                /\ \A m \in 1 .. n - 1 : left[db.keys[m]] = NoIds
                /\ \A j \in 1 .. i - 1 : left[db.keys[n]][j] = 0

\* Mutant: a value is copied once.
PassedAll(k, i) == left' = [left EXCEPT ![k][i] = 0]

Passed(k, i) == left' = [left EXCEPT ![k][i] = @ - 1]

\* The new maps have room for what was in maps as large.
CopyPair(n, i) ==
  LET k == db.keys[n]  v == db.vals[i] IN
    /\ AtPair(n, i)
    /\ KeyOk(cons, k) /\ ValueOk(cons, v)
    /\ cons' = Added(cons, k, v)
    /\ Passed(k, i)
    /\ UNCHANGED <<state, db, failures>>

CopyUnnamed(n, i) ==
  /\ AtPair(n, i) /\ MayFail
  /\ cons' \in Unnamed(cons, db.keys[n], db.vals[i])
  /\ Passed(db.keys[n], i)
  /\ failures' = failures + 1
  /\ UNCHANGED <<state, db>>

\* An add or a cursor fails: what there is of the constructor is freed.
CopyFails(n, i) ==
  /\ AtPair(n, i) /\ MayFail
  /\ \E c \in {cons} \cup Failed(cons, db.keys[n], db.vals[i]) :
       state' = IF FreeSafe(c) THEN "freed" ELSE "undefined"
  /\ failures' = failures + 1
  /\ UNCHANGED <<cons, db, left>>

CopyCrashes(n, i) == AtPair(n, i) /\ Crashes(db.keys[n], db.vals[i])

CopyEnd == /\ state = "copying"
           /\ \A k \in Keys : left[k] = NoIds
           /\ state' = "open"
           /\ UNCHANGED <<cons, db, left, failures>>
-----------------------------------------------------------------------------
Adding == \E k \in Keys : \/ AddKey(k)
                          \/ \E v \in Values : \/ AddPair(k, v) \/ AddRefused(k, v)
                                               \/ AddFails(k, v) \/ AddUnnamed(k, v)
                                               \/ AddCrashes(k, v)

Finalizing == \/ \E unique \in BOOLEAN : Finalize(unique)
              \/ FinalizeRefused \/ FinalizeFails \/ FinalizeCrashes

Copying == \/ CopyBegin \/ CopyEnd
           \/ \E n, i \in Ids : \/ CopyPair(n, i) \/ CopyUnnamed(n, i)
                              \/ CopyFails(n, i) \/ CopyCrashes(n, i)

Next == Adding \/ Finalizing \/ Free \/ Copying

Spec == Init /\ [][Next]_vars
-----------------------------------------------------------------------------
Lists == [Ids -> Nat]

Constructors ==
  [keys_map : Map(Keys), values_map : Map(Values), live : BOOLEAN,
   list : [Keys -> Lists \cup {Nil}], frail : SUBSET Keys, id : [Values -> {0} \cup Ids]]

\* What a database is to a reader: keys, lists of ids, values.
Readings(d) == /\ d.keys \in Seq(Keys) /\ d.vals \in Seq(Values)
               /\ DOMAIN d.post = ToSet(d.keys)
               /\ \A k \in DOMAIN d.post : d.post[k] \in Lists

\* The state has its types, and a database has none but keys and values.
TypeOK == /\ cons \in Constructors
          /\ state \in {"open", "copying", "freed", "undefined"}
          /\ Readings(db)
          /\ left \in [Keys -> Lists]
          /\ failures \in 0 .. MaxFailures

\* Items and strings of values_map are in step: no insertion failed half-way.
Whole(m) == m.num = Len(m.keys)

\* A value's id is the place of its string, and no list has an id without one.
Placed(c) ==
  /\ \A v \in Values : c.id[v] # 0 => /\ c.id[v] \in DOMAIN c.values_map.keys
                                      /\ c.values_map.keys[c.id[v]] = v
  /\ \A k \in Keys : \A i \in Ids : Ids0(c.list[k])[i] > 0 => i \in DOMAIN c.values_map.keys

\* The id that ddb_cons_add gives a value, the number of values at that time,
\* is the place at which pack_id2value will write its string, as long as no
\* insertion of a value failed half-way.
IdsArePositions == Whole(cons.values_map) => Placed(cons)

\* Nothing undefined happens to a user who adds, finalizes, frees and copies,
\* unless memory ran out or a finalized constructor is used again.
CrashNeedsFailure == state = "undefined" /\ failures = 0 => Again /\ ~cons.live

\* A database can be read: its values are distinct, the ids of its keys are
\* theirs, all keys are there once, and the flag tells of a pair there twice.
\* Where an insertion into values_map failed half-way, num_uniq says so.
DatabaseIsSound ==
  db.num_uniq = Len(db.vals) =>
    /\ IsInjective(db.vals) /\ IsInjective(db.keys)
    /\ ToSet(db.keys) = DOMAIN db.post
    /\ Readable(db)
    /\ db.multiset <=> \E k \in DOMAIN db.post : \E i \in Ids : db.post[k][i] > 1

\* What a reader of database d finds; its values are distinct.
Place(d, v) == CHOOSE i \in DOMAIN d.vals : d.vals[i] = v

Read(d) ==
  [named |-> ToSet(d.keys),
   count |-> [k \in Keys |-> [v \in Values |->
                IF k \in DOMAIN d.post /\ v \in ToSet(d.vals) THEN d.post[k][Place(d, v)] ELSE 0]]]

\* The pairs of a constructor.
PairsOf(c) == [k \in Keys |-> [v \in Values |->
                 IF c.list[k] = Nil \/ c.id[v] = 0 THEN 0 ELSE c.list[k][c.id[v]]]]

Pairs == PairsOf(cons)

\* ddb_cons_ddb gives a constructor with the pairs of the database, whatever
\* ids they had there.
CopyKeepsPairs ==
  [][state = "copying" /\ state' = "open" /\ failures = 0 => Pairs = Read(db).count]_vars

\* As long as memory suffices a constructor is a multimap: whatever the order
\* of the calls, the database it writes has the pairs that were added
\* (ddb_cons_add, ddb_cons_finalize).
Abstract == INSTANCE Multimap WITH named <- Stored(cons.keys_map),
                                   count <- Pairs,
                                   result <- Read(db)

MultimapSpec ==
  /\ Abstract!Init
  /\ [][failures' = 0 => Abstract!Next \/ UNCHANGED Abstract!vars]_vars
=============================================================================
