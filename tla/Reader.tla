------------------------------- MODULE Reader -------------------------------
(***************************************************************************)
(* The cursors over a database (src/src/ddb.c): keys, unique values, all   *)
(* values and the values of a key.  The variables are the fields of struct *)
(* ddb_cursor; one cursor is open at a time, as cursors share nothing but  *)
(* the database, which is read only.                                       *)
(*                                                                         *)
(* A call of ddb_next is a step, and so is each pass of the loop of        *)
(* ddb_cursor_count.  The strings are read where the database has them;    *)
(* with compressed values each one is decoded, which may fail.             *)
(***************************************************************************)
EXTENDS FiniteSetsExt, Sequences

CONSTANTS
  Databases,  \* the databases read: see module Contents
  Keys,       \* the keys asked for
  IdLimit,    \* 2^32, the range of a value id and of num_items
  CountLimit, \* 2^64, the range of what ddb_cursor_count returns
  Nil,        \* NULL
  Seen        \* an entry that holds no string of the database

IsDatabase(d) ==
  /\ \A n \in DOMAIN d.keys : d.keys[n] # Nil
  /\ \A n, m \in DOMAIN d.keys : d.keys[n] = d.keys[m] => n = m
  /\ DOMAIN d.keys = 1 .. Len(d.keys) /\ Len(d.keys) \in Nat
  /\ DOMAIN d.vals = 1 .. Len(d.vals) /\ Len(d.vals) \in Nat
  /\ \A j \in DOMAIN d.vals : d.vals[j] # Nil
  /\ DOMAIN d.lists = DOMAIN d.keys
  /\ \A n \in DOMAIN d.lists : d.lists[n] \in Seq(DOMAIN d.vals)
  /\ d.hash \in BOOLEAN /\ d.compressed \in BOOLEAN

ASSUME ReaderAssumption ==
  /\ \A d \in Databases : IsDatabase(d)
  /\ Nil # Seen
  /\ IdLimit \in Nat \ {0} /\ CountLimit \in Nat \ {0}

VARIABLES
  db,           \* c->db, [keys, lists, vals, hash, compressed]
  asked,        \* what the cursor is for: "keys", "unique", "all" or the key of ddb_getitem
  kind,         \* the cursor's next function: "keys", "unique", "all", "value", "empty";
                \* "none" without a cursor, "crashed" after NULL was written to
  i,            \* keys.i, uvalues.i or values.i
  cur,          \* the delta cursor: its list, the ids read, num_left and cur_id
  num_items,    \* c->num_items
  errno,        \* c->errno is set
  no_valuestr,  \* c->no_valuestr
  entry,        \* what the last call returned
  counting,     \* inside ddb_cursor_count
  n,            \* its result
  given         \* the items that calls came to before this one

vars == <<db, asked, kind, i, cur, num_items, errno, no_valuestr, entry, counting, n, given>>
fields == <<asked, kind, num_items, no_valuestr>>

NoDelta == [list |-> 0, read |-> 0, left |-> 0, id |-> 0]

Init == /\ db \in Databases
        /\ asked = "nothing" /\ kind = "none" /\ i = 0 /\ cur = NoDelta /\ num_items = 0
        /\ errno = FALSE /\ no_valuestr = FALSE
        /\ entry = Nil /\ counting = FALSE /\ n = 0 /\ given = 0
-----------------------------------------------------------------------------
(***************************************************************************)
(* The delta cursor over the ids of a key: ddb_delta_encode wrote the      *)
(* differences.                                                            *)
(***************************************************************************)
Delta(l, j) == IF j = 1 THEN l[1] ELSE l[j] - l[j - 1]

DeltaCursor(m) == [list |-> m, read |-> 0, left |-> Len(db.lists[m]), id |-> 0]

\* Mutant: the next id is a difference.
DeltaNextPlain(c) == [list |-> c.list, read |-> c.read + 1, left |-> c.left - 1,
                      id |-> Delta(db.lists[c.list], c.read + 1)]

DeltaNext(c) == [list |-> c.list, read |-> c.read + 1, left |-> c.left - 1,
                 id |-> c.id + Delta(db.lists[c.list], c.read + 1)]
-----------------------------------------------------------------------------
(***************************************************************************)
(* ddb_keys, ddb_unique_values, ddb_values, ddb_getitem, ddb_free_cursor   *)
(***************************************************************************)
Opens(what, k, first, delta, items) ==
  /\ kind = "none"
  /\ asked' = what /\ kind' = k /\ i' = first /\ cur' = delta
  /\ num_items' = items % IdLimit
  /\ UNCHANGED <<db, errno, no_valuestr, entry, counting, n, given>>

\* head->num_values: what pack_key2values added up.
NumValues ==
  LET added[m \in 0 .. Len(db.keys)] == IF m = 0 THEN 0 ELSE added[m - 1] + Len(db.lists[m])
  IN  added[Len(db.keys)]

OpenKeys == Opens("keys", "keys", 0, NoDelta, Len(db.keys))
OpenUnique == Opens("unique", "unique", 1, NoDelta, Len(db.vals))
OpenValues == Opens("all", "all", 0, NoDelta, NumValues)

OpenFound(k, m) == Opens(k, "value", 0, DeltaCursor(m), Len(db.lists[m]))
NotFound(k) == Opens(k, "empty", 0, NoDelta, 0)

\* Mutant: the key at the place of the hash is not looked at.
OpenHashedBlindly(k) ==
  /\ db.hash
  /\ \E id \in 1 .. Len(db.keys) + 1 :
       /\ \A m \in DOMAIN db.keys : db.keys[m] = k => id = m
       /\ IF id \in DOMAIN db.keys THEN OpenFound(k, id) ELSE NotFound(k)

\* The hash gives a key its place, and any place, or none, to other strings.
OpenHashed(k) ==
  /\ db.hash
  /\ \E id \in 1 .. Len(db.keys) + 1 :
       /\ \A m \in DOMAIN db.keys : db.keys[m] = k => id = m
       /\ IF id \in DOMAIN db.keys /\ db.keys[id] = k THEN OpenFound(k, id) ELSE NotFound(k)

\* Without a hash the keys are compared one by one.
OpenScanned(k) ==
  /\ ~db.hash
  /\ IF \E m \in DOMAIN db.keys : db.keys[m] = k
     THEN OpenFound(k, Max({m \in DOMAIN db.keys : db.keys[m] = k}))
     ELSE NotFound(k)

FreeCursor == /\ kind # "none" /\ kind # "crashed" /\ ~counting
              /\ asked' = "nothing" /\ kind' = "none" /\ i' = 0 /\ cur' = NoDelta /\ num_items' = 0
              /\ errno' = FALSE /\ no_valuestr' = FALSE
              /\ entry' = Nil /\ n' = 0 /\ given' = 0
              /\ UNCHANGED <<db, counting>>
-----------------------------------------------------------------------------
(***************************************************************************)
(* ddb_next, for its user and for the loop of ddb_cursor_count             *)
(***************************************************************************)
Return(e) ==
  /\ entry' = IF counting /\ e # Nil THEN Seen ELSE e
  /\ IF counting
     THEN /\ counting' = (e # Nil)
          /\ n' = IF e = Nil THEN n ELSE (n + 1) % CountLimit
          /\ UNCHANGED given
     ELSE /\ given' = IF e = Nil THEN given ELSE (given + 1) % CountLimit
          /\ UNCHANGED <<counting, n>>

\* The string of a value; what is in front of the first one is no string.
ValueOf(id) == IF id \in DOMAIN db.vals THEN db.vals[id] ELSE Seen

\* ddb_get_valuestr.  When realloc fails in ddb_decompress the buffer is NULL,
\* but has a length: the next value is written to it, if it is not empty.
ReturnValue(id) ==
  \/ /\ ~db.compressed \/ no_valuestr
     /\ Return(IF errno THEN Nil ELSE ValueOf(id))
     /\ UNCHANGED <<fields, errno>>
  \/ /\ db.compressed /\ ~no_valuestr
     /\ errno' \in {TRUE, errno}
     /\ Return(IF errno' THEN Nil ELSE ValueOf(id))
     /\ UNCHANGED fields
  \/ /\ db.compressed /\ ~no_valuestr /\ errno
     /\ kind' = "crashed"
     /\ UNCHANGED <<asked, num_items, no_valuestr, errno, entry, counting, n, given>>

\* Mutant: the position stays where it is.
NextKeyStays ==
  /\ kind = "keys"
  /\ Return(IF i = Len(db.keys) THEN Nil ELSE db.keys[i + 1])
  /\ UNCHANGED <<db, i, cur, fields, errno>>

NextKey ==
  /\ kind = "keys"
  /\ IF i = Len(db.keys) THEN Return(Nil) /\ UNCHANGED i
                         ELSE Return(db.keys[i + 1]) /\ i' = i + 1
  /\ UNCHANGED <<db, cur, fields, errno>>

NextUnique ==
  /\ kind = "unique"
  /\ IF i > Len(db.vals) THEN Return(Nil) /\ UNCHANGED <<i, fields, errno>>
                         ELSE ReturnValue(i) /\ i' = (i + 1) % IdLimit
  /\ UNCHANGED <<db, cur>>

\* The next id of the list the delta cursor reads.
ReadOn == /\ cur.left > 0
          /\ cur' = DeltaNext(cur)
          /\ ReturnValue(cur'.id)
          /\ UNCHANGED <<db, i>>

NextValue ==
  /\ kind = "value"
  /\ ReadOn \/ (cur.left = 0 /\ Return(Nil) /\ UNCHANGED <<db, i, cur, fields, errno>>)

\* The keys behind the cursor's that have values.
Filled == {m \in i + 1 .. Len(db.keys) : db.lists[m] # <<>>}

\* Mutant: a key without values ends the cursor.
NextListStops ==
  /\ cur.left = 0 /\ i < Len(db.keys)
  /\ i' = i + 1
  /\ IF db.lists[i + 1] = <<>>
     THEN cur' = DeltaCursor(i + 1) /\ Return(Nil) /\ UNCHANGED <<db, fields, errno>>
     ELSE cur' = DeltaNext(DeltaCursor(i + 1)) /\ ReturnValue(cur'.id) /\ UNCHANGED db

\* values_cursor_next goes on to the next key with values ...
NextList ==
  /\ cur.left = 0 /\ Filled # {}
  /\ i' = Min(Filled)
  /\ cur' = DeltaNext(DeltaCursor(i'))
  /\ ReturnValue(cur'.id)
  /\ UNCHANGED db

\* ... or to the end.
NoList ==
  /\ cur.left = 0 /\ Filled = {}
  /\ i' = Len(db.keys)
  /\ cur' = IF i = i' THEN cur ELSE DeltaCursor(i')
  /\ Return(Nil)
  /\ UNCHANGED <<db, fields, errno>>

NextOfAll == kind = "all" /\ (ReadOn \/ NextList \/ NoList)

NextEmpty == kind = "empty" /\ Return(Nil) /\ UNCHANGED <<db, i, cur, fields, errno>>

NextEntry == NextKey \/ NextUnique \/ NextValue \/ NextOfAll \/ NextEmpty

\* ddb_cursor_count
CountBegin == /\ kind \notin {"none", "crashed"} /\ ~counting
              /\ no_valuestr' = TRUE /\ counting' = TRUE
              /\ n' = 0 /\ given' = (given + n) % CountLimit
              /\ UNCHANGED <<db, asked, kind, i, cur, num_items, errno, entry>>

Opening == \/ OpenKeys \/ OpenUnique \/ OpenValues
           \/ \E k \in Keys : OpenHashed(k) \/ OpenScanned(k)

Next == Opening \/ FreeCursor \/ NextEntry \/ CountBegin

Spec == Init /\ [][Next]_vars
-----------------------------------------------------------------------------
Kinds == {"none", "keys", "unique", "all", "value", "empty", "crashed"}
Places == 0 .. Len(db.keys)

\* Positions stay in the database.
TypeOK == /\ IsDatabase(db)
          /\ kind \in Kinds
          /\ kind = "keys" => i \in Places
          /\ kind = "unique" => i \in 1 .. Len(db.vals) + 1
          /\ kind = "all" => i \in Places
          /\ cur \in [list : Places, read : Nat, left : Nat, id : {0} \cup DOMAIN db.vals]
          /\ errno \in BOOLEAN /\ no_valuestr \in BOOLEAN /\ counting \in BOOLEAN
          /\ n \in Nat /\ given \in Nat

\* The places a cursor has not come to.
Left == CASE kind = "keys" -> (i + 1 .. Len(db.keys)) \X {0}
          [] kind = "unique" -> {0} \X (i .. Len(db.vals))
          [] kind = "value" -> {cur.list} \X (cur.read + 1 .. Len(db.lists[cur.list]))
          [] kind = "all" -> UNION {{m} \X {j \in DOMAIN db.lists[m] : m = i => j > cur.read} :
                                      m \in {m \in DOMAIN db.keys : m >= i}}
          [] OTHER -> {}

\* Whatever is opened, a cursor returns the strings of the database that are
\* asked for, each once and in order, then NULL; after an error only NULL
\* (ddb_next).  A key that is not there has none, whatever the hash says.
Iter == INSTANCE Contents WITH todo <- IF errno THEN {} ELSE Left,
                               blind <- no_valuestr, failed <- errno

ContentsSpec == Iter!Spec

\* ddb_cursor_count and the calls before it add up to what
\* ddb_resultset_size said when the cursor was opened.
CountIsRight == [][counting /\ ~counting' /\ ~errno => given + n = num_items]_vars

\* ddb_cursor_count returns.
CountEnds == counting ~> ~counting
-----------------------------------------------------------------------------
\* The delta cursor has summed up the differences to an id of its list.
DeltaInStep ==
  kind \in {"all", "value"} /\ cur.list > 0 =>
    /\ cur.read + cur.left = Len(db.lists[cur.list])
    /\ cur.id = IF cur.read = 0 THEN 0 ELSE db.lists[cur.list][cur.read]

CursorsAgree == /\ kind = "all" => cur.list = i
                /\ kind = "value" => cur.list > 0
                /\ cur.list = 0 => cur = NoDelta
                /\ kind = "none" => ~errno /\ ~no_valuestr /\ entry = Nil
                /\ kind \in {"keys", "empty"} => ~errno
                /\ errno => db.compressed
                /\ counting => no_valuestr /\ kind \notin {"none", "crashed"}
                /\ kind = "crashed" => errno

\* Counting ends at the end.
CountedOut == no_valuestr /\ ~counting => errno \/ Left = {}

\* The inductive invariant.
IInv == TypeOK /\ DeltaInStep /\ CursorsAgree /\ CountedOut
=============================================================================
