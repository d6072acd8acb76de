-------------------------------- MODULE View --------------------------------
(***************************************************************************)
(* The construction of a view (src/src/ddb_view.c) over a database whose   *)
(* cursors are those of module Reader: strings are put into a map, and     *)
(* ddb_view_cons_finalize looks every unique value of the database up in   *)
(* it.  The ids of the values found are the view, which a query has as a   *)
(* clause of its own (module TermCursor, kind "view").                     *)
(*                                                                         *)
(* The map is module DdbMap with its failed allocations.  The loop of      *)
(* finalize is followed value by value, on a cursor that can fail; a view  *)
(* is built while no other cursor is open.  The values of a database are   *)
(* distinct: its constructor has a map of them.                            *)
(***************************************************************************)
EXTENDS Reader

CONSTANTS
  Strings,     \* what is added to a view
  LeafOf, MaxItems, LeafInc, ListFirst, ListInc,  \* see module DdbMap
  PageSize, Prefix, LengthOf, ListBytes,  \* see module MemBuffer
  Viewed,      \* the databases views are made for: the values are all that matters
  MaxFailures  \* bound on the failures of a view constructor

M == INSTANCE DdbMap
B == INSTANCE MemBuffer WITH FirstRoom <- ListFirst, Increment <- ListInc,
                             MaxSize <- MaxItems, ProductLimit <- ListBytes

ASSUME ViewAssumption == /\ MaxFailures \in Nat
                         /\ Viewed \subseteq Databases
                         /\ \A d \in Viewed : Range(d.vals) \subseteq Strings
                         /\ \A d \in Viewed : \A u, v \in DOMAIN d.vals :
                              d.vals[u] = d.vals[v] => u = v
                         /\ LengthOf \in [Strings -> Nat] /\ PageSize \in Nat /\ Prefix \in Nat
                         /\ Nil \notin Strings /\ MaxItems \in Nat /\ ListBytes \in Nat \ {0}
                         /\ ListFirst \in Nat /\ ListInc \in Nat \ {0}

VARIABLES
  vpc,      \* "none", "adding" with a view constructor, "scan" and "ended" within finalize,
            \* "done" with a view, "crashed"
  vmap,     \* cons->map
  mem,      \* its strings: map->key_buffer and the memory of map->keys
  added,    \* the strings ddb_view_cons_add took
  refused,  \* the strings it reported a failure for
  vleft,    \* n in finalize
  vid,       \* id in finalize
  vids      \* view->values

vvars == <<vpc, vmap, mem, added, refused, vleft, vid, vids>>
allVars == <<vars, vvars>>
adding == <<vmap, mem, added, refused>>
scanning == <<vleft, vid, vids>>

ViewInit == /\ Init
            /\ vpc = "none" /\ vmap = M!EmptyMap /\ mem = B!EmptyBuffer /\ added = {} /\ refused = {}
            /\ vleft = 0 /\ vid = 0 /\ vids = <<>>
-----------------------------------------------------------------------------
ConsNew == /\ vpc = "none" /\ kind = "none" /\ db \in Viewed
           /\ vpc' = "adding"
           /\ UNCHANGED <<vars, adding, scanning>>

\* An item that got no place in the list is found when its string is added again;
\* nobody reads its value.
AddedAgain(s) == s \in vmap.wild /\ LeafOf[s] \notin vmap.bad

\* The copy of the string may fail unnoticed, when it needs a page.
AddTakes(s) ==
  /\ vpc = "adding"
  /\ \/ /\ M!CanInsert(vmap, s) /\ vmap' = M!Inserted(vmap, s)
        /\ mem' = IF s \in M!Stored(vmap) THEN mem ELSE B!Kept(mem, s)
     \/ /\ Cardinality(refused) < MaxFailures /\ B!NeedsPage(mem, s)
        /\ vmap' \in M!StringFails(vmap, s)
        /\ mem' = B!KeptNull(mem)
     \/ AddedAgain(s) /\ UNCHANGED <<vmap, mem>>
  /\ added' = added \cup {s}
  /\ UNCHANGED <<vars, vpc, refused, scanning>>

\* The map is full, or there is no memory for the leaf or for the list; in the
\* last case the string was copied.
AddRefuses(s) ==
  /\ vpc = "adding"
  /\ \/ M!Full(vmap, s) /\ UNCHANGED <<vmap, mem>>
     \/ /\ Cardinality(refused) < MaxFailures
        /\ \/ vmap' \in M!LeafFails(vmap, s) /\ UNCHANGED mem
           \/ vmap' \in M!ListFails(vmap, s) /\ mem' = B!Copied(mem, s)
  /\ refused' = refused \cup {s}
  /\ UNCHANGED <<vars, vpc, added, scanning>>

AddCrashes(s) == /\ vpc = "adding"
                 /\ \/ M!InsertCrashes(vmap, s) /\ ~AddedAgain(s)
                    \/ Cardinality(refused) < MaxFailures /\ M!NoLeaves(vmap, s)
                 /\ vpc' = "crashed"
                 /\ UNCHANGED <<vars, adding, scanning>>

\* ddb_view_cons_free
ConsFree == /\ vpc = "adding"
            /\ vpc' = "none" /\ vmap' = M!EmptyMap /\ mem' = B!EmptyBuffer /\ added' = {} /\ refused' = {}
            /\ UNCHANGED <<vars, scanning>>
-----------------------------------------------------------------------------
(***************************************************************************)
(* ddb_view_cons_finalize.  When there is no memory for the cursor or for  *)
(* the view it returns NULL and changes nothing.                           *)
(***************************************************************************)
ScanBegin == /\ vpc = "adding"
             /\ OpenUnique
             /\ vpc' = "scan"
             /\ vleft' = vmap.num /\ vid' = 0 /\ vids' = <<>>
             /\ UNCHANGED adding

\* ddb_map_lookup_str finds a string whose item has no value, too.
Found(s) == s \in M!Stored(vmap) \cup vmap.wild
LookupCrashes(s) == LeafOf[s] \in vmap.bad

\* Mutant: only the values found are counted.
ScanValueFoundOnly ==
  /\ vpc = "scan" /\ vleft > 0
  /\ NextUnique
  /\ CASE kind' = "crashed" \/ (entry' # Nil /\ LookupCrashes(entry')) ->
            vpc' = "crashed" /\ UNCHANGED scanning
       [] kind' # "crashed" /\ entry' = Nil -> vpc' = "ended" /\ UNCHANGED scanning
       [] OTHER ->
            /\ UNCHANGED vpc
            /\ IF Found(entry')
               THEN vid' = vid + 1 /\ vids' = Append(vids, vid') /\ vleft' = vleft - 1
               ELSE UNCHANGED scanning
  /\ UNCHANGED adding

\* One pass of the loop.
ScanValue ==
  /\ vpc = "scan" /\ vleft > 0
  /\ NextUnique
  /\ CASE kind' = "crashed" \/ (entry' # Nil /\ LookupCrashes(entry')) ->
            vpc' = "crashed" /\ UNCHANGED scanning
       [] kind' # "crashed" /\ entry' = Nil -> vpc' = "ended" /\ UNCHANGED scanning
       [] OTHER ->
            /\ vid' = vid + 1
            /\ UNCHANGED vpc
            /\ IF Found(entry')
               THEN vids' = Append(vids, vid') /\ vleft' = vleft - 1
               ELSE UNCHANGED <<vids, vleft>>
  /\ UNCHANGED adding

\* Mutant: the loop goes on when everything has been found.
ScanEndLate == /\ vpc = "ended"
               /\ FreeCursor
               /\ vpc' = IF errno THEN "adding" ELSE "done"
               /\ vleft' = 0 /\ vid' = 0
               /\ vids' = IF errno THEN <<>> ELSE vids
               /\ UNCHANGED adding

\* The view, unless a value could not be decoded.
ScanEnd == /\ vpc = "ended" \/ (vpc = "scan" /\ vleft = 0)
           /\ FreeCursor
           /\ vpc' = IF errno THEN "adding" ELSE "done"
           /\ vleft' = 0 /\ vid' = 0
           /\ vids' = IF errno THEN <<>> ELSE vids
           /\ UNCHANGED adding

\* ddb_view_free; its constructor may be used again.
ViewFree == /\ vpc = "done"
            /\ vpc' = "adding" /\ vids' = <<>>
            /\ UNCHANGED <<vars, adding, vleft, vid>>

Reading == vpc = "none" /\ Next /\ UNCHANGED vvars

ViewNext == \/ Reading \/ ConsNew \/ ConsFree \/ ScanBegin \/ ScanValue \/ ScanEnd \/ ViewFree
            \/ \E s \in Strings : AddTakes(s) \/ AddRefuses(s) \/ AddCrashes(s)
-----------------------------------------------------------------------------
(***************************************************************************)
(* A view has the ids of the values whose strings were added, in ascending *)
(* order as ddb_view_next needs them; the string of an add that failed may *)
(* be in it, because its item can stay in the map.                         *)
(***************************************************************************)
ViewIsExact == vpc = "done" =>
  /\ \A a, b \in DOMAIN vids : a < b => vids[a] < vids[b]
  /\ \A v \in DOMAIN db.vals :
       /\ db.vals[v] \in added => v \in Range(vids)
       /\ v \in Range(vids) => db.vals[v] \in added \cup refused

(***************************************************************************)
(* The strings of a map stay what they are: none lies over another or      *)
(* beyond its page, one has been kept for every pointer that is not NULL,  *)
(* and the list has room for its pointers as long as eight times its size  *)
(* is a 32-bit number.                                                     *)
(***************************************************************************)
StringsIntact ==
  /\ B!Apart(mem) /\ B!InMemory(mem)
  /\ \A s \in Strings \cap M!Stored(vmap) : \E k \in DOMAIN mem.entries : mem.entries[k].of = s

\* ddb_view_cons_finalize returns, however many strings are not in the database.
FinalizeEnds == vpc = "scan" ~> vpc # "scan"
-----------------------------------------------------------------------------
(***************************************************************************)
(* What makes the two invariants inductive.  The map counts no fewer items *)
(* than it has strings, and one more when a leaf was lost: once finalize   *)
(* has found as many values as the map has items, there is nothing more to *)
(* be found.                                                               *)
(***************************************************************************)
HasStrings(m) == (M!Stored(m) \cup m.wild) \ {Nil}

MapSound(m, taken, failed) ==
  /\ m \in M!Map(Strings) /\ Len(m.keys) <= m.num
  /\ IsFiniteSet(HasStrings(m))
  /\ Cardinality(HasStrings(m)) + (IF m.bad = {} THEN 0 ELSE 1) <= m.num
  /\ HasStrings(m) \subseteq taken \cup failed
  /\ \A s \in taken : s \in HasStrings(m) \/ LeafOf[s] \in m.bad

BufferSound == B!Sound(mem) /\ mem.list.i = Len(vmap.keys) /\ StringsIntact

\* The strings of the view.
Chosen == {db.vals[v] : v \in Range(vids)}

\* What finalize has read, up to its id, is in the view or not in the map.
Scanned ==
  /\ vid \in 0 .. Len(db.vals) /\ vids \in Seq(1 .. vid)
  /\ \A a, b \in DOMAIN vids : a < b => vids[a] < vids[b]
  /\ \A v \in 1 .. vid : ~LookupCrashes(db.vals[v]) /\ (v \in Range(vids) <=> Found(db.vals[v]))
  /\ IsFiniteSet(Chosen) /\ Cardinality(Chosen) = Len(vids)
  /\ vleft \in Nat /\ vleft + Len(vids) = vmap.num

MapInv == added \subseteq Strings /\ MapSound(vmap, added, refused) /\ BufferSound

ScanInv ==
  /\ ViewIsExact
  /\ vpc \in {"none", "adding", "scan", "ended", "done", "crashed"}
  /\ vpc \in {"adding", "done"} => kind = "none"
  /\ vpc # "none" => db \in Viewed
  /\ vpc \in {"scan", "ended"} => kind = "unique" /\ ~no_valuestr /\ ~counting
  /\ vpc = "scan" => Scanned /\ ~errno /\ i = vid + 1
  /\ vpc = "ended" /\ ~errno => Scanned /\ vid = Len(db.vals)

ViewInv == MapInv /\ ScanInv
=============================================================================
