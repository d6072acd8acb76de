------------------------------ MODULE PyObjects ------------------------------
(***************************************************************************)
(* Who keeps what alive in the Python module (src/python/discodbmodule.c). *)
(* An object lives as long as its reference count is positive; freeing it  *)
(* frees its native block (a struct ddb, a cursor, a view, a constructor), *)
(* its buffer, and its reference to the object it holds: an iterator holds *)
(* the database it reads, a loaded database the bytes it lies in.          *)
(*                                                                         *)
(* While a function of the module runs Python code (resolve, an iterator,  *)
(* fileno) the program may call the module again, or drop references:      *)
(* calls is the stack of the functions that are under way.  Functions that *)
(* run no Python code are one step.  Python's own part, which lends every  *)
(* call its arguments, is modelled from the calling convention.            *)
(*                                                                         *)
(* Where the module goes on with a NULL the interpreter dies (crashed).    *)
(*                                                                         *)
(* What is assumed of the program: it does not add to a constructor that   *)
(* it has finalized, nor finalize it twice or while it adds to it, and     *)
(* clauses and literals are as many as their length says.                  *)
(***************************************************************************)
EXTENDS Integers, SequencesExt

CONSTANTS
  Dbs, Iters, Views, Queries, Strings, Builders,  \* the objects there may be, by their type
  None,
  MaxObjects,  \* objects made
  MaxDepth,    \* calls under way at a time
  MaxErrors    \* errors

Objects == Dbs \cup Iters \cup Views \cup Queries \cup Strings \cup Builders
Types == <<Dbs, Iters, Views, Queries, Strings, Builders>>

\* An object has one type.
ASSUME PyObjectsAssumption ==
  /\ None \notin Objects
  /\ \A k, n \in 1 .. 6 : k # n => Types[k] \cap Types[n] = {}
  /\ MaxObjects \in Nat /\ MaxDepth \in Nat /\ MaxErrors \in Nat

VARIABLES
  mem,       \* the heap, see below
  prog,      \* the objects the program has a reference to
  calls,     \* the functions under way, the last one running
  reads,     \* the view the cursor of an iterator reads
  finished,  \* the constructors that have been finalized
  errors,    \* exceptions, and constructors that could not be freed, so far
  lossy,     \* the error paths taken that do not clean up
  crashed    \* where the interpreter died

vars == <<mem, prog, calls, reads, finished, errors, lossy, crashed>>
-----------------------------------------------------------------------------
(***************************************************************************)
(* The heap: reference counts, the object each object holds, the objects   *)
(* made so far, those with a native block, databases with a buffer of      *)
(* their own, and the number of blocks that are allocated.                 *)
(***************************************************************************)
Live(o) == mem.refs[o] > 0
Fresh(S) == IF Cardinality(mem.born) < MaxObjects THEN S \ mem.born ELSE {}
Held == {o \in prog : Live(o)}
Loaded == Dbs \cap mem.native

Alloc(h, o) == [h EXCEPT !.refs[o] = 1, !.born = @ \cup {o}]
Incref(h, o) == IF o = None THEN h ELSE [h EXCEPT !.refs[o] = @ + 1]
Hold(h, x, o) == [Incref(h, o) EXCEPT !.holds[x] = o]
Native(h, o) == [h EXCEPT !.native = @ \cup {o}, !.blocks = @ + 1]
Buffer(h, d) == [h EXCEPT !.buffers = @ \cup {d}, !.blocks = @ + 1]
Block(h, k) == [h EXCEPT !.blocks = @ + k]

\* The deallocators, without what the object holds.
Freed(h, o) ==
  [h EXCEPT !.refs[o] = 0,
            !.native = @ \ {o}, !.buffers = @ \ {o},
            !.blocks = @ - Cardinality(h.native \cap {o}) - Cardinality(h.buffers \cap {o})]

\* A string is held by a database, a database by an iterator, an iterator by none.
Last1(h, o) == o # None /\ h.refs[o] = 1
Less(h, o) == IF o = None \/ h.refs[o] = 0 THEN h ELSE [h EXCEPT !.refs[o] = @ - 1]
DecrefPlain(h, o) == IF Last1(h, o) THEN Freed(h, o) ELSE Less(h, o)
DecrefDb(h, o) == IF Last1(h, o) THEN DecrefPlain(Freed(h, o), h.holds[o]) ELSE Less(h, o)
Decref(h, o) == IF Last1(h, o) THEN DecrefDb(Freed(h, o), h.holds[o]) ELSE Less(h, o)

\* A function has no more than three arguments and three references of its own.
Nth(q, k) == IF k \in DOMAIN q THEN q[k] ELSE None
Lend(h, q) == Incref(Incref(Incref(h, Nth(q, 1)), Nth(q, 2)), Nth(q, 3))
Release(h, q) == Decref(Decref(Decref(h, Nth(q, 1)), Nth(q, 2)), Nth(q, 3))
-----------------------------------------------------------------------------
NoHeap == [refs |-> [o \in Objects |-> 0], holds |-> [o \in Objects |-> None],
           born |-> {}, native |-> {}, buffers |-> {}, blocks |-> 0]
NoReads == [i \in Iters |-> None]

Init == /\ mem = NoHeap /\ prog = {} /\ calls = <<>> /\ reads = NoReads
        /\ finished = {} /\ errors = 0 /\ lossy = {} /\ crashed = {}

\* NULL is used: the interpreter is gone, and all that it had.
Crash(how) == /\ mem' = NoHeap /\ prog' = {} /\ calls' = <<>> /\ reads' = NoReads
              /\ finished' = {} /\ errors' = 0 /\ lossy' = {} /\ crashed' = {how}

\* A call: on is self, args are lent by the caller, locals are the function's own references.
Enter(op, on, args, locals, h) ==
  /\ Len(calls) < MaxDepth
  /\ calls' = Append(calls, [op |-> op, on |-> on, args |-> args, locals |-> locals])
  /\ mem' = Lend(h, args)

Running(op) == calls # <<>> /\ Last(calls).op = op
Top == Last(calls)

\* The function ends with the heap h, in which its locals are released already.
Leave(h) == calls' = Front(calls) /\ mem' = Release(h, Top.args)

Raise(how) == /\ errors < MaxErrors
              /\ errors' = errors + 1
              /\ lossy' = lossy \cup how
              /\ UNCHANGED crashed
Fine == UNCHANGED <<errors, lossy, crashed>>

Returns(o) == prog' = prog \cup {o}

\* Python: the program makes an object of its own, or drops a reference.
Make(o) == /\ o \in Fresh(Queries \cup Strings)
           /\ mem' = Alloc(mem, o) /\ Returns(o)
           /\ Fine /\ UNCHANGED <<calls, reads, finished>>

Drop(o) == /\ o \in prog
           /\ prog' = prog \ {o}
           /\ mem' = Decref(mem, o)
           /\ Fine /\ UNCHANGED <<calls, reads, finished>>

\* A database that has no struct ddb, or a constructor that is a failed copy, is used.
UseNothing(o) == /\ o \in (Held \cap (Dbs \cup Builders)) \ mem.native
                 /\ Crash("nothing")
-----------------------------------------------------------------------------
(***************************************************************************)
(* Databases                                                               *)
(***************************************************************************)
\* Mutant: no reference is taken to the bytes.
LoadsBorrowed(b, d) == [Alloc(mem, d) EXCEPT !.holds[d] = b]

\* DiscoDB_loads, up to the struct ddb.
LoadsBytes(b, d) == Hold(Alloc(mem, d), d, b)

Loads(b, d) == /\ b \in Held /\ d \in Fresh(Dbs)
               /\ mem' = Native(LoadsBytes(b, d), d) /\ Returns(d)
               /\ Fine /\ UNCHANGED <<calls, reads, finished>>

\* No memory for the struct ddb, or the bytes are no database.
LoadsFails(b, d) == /\ b \in Held /\ d \in Fresh(Dbs)
                    /\ \E h \in {LoadsBytes(b, d), Native(LoadsBytes(b, d), d)} : mem' = Decref(h, d)
                    /\ Raise({})
                    /\ UNCHANGED <<prog, calls, reads, finished>>

\* DiscoDB_dumps
Dumps(d, b) == /\ d \in Held \cap Loaded /\ b \in Fresh(Strings)
               /\ mem' = Alloc(mem, b) /\ Returns(b)
               /\ Fine /\ UNCHANGED <<calls, reads, finished>>

\* DiscoDB_load and DiscoDB_dump ask a file for its descriptor.
LoadCall(d) == /\ d \in Fresh(Dbs)
               /\ Enter("load", d, <<>>, <<d>>, Alloc(mem, d))
               /\ Fine /\ UNCHANGED <<prog, reads, finished>>

LoadReturns == /\ Running("load")
               /\ Leave(Native(mem, Top.on)) /\ Returns(Top.on)
               /\ Fine /\ UNCHANGED <<reads, finished>>

LoadFails == /\ Running("load")
             /\ \E h \in {mem, Native(mem, Top.on)} : Leave(Decref(h, Top.on))
             /\ Raise({})
             /\ UNCHANGED <<prog, reads, finished>>

\* A negative descriptor is no exception: the object has no struct ddb.
LoadNothing == /\ Running("load")
               /\ Leave(mem) /\ Returns(Top.on)
               /\ Raise({})
               /\ UNCHANGED <<reads, finished>>

DumpCall(d) == /\ d \in Held \cap Loaded
               /\ Enter("dump", d, <<d>>, <<>>, mem)
               /\ Fine /\ UNCHANGED <<prog, reads, finished>>

DumpEnds == /\ Running("dump")
            /\ Leave(mem)
            /\ Fine \/ Raise({})
            /\ UNCHANGED <<prog, reads, finished>>
-----------------------------------------------------------------------------
(***************************************************************************)
(* Constructors                                                            *)
(***************************************************************************)
\* DiscoDBConstructor_new, empty or with the contents of a database.
BuilderNew(c) == /\ c \in Fresh(Builders)
                 /\ mem' = Native(Alloc(mem, c), c) /\ Returns(c)
                 /\ Fine /\ UNCHANGED <<calls, reads, finished>>

\* Out of memory is an exception, unless it is for the copy of a database.
BuilderFails(c) == /\ c \in Fresh(Builders)
                   /\ \/ mem' = Decref(Alloc(mem, c), c) /\ UNCHANGED prog
                      \/ Held \cap Loaded # {} /\ mem' = Alloc(mem, c) /\ Returns(c)
                   /\ Raise({})
                   /\ UNCHANGED <<calls, reads, finished>>

\* ddb_cons_free without the memory to look for its lists: the constructor is not freed.
Forgotten(h) == Block(h, 1)

DropForgets(c) == /\ c \in prog \cap Builders \cap mem.native /\ Last1(mem, c)
                  /\ prog' = prog \ {c}
                  /\ mem' = Forgotten(Decref(mem, c))
                  /\ Raise({"constructor"})
                  /\ UNCHANGED <<calls, reads, finished>>

\* The copy of a database failed.
CopyForgets(c) == /\ c \in Fresh(Builders) /\ Held \cap Loaded # {}
                  /\ mem' = Forgotten(Alloc(mem, c)) /\ Returns(c)
                  /\ Raise({"constructor"})
                  /\ UNCHANGED <<calls, reads, finished>>

Open == {c \in Builders \cap mem.native : c \notin finished}

AddCall(c) == /\ c \in Held \cap Open
              /\ Enter("add", c, <<c>>, <<>>, mem)
              /\ Fine /\ UNCHANGED <<prog, reads, finished>>

AddEnds == /\ Running("add")
           /\ Leave(mem)
           /\ Fine \/ Raise({})
           /\ UNCHANGED <<prog, reads, finished>>

\* Nobody but the caller had a reference to the constructor.
AddForgets == /\ Running("add") /\ Last1(mem, Top.on)
              /\ Leave(Forgotten(mem))
              /\ Raise({"constructor"})
              /\ UNCHANGED <<prog, reads, finished>>

\* DiscoDBConstructor_finalize, and what of it there is when it fails.
Built(h, d) == Native(Buffer(Alloc(h, d), d), d)
PartlyBuilt(h, d) == {Alloc(h, d), Buffer(Alloc(h, d), d), Built(h, d)}

Finalize(c, d) == /\ c \in Held \cap Open /\ d \in Fresh(Dbs)
                  /\ \A k \in DOMAIN calls : calls[k].on # c
                  /\ finished' = finished \cup {c}
                  /\ \/ mem' = Built(mem, d) /\ Returns(d) /\ Fine
                     \/ \E h \in PartlyBuilt(mem, d) : mem' = Decref(h, d)
                        /\ Raise({}) /\ UNCHANGED prog
                  /\ UNCHANGED <<calls, reads>>

\* DiscoDB_new has a constructor of its own, and iterates over the items it is given.
NewCall(c) == /\ c \in Fresh(Builders)
              /\ Enter("new", c, <<>>, <<c>>, Native(Alloc(mem, c), c))
              /\ Fine /\ UNCHANGED <<prog, reads, finished>>

NewReturns(d) == /\ Running("new") /\ d \in Fresh(Dbs)
                 /\ Leave(Decref(Built(mem, d), Top.on)) /\ Returns(d)
                 /\ Fine /\ UNCHANGED <<reads, finished>>

NewFails == /\ Running("new")
            /\ \/ Leave(Decref(mem, Top.on))
               \/ \E d \in Fresh(Dbs) : \E h \in PartlyBuilt(mem, d) :
                    Leave(Decref(Decref(h, d), Top.on))
            /\ Raise({})
            /\ UNCHANGED <<prog, reads, finished>>

NewForgets == /\ Running("new")
              /\ \/ Leave(Forgotten(Decref(mem, Top.on))) /\ UNCHANGED prog
                 \/ \E d \in Fresh(Dbs) : \E h \in PartlyBuilt(mem, d) :
                      Leave(Forgotten(Decref(Decref(h, d), Top.on))) /\ UNCHANGED prog
                 \/ \E d \in Fresh(Dbs) :
                      Leave(Forgotten(Decref(Built(mem, d), Top.on))) /\ Returns(d)
              /\ Raise({"constructor"})
              /\ UNCHANGED <<reads, finished>>

\* A list passes for a mapping, but has no items.
NewCrashes == Running("new") /\ Crash("items")
-----------------------------------------------------------------------------
(***************************************************************************)
(* Iterators                                                               *)
(***************************************************************************)
\* Mutant: no reference is taken to the owner.
IterNewBorrowed(h, i, d) == [Native(Alloc(h, i), i) EXCEPT !.holds[i] = d]

\* A cursor, and DiscoDBIter_new.
IterNew(h, i, d) == Hold(Native(Alloc(h, i), i), i, d)

\* DiscoDB_getitem, DiscoDB_keys, DiscoDB_values, DiscoDB_unique_values
Iterate(d, i) == /\ d \in Held \cap Loaded /\ i \in Fresh(Iters)
                 /\ mem' = IterNew(mem, i, d) /\ Returns(i)
                 /\ Fine /\ UNCHANGED <<calls, reads, finished>>

\* The iterator cannot be made, and its cursor is not freed.
CursorLost(h) == Block(h, 1)

IterateFails(d) == /\ d \in Held \cap Loaded
                   /\ mem' = CursorLost(mem)
                   /\ Raise({"cursor"})
                   /\ UNCHANGED <<prog, calls, reads, finished>>

\* The cursor of a key that is not found is not freed.
KeyError(d) == /\ d \in Held \cap Loaded
               /\ mem' = Block(mem, 1)
               /\ Raise({"cursor"})
               /\ UNCHANGED <<prog, calls, reads, finished>>
-----------------------------------------------------------------------------
(***************************************************************************)
(* Queries: resolve is called, then the terms are collected, then the      *)
(* library makes a cursor.                                                 *)
(***************************************************************************)
QueryCall(d, q, v) == /\ d \in Held \cap Loaded /\ q \in Held \cap Queries
                      /\ v \in (Held \cap Views) \cup {None}
                      /\ Enter("query", d, <<d, q, v>>, <<q, v>>, Incref(Incref(mem, q), v))
                      /\ Fine /\ UNCHANGED <<prog, reads, finished>>

\* What is no view, or an unknown keyword, is refused, and a reference to the query
\* released that was only lent.
QueryMistyped(d, q) == /\ d \in Held \cap Loaded /\ q \in Held \cap Queries
                       /\ mem' = Release(Incref(mem, q), <<q, q>>)
                       /\ Raise({"view type"})
                       /\ UNCHANGED <<prog, calls, reads, finished>>

Querying(resolved) == Running("query") /\ Len(Top.locals) = IF resolved THEN 3 ELSE 2

\* Mutant: the resolved query is released when its clauses are known.
ResolvesEarly(r) == /\ Querying(FALSE) /\ r \in Fresh(Queries)
                    /\ mem' = Decref(Alloc(mem, r), r)
                    /\ calls' = [calls EXCEPT ![Len(calls)].locals = Append(@, r)]
                    /\ Fine /\ UNCHANGED <<prog, reads, finished>>

Resolves(r) == /\ Querying(FALSE) /\ r \in Fresh(Queries)
               /\ mem' = Alloc(mem, r)
               /\ calls' = [calls EXCEPT ![Len(calls)].locals = Append(@, r)]
               /\ Fine /\ UNCHANGED <<prog, reads, finished>>

\* Mutant: the view is not released.
QueryLocalsLess == <<Top.locals[1]>> \o SubSeq(Top.locals, 3, Len(Top.locals))

QueryLocals == Top.locals

QueryRaises == /\ Running("query")
               /\ Leave(Release(mem, QueryLocals))
               /\ Raise({})
               /\ UNCHANGED <<prog, reads, finished>>

\* The clauses cannot be counted, or there is no memory for them or their terms.
QueryCrashes == Querying(TRUE) /\ Crash("query")

\* The terms of the clause that a literal of is no string are not freed.
LiteralRaises == /\ Querying(TRUE)
                 /\ Leave(Release(Block(mem, 1), QueryLocals))
                 /\ Raise({"literal"})
                 /\ UNCHANGED <<prog, reads, finished>>

QueryReturns(i) == /\ Querying(TRUE) /\ i \in Fresh(Iters)
                   /\ reads' = [reads EXCEPT ![i] = Top.locals[2]]
                   /\ Leave(IterNew(Release(mem, QueryLocals), i, Top.on)) /\ Returns(i)
                   /\ Fine /\ UNCHANGED finished

QueryLosesCursor == /\ Querying(TRUE)
                    /\ Leave(CursorLost(Release(mem, QueryLocals)))
                    /\ Raise({"cursor"})
                    /\ UNCHANGED <<prog, reads, finished>>
-----------------------------------------------------------------------------
(***************************************************************************)
(* Views: the view and its constructor are made, then data is iterated.    *)
(***************************************************************************)
ViewCall(v, d) == /\ v \in Fresh(Views) /\ d \in Held \cap Loaded
                  /\ Enter("view", v, <<d>>, <<v, d>>, Incref(Block(Alloc(mem, v), 1), d))
                  /\ Fine /\ UNCHANGED <<prog, reads, finished>>

\* No constructor: NULL is returned at once.
ViewNoMemory(v, d) == /\ v \in Fresh(Views) /\ d \in Held \cap Loaded
                      /\ mem' = Incref(Alloc(mem, v), d)
                      /\ Raise({"view memory"})
                      /\ UNCHANGED <<prog, calls, reads, finished>>

\* The view constructor is freed, and the database released.
ViewDone(h) == Decref(Block(h, -1), Top.locals[2])

ViewReturns == /\ Running("view")
               /\ Leave(ViewDone(Native(mem, Top.on))) /\ Returns(Top.on)
               /\ Fine /\ UNCHANGED <<reads, finished>>

\* When it was an item of the data that is no string it is not released.
ViewFails == /\ Running("view")
             /\ \/ Leave(Decref(ViewDone(mem), Top.on)) /\ Raise({})
                \/ Leave(Decref(ViewDone(Block(mem, 1)), Top.on)) /\ Raise({"item"})
             /\ UNCHANGED <<prog, reads, finished>>

\* The view itself could not be made, and is written to.
ViewCrashes == Held \cap Loaded # {} /\ Crash("view")
-----------------------------------------------------------------------------
DbNext == \/ \E d \in Dbs, b \in Strings : Loads(b, d) \/ LoadsFails(b, d) \/ Dumps(d, b)
          \/ \E d \in Dbs : LoadCall(d) \/ DumpCall(d) \/ KeyError(d) \/ IterateFails(d)
          \/ \E d \in Dbs, i \in Iters : Iterate(d, i)
          \/ LoadReturns \/ LoadFails \/ LoadNothing \/ DumpEnds

BuilderNext == \/ \E c \in Builders : BuilderNew(c) \/ BuilderFails(c) \/ AddCall(c) \/ NewCall(c)
               \/ \E c \in Builders, d \in Dbs : Finalize(c, d)
               \/ \E d \in Dbs : NewReturns(d)
               \/ \E c \in Builders : DropForgets(c) \/ CopyForgets(c)
               \/ AddEnds \/ AddForgets \/ NewFails \/ NewForgets

QueryNext == \/ \E d \in Dbs, q \in Queries, v \in Views \cup {None} : QueryCall(d, q, v)
             \/ \E d \in Dbs, q \in Queries : QueryMistyped(d, q)
             \/ \E r \in Queries : Resolves(r)
             \/ \E i \in Iters : QueryReturns(i)
             \/ QueryRaises \/ LiteralRaises \/ QueryLosesCursor

ViewNext == \/ \E v \in Views, d \in Dbs : ViewCall(v, d) \/ ViewNoMemory(v, d)
            \/ ViewReturns \/ ViewFails

Crashes == (\E o \in Objects : UseNothing(o)) \/ NewCrashes \/ QueryCrashes \/ ViewCrashes

Next == /\ crashed = {}
        /\ \/ \E o \in Objects : Make(o) \/ Drop(o)
           \/ DbNext \/ BuilderNext \/ QueryNext \/ ViewNext \/ Crashes

Spec == Init /\ [][Next]_vars
-----------------------------------------------------------------------------
TypeOK == /\ mem.refs \in [Objects -> Nat] /\ mem.holds \in [Objects -> Objects \cup {None}]
          /\ mem.born \subseteq Objects /\ mem.native \subseteq mem.born
          /\ mem.buffers \subseteq mem.born \cap Dbs /\ mem.blocks \in Nat
          /\ prog \subseteq mem.born /\ Len(calls) <= MaxDepth
          /\ reads \in [Iters -> Views \cup {None}]

Times(o, q) == Cardinality({k \in DOMAIN q : q[k] = o})

\* The n-th arguments and the n-th references of the functions c, None where there is none.
Args(c, n) == [k \in DOMAIN c |-> Nth(c[k].args, n)]
Locals(c, n) == [k \in DOMAIN c |-> Nth(c[k].locals, n)]

\* The references to an object that functions have, and those that somebody has.
Lent(c, o) == Times(o, Args(c, 1)) + Times(o, Args(c, 2)) + Times(o, Args(c, 3))
              + Times(o, Locals(c, 1)) + Times(o, Locals(c, 2)) + Times(o, Locals(c, 3))
Owed(o) == (IF o \in prog THEN 1 ELSE 0) + Lent(calls, o)
           + Cardinality({x \in Objects : Live(x) /\ mem.holds[x] = o})

(***************************************************************************)
(* No reference outlives its object, whatever is called while a function   *)
(* is under way, and whatever fails; but for queries, if something that is *)
(* no view was ever passed with one.                                       *)
(***************************************************************************)
ReferencesCovered ==
  \A o \in Objects : mem.refs[o] < Owed(o) => o \in Queries /\ "view type" \in lossy

(***************************************************************************)
(* As long as none of seven error paths was taken every count is exact, so *)
(* that what is dropped is freed, and every block has its owner: a live    *)
(* object, or the constructor of a view that is being made.  The blocks    *)
(* are what the library hands to the module; what a library function loses *)
(* of its own when it fails is not among them.                             *)
(***************************************************************************)
OnlyLossyPathsLose == lossy = {} =>
  /\ \A o \in Objects : mem.refs[o] = Owed(o)
  /\ mem.blocks = Cardinality(mem.native) + Cardinality(mem.buffers)
                  + Cardinality({k \in DOMAIN calls : calls[k].op = "view"})
  /\ \A o \in mem.native \cup mem.buffers : Live(o)

\* The memory of a database: its own buffer, its bytes, or, with neither, a mapped file.
Readable(d) == /\ d \in mem.native
               /\ mem.holds[d] # None => Live(mem.holds[d])

\* The cursor of an iterator reads a database whose memory is there.
CursorsReadLive == \A i \in Iters : Live(i) => Live(mem.holds[i]) /\ Readable(mem.holds[i])

(***************************************************************************)
(* Memory is sound after every step of the module: counts and buffers are  *)
(* those of objects that exist, and no cursor reads freed memory.          *)
(***************************************************************************)
MemorySafe == TypeOK /\ CursorsReadLive

(***************************************************************************)
(* The terms of a query point into strings that belong to the resolved     *)
(* query: it is there until the library has seen them, and so are the      *)
(* database and the view.                                                  *)
(***************************************************************************)
TermsOutliveTheCall ==
  \A k \in DOMAIN calls : calls[k].op = "query" =>
    /\ Readable(calls[k].on)
    /\ calls[k].locals[2] # None => Live(calls[k].locals[2])
    /\ Len(calls[k].locals) = 3 => Live(calls[k].locals[3])

(***************************************************************************)
(* "an iterator over the values of d whose keys satisfy q"                 *)
(* (src/python/discodbmodule.c:57) reads the view as long as it lives.     *)
(***************************************************************************)
ViewsOutliveCursors == \A i \in Iters : Live(i) /\ reads[i] # None => Live(reads[i])
=============================================================================
