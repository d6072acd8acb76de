# Verification of DiscoDB

DiscoDB is an immutable, persistent mapping from keys to lists of values, a C
library with bindings for Python, Erlang and Lua.  A *constructor* collects
key-value pairs and packs them into one buffer; a *database* is that buffer,
mapped into memory, read through *cursors*; the most elaborate cursor answers a
query in conjunctive normal form.  This directory models the library in TLA+,
checks the models with TLC on small instances and proves the main theorems with
TLAPS for every instance.

## 1. Inventory

| component | source | state | operations | what makes it correct |
|---|---|---|---|---|
| constructor | `src/src/ddb_cons.c` | a map of keys to deltalists, a map of values to ids | new, ddb (copy), add, finalize, free | the buffer holds exactly the pairs added; a value's id is its position in the value section |
| map | `src/src/ddb_map.c` | hash trie, list of keys in order of insertion, count | insert, lookup, cursor, free | a key is stored once, the count is the length of the list |
| deltalist | `src/src/ddb_deltalist.c` | segments of 16-bit deltas, `min_maxval` | new, append, to_array, free | gives back what was appended, never writes beyond a segment |
| value-id codec | `src/src/ddb_delta.c` | buffer of bits; cursor | encode, cursor, cursor_next | decoding what was encoded |
| memory buffer, list | `src/src/ddb_membuffer.c`, `ddb_list.c` | pages, array | copy, append | what was stored never moves or overlaps |
| Huffman coding | `src/src/ddb_huffman.c`, `ddb_queue.c` | code book, ring queue | create_codemap, compress, decompress | decompress inverts compress |
| perfect hash | `src/src/ddb_cmph.c`, `ddb_hash.h` | - | build | external library |
| reader cursors | `src/src/ddb.c` | position per cursor | keys, values, unique_values, getitem, next, count | each item once, in order, `num_items` of them |
| query cursor | `src/src/ddb_cnf.c`, `ddb.c` | terms, window, bitmaps | query, query_view, next | exactly the matching ids, once, in order |
| view | `src/src/ddb_view.c` | sorted ids | cons_add, cons_finalize | exactly the ids of the values added |
| load and dump | `src/src/ddb.c` | mapped buffer | load, loads, dump, dumps | a truncated buffer is refused, everything is written |
| Erlang queue | `src/erlang/c_src/queue.c` | linked list, mutex, condition | push, pop | FIFO, no lost wake-up |
| Erlang binding | `src/erlang/c_src/discodb_nif.c`, `src/erlang/src/discodb.erl` | objects with a worker thread each, messages, references | init, call, wait, worker loop, destructors | each call answered once; nothing freed while used; no thread waits for ever |
| Python module | `src/python/discodbmodule.c` | reference counts | query, view, constructor, iterators | nothing freed while used |
| Python query algebra | `src/python/discodb/query.py` | immutable queries | and, or, not, resolve, expand | operators mean what they say |
| Lua binding, tools | `src/lua/discodb.lua`, `src/src/util/*.c` | - | thin callers | - |

How they interact.  The constructor calls the map and the deltalist for every
pair, and the codec, the Huffman coder and the perfect hash when it packs.  A
database's cursors read the packed sections; a query's terms are cursors made by
`ddb_getitem` (or a view), read a window of ids at a time by `ddb_cnf.c`.  The
library itself is sequential.  Concurrency is in the Erlang binding: each
constructor or database has a thread of its own, fed by a queue; answers are
Erlang messages; objects and iterators live as long as ERTS counts references to
them, and the destructor joins the thread.

What is hard here: the loops of the query cursor (several terms per clause,
several clauses, windows, ids that end at different times, a decoding that
fails in the middle); 32-bit arithmetic at the documented limits; partial
failures in a deltalist that grows; the Erlang queue's wake-ups; a destructor
against a worker that still has requests, and processes killed while they wait.
`PROJECT.json` lists each hazard at its line, with the properties for it.

## 2. Modules

| module | models | state and actions |
|---|---|---|
| `AscendingIter` | what a query or a term promises: a set of ids in ascending order, then NULL, or an error and nothing more | abstract |
| `TermCursor` | `ddb_val_next`, `ddb_not_next`, `ddb_view_next` and the delta cursor they read | `cur`, `empty` are the term's fields, `vcur` the delta cursor's `cur_id`; one action per call, except `ddb_not_next`, whose loop is stepped through |
| `CnfCursor` | `ddb_query_view`, `ddb_cnf_cursor_next` and all it calls | one action per pass of each loop; a term is the iterator that `TermCursor` implements |
| `Contents` | what the other cursors promise: the strings asked for, each once, in the order of the database | abstract |
| `Reader` | `ddb_keys`, `ddb_unique_values`, `ddb_values`, `ddb_getitem`, `ddb_next`, `ddb_cursor_count`, `ddb_free_cursor` | the fields of `struct ddb_cursor`; a call of `ddb_next`, or a pass of the loop of `ddb_cursor_count`, is an action |
| `MemBuffer` | `ddb_membuffer.c` and `ddb_list.c`: the strings of a map and the pointers to them | operators on a record: pages, entries, the list with its size and its bytes |
| `View` | the constructor of views, `ddb_view_cons_finalize`, `ddb_view_free` | a `DdbMap` with its `MemBuffer`, a cursor over unique values that is `Reader`'s; one action per add and outcome, finalize value by value |
| `LoadDump` | `ddb_dump`, `ddb_loado` and `ddb_loads`, `ddb_free` | the cells of a file; a `write`, which may be short or fail, is an action; a mapping shows later writes |
| `Library` | what a program does with databases | `View` (and so `Reader`) and `LoadDump` together |
| `Multimap` | what a constructor promises: the database holds the pairs that were added | abstract |
| `DdbMap` | `ddb_map.c` for strings: insertion, lookup, cursors, what an allocation that fails leaves behind | operators on records: leaves, the list of keys, the count |
| `Constructor` | `ddb_cons_new`, `_add`, `_finalize`, `_free`, `_ddb` over `DdbMap` | a constructor, a packed database and a copy; one action per call and outcome, the copy pair by pair |
| `Deltalist` | `ddb_deltalist_append`, `_to_array` | one action per call and outcome, allocation failures included; `cap` is the memory a segment really has |
| `DeltaCodec` | `ddb_delta_encode` and the cursor that reads the result | operators: the width of a field, differences, repeated ids |
| `Huffman` | `ddb_create_codemap`, `ddb_compress`, `ddb_save_codemap`, `ddb_decompress`, and the ring queue | counting, sorting, one action per inner node, the codes; compression and decompression are operators on bits |
| `Packing` | what finalize packs | `Deltalist` encoded by `DeltaCodec`, and `Huffman` |
| `Fifo` | a FIFO queue several threads use | abstract |
| `ErlQueue` | `queue_push`, `queue_pop` | list items by address, one action per critical section, `cond_wait` with signals and spurious wake-ups |
| `ErlNif` | objects, worker threads, requests, answers, destructors, requests there is no memory for | one action per handler; the queue is the sequence `ErlQueue` implements |
| `Clauses`, `QueryAlgebra` | `query.py`: conjunctive normal form, the operators, resolving, expanding, printing and parsing | two queries a program builds step by step, each with the values it asks for; what the recursive methods do is functions over the queries that nest no deeper than there are operators |
| `PyObjects` | the reference counts and the memory of `discodbmodule.c` | the heap, the program's references, the functions under way; a function that runs Python code is entered and left, so that others run in between |
| `MCCnfCursor`, `MCReader`, `MCConstructor`, `MCPacking`, `MCErlNif`, `MCQueryAlgebra`, `MCPyObjects` | the queries, databases, strings, corpora, requests and symmetry the runs use | - |
| `QueryProofs`, `CnfCursorProofs`, `LibraryProofs`, `PackingProofs`, `ConstructorProofs`, `ErlQueueProofs`, `ErlNifProofs`, `PyObjectsProofs` | theorems | - |

`TermCursor` implements `AscendingIter` (`IterSpec`), which is what `CnfCursor`
takes a term for (its `TermNext`), and `CnfCursor` implements `AscendingIter`
again over the matching ids: the two levels compose.  In the same way `ErlQueue`
implements `Fifo` and `ErlNif` uses a sequence; what `Packing` reads back from
the field of a key is what was appended to its list (`PackedRight`), and
`Constructor` keeps a bag of ids; `Constructor` and `View` call the operators of
`DdbMap` for every map they have, and `View` steps a cursor of `Reader`.  Where
components share nothing (files and cursors, lists of ids and values to
compress), a behaviour of their composition uses one of them: the product of
their states would show nothing more.

Data is abstracted: a value is its id or a model string, a bitmap the set of its
bits, a deltalist segment keeps its deltas, a hash is any function that gives
the keys of the database a place, a buffer in a file a sequence of cells.
Integers keep their width where the code relies on it: ids, windows and
`num_items` are taken modulo `IdLimit` (2^32), the result of a count modulo
`CountLimit` (2^64), the bytes of a list modulo `ListBytes` (2^32), deltas are
bounded by `DeltaMax` (2^16 - 1), the items of a map by `MaxItems`, the value ids
of a key by `MaxListed` (`UINT32_MAX`), and a byte in `Huffman` has `ByteBits` bits;
words are sorted and weighed by their counts modulo `FreqLimit` (2^32, the type in
`struct sortpair`), and a compressed value is refused from `SizeLimit` bytes
(`UINT_MAX`) on; in `DeltaCodec` an id has `IdBits` bits (32) and the width of a
field `WidthBits` (5).

In `Reader` one cursor is open at a time: cursors share nothing but the
database, which is read only.  A value that cannot be decoded (an allocation
fails in `ddb_decompress`) sets `errno` for good; the buffer is then NULL but its
length has grown, so that decoding another value may write through NULL: the
state `"crashed"`, which only a user who goes on after an error can reach.

Definitions named "Mutant" in a comment are the plausible errors the properties
are tried against; nothing refers to them.

## 3. Runs

| run | asks | bounds |
|---|---|---|
| `term_cursor` | does a term return exactly its ids in order, with the delta cursor ahead | every key over 6 ids, every kind |
| `cnf_cursor` | are exactly the matches delivered in order, also when decoding may fail at any call; are windows disjoint; is the dead return dead; is everything delivered, or an error, in the end; is the proofs' invariant one | 4 ids, windows of 2 (so up to three windows and a partial one), queries of up to two clauses and two terms, an empty clause, a view |
| `packing` | does the field of a key give back what was appended to its list, in bounds; are values decompressed to what was compressed, is their code optimal and is there room for its nodes | 6 ids of 3 bits, widths of 2 bits, deltas up to 2, sizes 2, 4, 5, 6 appends, 1 failure: segments fill up, grow twice, split and are reordered; values of up to 16 bytes of 2 bits, words of 2 bytes, codes of up to 3 bits, 8 symbols, 5 candidates: too many words, and words that lie too deep; counts modulo 6, so that a word may be met more often than its count says, and values refused from 5 bytes on |
| `cons` | is a constructor a multimap, and a copy of its database another; what stays true of ids and of the database when any one allocation fails, and which undefined behaviour needs that | 2 keys, 3 values with room for 2, a pair at most twice, keys of more than 2 ids refused when they are packed, leaves and lists that grow at every item, 1 failure, calls after finalize |
| `reader` | does every cursor return the strings asked for, with a hash or without, until a value cannot be decoded; does counting end, at the size announced; is a view exact, and do the strings of its map stay intact; is a database that can be loaded whole | every database of up to 2 keys, lists of up to 2 ids, up to 3 unique values; one key that is not there; views of up to 4 strings, two in one leaf, one longer than a page, 1 failure; buffers of 3 and 4 cells, up to 3 dumps over, behind or instead of each other, writes of up to 3 cells, pages of 2 |
| `erl_queue` | does the list implement a FIFO queue from which everything is popped | 2 producers, 2 consumers, 3 list items that are freed and used again |
| `erl_nif` | each request answered once and only to its caller; nothing referred to while destroyed; destruction ends | 2 processes, 2 objects, every request, iterators that processes share, one request that is lost for memory, or is NULL and kills the virtual machine; one process may be killed at any time and uses no iterators |
| `erl_resurrect` (violation) | the same for a process with iterators | 1 process, 1 object |
| `query_algebra` | does a query ask for the values its operators say, resolved or expanded; is what is printed parsed as the same query | 4 names that are keys and values, 2 queries, 4 operators |
| `query_invert` (violation) | the inversion of a clause is a query | the same |
| `py_objects` | does a reference outlive its object, is anything read that was freed, is anything lost but on seven error paths, whatever the program does while a function runs its code | 5 objects of 8, 2 functions under way, 1 error; objects of a type are symmetric |
| `py_view` (violation) | an iterator over the values that satisfy a query and a view can be used as long as it lives | the same |

The bounds are enough for what the properties could go wrong on: a window that
is left and entered again, ids below, in and behind a window, a term that ends
before its clause and a clause before the query; a list without ids in front
of, between and behind others, an id that is repeated in its list; a segment
that is full, one that grows past its half size and one skipped for a delta
that is too large; a map that is full in the middle of an add, an item whose
list or string is missing; a page that has room for a string but not for its
length, and one page emptier than the current one; a dump over a longer one and
behind one that stopped; a list item reused while another thread waits; an
object destroyed by a process, by its own worker and by another object's
worker; a query behind a `+` behind a `+`; a reference dropped in the middle of
each function.  A map of keys is never full in the run `cons` (two keys, room for
two): that case is left to the proofs.  Every property has a mutant of the code
that TLC finds with it.

The invariants `TermSafe`, `ListSafe`, `QueueSafe`, `ObjectsSafe`, `MemorySafe` and `IInv`
are conjunctions: the type invariant of their module together with the facts
named in it, each with its comment.

### What the runs found

* `erl_resurrect`: the destructor of an object runs while its worker still has a
  request to get an iterator; the iterator takes a reference to the dying
  object, cannot be delivered to a process that was killed, and releases it on
  the worker, which runs the destructor a second time, inside the thread that
  the first one joins.
* `query_invert`: a clause is inverted with `reduce` over `&`.  The conjunction of
  two literals is a query already, and a query and a literal have no `&`: the
  inversion of a clause with three literals raises an exception, and so does
  the inversion of an empty one.
* `py_view`: an iterator keeps its database, but not the view its query was made
  with.  When the program drops the view, the iterator reads freed memory.

### Known limits

These are in the models, as states that can be reached or as the hypotheses of
theorems; a property is stated so that it says where they begin.

* `base_id + WINDOW_SIZE` (`ddb_cnf.c:72`) wraps in the last window of the id
  space: nothing is collected, the term does not advance, and the query opens
  the same window for ever (hypothesis `NoWrap` of `CnfWindowsAdvance`).
  `num_uniq_values + 1` (`ddb_cnf.c:167`) is 0 in a database with the greatest
  number of unique values, and a negated term is empty at once (hypothesis
  `LastFits`); `ddb.c:212` never ends with that number (hypothesis `ValuesFit`).
* Finalize frees `values_map`: a second finalize, or an add after it, dereferences
  NULL (`CrashNeedsFailure` excludes finalized constructors).  The Python methods
  do not check for it.
* `new_item` counts an item before the allocations that may fail, so that after a
  failed add the ids of later values are not their positions, and there may be
  ids without a string (`IdsArePositions` and `DatabaseIsSound` exclude the
  constructors this happened to).
* `ddb_cons_ddb` adds a key once per value, so that keys without values are not
  in the copy: `CopyKeepsPairs` is about pairs.
* A full segment is never moved to the tail of its deltalist, as the comment at
  the head of `ddb_deltalist.c` says it is: `matching_segment` stops at the first
  full one, so `grow_segment` never sees it and `segment_full` is dead code; only
  memory is wasted, the list still gives back what was appended.
* A word's count is pointer-wide, but sorted and weighed in 32 bits
  (`ddb_huffman.c:27`, `:179`): from 2^32 occurrences of a word on the code need not be
  optimal, and the most frequent words need not be those that get one (`Optimal`
  asks for `CountsFit`); what is compressed is still read back (`RoundTrip`).  A value
  whose compressed form would be 2^32 - 1 bytes or longer is refused (`TooLong`).
* The keys of a database are packed in a loop over an `int` (`ddb_cons.c:138`): with
  2^31 keys or more it turns negative.  The models have no such index.
* `ddb_map_new` without memory for the leaves of its map frees it with a loop over
  these leaves, and reads at NULL (`ddb_map.c:154`, `:235`).  The models make maps with
  their leaves.
* `list->size * 8` (`ddb_list.c:37`) is a 32-bit product: `StringsIntact` holds up to
  there.
* A database dumped over a longer file without `O_TRUNC` by a process that stops,
  or behind a dump that stopped, is mixed with what was there and may load:
  `LoadedStaysWhole` excludes the files this happened to (`patched`).
* An object whose worker thread could not be started has no queue when its
  destructor runs (`discodb_nif.c`), and the object that was started for a
  finalize that fails is never released.
* A request that `queue_push` has no memory for is lost, its caller waits for
  ever, and an object whose stop message is lost is never destroyed: `Answered`
  and `DestructionEnds` are about requests that are not lost.  A request that
  there is no memory to make is pushed as NULL, and the worker that pops it
  reads there (`Crashed`): the virtual machine dies, and both properties end.
* Seven error paths of the Python module lose memory or a reference (`lossy` in
  `PyObjects`): a key that is not found, and an iterator that cannot be made, do
  not free their cursor; a literal without its attributes, or whose term is no
  string, does not free the terms of its clause; a view whose constructor cannot
  be made is not freed; an item that cannot be added to a view is not released;
  a query whose other arguments are refused releases a reference it has not
  taken; and a constructor that is freed when there is no memory for the cursor
  over its keys is not freed at all (`ddb_cons.c:483`).  `OnlyLossyPathsLose` counts
  what the library hands to the module: what a library function loses of its own
  when it fails (the old buffer of a `realloc`, for one) is not among it.
* The Python module goes on with NULL in four cases, and the interpreter dies
  (`crashed`): the items of what passes for a mapping and is none, a query whose
  clauses cannot be counted or that has no memory for them or their terms
  (`discodbmodule.c:315`, `:317`, `:331`), a view object that cannot be made (`:952`), and
  any use of an object without a database or constructor.  Such an object comes
  from a file whose descriptor is negative, or from a copy that fails, neither
  of which is an exception.
  `PyMapping_Check` lets a list pass in Python 3 (`:148`), although
  `__init__.py:50` promises a database from any iterable of pairs and
  `test_list_constructor` makes one from a list.
* A metaquery has no query for a combination in which something behind a `+` has
  no values, and the other literals of that clause are lost with it
  (`MetaqueryAgrees` asks for `Fruitful`).

## 4. Fairness

* `CnfCursor`, `TermCursor`: `WF(Next)`.  A call is straight-line code on one
  thread, and the callers that matter (`ddb_cursor_count`, an iterator run to
  its end, `clause_unions` for a term) call until they get NULL.  `AllDelivered`
  says that everything is delivered unless a value could not be decoded.
* `Library`: `WF` of `ddb_next` inside the loop of `ddb_cursor_count` (`CountEnds`) and
  of the loop of `ddb_view_cons_finalize` (`FinalizeEnds`), which are straight-line
  code.  A user need not go on, free a cursor, or dump to the end.
* `ErlQueue`: weak fairness of each consumer's and each producer's next step
  inside a call, and of the wait's end only by a signal (spurious wake-ups may
  happen but are not relied on).  A producer need not push.
* `ErlNif`: weak fairness of the workers' steps, of the destructors' steps
  (both are operating-system threads running straight-line code), and of a
  process in `receive` taking a message that has come.  Calls, dropped
  references, lost requests and kills are free to happen or not.
* `Packing`, `Constructor`, `QueryAlgebra` and `PyObjects` have safety properties
  only: every step of theirs is a call of a user.

## 5. Proofs

* `QueryProofs` is about the terms of queries and about what queries mean.
  Terms: `TermSafety` (from `Position`: where the delta cursor stands when `cur_id`
  is between or inside runs of the key's ids) and `TermRefinesIter`, under the
  hypothesis `LastFits`.
  Queries: `AnswersAreRight` proves `AnswerIsRight`, `MetaqueriesAgree`
  `MetaqueryAgrees` and `ParsesAsPrinted` `ParsedIsPrinted`, for any keys,
  databases and number of operators.  The model follows a query together with the
  values its program asked for; what connects them is `Meaning`, the values a query
  stands for by its terms alone, and the inductive invariant `AlgebraInv`: a query
  nests no deeper than the operators applied allow, has a clause, and was asked for
  the values it means.  Each operator of `query.py` keeps it (`AndMeans`, `OrMeans`,
  `DereferenceMeans`, `InvertMeans`), because whatever set of literals is true, the
  clauses it makes are met where they should be (`AndMeets`, `OrMeets`, `OrAllMeets`,
  `InvertMeets`); the step that needs an argument is the choice of a literal in
  every clause, which inversion and disjunction turn into a clause (`ChoiceExists`,
  `ChoiceIn`).  Then resolution and expansion are compared with `Meaning` literal by
  literal (`LiteralResolved`, `LiteralExpanded`), clause by clause and query by query,
  and a query behind a `+` is covered by induction over what nests in it (`ByTerms`).
  The recursive functions of `QueryAlgebra` are shown to exist, each by its terms
  (`NestedIs`, `DefinedByTerms`).  Where the code raises an exception (`ResolveRaises`,
  a negated `+` over none or more than two values) nothing is claimed, and a query
  without clauses, which the operators never make, is why the invariant says that
  there is one.  `InvertSound` and `OrAllSound` say the same of keys alone.
* `CnfCursorProofs`: `CnfInvariant` proves `IInv`.  Its parts say that a bit in a
  union is an id of its clause (`BitsMatch`), that terms already passed stand
  behind the window (`TermsPassed`), that a match is delivered, or a pending bit,
  or still to come in every clause (`NothingLost`), and that ids delivered, ids
  pending and ids to come follow each other (`InOrder`).  From it: `CnfSafety`,
  `CnfComplete` (NULL only when everything was delivered), `CnfRefinesIter`, and
  `CnfWindowsAdvance` for windows that fit the id type.
* `LibraryProofs`: `ReaderSafety` proves `IInv` and `ReaderReadsContents` that `Reader`
  implements `Contents`, both under `ValuesFit`.  The invariant adds to the types
  that the delta cursor has summed up the differences to an id of its list
  (`DeltaInStep`), that the cursor over all values stands in the list its position
  says (`CursorsAgree`), and that a cursor that was counted is at its end
  (`CountedOut`; a later call would return an entry without a string).  The
  argument is about places: `FromNext` says that behind a list that was read, and
  lists that are empty, stands the first id of the next list.  `CountsAddUp` proves
  `CountIsRight` under `ValuesFit` and `ItemsFit`, that the keys, the values and the
  values of all keys can be counted in `num_items`; `ddb_cons_add` bounds the first
  two, but not the third.  The invariant is a sum (`CountInv`): the calls before,
  those of this count and the places left are the items announced.  It begins
  right because the number in the header, a sum over the keys, is that of the
  places of their values (`ValuesCounted`, by induction over the keys), and it is
  kept because each call passes by exactly one place (`Passes`, which every lemma
  about a call of `ddb_next` shows).  `LibraryIsReader` carries all of them over to
  the library.
  Of files, `LoadedIsWhole` proves `LoadedStaysWhole` and `CompletedIsWhole`
  `DumpedIsLoaded`.  Their inductive invariant is `FilesInv`: every cell is
  followed by the rest of its buffer, unless the dump that wrote it has not come
  so far, or was stopped there (`GoesOn`); and when a dump begins where a whole
  one ended, the rest of each earlier cell lies before it (`UnderWay`).  A header
  that passes `ddb_loads` is then followed by all the cells its size announces.
  Of views, `StringsStay` proves `StringsIntact` and, under `ValuesFit`,
  `ViewHasWhatWasAdded` proves `ViewIsExact`.  The inductive invariant `ViewInv` says
  of the map that it counts no fewer items than it has strings, and one more when
  a leaf was lost (`MapSound`); of its memory that entries lie before the offset
  of their page (`BufferSound`); and of finalize that the values it has read are in
  the view if the map has them, and that the items still to be found are the
  count less those found (`Scanned`).  When none is left, a string of the map that
  is not in the view would make one string too many, and so would a leaf that was
  lost (`AllFound`): the early end of the loop loses nothing.
* `PackingProofs`: `DeltalistSafety`, from the sizes a segment can have
  (`SizeBounds`), an entry in every segment in use (`Filled`) and memory equal to
  size as long as nothing failed (`MemoryKept`): `ListSafe`, with the fact that a
  full segment never gets to `grow_segment`.  `PackedListSafe` is the same of all
  that is packed.
  `ListsReadBack` proves `PackedRight`: what a reader's cursor gets is what was
  added to the key.  Its invariant `ListInv` adds that an id is in as many segments
  as it was added times (`Counted`), and that the entries of a segment are ids that
  rise strictly (`Stepped`), so that none is in a segment twice (`EntriesFall`).
  Bringing a segment to the front only moves the others (`FrontedPlaces`), and an
  entry that is put there is new to it (`PutEntries`).  All segments together are
  then the bag of what was added (`ToArraySpec`); sorting keeps how often each id is
  there (`SortedSpec`, which counts how many ids are at most `v`); the width is
  enough for every difference (`BitsNeededSpec`) and itself fits into its field;
  and the ids at the places that are written are the ids that are read
  (`KeptSpec`, `CodecSpec`).  What this takes from the types is that an id fits into
  `IdBits` (`PackingAssumption`) and that `WidthBits` can count them
  (`CodecAssumption`): 32 and 5 in the code.
  Of values, `RoomForTheTree` proves `NodesFit` and `ValuesReadBack` `RoundTrip`, for
  any values, sizes of words and bytes, and any order of words that are equally
  frequent.  The inductive invariant `HuffmanInv` says that a node joins two of
  those without a parent, or gives one to a symbol that is alone (`NodesCounted`),
  that all but those in the queue have exactly one parent, made later (`OneParent`),
  and that the queue ends with the last node (`LastQueued`).  When the codes are
  allocated the last node is the only root; ways from it to different nodes are
  different (`WaysDiffer`), and each beginning of a way leads to an inner node
  (`WayPrefixes`), so that the ways to the symbols are free of prefixes although
  those that lie too deep have no code (`CodesApart`).  Then an index that begins
  with a code has only this one, whatever follows it (`BookSpec`), and reading goes
  from each place in a value to the same place in the result (`ReadBack`, by
  induction from the end of the value).  The recursive functions of `Huffman`
  and of lists are shown to exist (`AppendingExists`, `StepsExist`, `JoiningExists`,
  `HalvesExist`), and inductions go by a least element of a set of numbers (`NatLeast`, `FromAll`).
  `CodeIsOptimal` proves `Optimal` by the exchange argument, along the loop that
  builds the tree, for values in which no word is met 2^32 times (`CountsFit`).  `BestInv` adds to `HuffmanInv` that for each code of the symbols
  that fits the code book (`Fits`: its entries, by Kraft's inequality) there is a
  code of the roots that fits it and, with the weights of the nodes made so far,
  costs no more (`NoneBetter`).  The two lightest roots may have two codes of one
  length, as long as any (`Evened`: the lighter of two gets the longer code,
  `Swapped`, and a longest code that is alone may be cut, `Shortened`, since what all
  shorter ones take of the book is a multiple of what it would take); then one code
  that is a bit shorter does for their parent (`Joined`).  That what is popped is the
  lightest root is not obvious of a queue nobody sorts: nodes are queued by ascending
  weight (`QueueSorted`) because those joined last were lighter than all roots left
  (`LastLightest`).  At the end the only root costs nothing, and the weights of all
  nodes are what the codes of the symbols cost (`TreeCosts`, down the tree from the
  root).  Sums over sets are those of the community modules, shown to be the same in
  any order (`SumOne`, by induction on the size of a set, `BySize`).
* `ConstructorProofs`: `ConstructorIds` proves `IdsArePositions` (as long as no
  insertion of a value failed half-way, the id of a value is its place in the
  map's list, which is where its string will be packed) and `ConstructorCrashes`
  proves `TypeOK` and `CrashNeedsFailure` (undefined behaviour needs a failed
  allocation or a call after finalize).  The inductive invariant says of each map
  what insertion and its failures keep: it counts no fewer items than it has
  strings, and no string is there twice.  From it follows `ConstructorIsSound`
  (`DatabaseIsSound`): ids have their strings because `Placed` held when the
  database was written, and the hash function's order of the keys has each once
  because it has as many places as keys (`OrderInjective`).  `ConstructorIsMultimap` (while no
  allocation fails, every call is a step of `Multimap`: the database that is
  packed holds the pairs that were added, and only those) and `CopyIsFaithful` (a
  copied database has the pairs of the original) follow from a balance between
  what the copy has and what is still to be read.
* `ErlQueueProofs`: `QueueSafety` proves `QueueSafe` and `QueueIsFifo` the steps of
  the refinement: a push or a pop, seen from outside, is one step of `Fifo`.  The
  invariant says that the links from the head give exactly `length` items and end
  at the tail (`ListSound`), and that an item a thread has in hand is in no list,
  not free and in no other hand (`HandsSound`).  A list is determined by its head,
  its length and its links, so that a write to an item outside of it changes
  nothing.
* `ErlNifProofs`: `NifSafety` proves `ObjectsSafe` and `NifAnswers` `NoStrayAnswer`,
  for any processes and objects, whoever is killed and whichever message is lost.
  The inductive invariant `NifInv` says where references to an object that is
  being destroyed can still be: nowhere, but for the iterator that its own worker
  has for a process that was killed (`Unused`); that a worker has a message and an
  answer only while it runs and sends (`HandsFull`); and that a process that waits
  holds the object it asked, with one request there or one answer in its mailbox
  (`AsksOnce`), which is why a worker that makes an iterator of a dying object
  makes it for nobody.  `NifQueues` proves `QueueOutlivesWorker` from `NoMortalGet`,
  the hypothesis that no process which may be killed asks for iterators; without
  it the property is false (run `erl_resurrect`).  `QueueInv` adds that the stop
  message is the last of its queue and that nothing is pushed behind it
  (`StopIsLast`).
* `PyObjectsProofs`: `HeapIsSound` proves an inductive invariant, from which follow
  `ReferencesAreCovered` (`ReferencesCovered`), `OnlyLossyPathsDoLose`
  (`OnlyLossyPathsLose`), `MemoryStaysSafe` (`MemorySafe`) and `TermsDoOutliveTheCall`
  (`TermsOutliveTheCall`), for any objects, depth of calls and number of
  errors.  The runs' properties compare a count with the references there
  are at the end of a step; inside of a step references are made, moved and
  released one by one, and a release may free a chain of objects.  So the proof
  is about heaps: `Heap(h, w, n, L, e)` says that `h` is well formed, that each count
  covers the `w` references from outside and those of the live objects that hold
  it (`Counted`), but for the objects in `L`, that it is equal to them if `e`
  (`Exact`), and that `n` blocks are somebody else's (`Blocks`).  There is a lemma
  for each operation on a heap that says what it does to `w` and `n`, and which
  objects it leaves alone (`Keeps`); `DecrefHeap` needs that what an iterator holds
  is a database, what that holds is a string, and a string holds nothing, which
  is where a chain ends.  An action is then a sum of such steps: what the
  program and the functions under way hold (`Ext`) is what is counted from
  outside, a call adds its arguments and references to it and its end takes
  them away (`LendHeap`, `ReleaseHeap`).  `FramesSound` is what makes the sums
  right: a function that makes a database or a view is the only one that knows
  it, the database of a query is open, and the resolved query is unknown to the
  program, so that it cannot be dropped from outside.  The one exception the
  code makes, a query that is released although it was only lent ("view type"),
  is the set `L` of `Loose` queries; it does not reach the resolved ones.  The
  assumption is that an object has one type (`PyObjectsAssumption`).
The assumptions are those of the modules (`ASSUME`), which TLC evaluates for
every instance, and the hypotheses the statements carry.

Every safety invariant and action property of the passing runs is stated by a
theorem, some under a hypothesis that is named there.  Only model-checked: liveness, and that a message does not stay in the queue for ever
(`FifoSpec` is `Abstract!Spec`, which is proved, and its fairness).

## 6. Not modelled

* The header and the table of contents of a packed database, the order CMPH
  gives the keys (any order): `Constructor` packs keys, lists and values as
  sequences, `LoadDump` knows of the header what `ddb_loads` checks.  Several
  constructors are independent, so a copy is made after the first one is freed.
* The memory of the fields of `ddb_delta_encode`: its size is a 32-bit sum, which
  a bound on the values of a key, that the code does not have, would keep in
  range.
* The map of integers of `ddb_map.c` with its failures: `Huffman` counts words in a
  function.
* Cursors and databases the library cannot allocate: NULL is returned, and of the
  state the models follow nothing else changes.  (An iterator of the Python module
  that cannot be allocated loses its cursor, which is modelled.)
* Clauses and literals of a Python query, handed over by an iterable whose length
  is not the number of items it yields: `DiscoDB_query` writes as many as there are
  into the room it made for the length.
* What two processes that share an iterator do to its cursor at the same time:
  `ErlNif` follows its lifetime.  `queue_send` and `queue_receive`, which nothing
  calls.
* Python programs that finalize a constructor twice or while they add to it,
  which is a known limit; the query `Q([])`, which the package cannot print.
* ERTS, the Python runtime, CMPH, `mmap`, `write` and the C library are external:
  they do what the code relies on.
* Formatting of errors, options, binaries, iolists and URLs; the Lua binding, the
  Python package's wrappers and the command line tools, which keep no state of
  their own.

## 7. Plan

The modules were ordered by what goes wrong most easily: the query cursor, then
the lists and maps a database is built from, then the concurrency of the Erlang
binding, then views, files and packing, and at last the Python module.  All of
them are there, and their safety is proved.  What is left is what the prover cannot
state, liveness, and what section 6 leaves out.
