----------------------------- MODULE MemBuffer -----------------------------
(***************************************************************************)
(* Where a map keeps its strings (src/src/ddb_membuffer.c) and the list of *)
(* pointers to them (src/src/ddb_list.c), as operators on a record:        *)
(*                                                                         *)
(*   pages    the pages, each [size, offset], in the order of their chain  *)
(*   current  mb->current                                                  *)
(*   entries  what copies returned: [of, page, at, len], the length first  *)
(*   list     the list: its size, the bytes it has, and how many pointers  *)
(*            are in it                                                    *)
(***************************************************************************)
EXTENDS Integers, Sequences, FiniteSetsExt

CONSTANTS
  PageSize,     \* DDB_MB_PAGE_SIZE
  Prefix,       \* the 8 bytes of a length
  LengthOf,     \* the length of a string
  FirstRoom,    \* the size of a new list
  Increment,    \* LIST_INCREMENT
  MaxSize,      \* UINT32_MAX
  ProductLimit  \* 2^32, the range of list->size * 8

NewPage(size) == [size |-> size, offset |-> 0]
FreeIn(p) == p.size - p.offset

EmptyBuffer == [pages |-> << NewPage(PageSize) >>, current |-> 1, entries |-> <<>>,
                list |-> [size |-> FirstRoom, bytes |-> FirstRoom * 8, i |-> 0]]

\* What a string takes.
Fitting(s) == LengthOf[s] + Prefix

\* Mutant: the length in front of a string is not counted.
NeedsPageBare(b, s) == FreeIn(b.pages[b.current]) < LengthOf[s]

\* An entry does not fit the current page: a page is allocated for it.
NeedsPage(b, s) == FreeIn(b.pages[b.current]) < Fitting(s)

\* set_emptiest: the first page with the most room, unless all are full.
Emptiest(pages, current) ==
  LET most == Max({FreeIn(pages[k]) : k \in DOMAIN pages})
  IN  IF most = 0 THEN current ELSE Min({k \in DOMAIN pages : FreeIn(pages[k]) = most})

\* ddb_membuffer_copy_ns
Copied(b, s) ==
  LET new == NeedsPage(b, s)
      at == IF new THEN Len(b.pages) + 1 ELSE b.current
      chain == IF new THEN Append(b.pages, NewPage(Max({Fitting(s), PageSize}))) ELSE b.pages
      filled == [chain EXCEPT ![at].offset = @ + Fitting(s)]
  IN  [pages |-> filled,
       current |-> IF new THEN Emptiest(filled, b.current) ELSE b.current,
       entries |-> Append(b.entries, [of |-> s, page |-> at, at |-> chain[at].offset, len |-> Fitting(s)]),
       list |-> b.list]

\* ddb_list_append: the room grows before the pointer is written.
Grown(l) == LET size == IF l.size >= MaxSize - Increment THEN MaxSize ELSE l.size + Increment
            IN  [size |-> size, bytes |-> (size * 8) % ProductLimit, i |-> l.i]

Pointed(l) == [(IF l.i = l.size THEN Grown(l) ELSE l) EXCEPT !.i = @ + 1]

\* new_item copies the string and appends the pointer.
Kept(b, s) == [Copied(b, s) EXCEPT !.list = Pointed(@)]

\* ... and only the pointer NULL when there is no memory for a page.
KeptNull(b) == [b EXCEPT !.list = Pointed(@)]
-----------------------------------------------------------------------------
Overlap(x, y) == x.page = y.page /\ x.at < y.at + y.len /\ y.at < x.at + x.len

\* Every entry lies in its page, apart from the others.
Apart(b) ==
  /\ \A k \in DOMAIN b.entries :
       b.entries[k].at + b.entries[k].len <= b.pages[b.entries[k].page].size
  /\ \A k, j \in DOMAIN b.entries : k # j => ~Overlap(b.entries[k], b.entries[j])

\* The list is in its memory, unless the product that gives its bytes was too great.
InMemory(b) == b.list.i * 8 <= b.list.bytes \/ b.list.size * 8 >= ProductLimit
-----------------------------------------------------------------------------
(***************************************************************************)
(* Entries lie before the offset of their page, where the next one goes.   *)
(***************************************************************************)
Sound(b) ==
  /\ b \in [pages : Seq([size : Nat, offset : Nat]), current : Nat,
            entries : Seq([of : DOMAIN LengthOf, page : Nat, at : Nat, len : Nat]),
            list : [size : Nat, bytes : Nat, i : Nat]]
  /\ b.current \in DOMAIN b.pages
  /\ \A k \in DOMAIN b.pages : b.pages[k].offset <= b.pages[k].size
  /\ \E h \in DOMAIN b.pages : \A k \in DOMAIN b.pages : b.pages[k].size <= b.pages[h].size
  /\ \A k \in DOMAIN b.entries :
       /\ b.entries[k].page \in DOMAIN b.pages
       /\ b.entries[k].at + b.entries[k].len <= b.pages[b.entries[k].page].offset
  /\ \A k, j \in DOMAIN b.entries : k # j => ~Overlap(b.entries[k], b.entries[j])
  /\ b.list.i <= b.list.size
  /\ b.list.size * 8 < ProductLimit => b.list.bytes = b.list.size * 8
=============================================================================
