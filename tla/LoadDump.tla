------------------------------ MODULE LoadDump ------------------------------
(***************************************************************************)
(* ddb_dump, and ddb_loado with ddb_loads (src/src/ddb.c): databases are   *)
(* written to a file piece by piece, by processes that may fail or be      *)
(* killed between two writes, and are read from it through a shared        *)
(* mapping, which shows every later write.                                 *)
(*                                                                         *)
(* A file is a sequence of cells; a cell is a place of a buffer.  The      *)
(* first cells of a buffer are its header: magic in the first one, size in *)
(* the last one.  What lies behind the end of a file in its last page is   *)
(* zero.                                                                   *)
(***************************************************************************)
EXTENDS Sequences, Integers

CONSTANTS
  Buffers,    \* the packed databases
  SizeOf,     \* head->size of each, in cells
  Header,     \* sizeof(struct ddb_header)
  BSize,      \* bsize: the most that one write is asked for
  Page,       \* the page size
  MaxDumps,   \* bound on the dumps of one behaviour
  MaxOffset,  \* bound on the offset of ddb_loado
  Nowhere     \* no buffer, no place

ASSUME LoadDumpAssumption ==
  /\ SizeOf \in [Buffers -> Nat] /\ Nowhere \notin Buffers \cup Nat
  /\ Header \in Nat \ {0} /\ \A b \in Buffers : SizeOf[b] >= Header
  /\ BSize \in Nat \ {0} /\ Page \in Nat \ {0}
  /\ MaxDumps \in Nat /\ MaxOffset \in Nat

VARIABLES
  file,      \* the cells of the file
  source,    \* the buffer that is dumped
  start,     \* where in the file its dump began
  offs,      \* offs in ddb_dump
  dumps,     \* how many dumps began
  stopped,   \* one of them stopped before its end
  patched,   \* one began over what was there, or behind one that stopped
  mapped     \* where in the file the database is that was loaded

lvars == <<file, source, start, offs, dumps, stopped, patched, mapped>>

LoadDumpInit == /\ file = <<>> /\ source = Nowhere /\ start = 0 /\ offs = 0 /\ dumps = 0
                /\ stopped = FALSE /\ patched = FALSE /\ mapped = Nowhere

Zero == [of |-> Nowhere, at |-> Nowhere]
CellAt(k) == IF k \in DOMAIN file THEN file[k] ELSE Zero
-----------------------------------------------------------------------------
(***************************************************************************)
(* ddb_dump, into a file that was opened for writing: anew, at its         *)
(* beginning without O_TRUNC, or behind what it has.                       *)
(***************************************************************************)
DumpBegins(b, new, where) ==
  /\ source = Nowhere /\ dumps < MaxDumps
  /\ file' = new /\ start' = where
  /\ source' = b /\ offs' = 0 /\ dumps' = dumps + 1
  /\ patched' = (patched \/ where # Len(file) \/ (stopped /\ where > 0))
  /\ UNCHANGED <<stopped, mapped>>

DumpAnew(b) == DumpBegins(b, <<>>, 0)
DumpOver(b) == DumpBegins(b, file, 0)
DumpBehind(b) == DumpBegins(b, file, Len(file))

\* The file when n cells of the buffer are written at its current place.
Written(n) == [k \in 1 .. IF start + offs + n > Len(file) THEN start + offs + n ELSE Len(file) |->
                 IF k \in start + offs + 1 .. start + offs + n
                 THEN [of |-> source, at |-> k - start] ELSE CellAt(k)]

Piece(b) == IF SizeOf[b] - offs > BSize THEN BSize ELSE SizeOf[b] - offs

\* Mutant: the count of what was asked for.
DumpWritesAsked ==
  /\ source # Nowhere /\ offs < SizeOf[source]
  /\ \E n \in 1 .. Piece(source) : file' = Written(n) /\ offs' = offs + Piece(source)
  /\ UNCHANGED <<source, start, dumps, stopped, patched, mapped>>

\* write() may take less than it is asked to.
DumpWrites ==
  /\ source # Nowhere /\ offs < SizeOf[source]
  /\ \E n \in 1 .. Piece(source) : file' = Written(n) /\ offs' = offs + n
  /\ UNCHANGED <<source, start, dumps, stopped, patched, mapped>>

DumpEnds == /\ source # Nowhere /\ offs = SizeOf[source]
            /\ source' = Nowhere /\ start' = 0 /\ offs' = 0
            /\ UNCHANGED <<file, dumps, stopped, patched, mapped>>

\* write() fails, or the process is killed before it.
DumpStops == /\ source # Nowhere /\ offs < SizeOf[source]
             /\ source' = Nowhere /\ start' = 0 /\ offs' = 0 /\ stopped' = TRUE
             /\ UNCHANGED <<file, dumps, patched, mapped>>
-----------------------------------------------------------------------------
(***************************************************************************)
(* ddb_loado, at any time, in the process that dumps or in another one.    *)
(* mmap fails without a page; nfo.st_size - offset, below zero for an      *)
(* offset in the last page behind the end, is then a very great length.    *)
(***************************************************************************)
MmapSize(o) == Len(file) - (o - (o % Page))
TooSmall(o) == Len(file) - o \in 0 .. Header - 1
IsDiscodb(o) == CellAt(o + 1).at = 1
HeadSize(o) == LET b == CellAt(o + Header).of IN IF b = Nowhere THEN 0 ELSE SizeOf[b]
Truncated(o) == Len(file) >= o /\ HeadSize(o) > Len(file) - o

\* Mutant: head->size is not compared.
LoadableUnsized(o) == MmapSize(o) > 0 /\ ~TooSmall(o) /\ IsDiscodb(o)

Loadable(o) == MmapSize(o) > 0 /\ ~TooSmall(o) /\ IsDiscodb(o) /\ ~Truncated(o)

Load(o) == /\ mapped = Nowhere /\ Loadable(o)
           /\ mapped' = o
           /\ UNCHANGED <<file, source, start, offs, dumps, stopped, patched>>

\* ddb_free
Unload == /\ mapped # Nowhere
          /\ mapped' = Nowhere
          /\ UNCHANGED <<file, source, start, offs, dumps, stopped, patched>>

LoadDumpNext == \/ \E b \in Buffers : DumpAnew(b) \/ DumpOver(b) \/ DumpBehind(b)
                \/ DumpWrites \/ DumpEnds \/ DumpStops
                \/ \E o \in 0 .. MaxOffset : Load(o)
                \/ Unload
-----------------------------------------------------------------------------
\* The file has the whole of a database at offset o.
WholeAt(o) == \E b \in Buffers : \A k \in 1 .. SizeOf[b] : CellAt(o + k) = [of |-> b, at |-> k]

(***************************************************************************)
(* As long as each dump begins where a whole one ended, a database that    *)
(* could be loaded is whole and stays so, whenever it is loaded and even   *)
(* when the last dump stopped on the way: ddb_loads refuses what is cut    *)
(* off.  (What is dumped behind a dump that stopped completes it to the    *)
(* size in its header.)                                                    *)
(***************************************************************************)
LoadedStaysWhole == mapped # Nowhere /\ ~patched => WholeAt(mapped)

(***************************************************************************)
(* What is loaded when every dump has come to its end is whole, also from  *)
(* a file that had a longer database before (ErlDiscoDB_dump_async opens   *)
(* without O_TRUNC).                                                       *)
(***************************************************************************)
DumpedIsLoaded ==
  [][\A o \in 0 .. MaxOffset :
       mapped = Nowhere /\ mapped' = o /\ source = Nowhere /\ ~stopped => WholeAt(o)]_lvars
-----------------------------------------------------------------------------
(***************************************************************************)
(* What makes these two inductive: a cell is followed by the rest of its   *)
(* buffer, unless that has not been written yet, or never was.             *)
(***************************************************************************)
FileTypes == /\ file \in Seq([of : Buffers, at : Nat \ {0}])
             /\ source \in Buffers \cup {Nowhere} /\ mapped \in Nat \cup {Nowhere}
             /\ start \in Nat /\ offs \in Nat
             /\ stopped \in BOOLEAN /\ patched \in BOOLEAN

Rest(k) == SizeOf[file[k].of] - file[k].at

UnderWay == source # Nowhere =>
  /\ start + offs <= Len(file) /\ offs <= SizeOf[source]
  /\ \A k \in 1 .. offs : file[start + k] = [of |-> source, at |-> k]
  /\ ~patched => start + offs = Len(file)
  /\ ~stopped \/ ~patched => \A k \in 1 .. start : k + Rest(k) <= start

\* The j-th cell behind k is not there, or has been written over.
Missing(k, j) ==
  \/ source # Nowhere /\ k \in start + 1 .. start + offs /\ k + j > start + offs
  \/ stopped /\ (patched \/ k + j > Len(file))

GoesOn == \A k \in DOMAIN file : \A j \in 1 .. Rest(k) :
  \/ k + j <= Len(file) /\ file[k + j] = [of |-> file[k].of, at |-> file[k].at + j]
  \/ Missing(k, j)

FilesInv == FileTypes /\ UnderWay /\ GoesOn /\ LoadedStaysWhole
=============================================================================
