-------------------------- MODULE PyObjectsProofs --------------------------
(***************************************************************************)
(* Proofs about the reference counts of the Python module.                 *)
(***************************************************************************)
EXTENDS PyObjects, FiniteSetTheorems, SequenceTheorems, TLAPS

(***************************************************************************)
(* Heaps                                                                   *)
(***************************************************************************)
HeapType == [refs : [Objects -> Nat], holds : [Objects -> Objects \cup {None}],
             born : SUBSET Objects, native : SUBSET Objects, buffers : SUBSET Objects,
             blocks : Nat]

Counts == [Objects -> Nat]
One(a, o) == IF a = o THEN 1 ELSE 0
Plus(w, a) == [o \in Objects |-> w[o] + One(a, o)]
Minus(w, a) == [o \in Objects |-> w[o] - One(a, o)]

Holders(h, o) == {x \in Objects : h.refs[x] > 0 /\ h.holds[x] = o}

\* What a heap is made of: who may hold what, who has memory.
Formed(h) == /\ h \in HeapType /\ IsFiniteSet(h.born)
             /\ h.native \subseteq h.born /\ h.buffers \subseteq h.born \cap Dbs
             /\ \A x \in Objects : h.holds[x] # None =>
                  \/ x \in Iters /\ h.holds[x] \in Dbs
                  \/ x \in Dbs /\ h.holds[x] \in Strings
             /\ \A x \in h.native \cup h.buffers : h.refs[x] > 0

\* What was not made yet has no references, w from outside of the heap and others from within.
Unborn(h, w) == \A x \in Objects \ h.born : h.refs[x] = 0 /\ h.holds[x] = None /\ w[x] = 0

\* Every reference is counted, but for those to the objects of L; exactly, if e.
Counted(h, w, L) == \A o \in Objects \ L : h.refs[o] >= w[o] + Cardinality(Holders(h, o))
Exact(h, w, e) == e => \A o \in Objects : h.refs[o] = w[o] + Cardinality(Holders(h, o))

\* Every block has an owner: n of them are not in the heap.
Blocks(h, n, e) == /\ h.blocks >= Cardinality(h.native) + Cardinality(h.buffers) + n
                   /\ e => h.blocks = Cardinality(h.native) + Cardinality(h.buffers) + n

Heap(h, w, n, L, e) == /\ Formed(h) /\ w \in Counts /\ Unborn(h, w)
                       /\ Counted(h, w, L) /\ Exact(h, w, e) /\ Blocks(h, n, e)
                       /\ n \in Nat /\ L \subseteq Queries /\ (e => L = {})
-----------------------------------------------------------------------------
LEMMA Kinds == /\ None \notin Objects
               /\ Dbs \subseteq Objects /\ Iters \subseteq Objects /\ Strings \subseteq Objects
               /\ Queries \subseteq Objects /\ Views \subseteq Objects /\ Builders \subseteq Objects
               /\ Dbs \cap Iters = {} /\ Dbs \cap Strings = {} /\ Iters \cap Strings = {}
               /\ Dbs \cap Queries = {} /\ Iters \cap Queries = {} /\ Strings \cap Queries = {}
               /\ Dbs \cap Views = {} /\ Queries \cap Views = {} /\ Queries \cap Builders = {}
               /\ Dbs \cap Builders = {} /\ Views \cap Builders = {} /\ Iters \cap Builders = {}
               /\ Iters \cap Views = {}
<1>1. \A k, n \in 1 .. 6 : k # n => Types[k] \cap Types[n] = {}
  BY PyObjectsAssumption
<1>2. /\ Types[1] = Dbs /\ Types[2] = Iters /\ Types[3] = Views
      /\ Types[4] = Queries /\ Types[5] = Strings /\ Types[6] = Builders
  BY DEF Types
<1>3. /\ Types[1] \cap Types[2] = {} /\ Types[1] \cap Types[5] = {} /\ Types[2] \cap Types[5] = {}
      /\ Types[1] \cap Types[4] = {} /\ Types[2] \cap Types[4] = {} /\ Types[5] \cap Types[4] = {}
      /\ Types[1] \cap Types[3] = {} /\ Types[4] \cap Types[3] = {}
      /\ Types[4] \cap Types[6] = {} /\ Types[1] \cap Types[6] = {} /\ Types[3] \cap Types[6] = {}
      /\ Types[2] \cap Types[6] = {} /\ Types[2] \cap Types[3] = {}
  BY <1>1
<1>4. None \notin Objects
  BY PyObjectsAssumption
<1> QED BY <1>2, <1>3, <1>4 DEF Objects

LEMMA CardAdd ==
  ASSUME NEW S, IsFiniteSet(S), NEW x, x \notin S
  PROVE  /\ IsFiniteSet(S \cup {x}) /\ Cardinality(S) \in Nat
         /\ Cardinality(S \cup {x}) = Cardinality(S) + 1
BY FS_AddElement, FS_CardinalityType

LEMMA CardRemove ==
  ASSUME NEW S, IsFiniteSet(S), NEW x, x \in S
  PROVE  /\ IsFiniteSet(S \ {x}) /\ Cardinality(S) \in Nat /\ Cardinality(S) > 0
         /\ Cardinality(S \ {x}) = Cardinality(S) - 1
<1>1. /\ IsFiniteSet(S \ {x}) /\ Cardinality(S \ {x}) = Cardinality(S) - 1
  BY FS_RemoveElement
<1>2. Cardinality(S) \in Nat /\ Cardinality(S \ {x}) \in Nat
  BY <1>1, FS_CardinalityType
<1> QED BY <1>1, <1>2

LEMMA HoldersFinite ==
  ASSUME NEW h, NEW w, Formed(h), Unborn(h, w), NEW o
  PROVE  IsFiniteSet(Holders(h, o)) /\ Cardinality(Holders(h, o)) \in Nat
<1>1. Holders(h, o) \subseteq h.born
  BY DEF Holders, Unborn, Formed, HeapType
<1> QED BY <1>1, FS_Subset, FS_CardinalityType DEF Formed

\* Nothing holds what is loose, or not made yet.
LEMMA NoHolders ==
  ASSUME NEW h, NEW w, NEW n, NEW L, NEW e, Heap(h, w, n, L, e), NEW o \in Objects
  PROVE  /\ o \in L => Holders(h, o) = {}
         /\ o \notin h.born => Holders(h, o) = {}
<1>1. o \in L => Holders(h, o) = {}
  BY Kinds DEF Heap, Formed, HeapType, Holders
<1>2. ASSUME o \notin h.born, o \notin L PROVE Holders(h, o) = {}
  <2>1. h.refs[o] >= w[o] + Cardinality(Holders(h, o)) /\ h.refs[o] = 0 /\ w[o] = 0
    BY <1>2 DEF Heap, Counted, Unborn
  <2>2. IsFiniteSet(Holders(h, o)) /\ Cardinality(Holders(h, o)) \in Nat
    BY HoldersFinite DEF Heap
  <2>3. Cardinality(Holders(h, o)) = 0
    BY <2>1, <2>2
  <2> QED BY <2>2, <2>3, FS_EmptySet
<1> QED BY <1>1, <1>2

\* Less may be claimed of more objects.
LEMMA HeapWeaken ==
  ASSUME NEW h, NEW w, NEW n, NEW L, NEW e, Heap(h, w, n, L, e),
         NEW M, L \subseteq M, M \subseteq Queries, NEW f, f => e /\ M = {}
  PROVE  Heap(h, w, n, M, f)
BY DEF Heap, Counted, Exact, Blocks

LEMMA PlusType ==
  ASSUME NEW w \in Counts, NEW a
  PROVE  Plus(w, a) \in Counts /\ \A o \in Objects : Plus(w, a)[o] = w[o] + One(a, o)
BY DEF Counts, Plus, One

LEMMA MinusType ==
  ASSUME NEW w \in Counts, NEW a, a \in Objects => w[a] > 0
  PROVE  Minus(w, a) \in Counts /\ \A o \in Objects : Minus(w, a)[o] = w[o] - One(a, o)
BY DEF Counts, Minus, One
-----------------------------------------------------------------------------
(***************************************************************************)
(* What the operations do to a heap                                        *)
(***************************************************************************)
LEMMA AllocFields ==
  ASSUME NEW h \in HeapType, NEW o \in Objects
  PROVE  /\ Alloc(h, o) \in HeapType
         /\ Alloc(h, o).refs = [h.refs EXCEPT ![o] = 1] /\ Alloc(h, o).born = h.born \cup {o}
         /\ Alloc(h, o).holds = h.holds /\ Alloc(h, o).native = h.native
         /\ Alloc(h, o).buffers = h.buffers /\ Alloc(h, o).blocks = h.blocks
BY DEF Alloc, HeapType

LEMMA AllocHeap ==
  ASSUME NEW h, NEW w, NEW n, NEW L, NEW e, Heap(h, w, n, L, e), NEW o \in Objects \ h.born
  PROVE  Heap(Alloc(h, o), Plus(w, o), n, L \ {o}, e)
<1> PICK g : g = Alloc(h, o)
  OBVIOUS
<1>1. /\ g \in HeapType /\ g.refs = [h.refs EXCEPT ![o] = 1] /\ g.born = h.born \cup {o}
      /\ g.holds = h.holds /\ g.native = h.native /\ g.buffers = h.buffers /\ g.blocks = h.blocks
  BY AllocFields DEF Heap, Formed
<1>2. h.refs[o] = 0 /\ h.holds[o] = None /\ w[o] = 0 /\ Holders(h, o) = {}
  BY NoHolders DEF Heap, Unborn
<1>3. \A y \in Objects : g.refs[y] = (IF y = o THEN 1 ELSE h.refs[y]) /\ h.refs[y] \in Nat
  BY <1>1 DEF Heap, Formed, HeapType
<1>4. ASSUME NEW y \in Objects PROVE Holders(g, y) = Holders(h, y)
  BY <1>1, <1>2, <1>3, Kinds DEF Holders
<1>5. Plus(w, o) \in Counts /\ \A y \in Objects : Plus(w, o)[y] = w[y] + One(o, y) /\ w[y] \in Nat
  BY PlusType DEF Heap, Counts
<1>6. Formed(g)
  <2>1. IsFiniteSet(g.born)
    BY <1>1, FS_AddElement DEF Heap, Formed
  <2> QED BY <1>1, <1>2, <1>3, <2>1 DEF Heap, Formed
<1>7. Unborn(g, Plus(w, o))
  BY <1>1, <1>3, <1>5 DEF Unborn, One, Heap
<1>8. \A y \in Objects : Cardinality(Holders(h, y)) \in Nat
  BY HoldersFinite DEF Heap
<1>9. Cardinality(Holders(h, o)) = 0
  BY <1>2, FS_EmptySet
<1>10. Counted(g, Plus(w, o), L \ {o})
  <2> SUFFICES ASSUME NEW y \in Objects, y \notin L \ {o}
               PROVE  g.refs[y] >= Plus(w, o)[y] + Cardinality(Holders(g, y))
    BY DEF Counted
  <2>1. CASE y = o
    <3>1. g.refs[y] = 1 /\ Plus(w, o)[y] = 1
      BY <2>1, <1>2, <1>3, <1>5 DEF One
    <3>2. Cardinality(Holders(g, y)) = 0
      BY <2>1, <1>4, <1>9
    <3> QED BY <3>1, <3>2
  <2>2. CASE y # o
    <3>1. h.refs[y] >= w[y] + Cardinality(Holders(h, y))
      BY <2>2 DEF Heap, Counted
    <3>2. g.refs[y] = h.refs[y] /\ Plus(w, o)[y] = w[y] /\ Holders(g, y) = Holders(h, y)
      BY <2>2, <1>3, <1>4, <1>5 DEF One
    <3> QED BY <3>1, <3>2
  <2> QED BY <2>1, <2>2
<1>11. Exact(g, Plus(w, o), e)
  <2> SUFFICES ASSUME e, NEW y \in Objects
               PROVE  g.refs[y] = Plus(w, o)[y] + Cardinality(Holders(g, y))
    BY DEF Exact
  <2>1. h.refs[y] = w[y] + Cardinality(Holders(h, y))
    BY DEF Heap, Exact
  <2> QED BY <2>1, <1>3, <1>4, <1>5, <1>8, <1>9, <1>2 DEF One
<1>12. Blocks(g, n, e)
  BY <1>1 DEF Heap, Blocks
<1> QED BY <1>5, <1>6, <1>7, <1>10, <1>11, <1>12 DEF Heap

LEMMA IncrefFields ==
  ASSUME NEW h \in HeapType, NEW o \in Objects
  PROVE  /\ Incref(h, o) \in HeapType /\ Incref(h, o).refs = [h.refs EXCEPT ![o] = @ + 1]
         /\ Incref(h, o).born = h.born /\ Incref(h, o).holds = h.holds
         /\ Incref(h, o).native = h.native /\ Incref(h, o).buffers = h.buffers
         /\ Incref(h, o).blocks = h.blocks
BY Kinds DEF Incref, HeapType

LEMMA IncrefHeap ==
  ASSUME NEW h, NEW w, NEW n, NEW L, NEW e, Heap(h, w, n, L, e), NEW o \in Objects, h.refs[o] > 0
  PROVE  Heap(Incref(h, o), Plus(w, o), n, L, e)
<1> PICK g : g = Incref(h, o)
  OBVIOUS
<1>1. /\ g \in HeapType /\ g.refs = [h.refs EXCEPT ![o] = @ + 1] /\ g.born = h.born
      /\ g.holds = h.holds /\ g.native = h.native /\ g.buffers = h.buffers /\ g.blocks = h.blocks
  BY IncrefFields DEF Heap, Formed
<1>3. \A y \in Objects : g.refs[y] = h.refs[y] + One(o, y) /\ h.refs[y] \in Nat
  BY <1>1 DEF Heap, Formed, HeapType, One
<1>4. ASSUME NEW y \in Objects PROVE Holders(g, y) = Holders(h, y)
  BY <1>1, <1>3, Kinds DEF Holders, One
<1>5. Plus(w, o) \in Counts /\ \A y \in Objects : Plus(w, o)[y] = w[y] + One(o, y) /\ w[y] \in Nat
  BY PlusType DEF Heap, Counts
<1>6. Formed(g)
  <2>1. \A x \in Objects : h.refs[x] > 0 => g.refs[x] > 0
    BY <1>3 DEF One
  <2> QED BY <1>1, <2>1 DEF Heap, Formed, HeapType
<1>7. Unborn(g, Plus(w, o))
  <2>1. o \in h.born
    BY DEF Heap, Unborn
  <2> QED BY <1>1, <1>3, <1>5, <2>1 DEF Unborn, One, Heap
<1>8. \A y \in Objects : Cardinality(Holders(h, y)) \in Nat
  BY HoldersFinite DEF Heap
<1>10. Counted(g, Plus(w, o), L)
  <2> SUFFICES ASSUME NEW y \in Objects, y \notin L
               PROVE  g.refs[y] >= Plus(w, o)[y] + Cardinality(Holders(g, y))
    BY DEF Counted
  <2>1. h.refs[y] >= w[y] + Cardinality(Holders(h, y))
    BY DEF Heap, Counted
  <2> QED BY <2>1, <1>3, <1>4, <1>5, <1>8 DEF One
<1>11. Exact(g, Plus(w, o), e)
  <2> SUFFICES ASSUME e, NEW y \in Objects
               PROVE  g.refs[y] = Plus(w, o)[y] + Cardinality(Holders(g, y))
    BY DEF Exact
  <2>1. h.refs[y] = w[y] + Cardinality(Holders(h, y))
    BY DEF Heap, Exact
  <2> QED BY <2>1, <1>3, <1>4, <1>5, <1>8 DEF One
<1>12. Blocks(g, n, e)
  BY <1>1 DEF Heap, Blocks
<1> QED BY <1>5, <1>6, <1>7, <1>10, <1>11, <1>12 DEF Heap

LEMMA HoldFields ==
  ASSUME NEW h \in HeapType, NEW o \in Objects, NEW x \in Objects
  PROVE  /\ Hold(h, x, o) \in HeapType
         /\ Hold(h, x, o).refs = [h.refs EXCEPT ![o] = @ + 1]
         /\ Hold(h, x, o).holds = [h.holds EXCEPT ![x] = o]
         /\ Hold(h, x, o).born = h.born /\ Hold(h, x, o).native = h.native
         /\ Hold(h, x, o).buffers = h.buffers /\ Hold(h, x, o).blocks = h.blocks
BY Kinds DEF Hold, Incref, HeapType

LEMMA HoldHeap ==
  ASSUME NEW h, NEW w, NEW n, NEW L, NEW e, Heap(h, w, n, L, e),
         NEW x \in Objects, NEW o \in Objects, h.refs[o] > 0, h.refs[x] > 0, h.holds[x] = None,
         \/ x \in Iters /\ o \in Dbs
         \/ x \in Dbs /\ o \in Strings
  PROVE  Heap(Hold(h, x, o), w, n, L, e)
<1> PICK g : g = Hold(h, x, o)
  OBVIOUS
<1>1. /\ g \in HeapType /\ g.refs = [h.refs EXCEPT ![o] = @ + 1]
      /\ g.holds = [h.holds EXCEPT ![x] = o] /\ g.born = h.born
      /\ g.native = h.native /\ g.buffers = h.buffers /\ g.blocks = h.blocks
  BY HoldFields DEF Heap, Formed
<1>2. \A y \in Objects : g.refs[y] = h.refs[y] + One(o, y) /\ h.refs[y] \in Nat /\ w[y] \in Nat
  BY <1>1 DEF Heap, Formed, HeapType, One, Counts
<1>3. \A y \in Objects : /\ g.holds[y] = (IF y = x THEN o ELSE h.holds[y])
                         /\ h.refs[y] > 0 <=> g.refs[y] > 0
  <2>1. \A y \in Objects : g.holds[y] = IF y = x THEN o ELSE h.holds[y]
    BY <1>1 DEF Heap, Formed, HeapType
  <2> QED BY <2>1, <1>2 DEF One
<1>4. ASSUME NEW y \in Objects PROVE Holders(g, y) = Holders(h, y) \cup (IF y = o THEN {x} ELSE {})
  BY <1>3, Kinds DEF Holders
<1>5. ASSUME NEW y \in Objects
      PROVE  /\ Cardinality(Holders(h, y)) \in Nat
             /\ Cardinality(Holders(g, y)) = Cardinality(Holders(h, y)) + One(o, y)
  <2>1. IsFiniteSet(Holders(h, y)) /\ Cardinality(Holders(h, y)) \in Nat
    BY HoldersFinite DEF Heap
  <2>2. x \notin Holders(h, y)
    BY Kinds DEF Holders
  <2>3. CASE y = o
    <3>1. Holders(g, y) = Holders(h, y) \cup {x} /\ One(o, y) = 1
      BY <2>3, <1>4 DEF One
    <3> QED BY <2>1, <2>2, <3>1, CardAdd
  <2>4. CASE y # o
    <3>1. Holders(g, y) = Holders(h, y) /\ One(o, y) = 0
      BY <2>4, <1>4 DEF One
    <3> QED BY <2>1, <3>1
  <2> QED BY <2>3, <2>4
<1>6. Formed(g)
  <2>1. \A y \in Objects : g.holds[y] # None =>
                  \/ y \in Iters /\ g.holds[y] \in Dbs
                  \/ y \in Dbs /\ g.holds[y] \in Strings
    BY <1>3 DEF Heap, Formed
  <2>2. \A y \in g.native \cup g.buffers : g.refs[y] > 0
    BY <1>1, <1>3 DEF Heap, Formed, HeapType
  <2> QED BY <1>1, <2>1, <2>2 DEF Heap, Formed
<1>7. Unborn(g, w)
  <2>1. o \in h.born /\ x \in h.born
    BY DEF Heap, Unborn
  <2> QED BY <1>1, <1>2, <1>3, <2>1 DEF Unborn, One, Heap
<1>10. Counted(g, w, L)
  <2> SUFFICES ASSUME NEW y \in Objects, y \notin L
               PROVE  g.refs[y] >= w[y] + Cardinality(Holders(g, y))
    BY DEF Counted
  <2>1. h.refs[y] >= w[y] + Cardinality(Holders(h, y))
    BY DEF Heap, Counted
  <2> QED BY <2>1, <1>2, <1>5 DEF One
<1>11. Exact(g, w, e)
  <2> SUFFICES ASSUME e, NEW y \in Objects
               PROVE  g.refs[y] = w[y] + Cardinality(Holders(g, y))
    BY DEF Exact
  <2>1. h.refs[y] = w[y] + Cardinality(Holders(h, y))
    BY DEF Heap, Exact
  <2> QED BY <2>1, <1>2, <1>5 DEF One
<1>12. Blocks(g, n, e)
  BY <1>1 DEF Heap, Blocks
<1> QED BY <1>6, <1>7, <1>10, <1>11, <1>12 DEF Heap

\* Owned blocks are as many as there are sets of them.
LEMMA OwnersFinite ==
  ASSUME NEW h, Formed(h)
  PROVE  /\ IsFiniteSet(h.native) /\ IsFiniteSet(h.buffers) /\ IsFiniteSet(h.born)
         /\ Cardinality(h.native) \in Nat /\ Cardinality(h.buffers) \in Nat
<1>1. h.native \subseteq h.born /\ h.buffers \subseteq h.born /\ IsFiniteSet(h.born)
  BY DEF Formed
<1> QED BY <1>1, FS_Subset, FS_CardinalityType

\* Where references and what is held are the same the counts are, too.
LEMMA SameCounts ==
  ASSUME NEW h, NEW w, NEW n, NEW L, NEW e, Heap(h, w, n, L, e), NEW g \in HeapType,
         g.refs = h.refs, g.holds = h.holds, g.born = h.born
  PROVE  Unborn(g, w) /\ Counted(g, w, L) /\ Exact(g, w, e)
<1>1. \A o : Holders(g, o) = Holders(h, o)
  BY DEF Holders
<1> QED BY <1>1 DEF Heap, Unborn, Counted, Exact

LEMMA NativeFields ==
  ASSUME NEW h \in HeapType, NEW o \in Objects
  PROVE  /\ Native(h, o) \in HeapType
         /\ Native(h, o).native = h.native \cup {o} /\ Native(h, o).blocks = h.blocks + 1
         /\ Native(h, o).refs = h.refs /\ Native(h, o).holds = h.holds
         /\ Native(h, o).born = h.born /\ Native(h, o).buffers = h.buffers
<1>1. h.blocks + 1 \in Nat /\ h.blocks \in Nat
  BY DEF HeapType
<1> QED BY <1>1 DEF Native, HeapType

LEMMA NativeHeap ==
  ASSUME NEW h, NEW w, NEW n, NEW L, NEW e, Heap(h, w, n, L, e),
         NEW o \in Objects, h.refs[o] > 0, o \notin h.native
  PROVE  Heap(Native(h, o), w, n, L, e)
<1> PICK g : g = Native(h, o)
  OBVIOUS
<1>1. /\ g \in HeapType /\ g.native = h.native \cup {o} /\ g.blocks = h.blocks + 1
      /\ g.refs = h.refs /\ g.holds = h.holds /\ g.born = h.born /\ g.buffers = h.buffers
  BY NativeFields DEF Heap, Formed
<1>2. Unborn(g, w) /\ Counted(g, w, L) /\ Exact(g, w, e)
  BY <1>1, SameCounts
<1>3. Formed(g)
  <2>1. o \in h.born
    BY DEF Heap, Unborn
  <2> QED BY <1>1, <2>1 DEF Heap, Formed
<1>4. Blocks(g, n, e)
  <2>1. /\ IsFiniteSet(h.native) /\ Cardinality(h.native) \in Nat
        /\ Cardinality(h.buffers) \in Nat /\ n \in Nat /\ h.blocks \in Nat
    BY OwnersFinite DEF Heap, Formed, HeapType
  <2>2. Cardinality(g.native) = Cardinality(h.native) + 1
    BY <1>1, <2>1, CardAdd
  <2> QED BY <1>1, <2>1, <2>2 DEF Heap, Blocks
<1> QED BY <1>2, <1>3, <1>4 DEF Heap

LEMMA BufferFields ==
  ASSUME NEW h \in HeapType, NEW o \in Objects
  PROVE  /\ Buffer(h, o) \in HeapType
         /\ Buffer(h, o).buffers = h.buffers \cup {o} /\ Buffer(h, o).blocks = h.blocks + 1
         /\ Buffer(h, o).refs = h.refs /\ Buffer(h, o).holds = h.holds
         /\ Buffer(h, o).born = h.born /\ Buffer(h, o).native = h.native
<1>1. h.blocks + 1 \in Nat /\ h.blocks \in Nat
  BY DEF HeapType
<1> QED BY <1>1 DEF Buffer, HeapType

LEMMA BufferHeap ==
  ASSUME NEW h, NEW w, NEW n, NEW L, NEW e, Heap(h, w, n, L, e),
         NEW o \in Dbs, h.refs[o] > 0, o \notin h.buffers
  PROVE  Heap(Buffer(h, o), w, n, L, e)
<1> PICK g : g = Buffer(h, o)
  OBVIOUS
<1>0. o \in Objects
  BY Kinds
<1>1. /\ g \in HeapType /\ g.buffers = h.buffers \cup {o} /\ g.blocks = h.blocks + 1
      /\ g.refs = h.refs /\ g.holds = h.holds /\ g.born = h.born /\ g.native = h.native
  BY <1>0, BufferFields DEF Heap, Formed
<1>2. Unborn(g, w) /\ Counted(g, w, L) /\ Exact(g, w, e)
  BY <1>1, SameCounts
<1>3. Formed(g)
  <2>1. o \in h.born
    BY <1>0 DEF Heap, Unborn
  <2> QED BY <1>1, <2>1 DEF Heap, Formed
<1>4. Blocks(g, n, e)
  <2>1. /\ IsFiniteSet(h.buffers) /\ Cardinality(h.native) \in Nat
        /\ Cardinality(h.buffers) \in Nat /\ n \in Nat /\ h.blocks \in Nat
    BY OwnersFinite DEF Heap, Formed, HeapType
  <2>2. Cardinality(g.buffers) = Cardinality(h.buffers) + 1
    BY <1>1, <2>1, CardAdd
  <2> QED BY <1>1, <2>1, <2>2 DEF Heap, Blocks
<1> QED BY <1>2, <1>3, <1>4 DEF Heap

\* A block that is not in the heap: counted, or lost.
LEMMA BlockHeap ==
  ASSUME NEW h, NEW w, NEW n, NEW L, NEW e, Heap(h, w, n, L, e)
  PROVE  /\ Heap(Block(h, 1), w, n + 1, L, e)
         /\ Heap(Block(h, 1), w, n, L, FALSE)
         /\ n > 0 => Heap(Block(h, -1), w, n - 1, L, e)
<1>1. /\ Cardinality(h.native) \in Nat /\ Cardinality(h.buffers) \in Nat
      /\ n \in Nat /\ h.blocks \in Nat /\ h \in HeapType
  BY OwnersFinite DEF Heap, Formed, HeapType
<1>2. ASSUME NEW k \in {1, -1}, h.blocks + k \in Nat, NEW g, g = Block(h, k)
      PROVE  /\ g \in HeapType /\ g.blocks = h.blocks + k /\ g.native = h.native
             /\ g.buffers = h.buffers /\ Formed(g)
             /\ Unborn(g, w) /\ Counted(g, w, L) /\ Exact(g, w, e)
  <2>1. /\ g \in HeapType /\ g.refs = h.refs /\ g.holds = h.holds /\ g.born = h.born
        /\ g.blocks = h.blocks + k /\ g.native = h.native /\ g.buffers = h.buffers
    BY <1>1, <1>2 DEF Block, HeapType
  <2>2. Formed(g)
    BY <2>1 DEF Heap, Formed
  <2> QED BY <2>1, <2>2, SameCounts
<1>3. Heap(Block(h, 1), w, n + 1, L, e)
  <2> PICK g : g = Block(h, 1)
    OBVIOUS
  <2>1. h.blocks + 1 \in Nat /\ n + 1 \in Nat
    BY <1>1
  <2>2. Blocks(g, n + 1, e)
    BY <2>1, <1>1, <1>2 DEF Heap, Blocks
  <2> QED BY <2>1, <2>2, <1>2 DEF Heap
<1>4. Heap(Block(h, 1), w, n, L, FALSE)
  <2> PICK g : g = Block(h, 1)
    OBVIOUS
  <2>1. h.blocks + 1 \in Nat
    BY <1>1
  <2>2. Blocks(g, n, FALSE) /\ Exact(g, w, FALSE)
    BY <2>1, <1>1, <1>2 DEF Heap, Blocks, Exact
  <2> QED BY <2>1, <2>2, <1>2 DEF Heap
<1>5. ASSUME n > 0 PROVE Heap(Block(h, -1), w, n - 1, L, e)
  <2> PICK g : g = Block(h, -1)
    OBVIOUS
  <2>0. h.blocks >= Cardinality(h.native) + Cardinality(h.buffers) + n
    BY DEF Heap, Blocks
  <2>1. h.blocks + (-1) \in Nat /\ n - 1 \in Nat
    BY <1>1, <1>5, <2>0
  <2>2. Blocks(g, n - 1, e)
    BY <2>1, <1>1, <1>2 DEF Heap, Blocks
  <2> QED BY <2>1, <2>2, <1>2 DEF Heap
<1> QED BY <1>3, <1>4, <1>5
-----------------------------------------------------------------------------
(***************************************************************************)
(* Releasing a reference                                                   *)
(***************************************************************************)
LEMMA CardWithout ==
  ASSUME NEW S, IsFiniteSet(S), NEW o
  PROVE  /\ Cardinality(S \cap {o}) \in Nat /\ Cardinality(S \ {o}) \in Nat /\ Cardinality(S) \in Nat
         /\ Cardinality(S) = Cardinality(S \ {o}) + Cardinality(S \cap {o})
<1>1. Cardinality({}) = 0 /\ Cardinality({o}) = 1
  BY FS_EmptySet, FS_Singleton
<1>2. CASE o \in S
  <2>1. S \cap {o} = {o}
    BY <1>2
  <2>2. Cardinality(S \cap {o}) = 1
    BY <1>1, <2>1
  <2>3. PICK c \in Nat : c = Cardinality(S) /\ c > 0 /\ c - 1 = Cardinality(S \ {o})
    BY <1>2, CardRemove
  <2>4. c - 1 \in Nat /\ c = (c - 1) + 1
    BY <2>3
  <2> QED BY <2>2, <2>3, <2>4
<1>3. CASE o \notin S
  <2>1. S \cap {o} = {} /\ S \ {o} = S
    BY <1>3
  <2>2. PICK c \in Nat : c = Cardinality(S)
    BY FS_CardinalityType
  <2>3. c = c + 0
    BY <2>2
  <2>4. Cardinality(S \cap {o}) = 0 /\ Cardinality(S \ {o}) = c
    BY <1>1, <2>1, <2>2
  <2> QED BY <2>2, <2>3, <2>4
<1> QED BY <1>2, <1>3

LEMMA FreedFields ==
  ASSUME NEW h, Formed(h), NEW n \in Nat, NEW e, Blocks(h, n, e), NEW o \in Objects
  PROVE  /\ Freed(h, o) \in HeapType
         /\ Freed(h, o).refs = [h.refs EXCEPT ![o] = 0]
         /\ Freed(h, o).native = h.native \ {o} /\ Freed(h, o).buffers = h.buffers \ {o}
         /\ Freed(h, o).holds = h.holds /\ Freed(h, o).born = h.born
         /\ Blocks(Freed(h, o), n, e)
<1> PICK g : g = Freed(h, o)
  OBVIOUS
<1>1. h \in HeapType /\ h.blocks \in Nat
  BY DEF Formed, HeapType
<1>2. PICK a \in Nat : a = Cardinality(h.native \cap {o})
  BY CardWithout, OwnersFinite
<1>3. PICK b \in Nat : b = Cardinality(h.buffers \cap {o})
  BY CardWithout, OwnersFinite
<1>4. PICK c \in Nat : c = Cardinality(h.native \ {o}) /\ Cardinality(h.native) = c + a
  BY <1>2, CardWithout, OwnersFinite
<1>5. PICK d \in Nat : d = Cardinality(h.buffers \ {o}) /\ Cardinality(h.buffers) = d + b
  BY <1>3, CardWithout, OwnersFinite
<1>6. h.blocks >= (c + a) + (d + b) + n /\ (e => h.blocks = (c + a) + (d + b) + n)
  BY <1>4, <1>5 DEF Blocks
<1>7. PICK k \in Nat : k = h.blocks - a - b
  BY <1>1, <1>6
<1>8. g = [h EXCEPT !.refs[o] = 0, !.native = @ \ {o}, !.buffers = @ \ {o}, !.blocks = k]
  BY <1>1, <1>2, <1>3, <1>7 DEF Freed, HeapType
<1>9. /\ g \in HeapType /\ g.refs = [h.refs EXCEPT ![o] = 0]
      /\ g.native = h.native \ {o} /\ g.buffers = h.buffers \ {o}
      /\ g.holds = h.holds /\ g.born = h.born /\ g.blocks = k
  <2>1. [h.refs EXCEPT ![o] = 0] \in [Objects -> Nat] /\ k \in Nat
    BY DEF Formed, HeapType
  <2>2. h.native \ {o} \in SUBSET Objects /\ h.buffers \ {o} \in SUBSET Objects
    BY DEF Formed, HeapType
  <2> QED BY <1>1, <1>8, <2>1, <2>2 DEF HeapType
<1>10. Blocks(g, n, e)
  <2>1. k >= c + d + n /\ (e => k = c + d + n)
    BY <1>1, <1>6, <1>7
  <2> QED BY <2>1, <1>9, <1>4, <1>5 DEF Blocks
<1> QED BY <1>9, <1>10

\* What an object holds is released with it: until then the reference is one from outside.
LEMMA FreedHeap ==
  ASSUME NEW h, NEW w, NEW n, NEW L, NEW e, Heap(h, w, n, L, e),
         NEW o \in Objects, w[o] > 0, h.refs[o] = 1
  PROVE  Heap(Freed(h, o), Plus(Minus(w, o), h.holds[o]), n, L, e)
<1> PICK g : g = Freed(h, o)
  OBVIOUS
<1> PICK x : x = h.holds[o]
  OBVIOUS
<1> PICK v : v = Plus(Minus(w, o), x)
  OBVIOUS
<1>1. /\ g \in HeapType /\ g.refs = [h.refs EXCEPT ![o] = 0]
      /\ g.native = h.native \ {o} /\ g.buffers = h.buffers \ {o}
      /\ g.holds = h.holds /\ g.born = h.born /\ Blocks(g, n, e)
  BY FreedFields DEF Heap
<1>2. w \in Counts /\ \A y \in Objects : w[y] \in Nat
  BY DEF Heap, Counts
<1>3. v \in Counts /\ \A y \in Objects : v[y] = w[y] - One(o, y) + One(x, y)
  <2>1. Minus(w, o) \in Counts /\ \A y \in Objects : Minus(w, o)[y] = w[y] - One(o, y)
    BY <1>2, MinusType
  <2> QED BY <2>1, PlusType
<1>4. \A y \in Objects : g.refs[y] = (IF y = o THEN 0 ELSE h.refs[y]) /\ h.refs[y] \in Nat
  BY <1>1 DEF Heap, Formed, HeapType
<1>5. ASSUME NEW y \in Objects
      PROVE  /\ Cardinality(Holders(h, y)) \in Nat
             /\ Cardinality(Holders(g, y)) = Cardinality(Holders(h, y)) - One(x, y)
  <2>1. IsFiniteSet(Holders(h, y)) /\ Cardinality(Holders(h, y)) \in Nat
    BY HoldersFinite DEF Heap
  <2>2. Holders(g, y) = Holders(h, y) \ {o}
    BY <1>1, <1>4 DEF Holders
  <2>3. CASE y = x
    <3>1. o \in Holders(h, y) /\ One(x, y) = 1
      BY <2>3 DEF Holders, One
    <3> QED BY <2>1, <2>2, <3>1, CardRemove
  <2>4. CASE y # x
    <3>1. Holders(g, y) = Holders(h, y) /\ One(x, y) = 0
      BY <2>2, <2>4 DEF Holders, One
    <3> QED BY <2>1, <3>1
  <2> QED BY <2>3, <2>4
<1>6. o # x
  BY Kinds DEF Heap, Formed
<1>7. Formed(g)
  <2>1. IsFiniteSet(g.born) /\ g.native \subseteq g.born /\ g.buffers \subseteq g.born \cap Dbs
    BY <1>1 DEF Heap, Formed
  <2>2. \A y \in g.native \cup g.buffers : g.refs[y] > 0
    <3> SUFFICES ASSUME NEW y \in g.native \cup g.buffers PROVE g.refs[y] > 0
      OBVIOUS
    <3>1. y \in Objects /\ y # o /\ y \in h.native \cup h.buffers
      BY <1>1 DEF HeapType
    <3> QED BY <3>1, <1>4 DEF Heap, Formed
  <2> QED BY <1>1, <2>1, <2>2 DEF Heap, Formed
<1>8. Unborn(g, v)
  <2> SUFFICES ASSUME NEW y \in Objects, y \notin g.born
               PROVE  g.refs[y] = 0 /\ g.holds[y] = None /\ v[y] = 0
    BY DEF Unborn
  <2>1. h.refs[y] = 0 /\ h.holds[y] = None /\ w[y] = 0
    BY <1>1 DEF Heap, Unborn
  <2>2. y # o
    BY <2>1
  <2>3. Cardinality(Holders(h, y)) = 0 /\ Holders(h, y) = {}
    BY <1>1, NoHolders, FS_EmptySet
  <2>4. y # x
    BY <2>3 DEF Holders
  <2> QED BY <1>1, <1>3, <1>4, <2>1, <2>2, <2>4 DEF One
<1>9. ASSUME NEW y \in Objects PROVE v[y] + Cardinality(Holders(g, y)) = w[y] - One(o, y) + Cardinality(Holders(h, y))
  BY <1>2, <1>3, <1>5 DEF One
<1>10. Counted(g, v, L)
  <2> SUFFICES ASSUME NEW y \in Objects, y \notin L
               PROVE  g.refs[y] >= v[y] + Cardinality(Holders(g, y))
    BY DEF Counted
  <2>1. h.refs[y] >= w[y] + Cardinality(Holders(h, y))
    BY DEF Heap, Counted
  <2>2. g.refs[y] >= w[y] - One(o, y) + Cardinality(Holders(h, y))
    BY <2>1, <1>2, <1>4, <1>5 DEF One
  <2> QED BY <2>2, <1>9
<1>11. Exact(g, v, e)
  <2> SUFFICES ASSUME e, NEW y \in Objects
               PROVE  g.refs[y] = v[y] + Cardinality(Holders(g, y))
    BY DEF Exact
  <2>1. h.refs[y] = w[y] + Cardinality(Holders(h, y))
    BY DEF Heap, Exact
  <2>2. g.refs[y] = w[y] - One(o, y) + Cardinality(Holders(h, y))
    BY <2>1, <1>2, <1>4, <1>5 DEF One
  <2> QED BY <2>2, <1>9
<1> QED BY <1>1, <1>3, <1>7, <1>8, <1>10, <1>11 DEF Heap

LEMMA LessFields ==
  ASSUME NEW h \in HeapType, NEW o \in Objects
  PROVE  /\ Less(h, o) \in HeapType
         /\ \A y \in Objects : Less(h, o).refs[y] =
              IF y = o /\ h.refs[o] > 0 THEN h.refs[o] - 1 ELSE h.refs[y]
         /\ Less(h, o).holds = h.holds /\ Less(h, o).born = h.born
         /\ Less(h, o).native = h.native /\ Less(h, o).buffers = h.buffers
         /\ Less(h, o).blocks = h.blocks
<1>0. o # None /\ h.refs[o] \in Nat
  BY Kinds DEF HeapType
<1>1. CASE h.refs[o] = 0
  BY <1>0, <1>1 DEF Less, HeapType
<1>2. CASE h.refs[o] # 0
  <2>1. h.refs[o] - 1 \in Nat /\ h.refs[o] > 0
    BY <1>0, <1>2
  <2>2. Less(h, o) = [h EXCEPT !.refs[o] = @ - 1]
    BY <1>0, <1>2 DEF Less
  <2> QED BY <2>1, <2>2 DEF HeapType
<1> QED BY <1>1, <1>2

LEMMA LessHeap ==
  ASSUME NEW h, NEW w, NEW n, NEW L, NEW e, Heap(h, w, n, L, e),
         NEW o \in Objects, w[o] > 0, h.refs[o] # 1
  PROVE  Heap(Less(h, o), Minus(w, o), n, L, e)
<1> PICK g : g = Less(h, o)
  OBVIOUS
<1> PICK v : v = Minus(w, o)
  OBVIOUS
<1>1. /\ g \in HeapType
      /\ \A y \in Objects : g.refs[y] = IF y = o /\ h.refs[o] > 0 THEN h.refs[o] - 1 ELSE h.refs[y]
      /\ g.holds = h.holds /\ g.born = h.born
      /\ g.native = h.native /\ g.buffers = h.buffers /\ g.blocks = h.blocks
  BY LessFields DEF Heap, Formed
<1>2. w \in Counts /\ \A y \in Objects : w[y] \in Nat /\ h.refs[y] \in Nat
  BY DEF Heap, Counts, Formed, HeapType
<1>3. v \in Counts /\ \A y \in Objects : v[y] = w[y] - One(o, y)
  BY <1>2, MinusType
<1>4. \A y \in Objects : h.refs[y] > 0 <=> g.refs[y] > 0
  BY <1>1, <1>2
<1>5. ASSUME NEW y \in Objects PROVE Holders(g, y) = Holders(h, y) /\ Cardinality(Holders(h, y)) \in Nat
  <2>1. Holders(g, y) = Holders(h, y)
    BY <1>1, <1>4 DEF Holders
  <2> QED BY <2>1, HoldersFinite DEF Heap
<1>7. Formed(g)
  <2>1. \A y \in g.native \cup g.buffers : g.refs[y] > 0
    BY <1>1, <1>4 DEF Heap, Formed, HeapType
  <2> QED BY <1>1, <2>1 DEF Heap, Formed
<1>8. Unborn(g, v)
  BY <1>1, <1>2, <1>3 DEF Heap, Unborn, One
<1>10. Counted(g, v, L)
  <2> SUFFICES ASSUME NEW y \in Objects, y \notin L
               PROVE  g.refs[y] >= v[y] + Cardinality(Holders(g, y))
    BY DEF Counted
  <2>1. h.refs[y] >= w[y] + Cardinality(Holders(h, y))
    BY DEF Heap, Counted
  <2> QED BY <2>1, <1>1, <1>2, <1>3, <1>5 DEF One
<1>11. Exact(g, v, e)
  <2> SUFFICES ASSUME e, NEW y \in Objects
               PROVE  g.refs[y] = v[y] + Cardinality(Holders(g, y))
    BY DEF Exact
  <2>1. h.refs[y] = w[y] + Cardinality(Holders(h, y)) /\ h.refs[o] = w[o] + Cardinality(Holders(h, o))
    BY DEF Heap, Exact
  <2>2. h.refs[o] > 0
    BY <2>1, <1>2, <1>5
  <2> QED BY <2>1, <2>2, <1>1, <1>2, <1>3, <1>5 DEF One
<1>12. Blocks(g, n, e)
  BY <1>1 DEF Heap, Blocks
<1> QED BY <1>3, <1>7, <1>8, <1>10, <1>11, <1>12 DEF Heap

LEMMA PlusMinus ==
  ASSUME NEW w \in Counts, NEW o \in Objects, w[o] > 0
  PROVE  /\ Plus(Minus(w, o), None) = Minus(w, o)
         /\ \A x \in Objects : /\ Plus(Minus(w, o), x)[x] > 0
                               /\ Minus(Plus(Minus(w, o), x), x) = Minus(w, o)
<1> PICK v : v = Minus(w, o)
  OBVIOUS
<1>1. v \in Counts /\ \A y \in Objects : v[y] \in Nat
  BY MinusType DEF Counts
<1>2. Plus(v, None) = v
  BY <1>1, Kinds DEF Plus, Counts, One
<1>3. ASSUME NEW x \in Objects PROVE Plus(v, x)[x] > 0 /\ Minus(Plus(v, x), x) = v
  <2>1. \A y \in Objects : Plus(v, x)[y] = v[y] + One(x, y) /\ v[y] \in Nat
    BY <1>1, PlusType
  <2>2. \A y \in Objects : Plus(v, x)[y] - One(x, y) = v[y]
    BY <2>1 DEF One
  <2>3. Minus(Plus(v, x), x) = [y \in Objects |-> v[y]]
    BY <2>2 DEF Minus
  <2>4. Plus(v, x)[x] > 0
    BY <2>1 DEF One
  <2> QED BY <1>1, <2>3, <2>4 DEF Counts
<1> QED BY <1>2, <1>3

LEMMA NoneReleased ==
  ASSUME NEW h
  PROVE  /\ DecrefPlain(h, None) = h /\ DecrefDb(h, None) = h /\ Decref(h, None) = h
         /\ Incref(h, None) = h
BY DEF DecrefPlain, DecrefDb, Decref, Last1, Less, Incref

-----------------------------------------------------------------------------
(***************************************************************************)
(* What one heap leaves of another, but for the objects of F: nothing is   *)
(* brought to life, and what lives keeps what it holds and its memory.     *)
(***************************************************************************)
Keeps(h, g, F) == /\ g.holds \in [Objects -> Objects \cup {None}]
                  /\ \A x \in Objects \ F :
                       /\ g.holds[x] = h.holds[x] /\ (x \in g.born <=> x \in h.born)
                       /\ g.refs[x] > 0 => h.refs[x] > 0
                       /\ g.refs[x] > 0 => (x \in g.native <=> x \in h.native)

LEMMA KeepsSelf == ASSUME NEW h \in HeapType, NEW F PROVE Keeps(h, h, F)
BY DEF Keeps, HeapType

LEMMA KeepsChain ==
  ASSUME NEW h, NEW g, NEW k, NEW F, Keeps(h, g, F), Keeps(g, k, F)
  PROVE  Keeps(h, k, F)
BY DEF Keeps

LEMMA AllocKeeps == ASSUME NEW h \in HeapType, NEW o \in Objects, NEW F, o \in F
                    PROVE  Keeps(h, Alloc(h, o), F)
<1> PICK g : g = Alloc(h, o)
  OBVIOUS
<1>1. /\ g \in HeapType /\ g.refs = [h.refs EXCEPT ![o] = 1] /\ g.born = h.born \cup {o}
      /\ g.holds = h.holds /\ g.native = h.native
  BY AllocFields
<1>2. \A x \in Objects \ F : g.refs[x] = h.refs[x] /\ x # o
  BY <1>1 DEF HeapType
<1> QED BY <1>1, <1>2 DEF Keeps, HeapType

LEMMA NativeKeeps == ASSUME NEW h \in HeapType, NEW o \in Objects, NEW F, o \in F
                     PROVE  Keeps(h, Native(h, o), F)
BY NativeFields DEF Keeps, HeapType

LEMMA BufferKeeps == ASSUME NEW h \in HeapType, NEW o \in Objects, NEW F
                     PROVE  Keeps(h, Buffer(h, o), F)
BY BufferFields DEF Keeps, HeapType

LEMMA BlockKeeps == ASSUME NEW h \in HeapType, NEW k, NEW F
                    PROVE  Keeps(h, Block(h, k), F)
BY DEF Keeps, HeapType, Block

LEMMA IncrefKeeps == ASSUME NEW h \in HeapType, NEW o \in Objects, h.refs[o] > 0, NEW F
                     PROVE  Keeps(h, Incref(h, o), F)
<1> PICK g : g = Incref(h, o)
  OBVIOUS
<1>1. /\ g \in HeapType /\ g.refs = [h.refs EXCEPT ![o] = @ + 1] /\ g.born = h.born
      /\ g.holds = h.holds /\ g.native = h.native
  BY IncrefFields
<1>2. \A x \in Objects : g.refs[x] > 0 => h.refs[x] > 0
  BY <1>1 DEF HeapType
<1> QED BY <1>1, <1>2 DEF Keeps, HeapType

LEMMA HoldKeeps ==
  ASSUME NEW h \in HeapType, NEW o \in Objects, NEW x \in Objects, h.refs[o] > 0, NEW F, x \in F
  PROVE  Keeps(h, Hold(h, x, o), F)
<1> PICK g : g = Hold(h, x, o)
  OBVIOUS
<1>1. /\ g \in HeapType /\ g.refs = [h.refs EXCEPT ![o] = @ + 1] /\ g.born = h.born
      /\ g.holds = [h.holds EXCEPT ![x] = o] /\ g.native = h.native
  BY HoldFields
<1>2. \A y \in Objects : g.refs[y] > 0 => h.refs[y] > 0
  BY <1>1 DEF HeapType
<1>3. \A y \in Objects \ F : g.holds[y] = h.holds[y]
  BY <1>1 DEF HeapType
<1> QED BY <1>1, <1>2, <1>3 DEF Keeps, HeapType

LEMMA FreedKeeps ==
  ASSUME NEW h, NEW w, NEW n, NEW L, NEW e, Heap(h, w, n, L, e), NEW o \in Objects, NEW F
  PROVE  Keeps(h, Freed(h, o), F)
<1> PICK g : g = Freed(h, o)
  OBVIOUS
<1>1. /\ g \in HeapType /\ g.refs = [h.refs EXCEPT ![o] = 0] /\ g.native = h.native \ {o}
      /\ g.holds = h.holds /\ g.born = h.born
  BY FreedFields DEF Heap
<1>2. \A x \in Objects : g.refs[x] > 0 => x # o /\ h.refs[x] > 0
  BY <1>1 DEF Heap, Formed, HeapType
<1> QED BY <1>1, <1>2 DEF Keeps, HeapType

LEMMA LessKeeps ==
  ASSUME NEW h \in HeapType, NEW o \in Objects, NEW F
  PROVE  Keeps(h, Less(h, o), F)
<1>1. \A x \in Objects : Less(h, o).refs[x] > 0 => h.refs[x] > 0
  BY LessFields DEF HeapType
<1> QED BY <1>1, LessFields DEF Keeps, HeapType

LEMMA KeepsMore == ASSUME NEW h, NEW g, Keeps(h, g, {}), NEW F PROVE Keeps(h, g, F)
BY DEF Keeps

LEMMA HeldBy ==
  ASSUME NEW h, NEW w, NEW n, NEW L, NEW e, Heap(h, w, n, L, e), NEW o \in Objects
  PROVE  /\ o \in Strings => h.holds[o] = None
         /\ o \in Dbs => h.holds[o] \in Strings \cup {None}
         /\ h.holds[o] \in Dbs \cup Strings \cup {None}
         /\ Freed(h, o).holds = h.holds
BY Kinds, FreedFields DEF Heap, Formed, HeapType

LEMMA DecrefPlainHeap ==
  ASSUME NEW h, NEW w, NEW n, NEW L, NEW e, Heap(h, w, n, L, e),
         NEW o \in Objects, w[o] > 0, h.holds[o] = None
  PROVE  Heap(DecrefPlain(h, o), Minus(w, o), n, L, e) /\ Keeps(h, DecrefPlain(h, o), {})
<1>0. h \in HeapType
  BY DEF Heap, Formed
<1>1. CASE h.refs[o] = 1
  <2>1. DecrefPlain(h, o) = Freed(h, o)
    BY <1>1, Kinds DEF DecrefPlain, Last1
  <2>2. Plus(Minus(w, o), h.holds[o]) = Minus(w, o)
    BY PlusMinus DEF Heap
  <2> QED BY <1>1, <2>1, <2>2, FreedHeap, FreedKeeps
<1>2. CASE h.refs[o] # 1
  <2>1. DecrefPlain(h, o) = Less(h, o)
    BY <1>2 DEF DecrefPlain, Last1
  <2> QED BY <1>0, <1>2, <2>1, LessHeap, LessKeeps
<1> QED BY <1>1, <1>2

LEMMA DecrefDbHeap ==
  ASSUME NEW h, NEW w, NEW n, NEW L, NEW e, Heap(h, w, n, L, e),
         NEW o \in Objects, w[o] > 0, o \in Dbs \cup Strings
  PROVE  Heap(DecrefDb(h, o), Minus(w, o), n, L, e) /\ Keeps(h, DecrefDb(h, o), {})
<1>0. h \in HeapType
  BY DEF Heap, Formed
<1>1. CASE h.refs[o] = 1
  <2> PICK x : x = h.holds[o]
    OBVIOUS
  <2> PICK v : v = Plus(Minus(w, o), x)
    OBVIOUS
  <2>1. DecrefDb(h, o) = DecrefPlain(Freed(h, o), x)
    BY <1>1, Kinds DEF DecrefDb, Last1
  <2>2. Heap(Freed(h, o), v, n, L, e) /\ Keeps(h, Freed(h, o), {})
    BY <1>1, FreedHeap, FreedKeeps
  <2>3. x \in Strings \cup {None} /\ (x \in Strings => Freed(h, o).holds[x] = None)
    BY HeldBy, Kinds
  <2>4. w \in Counts
    BY DEF Heap
  <2>5. CASE x = None
    BY <2>1, <2>2, <2>4, <2>5, PlusMinus, NoneReleased
  <2>6. CASE x \in Strings
    <3>1. x \in Objects /\ v[x] > 0 /\ Minus(v, x) = Minus(w, o)
      BY <2>4, <2>6, PlusMinus, Kinds
    <3>2. Heap(DecrefDb(h, o), Minus(w, o), n, L, e) /\ Keeps(Freed(h, o), DecrefDb(h, o), {})
      BY <2>1, <2>2, <2>3, <2>6, <3>1, DecrefPlainHeap
    <3> QED BY <2>2, <3>2, KeepsChain
  <2> QED BY <2>3, <2>5, <2>6
<1>2. CASE h.refs[o] # 1
  <2>1. DecrefDb(h, o) = Less(h, o)
    BY <1>2 DEF DecrefDb, Last1
  <2> QED BY <1>0, <1>2, <2>1, LessHeap, LessKeeps
<1> QED BY <1>1, <1>2

LEMMA DecrefHeap ==
  ASSUME NEW h, NEW w, NEW n, NEW L, NEW e, Heap(h, w, n, L, e), NEW o \in Objects, w[o] > 0
  PROVE  Heap(Decref(h, o), Minus(w, o), n, L, e) /\ Keeps(h, Decref(h, o), {})
<1>0. h \in HeapType
  BY DEF Heap, Formed
<1>1. CASE h.refs[o] = 1
  <2> PICK x : x = h.holds[o]
    OBVIOUS
  <2> PICK v : v = Plus(Minus(w, o), x)
    OBVIOUS
  <2>1. Decref(h, o) = DecrefDb(Freed(h, o), x)
    BY <1>1, Kinds DEF Decref, Last1
  <2>2. Heap(Freed(h, o), v, n, L, e) /\ Keeps(h, Freed(h, o), {})
    BY <1>1, FreedHeap, FreedKeeps
  <2>3. x \in Dbs \cup Strings \cup {None}
    BY HeldBy
  <2>4. w \in Counts
    BY DEF Heap
  <2>5. CASE x = None
    BY <2>1, <2>2, <2>4, <2>5, PlusMinus, NoneReleased
  <2>6. CASE x \in Dbs \cup Strings
    <3>1. x \in Objects /\ v[x] > 0 /\ Minus(v, x) = Minus(w, o)
      BY <2>4, <2>6, PlusMinus, Kinds
    <3>2. Heap(Decref(h, o), Minus(w, o), n, L, e) /\ Keeps(Freed(h, o), Decref(h, o), {})
      BY <2>1, <2>2, <2>6, <3>1, DecrefDbHeap
    <3> QED BY <2>2, <3>2, KeepsChain
  <2> QED BY <2>3, <2>5, <2>6
<1>2. CASE h.refs[o] # 1
  <2>1. Decref(h, o) = Less(h, o)
    BY <1>2 DEF Decref, Last1
  <2> QED BY <1>0, <1>2, <2>1, LessHeap, LessKeeps
<1> QED BY <1>1, <1>2
-----------------------------------------------------------------------------
(***************************************************************************)
(* The functions under way                                                 *)
(***************************************************************************)
Frame(op, on, args, locals) == [op |-> op, on |-> on, args |-> args, locals |-> locals]

LoadFrames == {Frame("load", d, <<>>, <<d>>) : d \in Dbs}
DumpFrames == {Frame("dump", d, <<d>>, <<>>) : d \in Dbs}
AddFrames == {Frame("add", c, <<c>>, <<>>) : c \in Builders}
NewFrames == {Frame("new", c, <<>>, <<c>>) : c \in Builders}
AskFrames == {Frame("query", d, <<d, q, v>>, <<q, v>>) :
                d \in Dbs, q \in Queries, v \in Views \cup {None}}
AnswerFrames == {Frame("query", d, <<d, q, v>>, <<q, v, r>>) :
                   d \in Dbs, q \in Queries, v \in Views \cup {None}, r \in Queries}
ViewFrames == {Frame("view", v, <<d>>, <<v, d>>) : v \in Views, d \in Dbs}

Frames == LoadFrames \cup DumpFrames \cup AddFrames \cup NewFrames
          \cup AskFrames \cup AnswerFrames \cup ViewFrames

Unfinished(f) == f.op \in {"load", "view"}

\* The queries that resolve has returned to a function that is under way.
Resolved(c) == {r \in Queries : \E k \in DOMAIN c : Nth(c[k].locals, 3) = r}

\* The references from outside of the heap, the constructors of views, the queries that may be gone.
Ext(p, c) == [o \in Objects |-> (IF o \in p THEN 1 ELSE 0) + Lent(c, o)]
ViewsMade(c) == Cardinality({k \in DOMAIN c : c[k].op = "view"})
Loose(c, l) == IF "view type" \in l THEN Queries \ Resolved(c) ELSE {}

\* A query reads a database; what is being made is nobody else's yet.
FramesSound(h, p, c) ==
  /\ c \in Seq(Frames)
  /\ \A k \in DOMAIN c : c[k].op = "query" => c[k].on \in h.native
  /\ \A k \in DOMAIN c : Unfinished(c[k]) => c[k].on \notin h.native /\ c[k].on \notin p
  /\ \A k, n \in DOMAIN c : Unfinished(c[k]) /\ Unfinished(c[n]) /\ k # n => c[k].on # c[n].on
  /\ Resolved(c) \cap p = {}

CursorsOpen(h) == \A i \in Iters : h.refs[i] > 0 => h.holds[i] \in h.native

\* The invariant, of a heap m, the program's references p, functions c, and so on.
Sound(m, p, c, r, l) ==
  /\ Heap(m, Ext(p, c), ViewsMade(c), Loose(c, l), l = {})
  /\ FramesSound(m, p, c) /\ CursorsOpen(m)
  /\ p \subseteq Objects /\ Len(c) <= MaxDepth /\ r \in [Iters -> Views \cup {None}]

IInv == Sound(mem, prog, calls, reads, lossy)
-----------------------------------------------------------------------------
(***************************************************************************)
(* Counting the references of the functions                                *)
(***************************************************************************)
LEMMA FrameShape ==
  ASSUME NEW f \in Frames
  PROVE  /\ f.on \in Dbs \cup Builders \cup Views
         /\ f.on = Nth(f.args, 1) \/ f.on = Nth(f.locals, 1)
         /\ \A j \in 1 .. 3 : Nth(f.args, j) \in Objects \cup {None} /\ Nth(f.locals, j) \in Objects \cup {None}
         /\ Nth(f.locals, 3) \in Queries \cup {None}
         /\ f.op \in {"load", "dump", "add", "new", "query", "view"}
BY Kinds DEF Frames, LoadFrames, DumpFrames, AddFrames, NewFrames, AskFrames, AnswerFrames,
             ViewFrames, Frame, Nth

\* One more place, which may refer to o.
LEMMA TimesAppend ==
  ASSUME NEW n \in Nat, NEW s, NEW t, DOMAIN s = 1 .. n, DOMAIN t = 1 .. n + 1,
         \A k \in 1 .. n : t[k] = s[k], NEW o
  PROVE  Times(o, s) \in Nat /\ Times(o, t) = Times(o, s) + One(t[n + 1], o)
<1> DEFINE A == {k \in DOMAIN s : s[k] = o}
           B == {k \in DOMAIN t : t[k] = o}
<1>1. IsFiniteSet(A) /\ Cardinality(A) \in Nat
  <2>1. A \subseteq 1 .. n /\ IsFiniteSet(1 .. n)
    BY FS_Interval
  <2> QED BY <2>1, FS_Subset, FS_CardinalityType
<1>2. n + 1 \notin A /\ n + 1 \in 1 .. n + 1 /\ \A k : k \in 1 .. n + 1 <=> k \in 1 .. n \/ k = n + 1
  OBVIOUS
<1>3. CASE t[n + 1] = o
  <2>1. B = A \cup {n + 1}
    BY <1>2, <1>3
  <2>2. Cardinality(B) = Cardinality(A) + 1
    BY <1>1, <1>2, <2>1, CardAdd
  <2> QED BY <1>1, <1>3, <2>2 DEF Times, One
<1>4. CASE t[n + 1] # o
  <2>1. B = A
    BY <1>2, <1>4
  <2>2. PICK c \in Nat : c = Cardinality(A)
    BY <1>1
  <2>3. Times(o, s) = c /\ Times(o, t) = c
    BY <2>1, <2>2 DEF Times
  <2>4. One(t[n + 1], o) = 0 /\ c = c + 0
    BY <1>4, <2>2 DEF One
  <2> QED BY <2>2, <2>3, <2>4
<1> QED BY <1>3, <1>4

\* The references w and those of the three places of q.
Hand(w, q) == Plus(Plus(Plus(w, Nth(q, 3)), Nth(q, 2)), Nth(q, 1))

LEMMA HandType ==
  ASSUME NEW w \in Counts, NEW q
  PROVE  /\ Hand(w, q) \in Counts
         /\ \A o \in Objects : Hand(w, q)[o] =
              w[o] + One(Nth(q, 1), o) + One(Nth(q, 2), o) + One(Nth(q, 3), o)
<1>1. PICK u : u = Plus(w, Nth(q, 3))
  OBVIOUS
<1>2. u \in Counts /\ \A o \in Objects : u[o] = w[o] + One(Nth(q, 3), o)
  BY <1>1, PlusType
<1>3. PICK v : v = Plus(u, Nth(q, 2))
  OBVIOUS
<1>4. v \in Counts /\ \A o \in Objects : v[o] = u[o] + One(Nth(q, 2), o)
  BY <1>2, <1>3, PlusType
<1>5. Plus(v, Nth(q, 1)) \in Counts /\ \A o \in Objects : Plus(v, Nth(q, 1))[o] = v[o] + One(Nth(q, 1), o)
  BY <1>4, PlusType
<1>6. \A o \in Objects : w[o] \in Nat
  BY DEF Counts
<1>7. Hand(w, q) = Plus(v, Nth(q, 1))
  BY <1>1, <1>3 DEF Hand
<1> QED BY <1>2, <1>4, <1>5, <1>6, <1>7 DEF One

LEMMA CountsEqual ==
  ASSUME NEW u \in Counts, NEW v \in Counts, \A o \in Objects : u[o] = v[o]
  PROVE  u = v
BY DEF Counts

LEMMA PlusSwap ==
  ASSUME NEW w \in Counts, NEW a, NEW b
  PROVE  Plus(Plus(w, a), b) = Plus(Plus(w, b), a)
<1>1. Plus(w, a) \in Counts /\ Plus(w, b) \in Counts
  BY PlusType
<1>2. \A o \in Objects : w[o] \in Nat
  BY DEF Counts
<1>3. \A o \in Objects : Plus(Plus(w, a), b)[o] = Plus(Plus(w, b), a)[o]
  BY <1>1, <1>2, PlusType DEF One
<1> QED BY <1>1, <1>3, PlusType, CountsEqual

LEMMA HandSwap ==
  ASSUME NEW w \in Counts, NEW a, NEW q
  PROVE  Hand(Plus(w, a), q) = Plus(Hand(w, q), a)
<1>1. Plus(w, a) \in Counts /\ Hand(w, q) \in Counts /\ Hand(Plus(w, a), q) \in Counts
      /\ Plus(Hand(w, q), a) \in Counts
  BY PlusType, HandType
<1>2. \A o \in Objects : w[o] \in Nat
  BY DEF Counts
<1>3. \A o \in Objects : Hand(Plus(w, a), q)[o] = Plus(Hand(w, q), a)[o]
  <2> SUFFICES ASSUME NEW o \in Objects PROVE Hand(Plus(w, a), q)[o] = Plus(Hand(w, q), a)[o]
    OBVIOUS
  <2>1. Hand(Plus(w, a), q)[o] =
          Plus(w, a)[o] + One(Nth(q, 1), o) + One(Nth(q, 2), o) + One(Nth(q, 3), o)
    BY <1>1, HandType
  <2>2. Plus(w, a)[o] = w[o] + One(a, o)
    BY PlusType
  <2>3. Plus(Hand(w, q), a)[o] = Hand(w, q)[o] + One(a, o)
    BY <1>1, PlusType
  <2>4. Hand(w, q)[o] = w[o] + One(Nth(q, 1), o) + One(Nth(q, 2), o) + One(Nth(q, 3), o)
    BY HandType
  <2> QED BY <1>2, <2>1, <2>2, <2>3, <2>4 DEF One
<1> QED BY <1>1, <1>3, CountsEqual

LEMMA HandsSwap ==
  ASSUME NEW w \in Counts, NEW p, NEW q
  PROVE  Hand(Hand(w, p), q) = Hand(Hand(w, q), p)
<1>1. /\ Plus(w, Nth(q, 3)) \in Counts
      /\ Plus(Plus(w, Nth(q, 3)), Nth(q, 2)) \in Counts
  BY PlusType
<1>2. Plus(Hand(w, p), Nth(q, 3)) = Hand(Plus(w, Nth(q, 3)), p)
  BY HandSwap
<1>3. Plus(Plus(Hand(w, p), Nth(q, 3)), Nth(q, 2)) = Hand(Plus(Plus(w, Nth(q, 3)), Nth(q, 2)), p)
  BY <1>1, <1>2, HandSwap
<1>4. Plus(Plus(Plus(Hand(w, p), Nth(q, 3)), Nth(q, 2)), Nth(q, 1))
        = Hand(Plus(Plus(Plus(w, Nth(q, 3)), Nth(q, 2)), Nth(q, 1)), p)
  BY <1>1, <1>3, HandSwap
<1> QED BY <1>4 DEF Hand

LEMMA HandSmall ==
  ASSUME NEW w \in Counts
  PROVE  /\ Plus(w, None) = w /\ Hand(w, <<>>) = w
         /\ \A a : Hand(w, <<a>>) = Plus(w, a)
         /\ \A a, b : Hand(w, <<a, b>>) = Plus(Plus(w, b), a)
         /\ \A a, b, c : Hand(w, <<a, b, c>>) = Plus(Plus(Plus(w, c), b), a)
<1>1. Plus(w, None) = w
  BY Kinds DEF Plus, Counts, One
<1>2. \A a : Hand(w, <<a>>) = Plus(w, a)
  <2>1. \A a : Nth(<<a>>, 1) = a /\ Nth(<<a>>, 2) = None /\ Nth(<<a>>, 3) = None
    BY DEF Nth
  <2> QED BY <1>1, <2>1 DEF Hand
<1>3. \A a, b : Hand(w, <<a, b>>) = Plus(Plus(w, b), a)
  <2>1. \A a, b : Nth(<<a, b>>, 1) = a /\ Nth(<<a, b>>, 2) = b /\ Nth(<<a, b>>, 3) = None
    BY DEF Nth
  <2> QED BY <1>1, <2>1 DEF Hand
<1>4. \A a, b, c : Hand(w, <<a, b, c>>) = Plus(Plus(Plus(w, c), b), a)
  <2> SUFFICES ASSUME NEW a, NEW b, NEW c
               PROVE  Hand(w, <<a, b, c>>) = Plus(Plus(Plus(w, c), b), a)
    OBVIOUS
  <2>1. Nth(<<a, b, c>>, 1) = a /\ Nth(<<a, b, c>>, 2) = b /\ Nth(<<a, b, c>>, 3) = c
    BY DEF Nth
  <2> QED BY <2>1 DEF Hand
<1>5. Hand(w, <<>>) = w
  <2>1. Nth(<<>>, 1) = None /\ Nth(<<>>, 2) = None /\ Nth(<<>>, 3) = None
    BY DEF Nth
  <2> QED BY <1>1, <2>1 DEF Hand
<1> QED BY <1>1, <1>2, <1>3, <1>4, <1>5

LEMMA TimesType ==
  ASSUME NEW n \in Nat, NEW s, DOMAIN s = 1 .. n, NEW o
  PROVE  /\ Times(o, s) \in Nat
         /\ \A k \in 1 .. n : s[k] = o => Times(o, s) > 0
<1> DEFINE A == {k \in DOMAIN s : s[k] = o}
<1>1. IsFiniteSet(A) /\ Cardinality(A) \in Nat
  <2>1. A \subseteq 1 .. n /\ IsFiniteSet(1 .. n)
    BY FS_Interval
  <2> QED BY <2>1, FS_Subset, FS_CardinalityType
<1>2. ASSUME NEW k \in 1 .. n, s[k] = o PROVE Cardinality(A) > 0
  <2>1. k \in A
    BY <1>2
  <2>2. Cardinality(A) # 0
    BY <1>1, <2>1, FS_EmptySet
  <2> QED BY <1>1, <2>2
<1> QED BY <1>1, <1>2 DEF Times

LEMMA LentType ==
  ASSUME NEW c \in Seq(Frames), NEW o
  PROVE  /\ Lent(c, o) \in Nat
         /\ \A k \in DOMAIN c, j \in 1 .. 3 :
              Nth(c[k].args, j) = o \/ Nth(c[k].locals, j) = o => Lent(c, o) > 0
<1> PICK n \in Nat : n = Len(c)
  OBVIOUS
<1>0. DOMAIN c = 1 .. n
  OBVIOUS
<1>1. \A j : DOMAIN Args(c, j) = 1 .. n /\ DOMAIN Locals(c, j) = 1 .. n
  BY <1>0 DEF Args, Locals
<1>2. \A j : /\ Times(o, Args(c, j)) \in Nat /\ Times(o, Locals(c, j)) \in Nat
             /\ \A k \in 1 .. n : Args(c, j)[k] = o => Times(o, Args(c, j)) > 0
             /\ \A k \in 1 .. n : Locals(c, j)[k] = o => Times(o, Locals(c, j)) > 0
  BY <1>1, TimesType
<1>3. \A j : \A k \in 1 .. n : /\ Args(c, j)[k] = Nth(c[k].args, j)
                               /\ Locals(c, j)[k] = Nth(c[k].locals, j)
  BY <1>0 DEF Args, Locals
<1>4. /\ Times(o, Args(c, 1)) \in Nat /\ Times(o, Args(c, 2)) \in Nat /\ Times(o, Args(c, 3)) \in Nat
      /\ Times(o, Locals(c, 1)) \in Nat /\ Times(o, Locals(c, 2)) \in Nat
      /\ Times(o, Locals(c, 3)) \in Nat
  BY <1>2
<1>5. Lent(c, o) \in Nat
  BY <1>4 DEF Lent
<1>6. ASSUME NEW j \in 1 .. 3, Times(o, Args(c, j)) > 0 \/ Times(o, Locals(c, j)) > 0
      PROVE  Lent(c, o) > 0
  <2>1. j = 1 \/ j = 2 \/ j = 3
    OBVIOUS
  <2> QED BY <1>4, <1>6, <2>1 DEF Lent
<1>7. ASSUME NEW k \in DOMAIN c, NEW j \in 1 .. 3, Nth(c[k].args, j) = o \/ Nth(c[k].locals, j) = o
      PROVE  Lent(c, o) > 0
  <2>1. k \in 1 .. n
    BY <1>0
  <2>2. Times(o, Args(c, j)) > 0 \/ Times(o, Locals(c, j)) > 0
    BY <1>2, <1>3, <1>7, <2>1
  <2> QED BY <1>6, <2>2
<1> QED BY <1>5, <1>7

LEMMA LentAppend ==
  ASSUME NEW b \in Seq(Frames), NEW f \in Frames, NEW o
  PROVE  Lent(Append(b, f), o) = Lent(b, o)
           + (One(Nth(f.args, 1), o) + One(Nth(f.args, 2), o) + One(Nth(f.args, 3), o))
           + (One(Nth(f.locals, 1), o) + One(Nth(f.locals, 2), o) + One(Nth(f.locals, 3), o))
<1> PICK c : c = Append(b, f)
  OBVIOUS
<1> PICK n \in Nat : n = Len(b)
  OBVIOUS
<1>1. DOMAIN b = 1 .. n /\ DOMAIN c = 1 .. n + 1 /\ c[n + 1] = f /\ \A k \in 1 .. n : c[k] = b[k]
  OBVIOUS
<1>2. n + 1 \in 1 .. n + 1 /\ \A k \in 1 .. n : k \in 1 .. n + 1
  OBVIOUS
<1>3. ASSUME NEW j
      PROVE  /\ Times(o, Args(b, j)) \in Nat /\ Times(o, Locals(b, j)) \in Nat
             /\ Times(o, Args(c, j)) = Times(o, Args(b, j)) + One(Nth(f.args, j), o)
             /\ Times(o, Locals(c, j)) = Times(o, Locals(b, j)) + One(Nth(f.locals, j), o)
  <2>1. /\ DOMAIN Args(b, j) = 1 .. n /\ DOMAIN Args(c, j) = 1 .. n + 1
        /\ Args(c, j)[n + 1] = Nth(f.args, j) /\ \A k \in 1 .. n : Args(c, j)[k] = Args(b, j)[k]
    BY <1>1, <1>2 DEF Args
  <2>2. /\ DOMAIN Locals(b, j) = 1 .. n /\ DOMAIN Locals(c, j) = 1 .. n + 1
        /\ Locals(c, j)[n + 1] = Nth(f.locals, j) /\ \A k \in 1 .. n : Locals(c, j)[k] = Locals(b, j)[k]
    BY <1>1, <1>2 DEF Locals
  <2>3. Times(o, Args(b, j)) \in Nat /\ Times(o, Args(c, j)) = Times(o, Args(b, j)) + One(Nth(f.args, j), o)
    <3>1. \A t : t = Args(c, j)[n + 1] => One(t, o) = One(Nth(f.args, j), o)
      BY <2>1
    <3> QED BY <2>1, <3>1, TimesAppend
  <2>4. /\ Times(o, Locals(b, j)) \in Nat
        /\ Times(o, Locals(c, j)) = Times(o, Locals(b, j)) + One(Nth(f.locals, j), o)
    BY <2>2, TimesAppend
  <2> QED BY <2>3, <2>4
<1>4. \A a, x : One(a, x) \in Nat
  BY DEF One
<1>5. PICK a \in Nat, d \in Nat : /\ a = Times(o, Args(b, 1)) /\ d = One(Nth(f.args, 1), o)
                                 /\ Times(o, Args(c, 1)) = a + d
  BY <1>3, <1>4
<1>6. PICK a2 \in Nat, d2 \in Nat : /\ a2 = Times(o, Args(b, 2)) /\ d2 = One(Nth(f.args, 2), o)
                                   /\ Times(o, Args(c, 2)) = a2 + d2
  BY <1>3, <1>4
<1>7. PICK a3 \in Nat, d3 \in Nat : /\ a3 = Times(o, Args(b, 3)) /\ d3 = One(Nth(f.args, 3), o)
                                   /\ Times(o, Args(c, 3)) = a3 + d3
  BY <1>3, <1>4
<1>8. PICK l \in Nat, e \in Nat : /\ l = Times(o, Locals(b, 1)) /\ e = One(Nth(f.locals, 1), o)
                                 /\ Times(o, Locals(c, 1)) = l + e
  BY <1>3, <1>4
<1>9. PICK l2 \in Nat, e2 \in Nat : /\ l2 = Times(o, Locals(b, 2)) /\ e2 = One(Nth(f.locals, 2), o)
                                   /\ Times(o, Locals(c, 2)) = l2 + e2
  BY <1>3, <1>4
<1>10. PICK l3 \in Nat, e3 \in Nat : /\ l3 = Times(o, Locals(b, 3)) /\ e3 = One(Nth(f.locals, 3), o)
                                    /\ Times(o, Locals(c, 3)) = l3 + e3
  BY <1>3, <1>4
<1>11. Lent(b, o) = a + a2 + a3 + l + l2 + l3
  BY <1>5, <1>6, <1>7, <1>8, <1>9, <1>10 DEF Lent
<1>12. Lent(c, o) = (a + d) + (a2 + d2) + (a3 + d3) + (l + e) + (l2 + e2) + (l3 + e3)
  BY <1>5, <1>6, <1>7, <1>8, <1>9, <1>10 DEF Lent
<1>13. Lent(c, o) = (a + a2 + a3 + l + l2 + l3) + (d + d2 + d3) + (e + e2 + e3)
  BY <1>12
<1> QED BY <1>5, <1>6, <1>7, <1>8, <1>9, <1>10, <1>11, <1>13

LEMMA ExtType ==
  ASSUME NEW c \in Seq(Frames), NEW p
  PROVE  /\ Ext(p, c) \in Counts
         /\ \A o \in Objects : Ext(p, c)[o] = (IF o \in p THEN 1 ELSE 0) + Lent(c, o)
BY LentType DEF Ext, Counts

\* A function under way has its arguments and its own references.
LEMMA ExtAppend ==
  ASSUME NEW b \in Seq(Frames), NEW f \in Frames, NEW p
  PROVE  Ext(p, Append(b, f)) = Hand(Hand(Ext(p, b), f.args), f.locals)
<1>0. Append(b, f) \in Seq(Frames)
  OBVIOUS
<1>1. PICK c \in Seq(Frames) : c = Append(b, f)
  BY <1>0
<1>2. Ext(p, b) \in Counts /\ Ext(p, c) \in Counts
  BY ExtType
<1>3. Hand(Ext(p, b), f.args) \in Counts /\ Hand(Hand(Ext(p, b), f.args), f.locals) \in Counts
  BY <1>2, HandType
<1>4. ASSUME NEW o \in Objects
      PROVE  Ext(p, c)[o] = Hand(Hand(Ext(p, b), f.args), f.locals)[o]
  <2>1. PICK i \in Nat : i = IF o \in p THEN 1 ELSE 0
    OBVIOUS
  <2>2. PICK m \in Nat : m = Lent(b, o)
    BY LentType
  <2>3. PICK d \in Nat : d = One(Nth(f.args, 1), o)
    BY DEF One
  <2>4. PICK d2 \in Nat : d2 = One(Nth(f.args, 2), o)
    BY DEF One
  <2>5. PICK d3 \in Nat : d3 = One(Nth(f.args, 3), o)
    BY DEF One
  <2>6. PICK l \in Nat : l = One(Nth(f.locals, 1), o)
    BY DEF One
  <2>7. PICK l2 \in Nat : l2 = One(Nth(f.locals, 2), o)
    BY DEF One
  <2>8. PICK l3 \in Nat : l3 = One(Nth(f.locals, 3), o)
    BY DEF One
  <2>9. Ext(p, b)[o] = i + m
    BY <2>1, <2>2, ExtType
  <2>10. PICK n : n = Lent(c, o)
    OBVIOUS
  <2>11. Ext(p, c)[o] = i + n
    BY <2>1, <2>10, ExtType
  <2>12. n = m + (d + d2 + d3) + (l + l2 + l3)
    BY <1>1, <2>2, <2>3, <2>4, <2>5, <2>6, <2>7, <2>8, <2>10, LentAppend
  <2>13. PICK u : u = Hand(Ext(p, b), f.args)[o]
    OBVIOUS
  <2>14. u = Ext(p, b)[o] + d + d2 + d3
    BY <1>2, <2>3, <2>4, <2>5, <2>13, HandType
  <2>15. Hand(Hand(Ext(p, b), f.args), f.locals)[o] = u + l + l2 + l3
    BY <1>3, <2>6, <2>7, <2>8, <2>13, HandType
  <2>16. i + n = u + l + l2 + l3
    BY <2>9, <2>12, <2>14
  <2> QED BY <2>11, <2>15, <2>16
<1> QED BY <1>1, <1>2, <1>3, <1>4, CountsEqual

\* The program gets a reference, or drops one.
LEMMA ExtProgram ==
  ASSUME NEW c \in Seq(Frames), NEW p, NEW o \in Objects
  PROVE  /\ o \notin p => Ext(p \cup {o}, c) = Plus(Ext(p, c), o)
         /\ o \in p => Ext(p, c) = Plus(Ext(p \ {o}, c), o)
<1>1. \A x \in Objects : Lent(c, x) \in Nat
  BY LentType
<1>2. ASSUME o \notin p PROVE Ext(p \cup {o}, c) = Plus(Ext(p, c), o)
  <2>1. \A x \in Objects : Ext(p \cup {o}, c)[x] = Plus(Ext(p, c), o)[x]
    BY <1>1, <1>2 DEF Ext, Plus, One
  <2> QED BY <2>1, ExtType, PlusType, CountsEqual
<1>3. ASSUME o \in p PROVE Ext(p, c) = Plus(Ext(p \ {o}, c), o)
  <2>1. \A x \in Objects : Ext(p, c)[x] = Plus(Ext(p \ {o}, c), o)[x]
    BY <1>1, <1>3 DEF Ext, Plus, One
  <2> QED BY <2>1, ExtType, PlusType, CountsEqual
<1> QED BY <1>2, <1>3

LEMMA ViewsAppend ==
  ASSUME NEW b \in Seq(Frames), NEW f \in Frames
  PROVE  /\ ViewsMade(b) \in Nat /\ ViewsMade(Append(b, f)) = ViewsMade(b) + One(f.op, "view")
<1> DEFINE Ops(c) == [k \in DOMAIN c |-> c[k].op]
<1> PICK c : c = Append(b, f)
  OBVIOUS
<1> PICK n \in Nat : n = Len(b)
  OBVIOUS
<1>1. DOMAIN b = 1 .. n /\ DOMAIN c = 1 .. n + 1 /\ c[n + 1] = f /\ \A k \in 1 .. n : c[k] = b[k]
  OBVIOUS
<1>2. n + 1 \in 1 .. n + 1 /\ \A k \in 1 .. n : k \in 1 .. n + 1
  OBVIOUS
<1>3. PICK s : s = Ops(b)
  OBVIOUS
<1>4. PICK t : t = Ops(c)
  OBVIOUS
<1>5. DOMAIN s = 1 .. n /\ DOMAIN t = 1 .. n + 1 /\ t[n + 1] = f.op /\ \A k \in 1 .. n : t[k] = s[k]
  BY <1>1, <1>2, <1>3, <1>4
<1>6. Times("view", s) \in Nat /\ Times("view", t) = Times("view", s) + One(f.op, "view")
  <2>1. One(t[n + 1], "view") = One(f.op, "view")
    BY <1>5
  <2>2. PICK v : v = "view"
    OBVIOUS
  <2>3. Times(v, s) \in Nat /\ Times(v, t) = Times(v, s) + One(t[n + 1], v)
    BY <1>5, TimesAppend
  <2> QED BY <2>1, <2>2, <2>3
<1>7. ViewsMade(b) = Times("view", s)
  <2>1. {k \in DOMAIN b : b[k].op = "view"} = {k \in DOMAIN s : s[k] = "view"}
    BY <1>1, <1>3
  <2> QED BY <2>1 DEF ViewsMade, Times
<1>8. ViewsMade(c) = Times("view", t)
  <2>1. {k \in DOMAIN c : c[k].op = "view"} = {k \in DOMAIN t : t[k] = "view"}
    BY <1>1, <1>4
  <2> QED BY <2>1 DEF ViewsMade, Times
<1> QED BY <1>6, <1>7, <1>8

LEMMA ResolvedAppend ==
  ASSUME NEW b \in Seq(Frames), NEW f \in Frames
  PROVE  Resolved(Append(b, f)) = Resolved(b) \cup ({Nth(f.locals, 3)} \cap Queries)
<1> PICK c : c = Append(b, f)
  OBVIOUS
<1> PICK n \in Nat : n = Len(b)
  OBVIOUS
<1>1. DOMAIN b = 1 .. n /\ DOMAIN c = 1 .. n + 1 /\ c[n + 1] = f /\ \A k \in 1 .. n : c[k] = b[k]
  OBVIOUS
<1>2. n + 1 \in 1 .. n + 1 /\ \A k : k \in 1 .. n + 1 <=> k \in 1 .. n \/ k = n + 1
  OBVIOUS
<1> QED BY <1>1, <1>2 DEF Resolved
-----------------------------------------------------------------------------
(***************************************************************************)
(* Lending and releasing                                                   *)
(***************************************************************************)
LEMMA DecrefPlus ==
  ASSUME NEW h, NEW w \in Counts, NEW n, NEW L, NEW e, NEW o \in Objects \cup {None},
         Heap(h, Plus(w, o), n, L, e)
  PROVE  Heap(Decref(h, o), w, n, L, e) /\ Keeps(h, Decref(h, o), {})
<1>1. h \in HeapType
  BY DEF Heap, Formed
<1>2. CASE o = None
  BY <1>1, <1>2, HandSmall, NoneReleased, KeepsSelf
<1>3. CASE o \in Objects
  <2>1. \A x \in Objects : Plus(w, o)[x] = w[x] + One(o, x) /\ w[x] \in Nat
    BY PlusType DEF Counts
  <2>2. Plus(w, o)[o] > 0
    BY <1>3, <2>1 DEF One
  <2>3. Minus(Plus(w, o), o) = w
    <3>1. \A x \in Objects : Plus(w, o)[x] - One(o, x) = w[x]
      BY <2>1 DEF One
    <3> QED BY <3>1 DEF Minus, Counts
  <2> QED BY <1>3, <2>2, <2>3, DecrefHeap
<1> QED BY <1>2, <1>3

LEMMA ReleaseHeap ==
  ASSUME NEW h, NEW w \in Counts, NEW n, NEW L, NEW e, NEW q,
         \A j \in 1 .. 3 : Nth(q, j) \in Objects \cup {None},
         Heap(h, Hand(w, q), n, L, e)
  PROVE  Heap(Release(h, q), w, n, L, e) /\ Keeps(h, Release(h, q), {})
<1> PICK a \in Objects \cup {None} : a = Nth(q, 1)
  OBVIOUS
<1> PICK b \in Objects \cup {None} : b = Nth(q, 2)
  OBVIOUS
<1> PICK c \in Objects \cup {None} : c = Nth(q, 3)
  OBVIOUS
<1>1. Plus(w, c) \in Counts /\ Plus(Plus(w, c), b) \in Counts
  BY PlusType
<1>2. PICK g : g = Decref(h, a)
  OBVIOUS
<1>3. Heap(g, Plus(Plus(w, c), b), n, L, e) /\ Keeps(h, g, {})
  BY <1>1, <1>2, DecrefPlus DEF Hand
<1>4. PICK k : k = Decref(g, b)
  OBVIOUS
<1>5. Heap(k, Plus(w, c), n, L, e) /\ Keeps(h, k, {})
  BY <1>1, <1>3, <1>4, DecrefPlus, KeepsChain
<1>6. Heap(Decref(k, c), w, n, L, e) /\ Keeps(h, Decref(k, c), {})
  BY <1>5, DecrefPlus, KeepsChain
<1> QED BY <1>2, <1>4, <1>6 DEF Release

LEMMA IncrefPlus ==
  ASSUME NEW h, NEW w, NEW n, NEW L, NEW e, NEW o \in Objects \cup {None},
         Heap(h, w, n, L, e), o # None => h.refs[o] > 0
  PROVE  /\ Heap(Incref(h, o), Plus(w, o), n, L, e) /\ Keeps(h, Incref(h, o), {})
         /\ \A x \in Objects : h.refs[x] > 0 => Incref(h, o).refs[x] > 0
<1>1. h \in HeapType /\ w \in Counts
  BY DEF Heap, Formed
<1>2. CASE o = None
  BY <1>1, <1>2, HandSmall, NoneReleased, KeepsSelf
<1>3. CASE o \in Objects
  <2>1. \A x \in Objects : h.refs[x] > 0 => Incref(h, o).refs[x] > 0
    <3> PICK g : g = Incref(h, o)
      OBVIOUS
    <3>1. g.refs = [h.refs EXCEPT ![o] = @ + 1]
      BY <1>1, <1>3, IncrefFields
    <3>2. \A x \in Objects : h.refs[x] > 0 => g.refs[x] > 0
      BY <1>1, <3>1 DEF HeapType
    <3> QED BY <3>2
  <2> QED BY <1>1, <1>3, <2>1, Kinds, IncrefHeap, IncrefKeeps
<1> QED BY <1>2, <1>3

LEMMA LendHeap ==
  ASSUME NEW h, NEW w, NEW n, NEW L, NEW e, NEW q,
         \A j \in 1 .. 3 : /\ Nth(q, j) \in Objects \cup {None}
                           /\ Nth(q, j) # None => h.refs[Nth(q, j)] > 0,
         Heap(h, w, n, L, e)
  PROVE  Heap(Lend(h, q), Hand(w, q), n, L, e) /\ Keeps(h, Lend(h, q), {})
<1>0. w \in Counts
  BY DEF Heap
<1> PICK a \in Objects \cup {None} : a = Nth(q, 1)
  OBVIOUS
<1> PICK b \in Objects \cup {None} : b = Nth(q, 2)
  OBVIOUS
<1> PICK c \in Objects \cup {None} : c = Nth(q, 3)
  OBVIOUS
<1>1. /\ a # None => h.refs[a] > 0
      /\ b # None => h.refs[b] > 0
      /\ c # None => h.refs[c] > 0
  OBVIOUS
<1>2. PICK g : g = Incref(h, a)
  OBVIOUS
<1>3. /\ Heap(g, Plus(w, a), n, L, e) /\ Keeps(h, g, {})
      /\ b # None => g.refs[b] > 0
      /\ c # None => g.refs[c] > 0
  BY <1>1, <1>2, IncrefPlus
<1>4. PICK k : k = Incref(g, b)
  OBVIOUS
<1>5. /\ Heap(k, Plus(Plus(w, a), b), n, L, e) /\ Keeps(h, k, {})
      /\ c # None => k.refs[c] > 0
  BY <1>3, <1>4, IncrefPlus, KeepsChain
<1>6. Heap(Incref(k, c), Plus(Plus(Plus(w, a), b), c), n, L, e) /\ Keeps(h, Incref(k, c), {})
  <2> PICK u : u = Plus(Plus(w, a), b)
    OBVIOUS
  <2>1. Heap(Incref(k, c), Plus(u, c), n, L, e) /\ Keeps(k, Incref(k, c), {})
    BY <1>5, IncrefPlus
  <2>2. Keeps(h, Incref(k, c), {})
    BY <1>5, <2>1, KeepsChain
  <2> QED BY <2>1, <2>2
<1>7. Plus(Plus(Plus(w, a), b), c) = Plus(Plus(Plus(w, c), b), a)
  <2>1. /\ Plus(w, a) \in Counts /\ Plus(w, b) \in Counts /\ Plus(w, c) \in Counts
    BY <1>0, PlusType
  <2>2. Plus(Plus(Plus(w, a), b), c) = Plus(Plus(Plus(w, a), c), b)
    BY <2>1, PlusSwap
  <2>3. Plus(Plus(w, a), c) = Plus(Plus(w, c), a)
    BY <1>0, PlusSwap
  <2>4. Plus(Plus(Plus(w, c), a), b) = Plus(Plus(Plus(w, c), b), a)
    BY <2>1, PlusSwap
  <2> QED BY <2>2, <2>3, <2>4
<1> QED BY <1>2, <1>4, <1>6, <1>7 DEF Lend, Hand
-----------------------------------------------------------------------------
(***************************************************************************)
(* From one state to the next                                              *)
(***************************************************************************)
LEMMA CountedLive ==
  ASSUME NEW h, NEW w, NEW n, NEW L, NEW e, Heap(h, w, n, L, e), NEW o \in Objects, w[o] > 0
  PROVE  o \in h.born /\ (o \notin L => h.refs[o] > 0)
<1>1. o \in h.born
  BY DEF Heap, Unborn
<1>2. ASSUME o \notin L PROVE h.refs[o] > 0
  <2>1. h.refs[o] >= w[o] + Cardinality(Holders(h, o)) /\ Cardinality(Holders(h, o)) \in Nat
    BY <1>2, HoldersFinite DEF Heap, Counted
  <2>2. w[o] \in Nat /\ h.refs[o] \in Nat
    BY DEF Heap, Formed, HeapType, Counts
  <2> QED BY <2>1, <2>2
<1> QED BY <1>1, <1>2

LEMMA HeldLive ==
  ASSUME NEW h, NEW w, NEW n, NEW L, NEW e, Heap(h, w, n, L, e),
         NEW x \in Objects, h.refs[x] > 0, h.holds[x] # None
  PROVE  h.holds[x] \in Objects /\ h.refs[h.holds[x]] > 0
<1> PICK o : o = h.holds[x]
  OBVIOUS
<1>1. o \in Dbs \/ o \in Strings
  BY DEF Heap, Formed
<1>2. o \in Objects /\ o \notin L
  BY <1>1, Kinds DEF Heap
<1>3. h.refs[o] >= w[o] + Cardinality(Holders(h, o))
  BY <1>2 DEF Heap, Counted
<1>4. IsFiniteSet(Holders(h, o)) /\ Cardinality(Holders(h, o)) \in Nat
  BY HoldersFinite DEF Heap
<1>5. x \in Holders(h, o)
  BY DEF Holders
<1>6. Cardinality(Holders(h, o)) # 0
  BY <1>4, <1>5, FS_EmptySet
<1>7. w[o] \in Nat /\ h.refs[o] \in Nat
  BY <1>2 DEF Heap, Formed, HeapType, Counts
<1>8. h.refs[o] > 0
  BY <1>3, <1>4, <1>6, <1>7
<1> QED BY <1>2, <1>8

\* What a function works on lives.
LEMMA OnsLive ==
  ASSUME NEW h, NEW p, NEW c \in Seq(Frames), NEW n, NEW L, NEW e,
         Heap(h, Ext(p, c), n, L, e), NEW k \in DOMAIN c
  PROVE  c[k].on \in Objects /\ h.refs[c[k].on] > 0 /\ c[k].on \in h.born
<1> PICK f \in Frames : f = c[k]
  OBVIOUS
<1> PICK o : o = f.on
  OBVIOUS
<1>1. o \in Dbs \cup Builders \cup Views /\ (o = Nth(f.args, 1) \/ o = Nth(f.locals, 1))
  BY FrameShape
<1>2. o \in Objects /\ o \notin L
  BY <1>1, Kinds DEF Heap
<1>3. Lent(c, o) \in Nat /\ Lent(c, o) > 0
  <2>1. 1 \in 1 .. 3
    OBVIOUS
  <2> QED BY <1>1, <2>1, LentType
<1>4. Ext(p, c)[o] = (IF o \in p THEN 1 ELSE 0) + Lent(c, o)
  BY <1>2, ExtType
<1>5. Ext(p, c)[o] > 0
  BY <1>3, <1>4
<1> QED BY <1>2, <1>5, CountedLive

Worked(f) == f.op = "query" \/ Unfinished(f)

LEMMA FramesCarried ==
  ASSUME NEW h, NEW p, NEW b, FramesSound(h, p, b), NEW g, NEW F, Keeps(h, g, F),
         NEW q, q \subseteq p \cup F, F \cap Resolved(b) = {},
         \A k \in DOMAIN b : b[k].on \in Objects /\ g.refs[b[k].on] > 0,
         \A k \in DOMAIN b : Worked(b[k]) => b[k].on \notin F
  PROVE  FramesSound(g, q, b)
<1>1. \A k \in DOMAIN b : Worked(b[k]) => (b[k].on \in g.native <=> b[k].on \in h.native)
  BY DEF Keeps
<1>2. \A k \in DOMAIN b : b[k].op = "query" => b[k].on \in g.native
  BY <1>1 DEF FramesSound, Worked
<1>3. \A k \in DOMAIN b : Unfinished(b[k]) => b[k].on \notin g.native /\ b[k].on \notin q
  BY <1>1 DEF FramesSound, Worked
<1>4. Resolved(b) \cap q = {}
  BY DEF FramesSound
<1> QED BY <1>2, <1>3, <1>4 DEF FramesSound

LEMMA FramePushed ==
  ASSUME NEW g, NEW p, NEW b, FramesSound(g, p, b), NEW f \in Frames,
         f.op = "query" => f.on \in g.native,
         Unfinished(f) => /\ f.on \notin g.native /\ f.on \notin p
                          /\ \A k \in DOMAIN b : Worked(b[k]) => b[k].on # f.on,
         Nth(f.locals, 3) \notin p
  PROVE  FramesSound(g, p, Append(b, f))
<1>0. b \in Seq(Frames)
  BY DEF FramesSound
<1>1. Append(b, f) \in Seq(Frames)
  BY <1>0
<1> PICK c : c = Append(b, f)
  OBVIOUS
<1> PICK n \in Nat : n = Len(b)
  BY <1>0
<1>2. DOMAIN b = 1 .. n /\ DOMAIN c = 1 .. n + 1 /\ c[n + 1] = f /\ \A k \in 1 .. n : c[k] = b[k]
  BY <1>0
<1>3. n + 1 \in 1 .. n + 1 /\ \A k : k \in 1 .. n + 1 <=> k \in 1 .. n \/ k = n + 1
  OBVIOUS
<1>4. \A k \in DOMAIN c : \/ k \in DOMAIN b /\ c[k] = b[k]
                          \/ k = n + 1 /\ c[k] = f
  BY <1>2, <1>3
<1>5. \A k \in DOMAIN c : c[k].op = "query" => c[k].on \in g.native
  BY <1>4 DEF FramesSound
<1>6. \A k \in DOMAIN c : Unfinished(c[k]) => c[k].on \notin g.native /\ c[k].on \notin p
  BY <1>4 DEF FramesSound
<1>7. \A k, m \in DOMAIN c : Unfinished(c[k]) /\ Unfinished(c[m]) /\ k # m => c[k].on # c[m].on
  BY <1>4 DEF FramesSound, Worked
<1>8. Resolved(c) \cap p = {}
  BY <1>0, ResolvedAppend DEF FramesSound
<1> QED BY <1>1, <1>5, <1>6, <1>7, <1>8 DEF FramesSound

LEMMA FramePopped ==
  ASSUME NEW h, NEW p, NEW b \in Seq(Frames), NEW f \in Frames, FramesSound(h, p, Append(b, f))
  PROVE  /\ FramesSound(h, p, b)
         /\ f.op = "query" => f.on \in h.native
         /\ Unfinished(f) => /\ f.on \notin h.native /\ f.on \notin p
                             /\ \A k \in DOMAIN b : Worked(b[k]) => b[k].on # f.on
<1> PICK c : c = Append(b, f)
  OBVIOUS
<1> PICK n \in Nat : n = Len(b)
  OBVIOUS
<1>2. DOMAIN b = 1 .. n /\ DOMAIN c = 1 .. n + 1 /\ c[n + 1] = f /\ \A k \in 1 .. n : c[k] = b[k]
  OBVIOUS
<1>3. n + 1 \in 1 .. n + 1 /\ \A k \in 1 .. n : k \in 1 .. n + 1 /\ k # n + 1
  OBVIOUS
<1>4. /\ \A k \in DOMAIN b : b[k].op = "query" => b[k].on \in h.native
      /\ \A k \in DOMAIN b : Unfinished(b[k]) => b[k].on \notin h.native /\ b[k].on \notin p
      /\ \A k, m \in DOMAIN b : Unfinished(b[k]) /\ Unfinished(b[m]) /\ k # m => b[k].on # b[m].on
  BY <1>2, <1>3 DEF FramesSound
<1>5. Resolved(b) \cap p = {}
  BY ResolvedAppend DEF FramesSound
<1>6. f.op = "query" => f.on \in h.native
  BY <1>2, <1>3 DEF FramesSound
<1>7. ASSUME Unfinished(f)
      PROVE  /\ f.on \notin h.native /\ f.on \notin p
             /\ \A k \in DOMAIN b : Worked(b[k]) => b[k].on # f.on
  <2>1. f.on \notin h.native /\ f.on \notin p
    BY <1>2, <1>3, <1>7 DEF FramesSound
  <2>2. \A k \in DOMAIN b : Unfinished(b[k]) => b[k].on # f.on
    BY <1>2, <1>3, <1>7 DEF FramesSound
  <2> QED BY <1>4, <2>1, <2>2 DEF Worked
<1> QED BY <1>4, <1>5, <1>6, <1>7 DEF FramesSound

LEMMA CursorsCarried ==
  ASSUME NEW h, NEW g, NEW F, NEW w, NEW n, NEW L, NEW e, CursorsOpen(h), Keeps(h, g, F),
         h \in HeapType, Heap(g, w, n, L, e), F \cap h.native = {},
         \A i \in F \cap Iters : g.refs[i] > 0 => g.holds[i] \in g.native
  PROVE  CursorsOpen(g)
<1> SUFFICES ASSUME NEW i \in Iters, g.refs[i] > 0, i \notin F PROVE g.holds[i] \in g.native
  BY DEF CursorsOpen
<1>1. i \in Objects /\ h.refs[i] > 0 /\ g.holds[i] = h.holds[i]
  BY Kinds DEF Keeps
<1>2. h.holds[i] \in h.native
  BY <1>1 DEF CursorsOpen
<1>3. g.holds[i] \in Objects /\ g.holds[i] # None /\ g.holds[i] \notin F
  BY <1>1, <1>2, Kinds DEF HeapType
<1>4. g.refs[g.holds[i]] > 0
  BY <1>1, <1>3, HeldLive
<1> QED BY <1>1, <1>2, <1>3, <1>4 DEF Keeps

\* What is new is nowhere.
LEMMA Unknown ==
  ASSUME NEW m, NEW p, NEW c, NEW r, NEW l, Sound(m, p, c, r, l), NEW o \in Objects, o \notin m.born
  PROVE  /\ o \notin p /\ o \notin m.native /\ o \notin m.buffers
         /\ m.refs[o] = 0 /\ m.holds[o] = None /\ o \notin Resolved(c)
         /\ \A k \in DOMAIN c : c[k].on # o
<1>1. c \in Seq(Frames) /\ Heap(m, Ext(p, c), ViewsMade(c), Loose(c, l), l = {})
  BY DEF Sound, FramesSound
<1>2. m.refs[o] = 0 /\ m.holds[o] = None /\ Ext(p, c)[o] = 0
  BY <1>1 DEF Heap, Unborn
<1>3. o \notin m.native /\ o \notin m.buffers
  BY <1>1 DEF Heap, Formed
<1>4. Ext(p, c)[o] = (IF o \in p THEN 1 ELSE 0) + Lent(c, o) /\ Lent(c, o) \in Nat
  BY <1>1, ExtType, LentType
<1>5. o \notin p /\ Lent(c, o) = 0
  BY <1>2, <1>4
<1>6. o \notin Resolved(c)
  <2> SUFFICES ASSUME NEW k \in DOMAIN c, Nth(c[k].locals, 3) = o PROVE FALSE
    BY DEF Resolved
  <2>1. 3 \in 1 .. 3
    OBVIOUS
  <2>2. Lent(c, o) > 0
    BY <1>1, <2>1, LentType
  <2> QED BY <1>5, <2>2
<1>7. \A k \in DOMAIN c : c[k].on # o
  BY <1>1, OnsLive
<1> QED BY <1>2, <1>3, <1>5, <1>6, <1>7

\* A step after which the functions of b are under way; what is new, or done, is in F.
LEMMA Settled ==
  ASSUME NEW m, NEW p, NEW c, NEW r, NEW l, Sound(m, p, c, r, l),
         NEW b, FramesSound(m, p, b), Len(b) <= MaxDepth,
         NEW g, NEW F, Keeps(m, g, F), F \cap m.native = {}, F \cap Resolved(b) = {},
         \A k \in DOMAIN b : Worked(b[k]) => b[k].on \notin F,
         NEW q, q \subseteq p \cup F, q \subseteq Objects,
         NEW k, Heap(g, Ext(q, b), ViewsMade(b), Loose(b, k), k = {}),
         \A i \in F \cap Iters : g.refs[i] > 0 => g.holds[i] \in g.native,
         NEW s \in [Iters -> Views \cup {None}]
  PROVE  Sound(g, q, b, s, k)
<1>1. m \in HeapType /\ CursorsOpen(m)
  BY DEF Sound, Heap, Formed
<1>2. CursorsOpen(g)
  BY <1>1, CursorsCarried
<1>3. b \in Seq(Frames)
  BY DEF FramesSound
<1>4. \A j \in DOMAIN b : b[j].on \in Objects /\ g.refs[b[j].on] > 0
  BY <1>3, OnsLive
<1>5. FramesSound(g, q, b)
  BY <1>4, FramesCarried
<1> QED BY <1>2, <1>5 DEF Sound

\* A step after which f is under way as well.
LEMMA SettledIn ==
  ASSUME NEW m, NEW p, NEW c, NEW r, NEW l, Sound(m, p, c, r, l),
         NEW b, FramesSound(m, p, b), Len(b) < MaxDepth,
         NEW g, NEW F, Keeps(m, g, F), F \cap m.native = {}, F \cap Resolved(b) = {},
         \A k \in DOMAIN b : Worked(b[k]) => b[k].on \notin F,
         NEW f \in Frames, f.op = "query" => f.on \in m.native /\ f.on \notin F,
         Unfinished(f) => f.on \in F /\ f.on \notin g.native /\ f.on \notin p,
         Nth(f.locals, 3) \notin p,
         NEW k, Heap(g, Ext(p, Append(b, f)), ViewsMade(Append(b, f)), Loose(Append(b, f), k), k = {}),
         \A i \in F \cap Iters : g.refs[i] > 0 => g.holds[i] \in g.native
  PROVE  Sound(g, p, Append(b, f), r, k)
<1>1. m \in HeapType /\ CursorsOpen(m)
  BY DEF Sound, Heap, Formed
<1>2. CursorsOpen(g)
  BY <1>1, CursorsCarried
<1>3. b \in Seq(Frames) /\ Append(b, f) \in Seq(Frames)
  BY DEF FramesSound
<1> PICK d \in Seq(Frames) : d = Append(b, f)
  BY <1>3
<1> PICK n \in Nat : n = Len(b)
  BY <1>3
<1>4. DOMAIN b = 1 .. n /\ DOMAIN d = 1 .. n + 1 /\ d[n + 1] = f /\ \A j \in 1 .. n : d[j] = b[j]
  BY <1>3
<1>5. n + 1 \in 1 .. n + 1 /\ \A j \in 1 .. n : j \in 1 .. n + 1
  OBVIOUS
<1>6. \A j \in DOMAIN d : d[j].on \in Objects /\ g.refs[d[j].on] > 0
  BY OnsLive
<1>7. \A j \in DOMAIN b : b[j].on \in Objects /\ g.refs[b[j].on] > 0
  BY <1>4, <1>5, <1>6
<1>8. FramesSound(g, p, b)
  BY <1>7, FramesCarried
<1>9. f.on \in Objects /\ g.refs[f.on] > 0
  BY <1>4, <1>5, <1>6
<1>10. f.op = "query" => f.on \in g.native
  BY <1>9 DEF Keeps
<1>11. FramesSound(g, p, d)
  BY <1>8, <1>10, FramePushed
<1>12. Len(d) <= MaxDepth
  BY <1>3, PyObjectsAssumption
<1> QED BY <1>2, <1>11, <1>12 DEF Sound

LEMMA LooseLess ==
  ASSUME NEW b \in Seq(Frames), NEW f \in Frames, NEW l, NEW k, l \subseteq k
  PROVE  /\ Loose(Append(b, f), l) \subseteq Loose(b, k) /\ Loose(b, l) \subseteq Loose(b, k)
         /\ Loose(b, k) \subseteq Queries /\ (k = {} => Loose(b, k) = {} /\ l = {})
BY ResolvedAppend DEF Loose

\* The heap of a state, when errors k have been made: with c or what is below its last function.
LEMMA Weakened ==
  ASSUME NEW m, NEW p, NEW c, NEW r, NEW l, Sound(m, p, c, r, l), NEW k, l \subseteq k
  PROVE  /\ Heap(m, Ext(p, c), ViewsMade(c), Loose(c, k), k = {}) /\ c \in Seq(Frames)
         /\ \A b \in Seq(Frames), f \in Frames : c = Append(b, f) =>
              Heap(m, Ext(p, c), ViewsMade(c), Loose(b, k), k = {})
<1>1. c \in Seq(Frames) /\ Heap(m, Ext(p, c), ViewsMade(c), Loose(c, l), l = {})
  BY DEF Sound, FramesSound
<1>2. Loose(c, l) \subseteq Loose(c, k) /\ Loose(c, k) \subseteq Queries
      /\ ((k = {}) => (l = {}) /\ Loose(c, k) = {})
  BY DEF Loose
<1>3. Heap(m, Ext(p, c), ViewsMade(c), Loose(c, k), k = {})
  BY <1>1, <1>2, HeapWeaken
<1>4. ASSUME NEW b \in Seq(Frames), NEW f \in Frames, c = Append(b, f)
      PROVE  Heap(m, Ext(p, c), ViewsMade(c), Loose(b, k), k = {})
  <2>1. Loose(c, l) \subseteq Loose(b, k) /\ Loose(b, k) \subseteq Queries
        /\ ((k = {}) => (l = {}) /\ Loose(b, k) = {})
    BY <1>4, LooseLess
  <2> QED BY <1>1, <2>1, HeapWeaken
<1> QED BY <1>1, <1>3, <1>4

LEMMA TopFrame ==
  ASSUME IInv, calls # <<>>
  PROVE  \E b \in Seq(Frames), f \in Frames :
           /\ calls = Append(b, f) /\ Front(calls) = b /\ Last(calls) = f
           /\ Len(b) < MaxDepth /\ Len(b) \in Nat /\ Len(calls) = Len(b) + 1
<1> PICK c \in Seq(Frames) : c = calls
  BY DEF IInv, Sound, FramesSound
<1> PICK n \in Nat : n + 1 = Len(c)
  <2>1. Len(c) \in Nat /\ Len(c) # 0
    BY DEF IInv, Sound
  <2> QED BY <2>1
<1> DEFINE b == SubSeq(c, 1, n)
<1>1. b \in Seq(Frames) /\ Len(b) = n /\ \A k \in 1 .. n : b[k] = c[k]
  OBVIOUS
<1>2. c[n + 1] \in Frames
  OBVIOUS
<1>3. Front(c) = b /\ Last(c) = c[n + 1]
  BY DEF Front, Last
<1>4. c = Append(b, c[n + 1])
  <2> PICK d : d = Append(b, c[n + 1])
    OBVIOUS
  <2>1. d \in Seq(Frames) /\ Len(d) = n + 1 /\ d[n + 1] = c[n + 1] /\ \A k \in 1 .. n : d[k] = c[k]
    BY <1>1, <1>2
  <2>2. \A k \in 1 .. n + 1 : d[k] = c[k]
    <3>1. \A k \in 1 .. n + 1 : k \in 1 .. n \/ k = n + 1
      OBVIOUS
    <3> QED BY <2>1, <3>1
  <2> QED BY <2>1, <2>2
<1>5. n < MaxDepth
  BY PyObjectsAssumption DEF IInv, Sound
<1> QED BY <1>1, <1>2, <1>3, <1>4, <1>5

\* The function f ends with the heap h.
LEMMA Left ==
  ASSUME NEW m, NEW p, NEW c, NEW r, NEW l, Sound(m, p, c, r, l),
         NEW b \in Seq(Frames), NEW f \in Frames, c = Append(b, f),
         NEW h, NEW F, Keeps(m, h, F), F \cap m.native = {}, F \cap Queries = {},
         \A k \in DOMAIN b : Worked(b[k]) => b[k].on \notin F,
         NEW q, q \subseteq p \cup F, q \subseteq Objects,
         NEW k, Heap(h, Hand(Ext(q, b), f.args), ViewsMade(b), Loose(b, k), k = {}),
         \A i \in F \cap Iters : h.refs[i] > 0 => h.holds[i] \in h.native,
         NEW s \in [Iters -> Views \cup {None}]
  PROVE  Sound(Release(h, f.args), q, b, s, k)
<1> PICK g : g = Release(h, f.args)
  OBVIOUS
<1>1. Ext(q, b) \in Counts /\ \A j \in 1 .. 3 : Nth(f.args, j) \in Objects \cup {None}
  BY ExtType, FrameShape
<1>2. Heap(g, Ext(q, b), ViewsMade(b), Loose(b, k), k = {}) /\ Keeps(h, g, {})
  BY <1>1, ReleaseHeap
<1>3. Keeps(m, g, F)
  BY <1>2, KeepsMore, KeepsChain
<1>4. CursorsOpen(h)
  <2>1. m \in HeapType /\ CursorsOpen(m)
    BY DEF Sound, Heap, Formed
  <2> QED BY <2>1, CursorsCarried
<1>5. CursorsOpen(g)
  <2>1. h \in HeapType
    BY DEF Heap, Formed
  <2> QED BY <1>2, <1>4, <2>1, CursorsCarried
<1>6. \A i \in F \cap Iters : g.refs[i] > 0 => g.holds[i] \in g.native
  BY <1>5 DEF CursorsOpen
<1>7. FramesSound(m, p, b) /\ Len(b) <= MaxDepth
  <2>1. FramesSound(m, p, c) /\ Len(c) <= MaxDepth
    BY DEF Sound
  <2>2. Len(c) = Len(b) + 1 /\ Len(b) \in Nat
    OBVIOUS
  <2> QED BY <2>1, <2>2, FramePopped, PyObjectsAssumption
<1>8. F \cap Resolved(b) = {}
  BY DEF Resolved
<1> QED BY <1>2, <1>3, <1>6, <1>7, <1>8, Settled
-----------------------------------------------------------------------------
(***************************************************************************)
(* Objects that are made                                                   *)
(***************************************************************************)
LEMMA Allocated ==
  ASSUME NEW h, NEW w, NEW n, NEW L, NEW e, Heap(h, w, n, L, e), NEW o \in Objects, o \notin h.born
  PROVE  /\ Heap(Alloc(h, o), Plus(w, o), n, L, e) /\ Keeps(h, Alloc(h, o), {o})
         /\ Alloc(h, o).refs[o] = 1 /\ Alloc(h, o).holds[o] = None
         /\ o \notin Alloc(h, o).native /\ o \notin Alloc(h, o).buffers
         /\ \A x \in Objects \ {o} : Alloc(h, o).refs[x] = h.refs[x]
<1> PICK g : g = Alloc(h, o)
  OBVIOUS
<1>0. h \in HeapType /\ L \subseteq Queries /\ (e => L = {})
  BY DEF Heap, Formed
<1>1. Heap(g, Plus(w, o), n, L \ {o}, e)
  BY AllocHeap
<1>2. Heap(g, Plus(w, o), n, L, e)
  BY <1>0, <1>1, HeapWeaken
<1>3. Keeps(h, g, {o})
  BY <1>0, AllocKeeps
<1>4. g.refs = [h.refs EXCEPT ![o] = 1] /\ g.holds = h.holds /\ g.native = h.native /\ g.buffers = h.buffers
  BY <1>0, AllocFields
<1>5. g.refs[o] = 1 /\ \A x \in Objects \ {o} : g.refs[x] = h.refs[x]
  BY <1>0, <1>4 DEF HeapType
<1>6. g.holds[o] = None /\ o \notin g.native /\ o \notin g.buffers
  BY <1>4 DEF Heap, Unborn, Formed
<1> QED BY <1>2, <1>3, <1>5, <1>6

LEMMA NativeMade ==
  ASSUME NEW h, NEW w, NEW n, NEW L, NEW e, Heap(h, w, n, L, e), NEW o \in Objects, o \notin h.born
  PROVE  /\ Heap(Native(Alloc(h, o), o), Plus(w, o), n, L, e)
         /\ Keeps(h, Native(Alloc(h, o), o), {o})
<1> PICK g : g = Alloc(h, o)
  OBVIOUS
<1>1. /\ Heap(g, Plus(w, o), n, L, e) /\ Keeps(h, g, {o}) /\ g.refs[o] = 1 /\ o \notin g.native
  BY Allocated
<1>2. g \in HeapType /\ g.refs[o] > 0
  BY <1>1 DEF Heap, Formed
<1>3. Heap(Native(g, o), Plus(w, o), n, L, e)
  BY <1>1, <1>2, NativeHeap
<1>4. Keeps(g, Native(g, o), {o})
  BY <1>2, NativeKeeps
<1> QED BY <1>1, <1>3, <1>4, KeepsChain

LEMMA HoldGives ==
  ASSUME NEW h \in HeapType, NEW x \in Objects, NEW o \in Objects
  PROVE  /\ Hold(h, x, o).holds[x] = o /\ Hold(h, x, o).native = h.native
         /\ \A y \in Objects : h.refs[y] > 0 => Hold(h, x, o).refs[y] > 0
<1> PICK g : g = Hold(h, x, o)
  OBVIOUS
<1>1. g.refs = [h.refs EXCEPT ![o] = @ + 1] /\ g.holds = [h.holds EXCEPT ![x] = o] /\ g.native = h.native
  BY HoldFields
<1>2. g.holds[x] = o /\ \A y \in Objects : h.refs[y] > 0 => g.refs[y] > 0
  BY <1>1 DEF HeapType
<1> QED BY <1>1, <1>2

LEMMA BytesHeld ==
  ASSUME NEW h, NEW w, NEW n, NEW L, NEW e, Heap(h, w, n, L, e),
         NEW d \in Dbs, d \notin h.born, NEW b \in Strings, h.refs[b] > 0
  PROVE  /\ Heap(Hold(Alloc(h, d), d, b), Plus(w, d), n, L, e)
         /\ Keeps(h, Hold(Alloc(h, d), d, b), {d})
         /\ Heap(Native(Hold(Alloc(h, d), d, b), d), Plus(w, d), n, L, e)
         /\ Keeps(h, Native(Hold(Alloc(h, d), d, b), d), {d})
<1>0. d \in Objects /\ b \in Objects /\ d # b
  BY Kinds
<1> PICK g : g = Alloc(h, d)
  OBVIOUS
<1>1. /\ Heap(g, Plus(w, d), n, L, e) /\ Keeps(h, g, {d}) /\ g.refs[d] = 1 /\ d \notin g.native
      /\ g.holds[d] = None /\ g.refs[b] = h.refs[b]
  BY <1>0, Allocated
<1>2. g \in HeapType /\ g.refs[d] > 0 /\ g.refs[b] > 0
  BY <1>1 DEF Heap, Formed
<1> PICK k : k = Hold(g, d, b)
  OBVIOUS
<1>3. Heap(k, Plus(w, d), n, L, e)
  BY <1>0, <1>1, <1>2, HoldHeap
<1>4. Keeps(g, k, {d})
  BY <1>0, <1>2, HoldKeeps
<1>5. Keeps(h, k, {d})
  BY <1>1, <1>4, KeepsChain
<1>6. k \in HeapType
  BY <1>3 DEF Heap, Formed
<1>7. k.refs[d] > 0 /\ d \notin k.native
  BY <1>0, <1>1, <1>2, HoldGives
<1>8. Heap(Native(k, d), Plus(w, d), n, L, e)
  BY <1>0, <1>3, <1>7, NativeHeap
<1>9. Keeps(k, Native(k, d), {d})
  BY <1>0, <1>6, NativeKeeps
<1>10. Keeps(h, Native(k, d), {d})
  BY <1>5, <1>9, KeepsChain
<1> QED BY <1>3, <1>5, <1>8, <1>10

LEMMA PartsBuilt ==
  ASSUME NEW h, NEW w, NEW n, NEW L, NEW e, Heap(h, w, n, L, e), NEW d \in Dbs, d \notin h.born
  PROVE  \A g \in PartlyBuilt(h, d) : Heap(g, Plus(w, d), n, L, e) /\ Keeps(h, g, {d})
<1>0. d \in Objects
  BY Kinds
<1> PICK g : g = Alloc(h, d)
  OBVIOUS
<1>1. /\ Heap(g, Plus(w, d), n, L, e) /\ Keeps(h, g, {d}) /\ g.refs[d] = 1 /\ d \notin g.native
      /\ d \notin g.buffers
  BY <1>0, Allocated
<1>2. g \in HeapType /\ g.refs[d] > 0
  BY <1>1 DEF Heap, Formed
<1> PICK k : k = Buffer(g, d)
  OBVIOUS
<1>3. Heap(k, Plus(w, d), n, L, e)
  BY <1>1, <1>2, BufferHeap
<1>4. Keeps(h, k, {d})
  BY <1>0, <1>1, <1>2, BufferKeeps, KeepsChain
<1>5. k \in HeapType /\ k.refs = g.refs /\ k.native = g.native
  BY <1>0, <1>2, BufferFields
<1>6. Heap(Native(k, d), Plus(w, d), n, L, e)
  BY <1>0, <1>1, <1>2, <1>3, <1>5, NativeHeap
<1>7. Keeps(h, Native(k, d), {d})
  BY <1>0, <1>4, <1>5, NativeKeeps, KeepsChain
<1> QED BY <1>1, <1>3, <1>4, <1>6, <1>7 DEF PartlyBuilt, Built

LEMMA IterMade ==
  ASSUME NEW h, NEW w, NEW n, NEW L, NEW e, Heap(h, w, n, L, e),
         NEW i \in Iters, i \notin h.born, NEW d \in Dbs, d \in h.native
  PROVE  /\ Heap(IterNew(h, i, d), Plus(w, i), n, L, e) /\ Keeps(h, IterNew(h, i, d), {i})
         /\ IterNew(h, i, d).holds[i] \in IterNew(h, i, d).native
<1>0. d \in Objects /\ i \in Objects /\ d # i /\ h.refs[d] > 0
  BY Kinds DEF Heap, Formed
<1> PICK a : a = Alloc(h, i)
  OBVIOUS
<1>1. /\ Heap(a, Plus(w, i), n, L, e) /\ a.refs[i] = 1 /\ i \notin a.native
      /\ a.holds[i] = None /\ a.refs[d] = h.refs[d]
  <2>1. Heap(a, Plus(w, i), n, L, e) /\ \A x \in Objects \ {i} : a.refs[x] = h.refs[x]
    BY <1>0, Allocated
  <2>2. a.refs[i] = 1 /\ i \notin a.native /\ a.holds[i] = None
    BY <1>0, Allocated
  <2> QED BY <1>0, <2>1, <2>2
<1> PICK g : g = Native(a, i)
  OBVIOUS
<1>2. Heap(g, Plus(w, i), n, L, e) /\ Keeps(h, g, {i})
  BY <1>0, NativeMade
<1>3. a \in HeapType /\ g \in HeapType /\ h \in HeapType
  BY <1>1, <1>2 DEF Heap, Formed
<1>4. g.refs = a.refs /\ g.holds = a.holds /\ g.native = a.native \cup {i} /\ a.native = h.native
  <2>1. g.refs = a.refs /\ g.holds = a.holds /\ g.native = a.native \cup {i}
    BY <1>0, <1>3, NativeFields
  <2>2. a.native = h.native
    BY <1>0, <1>3, AllocFields
  <2> QED BY <2>1, <2>2
<1> PICK k : k = Hold(g, i, d)
  OBVIOUS
<1>5. g.refs[d] > 0 /\ g.refs[i] > 0 /\ g.holds[i] = None
  BY <1>0, <1>1, <1>4
<1>6. Heap(k, Plus(w, i), n, L, e)
  BY <1>0, <1>2, <1>5, HoldHeap
<1>7. Keeps(g, k, {i})
  BY <1>0, <1>3, <1>5, HoldKeeps
<1>8. k.holds[i] = d /\ k.native = g.native
  BY <1>0, <1>3, HoldGives
<1>9. k.holds[i] = d /\ d \in k.native
  BY <1>4, <1>8
<1>10. Keeps(h, k, {i})
  BY <1>2, <1>7, KeepsChain
<1> QED BY <1>6, <1>9, <1>10 DEF IterNew
-----------------------------------------------------------------------------
(***************************************************************************)
(* Functions that run no Python code                                       *)
(***************************************************************************)
LEMMA Parts ==
  ASSUME IInv
  PROVE  /\ Sound(mem, prog, calls, reads, lossy)
         /\ calls \in Seq(Frames) /\ FramesSound(mem, prog, calls) /\ Len(calls) <= MaxDepth
         /\ mem \in HeapType /\ prog \subseteq Objects /\ reads \in [Iters -> Views \cup {None}]
         /\ Ext(prog, calls) \in Counts
         /\ \A x \in Objects : mem.refs[x] > 0 => x \in mem.born
<1>1. calls \in Seq(Frames)
  BY DEF IInv, Sound, FramesSound
<1>2. \A x \in Objects : mem.refs[x] > 0 => x \in mem.born
  BY DEF IInv, Sound, Heap, Unborn
<1> QED BY <1>1, <1>2, ExtType DEF IInv, Sound, FramesSound, Heap, Formed

\* The object o was made, and the program has it.
LEMMA Given ==
  ASSUME IInv, NEW o \in Objects, o \notin mem.born, NEW k, NEW g,
         Heap(g, Plus(Ext(prog, calls), o), ViewsMade(calls), Loose(calls, k), k = {}),
         Keeps(mem, g, {o}), o \in Iters => g.holds[o] \in g.native,
         NEW s \in [Iters -> Views \cup {None}]
  PROVE  Sound(g, prog \cup {o}, calls, s, k)
<1>1. /\ o \notin prog /\ {o} \cap mem.native = {} /\ {o} \cap Resolved(calls) = {}
      /\ \A j \in DOMAIN calls : calls[j].on \notin {o}
  BY Parts, Unknown
<1>2. Ext(prog \cup {o}, calls) = Plus(Ext(prog, calls), o)
  BY <1>1, Parts, ExtProgram
<1>3. prog \cup {o} \subseteq Objects
  BY Parts
<1>4. \A i \in {o} \cap Iters : g.refs[i] > 0 => g.holds[i] \in g.native
  OBVIOUS
<1> QED BY <1>1, <1>2, <1>3, <1>4, Parts, Settled

\* The object o was made, and is gone again.
LEMMA Undone ==
  ASSUME IInv, NEW o \in Objects, o \notin mem.born, o \notin Iters, NEW k, NEW g,
         Heap(g, Ext(prog, calls), ViewsMade(calls), Loose(calls, k), k = {}),
         Keeps(mem, g, {o})
  PROVE  Sound(g, prog, calls, reads, k)
<1>1. /\ {o} \cap mem.native = {} /\ {o} \cap Resolved(calls) = {}
      /\ \A j \in DOMAIN calls : calls[j].on \notin {o}
  BY Parts, Unknown
<1>2. prog \subseteq prog \cup {o} /\ {o} \cap Iters = {}
  OBVIOUS
<1> QED BY <1>1, <1>2, Parts, Settled

\* Nothing was made; the program has q.
LEMMA Lost ==
  ASSUME IInv, NEW q, q \subseteq prog, NEW k, NEW g,
         Heap(g, Ext(q, calls), ViewsMade(calls), Loose(calls, k), k = {}), Keeps(mem, g, {})
  PROVE  Sound(g, q, calls, reads, k)
<1>1. {} \cap mem.native = {} /\ {} \cap Resolved(calls) = {} /\ {} \cap Iters = {} /\ q \subseteq prog \cup {}
  OBVIOUS
<1>2. q \subseteq Objects
  BY Parts
<1> QED BY <1>1, <1>2, Parts, Settled

LEMMA MakeKept ==
  ASSUME IInv, NEW o \in Objects, Make(o)
  PROVE  IInv'
<1>1. /\ o \notin mem.born /\ o \notin Iters /\ mem' = Alloc(mem, o) /\ prog' = prog \cup {o}
      /\ calls' = calls /\ reads' = reads /\ lossy' = lossy
  BY Kinds DEF Make, Fresh, Returns, Fine
<1>2. Heap(mem, Ext(prog, calls), ViewsMade(calls), Loose(calls, lossy), lossy = {})
  BY Parts, Weakened
<1>3. /\ Heap(Alloc(mem, o), Plus(Ext(prog, calls), o), ViewsMade(calls), Loose(calls, lossy), lossy = {})
      /\ Keeps(mem, Alloc(mem, o), {o})
  BY <1>1, <1>2, Allocated
<1>4. Sound(Alloc(mem, o), prog \cup {o}, calls, reads, lossy)
  BY <1>1, <1>3, Parts, Given
<1> QED BY <1>1, <1>4 DEF IInv

LEMMA DropKept ==
  ASSUME IInv, NEW o \in Objects, Drop(o)
  PROVE  IInv'
<1>1. /\ o \in prog /\ mem' = Decref(mem, o) /\ prog' = prog \ {o}
      /\ calls' = calls /\ reads' = reads /\ lossy' = lossy
  BY DEF Drop, Fine
<1>2. Heap(mem, Ext(prog, calls), ViewsMade(calls), Loose(calls, lossy), lossy = {})
  BY Parts, Weakened
<1>3. Ext(prog, calls) = Plus(Ext(prog \ {o}, calls), o) /\ Ext(prog \ {o}, calls) \in Counts
  BY <1>1, Parts, ExtProgram, ExtType
<1>4. /\ Heap(Decref(mem, o), Ext(prog \ {o}, calls), ViewsMade(calls), Loose(calls, lossy), lossy = {})
      /\ Keeps(mem, Decref(mem, o), {})
  BY <1>2, <1>3, DecrefPlus
<1>5. Sound(Decref(mem, o), prog \ {o}, calls, reads, lossy)
  BY <1>4, Lost
<1> QED BY <1>1, <1>5 DEF IInv

LEMMA LoadsKept ==
  ASSUME IInv, NEW b \in Strings, NEW d \in Dbs, Loads(b, d)
  PROVE  IInv'
<1> PICK g : g = Native(LoadsBytes(b, d), d)
  OBVIOUS
<1>1. /\ mem.refs[b] > 0 /\ d \notin mem.born /\ d \in Objects /\ d \notin Iters
      /\ mem' = g /\ prog' = prog \cup {d} /\ calls' = calls /\ reads' = reads /\ lossy' = lossy
  BY Kinds DEF Loads, Held, Live, Fresh, Returns, Fine
<1>2. Heap(mem, Ext(prog, calls), ViewsMade(calls), Loose(calls, lossy), lossy = {})
  BY Parts, Weakened
<1>3. /\ Heap(g, Plus(Ext(prog, calls), d), ViewsMade(calls), Loose(calls, lossy), lossy = {})
      /\ Keeps(mem, g, {d})
  BY <1>1, <1>2, BytesHeld DEF LoadsBytes
<1>4. Sound(g, prog \cup {d}, calls, reads, lossy)
  BY <1>1, <1>3, Parts, Given
<1> QED BY <1>1, <1>4 DEF IInv

LEMMA LoadsFailsKept ==
  ASSUME IInv, NEW b \in Strings, NEW d \in Dbs, LoadsFails(b, d)
  PROVE  IInv'
<1>1. /\ mem.refs[b] > 0 /\ d \notin mem.born /\ d \in Objects /\ d \notin Iters
      /\ prog' = prog /\ calls' = calls /\ reads' = reads /\ lossy' = lossy
  BY Kinds DEF LoadsFails, Held, Live, Fresh, Raise
<1>2. PICK h \in {LoadsBytes(b, d), Native(LoadsBytes(b, d), d)} : mem' = Decref(h, d)
  BY DEF LoadsFails
<1>3. Heap(mem, Ext(prog, calls), ViewsMade(calls), Loose(calls, lossy), lossy = {})
  BY Parts, Weakened
<1>4. /\ Heap(h, Plus(Ext(prog, calls), d), ViewsMade(calls), Loose(calls, lossy), lossy = {})
      /\ Keeps(mem, h, {d})
  BY <1>1, <1>2, <1>3, BytesHeld DEF LoadsBytes
<1>5. /\ Heap(Decref(h, d), Ext(prog, calls), ViewsMade(calls), Loose(calls, lossy), lossy = {})
      /\ Keeps(h, Decref(h, d), {})
  BY <1>1, <1>4, Parts, DecrefPlus
<1>6. Keeps(mem, Decref(h, d), {d})
  BY <1>4, <1>5, KeepsMore, KeepsChain
<1>7. Sound(Decref(h, d), prog, calls, reads, lossy)
  BY <1>1, <1>5, <1>6, Undone
<1> QED BY <1>1, <1>2, <1>7 DEF IInv

LEMMA DumpsKept ==
  ASSUME IInv, NEW d \in Dbs, NEW b \in Strings, Dumps(d, b)
  PROVE  IInv'
<1>1. /\ b \notin mem.born /\ b \in Objects /\ b \notin Iters
      /\ mem' = Alloc(mem, b) /\ prog' = prog \cup {b}
      /\ calls' = calls /\ reads' = reads /\ lossy' = lossy
  BY Kinds DEF Dumps, Fresh, Returns, Fine
<1>2. Heap(mem, Ext(prog, calls), ViewsMade(calls), Loose(calls, lossy), lossy = {})
  BY Parts, Weakened
<1>3. /\ Heap(Alloc(mem, b), Plus(Ext(prog, calls), b), ViewsMade(calls), Loose(calls, lossy), lossy = {})
      /\ Keeps(mem, Alloc(mem, b), {b})
  BY <1>1, <1>2, Allocated
<1>4. Sound(Alloc(mem, b), prog \cup {b}, calls, reads, lossy)
  BY <1>1, <1>3, Parts, Given
<1> QED BY <1>1, <1>4 DEF IInv

LEMMA BuilderNewKept ==
  ASSUME IInv, NEW c \in Builders, BuilderNew(c)
  PROVE  IInv'
<1> PICK g : g = Native(Alloc(mem, c), c)
  OBVIOUS
<1>1. /\ c \notin mem.born /\ c \in Objects /\ c \notin Iters
      /\ mem' = g /\ prog' = prog \cup {c} /\ calls' = calls /\ reads' = reads /\ lossy' = lossy
  BY Kinds DEF BuilderNew, Fresh, Returns, Fine
<1>2. Heap(mem, Ext(prog, calls), ViewsMade(calls), Loose(calls, lossy), lossy = {})
  BY Parts, Weakened
<1>3. /\ Heap(g, Plus(Ext(prog, calls), c), ViewsMade(calls), Loose(calls, lossy), lossy = {})
      /\ Keeps(mem, g, {c})
  BY <1>1, <1>2, NativeMade
<1>4. Sound(g, prog \cup {c}, calls, reads, lossy)
  BY <1>1, <1>3, Parts, Given
<1> QED BY <1>1, <1>4 DEF IInv

LEMMA BuilderFailsKept ==
  ASSUME IInv, NEW c \in Builders, BuilderFails(c)
  PROVE  IInv'
<1> PICK g : g = Alloc(mem, c)
  OBVIOUS
<1>1. /\ c \notin mem.born /\ c \in Objects /\ c \notin Iters
      /\ calls' = calls /\ reads' = reads /\ lossy' = lossy
  BY Kinds DEF BuilderFails, Fresh, Raise
<1>2. Heap(mem, Ext(prog, calls), ViewsMade(calls), Loose(calls, lossy), lossy = {})
  BY Parts, Weakened
<1>3. /\ Heap(g, Plus(Ext(prog, calls), c), ViewsMade(calls), Loose(calls, lossy), lossy = {})
      /\ Keeps(mem, g, {c})
  BY <1>1, <1>2, Allocated
<1>4. CASE mem' = Decref(g, c) /\ prog' = prog
  <2>1. /\ Heap(Decref(g, c), Ext(prog, calls), ViewsMade(calls), Loose(calls, lossy), lossy = {})
        /\ Keeps(g, Decref(g, c), {})
    BY <1>1, <1>3, Parts, DecrefPlus
  <2>2. Keeps(mem, Decref(g, c), {c})
    BY <1>3, <2>1, KeepsMore, KeepsChain
  <2>3. Sound(Decref(g, c), prog, calls, reads, lossy)
    BY <1>1, <2>1, <2>2, Undone
  <2> QED BY <1>1, <1>4, <2>3 DEF IInv
<1>5. CASE mem' = g /\ prog' = prog \cup {c}
  <2>1. Sound(g, prog \cup {c}, calls, reads, lossy)
    BY <1>1, <1>3, Parts, Given
  <2> QED BY <1>1, <1>5, <2>1 DEF IInv
<1> QED BY <1>4, <1>5 DEF BuilderFails, Returns

LEMMA FinalizeKept ==
  ASSUME IInv, NEW c \in Builders, NEW d \in Dbs, Finalize(c, d)
  PROVE  IInv'
<1>1. /\ d \notin mem.born /\ d \in Objects /\ d \notin Iters
      /\ calls' = calls /\ reads' = reads /\ lossy' = lossy
  BY Kinds DEF Finalize, Fresh, Raise, Fine
<1>2. Heap(mem, Ext(prog, calls), ViewsMade(calls), Loose(calls, lossy), lossy = {})
  BY Parts, Weakened
<1>3. \A g \in PartlyBuilt(mem, d) :
        /\ Heap(g, Plus(Ext(prog, calls), d), ViewsMade(calls), Loose(calls, lossy), lossy = {})
        /\ Keeps(mem, g, {d})
  BY <1>1, <1>2, PartsBuilt
<1>4. ASSUME NEW g \in PartlyBuilt(mem, d), mem' = Decref(g, d), prog' = prog PROVE IInv'
  <2>1. /\ Heap(Decref(g, d), Ext(prog, calls), ViewsMade(calls), Loose(calls, lossy), lossy = {})
        /\ Keeps(g, Decref(g, d), {})
    BY <1>1, <1>3, Parts, DecrefPlus
  <2>2. Keeps(mem, Decref(g, d), {d})
    BY <1>3, <2>1, KeepsMore, KeepsChain
  <2>3. Sound(Decref(g, d), prog, calls, reads, lossy)
    BY <1>1, <2>1, <2>2, Undone
  <2> QED BY <1>1, <1>4, <2>3 DEF IInv
<1>5. CASE mem' = Built(mem, d) /\ prog' = prog \cup {d}
  <2> PICK g \in PartlyBuilt(mem, d) : g = Built(mem, d)
    BY DEF PartlyBuilt
  <2>1. Sound(g, prog \cup {d}, calls, reads, lossy)
    BY <1>1, <1>3, Parts, Given
  <2> QED BY <1>1, <1>5, <2>1 DEF IInv
<1> QED BY <1>4, <1>5 DEF Finalize, Returns

LEMMA IterateKept ==
  ASSUME IInv, NEW d \in Dbs, NEW i \in Iters, Iterate(d, i)
  PROVE  IInv'
<1> PICK g : g = IterNew(mem, i, d)
  OBVIOUS
<1>1. /\ i \notin mem.born /\ i \in Objects /\ d \in mem.native
      /\ mem' = g /\ prog' = prog \cup {i} /\ calls' = calls /\ reads' = reads /\ lossy' = lossy
  BY Kinds DEF Iterate, Loaded, Fresh, Returns, Fine
<1>2. Heap(mem, Ext(prog, calls), ViewsMade(calls), Loose(calls, lossy), lossy = {})
  BY Parts, Weakened
<1>3. /\ Heap(g, Plus(Ext(prog, calls), i), ViewsMade(calls), Loose(calls, lossy), lossy = {})
      /\ Keeps(mem, g, {i}) /\ g.holds[i] \in g.native
  BY <1>1, <1>2, IterMade
<1>4. Sound(g, prog \cup {i}, calls, reads, lossy)
  BY <1>1, <1>3, Parts, Given
<1> QED BY <1>1, <1>4 DEF IInv

\* Where the path is known to lose something there may be a block more.
LEMMA BlockLost ==
  ASSUME NEW h, NEW w, NEW n, NEW L, NEW k, NEW t \in k, Heap(h, w, n, L, k = {})
  PROVE  Heap(Block(h, 1), w, n, L, k = {}) /\ Keeps(h, Block(h, 1), {})
<1>1. (k = {}) = FALSE
  OBVIOUS
<1>2. Heap(Block(h, 1), w, n, L, k = {})
  BY <1>1, BlockHeap
<1>3. Keeps(h, Block(h, 1), {})
  BY BlockKeeps DEF Heap, Formed
<1> QED BY <1>2, <1>3

\* A cursor is lost, of a key or of an iterator that could not be made.
LEMMA CursorLostKept ==
  ASSUME IInv, NEW d \in Dbs, KeyError(d) \/ IterateFails(d)
  PROVE  IInv'
<1> PICK k : k = lossy \cup {"cursor"}
  OBVIOUS
<1>1. /\ mem' = Block(mem, 1) /\ prog' = prog /\ calls' = calls /\ reads' = reads /\ lossy' = k
  BY DEF KeyError, IterateFails, CursorLost, Raise
<1>2. Heap(mem, Ext(prog, calls), ViewsMade(calls), Loose(calls, k), k = {})
  BY Parts, Weakened
<1>3. "cursor" \in k
  OBVIOUS
<1>4. /\ Heap(Block(mem, 1), Ext(prog, calls), ViewsMade(calls), Loose(calls, k), k = {})
      /\ Keeps(mem, Block(mem, 1), {})
  BY <1>2, <1>3, BlockLost
<1>5. Sound(Block(mem, 1), prog, calls, reads, k)
  BY <1>4, Lost
<1> QED BY <1>1, <1>5 DEF IInv

LEMMA DropForgetsKept ==
  ASSUME IInv, NEW c \in Builders, DropForgets(c)
  PROVE  IInv'
<1> PICK k : k = lossy \cup {"constructor"}
  OBVIOUS
<1> PICK h : h = Decref(mem, c)
  OBVIOUS
<1>1. /\ c \in prog /\ c \in Objects /\ mem' = Block(h, 1) /\ prog' = prog \ {c}
      /\ calls' = calls /\ reads' = reads /\ lossy' = k
  BY Kinds DEF DropForgets, Forgotten, Raise
<1>2. Heap(mem, Ext(prog, calls), ViewsMade(calls), Loose(calls, k), k = {})
  BY Parts, Weakened
<1>3. Ext(prog, calls) = Plus(Ext(prog \ {c}, calls), c) /\ Ext(prog \ {c}, calls) \in Counts
  BY <1>1, Parts, ExtProgram, ExtType
<1>4. /\ Heap(h, Ext(prog \ {c}, calls), ViewsMade(calls), Loose(calls, k), k = {})
      /\ Keeps(mem, h, {})
  BY <1>1, <1>2, <1>3, DecrefPlus
<1>5. "constructor" \in k
  OBVIOUS
<1>6. /\ Heap(Block(h, 1), Ext(prog \ {c}, calls), ViewsMade(calls), Loose(calls, k), k = {})
      /\ Keeps(h, Block(h, 1), {})
  BY <1>4, <1>5, BlockLost
<1>7. Keeps(mem, Block(h, 1), {})
  BY <1>4, <1>6, KeepsChain
<1>8. Sound(Block(h, 1), prog \ {c}, calls, reads, k)
  BY <1>6, <1>7, Lost
<1> QED BY <1>1, <1>8 DEF IInv

LEMMA CopyForgetsKept ==
  ASSUME IInv, NEW c \in Builders, CopyForgets(c)
  PROVE  IInv'
<1> PICK k : k = lossy \cup {"constructor"}
  OBVIOUS
<1> PICK g : g = Alloc(mem, c)
  OBVIOUS
<1>1. /\ c \notin mem.born /\ c \in Objects /\ c \notin Iters
      /\ mem' = Block(g, 1) /\ prog' = prog \cup {c}
      /\ calls' = calls /\ reads' = reads /\ lossy' = k
  BY Kinds DEF CopyForgets, Forgotten, Fresh, Raise, Returns
<1>2. Heap(mem, Ext(prog, calls), ViewsMade(calls), Loose(calls, k), k = {})
  BY Parts, Weakened
<1>3. /\ Heap(g, Plus(Ext(prog, calls), c), ViewsMade(calls), Loose(calls, k), k = {})
      /\ Keeps(mem, g, {c})
  BY <1>1, <1>2, Allocated
<1>4. "constructor" \in k
  OBVIOUS
<1>5. /\ Heap(Block(g, 1), Plus(Ext(prog, calls), c), ViewsMade(calls), Loose(calls, k), k = {})
      /\ Keeps(g, Block(g, 1), {})
  BY <1>3, <1>4, BlockLost
<1>6. Keeps(mem, Block(g, 1), {c})
  BY <1>3, <1>5, KeepsMore, KeepsChain
<1>7. Sound(Block(g, 1), prog \cup {c}, calls, reads, k)
  BY <1>1, <1>5, <1>6, Parts, Given
<1> QED BY <1>1, <1>7 DEF IInv

LEMMA Small3 == \A j \in 1 .. 3 : j = 1 \/ j = 2 \/ j = 3
OBVIOUS

LEMMA NthPair ==
  ASSUME NEW a, NEW b
  PROVE  Nth(<<a, b>>, 1) = a /\ Nth(<<a, b>>, 2) = b /\ Nth(<<a, b>>, 3) = None
<1>1. DOMAIN <<a, b>> = 1 .. 2 /\ <<a, b>>[1] = a /\ <<a, b>>[2] = b
  OBVIOUS
<1>2. 1 \in 1 .. 2 /\ 2 \in 1 .. 2 /\ 3 \notin 1 .. 2
  OBVIOUS
<1> QED BY <1>1, <1>2 DEF Nth

LEMMA NthAll ==
  ASSUME NEW q, NEW S, Nth(q, 1) \in S, Nth(q, 2) \in S, Nth(q, 3) \in S
  PROVE  \A j \in 1 .. 3 : Nth(q, j) \in S
<1> SUFFICES ASSUME NEW j \in 1 .. 3 PROVE Nth(q, j) \in S
  OBVIOUS
<1> QED BY Small3

\* Where counts need not be exact a reference may be lost.
LEMMA ReferenceLost ==
  ASSUME NEW h, NEW w \in Counts, NEW o, NEW n, NEW L, Heap(h, Plus(w, o), n, L, FALSE)
  PROVE  Heap(h, w, n, L, FALSE)
<1>1. \A x \in Objects : Plus(w, o)[x] = w[x] + One(o, x)
  BY PlusType
<1>2. ASSUME NEW x \in Objects, Plus(w, o)[x] = 0 PROVE w[x] = 0
  <2>1. PICK a \in Nat : w[x] = a
    BY DEF Counts
  <2>2. PICK b \in Nat : One(o, x) = b
    BY DEF One
  <2>3. a + b = 0
    BY <1>1, <1>2, <2>1, <2>2
  <2> QED BY <2>1, <2>3
<1>3. Unborn(h, w)
  BY <1>2 DEF Heap, Unborn
<1>4. ASSUME NEW x \in Objects, x \notin L
      PROVE  h.refs[x] >= w[x] + Cardinality(Holders(h, x))
  <2>1. PICK a \in Nat : w[x] = a
    BY DEF Counts
  <2>2. PICK b \in Nat : One(o, x) = b
    BY DEF One
  <2>3. PICK s \in Nat : Cardinality(Holders(h, x)) = s
    BY HoldersFinite DEF Heap
  <2>4. PICK z \in Nat : h.refs[x] = z
    BY DEF Heap, Formed, HeapType
  <2>5. h.refs[x] >= Plus(w, o)[x] + Cardinality(Holders(h, x))
    BY <1>4 DEF Heap, Counted
  <2>6. z >= (a + b) + s
    BY <1>1, <2>1, <2>2, <2>3, <2>4, <2>5
  <2>7. z >= a + s
    BY <2>6
  <2> QED BY <2>1, <2>3, <2>4, <2>7
<1>5. Counted(h, w, L)
  BY <1>4 DEF Counted
<1> QED BY <1>3, <1>5 DEF Heap, Exact

\* Of what is loose there may seem to be one reference more.
LEMMA ReferenceFound ==
  ASSUME NEW h, NEW w \in Counts, NEW n, NEW L, Heap(h, w, n, L, FALSE),
         NEW o \in L, o \in h.born
  PROVE  Heap(h, Plus(w, o), n, L, FALSE)
<1>1. Plus(w, o) \in Counts /\ \A x \in Objects : Plus(w, o)[x] = w[x] + One(o, x)
  BY PlusType
<1>2. ASSUME NEW x \in Objects, x # o PROVE Plus(w, o)[x] = w[x]
  <2>1. PICK a \in Nat : w[x] = a
    BY DEF Counts
  <2>2. One(o, x) = 0
    BY <1>2 DEF One
  <2>3. Plus(w, o)[x] = a + 0
    BY <1>1, <2>1, <2>2
  <2> QED BY <2>1, <2>3
<1>3. Unborn(h, Plus(w, o))
  BY <1>2 DEF Heap, Unborn
<1>4. Counted(h, Plus(w, o), L)
  BY <1>2 DEF Heap, Counted
<1> QED BY <1>1, <1>3, <1>4 DEF Heap, Exact

\* A query that was only lent is released, and may be gone: no claim is made of it any more.
LEMMA QueryMistypedKept ==
  ASSUME IInv, NEW d \in Dbs, NEW q \in Queries, QueryMistyped(d, q)
  PROVE  IInv'
<1> PICK k : k = lossy \cup {"view type"}
  OBVIOUS
<1>1. /\ mem' = Release(Incref(mem, q), <<q, q>>) /\ mem.refs[q] > 0 /\ q \in prog /\ q \in Objects
      /\ prog' = prog /\ calls' = calls /\ reads' = reads /\ lossy' = k
  BY Kinds DEF QueryMistyped, Raise, Held, Live
<1>2. (k = {}) = FALSE
  OBVIOUS
<1> PICK w \in Counts : w = Ext(prog, calls)
  BY Parts
<1>3. Heap(mem, w, ViewsMade(calls), Loose(calls, k), FALSE)
  BY <1>2, Parts, Weakened
<1>4. q \in Loose(calls, k)
  <2>1. q \notin Resolved(calls)
    BY <1>1, Parts DEF FramesSound
  <2> QED BY <2>1 DEF Loose
<1> PICK g : g = Incref(mem, q)
  OBVIOUS
<1>5. Heap(g, Plus(w, q), ViewsMade(calls), Loose(calls, k), FALSE) /\ Keeps(mem, g, {})
  BY <1>1, <1>3, IncrefPlus
<1>6. q \in g.born
  <2>1. q \in mem.born
    BY <1>1, Parts
  <2> QED BY <1>1, <1>5, <2>1 DEF Keeps
<1>7. Heap(g, Plus(Plus(w, q), q), ViewsMade(calls), Loose(calls, k), FALSE)
  <2>1. Plus(w, q) \in Counts
    BY PlusType
  <2> QED BY <1>4, <1>5, <1>6, <2>1, ReferenceFound
<1>8. \A j \in 1 .. 3 : Nth(<<q, q>>, j) \in Objects \cup {None}
  <2>1. q \in Objects \cup {None} /\ None \in Objects \cup {None}
    BY <1>1
  <2>2. Nth(<<q, q>>, 1) = q /\ Nth(<<q, q>>, 2) = q /\ Nth(<<q, q>>, 3) = None
    BY NthPair
  <2>3. /\ Nth(<<q, q>>, 1) \in Objects \cup {None} /\ Nth(<<q, q>>, 2) \in Objects \cup {None}
        /\ Nth(<<q, q>>, 3) \in Objects \cup {None}
    BY <2>1, <2>2
  <2> QED BY <2>3, NthAll
<1>9. Hand(w, <<q, q>>) = Plus(Plus(w, q), q)
  <2>1. Plus(w, None) = w
    BY HandSmall
  <2> QED BY <2>1, NthPair DEF Hand
<1>10. /\ Heap(Release(g, <<q, q>>), w, ViewsMade(calls), Loose(calls, k), FALSE)
       /\ Keeps(g, Release(g, <<q, q>>), {})
  BY <1>7, <1>8, <1>9, ReleaseHeap
<1>11. Keeps(mem, Release(g, <<q, q>>), {})
  BY <1>5, <1>10, KeepsChain
<1>12. Sound(Release(g, <<q, q>>), prog, calls, reads, k)
  BY <1>2, <1>10, <1>11, Lost
<1> QED BY <1>1, <1>12 DEF IInv

LEMMA ViewNoMemoryKept ==
  ASSUME IInv, NEW v \in Views, NEW d \in Dbs, ViewNoMemory(v, d)
  PROVE  IInv'
<1> PICK k : k = lossy \cup {"view memory"}
  OBVIOUS
<1>1. /\ mem' = Incref(Alloc(mem, v), d) /\ mem.refs[d] > 0 /\ v \notin mem.born
      /\ d \in Objects /\ v \in Objects /\ v \notin Iters /\ v # d
      /\ prog' = prog /\ calls' = calls /\ reads' = reads /\ lossy' = k
  BY Kinds DEF ViewNoMemory, Raise, Held, Live, Fresh
<1>2. (k = {}) = FALSE
  OBVIOUS
<1> PICK w \in Counts : w = Ext(prog, calls)
  BY Parts
<1>3. Heap(mem, w, ViewsMade(calls), Loose(calls, k), FALSE)
  BY <1>2, Parts, Weakened
<1> PICK g : g = Alloc(mem, v)
  OBVIOUS
<1>4. Heap(g, Plus(w, v), ViewsMade(calls), Loose(calls, k), FALSE) /\ Keeps(mem, g, {v})
  BY <1>1, <1>3, Allocated
<1>5. g.refs[d] > 0
  <2>1. g.refs = [mem.refs EXCEPT ![v] = 1] /\ mem \in HeapType
    BY <1>1, Parts, AllocFields
  <2>2. g.refs[d] = mem.refs[d]
    BY <1>1, <2>1 DEF HeapType
  <2> QED BY <1>1, <2>2
<1> PICK h : h = Incref(g, d)
  OBVIOUS
<1>6. Heap(h, Plus(Plus(w, v), d), ViewsMade(calls), Loose(calls, k), FALSE) /\ Keeps(g, h, {})
  BY <1>1, <1>4, <1>5, IncrefPlus
<1>7. Keeps(mem, h, {v})
  BY <1>4, <1>6, KeepsMore, KeepsChain
<1>8. Heap(h, w, ViewsMade(calls), Loose(calls, k), FALSE)
  <2>1. Plus(w, v) \in Counts
    BY PlusType
  <2> QED BY <1>6, <2>1, ReferenceLost
<1>9. Sound(h, prog, calls, reads, k)
  BY <1>1, <1>2, <1>7, <1>8, Undone
<1> QED BY <1>1, <1>9 DEF IInv
-----------------------------------------------------------------------------
(***************************************************************************)
(* Functions that begin: the frame f is pushed, and lent its arguments     *)
(***************************************************************************)
LEMMA Called ==
  ASSUME IInv, Len(calls) < MaxDepth,
         NEW f \in Frames, Nth(f.locals, 3) = None,
         NEW F, F \subseteq Objects \ mem.born, F \cap Iters = {},
         f.op = "query" => f.on \in mem.native,
         NEW h, Keeps(mem, h, F), Unfinished(f) => f.on \in F /\ f.on \notin h.native,
         Heap(h, Hand(Ext(prog, calls), f.locals), ViewsMade(calls) + One(f.op, "view"),
              Loose(calls, lossy), lossy = {}),
         \A j \in 1 .. 3 : Nth(f.args, j) # None => h.refs[Nth(f.args, j)] > 0
  PROVE  Sound(Lend(h, f.args), prog, Append(calls, f), reads, lossy)
<1> PICK g : g = Lend(h, f.args)
  OBVIOUS
<1> PICK w \in Counts : w = Ext(prog, calls)
  BY Parts
<1>0. calls \in Seq(Frames) /\ f.on \in Objects
  BY Parts, FrameShape, Kinds
<1>1. /\ F \cap mem.native = {} /\ F \cap Resolved(calls) = {} /\ F \cap prog = {}
      /\ \A k \in DOMAIN calls : calls[k].on \notin F
  BY Parts, Unknown
<1>2. \A j \in 1 .. 3 : Nth(f.args, j) \in Objects \cup {None}
  BY FrameShape
<1>3. /\ Heap(g, Hand(Hand(w, f.locals), f.args), ViewsMade(calls) + One(f.op, "view"),
              Loose(calls, lossy), lossy = {})
      /\ Keeps(h, g, {})
  BY <1>2, LendHeap
<1>4. Keeps(mem, g, F)
  BY <1>3, KeepsMore, KeepsChain
<1>5. Ext(prog, Append(calls, f)) = Hand(Hand(w, f.locals), f.args)
  BY <1>0, ExtAppend, HandsSwap
<1>6. ViewsMade(Append(calls, f)) = ViewsMade(calls) + One(f.op, "view")
  BY <1>0, ViewsAppend
<1>7. Loose(Append(calls, f), lossy) = Loose(calls, lossy)
  <2>1. Resolved(Append(calls, f)) = Resolved(calls)
    <3>1. {Nth(f.locals, 3)} \cap Queries = {}
      BY Kinds
    <3>2. Resolved(Append(calls, f)) = Resolved(calls) \cup ({Nth(f.locals, 3)} \cap Queries)
      BY <1>0, ResolvedAppend
    <3> QED BY <3>1, <3>2
  <2> QED BY <2>1 DEF Loose
<1>8. Heap(g, Ext(prog, Append(calls, f)), ViewsMade(Append(calls, f)),
           Loose(Append(calls, f), lossy), lossy = {})
  BY <1>3, <1>5, <1>6, <1>7
<1>9. Unfinished(f) => f.on \in F /\ f.on \notin g.native /\ f.on \notin prog
  <2>1. \A x \in Objects : x \notin h.native => x \notin g.native
    BY <1>3 DEF Keeps, Heap, Formed
  <2> QED BY <1>0, <1>1, <2>1
<1>10. f.op = "query" => f.on \in mem.native /\ f.on \notin F
  BY <1>1
<1>11. Nth(f.locals, 3) \notin prog
  BY Parts, Kinds
<1>12. \A i \in F \cap Iters : g.refs[i] > 0 => g.holds[i] \in g.native
  OBVIOUS
<1>13. FramesSound(mem, prog, calls) /\ Sound(mem, prog, calls, reads, lossy)
  BY Parts
<1>14. \A k \in DOMAIN calls : Worked(calls[k]) => calls[k].on \notin F
  BY <1>1
<1> QED BY <1>1, <1>4, <1>8, <1>9, <1>10, <1>11, <1>12, <1>13, <1>14, SettledIn

LEMMA NthLess ==
  ASSUME NEW a
  PROVE  /\ \A j \in 1 .. 3 : Nth(<<>>, j) = None
         /\ Nth(<<a>>, 1) = a /\ Nth(<<a>>, 2) = None /\ Nth(<<a>>, 3) = None
<1>1. DOMAIN <<a>> = 1 .. 1 /\ <<a>>[1] = a /\ DOMAIN <<>> = {}
  OBVIOUS
<1>2. 1 \in 1 .. 1 /\ 2 \notin 1 .. 1 /\ 3 \notin 1 .. 1
  OBVIOUS
<1> QED BY <1>1, <1>2 DEF Nth

LEMMA NthThree ==
  ASSUME NEW a, NEW b, NEW c
  PROVE  Nth(<<a, b, c>>, 1) = a /\ Nth(<<a, b, c>>, 2) = b /\ Nth(<<a, b, c>>, 3) = c
<1>1. DOMAIN <<a, b, c>> = 1 .. 3 /\ <<a, b, c>>[1] = a /\ <<a, b, c>>[2] = b /\ <<a, b, c>>[3] = c
  OBVIOUS
<1>2. 1 \in 1 .. 3 /\ 2 \in 1 .. 3 /\ 3 \in 1 .. 3
  OBVIOUS
<1> QED BY <1>1, <1>2 DEF Nth

LEMMA LoadCallKept ==
  ASSUME IInv, NEW d \in Dbs, LoadCall(d)
  PROVE  IInv'
<1> PICK f : f = Frame("load", d, <<>>, <<d>>)
  OBVIOUS
<1>0. f.op = "load" /\ f.on = d /\ f.args = <<>> /\ f.locals = <<d>>
  BY DEF Frame
<1> PICK h : h = Alloc(mem, d)
  OBVIOUS
<1>1. /\ d \in Objects \ mem.born /\ {d} \cap Iters = {} /\ Len(calls) < MaxDepth
      /\ mem' = Lend(h, <<>>) /\ calls' = Append(calls, f)
      /\ prog' = prog /\ reads' = reads /\ lossy' = lossy
  BY Kinds DEF LoadCall, Enter, Fresh, Fine, Frame
<1>2. f \in Frames
  BY DEF Frames, LoadFrames
<1>3. Heap(mem, Ext(prog, calls), ViewsMade(calls), Loose(calls, lossy), lossy = {})
  BY Parts, Weakened
<1>4. /\ Heap(h, Plus(Ext(prog, calls), d), ViewsMade(calls), Loose(calls, lossy), lossy = {})
      /\ Keeps(mem, h, {d}) /\ d \notin h.native
  BY <1>1, <1>3, Allocated
<1>5. Hand(Ext(prog, calls), f.locals) = Plus(Ext(prog, calls), d)
  BY <1>0, Parts, HandSmall
<1>6. ViewsMade(calls) + One(f.op, "view") = ViewsMade(calls)
  BY <1>0, <1>3 DEF One, Heap
<1>7. Heap(h, Hand(Ext(prog, calls), f.locals), ViewsMade(calls) + One(f.op, "view"),
           Loose(calls, lossy), lossy = {})
  BY <1>4, <1>5, <1>6
<1>8. /\ Nth(f.locals, 3) = None /\ \A j \in 1 .. 3 : Nth(f.args, j) = None
      /\ f.op # "query" /\ f.on = d
  BY <1>0, NthLess
<1>9. Sound(Lend(h, f.args), prog, Append(calls, f), reads, lossy)
  BY <1>1, <1>2, <1>4, <1>7, <1>8, Called
<1> QED BY <1>0, <1>1, <1>9 DEF IInv

\* A call of a constructor or a database that has no references of its own.
LEMMA PlainCall ==
  ASSUME IInv, NEW o \in Objects, o \in prog, mem.refs[o] > 0, NEW op \in {"dump", "add"},
         Frame(op, o, <<o>>, <<>>) \in Frames, Enter(op, o, <<o>>, <<>>, mem)
  PROVE  Sound(mem', prog, calls', reads, lossy)
<1> PICK f : f = Frame(op, o, <<o>>, <<>>)
  OBVIOUS
<1>0. f.op = op /\ f.on = o /\ f.args = <<o>> /\ f.locals = <<>>
  BY DEF Frame
<1>1. /\ Len(calls) < MaxDepth /\ mem' = Lend(mem, f.args) /\ calls' = Append(calls, f)
      /\ op # "query" /\ op # "view" /\ op # "load"
  BY <1>0 DEF Enter, Frame
<1>2. f \in Frames
  OBVIOUS
<1>3. Heap(mem, Ext(prog, calls), ViewsMade(calls), Loose(calls, lossy), lossy = {})
  BY Parts, Weakened
<1>4. Hand(Ext(prog, calls), f.locals) = Ext(prog, calls)
  BY <1>0, Parts, HandSmall
<1>5. ViewsMade(calls) + One(f.op, "view") = ViewsMade(calls)
  BY <1>0, <1>1, <1>3 DEF One, Heap
<1>6. Heap(mem, Hand(Ext(prog, calls), f.locals), ViewsMade(calls) + One(f.op, "view"),
           Loose(calls, lossy), lossy = {})
  BY <1>3, <1>4, <1>5
<1>7. /\ Nth(f.locals, 3) = None
      /\ Nth(f.args, 1) = o /\ Nth(f.args, 2) = None /\ Nth(f.args, 3) = None
  BY <1>0, NthLess
<1>8. \A j \in 1 .. 3 : Nth(f.args, j) # None => mem.refs[Nth(f.args, j)] > 0
  BY <1>7, Small3
<1>9. {} \subseteq Objects \ mem.born /\ {} \cap Iters = {} /\ ~Unfinished(f) /\ f.op # "query"
  BY <1>0, <1>1 DEF Unfinished
<1>10. Keeps(mem, mem, {})
  BY Parts, KeepsSelf
<1>11. Sound(Lend(mem, f.args), prog, Append(calls, f), reads, lossy)
  BY <1>1, <1>2, <1>6, <1>7, <1>8, <1>9, <1>10, Called
<1> QED BY <1>1, <1>11

LEMMA DumpCallKept ==
  ASSUME IInv, NEW d \in Dbs, DumpCall(d)
  PROVE  IInv'
<1>1. /\ d \in Objects /\ d \in prog /\ mem.refs[d] > 0 /\ Enter("dump", d, <<d>>, <<>>, mem)
      /\ prog' = prog /\ reads' = reads /\ lossy' = lossy
  BY Kinds DEF DumpCall, Held, Live, Fine
<1>2. Frame("dump", d, <<d>>, <<>>) \in Frames
  BY DEF Frames, DumpFrames
<1>3. Sound(mem', prog, calls', reads, lossy)
  BY <1>1, <1>2, PlainCall
<1> QED BY <1>1, <1>3 DEF IInv

LEMMA AddCallKept ==
  ASSUME IInv, NEW c \in Builders, AddCall(c)
  PROVE  IInv'
<1>1. /\ c \in Objects /\ c \in prog /\ mem.refs[c] > 0 /\ Enter("add", c, <<c>>, <<>>, mem)
      /\ prog' = prog /\ reads' = reads /\ lossy' = lossy
  BY Kinds DEF AddCall, Held, Live, Fine
<1>2. Frame("add", c, <<c>>, <<>>) \in Frames
  BY DEF Frames, AddFrames
<1>3. Sound(mem', prog, calls', reads, lossy)
  BY <1>1, <1>2, PlainCall
<1> QED BY <1>1, <1>3 DEF IInv

LEMMA NewCallKept ==
  ASSUME IInv, NEW c \in Builders, NewCall(c)
  PROVE  IInv'
<1> PICK f : f = Frame("new", c, <<>>, <<c>>)
  OBVIOUS
<1>0. f.op = "new" /\ f.on = c /\ f.args = <<>> /\ f.locals = <<c>>
  BY DEF Frame
<1> PICK h : h = Native(Alloc(mem, c), c)
  OBVIOUS
<1>1. /\ c \in Objects \ mem.born /\ {c} \cap Iters = {} /\ Len(calls) < MaxDepth
      /\ mem' = Lend(h, <<>>) /\ calls' = Append(calls, f)
      /\ prog' = prog /\ reads' = reads /\ lossy' = lossy
  BY Kinds DEF NewCall, Enter, Fresh, Fine, Frame
<1>2. f \in Frames
  BY DEF Frames, NewFrames
<1>3. Heap(mem, Ext(prog, calls), ViewsMade(calls), Loose(calls, lossy), lossy = {})
  BY Parts, Weakened
<1>4. /\ Heap(h, Plus(Ext(prog, calls), c), ViewsMade(calls), Loose(calls, lossy), lossy = {})
      /\ Keeps(mem, h, {c})
  BY <1>1, <1>3, NativeMade
<1>5. Hand(Ext(prog, calls), f.locals) = Plus(Ext(prog, calls), c)
  BY <1>0, Parts, HandSmall
<1>6. ViewsMade(calls) + One(f.op, "view") = ViewsMade(calls)
  BY <1>0, <1>3 DEF One, Heap
<1>7. Heap(h, Hand(Ext(prog, calls), f.locals), ViewsMade(calls) + One(f.op, "view"),
           Loose(calls, lossy), lossy = {})
  BY <1>4, <1>5, <1>6
<1>8. /\ Nth(f.locals, 3) = None /\ \A j \in 1 .. 3 : Nth(f.args, j) = None
      /\ f.op # "query" /\ ~Unfinished(f)
  BY <1>0, NthLess DEF Unfinished
<1>9. Sound(Lend(h, f.args), prog, Append(calls, f), reads, lossy)
  BY <1>1, <1>2, <1>4, <1>7, <1>8, Called
<1> QED BY <1>0, <1>1, <1>9 DEF IInv

LEMMA QueryCallKept ==
  ASSUME IInv, NEW d \in Dbs, NEW q \in Queries, NEW v \in Views \cup {None}, QueryCall(d, q, v)
  PROVE  IInv'
<1> PICK f : f = Frame("query", d, <<d, q, v>>, <<q, v>>)
  OBVIOUS
<1>0. f.op = "query" /\ f.on = d /\ f.args = <<d, q, v>> /\ f.locals = <<q, v>>
  BY DEF Frame
<1> PICK g : g = Incref(mem, q)
  OBVIOUS
<1> PICK h : h = Incref(g, v)
  OBVIOUS
<1>1. /\ d \in Objects /\ d \in mem.native /\ mem.refs[d] > 0
      /\ q \in Objects /\ mem.refs[q] > 0 /\ v \in Objects \cup {None}
      /\ (v # None => mem.refs[v] > 0) /\ Len(calls) < MaxDepth
      /\ mem' = Lend(h, <<d, q, v>>) /\ calls' = Append(calls, f)
      /\ prog' = prog /\ reads' = reads /\ lossy' = lossy
  BY Kinds DEF QueryCall, Enter, Held, Live, Loaded, Fine, Frame
<1>2. f \in Frames
  BY DEF Frames, AskFrames
<1> PICK w \in Counts : w = Ext(prog, calls)
  BY Parts
<1>3. Heap(mem, w, ViewsMade(calls), Loose(calls, lossy), lossy = {})
  BY Parts, Weakened
<1>4. /\ Heap(g, Plus(w, q), ViewsMade(calls), Loose(calls, lossy), lossy = {})
      /\ Keeps(mem, g, {}) /\ \A x \in Objects : mem.refs[x] > 0 => g.refs[x] > 0
  BY <1>1, <1>3, IncrefPlus
<1>5. /\ Heap(h, Plus(Plus(w, q), v), ViewsMade(calls), Loose(calls, lossy), lossy = {})
      /\ Keeps(g, h, {}) /\ \A x \in Objects : g.refs[x] > 0 => h.refs[x] > 0
  BY <1>1, <1>4, IncrefPlus
<1>6. Keeps(mem, h, {})
  BY <1>4, <1>5, KeepsChain
<1>7. Hand(w, f.locals) = Plus(Plus(w, q), v)
  BY <1>0, HandSmall, PlusSwap
<1>8. ViewsMade(calls) + One(f.op, "view") = ViewsMade(calls)
  BY <1>0, <1>3 DEF One, Heap
<1>9. Heap(h, Hand(Ext(prog, calls), f.locals), ViewsMade(calls) + One(f.op, "view"),
           Loose(calls, lossy), lossy = {})
  BY <1>5, <1>7, <1>8
<1>10. /\ Nth(f.locals, 3) = None
       /\ Nth(f.args, 1) = d /\ Nth(f.args, 2) = q /\ Nth(f.args, 3) = v
  BY <1>0, NthPair, NthThree
<1>11. h.refs[d] > 0 /\ h.refs[q] > 0 /\ (v # None => h.refs[v] > 0)
  BY <1>1, <1>4, <1>5
<1>12. \A j \in 1 .. 3 : Nth(f.args, j) # None => h.refs[Nth(f.args, j)] > 0
  BY <1>10, <1>11, Small3
<1>13. {} \subseteq Objects \ mem.born /\ {} \cap Iters = {} /\ ~Unfinished(f) /\ f.on \in mem.native
  BY <1>0, <1>1 DEF Unfinished
<1>14. Sound(Lend(h, f.args), prog, Append(calls, f), reads, lossy)
  BY <1>1, <1>2, <1>6, <1>9, <1>10, <1>12, <1>13, Called
<1> QED BY <1>0, <1>1, <1>14 DEF IInv

LEMMA ViewCallKept ==
  ASSUME IInv, NEW v \in Views, NEW d \in Dbs, ViewCall(v, d)
  PROVE  IInv'
<1> PICK f : f = Frame("view", v, <<d>>, <<v, d>>)
  OBVIOUS
<1>0. f.op = "view" /\ f.on = v /\ f.args = <<d>> /\ f.locals = <<v, d>>
  BY DEF Frame
<1> PICK a : a = Alloc(mem, v)
  OBVIOUS
<1> PICK g : g = Block(a, 1)
  OBVIOUS
<1> PICK h : h = Incref(g, d)
  OBVIOUS
<1>1. /\ d \in Objects /\ mem.refs[d] > 0 /\ v \in Objects \ mem.born /\ v # d
      /\ {v} \cap Iters = {} /\ Len(calls) < MaxDepth
      /\ mem' = Lend(h, <<d>>) /\ calls' = Append(calls, f)
      /\ prog' = prog /\ reads' = reads /\ lossy' = lossy
  BY Kinds DEF ViewCall, Enter, Held, Live, Fresh, Fine, Frame
<1>2. f \in Frames
  BY DEF Frames, ViewFrames
<1> PICK w \in Counts : w = Ext(prog, calls)
  BY Parts
<1>3. Heap(mem, w, ViewsMade(calls), Loose(calls, lossy), lossy = {})
  BY Parts, Weakened
<1>4. /\ Heap(a, Plus(w, v), ViewsMade(calls), Loose(calls, lossy), lossy = {})
      /\ Keeps(mem, a, {v}) /\ v \notin a.native
  BY <1>1, <1>3, Allocated
<1>5. a.refs[d] > 0 /\ a \in HeapType
  <2>1. a.refs = [mem.refs EXCEPT ![v] = 1] /\ mem \in HeapType
    BY <1>1, Parts, AllocFields
  <2>2. a.refs[d] = mem.refs[d]
    BY <1>1, <2>1 DEF HeapType
  <2> QED BY <1>1, <1>4, <2>2 DEF Heap, Formed
<1>6. Heap(g, Plus(w, v), ViewsMade(calls) + 1, Loose(calls, lossy), lossy = {})
  BY <1>4, BlockHeap
<1>7. Keeps(mem, g, {v})
  BY <1>4, <1>5, BlockKeeps, KeepsChain
<1>8. g.refs = a.refs /\ g.native = a.native
  BY <1>5 DEF Block, HeapType
<1>9. /\ Heap(h, Plus(Plus(w, v), d), ViewsMade(calls) + 1, Loose(calls, lossy), lossy = {})
      /\ Keeps(g, h, {}) /\ \A x \in Objects : g.refs[x] > 0 => h.refs[x] > 0
  BY <1>1, <1>5, <1>6, <1>8, IncrefPlus
<1>10. Keeps(mem, h, {v})
  BY <1>7, <1>9, KeepsMore, KeepsChain
<1>11. v \notin h.native /\ h.refs[d] > 0
  <2>1. g \in HeapType /\ h.native = g.native
    BY <1>1, <1>6, IncrefFields DEF Heap, Formed
  <2> QED BY <1>1, <1>4, <1>5, <1>8, <1>9, <2>1
<1>12. Hand(w, f.locals) = Plus(Plus(w, v), d)
  BY <1>0, HandSmall, PlusSwap
<1>13. One(f.op, "view") = 1
  BY <1>0 DEF One
<1>14. Heap(h, Hand(Ext(prog, calls), f.locals), ViewsMade(calls) + One(f.op, "view"),
            Loose(calls, lossy), lossy = {})
  BY <1>9, <1>12, <1>13
<1>15. /\ Nth(f.locals, 3) = None
       /\ Nth(f.args, 1) = d /\ Nth(f.args, 2) = None /\ Nth(f.args, 3) = None
  BY <1>0, NthPair, NthLess
<1>16. \A j \in 1 .. 3 : Nth(f.args, j) # None => h.refs[Nth(f.args, j)] > 0
  BY <1>11, <1>15, Small3
<1>17. f.op # "query" /\ f.on \in {v} /\ f.on \notin h.native /\ {v} \subseteq Objects \ mem.born
  BY <1>0, <1>1, <1>11
<1>18. Sound(Lend(h, f.args), prog, Append(calls, f), reads, lossy)
  BY <1>1, <1>2, <1>10, <1>14, <1>15, <1>16, <1>17, Called
<1> QED BY <1>0, <1>1, <1>18 DEF IInv
-----------------------------------------------------------------------------
(***************************************************************************)
(* Functions that end: the frame is popped, its references are released    *)
(***************************************************************************)
\* What is running: the frame f, above the frames b.
Ends(op, b, f) ==
  /\ b \in Seq(Frames) /\ f \in Frames /\ f.op = op
  /\ calls = Append(b, f) /\ Front(calls) = b /\ Top = f
  /\ Len(b) < MaxDepth /\ Len(calls) = Len(b) + 1
  /\ Sound(mem, prog, Append(b, f), reads, lossy)
  /\ \A k : lossy \subseteq k =>
       Heap(mem, Hand(Hand(Ext(prog, b), f.args), f.locals),
            IF op = "view" THEN ViewsMade(b) + 1 ELSE ViewsMade(b), Loose(b, k), k = {})
  /\ FramesSound(mem, prog, b)
  /\ op = "query" => f.on \in mem.native
  /\ Unfinished(f) => /\ f.on \notin mem.native /\ f.on \notin prog
                      /\ \A k \in DOMAIN b : Worked(b[k]) => b[k].on # f.on

LEMMA Ending ==
  ASSUME IInv, NEW op, Running(op)
  PROVE  \E b \in Seq(Frames), f \in Frames : Ends(op, b, f)
<1>1. PICK b \in Seq(Frames), f \in Frames :
        /\ calls = Append(b, f) /\ Front(calls) = b /\ Last(calls) = f
        /\ Len(b) < MaxDepth /\ Len(calls) = Len(b) + 1
  BY TopFrame DEF Running
<1>2. Top = f /\ f.op = op
  BY <1>1 DEF Top, Running
<1>3. Sound(mem, prog, Append(b, f), reads, lossy)
  BY <1>1, Parts
<1>5. Ext(prog, Append(b, f)) = Hand(Hand(Ext(prog, b), f.args), f.locals)
  BY <1>1, ExtAppend
<1>6. ViewsMade(Append(b, f)) = IF op = "view" THEN ViewsMade(b) + 1 ELSE ViewsMade(b)
  <2>1. PICK n \in Nat : ViewsMade(b) = n
    BY <1>1, ViewsAppend
  <2>2. ViewsMade(Append(b, f)) = n + One(f.op, "view")
    BY <1>1, <2>1, ViewsAppend
  <2>3. One(f.op, "view") = IF op = "view" THEN 1 ELSE 0
    BY <1>2 DEF One
  <2> QED BY <2>1, <2>2, <2>3
<1>7. ASSUME NEW k, lossy \subseteq k
      PROVE  Heap(mem, Hand(Hand(Ext(prog, b), f.args), f.locals),
                  IF op = "view" THEN ViewsMade(b) + 1 ELSE ViewsMade(b), Loose(b, k), k = {})
  <2>1. Heap(mem, Ext(prog, Append(b, f)), ViewsMade(Append(b, f)), Loose(b, k), k = {})
    BY <1>1, <1>3, <1>7, Weakened
  <2> QED BY <1>5, <1>6, <2>1
<1>8. FramesSound(mem, prog, Append(b, f))
  BY <1>1, Parts
<1>9. /\ FramesSound(mem, prog, b)
      /\ op = "query" => f.on \in mem.native
      /\ Unfinished(f) => /\ f.on \notin mem.native /\ f.on \notin prog
                          /\ \A k \in DOMAIN b : Worked(b[k]) => b[k].on # f.on
  BY <1>1, <1>2, <1>8, FramePopped
<1> QED BY <1>1, <1>2, <1>3, <1>7, <1>9 DEF Ends

\* The frames of each function.
LEMMA FrameKinds ==
  ASSUME NEW f \in Frames
  PROVE  /\ f.op = "load" => \E d \in Dbs : f.on = d /\ f.args = <<>> /\ f.locals = <<d>>
         /\ f.op = "dump" => \E d \in Dbs : f.on = d /\ f.args = <<d>> /\ f.locals = <<>>
         /\ f.op = "add" => \E c \in Builders : f.on = c /\ f.args = <<c>> /\ f.locals = <<>>
         /\ f.op = "new" => \E c \in Builders : f.on = c /\ f.args = <<>> /\ f.locals = <<c>>
         /\ f.op = "query" => \E d \in Dbs, q \in Queries, v \in Views \cup {None} :
              /\ f.on = d /\ f.args = <<d, q, v>>
              /\ \/ f.locals = <<q, v>>
                 \/ \E r \in Queries : f.locals = <<q, v, r>>
         /\ f.op = "view" => \E v \in Views, d \in Dbs : f.on = v /\ f.args = <<d>> /\ f.locals = <<v, d>>
<1>1. CASE f \in LoadFrames
  BY <1>1 DEF LoadFrames, Frame
<1>2. CASE f \in DumpFrames
  BY <1>2 DEF DumpFrames, Frame
<1>3. CASE f \in AddFrames
  BY <1>3 DEF AddFrames, Frame
<1>4. CASE f \in NewFrames
  BY <1>4 DEF NewFrames, Frame
<1>5. CASE f \in AskFrames
  BY <1>5 DEF AskFrames, Frame
<1>6. CASE f \in AnswerFrames
  BY <1>6 DEF AnswerFrames, Frame
<1>7. CASE f \in ViewFrames
  BY <1>7 DEF ViewFrames, Frame
<1> QED BY <1>1, <1>2, <1>3, <1>4, <1>5, <1>6, <1>7 DEF Frames

LEMMA FrameIs ==
  ASSUME NEW f \in Frames
  PROVE  f = Frame(f.op, f.on, f.args, f.locals)
<1>1. CASE f \in LoadFrames
  BY <1>1 DEF LoadFrames, Frame
<1>2. CASE f \in DumpFrames
  BY <1>2 DEF DumpFrames, Frame
<1>3. CASE f \in AddFrames
  BY <1>3 DEF AddFrames, Frame
<1>4. CASE f \in NewFrames
  BY <1>4 DEF NewFrames, Frame
<1>5. CASE f \in AskFrames
  BY <1>5 DEF AskFrames, Frame
<1>6. CASE f \in AnswerFrames
  BY <1>6 DEF AnswerFrames, Frame
<1>7. CASE f \in ViewFrames
  BY <1>7 DEF ViewFrames, Frame
<1> QED BY <1>1, <1>2, <1>3, <1>4, <1>5, <1>6, <1>7 DEF Frames

LEMMA SeqIsFunction ==
  ASSUME NEW S, NEW s \in Seq(S), NEW n \in Nat, DOMAIN s = 1 .. n
  PROVE  s \in [1 .. n -> S]
<1>1. s \in [1 .. Len(s) -> S] /\ Len(s) \in Nat /\ DOMAIN s = 1 .. Len(s)
  BY LenProperties
<1>2. 1 .. Len(s) = 1 .. n
  BY <1>1
<1> QED BY <1>1, <1>2

LEMMA AppendPair ==
  ASSUME NEW a, NEW b, NEW c
  PROVE  Append(<<a, b>>, c) = <<a, b, c>>
<1> PICK S : S = {a, b, c}
  OBVIOUS
<1> PICK s \in Seq(S) : s = <<a, b>>
  <2>1. <<a, b>> \in Seq(S)
    OBVIOUS
  <2> QED BY <2>1
<1>1. Len(s) = 2 /\ s[1] = a /\ s[2] = b
  OBVIOUS
<1>2. /\ Append(s, c) \in Seq(S) /\ Len(Append(s, c)) = 3
      /\ \A i \in 1 .. 3 : Append(s, c)[i] = IF i = 3 THEN c ELSE s[i]
  BY <1>1, AppendProperties
<1> PICK t \in Seq(S) : t = Append(s, c)
  BY <1>2
<1>3. <<a, b, c>> \in Seq(S)
  OBVIOUS
<1> PICK z \in Seq(S) : z = <<a, b, c>>
  BY <1>3
<1>4. Len(z) = 3 /\ z[1] = a /\ z[2] = b /\ z[3] = c
  OBVIOUS
<1>5. t[1] = a /\ t[2] = b /\ t[3] = c
  BY <1>1, <1>2
<1>6. \A i \in 1 .. 3 : t[i] = z[i]
  BY <1>4, <1>5, Small3
<1>7. t = z
  BY <1>2, <1>4, <1>6, SeqEqual
<1> QED BY <1>7

\* A function has one more reference.
More(f, r) == [f EXCEPT !.locals = Append(@, r)]

LEMMA MoreLocals ==
  ASSUME NEW f \in Frames, NEW r
  PROVE  More(f, r) = Frame(f.op, f.on, f.args, Append(f.locals, r))
<1> PICK o, x, a, l : f = [op |-> o, on |-> x, args |-> a, locals |-> l]
  BY FrameIs DEF Frame
<1>1. f.op = o /\ f.on = x /\ f.args = a /\ f.locals = l
  OBVIOUS
<1>2. Frame(f.op, f.on, f.args, Append(f.locals, r))
        = [op |-> o, on |-> x, args |-> a, locals |-> Append(l, r)]
  BY <1>1 DEF Frame
<1> QED BY <1>1, <1>2 DEF More

LEMMA AppendIs ==
  ASSUME NEW b \in Seq(Frames), NEW f \in Frames, NEW n, n = Len(b) + 1
  PROVE  /\ n \in Nat /\ n \in 1 .. n
         /\ Append(b, f) \in [1 .. n -> Frames] /\ Append(b, f)[n] = f
         /\ \A i \in 1 .. n : i # n => Append(b, f)[i] = b[i]
<1>0. n \in Nat
  OBVIOUS
<1>1. Append(b, f) \in Seq(Frames)
  OBVIOUS
<1>2. /\ DOMAIN Append(b, f) = 1 .. n /\ Append(b, f)[n] = f
      /\ \A i \in 1 .. n : i # n => Append(b, f)[i] = b[i]
  OBVIOUS
<1>3. Append(b, f) \in [1 .. n -> Frames]
  BY <1>0, <1>1, <1>2, SeqIsFunction
<1>4. n \in 1 .. n
  BY <1>0
<1> QED BY <1>0, <1>2, <1>3, <1>4

\* What was not made yet is unknown to the frames below the running one, too.
LEMMA UnknownBelow ==
  ASSUME IInv, NEW op, NEW b, NEW f, Ends(op, b, f), NEW o \in Objects, o \notin mem.born
  PROVE  /\ o \notin prog /\ o \notin mem.native /\ o \notin Resolved(b)
         /\ \A j \in DOMAIN b : b[j].on # o
<1>1. calls = Append(b, f) /\ b \in Seq(Frames) /\ f \in Frames
  BY DEF Ends
<1>2. /\ o \notin prog /\ o \notin mem.native /\ o \notin Resolved(calls)
      /\ \A j \in DOMAIN calls : calls[j].on # o
  BY Parts, Unknown
<1>3. \A j \in DOMAIN b : j \in DOMAIN calls /\ calls[j] = b[j]
  BY <1>1
<1>4. \A j \in DOMAIN b : b[j].on # o
  BY <1>2, <1>3
<1>5. Resolved(b) \subseteq Resolved(calls)
  BY <1>1, ResolvedAppend
<1> QED BY <1>2, <1>4, <1>5

\* It leaves: o, that was made or was being made, is the program's; nothing is, if it is None.
LEMMA LeftWith ==
  ASSUME NEW m, NEW p, NEW r, NEW l, NEW b \in Seq(Frames), NEW f \in Frames,
         Sound(m, p, Append(b, f), r, l), NEW k,
         NEW o \in Objects, o \notin m.native, o \notin p, o \notin Queries,
         \A j \in DOMAIN b : Worked(b[j]) => b[j].on # o,
         NEW h, Keeps(m, h, {o}), o \in Iters => h.holds[o] \in h.native,
         Heap(h, Hand(Plus(Ext(p, b), o), f.args), ViewsMade(b), Loose(b, k), k = {}),
         NEW s \in [Iters -> Views \cup {None}]
  PROVE  Sound(Release(h, f.args), p \cup {o}, b, s, k)
<1>1. /\ {o} \cap m.native = {} /\ {o} \cap Queries = {}
      /\ \A j \in DOMAIN b : Worked(b[j]) => b[j].on \notin {o}
  OBVIOUS
<1>2. Ext(p \cup {o}, b) = Plus(Ext(p, b), o)
  BY ExtProgram
<1>3. p \cup {o} \subseteq Objects
  BY DEF Sound
<1>4. \A i \in {o} \cap Iters : h.refs[i] > 0 => h.holds[i] \in h.native
  OBVIOUS
<1>5. Heap(h, Hand(Ext(p \cup {o}, b), f.args), ViewsMade(b), Loose(b, k), k = {})
  BY <1>2
<1> PICK c : c = Append(b, f)
  OBVIOUS
<1>6. Sound(m, p, c, r, l)
  OBVIOUS
<1> HIDE DEF Sound
<1> QED BY <1>1, <1>3, <1>4, <1>5, <1>6, Left

LEMMA LeftWithout ==
  ASSUME NEW m, NEW p, NEW r, NEW l, NEW b \in Seq(Frames), NEW f \in Frames,
         Sound(m, p, Append(b, f), r, l), NEW k,
         NEW F, F \cap m.native = {}, F \cap Queries = {}, F \cap Iters = {},
         \A j \in DOMAIN b : Worked(b[j]) => b[j].on \notin F,
         NEW h, Keeps(m, h, F),
         Heap(h, Hand(Ext(p, b), f.args), ViewsMade(b), Loose(b, k), k = {})
  PROVE  Sound(Release(h, f.args), p, b, r, k)
<1>1. p \subseteq p \cup F /\ p \subseteq Objects /\ r \in [Iters -> Views \cup {None}]
  BY DEF Sound
<1>2. \A i \in F \cap Iters : h.refs[i] > 0 => h.holds[i] \in h.native
  OBVIOUS
<1> PICK c : c = Append(b, f)
  OBVIOUS
<1>3. Sound(m, p, c, r, l)
  OBVIOUS
<1> QED BY <1>1, <1>2, <1>3, Left

LEMMA LoadReturnsKept ==
  ASSUME IInv, LoadReturns
  PROVE  IInv'
<1>1. PICK b \in Seq(Frames), f \in Frames : Ends("load", b, f)
  BY Ending DEF LoadReturns
<1>2. PICK d \in Dbs : f.on = d /\ f.args = <<>> /\ f.locals = <<d>>
  BY <1>1, FrameKinds DEF Ends
<1> PICK w \in Counts : w = Ext(prog, b)
  BY ExtType
<1> PICK h : h = Native(mem, d)
  OBVIOUS
<1>3. /\ mem' = Release(h, f.args) /\ calls' = b /\ prog' = prog \cup {d}
      /\ reads' = reads /\ lossy' = lossy
  BY <1>1, <1>2 DEF LoadReturns, Leave, Returns, Fine, Ends
<1>4. /\ d \in Objects /\ d \notin Queries /\ d \notin Iters /\ d \notin mem.native /\ d \notin prog
      /\ \A k \in DOMAIN b : Worked(b[k]) => b[k].on # d
  BY <1>1, <1>2, Kinds DEF Ends, Unfinished
<1>5. Hand(Hand(w, f.args), f.locals) = Plus(w, d) /\ Hand(Plus(w, d), f.args) = Plus(w, d)
  BY <1>2, HandSmall, PlusType
<1>6. Heap(mem, Plus(w, d), ViewsMade(b), Loose(b, lossy), lossy = {})
  BY <1>1, <1>5 DEF Ends
<1>7. mem.refs[d] > 0 /\ mem \in HeapType
  <2>1. Plus(w, d)[d] > 0
    BY <1>4, PlusType DEF One, Counts
  <2>2. Loose(b, lossy) \subseteq Queries
    BY DEF Loose
  <2> QED BY <1>4, <1>6, <2>1, <2>2, CountedLive, Parts
<1>8. Heap(h, Hand(Plus(w, d), f.args), ViewsMade(b), Loose(b, lossy), lossy = {})
  BY <1>4, <1>5, <1>6, <1>7, NativeHeap
<1>9. Keeps(mem, h, {d})
  BY <1>4, <1>7, NativeKeeps
<1>10. Sound(mem, prog, Append(b, f), reads, lossy) /\ reads \in [Iters -> Views \cup {None}]
  BY <1>1, Parts DEF Ends
<1>11. Sound(Release(h, f.args), prog \cup {d}, b, reads, lossy)
  BY <1>4, <1>8, <1>9, <1>10, LeftWith
<1> QED BY <1>3, <1>11 DEF IInv

LEMMA LoadNothingKept ==
  ASSUME IInv, LoadNothing
  PROVE  IInv'
<1>1. PICK b \in Seq(Frames), f \in Frames : Ends("load", b, f)
  BY Ending DEF LoadNothing
<1>2. PICK d \in Dbs : f.on = d /\ f.args = <<>> /\ f.locals = <<d>>
  BY <1>1, FrameKinds DEF Ends
<1> PICK w \in Counts : w = Ext(prog, b)
  BY ExtType
<1>3. /\ mem' = Release(mem, f.args) /\ calls' = b /\ prog' = prog \cup {d}
      /\ reads' = reads /\ lossy' = lossy
  BY <1>1, <1>2 DEF LoadNothing, Leave, Returns, Raise, Ends
<1>4. /\ d \in Objects /\ d \notin Queries /\ d \notin Iters /\ d \notin mem.native /\ d \notin prog
      /\ \A k \in DOMAIN b : Worked(b[k]) => b[k].on # d
  BY <1>1, <1>2, Kinds DEF Ends, Unfinished
<1>5. Hand(Hand(w, f.args), f.locals) = Plus(w, d) /\ Hand(Plus(w, d), f.args) = Plus(w, d)
  BY <1>2, HandSmall, PlusType
<1>6. Heap(mem, Hand(Plus(w, d), f.args), ViewsMade(b), Loose(b, lossy), lossy = {})
  BY <1>1, <1>5 DEF Ends
<1>7. Keeps(mem, mem, {d})
  BY Parts, KeepsSelf
<1>8. Sound(mem, prog, Append(b, f), reads, lossy) /\ reads \in [Iters -> Views \cup {None}]
  BY <1>1, Parts DEF Ends
<1>9. Sound(Release(mem, f.args), prog \cup {d}, b, reads, lossy)
  BY <1>4, <1>6, <1>7, <1>8, LeftWith
<1> QED BY <1>3, <1>9 DEF IInv

LEMMA LoadFailsKept ==
  ASSUME IInv, LoadFails
  PROVE  IInv'
<1>1. PICK b \in Seq(Frames), f \in Frames : Ends("load", b, f)
  BY Ending DEF LoadFails
<1>2. PICK d \in Dbs : f.on = d /\ f.args = <<>> /\ f.locals = <<d>>
  BY <1>1, FrameKinds DEF Ends
<1> PICK w \in Counts : w = Ext(prog, b)
  BY ExtType
<1>3. /\ calls' = b /\ prog' = prog /\ reads' = reads /\ lossy' = lossy
      /\ \E h \in {mem, Native(mem, d)} : mem' = Release(Decref(h, d), f.args)
  BY <1>1, <1>2 DEF LoadFails, Leave, Raise, Ends
<1> PICK h \in {mem, Native(mem, d)} : mem' = Release(Decref(h, d), f.args)
  BY <1>3
<1>4. /\ d \in Objects /\ d \notin Queries /\ d \notin Iters /\ d \notin mem.native
      /\ \A k \in DOMAIN b : Worked(b[k]) => b[k].on # d
  BY <1>1, <1>2, Kinds DEF Ends, Unfinished
<1>5. Hand(Hand(w, f.args), f.locals) = Plus(w, d) /\ Hand(w, f.args) = w
  BY <1>2, HandSmall
<1>6. Heap(mem, Plus(w, d), ViewsMade(b), Loose(b, lossy), lossy = {})
  BY <1>1, <1>5 DEF Ends
<1>7. mem.refs[d] > 0 /\ mem \in HeapType
  <2>1. Plus(w, d)[d] > 0
    BY <1>4, PlusType DEF One, Counts
  <2>2. Loose(b, lossy) \subseteq Queries
    BY DEF Loose
  <2> QED BY <1>4, <1>6, <2>1, <2>2, CountedLive, Parts
<1>8. Heap(h, Plus(w, d), ViewsMade(b), Loose(b, lossy), lossy = {}) /\ Keeps(mem, h, {d})
  BY <1>4, <1>6, <1>7, NativeHeap, NativeKeeps, KeepsSelf
<1>9. /\ Heap(Decref(h, d), w, ViewsMade(b), Loose(b, lossy), lossy = {})
      /\ Keeps(h, Decref(h, d), {})
  BY <1>4, <1>8, DecrefPlus
<1>10. Keeps(mem, Decref(h, d), {d})
  BY <1>8, <1>9, KeepsMore, KeepsChain
<1>11. Sound(mem, prog, Append(b, f), reads, lossy)
  BY <1>1 DEF Ends
<1>12. Heap(Decref(h, d), Hand(Ext(prog, b), f.args), ViewsMade(b), Loose(b, lossy), lossy = {})
  BY <1>5, <1>9
<1>13. /\ {d} \cap mem.native = {} /\ {d} \cap Queries = {} /\ {d} \cap Iters = {}
       /\ \A k \in DOMAIN b : Worked(b[k]) => b[k].on \notin {d}
  BY <1>4
<1>14. Sound(Release(Decref(h, d), f.args), prog, b, reads, lossy)
  BY <1>10, <1>11, <1>12, <1>13, LeftWithout
<1> QED BY <1>3, <1>14 DEF IInv

\* A function without references of its own ends, and nothing is made.
LEMMA PlainEnd ==
  ASSUME IInv, NEW op \in {"dump", "add"}, Running(op), Leave(mem)
  PROVE  Sound(mem', prog, calls', reads, lossy)
<1>1. PICK b \in Seq(Frames), f \in Frames : Ends(op, b, f)
  BY Ending
<1>2. f.locals = <<>>
  BY <1>1, FrameKinds DEF Ends
<1> PICK w \in Counts : w = Ext(prog, b)
  BY ExtType
<1>3. mem' = Release(mem, f.args) /\ calls' = b
  BY <1>1 DEF Leave, Ends
<1>4. Hand(Hand(w, f.args), f.locals) = Hand(w, f.args)
  BY <1>2, HandSmall, HandType
<1>5. Heap(mem, Hand(Ext(prog, b), f.args), ViewsMade(b), Loose(b, lossy), lossy = {})
  BY <1>1, <1>4 DEF Ends
<1>6. Keeps(mem, mem, {})
  BY Parts, KeepsSelf
<1>7. Sound(mem, prog, Append(b, f), reads, lossy)
  BY <1>1 DEF Ends
<1>8. /\ {} \cap mem.native = {} /\ {} \cap Queries = {} /\ {} \cap Iters = {}
      /\ \A k \in DOMAIN b : Worked(b[k]) => b[k].on \notin {}
  OBVIOUS
<1>9. Sound(Release(mem, f.args), prog, b, reads, lossy)
  BY <1>5, <1>6, <1>7, <1>8, LeftWithout
<1> QED BY <1>3, <1>9

LEMMA DumpEndsKept ==
  ASSUME IInv, DumpEnds
  PROVE  IInv'
<1>1. Running("dump") /\ Leave(mem) /\ prog' = prog /\ reads' = reads /\ lossy' = lossy
  BY DEF DumpEnds, Fine, Raise
<1>2. Sound(mem', prog, calls', reads, lossy)
  BY <1>1, PlainEnd
<1> QED BY <1>1, <1>2 DEF IInv

LEMMA AddEndsKept ==
  ASSUME IInv, AddEnds
  PROVE  IInv'
<1>1. Running("add") /\ Leave(mem) /\ prog' = prog /\ reads' = reads /\ lossy' = lossy
  BY DEF AddEnds, Fine, Raise
<1>2. Sound(mem', prog, calls', reads, lossy)
  BY <1>1, PlainEnd
<1> QED BY <1>1, <1>2 DEF IInv

LEMMA AddForgetsKept ==
  ASSUME IInv, AddForgets
  PROVE  IInv'
<1> PICK k : k = lossy \cup {"constructor"}
  OBVIOUS
<1>1. PICK b \in Seq(Frames), f \in Frames : Ends("add", b, f)
  BY Ending DEF AddForgets
<1>2. f.locals = <<>>
  BY <1>1, FrameKinds DEF Ends
<1> PICK w \in Counts : w = Ext(prog, b)
  BY ExtType
<1> PICK g : g = Block(mem, 1)
  OBVIOUS
<1>3. mem' = Release(g, f.args) /\ calls' = b /\ prog' = prog /\ reads' = reads /\ lossy' = k
  BY <1>1 DEF AddForgets, Forgotten, Leave, Raise, Ends
<1>4. Hand(Hand(w, f.args), f.locals) = Hand(w, f.args)
  BY <1>2, HandSmall, HandType
<1>5. Heap(mem, Hand(Ext(prog, b), f.args), ViewsMade(b), Loose(b, k), k = {})
  BY <1>1, <1>4 DEF Ends
<1>6. "constructor" \in k
  OBVIOUS
<1>7. Heap(g, Hand(Ext(prog, b), f.args), ViewsMade(b), Loose(b, k), k = {}) /\ Keeps(mem, g, {})
  BY <1>5, <1>6, BlockLost
<1>8. Sound(mem, prog, Append(b, f), reads, lossy)
  BY <1>1 DEF Ends
<1>9. /\ {} \cap mem.native = {} /\ {} \cap Queries = {} /\ {} \cap Iters = {}
      /\ \A j \in DOMAIN b : Worked(b[j]) => b[j].on \notin {}
  OBVIOUS
<1>10. Sound(Release(g, f.args), prog, b, reads, k)
  BY <1>7, <1>8, <1>9, LeftWithout
<1> QED BY <1>3, <1>10 DEF IInv

LEMMA NewReturnsKept ==
  ASSUME IInv, NEW d \in Dbs, NewReturns(d)
  PROVE  IInv'
<1>1. PICK b \in Seq(Frames), f \in Frames : Ends("new", b, f)
  BY Ending DEF NewReturns
<1>2. PICK c \in Builders : f.on = c /\ f.args = <<>> /\ f.locals = <<c>>
  BY <1>1, FrameKinds DEF Ends
<1> PICK w \in Counts : w = Ext(prog, b)
  BY ExtType
<1> PICK g \in PartlyBuilt(mem, d) : g = Built(mem, d)
  BY DEF PartlyBuilt
<1> PICK h : h = Decref(g, c)
  OBVIOUS
<1>3. /\ mem' = Release(h, f.args) /\ calls' = b /\ prog' = prog \cup {d}
      /\ reads' = reads /\ lossy' = lossy /\ d \notin mem.born
  BY <1>1, <1>2 DEF NewReturns, Leave, Returns, Fresh, Fine, Ends
<1>4. d \in Objects /\ d \notin Queries /\ d \notin Iters /\ c \in Objects
  BY Kinds
<1>5. d \notin mem.native /\ d \notin prog /\ \A k \in DOMAIN b : b[k].on # d
  BY <1>1, <1>3, <1>4, UnknownBelow
<1>6. Hand(Hand(w, f.args), f.locals) = Plus(w, c) /\ Hand(Plus(w, d), f.args) = Plus(w, d)
  BY <1>2, HandSmall, PlusType
<1>7. Heap(mem, Plus(w, c), ViewsMade(b), Loose(b, lossy), lossy = {})
  BY <1>1, <1>6 DEF Ends
<1>8. /\ Heap(g, Plus(Plus(w, c), d), ViewsMade(b), Loose(b, lossy), lossy = {})
      /\ Keeps(mem, g, {d})
  BY <1>3, <1>7, PartsBuilt
<1>9. Plus(Plus(w, c), d) = Plus(Plus(w, d), c) /\ Plus(w, d) \in Counts
  BY PlusSwap, PlusType
<1>10. /\ Heap(h, Plus(w, d), ViewsMade(b), Loose(b, lossy), lossy = {})
       /\ Keeps(g, h, {})
  BY <1>4, <1>8, <1>9, DecrefPlus
<1>11. Keeps(mem, h, {d})
  BY <1>8, <1>10, KeepsMore, KeepsChain
<1>12. Heap(h, Hand(Plus(Ext(prog, b), d), f.args), ViewsMade(b), Loose(b, lossy), lossy = {})
  BY <1>6, <1>10
<1>13. Sound(mem, prog, Append(b, f), reads, lossy) /\ reads \in [Iters -> Views \cup {None}]
  BY <1>1, Parts DEF Ends
<1>14. Sound(Release(h, f.args), prog \cup {d}, b, reads, lossy)
  BY <1>4, <1>5, <1>11, <1>12, <1>13, LeftWith
<1> QED BY <1>3, <1>14 DEF IInv

LEMMA NewFailsKept ==
  ASSUME IInv, NewFails
  PROVE  IInv'
<1>1. PICK b \in Seq(Frames), f \in Frames : Ends("new", b, f)
  BY Ending DEF NewFails
<1>2. PICK c \in Builders : f.on = c /\ f.args = <<>> /\ f.locals = <<c>>
  BY <1>1, FrameKinds DEF Ends
<1> PICK w \in Counts : w = Ext(prog, b)
  BY ExtType
<1>3. prog' = prog /\ reads' = reads /\ lossy' = lossy /\ c \in Objects
  BY Kinds DEF NewFails, Raise
<1>4. Hand(Hand(w, f.args), f.locals) = Plus(w, c) /\ Hand(w, f.args) = w
  BY <1>2, HandSmall
<1>5. Heap(mem, Plus(w, c), ViewsMade(b), Loose(b, lossy), lossy = {})
  BY <1>1, <1>4 DEF Ends
<1>6. Sound(mem, prog, Append(b, f), reads, lossy)
  BY <1>1 DEF Ends
\* The constructor is released last, from the heap g.
<1>7. ASSUME NEW F, F \cap mem.native = {}, F \cap Queries = {}, F \cap Iters = {},
             \A j \in DOMAIN b : Worked(b[j]) => b[j].on \notin F,
             NEW g, Keeps(mem, g, F),
             Heap(g, Plus(w, c), ViewsMade(b), Loose(b, lossy), lossy = {}),
             Leave(Decref(g, c))
      PROVE  IInv'
  <2>1. mem' = Release(Decref(g, c), f.args) /\ calls' = b
    BY <1>1, <1>2, <1>7 DEF Leave, Ends
  <2>2. /\ Heap(Decref(g, c), w, ViewsMade(b), Loose(b, lossy), lossy = {})
        /\ Keeps(g, Decref(g, c), {})
    BY <1>3, <1>7, DecrefPlus
  <2>3. Keeps(mem, Decref(g, c), F)
    BY <1>7, <2>2, KeepsMore, KeepsChain
  <2>4. Heap(Decref(g, c), Hand(Ext(prog, b), f.args), ViewsMade(b), Loose(b, lossy), lossy = {})
    BY <1>4, <2>2
  <2>5. Sound(Release(Decref(g, c), f.args), prog, b, reads, lossy)
    BY <1>6, <1>7, <2>3, <2>4, LeftWithout
  <2> QED BY <1>3, <2>1, <2>5 DEF IInv
<1>8. CASE Leave(Decref(mem, c))
  <2>1. /\ {} \cap mem.native = {} /\ {} \cap Queries = {} /\ {} \cap Iters = {}
        /\ \A k \in DOMAIN b : Worked(b[k]) => b[k].on \notin {}
    OBVIOUS
  <2>2. Keeps(mem, mem, {})
    BY Parts, KeepsSelf
  <2> QED BY <1>5, <1>7, <1>8, <2>1, <2>2
<1>9. ASSUME NEW d \in Dbs, d \notin mem.born, NEW k \in PartlyBuilt(mem, d),
             Leave(Decref(Decref(k, d), c))
      PROVE  IInv'
  <2>1. d \in Objects /\ d \notin Queries /\ d \notin Iters
    BY Kinds
  <2>2. d \notin mem.native /\ \A j \in DOMAIN b : b[j].on # d
    BY <1>1, <1>9, <2>1, UnknownBelow
  <2>3. /\ Heap(k, Plus(Plus(w, c), d), ViewsMade(b), Loose(b, lossy), lossy = {})
        /\ Keeps(mem, k, {d})
    BY <1>5, <1>9, PartsBuilt
  <2>4. Plus(w, c) \in Counts
    BY PlusType
  <2> PICK g : g = Decref(k, d)
    OBVIOUS
  <2>5. /\ Heap(g, Plus(w, c), ViewsMade(b), Loose(b, lossy), lossy = {})
        /\ Keeps(k, g, {})
    BY <2>1, <2>3, <2>4, DecrefPlus
  <2>6. Keeps(mem, g, {d})
    BY <2>3, <2>5, KeepsMore, KeepsChain
  <2>7. /\ {d} \cap mem.native = {} /\ {d} \cap Queries = {} /\ {d} \cap Iters = {}
        /\ \A j \in DOMAIN b : Worked(b[j]) => b[j].on \notin {d}
    BY <2>1, <2>2
  <2> QED BY <1>7, <1>9, <2>5, <2>6, <2>7
<1>10. Top.on = c
  BY <1>1, <1>2 DEF Ends
<1> QED BY <1>8, <1>9, <1>10 DEF NewFails, Fresh

LEMMA NewForgetsKept ==
  ASSUME IInv, NewForgets
  PROVE  IInv'
<1> PICK l : l = lossy \cup {"constructor"}
  OBVIOUS
<1>1. PICK b \in Seq(Frames), f \in Frames : Ends("new", b, f)
  BY Ending DEF NewForgets
<1>2. PICK c \in Builders : f.on = c /\ f.args = <<>> /\ f.locals = <<c>>
  BY <1>1, FrameKinds DEF Ends
<1> PICK w \in Counts : w = Ext(prog, b)
  BY ExtType
<1>3. reads' = reads /\ lossy' = l /\ c \in Objects
  BY Kinds DEF NewForgets, Raise
<1>4. /\ Hand(Hand(w, f.args), f.locals) = Plus(w, c) /\ Hand(w, f.args) = w
      /\ \A d : Hand(Plus(w, d), f.args) = Plus(w, d)
  BY <1>2, HandSmall, PlusType
<1>5. Heap(mem, Plus(w, c), ViewsMade(b), Loose(b, l), l = {})
  BY <1>1, <1>4 DEF Ends
<1>6. Sound(mem, prog, Append(b, f), reads, lossy) /\ reads \in [Iters -> Views \cup {None}]
  BY <1>1, Parts DEF Ends
\* The constructor is released from the heap g, and not freed.
<1>7. ASSUME NEW F, NEW g, Keeps(mem, g, F), NEW u \in Counts,
             Heap(g, Plus(u, c), ViewsMade(b), Loose(b, l), l = {})
      PROVE  /\ Heap(Forgotten(Decref(g, c)), u, ViewsMade(b), Loose(b, l), l = {})
             /\ Keeps(mem, Forgotten(Decref(g, c)), F)
  <2> PICK h : h = Decref(g, c)
    OBVIOUS
  <2>1. Heap(h, u, ViewsMade(b), Loose(b, l), l = {}) /\ Keeps(g, h, {})
    BY <1>3, <1>7, DecrefPlus
  <2>2. "constructor" \in l
    OBVIOUS
  <2>3. Heap(Block(h, 1), u, ViewsMade(b), Loose(b, l), l = {}) /\ Keeps(h, Block(h, 1), {})
    BY <2>1, <2>2, BlockLost
  <2>4. Keeps(mem, Block(h, 1), F)
    BY <1>7, <2>1, <2>3, KeepsMore, KeepsChain
  <2> QED BY <2>3, <2>4 DEF Forgotten
<1>8. ASSUME NEW F, F \cap mem.native = {}, F \cap Queries = {}, F \cap Iters = {},
             \A j \in DOMAIN b : Worked(b[j]) => b[j].on \notin F,
             NEW g, Keeps(mem, g, F),
             Heap(g, Plus(w, c), ViewsMade(b), Loose(b, l), l = {}),
             Leave(Forgotten(Decref(g, c))), prog' = prog
      PROVE  IInv'
  <2> PICK h : h = Forgotten(Decref(g, c))
    OBVIOUS
  <2>1. mem' = Release(h, f.args) /\ calls' = b
    BY <1>1, <1>8 DEF Leave, Ends
  <2>2. Heap(h, w, ViewsMade(b), Loose(b, l), l = {}) /\ Keeps(mem, h, F)
    BY <1>7, <1>8
  <2>3. Heap(h, Hand(Ext(prog, b), f.args), ViewsMade(b), Loose(b, l), l = {})
    BY <1>4, <2>2
  <2>4. Sound(Release(h, f.args), prog, b, reads, l)
    BY <1>6, <1>8, <2>2, <2>3, LeftWithout
  <2> QED BY <1>3, <1>8, <2>1, <2>4 DEF IInv
<1>9. CASE Leave(Forgotten(Decref(mem, c))) /\ prog' = prog
  <2>1. /\ {} \cap mem.native = {} /\ {} \cap Queries = {} /\ {} \cap Iters = {}
        /\ \A k \in DOMAIN b : Worked(b[k]) => b[k].on \notin {}
    OBVIOUS
  <2>2. Keeps(mem, mem, {})
    BY Parts, KeepsSelf
  <2> QED BY <1>5, <1>8, <1>9, <2>1, <2>2
<1>10. ASSUME NEW d \in Dbs, d \notin mem.born
       PROVE  /\ d \in Objects /\ d \notin Queries /\ d \notin Iters
              /\ d \notin mem.native /\ d \notin prog /\ \A j \in DOMAIN b : b[j].on # d
              /\ \A k \in PartlyBuilt(mem, d) :
                   Heap(k, Plus(Plus(w, c), d), ViewsMade(b), Loose(b, l), l = {}) /\ Keeps(mem, k, {d})
  <2>1. d \in Objects /\ d \notin Queries /\ d \notin Iters
    BY Kinds
  <2>2. d \notin mem.native /\ d \notin prog /\ \A j \in DOMAIN b : b[j].on # d
    BY <1>1, <1>10, <2>1, UnknownBelow
  <2>3. \A k \in PartlyBuilt(mem, d) :
          Heap(k, Plus(Plus(w, c), d), ViewsMade(b), Loose(b, l), l = {}) /\ Keeps(mem, k, {d})
    BY <1>5, <1>10, PartsBuilt
  <2> QED BY <2>1, <2>2, <2>3
<1>11. ASSUME NEW d \in Dbs, d \notin mem.born, NEW k \in PartlyBuilt(mem, d),
              Leave(Forgotten(Decref(Decref(k, d), c))), prog' = prog
       PROVE  IInv'
  <2>1. /\ d \in Objects /\ d \notin Queries /\ d \notin Iters
        /\ d \notin mem.native /\ \A j \in DOMAIN b : b[j].on # d
        /\ Heap(k, Plus(Plus(w, c), d), ViewsMade(b), Loose(b, l), l = {}) /\ Keeps(mem, k, {d})
    BY <1>10, <1>11
  <2> PICK g : g = Decref(k, d)
    OBVIOUS
  <2>2. Plus(w, c) \in Counts
    BY PlusType
  <2>3. Heap(g, Plus(w, c), ViewsMade(b), Loose(b, l), l = {}) /\ Keeps(k, g, {})
    BY <2>1, <2>2, DecrefPlus
  <2>4. Keeps(mem, g, {d})
    BY <2>1, <2>3, KeepsMore, KeepsChain
  <2>5. /\ {d} \cap mem.native = {} /\ {d} \cap Queries = {} /\ {d} \cap Iters = {}
        /\ \A j \in DOMAIN b : Worked(b[j]) => b[j].on \notin {d}
    BY <2>1
  <2> QED BY <1>8, <1>11, <2>3, <2>4, <2>5
<1>12. ASSUME NEW d \in Dbs, d \notin mem.born,
              Leave(Forgotten(Decref(Built(mem, d), c))), prog' = prog \cup {d}
       PROVE  IInv'
  <2> PICK g \in PartlyBuilt(mem, d) : g = Built(mem, d)
    BY DEF PartlyBuilt
  <2> PICK h : h = Forgotten(Decref(g, c))
    OBVIOUS
  <2>1. /\ d \in Objects /\ d \notin Queries /\ d \notin Iters
        /\ d \notin mem.native /\ d \notin prog /\ \A j \in DOMAIN b : b[j].on # d
        /\ Heap(g, Plus(Plus(w, c), d), ViewsMade(b), Loose(b, l), l = {}) /\ Keeps(mem, g, {d})
    BY <1>10, <1>12
  <2>2. Plus(Plus(w, c), d) = Plus(Plus(w, d), c) /\ Plus(w, d) \in Counts
    BY PlusSwap, PlusType
  <2>3. Heap(h, Plus(w, d), ViewsMade(b), Loose(b, l), l = {}) /\ Keeps(mem, h, {d})
    BY <1>7, <2>1, <2>2
  <2>4. Heap(h, Hand(Plus(Ext(prog, b), d), f.args), ViewsMade(b), Loose(b, l), l = {})
    BY <1>4, <2>3
  <2>5. mem' = Release(h, f.args) /\ calls' = b
    BY <1>1, <1>12 DEF Leave, Ends
  <2>6. Sound(Release(h, f.args), prog \cup {d}, b, reads, l)
    BY <1>6, <2>1, <2>3, <2>4, LeftWith
  <2> QED BY <1>3, <1>12, <2>5, <2>6 DEF IInv
<1>13. Top.on = c
  BY <1>1, <1>2 DEF Ends
<1> QED BY <1>9, <1>11, <1>12, <1>13 DEF NewForgets, Fresh, Returns

\* The references of a query are released: what is left is what its caller lent.
LEMMA QueryReleases ==
  ASSUME IInv, NEW b \in Seq(Frames), NEW f \in Frames, Ends("query", b, f),
         NEW g, NEW k, NEW e,
         Heap(g, Hand(Hand(Ext(prog, b), f.args), f.locals), ViewsMade(b), Loose(b, k), e),
         Keeps(mem, g, {})
  PROVE  /\ Heap(Release(g, QueryLocals), Hand(Ext(prog, b), f.args), ViewsMade(b), Loose(b, k), e)
         /\ Keeps(mem, Release(g, QueryLocals), {})
<1>1. QueryLocals = f.locals
  BY DEF QueryLocals, Ends
<1> PICK u \in Counts : u = Hand(Ext(prog, b), f.args)
  BY ExtType, HandType
<1>2. \A j \in 1 .. 3 : Nth(f.locals, j) \in Objects \cup {None}
  BY FrameShape
<1>3. /\ Heap(Release(g, f.locals), u, ViewsMade(b), Loose(b, k), e)
      /\ Keeps(g, Release(g, f.locals), {})
  BY <1>2, ReleaseHeap
<1>4. Keeps(mem, Release(g, f.locals), {})
  BY <1>3, KeepsChain
<1> QED BY <1>1, <1>3, <1>4

\* A query that raises, after the blocks of g were lost.
LEMMA QueryEnds ==
  ASSUME IInv, NEW b \in Seq(Frames), NEW f \in Frames, Ends("query", b, f),
         NEW g, NEW k, Heap(g, Hand(Hand(Ext(prog, b), f.args), f.locals), ViewsMade(b), Loose(b, k), k = {}),
         Keeps(mem, g, {}), Leave(Release(g, QueryLocals))
  PROVE  Sound(mem', prog, calls', reads, k)
<1> PICK h : h = Release(g, QueryLocals)
  OBVIOUS
<1>1. mem' = Release(h, f.args) /\ calls' = b
  BY DEF Leave, Ends
<1>2. /\ Heap(h, Hand(Ext(prog, b), f.args), ViewsMade(b), Loose(b, k), k = {})
      /\ Keeps(mem, h, {})
  BY QueryReleases
<1>3. Sound(mem, prog, Append(b, f), reads, lossy)
  BY DEF Ends
<1>4. /\ {} \cap mem.native = {} /\ {} \cap Queries = {} /\ {} \cap Iters = {}
      /\ \A j \in DOMAIN b : Worked(b[j]) => b[j].on \notin {}
  OBVIOUS
<1>5. Sound(Release(h, f.args), prog, b, reads, k)
  BY <1>2, <1>3, <1>4, LeftWithout
<1> QED BY <1>1, <1>5

LEMMA QueryRaisesKept ==
  ASSUME IInv, QueryRaises
  PROVE  IInv'
<1>1. PICK b \in Seq(Frames), f \in Frames : Ends("query", b, f)
  BY Ending DEF QueryRaises
<1>2. prog' = prog /\ reads' = reads /\ lossy' = lossy /\ Leave(Release(mem, QueryLocals))
  BY DEF QueryRaises, Raise
<1>3. Heap(mem, Hand(Hand(Ext(prog, b), f.args), f.locals), ViewsMade(b), Loose(b, lossy), lossy = {})
  BY <1>1 DEF Ends
<1>4. Keeps(mem, mem, {})
  BY Parts, KeepsSelf
<1>5. Sound(mem', prog, calls', reads, lossy)
  BY <1>1, <1>2, <1>3, <1>4, QueryEnds
<1> QED BY <1>2, <1>5 DEF IInv

LEMMA LiteralRaisesKept ==
  ASSUME IInv, LiteralRaises
  PROVE  IInv'
<1>1. PICK b \in Seq(Frames), f \in Frames : Ends("query", b, f)
  BY Ending DEF LiteralRaises, Querying
<1> PICK k : k = lossy \cup {"literal"}
  OBVIOUS
<1> PICK g : g = Block(mem, 1)
  OBVIOUS
<1>2. prog' = prog /\ reads' = reads /\ lossy' = k /\ Leave(Release(g, QueryLocals))
  BY DEF LiteralRaises, Raise
<1>3. (k = {}) = FALSE
  OBVIOUS
<1>4. Heap(mem, Hand(Hand(Ext(prog, b), f.args), f.locals), ViewsMade(b), Loose(b, k), k = {})
  BY <1>1 DEF Ends
<1>5. Heap(g, Hand(Hand(Ext(prog, b), f.args), f.locals), ViewsMade(b), Loose(b, k), k = {})
  BY <1>3, <1>4, BlockHeap
<1>6. Keeps(mem, g, {})
  BY Parts, BlockKeeps
<1>7. Sound(mem', prog, calls', reads, k)
  BY <1>1, <1>2, <1>5, <1>6, QueryEnds
<1> QED BY <1>2, <1>7 DEF IInv

LEMMA QueryLosesCursorKept ==
  ASSUME IInv, QueryLosesCursor
  PROVE  IInv'
<1>1. PICK b \in Seq(Frames), f \in Frames : Ends("query", b, f)
  BY Ending DEF QueryLosesCursor, Querying
<1> PICK k : k = lossy \cup {"cursor"}
  OBVIOUS
<1> PICK g : g = Release(mem, QueryLocals)
  OBVIOUS
<1> PICK h : h = Block(g, 1)
  OBVIOUS
<1>2. /\ mem' = Release(h, f.args) /\ calls' = b /\ prog' = prog
      /\ reads' = reads /\ lossy' = k
  BY <1>1 DEF QueryLosesCursor, CursorLost, Raise, Leave, Ends
<1>3. Heap(mem, Hand(Hand(Ext(prog, b), f.args), f.locals), ViewsMade(b), Loose(b, k), k = {})
  BY <1>1 DEF Ends
<1>4. Keeps(mem, mem, {})
  BY Parts, KeepsSelf
<1>5. Heap(g, Hand(Ext(prog, b), f.args), ViewsMade(b), Loose(b, k), k = {}) /\ Keeps(mem, g, {})
  BY <1>1, <1>3, <1>4, QueryReleases
<1>6. "cursor" \in k
  OBVIOUS
<1>7. Heap(h, Hand(Ext(prog, b), f.args), ViewsMade(b), Loose(b, k), k = {}) /\ Keeps(g, h, {})
  BY <1>5, <1>6, BlockLost
<1>8. Keeps(mem, h, {})
  BY <1>5, <1>7, KeepsChain
<1>9. Sound(mem, prog, Append(b, f), reads, lossy)
  BY <1>1 DEF Ends
<1>10. /\ {} \cap mem.native = {} /\ {} \cap Queries = {} /\ {} \cap Iters = {}
       /\ \A j \in DOMAIN b : Worked(b[j]) => b[j].on \notin {}
  OBVIOUS
<1>11. Sound(Release(h, f.args), prog, b, reads, k)
  BY <1>7, <1>8, <1>9, <1>10, LeftWithout
<1> QED BY <1>2, <1>11 DEF IInv

LEMMA QueryReturnsKept ==
  ASSUME IInv, NEW i \in Iters, QueryReturns(i)
  PROVE  IInv'
<1>1. PICK b \in Seq(Frames), f \in Frames : Ends("query", b, f)
  BY Ending DEF QueryReturns, Querying
<1>2. PICK d \in Dbs, q \in Queries, v \in Views \cup {None} :
        /\ f.on = d /\ f.args = <<d, q, v>>
        /\ f.locals = <<q, v>> \/ \E r \in Queries : f.locals = <<q, v, r>>
  BY <1>1, FrameKinds DEF Ends
<1>3. f.locals[2] = v
  BY <1>2
<1> PICK w \in Counts : w = Ext(prog, b)
  BY ExtType
<1> PICK g : g = Release(mem, QueryLocals)
  OBVIOUS
<1> PICK h : h = IterNew(g, i, d)
  OBVIOUS
<1> PICK s : s = [reads EXCEPT ![i] = v]
  OBVIOUS
<1>4. /\ mem' = Release(h, f.args) /\ calls' = b /\ prog' = prog \cup {i}
      /\ reads' = s /\ lossy' = lossy /\ i \notin mem.born
  BY <1>1, <1>2, <1>3 DEF QueryReturns, Leave, Returns, Fresh, Fine, Ends
<1>5. i \in Objects /\ i \notin Queries /\ d \in Objects /\ d \notin Queries
  BY Kinds
<1>6. i \notin mem.native /\ i \notin prog /\ \A j \in DOMAIN b : b[j].on # i
  BY <1>1, <1>4, <1>5, UnknownBelow
<1>7. Heap(mem, Hand(Hand(w, f.args), f.locals), ViewsMade(b), Loose(b, lossy), lossy = {})
  BY <1>1 DEF Ends
<1>8. Keeps(mem, mem, {})
  BY Parts, KeepsSelf
<1>9. /\ Heap(g, Hand(w, f.args), ViewsMade(b), Loose(b, lossy), lossy = {})
      /\ Keeps(mem, g, {})
  BY <1>1, <1>7, <1>8, QueryReleases
<1>10. g.refs[d] > 0
  <2>1. Hand(w, f.args) \in Counts
        /\ Hand(w, f.args)[d] = w[d] + One(Nth(f.args, 1), d) + One(Nth(f.args, 2), d) + One(Nth(f.args, 3), d)
    BY <1>5, HandType
  <2>2. One(Nth(f.args, 1), d) = 1
    BY <1>2, NthThree DEF One
  <2>3. PICK x \in Nat, y \in Nat, z \in Nat :
          w[d] = x /\ One(Nth(f.args, 2), d) = y /\ One(Nth(f.args, 3), d) = z
    BY <1>5 DEF One, Counts
  <2>4. x + 1 + y + z > 0
    OBVIOUS
  <2>5. Hand(w, f.args)[d] > 0
    BY <2>1, <2>2, <2>3, <2>4
  <2>6. Loose(b, lossy) \subseteq Queries
    BY DEF Loose
  <2> QED BY <1>5, <1>9, <2>5, <2>6, CountedLive
<1>11. d \in g.native /\ i \notin g.born
  <2>1. d \in mem.native
    BY <1>1, <1>2 DEF Ends
  <2> QED BY <1>4, <1>5, <1>9, <1>10, <2>1 DEF Keeps
<1>12. /\ Heap(h, Plus(Hand(w, f.args), i), ViewsMade(b), Loose(b, lossy), lossy = {})
       /\ Keeps(g, h, {i}) /\ h.holds[i] \in h.native
  BY <1>9, <1>11, IterMade
<1>13. Heap(h, Hand(Plus(Ext(prog, b), i), f.args), ViewsMade(b), Loose(b, lossy), lossy = {})
  BY <1>12, HandSwap
<1>14. Keeps(mem, h, {i})
  BY <1>9, <1>12, KeepsMore, KeepsChain
<1>15. Sound(mem, prog, Append(b, f), reads, lossy)
  BY <1>1 DEF Ends
<1>16. s \in [Iters -> Views \cup {None}]
  BY Parts
<1>17. Sound(Release(h, f.args), prog \cup {i}, b, s, lossy)
  BY <1>5, <1>6, <1>12, <1>13, <1>14, <1>15, <1>16, LeftWith
<1> QED BY <1>4, <1>17 DEF IInv

LEMMA ResolvesKept ==
  ASSUME IInv, NEW r \in Queries, Resolves(r)
  PROVE  IInv'
<1>1. PICK b \in Seq(Frames), f \in Frames : Ends("query", b, f)
  BY Ending DEF Resolves, Querying
<1>2. PICK d \in Dbs, q \in Queries, v \in Views \cup {None} :
        /\ f.on = d /\ f.args = <<d, q, v>>
        /\ f.locals = <<q, v>> \/ \E x \in Queries : f.locals = <<q, v, x>>
  BY <1>1, FrameKinds DEF Ends
<1>3. f.locals = <<q, v>>
  <2>1. Len(f.locals) = 2
    BY <1>1 DEF Resolves, Querying, Ends
  <2>2. \A x : Len(<<q, v, x>>) = 3
    OBVIOUS
  <2> QED BY <1>2, <2>1, <2>2
<1> PICK h : h = Frame("query", d, <<d, q, v>>, <<q, v, r>>)
  OBVIOUS
<1>4. /\ h.op = "query" /\ h.on = d /\ h.args = f.args /\ h.locals = <<q, v, r>> /\ h \in Frames
      /\ f.op = "query"
  <2>1. f.args = <<d, q, v>> /\ f.op = "query"
    BY <1>1, <1>2 DEF Ends
  <2>2. h \in Frames
    BY DEF Frames, AnswerFrames
  <2> QED BY <2>1, <2>2 DEF Frame
<1>5. /\ mem' = Alloc(mem, r) /\ prog' = prog /\ reads' = reads /\ lossy' = lossy
      /\ r \in Objects /\ r \notin mem.born /\ r \notin Iters /\ r # d
      /\ calls' = [calls EXCEPT ![Len(calls)].locals = Append(@, r)]
  BY Kinds DEF Resolves, Fresh, Fine
<1>6. calls' = Append(b, h)
  <2>1. calls = Append(b, f) /\ Len(calls) = Len(b) + 1 /\ b \in Seq(Frames) /\ f \in Frames
    BY <1>1 DEF Ends
  <2>2. Append(f.locals, r) = <<q, v, r>>
    BY <1>3, AppendPair
  <2>3. h = Frame(f.op, f.on, f.args, Append(f.locals, r))
    BY <1>2, <1>4, <2>2
  <2>4. [f EXCEPT !.locals = Append(@, r)] = h
    <3>1. More(f, r) = h
      BY <2>1, <2>3, MoreLocals
    <3> QED BY <3>1 DEF More
  <2> PICK n : n = Len(calls)
    OBVIOUS
  <2>5. n \in Nat /\ n \in 1 .. n
    BY <2>1, AppendIs
  <2> PICK c \in [1 .. n -> Frames] : c = calls
    BY <2>1, AppendIs
  <2> PICK z \in [1 .. n -> Frames] : z = Append(b, h)
    BY <1>4, <2>1, AppendIs
  <2>6. c[n] = f /\ \A i \in 1 .. n : i # n => c[i] = b[i]
    BY <2>1, AppendIs
  <2>7. z[n] = h /\ \A i \in 1 .. n : i # n => z[i] = b[i]
    BY <1>4, <2>1, AppendIs
  <2>8. [c EXCEPT ![n].locals = Append(@, r)] = [c EXCEPT ![n] = h]
    BY <2>4, <2>5, <2>6
  <2>9. [c EXCEPT ![n] = h] = z
    <3>1. [c EXCEPT ![n] = h] \in [1 .. n -> Frames]
      BY <1>4
    <3>2. \A i \in 1 .. n : [c EXCEPT ![n] = h][i] = z[i]
      BY <2>5, <2>6, <2>7
    <3> QED BY <3>1, <3>2
  <2> QED BY <1>5, <2>8, <2>9
<1> PICK w \in Counts : w = Ext(prog, b)
  BY ExtType
<1> PICK g : g = Alloc(mem, r)
  OBVIOUS
<1>7. Heap(mem, Hand(Hand(w, f.args), f.locals), ViewsMade(b), Loose(b, lossy), lossy = {})
  BY <1>1 DEF Ends
<1>8. /\ r \notin prog /\ r \notin mem.native /\ r \notin Resolved(b)
      /\ \A j \in DOMAIN b : b[j].on # r
  BY <1>1, <1>5, UnknownBelow
<1>9. Heap(g, Plus(Hand(Hand(w, f.args), f.locals), r), ViewsMade(b), Loose(b, lossy) \ {r}, lossy = {})
  BY <1>5, <1>7, AllocHeap
<1>10. Keeps(mem, g, {r})
  BY <1>5, Parts, AllocKeeps
<1>11. Ext(prog, Append(b, h)) = Plus(Hand(Hand(w, f.args), f.locals), r)
  <2> PICK u \in Counts : u = Hand(w, f.args)
    BY HandType
  <2>1. Ext(prog, Append(b, h)) = Hand(u, <<q, v, r>>)
    BY <1>4, ExtAppend
  <2>2. Hand(u, <<q, v, r>>) = Plus(Plus(Plus(u, r), v), q)
    BY HandSmall
  <2>3. Plus(Plus(u, r), v) = Plus(Plus(u, v), r) /\ Plus(u, v) \in Counts
    BY PlusSwap, PlusType
  <2>4. Plus(Plus(Plus(u, v), r), q) = Plus(Plus(Plus(u, v), q), r)
    BY <2>3, PlusSwap
  <2>5. Hand(u, f.locals) = Plus(Plus(u, v), q)
    BY <1>3, HandSmall
  <2> QED BY <2>1, <2>2, <2>3, <2>4, <2>5
<1>12. ViewsMade(Append(b, h)) = ViewsMade(b)
  <2>1. PICK n \in Nat : ViewsMade(b) = n /\ ViewsMade(Append(b, h)) = n + One(h.op, "view")
    BY <1>4, ViewsAppend
  <2>2. One(h.op, "view") = 0
    BY <1>4 DEF One
  <2> QED BY <2>1, <2>2
<1>13. Loose(Append(b, h), lossy) = Loose(b, lossy) \ {r}
  <2>1. Nth(h.locals, 3) = r
    BY <1>4, NthThree
  <2>2. Resolved(Append(b, h)) = Resolved(b) \cup {r}
    BY <1>4, <2>1, ResolvedAppend
  <2> QED BY <2>2 DEF Loose
<1>14. Heap(g, Ext(prog, Append(b, h)), ViewsMade(Append(b, h)), Loose(Append(b, h), lossy), lossy = {})
  BY <1>9, <1>11, <1>12, <1>13
<1>15. /\ Sound(mem, prog, Append(b, f), reads, lossy) /\ FramesSound(mem, prog, b)
       /\ Len(b) < MaxDepth /\ h.on \in mem.native
  BY <1>1, <1>2, <1>4 DEF Ends
<1>16. /\ {r} \cap mem.native = {} /\ {r} \cap Resolved(b) = {} /\ h.on \notin {r} /\ ~Unfinished(h)
       /\ \A j \in DOMAIN b : Worked(b[j]) => b[j].on \notin {r}
       /\ \A i \in {r} \cap Iters : g.refs[i] > 0 => g.holds[i] \in g.native
  BY <1>4, <1>5, <1>8 DEF Unfinished
<1>17. Nth(h.locals, 3) \notin prog
  BY <1>4, <1>8, NthThree
<1>18. Sound(g, prog, Append(b, h), reads, lossy)
  BY <1>4, <1>10, <1>14, <1>15, <1>16, <1>17, SettledIn
<1> QED BY <1>5, <1>6, <1>18 DEF IInv

\* The constructor of a view is freed, and the reference to the database released.
LEMMA ViewReleases ==
  ASSUME NEW g, NEW w \in Counts, NEW v, NEW d \in Dbs, NEW n \in Nat, NEW L, NEW e,
         Heap(g, Plus(Plus(w, d), v), n + 1, L, e), Top.locals[2] = d
  PROVE  Heap(ViewDone(g), Plus(w, v), n, L, e) /\ Keeps(g, ViewDone(g), {})
<1> PICK h : h = Block(g, -1)
  OBVIOUS
<1>1. n + 1 > 0 /\ (n + 1) - 1 = n
  OBVIOUS
<1>2. Heap(h, Plus(Plus(w, d), v), n, L, e)
  BY <1>1, BlockHeap
<1>3. Keeps(g, h, {})
  BY BlockKeeps DEF Heap, Formed
<1>4. Plus(Plus(w, d), v) = Plus(Plus(w, v), d) /\ Plus(w, v) \in Counts
  BY PlusSwap, PlusType
<1>5. Heap(Decref(h, d), Plus(w, v), n, L, e) /\ Keeps(h, Decref(h, d), {})
  BY <1>2, <1>4, DecrefPlus, Kinds
<1>6. Keeps(g, Decref(h, d), {})
  BY <1>3, <1>5, KeepsChain
<1> QED BY <1>5, <1>6 DEF ViewDone

LEMMA ViewReturnsKept ==
  ASSUME IInv, ViewReturns
  PROVE  IInv'
<1>1. PICK b \in Seq(Frames), f \in Frames : Ends("view", b, f)
  BY Ending DEF ViewReturns
<1>2. PICK v \in Views, d \in Dbs : f.on = v /\ f.args = <<d>> /\ f.locals = <<v, d>>
  BY <1>1, FrameKinds DEF Ends
<1> PICK w \in Counts : w = Ext(prog, b)
  BY ExtType
<1> PICK n \in Nat : n = ViewsMade(b)
  BY ViewsAppend
<1> PICK g : g = Native(mem, v)
  OBVIOUS
<1> PICK h : h = ViewDone(g)
  OBVIOUS
<1>3. /\ mem' = Release(h, f.args) /\ calls' = b /\ prog' = prog \cup {v}
      /\ reads' = reads /\ lossy' = lossy /\ Top.locals[2] = d
  BY <1>1, <1>2 DEF ViewReturns, Leave, Returns, Fine, Ends
<1>4. /\ v \in Objects /\ v \notin Queries /\ v \notin Iters /\ v \notin mem.native /\ v \notin prog
      /\ \A k \in DOMAIN b : Worked(b[k]) => b[k].on # v
  BY <1>1, <1>2, Kinds DEF Ends, Unfinished
<1> PICK u \in Counts : u = Hand(w, f.args)
  BY HandType
<1>5. Hand(Hand(w, f.args), f.locals) = Plus(Plus(u, d), v)
  BY <1>2, HandSmall
<1>6. Heap(mem, Plus(Plus(u, d), v), n + 1, Loose(b, lossy), lossy = {})
  BY <1>1, <1>5 DEF Ends
<1>7. mem.refs[v] > 0 /\ mem \in HeapType
  <2>1. v \in Objects /\ mem.refs[v] > 0
    <3>1. calls \in Seq(Frames)
      BY Parts
    <3>2. Len(calls) \in DOMAIN calls /\ calls[Len(calls)] = f
      BY <1>1 DEF Ends
    <3>3. Heap(mem, Ext(prog, calls), ViewsMade(calls), Loose(calls, lossy), lossy = {})
      BY Parts, Weakened
    <3> QED BY <1>2, <3>1, <3>2, <3>3, OnsLive
  <2> QED BY <2>1, Parts
<1>8. Heap(g, Plus(Plus(u, d), v), n + 1, Loose(b, lossy), lossy = {}) /\ Keeps(mem, g, {v})
  BY <1>4, <1>6, <1>7, NativeHeap, NativeKeeps
<1>9. Heap(h, Plus(u, v), n, Loose(b, lossy), lossy = {}) /\ Keeps(g, h, {})
  BY <1>3, <1>8, ViewReleases
<1>10. Keeps(mem, h, {v})
  BY <1>8, <1>9, KeepsMore, KeepsChain
<1>11. Heap(h, Hand(Plus(Ext(prog, b), v), f.args), ViewsMade(b), Loose(b, lossy), lossy = {})
  BY <1>9, HandSwap
<1>12. Sound(mem, prog, Append(b, f), reads, lossy) /\ reads \in [Iters -> Views \cup {None}]
  BY <1>1, Parts DEF Ends
<1>13. Sound(Release(h, f.args), prog \cup {v}, b, reads, lossy)
  BY <1>4, <1>10, <1>11, <1>12, LeftWith
<1> QED BY <1>3, <1>13 DEF IInv

LEMMA ViewFailsKept ==
  ASSUME IInv, ViewFails
  PROVE  IInv'
<1>1. PICK b \in Seq(Frames), f \in Frames : Ends("view", b, f)
  BY Ending DEF ViewFails
<1>2. PICK v \in Views, d \in Dbs : f.on = v /\ f.args = <<d>> /\ f.locals = <<v, d>>
  BY <1>1, FrameKinds DEF Ends
<1> PICK w \in Counts : w = Ext(prog, b)
  BY ExtType
<1> PICK n \in Nat : n = ViewsMade(b)
  BY ViewsAppend
<1> PICK u \in Counts : u = Hand(w, f.args)
  BY HandType
<1>3. Top.locals[2] = d /\ Top.on = v /\ prog' = prog /\ reads' = reads
  BY <1>1, <1>2 DEF ViewFails, Ends
<1>4. /\ v \in Objects /\ v \notin Queries /\ v \notin Iters /\ v \notin mem.native
      /\ \A k \in DOMAIN b : Worked(b[k]) => b[k].on # v
  BY <1>1, <1>2, Kinds DEF Ends, Unfinished
<1>5. Hand(Hand(w, f.args), f.locals) = Plus(Plus(u, d), v)
  BY <1>2, HandSmall
\* The view is released from what is left of the heap g.
<1>6. ASSUME NEW k, lossy' = k, NEW g, Keeps(mem, g, {}),
             Heap(g, Plus(Plus(u, d), v), n + 1, Loose(b, k), k = {}),
             Leave(Decref(ViewDone(g), v))
      PROVE  IInv'
  <2> PICK h : h = Decref(ViewDone(g), v)
    OBVIOUS
  <2>1. mem' = Release(h, f.args) /\ calls' = b
    BY <1>1, <1>6 DEF Leave, Ends
  <2>2. Heap(ViewDone(g), Plus(u, v), n, Loose(b, k), k = {}) /\ Keeps(g, ViewDone(g), {})
    BY <1>3, <1>6, ViewReleases
  <2>3. Heap(h, u, n, Loose(b, k), k = {}) /\ Keeps(ViewDone(g), h, {})
    BY <1>4, <2>2, DecrefPlus
  <2>4. Keeps(mem, h, {})
    BY <1>6, <2>2, <2>3, KeepsChain
  <2>5. Sound(mem, prog, Append(b, f), reads, lossy)
    BY <1>1 DEF Ends
  <2>6. /\ {} \cap mem.native = {} /\ {} \cap Queries = {} /\ {} \cap Iters = {}
        /\ \A j \in DOMAIN b : Worked(b[j]) => b[j].on \notin {}
    OBVIOUS
  <2>7. Heap(h, Hand(Ext(prog, b), f.args), ViewsMade(b), Loose(b, k), k = {})
    BY <2>3
  <2>8. Sound(Release(h, f.args), prog, b, reads, k)
    BY <2>4, <2>5, <2>6, <2>7, LeftWithout
  <2> QED BY <1>3, <1>6, <2>1, <2>8 DEF IInv
<1>7. CASE Leave(Decref(ViewDone(mem), Top.on)) /\ Raise({})
  <2>1. lossy' = lossy
    BY <1>7 DEF Raise
  <2>2. Heap(mem, Plus(Plus(u, d), v), n + 1, Loose(b, lossy), lossy = {})
    BY <1>1, <1>5 DEF Ends
  <2>3. Keeps(mem, mem, {})
    BY Parts, KeepsSelf
  <2> QED BY <1>3, <1>6, <1>7, <2>1, <2>2, <2>3
<1>8. CASE Leave(Decref(ViewDone(Block(mem, 1)), Top.on)) /\ Raise({"item"})
  <2> PICK k : k = lossy \cup {"item"}
    OBVIOUS
  <2> PICK g : g = Block(mem, 1)
    OBVIOUS
  <2>1. lossy' = k /\ (k = {}) = FALSE
    BY <1>8 DEF Raise
  <2>2. Heap(mem, Plus(Plus(u, d), v), n + 1, Loose(b, k), k = {})
    BY <1>1, <1>5 DEF Ends
  <2>3. Heap(g, Plus(Plus(u, d), v), n + 1, Loose(b, k), k = {})
    BY <2>1, <2>2, BlockHeap
  <2>4. Keeps(mem, g, {})
    BY Parts, BlockKeeps
  <2> QED BY <1>3, <1>6, <1>8, <2>1, <2>3, <2>4
<1> QED BY <1>7, <1>8 DEF ViewFails
-----------------------------------------------------------------------------
(***************************************************************************)
(* The invariant, and what it says                                         *)
(***************************************************************************)
LEMMA NothingSound == Sound(NoHeap, {}, <<>>, NoReads, {})
<1> PICK m : m = NoHeap
  OBVIOUS
<1> PICK p, c, r, l : p = {} /\ c = <<>> /\ r = NoReads /\ l = {}
  OBVIOUS
<1>1. /\ m.refs = [o \in Objects |-> 0] /\ m.holds = [o \in Objects |-> None]
      /\ m.born = {} /\ m.native = {} /\ m.buffers = {} /\ m.blocks = 0
      /\ m \in HeapType
  BY DEF NoHeap, HeapType
<1>2. /\ p = {} /\ c = <<>> /\ r \in [Iters -> Views \cup {None}] /\ l = {}
  BY DEF NoReads
<1>3. c \in Seq(Frames) /\ DOMAIN c = {} /\ Len(c) = 0
  BY <1>2
<1>4. Cardinality({}) = 0 /\ IsFiniteSet({})
  BY FS_EmptySet
<1>5. ASSUME NEW o PROVE Lent(c, o) = 0
  <2>1. ASSUME NEW s, DOMAIN s = {} PROVE Times(o, s) = 0
    <3>1. {k \in DOMAIN s : s[k] = o} = {}
      BY <2>1
    <3> QED BY <3>1, <1>4 DEF Times
  <2>2. \A n : DOMAIN Args(c, n) = {} /\ DOMAIN Locals(c, n) = {}
    BY <1>3 DEF Args, Locals
  <2>3. /\ Times(o, Args(c, 1)) = 0 /\ Times(o, Args(c, 2)) = 0 /\ Times(o, Args(c, 3)) = 0
        /\ Times(o, Locals(c, 1)) = 0 /\ Times(o, Locals(c, 2)) = 0 /\ Times(o, Locals(c, 3)) = 0
    BY <2>1, <2>2
  <2> QED BY <2>3 DEF Lent
<1>6. Ext(p, c) \in Counts /\ \A o \in Objects : Ext(p, c)[o] = 0
  BY <1>2, <1>5 DEF Ext, Counts
<1>7. ViewsMade(c) = 0
  <2>1. {k \in DOMAIN c : c[k].op = "view"} = {}
    BY <1>3
  <2> QED BY <2>1, <1>4 DEF ViewsMade
<1>8. Loose(c, l) = {}
  BY <1>2 DEF Loose
<1>9. \A o \in Objects : Cardinality(Holders(m, o)) = 0
  <2>1. \A o \in Objects : Holders(m, o) = {}
    BY <1>1 DEF Holders
  <2> QED BY <2>1, <1>4
<1>10. Formed(m)
  BY <1>1, <1>4 DEF Formed
<1>11. Unborn(m, Ext(p, c))
  BY <1>1, <1>6 DEF Unborn
<1>12. Counted(m, Ext(p, c), {}) /\ Exact(m, Ext(p, c), TRUE)
  BY <1>1, <1>6, <1>9 DEF Counted, Exact
<1>13. Blocks(m, 0, TRUE)
  BY <1>1, <1>4 DEF Blocks
<1>14. Heap(m, Ext(p, c), 0, {}, TRUE)
  BY <1>6, <1>10, <1>11, <1>12, <1>13 DEF Heap
<1>15. (l = {}) = TRUE
  BY <1>2
<1>16. Heap(m, Ext(p, c), ViewsMade(c), Loose(c, l), l = {})
  BY <1>7, <1>8, <1>14, <1>15
<1>17. FramesSound(m, p, c)
  BY <1>2, <1>3 DEF FramesSound
<1>18. CursorsOpen(m)
  BY <1>1, Kinds DEF CursorsOpen
<1>19. Len(c) <= MaxDepth
  BY <1>3, PyObjectsAssumption
<1>20. Sound(m, p, c, r, l)
  BY <1>2, <1>16, <1>17, <1>18, <1>19 DEF Sound
<1> QED BY <1>20

LEMMA InitSound == Init => IInv
BY NothingSound DEF Init, IInv

\* When the interpreter dies there is nothing left to be unsound.
LEMMA CrashKept == ASSUME NEW how, Crash(how) PROVE IInv'
BY NothingSound DEF Crash, IInv

LEMMA StepSound == IInv /\ [Next]_vars => IInv'
<1> SUFFICES ASSUME IInv, [Next]_vars PROVE IInv'
  OBVIOUS
<1>1. CASE UNCHANGED vars
  BY <1>1 DEF IInv, vars
<1>2. CASE \E o \in Objects : Make(o) \/ Drop(o)
  BY <1>2, MakeKept, DropKept
<1>3. CASE DbNext
  <2>1. CASE \E d \in Dbs, b \in Strings : Loads(b, d) \/ LoadsFails(b, d) \/ Dumps(d, b)
    BY <2>1, LoadsKept, LoadsFailsKept, DumpsKept
  <2>2. CASE \E d \in Dbs : LoadCall(d) \/ DumpCall(d) \/ KeyError(d) \/ IterateFails(d)
    BY <2>2, LoadCallKept, DumpCallKept, CursorLostKept
  <2>3. CASE \E d \in Dbs, i \in Iters : Iterate(d, i)
    BY <2>3, IterateKept
  <2>4. CASE LoadReturns \/ LoadFails \/ LoadNothing \/ DumpEnds
    BY <2>4, LoadReturnsKept, LoadFailsKept, LoadNothingKept, DumpEndsKept
  <2> QED BY <1>3, <2>1, <2>2, <2>3, <2>4 DEF DbNext
<1>4. CASE BuilderNext
  <2>1. CASE \E c \in Builders : BuilderNew(c) \/ BuilderFails(c) \/ AddCall(c) \/ NewCall(c)
    BY <2>1, BuilderNewKept, BuilderFailsKept, AddCallKept, NewCallKept
  <2>2. CASE \E c \in Builders, d \in Dbs : Finalize(c, d)
    BY <2>2, FinalizeKept
  <2>3. CASE \E d \in Dbs : NewReturns(d)
    BY <2>3, NewReturnsKept
  <2>4. CASE AddEnds \/ AddForgets \/ NewFails \/ NewForgets
    BY <2>4, AddEndsKept, AddForgetsKept, NewFailsKept, NewForgetsKept
  <2>5. CASE \E c \in Builders : DropForgets(c) \/ CopyForgets(c)
    BY <2>5, DropForgetsKept, CopyForgetsKept
  <2> QED BY <1>4, <2>1, <2>2, <2>3, <2>4, <2>5 DEF BuilderNext
<1>5. CASE QueryNext
  <2>1. CASE \E d \in Dbs, q \in Queries, v \in Views \cup {None} : QueryCall(d, q, v)
    BY <2>1, QueryCallKept
  <2>2. CASE \E d \in Dbs, q \in Queries : QueryMistyped(d, q)
    BY <2>2, QueryMistypedKept
  <2>3. CASE \E r \in Queries : Resolves(r)
    BY <2>3, ResolvesKept
  <2>4. CASE \E i \in Iters : QueryReturns(i)
    BY <2>4, QueryReturnsKept
  <2>5. CASE QueryRaises \/ LiteralRaises \/ QueryLosesCursor
    BY <2>5, QueryRaisesKept, LiteralRaisesKept, QueryLosesCursorKept
  <2> QED BY <1>5, <2>1, <2>2, <2>3, <2>4, <2>5 DEF QueryNext
<1>6. CASE ViewNext
  <2>1. CASE \E v \in Views, d \in Dbs : ViewCall(v, d) \/ ViewNoMemory(v, d)
    BY <2>1, ViewCallKept, ViewNoMemoryKept
  <2>2. CASE ViewReturns \/ ViewFails
    BY <2>2, ViewReturnsKept, ViewFailsKept
  <2> QED BY <1>6, <2>1, <2>2 DEF ViewNext
<1>7. CASE Crashes
  BY <1>7, CrashKept DEF Crashes, UseNothing, NewCrashes, QueryCrashes, ViewCrashes
<1> QED BY <1>1, <1>2, <1>3, <1>4, <1>5, <1>6, <1>7 DEF Next

(***************************************************************************)
(* After every step of the module every count covers the references there  *)
(* are, every frame has what it works on, and every cursor its database.   *)
(***************************************************************************)
THEOREM HeapIsSound == Spec => []IInv
BY InitSound, StepSound, PTL DEF Spec

\* What somebody refers to is there, unless it is loose.
LEMMA OwedIs ==
  ASSUME IInv, NEW o \in Objects
  PROVE  /\ Owed(o) = Ext(prog, calls)[o] + Cardinality(Holders(mem, o))
         /\ Ext(prog, calls)[o] > 0 => o \in mem.born
         /\ Ext(prog, calls)[o] > 0 /\ o \notin Loose(calls, lossy) => mem.refs[o] > 0
         /\ o \in Queries \/ o \notin Loose(calls, lossy)
<1>1. Ext(prog, calls)[o] = (IF o \in prog THEN 1 ELSE 0) + Lent(calls, o)
  BY Parts, ExtType
<1>2. {x \in Objects : Live(x) /\ mem.holds[x] = o} = Holders(mem, o)
  BY DEF Holders, Live
<1>3. Owed(o) = Ext(prog, calls)[o] + Cardinality(Holders(mem, o))
  BY <1>1, <1>2 DEF Owed
<1>4. Heap(mem, Ext(prog, calls), ViewsMade(calls), Loose(calls, lossy), lossy = {})
  BY Parts, Weakened
<1>5. /\ Ext(prog, calls)[o] > 0 => o \in mem.born
      /\ Ext(prog, calls)[o] > 0 /\ o \notin Loose(calls, lossy) => mem.refs[o] > 0
  BY <1>4, CountedLive
<1> QED BY <1>3, <1>5 DEF Loose

\* A database with its struct ddb is alive, and so are the bytes it lies in.
LEMMA NativeReadable ==
  ASSUME IInv, NEW d \in mem.native
  PROVE  d \in Objects /\ Live(d) /\ Readable(d)
<1>1. Heap(mem, Ext(prog, calls), ViewsMade(calls), Loose(calls, lossy), lossy = {})
  BY Parts, Weakened
<1>2. d \in Objects /\ mem.refs[d] > 0
  BY <1>1 DEF Heap, Formed, HeapType
<1>3. mem.holds[d] # None => mem.refs[mem.holds[d]] > 0
  BY <1>1, <1>2, HeldLive
<1> QED BY <1>2, <1>3 DEF Live, Readable

(***************************************************************************)
(* No cursor reads freed memory, and counts are those of objects there     *)
(* are: an iterator keeps its database, a database its bytes.              *)
(***************************************************************************)
THEOREM MemoryStaysSafe == Spec => []MemorySafe
<1>1. ASSUME IInv PROVE TypeOK
  <2>1. Heap(mem, Ext(prog, calls), ViewsMade(calls), Loose(calls, lossy), lossy = {})
    BY <1>1, Parts, Weakened
  <2>2. /\ mem.refs \in [Objects -> Nat] /\ mem.holds \in [Objects -> Objects \cup {None}]
        /\ mem.born \subseteq Objects /\ mem.native \subseteq mem.born
        /\ mem.buffers \subseteq mem.born \cap Dbs /\ mem.blocks \in Nat
    BY <2>1 DEF Heap, Formed, HeapType
  <2>3. ASSUME NEW o \in prog PROVE o \in mem.born
    <3>1. o \in Objects /\ Lent(calls, o) \in Nat
      BY <1>1, Parts, LentType
    <3>2. Ext(prog, calls)[o] = 1 + Lent(calls, o)
      BY <1>1, <3>1, Parts, ExtType
    <3>3. Ext(prog, calls)[o] > 0
      BY <3>1, <3>2
    <3> QED BY <1>1, <3>1, <3>3, OwedIs
  <2> QED BY <1>1, <2>2, <2>3, Parts DEF TypeOK
<1>2. ASSUME IInv PROVE CursorsReadLive
  <2>1. \A i \in Iters : mem.refs[i] > 0 => mem.holds[i] \in mem.native
    BY <1>2 DEF IInv, Sound, CursorsOpen
  <2> QED BY <1>2, <2>1, NativeReadable DEF CursorsReadLive, Live
<1> QED BY <1>1, <1>2, HeapIsSound, PTL DEF MemorySafe

(***************************************************************************)
(* An object is counted at least as often as it is referred to: what is    *)
(* still used is not freed.  The one exception is the query that is passed *)
(* with something that is no view.                                         *)
(***************************************************************************)
THEOREM ReferencesAreCovered == Spec => []ReferencesCovered
<1>1. ASSUME IInv, NEW o \in Objects, mem.refs[o] < Owed(o)
      PROVE  o \in Queries /\ "view type" \in lossy
  <2>1. Heap(mem, Ext(prog, calls), ViewsMade(calls), Loose(calls, lossy), lossy = {})
    BY <1>1, Parts, Weakened
  <2>2. PICK c \in Nat : Cardinality(Holders(mem, o)) = c
    BY <2>1, HoldersFinite DEF Heap
  <2>3. PICK u \in Nat : Ext(prog, calls)[o] = u
    BY <1>1, Parts DEF Counts
  <2>4. PICK z \in Nat : mem.refs[o] = z
    BY <2>1 DEF Heap, Formed, HeapType
  <2>5. o \notin Loose(calls, lossy) => mem.refs[o] >= Ext(prog, calls)[o] + Cardinality(Holders(mem, o))
    BY <2>1 DEF Heap, Counted
  <2>6. Owed(o) = u + c
    BY <1>1, <2>2, <2>3, OwedIs
  <2>7. z < u + c
    BY <1>1, <2>4, <2>6
  <2>8. o \in Loose(calls, lossy)
    BY <2>2, <2>3, <2>4, <2>5, <2>7
  <2> QED BY <2>8 DEF Loose
<1>2. IInv => ReferencesCovered
  BY <1>1 DEF ReferencesCovered
<1> QED BY <1>2, HeapIsSound, PTL

(***************************************************************************)
(* Without one of the seven error paths that do not clean up, every count  *)
(* is exact, every block has an owner, and every owner is alive: what is   *)
(* dropped is freed.                                                       *)
(***************************************************************************)
THEOREM OnlyLossyPathsDoLose == Spec => []OnlyLossyPathsLose
<1>1. ASSUME IInv, lossy = {}
      PROVE  /\ \A o \in Objects : mem.refs[o] = Owed(o)
             /\ mem.blocks = Cardinality(mem.native) + Cardinality(mem.buffers)
                             + Cardinality({k \in DOMAIN calls : calls[k].op = "view"})
             /\ \A o \in mem.native \cup mem.buffers : Live(o)
  <2>1. Heap(mem, Ext(prog, calls), ViewsMade(calls), Loose(calls, lossy), lossy = {})
    BY <1>1, Parts, Weakened
  <2>2. \A o \in Objects : mem.refs[o] = Ext(prog, calls)[o] + Cardinality(Holders(mem, o))
    BY <1>1, <2>1 DEF Heap, Exact
  <2>3. \A o \in Objects : mem.refs[o] = Owed(o)
    BY <1>1, <2>2, OwedIs
  <2>4. mem.blocks = Cardinality(mem.native) + Cardinality(mem.buffers) + ViewsMade(calls)
    BY <1>1, <2>1 DEF Heap, Blocks
  <2>5. \A o \in mem.native \cup mem.buffers : Live(o)
    BY <2>1 DEF Heap, Formed, Live
  <2> QED BY <2>3, <2>4, <2>5 DEF ViewsMade
<1>2. IInv => OnlyLossyPathsLose
  BY <1>1 DEF OnlyLossyPathsLose
<1> QED BY <1>2, HeapIsSound, PTL

(***************************************************************************)
(* Whatever the program does while it is called back, the database, the    *)
(* view and the resolved query are there until the library has seen the    *)
(* terms, which point into the query's strings.                            *)
(***************************************************************************)
THEOREM TermsDoOutliveTheCall == Spec => []TermsOutliveTheCall
<1>1. ASSUME IInv, NEW k \in DOMAIN calls, calls[k].op = "query"
      PROVE  /\ Readable(calls[k].on)
             /\ calls[k].locals[2] # None => Live(calls[k].locals[2])
             /\ Len(calls[k].locals) = 3 => Live(calls[k].locals[3])
  <2> PICK f : f = calls[k]
    OBVIOUS
  <2>1. f \in Frames /\ f.on \in mem.native /\ calls \in Seq(Frames)
    BY <1>1, Parts DEF FramesSound
  <2>2. Readable(f.on)
    BY <1>1, <2>1, NativeReadable
  <2>3. PICK d \in Dbs, q \in Queries, v \in Views \cup {None} :
          f.locals = <<q, v>> \/ \E r \in Queries : f.locals = <<q, v, r>>
    BY <1>1, <2>1, FrameKinds
\* What the function has a reference to is alive, unless it is loose.
  <2>4. ASSUME NEW o \in Objects, NEW j \in 1 .. 3, Nth(f.locals, j) = o, o \notin Loose(calls, lossy)
        PROVE  Live(o)
    <3>1. PICK n \in Nat : Lent(calls, o) = n /\ n > 0
      BY <1>1, <2>1, <2>4, LentType
    <3>2. PICK m \in Nat : (IF o \in prog THEN 1 ELSE 0) = m
      OBVIOUS
    <3>3. Ext(prog, calls)[o] = m + n
      BY <2>1, <3>1, <3>2, ExtType
    <3>4. Ext(prog, calls)[o] > 0
      BY <3>1, <3>2, <3>3
    <3> QED BY <1>1, <2>4, <3>4, OwedIs DEF Live
  <2>5. f.locals[2] = v /\ Nth(f.locals, 2) = v
    BY <2>3, NthPair, NthThree
  <2>6. v # None => Live(v)
    <3>1. v # None => v \in Objects /\ v \notin Queries /\ 2 \in 1 .. 3
      BY Kinds
    <3> QED BY <1>1, <2>4, <2>5, <3>1, OwedIs
  <2>7. ASSUME Len(f.locals) = 3 PROVE Live(f.locals[3])
    <3>1. PICK r \in Queries : f.locals = <<q, v, r>>
      BY <2>3, <2>7
    <3>2. f.locals[3] = r /\ Nth(f.locals, 3) = r
      BY <3>1, NthThree
    <3>3. r \in Resolved(calls)
      BY <1>1, <3>2 DEF Resolved
    <3>4. r \notin Loose(calls, lossy)
      BY <3>3 DEF Loose
    <3>5. r \in Objects /\ 3 \in 1 .. 3
      BY Kinds
    <3> QED BY <2>4, <3>2, <3>4, <3>5
  <2> QED BY <2>2, <2>5, <2>6, <2>7
<1>2. IInv => TermsOutliveTheCall
  BY <1>1 DEF TermsOutliveTheCall
<1> QED BY <1>2, HeapIsSound, PTL
=============================================================================
