---------------------------- MODULE PackingProofs ----------------------------
(***************************************************************************)
(* Proofs about what a constructor packs.  The list of value ids: for      *)
(* segments of any size, min_maxval is a lower bound, a full segment is    *)
(* never asked to take another entry, no delta is written beyond its       *)
(* memory unless an allocation failed before, and a reader gets the ids    *)
(* that were added, ascending.  The values: the tree of the code has a     *)
(* single root when it is coded, every word has a way of its own and none  *)
(* lies on the way to another, what a value is compressed to gives the     *)
(* value back, whatever lies behind it, and no other code is shorter.      *)
(***************************************************************************)
EXTENDS Packing, FiniteSetTheorems, SequenceTheorems, WellFoundedInduction, TLAPS

(***************************************************************************)
(* Numbers                                                                  *)
(***************************************************************************)
\* A set of numbers that is not empty has a least element.
LEMMA NatLeast ==
  ASSUME NEW S \in SUBSET Nat, S # {}
  PROVE  \E x \in S : \A y \in S : x <= y
<1> DEFINE R == {ss \in Nat \X Nat : ss[1] < ss[2]}
<1>1. IsWellFoundedOn(R, Nat)
  BY NatLessThanWellFounded, Zenon DEF OpToRel
<1> HIDE DEF R
<1>2. PICK x \in S : \A y \in S : ~(<<y, x>> \in R)
  BY <1>1, WFMin
<1>3. \A y \in S : ~(y < x)
  BY <1>2 DEF R
<1> QED BY <1>3

\* A set of numbers up to a bound that has the bound, and of each other number the next, has all.
LEMMA FromAbove ==
  ASSUME NEW top \in Nat, NEW S, top \in S,
         \A k \in 0 .. top : k < top /\ k + 1 \in S => k \in S
  PROVE  0 .. top \subseteq S
<1> DEFINE D == {d \in 0 .. top : top - d \notin S}
<1> SUFFICES ASSUME NEW k \in 0 .. top, k \notin S PROVE FALSE
  OBVIOUS
<1>1. top - k \in D /\ D \in SUBSET Nat
  <2>1. top - (top - k) = k /\ top - k \in 0 .. top
    OBVIOUS
  <2> QED BY <2>1
<1> HIDE DEF D
<1>2. PICK d \in D : \A e \in D : d <= e
  BY <1>1, NatLeast
<1>3. d \in 0 .. top /\ top - d \notin S
  BY <1>2 DEF D
<1>4. d # 0
  BY <1>3
<1>5. d - 1 \in 0 .. top /\ d - 1 \notin D
  <2>1. d - 1 \in 0 .. top /\ ~(d <= d - 1)
    BY <1>3, <1>4
  <2> QED BY <1>2, <2>1
<1>6. top - (d - 1) \in S
  BY <1>5 DEF D
<1>7. top - d \in 0 .. top /\ top - d < top /\ (top - d) + 1 = top - (d - 1)
  BY <1>3, <1>4
<1> QED BY <1>3, <1>6, <1>7

LEMMA FromBelow ==
  ASSUME NEW top \in Nat, NEW S, 0 \in S,
         \A k \in 0 .. top : k < top /\ k \in S => k + 1 \in S
  PROVE  0 .. top \subseteq S
<1> DEFINE D == {d \in 0 .. top : d \notin S}
<1> SUFFICES ASSUME NEW k \in 0 .. top, k \notin S PROVE FALSE
  OBVIOUS
<1>1. k \in D /\ D \in SUBSET Nat
  OBVIOUS
<1> HIDE DEF D
<1>2. PICK d \in D : \A e \in D : d <= e
  BY <1>1, NatLeast
<1>3. d \in 0 .. top /\ d \notin S /\ d # 0
  BY <1>2 DEF D
<1>4. d - 1 \in 0 .. top /\ d - 1 \notin D
  <2>1. d - 1 \in 0 .. top /\ ~(d <= d - 1)
    BY <1>3
  <2> QED BY <1>2, <2>1
<1>5. d - 1 \in S /\ d - 1 < top /\ (d - 1) + 1 = d
  BY <1>3, <1>4 DEF D
<1> QED BY <1>3, <1>4, <1>5

\* What holds for a number when it holds for all greater ones up to a bound, holds for all.
LEMMA FromAll ==
  ASSUME NEW top \in Nat, NEW S,
         \A k \in 0 .. top : k + 1 .. top \subseteq S => k \in S
  PROVE  0 .. top \subseteq S
<1> DEFINE U == {k \in 0 .. top : k .. top \subseteq S}
<1>1. top \in U
  <2>1. top + 1 .. top \subseteq S
    OBVIOUS
  <2>2. top \in S
    BY <2>1
  <2> QED BY <2>2
<1>2. ASSUME NEW k \in 0 .. top, k < top, k + 1 \in U PROVE k \in U
  <2>1. k \in S
    BY <1>2
  <2>2. \A n \in k .. top : n = k \/ n \in k + 1 .. top
    OBVIOUS
  <2> QED BY <1>2, <2>1, <2>2
<1> HIDE DEF U
<1>3. 0 .. top \subseteq U
  BY <1>1, <1>2, FromAbove
<1>4. 0 \in U
  BY <1>3
<1> QED BY <1>4 DEF U

\* A set of numbers up to a bound has a greatest one.
LEMMA NatGreatest ==
  ASSUME NEW top \in Nat, NEW S, S \subseteq 0 .. top, S # {}
  PROVE  \E x \in S : \A y \in S : y <= x
<1> DEFINE D == {d \in 0 .. top : top - d \in S}
<1>1. D \in SUBSET Nat /\ D # {}
  <2>1. PICK x \in S : x \in 0 .. top
    OBVIOUS
  <2>2. top - x \in 0 .. top /\ top - (top - x) = x
    BY <2>1
  <2>3. top - x \in D
    BY <2>1, <2>2
  <2>4. D \subseteq 0 .. top
    OBVIOUS
  <2> HIDE DEF D
  <2> QED BY <2>3, <2>4
<1>2. PICK d \in D : \A c \in D : d <= c
  <2> HIDE DEF D
  <2> QED BY <1>1, NatLeast
<1>3. d \in 0 .. top /\ top - d \in S
  BY <1>2
<1>4. ASSUME NEW y \in S PROVE y <= top - d
  <2>1. y \in 0 .. top
    OBVIOUS
  <2>2. top - y \in 0 .. top /\ top - (top - y) = y
    BY <2>1
  <2>3. top - y \in D
    BY <2>2
  <2>4. d <= top - y
    BY <1>2, <2>3
  <2> QED BY <1>3, <2>1, <2>4
<1> QED BY <1>3, <1>4

\* Min returns it.
LEMMA MinIsLeast ==
  ASSUME NEW S \in SUBSET Nat, S # {}
  PROVE  Min(S) \in S /\ \A y \in S : Min(S) <= y
BY NatLeast DEF Min

\* Max returns the greatest.
LEMMA MaxIsGreatest ==
  ASSUME NEW top \in Nat, NEW S, S \subseteq 0 .. top, S # {}
  PROVE  Max(S) \in S /\ \A y \in S : y <= Max(S)
<1>1. PICK x \in S : \A y \in S : y <= x
  BY NatGreatest
<1>2. \A y \in S : x >= y
  <2>1. \A y \in S : y \in Int
    OBVIOUS
  <2> QED BY <1>1, <2>1
<1>3. Max(S) \in S /\ \A y \in S : Max(S) >= y
  BY <1>2 DEF Max
<1>4. \A y \in S : y \in Int
  OBVIOUS
<1> QED BY <1>3, <1>4

\* Each place takes a step from what the one below it has.
Steps(f, top, x, step) == \A b \in 0 .. top : f[b] = IF b = 0 THEN x ELSE step[b][f[b - 1]]

\* There is something that takes the steps.
LEMMA StepsExist ==
  ASSUME NEW top \in Nat, NEW x, NEW step
  PROVE  \E f : Steps(f, top, x, step)
<1> DEFINE S == {m \in 0 .. top : \E f : Steps(f, m, x, step)}
<1>1. 0 \in S
  <2> DEFINE f == [b \in 0 .. 0 |-> x]
  <2>1. Steps(f, 0, x, step)
    BY DEF Steps
  <2> HIDE DEF f
  <2> QED BY <2>1
<1>2. ASSUME NEW m \in 0 .. top, m < top, m \in S PROVE m + 1 \in S
  <2>1. PICK f : Steps(f, m, x, step)
    BY <1>2
  <2> DEFINE g == [b \in 0 .. m + 1 |-> IF b = m + 1 THEN step[b][f[m]] ELSE f[b]]
  <2>2. ASSUME NEW b \in 0 .. m + 1 PROVE g[b] = IF b = 0 THEN x ELSE step[b][g[b - 1]]
    <3>1. CASE b = m + 1
      <4>1. b - 1 = m /\ m \in 0 .. m + 1 /\ m # m + 1 /\ b # 0
        BY <3>1
      <4>2. g[m] = f[m] /\ g[b] = step[b][f[m]]
        BY <3>1, <4>1
      <4> HIDE DEF g
      <4> QED BY <4>1, <4>2
    <3>2. CASE b \in 0 .. m
      <4>1. f[b] = IF b = 0 THEN x ELSE step[b][f[b - 1]]
        BY <2>1, <3>2 DEF Steps
      <4>2. b # 0 => b - 1 \in 0 .. m + 1 /\ b - 1 # m + 1
        BY <3>2
      <4>3. g[b] = f[b] /\ (b # 0 => g[b - 1] = f[b - 1])
        BY <3>2, <4>2
      <4> HIDE DEF g
      <4> QED BY <4>1, <4>3
    <3> QED BY <3>1, <3>2
  <2>3. Steps(g, m + 1, x, step)
    BY <2>2 DEF Steps
  <2> HIDE DEF g
  <2>4. m + 1 \in 0 .. top
    BY <1>2
  <2> QED BY <2>3, <2>4
<1> HIDE DEF S
<1>3. 0 .. top \subseteq S
  BY <1>1, <1>2, FromBelow
<1>4. top \in S
  BY <1>3
<1> QED BY <1>4 DEF S

\* What is kept by every step holds at every place.
LEMMA StepsWithin ==
  ASSUME NEW top \in Nat, NEW S, NEW x \in S, NEW step, NEW f, Steps(f, top, x, step),
         \A b \in 1 .. top : \A y \in S : step[b][y] \in S
  PROVE  \A b \in 0 .. top : f[b] \in S
<1> DEFINE T == {b \in 0 .. top : f[b] \in S}
<1>1. 0 \in T
  BY DEF Steps
<1>2. ASSUME NEW b \in 0 .. top, b < top, b \in T PROVE b + 1 \in T
  <2>1. b + 1 \in 1 .. top /\ b + 1 # 0 /\ (b + 1) - 1 = b /\ b + 1 \in 0 .. top
    BY <1>2
  <2>2. f[b + 1] = step[b + 1][f[b]]
    BY <2>1 DEF Steps
  <2> QED BY <1>2, <2>1, <2>2
<1> HIDE DEF T
<1>3. 0 .. top \subseteq T
  BY <1>1, <1>2, FromBelow
<1> QED BY <1>3 DEF T

\* What rises from each place to the next one rises from each to all later ones.
LEMMA StepsRise ==
  ASSUME NEW n \in Nat, NEW f, \A k \in 1 .. n : f[k] \in Int,
         \A k \in 2 .. n : f[k - 1] < f[k]
  PROVE  \A j, k \in 1 .. n : j < k => f[j] < f[k]
<1> DEFINE T == {k \in 0 .. n : \A j \in 1 .. n : j < k => f[j] < f[k]}
<1>1. 0 \in T
  OBVIOUS
<1>2. ASSUME NEW k \in 0 .. n, k < n, k \in T PROVE k + 1 \in T
  <2>1. ASSUME NEW j \in 1 .. n, j < k + 1 PROVE f[j] < f[k + 1]
    <3>1. k \in 1 .. n /\ k + 1 \in 2 .. n /\ (k + 1) - 1 = k /\ k + 1 \in 1 .. n
      BY <1>2, <2>1
    <3>2. f[k] < f[k + 1]
      BY <3>1
    <3>3. j = k \/ f[j] < f[k]
      BY <1>2, <2>1
    <3>4. f[j] \in Int /\ f[k] \in Int /\ f[k + 1] \in Int
      BY <3>1
    <3> QED BY <3>2, <3>3, <3>4
  <2>2. k + 1 \in 0 .. n
    BY <1>2
  <2> QED BY <2>1, <2>2
<1> HIDE DEF T
<1>3. 0 .. n \subseteq T
  BY <1>1, <1>2, FromBelow
<1>4. \A k \in 1 .. n : k \in T
  BY <1>3
<1> QED BY <1>4 DEF T
-----------------------------------------------------------------------------
(***************************************************************************)
(* How often an id is in a list                                            *)
(***************************************************************************)
\* As many as are carried one to one.
Carries(p, A, B) == /\ \A a \in A : p[a] \in B
                    /\ \A b \in B : \E a \in A : p[a] = b
                    /\ \A a, c \in A : p[a] = p[c] => a = c

\* What is carried one to one is as many.
LEMMA SameNumber ==
  ASSUME NEW A, NEW B, IsFiniteSet(A), NEW p, Carries(p, A, B)
  PROVE  IsFiniteSet(B) /\ Cardinality(B) = Cardinality(A)
<1> DEFINE f == [a \in A |-> p[a]]
<1>1. f \in Bijection(A, B)
  BY DEF Bijection, Injection, Surjection, Carries, IsInjective
<1>2. ExistsBijection(A, B)
  BY <1>1 DEF ExistsBijection
<1> QED BY <1>2, FS_Bijection

\* How often something is in a list is a number, and zero where it is not.
LEMMA TimesIsNumber ==
  ASSUME NEW S, NEW q \in Seq(S), NEW v
  PROVE  /\ IsFiniteSet({k \in DOMAIN q : q[k] = v}) /\ Times(v, q) \in Nat
         /\ Times(v, q) = 0 <=> v \notin Range(q)
<1> DEFINE T == {k \in DOMAIN q : q[k] = v}
<1>1. IsFiniteSet(DOMAIN q)
  <2>1. DOMAIN q = 1 .. Len(q) /\ Len(q) \in Int
    OBVIOUS
  <2> QED BY <2>1, FS_Interval
<1>2. IsFiniteSet(T)
  BY <1>1, FS_Subset
<1>3. T = {} <=> v \notin Range(q)
  BY DEF Range
<1> QED BY <1>2, <1>3, FS_CardinalityType, FS_EmptySet DEF Times

\* In one list behind another there are as many as in both.
LEMMA TimesOfBoth ==
  ASSUME NEW S, NEW a \in Seq(S), NEW b \in Seq(S), NEW v
  PROVE  Times(v, a \o b) = Times(v, a) + Times(v, b)
<1> DEFINE A == {k \in DOMAIN a : a[k] = v}
           B == {k \in DOMAIN b : b[k] = v}
           C == {k \in 1 + Len(a) .. Len(a) + Len(b) : (a \o b)[k] = v}
           T == {k \in DOMAIN (a \o b) : (a \o b)[k] = v}
<1>1. PICK m \in Nat : Len(a) = m
  BY LenProperties
<1>2. PICK n \in Nat : Len(b) = n
  BY LenProperties
<1>3. DOMAIN a = 1 .. m /\ DOMAIN b = 1 .. n /\ DOMAIN (a \o b) = 1 .. m + n
  BY <1>1, <1>2
<1>4. \A k \in 1 .. m + n : (a \o b)[k] = IF k <= m THEN a[k] ELSE b[k - m]
  BY <1>1, <1>2
<1>5. T = A \cup C
  <2>1. \A k \in 1 .. m + n : IF k <= m THEN k \in 1 .. m ELSE k \in 1 + m .. m + n
    OBVIOUS
  <2>2. \A k \in 1 .. m : k \in 1 .. m + n /\ k <= m
    OBVIOUS
  <2>3. \A k \in 1 + m .. m + n : k \in 1 .. m + n
    OBVIOUS
  <2> QED BY <1>1, <1>2, <1>3, <1>4, <2>1, <2>2, <2>3
<1>6. A \cap C = {}
  <2>1. \A k \in 1 .. m : k \notin 1 + m .. m + n
    OBVIOUS
  <2> QED BY <1>1, <1>2, <1>3, <2>1
<1>7. IsFiniteSet(A) /\ IsFiniteSet(B)
  BY TimesIsNumber
<1>8. IsFiniteSet(C) /\ Cardinality(C) = Cardinality(B)
  <2> DEFINE p == [k \in B |-> k + m]
  <2>1. \A k \in 1 .. n : k + m \in 1 + m .. m + n /\ (k + m) - m = k /\ k + m \in 1 .. m + n /\ ~(k + m <= m)
    OBVIOUS
  <2>2. \A k \in 1 + m .. m + n : k - m \in 1 .. n /\ (k - m) + m = k /\ k \in 1 .. m + n /\ ~(k <= m)
    OBVIOUS
  <2>3. \A k \in B : p[k] \in C
    BY <1>1, <1>2, <1>3, <1>4, <2>1
  <2>4. \A c \in C : c - m \in B /\ p[c - m] = c
    BY <1>1, <1>2, <1>3, <1>4, <2>2
  <2>5. \A j, k \in B : p[j] = p[k] => j = k
    BY <1>3
  <2> HIDE DEF p, B, C
  <2>6. Carries(p, B, C)
    BY <2>3, <2>4, <2>5 DEF Carries
  <2> QED BY <1>7, <2>6, SameNumber
<1>9. Cardinality(T) = Cardinality(A) + Cardinality(C)
  <2> HIDE DEF A, B, C, T
  <2>1. Cardinality(A \cap C) = 0 /\ Cardinality(A) \in Nat /\ Cardinality(C) \in Nat
    BY <1>6, <1>7, <1>8, FS_EmptySet, FS_CardinalityType
  <2>2. Cardinality(A \cup C) = Cardinality(A) + Cardinality(C) - Cardinality(A \cap C)
    <3>1. IsFiniteSet(A) /\ IsFiniteSet(C)
      BY <1>7, <1>8
    <3> QED BY <3>1, FS_Union
  <2> QED BY <1>5, <2>1, <2>2
<1> QED BY <1>8, <1>9 DEF Times

\* Where nothing is twice, something is there once or not at all.
LEMMA TimesOnce ==
  ASSUME NEW S, NEW q \in Seq(S), NEW v,
         \A j, k \in DOMAIN q : q[j] = q[k] => j = k
  PROVE  Times(v, q) = IF v \in Range(q) THEN 1 ELSE 0
<1>1. CASE v \notin Range(q)
  BY <1>1, TimesIsNumber
<1>2. CASE v \in Range(q)
  <2>1. PICK k \in DOMAIN q : q[k] = v
    BY <1>2 DEF Range
  <2>2. {j \in DOMAIN q : q[j] = v} = {k}
    BY <2>1
  <2> QED BY <1>2, <2>2, FS_Singleton DEF Times
<1> QED BY <1>1, <1>2
-----------------------------------------------------------------------------
(***************************************************************************)
(* The list of value ids                                                    *)
(***************************************************************************)
-----------------------------------------------------------------------------

LEMMA Constants == /\ MaxId \in Nat \ {0} /\ DeltaMax \in Nat \ {0} /\ Ids \subseteq Nat \ {0}
                   /\ MaxSize \in Nat /\ Sizes \subseteq Nat /\ FirstSize \in Sizes
                   /\ FirstSize > 1 /\ HalfSize \in Sizes /\ MaxId \in Ids
                   /\ \A n \in Sizes : n < MaxSize /\ n > 0 /\ (n = HalfSize \/ 2 * n \in Sizes)
                   /\ \A e \in Ids : e <= MaxId
BY DeltalistAssumption DEF Ids

\* What every segment of the list satisfies.
Sound(s) == SizeBounds(s) /\ Filled(s)

LEMMA NewSegmentSound == NewSegment \in Segment /\ Sound(NewSegment) /\ NewSegment.i = 0
                         /\ NewSegment.cap = NewSegment.size /\ NewSegment.size = 0
BY DEF NewSegment, Segment, Sound, SizeBounds, Filled

\* The list with a matching segment in front: those before it move one place on.
LEMMA FrontedPlaces ==
  ASSUME TypeOK, NEW e \in Ids, Candidates(e) # {}
  PROVE  \E m \in Candidates(e) :
           /\ m \in 1 .. Len(segs)
           /\ Fronted(e) \in Seq(Segment) /\ Len(Fronted(e)) = Len(segs)
           /\ \A k \in 1 .. Len(segs) :
                Fronted(e)[k] = IF k = 1 THEN segs[m] ELSE IF k <= m THEN segs[k - 1] ELSE segs[k]
<1>1. segs \in Seq(Segment) /\ Len(segs) \in Nat
  BY DEF TypeOK
<1> DEFINE m == Min(Candidates(e))
<1>2. m \in Candidates(e) /\ m \in 1 .. Len(segs)
  <2>1. Candidates(e) \in SUBSET Nat /\ Candidates(e) \subseteq 1 .. Len(segs)
    BY <1>1 DEF Candidates
  <2> QED BY <2>1, MinIsLeast
<1> HIDE DEF m
<1> DEFINE a == SubSeq(segs, 1, m - 1)
           b == SubSeq(segs, m + 1, Len(segs))
<1>3. Fronted(e) = <<segs[m]>> \o (a \o b)
  BY DEF Fronted, RemoveAt, m
<1>4. /\ a \in Seq(Segment) /\ Len(a) = m - 1 /\ \A k \in 1 .. m - 1 : a[k] = segs[k]
  BY <1>1, <1>2
<1>5. /\ b \in Seq(Segment) /\ Len(b) = Len(segs) - m
      /\ \A k \in 1 .. Len(segs) - m : b[k] = segs[m + k]
  BY <1>1, <1>2
<1>6. segs[m] \in Segment
  BY <1>1, <1>2
<1> HIDE DEF a, b
<1> DEFINE c == a \o b
<1>7. /\ c \in Seq(Segment) /\ Len(c) = Len(segs) - 1
      /\ \A k \in 1 .. Len(segs) - 1 : c[k] = IF k < m THEN segs[k] ELSE segs[k + 1]
  <2>1. /\ c \in Seq(Segment) /\ Len(c) = Len(a) + Len(b)
        /\ \A k \in 1 .. Len(a) + Len(b) : c[k] = IF k <= Len(a) THEN a[k] ELSE b[k - Len(a)]
    BY <1>4, <1>5
  <2>2. Len(a) + Len(b) = Len(segs) - 1
    BY <1>1, <1>2, <1>4, <1>5
  <2> HIDE DEF c
  <2>3. ASSUME NEW k \in 1 .. Len(segs) - 1, k < m PROVE c[k] = segs[k]
    BY <1>1, <1>2, <1>4, <2>1, <2>2, <2>3
  <2>4. ASSUME NEW k \in 1 .. Len(segs) - 1, ~(k < m) PROVE c[k] = segs[k + 1]
    <3>1. k - (m - 1) \in 1 .. Len(segs) - m /\ m + (k - (m - 1)) = k + 1 /\ ~(k <= m - 1)
      BY <1>1, <1>2, <2>4
    <3>2. c[k] = b[k - (m - 1)]
      BY <1>4, <2>1, <2>2, <2>4, <3>1
    <3> QED BY <1>5, <3>1, <3>2
  <2> QED BY <2>1, <2>2, <2>3, <2>4
<1>8. Fronted(e) = <<segs[m]>> \o c
  BY <1>3
<1> HIDE DEF c
<1>9. /\ Fronted(e) \in Seq(Segment) /\ Len(Fronted(e)) = Len(segs)
      /\ \A k \in 1 .. Len(segs) : Fronted(e)[k] = IF k = 1 THEN segs[m] ELSE c[k - 1]
  BY <1>1, <1>2, <1>6, <1>7, <1>8
<1>10. ASSUME NEW k \in 1 .. Len(segs), k # 1
       PROVE  Fronted(e)[k] = IF k <= m THEN segs[k - 1] ELSE segs[k]
  <2>1. k - 1 \in 1 .. Len(segs) - 1 /\ (k - 1 < m <=> k <= m) /\ (k - 1) + 1 = k
    BY <1>1, <1>2, <1>10
  <2> QED BY <1>7, <1>9, <1>10, <2>1
<1> QED BY <1>2, <1>9, <1>10

\* The list with the segment for e in front has only segments of the list, or a new one.
LEMMA FrontedSegments ==
  ASSUME TypeOK, NEW e \in Ids
  PROVE  /\ Fronted(e) \in Seq(Segment) /\ Fronted(e) # <<>>
         /\ \A k \in DOMAIN Fronted(e) :
              Fronted(e)[k] = NewSegment \/ \E n \in DOMAIN segs : Fronted(e)[k] = segs[n]
         /\ Candidates(e) # {} => \E n \in Candidates(e) : Fronted(e)[1] = segs[n]
         /\ Candidates(e) = {} => Fronted(e)[1] = NewSegment
<1>1. segs \in Seq(Segment) /\ Len(segs) \in Nat
  BY DEF TypeOK
<1>2. CASE Candidates(e) = {}
  <2>1. Fronted(e) = <<NewSegment>> \o segs
    BY <1>2 DEF Fronted
  <2>2. NewSegment \in Segment
    BY NewSegmentSound
  <2>3. /\ Len(<<NewSegment>> \o segs) = 1 + Len(segs)
        /\ \A k \in 1 .. 1 + Len(segs) :
             (<<NewSegment>> \o segs)[k] = IF k = 1 THEN NewSegment ELSE segs[k - 1]
    BY <1>1, <2>2
  <2>4. <<NewSegment>> \o segs \in Seq(Segment)
    BY <1>1, <2>2
  <2>5. \A k \in 1 .. 1 + Len(segs) : k # 1 => k - 1 \in DOMAIN segs
    BY <1>1
  <2> QED BY <1>1, <1>2, <2>1, <2>3, <2>4, <2>5
<1>3. CASE Candidates(e) # {}
  <2>1. PICK m \in Candidates(e) :
          /\ m \in 1 .. Len(segs)
          /\ Fronted(e) \in Seq(Segment) /\ Len(Fronted(e)) = Len(segs)
          /\ \A k \in 1 .. Len(segs) :
               Fronted(e)[k] = IF k = 1 THEN segs[m] ELSE IF k <= m THEN segs[k - 1] ELSE segs[k]
    BY <1>3, FrontedPlaces
  <2>2. DOMAIN Fronted(e) = 1 .. Len(segs) /\ DOMAIN segs = 1 .. Len(segs) /\ 1 \in 1 .. Len(segs)
    BY <1>1, <2>1
  <2>3. Fronted(e) # <<>>
    BY <1>1, <2>1
  <2>4. \A k \in 1 .. Len(segs) : k # 1 => k - 1 \in 1 .. Len(segs)
    BY <1>1
  <2> QED BY <1>1, <1>3, <2>1, <2>2, <2>3, <2>4
<1> QED BY <1>2, <1>3

\* Growing a segment gives it room and memory for its next entry.
LEMMA GrownSound ==
  ASSUME NEW s \in Segment, Sound(s), NeedsGrowth(s), s.size # MaxSize
  PROVE  /\ Grown(s) \in Segment /\ Sound(Grown(s))
         /\ Grown(s).i = s.i /\ Grown(s).maxval = s.maxval /\ Grown(s).deltas = s.deltas
         /\ s.i < Grown(s).size /\ Grown(s).cap = Grown(s).size
<1> DEFINE size == IF s.size = 0 THEN FirstSize
                   ELSE IF s.size = HalfSize THEN MaxSize ELSE 2 * s.size
<1>1. s.size \in Sizes \cup {0} /\ s.i \in Nat /\ s.size \in Nat /\ (s.i = s.size \/ (s.i = 1 /\ s.size = 0))
  BY Constants DEF Sound, SizeBounds, NeedsGrowth, Segment
<1>2. size \in Sizes \cup {MaxSize} /\ size \in Nat /\ s.i < size
  BY <1>1, Constants
<1> HIDE DEF size
<1>3. Grown(s) = [s EXCEPT !.size = size, !.cap = size]
  BY DEF Grown, size
<1>4. /\ Grown(s).i = s.i /\ Grown(s).maxval = s.maxval /\ Grown(s).deltas = s.deltas
      /\ Grown(s).size = size /\ Grown(s).cap = size /\ Grown(s) \in Segment
  BY <1>2, <1>3 DEF Segment
<1> QED BY <1>1, <1>2, <1>4 DEF Sound, SizeBounds, Filled

\* A segment with room takes an entry.
LEMMA PutSound ==
  ASSUME NEW s \in Segment, Sound(s), NEW e \in Ids, s.i < s.size \/ s = NewSegment
  PROVE  /\ Put(s, e) \in Segment /\ Sound(Put(s, e))
         /\ Put(s, e).maxval = e /\ Put(s, e).i = s.i + 1
         /\ Put(s, e).cap = s.cap /\ Put(s, e).size = s.size
<1>1. s.i \in Nat /\ s.size \in Nat /\ s.deltas \in Seq(Delta) /\ s.maxval \in Ids \cup {0}
  BY DEF Segment
<1>2. CASE s.i = 0
  <2>1. Put(s, e) = [s EXCEPT !.i = 1, !.maxval = e]
    BY <1>2 DEF Put
  <2>2. /\ Put(s, e) \in Segment /\ Put(s, e).maxval = e /\ Put(s, e).i = s.i + 1
        /\ Put(s, e).cap = s.cap /\ Put(s, e).size = s.size
    <3>1. 1 \in Nat /\ e \in Ids \cup {0} /\ s.i + 1 = 1
      BY <1>2
    <3> QED BY <2>1, <3>1 DEF Segment
  <2>3. 1 <= s.size \/ s.size = 0
    BY <1>1
  <2> QED BY <1>2, <2>2, <2>3 DEF Sound, SizeBounds, Filled
<1>3. CASE s.i # 0
  <2>1. s.i < s.size
    BY <1>3, NewSegmentSound
  <2> DEFINE d == (e - s.maxval) % (DeltaMax + 1)
  <2>2. d \in Delta
    <3>0. e \in Nat /\ s.maxval \in Nat /\ DeltaMax \in Nat
      <4>1. \A x \in Ids \cup {0} : x \in Nat
        BY Constants
      <4>2. e \in Ids \cup {0} /\ s.maxval \in Ids \cup {0}
        BY <1>1
      <4> QED BY <4>1, <4>2, Constants
    <3>1. e - s.maxval \in Int /\ DeltaMax + 1 \in Nat \ {0}
      BY <3>0
    <3> QED BY <3>1, Constants DEF Delta
  <2> HIDE DEF d
  <2>3. Put(s, e) = [s EXCEPT !.i = s.i + 1, !.deltas = Append(s.deltas, d), !.maxval = e]
    BY <1>3 DEF Put, d
  <2>4. Append(s.deltas, d) \in Seq(Delta) /\ s.i + 1 \in Nat
    BY <1>1, <2>2
  <2>5. /\ Put(s, e) \in Segment /\ Put(s, e).maxval = e /\ Put(s, e).i = s.i + 1
        /\ Put(s, e).cap = s.cap /\ Put(s, e).size = s.size
    BY <2>3, <2>4 DEF Segment
  <2>6. s.i + 1 <= s.size
    BY <1>1, <2>1
  <2> QED BY <2>5, <2>6 DEF Sound, SizeBounds, Filled
<1> QED BY <1>2, <1>3
-----------------------------------------------------------------------------
LEMMA InitInv == Init => IInv
<1> SUFFICES ASSUME Init PROVE IInv
  OBVIOUS
<1>1. segs = <<>> /\ segs \in Seq(Segment) /\ DOMAIN segs = {}
  BY DEF Init
<1>2. min_maxval \in Ids /\ failures = 0 /\ overrun = FALSE /\ added \in [Ids -> Nat]
  BY Constants DEF Init
<1> QED BY <1>1, <1>2 DEF IInv, TypeOK, NoneBelowIsRight, MemoryKept, OverrunNeedsFailure

\* The segment brought to the head is sound, and full only if it is unmatched.
LEMMA HeadSound ==
  ASSUME IInv, NEW e \in Ids
  PROVE  /\ Fronted(e)[1] \in Segment
         /\ \A k \in DOMAIN Fronted(e) : Sound(Fronted(e)[k])
         /\ Fronted(e)[1].i < Fronted(e)[1].size \/ Fronted(e)[1].size # MaxSize
<1>1. \A n \in DOMAIN segs : Sound(segs[n])
  BY DEF IInv, Sound
<1>2. 1 \in DOMAIN Fronted(e)
  BY FrontedSegments DEF IInv
<1>3. \A k \in DOMAIN Fronted(e) : Sound(Fronted(e)[k])
  BY <1>1, FrontedSegments, NewSegmentSound DEF IInv
<1>4. Fronted(e)[1] \in Segment
  BY <1>2, FrontedSegments DEF IInv
<1>5. CASE Candidates(e) = {}
  BY <1>3, <1>4, <1>5, FrontedSegments, NewSegmentSound, Constants DEF IInv
<1>6. CASE Candidates(e) # {}
  <2>1. PICK n \in Candidates(e) : Fronted(e)[1] = segs[n]
    BY <1>6, FrontedSegments DEF IInv
  <2>2. n \in DOMAIN segs /\ ~Full(segs[n]) /\ n \in 1 .. n
    <3>1. n \in Nat /\ n >= 1
      BY <2>1 DEF Candidates, IInv, TypeOK
    <3> QED BY <2>1, <3>1 DEF Candidates
  <2>3. segs[n].i \in Nat /\ segs[n].size \in Nat
    <3>1. segs[n] \in Segment
      BY <2>2 DEF IInv, TypeOK
    <3> QED BY <3>1 DEF Segment
  <2> QED BY <1>3, <1>4, <2>1, <2>2, <2>3, <1>1, Constants DEF Full, Sound, SizeBounds
<1> QED BY <1>3, <1>4, <1>5, <1>6

\* Putting an entry into a sound head segment h of list f keeps the invariant.
LEMMA PutInv ==
  ASSUME IInv, NEW e \in Ids, NEW f \in Seq(Segment), f # <<>>,
         \A k \in DOMAIN f : Sound(f[k]) /\ (f[k].i > 0 => min_maxval <= f[k].maxval),
         f[1].i < f[1].size \/ f[1] = NewSegment,
         failures = 0 => \A k \in DOMAIN f : f[k].cap = f[k].size,
         segs' = <<Put(f[1], e)>> \o Tail(f), Taken(e), UNCHANGED <<failures, overrun>>
  PROVE  IInv'
<1>1. /\ f[1] \in Segment /\ 1 \in DOMAIN f /\ Len(f) \in Nat /\ Len(f) >= 1
      /\ Tail(f) \in Seq(Segment) /\ Len(Tail(f)) = Len(f) - 1
      /\ \A k \in 1 .. Len(f) - 1 : Tail(f)[k] = f[k + 1]
  OBVIOUS
<1> DEFINE h == Put(f[1], e)
<1>2. /\ h \in Segment /\ Sound(h) /\ h.maxval = e /\ h.cap = f[1].cap /\ h.size = f[1].size
  BY <1>1, PutSound
<1> HIDE DEF h
<1>3. /\ segs' \in Seq(Segment) /\ Len(segs') = Len(f) /\ segs'[1] = h
      /\ \A k \in 1 .. Len(f) : k # 1 => segs'[k] = f[k]
  <2> DEFINE t == Tail(f)
  <2>1. t \in Seq(Segment) /\ Len(t) = Len(f) - 1 /\ \A k \in 1 .. Len(f) - 1 : t[k] = f[k + 1]
    BY <1>1
  <2> HIDE DEF t
  <2>2. segs' = <<h>> \o t
    BY DEF h, t
  <2>3. /\ segs' \in Seq(Segment) /\ Len(segs') = 1 + Len(t) /\ segs'[1] = h
        /\ \A k \in 1 .. 1 + Len(t) : k # 1 => segs'[k] = t[k - 1]
    BY <1>2, <2>1, <2>2
  <2>4. \A k \in 1 .. Len(f) : k # 1 => k - 1 \in 1 .. Len(f) - 1 /\ (k - 1) + 1 = k
    BY <1>1
  <2>5. 1 + Len(t) = Len(f)
    BY <1>1, <2>1
  <2> QED BY <2>1, <2>3, <2>4, <2>5
<1>4. DOMAIN segs' = 1 .. Len(f) /\ DOMAIN f = 1 .. Len(f)
  BY <1>1, <1>3
<1>5. min_maxval \in Ids /\ min_maxval \in Nat /\ e \in Nat /\ \A k \in DOMAIN f : f[k] \in Segment
  BY <1>4, Constants DEF IInv, TypeOK
<1>6. min_maxval' = (IF e < min_maxval THEN e ELSE min_maxval) /\ added' = [added EXCEPT ![e] = added[e] + 1]
  BY DEF Taken
<1>7. TypeOK'
  <2>1. min_maxval' \in Ids
    BY <1>5, <1>6
  <2>2. added' \in [Ids -> Nat]
    BY <1>6 DEF IInv, TypeOK
  <2> QED BY <1>3, <2>1, <2>2 DEF IInv, TypeOK
<1>8. \A k \in DOMAIN segs' : Sound(segs'[k])
  BY <1>2, <1>3, <1>4
<1>9. NoneBelowIsRight'
  <2>1. min_maxval' <= e /\ min_maxval' <= min_maxval /\ min_maxval' \in Nat
    BY <1>5, <1>6
  <2>2. \A x \in Nat : min_maxval <= x => min_maxval' <= x
    BY <1>5, <2>1
  <2>3. ASSUME NEW k \in 1 .. Len(f), k # 1, segs'[k].i > 0 PROVE min_maxval' <= segs'[k].maxval
    <3>1. segs'[k] = f[k] /\ f[k] \in Segment /\ f[k].i > 0
      BY <1>3, <1>4, <1>5, <2>3
    <3>2. min_maxval <= f[k].maxval
      BY <1>4, <3>1
    <3>3. f[k].maxval \in Nat
      <4>1. f[k].maxval \in Ids \cup {0}
        BY <3>1 DEF Segment
      <4>2. \A x \in Ids \cup {0} : x \in Nat
        BY Constants
      <4> QED BY <4>1, <4>2
    <3> QED BY <2>2, <3>1, <3>2, <3>3
  <2> QED BY <1>2, <1>3, <1>4, <2>1, <2>3 DEF NoneBelowIsRight
<1>10. MemoryKept'
  <2> SUFFICES ASSUME failures = 0, NEW k \in DOMAIN segs' PROVE segs'[k].cap = segs'[k].size
    BY DEF MemoryKept
  <2>1. \A n \in DOMAIN f : f[n].cap = f[n].size
    OBVIOUS
  <2> QED BY <1>1, <1>2, <1>3, <1>4, <2>1
<1>11. OverrunNeedsFailure'
  BY DEF IInv, OverrunNeedsFailure
<1> QED BY <1>7, <1>8, <1>9, <1>10, <1>11 DEF IInv, Sound

\* The segments of the list with the one for e in front: as before, or new.
LEMMA FrontedInv ==
  ASSUME IInv, NEW e \in Ids
  PROVE  \A k \in DOMAIN Fronted(e) :
           /\ Fronted(e)[k].i > 0 => min_maxval <= Fronted(e)[k].maxval
           /\ failures = 0 => Fronted(e)[k].cap = Fronted(e)[k].size
<1> SUFFICES ASSUME NEW k \in DOMAIN Fronted(e)
             PROVE  /\ Fronted(e)[k].i > 0 => min_maxval <= Fronted(e)[k].maxval
                    /\ failures = 0 => Fronted(e)[k].cap = Fronted(e)[k].size
  OBVIOUS
<1>1. CASE Fronted(e)[k] = NewSegment
  BY <1>1, NewSegmentSound
<1>2. CASE \E n \in DOMAIN segs : Fronted(e)[k] = segs[n]
  BY <1>2 DEF IInv, NoneBelowIsRight, MemoryKept
<1> QED BY <1>1, <1>2, FrontedSegments DEF IInv

LEMMA AppendNewInv == ASSUME IInv, NEW e \in Ids, AppendNew(e) PROVE IInv'
<1> DEFINE f == <<NewSegment>> \o segs
<1>1. segs \in Seq(Segment) /\ NewSegment \in Segment
  BY NewSegmentSound DEF IInv, TypeOK
<1>2. /\ f \in Seq(Segment) /\ Len(f) = 1 + Len(segs) /\ f[1] = NewSegment /\ f # <<>>
      /\ Tail(f) = segs
      /\ \A k \in 1 .. 1 + Len(segs) : k # 1 => f[k] = segs[k - 1]
  BY <1>1
<1>3. \A k \in DOMAIN f : k # 1 => k - 1 \in DOMAIN segs
  BY <1>1, <1>2
<1> HIDE DEF f
<1>4. \A k \in DOMAIN f : f[k] = NewSegment \/ \E n \in DOMAIN segs : f[k] = segs[n]
  BY <1>2, <1>3
<1>5. \A k \in DOMAIN f : Sound(f[k]) /\ (f[k].i > 0 => min_maxval <= f[k].maxval)
  BY <1>4, NewSegmentSound DEF IInv, Sound, NoneBelowIsRight
<1>6. failures = 0 => \A k \in DOMAIN f : f[k].cap = f[k].size
  BY <1>4, NewSegmentSound DEF IInv, MemoryKept
<1>7. segs' = <<Put(f[1], e)>> \o Tail(f) /\ Taken(e) /\ UNCHANGED <<failures, overrun>>
  BY <1>2 DEF AppendNew
<1> QED BY <1>2, <1>5, <1>6, <1>7, PutInv

\* Changing size and memory of the head leaves the list's entries as they are.
LEMMA NewHead ==
  ASSUME NEW f \in Seq(Segment), f # <<>>, NEW h \in Segment
  PROVE  /\ <<h>> \o Tail(f) \in Seq(Segment) /\ Len(<<h>> \o Tail(f)) = Len(f)
         /\ (<<h>> \o Tail(f))[1] = h /\ Tail(<<h>> \o Tail(f)) = Tail(f)
         /\ <<h>> \o Tail(f) # <<>> /\ DOMAIN (<<h>> \o Tail(f)) = DOMAIN f
         /\ \A k \in DOMAIN f : k # 1 => (<<h>> \o Tail(f))[k] = f[k]
<1> DEFINE t == Tail(f)
<1>1. /\ Len(f) \in Nat /\ Len(f) >= 1 /\ DOMAIN f = 1 .. Len(f)
      /\ t \in Seq(Segment) /\ Len(t) = Len(f) - 1 /\ \A k \in 1 .. Len(f) - 1 : t[k] = f[k + 1]
  OBVIOUS
<1> HIDE DEF t
<1> DEFINE g == <<h>> \o t
<1>2. /\ g \in Seq(Segment) /\ Len(g) = 1 + Len(t) /\ g[1] = h /\ Tail(g) = t /\ g # <<>>
      /\ DOMAIN g = 1 .. Len(g)
      /\ \A k \in 1 .. 1 + Len(t) : k # 1 => g[k] = t[k - 1]
  <2>1. Len(t) \in Nat /\ t \in Seq(Segment)
    BY <1>1
  <2> HIDE DEF t
  <2>2. g \in Seq(Segment) /\ Len(g) = 1 + Len(t) /\ g[1] = h
    BY <2>1
  <2>3. \A k \in 1 .. 1 + Len(t) : k # 1 => g[k] = t[k - 1]
    BY <2>1
  <2>4. Tail(g) = t
    BY <2>1
  <2>5. g # <<>> /\ DOMAIN g = 1 .. Len(g)
    BY <2>1, <2>2
  <2> QED BY <2>2, <2>3, <2>4, <2>5
<1> HIDE DEF g
<1>3. \A k \in 1 .. Len(f) : k # 1 => k - 1 \in 1 .. Len(f) - 1 /\ (k - 1) + 1 = k
  BY <1>1
<1>4. 1 + Len(t) = Len(f)
  BY <1>1
<1>5. \A k \in DOMAIN f : k # 1 => g[k] = f[k]
  BY <1>1, <1>2, <1>3, <1>4
<1> QED BY <1>1, <1>2, <1>4, <1>5 DEF g, t

LEMMA AppendMatchInv == ASSUME IInv, NEW e \in Ids, AppendMatch(e) PROVE IInv'
<1> DEFINE f == Fronted(e)
           g == IF NeedsGrowth(f[1]) THEN <<Grown(f[1])>> \o Tail(f) ELSE f
<1>1. f \in Seq(Segment) /\ f # <<>> /\ 1 \in DOMAIN f
  BY FrontedSegments DEF IInv
<1>2. /\ f[1] \in Segment /\ \A k \in DOMAIN f : Sound(f[k])
      /\ f[1].i < f[1].size \/ f[1].size # MaxSize
  BY HeadSound
<1>3. \A k \in DOMAIN f : /\ f[k].i > 0 => min_maxval <= f[k].maxval
                          /\ failures = 0 => f[k].cap = f[k].size
  BY FrontedInv
<1>4. PutAtHead(g, e) /\ UNCHANGED failures
  BY DEF AppendMatch
<1> HIDE DEF f
<1>5. /\ g \in Seq(Segment) /\ g # <<>>
      /\ \A k \in DOMAIN g : Sound(g[k]) /\ (g[k].i > 0 => min_maxval <= g[k].maxval)
      /\ g[1].i < g[1].size /\ g[1].i \in Nat /\ g[1].size \in Nat
      /\ failures = 0 => \A k \in DOMAIN g : g[k].cap = g[k].size
  <2>1. f[1].i \in Nat /\ f[1].size \in Nat
    BY <1>2 DEF Segment
  <2>2. CASE NeedsGrowth(f[1])
    <3> DEFINE h == Grown(f[1])
    <3>1. f[1].size # MaxSize
      BY <1>2, <2>1, <2>2 DEF NeedsGrowth
    <3>2. /\ h \in Segment /\ Sound(h) /\ h.i = f[1].i /\ h.maxval = f[1].maxval
          /\ h.i < h.size /\ h.cap = h.size
      BY <1>1, <1>2, <2>2, <3>1, GrownSound
    <3>3. h.i \in Nat /\ h.size \in Nat
      BY <3>2 DEF Segment
    <3> HIDE DEF h
    <3>4. g = <<h>> \o Tail(f)
      BY <2>2 DEF h
    <3>5. /\ g \in Seq(Segment) /\ g # <<>> /\ g[1] = h /\ DOMAIN g = DOMAIN f
          /\ \A k \in DOMAIN f : k # 1 => g[k] = f[k]
      BY <1>1, <3>2, <3>4, NewHead
    <3> HIDE DEF g
    <3> QED BY <1>1, <1>2, <1>3, <3>2, <3>3, <3>5
  <2>3. CASE ~NeedsGrowth(f[1])
    <3>1. g = f /\ f[1].i < f[1].size
      BY <2>1, <2>3 DEF NeedsGrowth
    <3> HIDE DEF g
    <3> QED BY <1>1, <1>2, <1>3, <2>1, <3>1
  <2> QED BY <2>2, <2>3
<1> HIDE DEF g
<1>6. CASE g[1].i > g[1].cap
  <2>1. overrun' = TRUE /\ UNCHANGED <<segs, min_maxval, added, failures>>
    BY <1>4, <1>6 DEF PutAtHead
  <2>2. failures \in Nat /\ failures # 0
    <3>1. 1 \in DOMAIN g
      BY <1>5
    <3> QED BY <1>5, <1>6, <3>1 DEF IInv, TypeOK
  <2> QED BY <2>1, <2>2 DEF IInv, TypeOK, NoneBelowIsRight, MemoryKept, OverrunNeedsFailure
<1>7. CASE ~(g[1].i > g[1].cap)
  <2>1. segs' = <<Put(g[1], e)>> \o Tail(g) /\ Taken(e) /\ UNCHANGED <<failures, overrun>>
    BY <1>4, <1>7 DEF PutAtHead
  <2> QED BY <1>5, <2>1, PutInv
<1> QED BY <1>6, <1>7

LEMMA NewFailsInv == ASSUME IInv, NEW e \in Ids, NewFails(e) PROVE IInv'
<1>1. failures \in Nat /\ failures' = failures + 1 /\ UNCHANGED <<segs, min_maxval, overrun, added>>
  BY DEF NewFails, IInv, TypeOK
<1>2. failures' \in Nat /\ failures' > 0
  BY <1>1
<1> QED BY <1>1, <1>2 DEF IInv, TypeOK, NoneBelowIsRight, MemoryKept, OverrunNeedsFailure

LEMMA GrowthFailsInv == ASSUME IInv, NEW e \in Ids, GrowthFails(e) PROVE IInv'
<1> DEFINE f == Fronted(e)
           h == [f[1] EXCEPT !.size = Grown(f[1]).size]
<1>1. f \in Seq(Segment) /\ f # <<>> /\ 1 \in DOMAIN f
  BY FrontedSegments DEF IInv
<1>2. /\ f[1] \in Segment /\ \A k \in DOMAIN f : Sound(f[k])
      /\ f[1].i < f[1].size \/ f[1].size # MaxSize
  BY HeadSound
<1>3. \A k \in DOMAIN f : f[k].i > 0 => min_maxval <= f[k].maxval
  BY FrontedInv
<1>4. /\ failures \in Nat /\ NeedsGrowth(f[1]) /\ segs' = <<h>> \o Tail(f) /\ failures' = failures + 1
      /\ UNCHANGED <<min_maxval, overrun, added>>
  BY DEF GrowthFails, IInv, TypeOK
<1> HIDE DEF f
<1>5. f[1].size # MaxSize
  <2>1. f[1].i \in Nat /\ f[1].size \in Nat
    BY <1>2 DEF Segment
  <2> QED BY <1>2, <1>4, <2>1 DEF NeedsGrowth
<1>6. /\ Grown(f[1]) \in Segment /\ Sound(Grown(f[1])) /\ Grown(f[1]).i = f[1].i
      /\ Grown(f[1]).maxval = f[1].maxval
  BY <1>1, <1>2, <1>4, <1>5, GrownSound
<1>7. h \in Segment /\ h.i = f[1].i /\ h.maxval = f[1].maxval /\ h.size = Grown(f[1]).size
  BY <1>2, <1>6 DEF Segment
<1>8. Sound(h)
  BY <1>6, <1>7 DEF Sound, SizeBounds, Filled
<1> HIDE DEF h
<1>9. /\ segs' \in Seq(Segment) /\ segs'[1] = h /\ DOMAIN segs' = DOMAIN f
      /\ \A k \in DOMAIN f : k # 1 => segs'[k] = f[k]
  BY <1>1, <1>4, <1>7, NewHead
<1>10. \A k \in DOMAIN segs' : Sound(segs'[k]) /\ (segs'[k].i > 0 => min_maxval <= segs'[k].maxval)
  BY <1>1, <1>2, <1>3, <1>7, <1>8, <1>9
<1>11. failures' \in Nat /\ failures' > 0
  BY <1>4
<1> QED BY <1>4, <1>9, <1>10, <1>11
        DEF IInv, TypeOK, Sound, NoneBelowIsRight, MemoryKept, OverrunNeedsFailure

LEMMA NextInv == IInv /\ [Next]_vars => IInv'
<1>1. IInv /\ UNCHANGED vars => IInv'
  BY DEF vars, IInv, TypeOK, NoneBelowIsRight, MemoryKept, OverrunNeedsFailure
<1> QED BY <1>1, AppendNewInv, AppendMatchInv, NewFailsInv, GrowthFailsInv DEF Next

LEMMA ListKeptSafe == IInv => ListSafe
<1>1. IInv => HeadHasRoom
  <2> SUFFICES ASSUME IInv, NEW e \in Ids
               PROVE  Fronted(e)[1].i < Fronted(e)[1].size \/ Fronted(e)[1].size < MaxSize
    BY DEF HeadHasRoom
  <2>1. /\ Fronted(e)[1] \in Segment /\ 1 \in DOMAIN Fronted(e)
        /\ Sound(Fronted(e)[1])
        /\ Fronted(e)[1].i < Fronted(e)[1].size \/ Fronted(e)[1].size # MaxSize
    BY HeadSound, FrontedSegments DEF IInv
  <2>2. Fronted(e)[1].size \in Sizes \cup {0, MaxSize}
    BY <2>1 DEF Sound, SizeBounds
  <2>3. 0 < MaxSize
    BY Constants
  <2> QED BY <2>1, <2>2, <2>3, Constants
<1> QED BY <1>1 DEF IInv, ListSafe

(***************************************************************************)
(* In every list min_maxval is a lower bound of the segments that hold     *)
(* entries, grow_segment is never called for a full segment, and a delta   *)
(* is written beyond its memory only after an allocation failed.           *)
(***************************************************************************)
THEOREM DeltalistSafety == Spec => []ListSafe
<1>1. Init => IInv
  BY InitInv
<1>2. IInv /\ [Next]_vars => IInv'
  BY NextInv
<1>3. IInv => ListSafe
  BY ListKeptSafe
<1> QED BY <1>1, <1>2, <1>3, PTL DEF Spec
-----------------------------------------------------------------------------
(***************************************************************************)
(* The entries of a segment                                                *)
(***************************************************************************)
\* There is a delta for every entry but the first.
HasDeltas(s) == Len(s.deltas) = IF s.i = 0 THEN 0 ELSE s.i - 1
\* The entries from the last one, maxval, back to the first.
Falls(q, n, s) == \A k \in 1 .. n : q[k] = IF k = 1 THEN s.maxval ELSE q[k - 1] - s.deltas[s.i + 1 - k]

\* What a segment is made of.
LEMMA DeltaNumbers ==
  ASSUME NEW s \in Segment, HasDeltas(s)
  PROVE  /\ s.i \in Nat /\ s.maxval \in Nat /\ s.maxval \in Ids \cup {0}
         /\ s.deltas \in Seq(Delta) /\ \A k \in DOMAIN s.deltas : s.deltas[k] \in Nat
         /\ DOMAIN s.deltas = IF s.i = 0 THEN {} ELSE 1 .. s.i - 1
<1>1. s.i \in Nat /\ s.maxval \in Ids \cup {0} /\ s.deltas \in Seq(Delta)
  BY DEF Segment
<1>2. \A v \in Ids \cup {0} : v \in Nat
  BY Constants
<1>3. \A d \in Delta : d \in Nat
  BY Constants DEF Delta
<1>4. DOMAIN s.deltas = 1 .. Len(s.deltas) /\ \A k \in DOMAIN s.deltas : s.deltas[k] \in Delta
  BY <1>1
<1>5. 1 .. 0 = {}
  OBVIOUS
<1> QED BY <1>1, <1>2, <1>3, <1>4, <1>5 DEF HasDeltas

\* Decoding a segment yields all its entries.
LEMMA DecodedSpec ==
  ASSUME NEW s \in Segment, HasDeltas(s)
  PROVE  /\ Decoded(s) \in Seq(Int) /\ Len(Decoded(s)) = s.i
         /\ Falls(Decoded(s), s.i, s)
<1> DEFINE q == Decoded(s)
<1>1. PICK n \in Nat : s.i = n
  BY DeltaNumbers
<1>2. \E f : f = [k \in 1 .. n |-> IF k = 1 THEN s.maxval ELSE f[k - 1] - s.deltas[n + 1 - k]]
  <2>1. CASE n = 0
    <3> DEFINE f == [k \in 1 .. n |-> s.maxval]
    <3>1. 1 .. n = {}
      BY <2>1
    <3>2. f = [k \in 1 .. n |-> IF k = 1 THEN s.maxval ELSE f[k - 1] - s.deltas[n + 1 - k]]
      BY <3>1
    <3> QED BY <3>2
  <2>2. CASE n # 0
    <3> DEFINE step == [b \in 1 .. n - 1 |-> [v \in Int |-> v - s.deltas[n - b]]]
    <3>1. n - 1 \in Nat
      BY <1>1, <2>2
    <3>2. \A b \in 1 .. n - 1 : n - b \in DOMAIN s.deltas /\ s.deltas[n - b] \in Nat
      <4>1. \A b \in 1 .. n - 1 : n - b \in 1 .. n - 1
        OBVIOUS
      <4> QED BY <1>1, <2>2, <4>1, DeltaNumbers
    <3>3. \A b \in 1 .. n - 1 : \A v \in Int : step[b][v] = v - s.deltas[n - b] /\ step[b][v] \in Int
      BY <3>2
    <3>4. s.maxval \in Int
      BY DeltaNumbers
    <3> HIDE DEF step
    <3>5. PICK f : Steps(f, n - 1, s.maxval, step)
      BY <3>1, StepsExist
    <3>6. \A b \in 0 .. n - 1 : f[b] \in Int
      BY <3>1, <3>3, <3>4, <3>5, StepsWithin
    <3> DEFINE g == [k \in 1 .. n |-> f[k - 1]]
    <3>7. ASSUME NEW k \in 1 .. n PROVE g[k] = IF k = 1 THEN s.maxval ELSE g[k - 1] - s.deltas[n + 1 - k]
      <4>1. k - 1 \in 0 .. n - 1
        OBVIOUS
      <4>2. f[k - 1] = IF k - 1 = 0 THEN s.maxval ELSE step[k - 1][f[(k - 1) - 1]]
        BY <3>5, <4>1 DEF Steps
      <4>3. CASE k = 1
        <5>1. k - 1 = 0
          BY <4>3
        <5> QED BY <4>2, <4>3, <5>1
      <4>4. CASE k # 1
        <5>1. /\ k - 1 \in 1 .. n - 1 /\ k - 1 # 0 /\ (k - 1) - 1 \in 0 .. n - 1
              /\ n - (k - 1) = n + 1 - k /\ k - 1 \in 1 .. n
          BY <4>4
        <5>2. step[k - 1][f[(k - 1) - 1]] = f[(k - 1) - 1] - s.deltas[n - (k - 1)]
          BY <3>3, <3>6, <5>1
        <5>3. g[k] = f[k - 1] /\ g[k - 1] = f[(k - 1) - 1]
          BY <5>1
        <5> HIDE DEF g
        <5> QED BY <4>2, <4>4, <5>1, <5>2, <5>3
      <4> QED BY <4>3, <4>4
    <3>8. g = [k \in 1 .. n |-> g[k]]
      OBVIOUS
    <3> HIDE DEF g
    <3>9. g = [k \in 1 .. n |-> IF k = 1 THEN s.maxval ELSE g[k - 1] - s.deltas[n + 1 - k]]
      BY <3>7, <3>8
    <3> QED BY <3>9
  <2> QED BY <2>1, <2>2
<1>3. q = [k \in 1 .. n |-> IF k = 1 THEN s.maxval ELSE q[k - 1] - s.deltas[n + 1 - k]]
  BY <1>1, <1>2 DEF Decoded
<1> HIDE DEF q
<1>4. \A k \in 1 .. n : q[k] = IF k = 1 THEN s.maxval ELSE q[k - 1] - s.deltas[n + 1 - k]
  BY <1>3
<1>5. 0 .. n \subseteq {b \in 0 .. n : b = 0 \/ q[b] \in Int}
  <2> DEFINE T == {b \in 0 .. n : b = 0 \/ q[b] \in Int}
  <2>1. 0 \in T
    OBVIOUS
  <2>2. ASSUME NEW b \in 0 .. n, b < n, b \in T PROVE b + 1 \in T
    <3>1. b + 1 \in 1 .. n /\ (b + 1) - 1 = b /\ n + 1 - (b + 1) = n - b /\ b + 1 \in 0 .. n
      BY <2>2
    <3>2. CASE b = 0
      <4>1. b + 1 = 1
        BY <3>2
      <4>2. q[b + 1] = s.maxval
        BY <1>4, <3>1, <4>1
      <4> QED BY <3>1, <4>2, DeltaNumbers
    <3>3. CASE b # 0
      <4>1. b + 1 # 1 /\ n - b \in 1 .. n - 1 /\ q[b] \in Int
        BY <2>2, <3>3
      <4>2. s.deltas[n - b] \in Nat
        <5>1. n # 0
          BY <3>1
        <5> QED BY <1>1, <4>1, <5>1, DeltaNumbers
      <4>3. q[b + 1] = q[b] - s.deltas[n - b]
        BY <1>4, <3>1, <4>1
      <4> HIDE DEF T
      <4>4. q[b + 1] \in Int
        BY <4>1, <4>2, <4>3
      <4> QED BY <3>1, <4>4 DEF T
    <3> QED BY <3>2, <3>3
  <2> HIDE DEF T
  <2>3. 0 .. n \subseteq T
    BY <2>1, <2>2, FromBelow
  <2> QED BY <2>3 DEF T
<1>6. \A k \in 1 .. n : q[k] \in Int
  BY <1>5
<1>7. DOMAIN q = 1 .. n
  BY <1>3
<1>8. q \in Seq(Int) /\ Len(q) = n
  <2>1. q = [k \in 1 .. n |-> q[k]]
    BY <1>3, <1>7
  <2>2. q \in [1 .. n -> Int]
    BY <1>6, <2>1
  <2> QED BY <2>2
<1> QED BY <1>1, <1>4, <1>8 DEF q, Falls

\* The ids that are in a segment.
Entries(s) == Range(Decoded(s))
\* Every entry is an id that exceeds the one before it.
Stepped(s) == /\ HasDeltas(s) /\ \A k \in DOMAIN s.deltas : s.deltas[k] > 0
              /\ Entries(s) \subseteq Ids

\* Entries fall from the last one on: none is there twice.
LEMMA EntriesFall ==
  ASSUME NEW s \in Segment, Stepped(s)
  PROVE  /\ \A j, k \in 1 .. s.i : j < k => Decoded(s)[k] < Decoded(s)[j]
         /\ \A v \in Entries(s) : v <= s.maxval
         /\ \A v : Times(v, Decoded(s)) = IF v \in Entries(s) THEN 1 ELSE 0
<1> DEFINE q == Decoded(s)
           f == [k \in 1 .. s.i |-> 0 - q[k]]
<1>1. PICK n \in Nat : s.i = n
  BY DeltaNumbers DEF Stepped
<1>2. /\ q \in Seq(Int) /\ Len(q) = n /\ DOMAIN q = 1 .. n /\ Falls(q, n, s)
      /\ \A k \in 1 .. n : q[k] \in Int
  BY <1>1, DecodedSpec DEF Stepped
<1> HIDE DEF q
<1>3. \A k \in 2 .. n : q[k] < q[k - 1]
  <2> SUFFICES ASSUME NEW k \in 2 .. n PROVE q[k] < q[k - 1]
    OBVIOUS
  <2>1. k \in 1 .. n /\ k # 1 /\ k - 1 \in 1 .. n /\ n + 1 - k \in 1 .. n - 1 /\ n # 0
    OBVIOUS
  <2>2. q[k] = q[k - 1] - s.deltas[n + 1 - k]
    BY <1>1, <1>2, <2>1 DEF Falls
  <2>3. s.deltas[n + 1 - k] \in Nat /\ s.deltas[n + 1 - k] > 0
    BY <1>1, <2>1, DeltaNumbers DEF Stepped
  <2>4. q[k - 1] \in Int
    BY <1>2, <2>1
  <2> QED BY <2>2, <2>3, <2>4
<1>4. \A j, k \in 1 .. n : j < k => f[j] < f[k]
  <2>1. \A k \in 1 .. n : f[k] = 0 - q[k] /\ f[k] \in Int
    BY <1>1, <1>2
  <2>2. \A k \in 2 .. n : k - 1 \in 1 .. n /\ k \in 1 .. n
    OBVIOUS
  <2> HIDE DEF f
  <2>3. ASSUME NEW k \in 2 .. n PROVE f[k - 1] < f[k]
    <3>1. f[k - 1] = 0 - q[k - 1] /\ f[k] = 0 - q[k] /\ q[k - 1] \in Int /\ q[k] \in Int
      BY <1>2, <2>1, <2>2
    <3>2. q[k] < q[k - 1]
      BY <1>3
    <3> QED BY <3>1, <3>2
  <2> QED BY <2>1, <2>3, StepsRise
<1>5. \A j, k \in 1 .. n : j < k => q[k] < q[j]
  <2> SUFFICES ASSUME NEW j \in 1 .. n, NEW k \in 1 .. n, j < k PROVE q[k] < q[j]
    OBVIOUS
  <2>1. 0 - q[j] < 0 - q[k] /\ q[j] \in Int /\ q[k] \in Int
    BY <1>1, <1>2, <1>4
  <2> QED BY <2>1
<1> HIDE DEF f
<1>6. ASSUME NEW v \in Entries(s) PROVE v <= s.maxval
  <2>1. PICK k \in 1 .. n : q[k] = v
    BY <1>2 DEF Entries, Range, q
  <2>2. q[1] = s.maxval /\ 1 \in 1 .. n
    BY <1>2, <2>1 DEF Falls
  <2>3. k = 1 \/ 1 < k
    BY <2>1
  <2>4. q[1] \in Int /\ q[k] \in Int
    BY <1>2, <2>1, <2>2
  <2> QED BY <1>5, <2>1, <2>2, <2>3, <2>4
<1>7. \A j, k \in DOMAIN q : q[j] = q[k] => j = k
  <2> SUFFICES ASSUME NEW j \in 1 .. n, NEW k \in 1 .. n, j # k PROVE q[j] # q[k]
    BY <1>2
  <2>1. j < k \/ k < j
    OBVIOUS
  <2>2. q[j] \in Int /\ q[k] \in Int
    BY <1>2
  <2> QED BY <1>5, <2>1, <2>2
<1>8. ASSUME NEW v PROVE Times(v, q) = IF v \in Entries(s) THEN 1 ELSE 0
  <2>1. Times(v, q) = IF v \in Range(q) THEN 1 ELSE 0
    BY <1>2, <1>7, TimesOnce
  <2> QED BY <2>1 DEF Entries, q
<1> QED BY <1>1, <1>5, <1>6, <1>8 DEF q

\* Whatever the size and the memory of a segment, its entries are the same.
LEMMA EntriesSame ==
  ASSUME NEW s, NEW t, s.i = t.i, s.maxval = t.maxval, s.deltas = t.deltas
  PROVE  Decoded(s) = Decoded(t) /\ Entries(s) = Entries(t) /\ Stepped(s) = Stepped(t)
<1>1. Decoded(s) = Decoded(t)
  BY DEF Decoded
<1>2. Entries(s) = Entries(t)
  BY <1>1 DEF Entries
<1> QED BY <1>1, <1>2 DEF Stepped, HasDeltas

\* A new segment holds nothing.
LEMMA NewEntries == Entries(NewSegment) = {} /\ Stepped(NewSegment)
<1>1. /\ NewSegment \in Segment /\ HasDeltas(NewSegment) /\ NewSegment.i = 0
      /\ DOMAIN NewSegment.deltas = {}
  BY NewSegmentSound DEF HasDeltas, NewSegment
<1>2. Len(Decoded(NewSegment)) = 0 /\ Decoded(NewSegment) \in Seq(Int)
  BY <1>1, DecodedSpec
<1>3. DOMAIN Decoded(NewSegment) = {}
  <2>1. 1 .. 0 = {}
    OBVIOUS
  <2> QED BY <1>2, <2>1
<1> QED BY <1>1, <1>3 DEF Entries, Stepped, Range

\* An entry that is put into a segment is added to its entries.
LEMMA PutEntries ==
  ASSUME NEW s \in Segment, Stepped(s), NEW e \in Ids, Put(s, e) \in Segment,
         s.i > 0 => e > s.maxval /\ e - s.maxval <= DeltaMax
  PROVE  /\ Stepped(Put(s, e)) /\ Entries(Put(s, e)) = Entries(s) \cup {e}
         /\ e \notin Entries(s)
<1> DEFINE p == Put(s, e)
           q == Decoded(s)
           r == Decoded(p)
<1>1. PICK n \in Nat : s.i = n
  BY DeltaNumbers DEF Stepped
<1>2. q \in Seq(Int) /\ Len(q) = n /\ DOMAIN q = 1 .. n /\ Falls(q, n, s)
  BY <1>1, DecodedSpec DEF Stepped
<1>3. e \in Int /\ s.maxval \in Int /\ DeltaMax \in Nat
  BY Constants, DeltaNumbers DEF Stepped
<1>4. CASE n = 0
  <2>1. p = [s EXCEPT !.i = 1, !.maxval = e]
    BY <1>1, <1>4 DEF Put
  <2>2. p.i = 1 /\ p.maxval = e /\ p.deltas = s.deltas
    BY <2>1 DEF Segment
  <2>3. HasDeltas(p) /\ \A k \in DOMAIN p.deltas : p.deltas[k] > 0
    BY <1>1, <1>4, <2>2 DEF Stepped, HasDeltas
  <2> HIDE DEF p
  <2>4. r \in Seq(Int) /\ Len(r) = 1 /\ Falls(r, 1, p)
    BY <2>2, <2>3, DecodedSpec DEF p
  <2>5. DOMAIN r = {1} /\ r[1] = e
    BY <2>2, <2>4 DEF Falls
  <2>6. Entries(p) = {e}
    <3> HIDE DEF r
    <3> QED BY <2>5 DEF Entries, Range, r
  <2>7. Entries(s) = {}
    <3>1. 1 .. 0 = {}
      OBVIOUS
    <3> QED BY <1>2, <1>4, <3>1 DEF Entries, Range
  <2> QED BY <2>3, <2>6, <2>7 DEF Stepped, p
<1>5. CASE n # 0
  <2> DEFINE d == e - s.maxval
  <2>1. e > s.maxval /\ d <= DeltaMax /\ d > 0 /\ d \in Nat
    BY <1>1, <1>3, <1>5
  <2>2. (e - s.maxval) % (DeltaMax + 1) = d
    BY <1>3, <2>1
  <2>3. p = [s EXCEPT !.i = s.i + 1, !.deltas = Append(s.deltas, d), !.maxval = e]
    BY <1>1, <1>5, <2>2 DEF Put
  <2> HIDE DEF d
  <2>4. p.i = n + 1 /\ p.maxval = e /\ p.deltas = Append(s.deltas, d)
    BY <1>1, <2>3 DEF Segment
  <2>5. s.deltas \in Seq(Nat) /\ Len(s.deltas) = n - 1 /\ DOMAIN s.deltas = 1 .. n - 1
    <3>1. \A k \in DOMAIN s.deltas : s.deltas[k] \in Nat
      BY DeltaNumbers DEF Stepped
    <3>2. s.deltas \in Seq(Delta) /\ Len(s.deltas) = n - 1
      BY <1>1, <1>5, DeltaNumbers DEF Stepped, HasDeltas
    <3> QED BY <3>1, <3>2
  <2>6. Len(p.deltas) = n /\ \A k \in 1 .. n : p.deltas[k] = IF k = n THEN d ELSE s.deltas[k]
    <3>1. p.deltas \in Seq(Nat) /\ Len(p.deltas) = (n - 1) + 1
      BY <2>1, <2>4, <2>5
    <3>2. \A k \in 1 .. n : p.deltas[k] = IF k = n THEN d ELSE s.deltas[k]
      BY <2>1, <2>4, <2>5
    <3> QED BY <3>1, <3>2
  <2>7. HasDeltas(p) /\ \A k \in DOMAIN p.deltas : p.deltas[k] > 0
    <3>1. HasDeltas(p)
      BY <1>5, <2>4, <2>6 DEF HasDeltas
    <3>2. DOMAIN p.deltas = 1 .. n
      BY <2>1, <2>4, <2>5, <2>6
    <3>3. \A k \in 1 .. n : k # n => k \in DOMAIN s.deltas
      BY <2>5
    <3> QED BY <2>1, <2>6, <3>1, <3>2, <3>3 DEF Stepped
  <2> HIDE DEF p
  <2>8. r \in Seq(Int) /\ Len(r) = n + 1 /\ DOMAIN r = 1 .. n + 1 /\ Falls(r, n + 1, p)
    <3>1. p \in Segment
      BY DEF p
    <3>2. r \in Seq(Int) /\ Len(r) = p.i /\ Falls(r, p.i, p)
      BY <2>7, <3>1, DecodedSpec
    <3> HIDE DEF r
    <3> QED BY <2>4, <3>2
  <2> HIDE DEF q, r
  <2>9. r[1] = e
    BY <2>4, <2>8 DEF Falls
  <2>10. 0 .. n \subseteq {k \in 0 .. n : k = 0 \/ r[k + 1] = q[k]}
    <3> DEFINE T == {k \in 0 .. n : k = 0 \/ r[k + 1] = q[k]}
    <3>1. 0 \in T
      OBVIOUS
    <3>2. ASSUME NEW k \in 0 .. n, k < n, k \in T PROVE k + 1 \in T
      <4>1. /\ k + 2 \in 1 .. n + 1 /\ k + 2 # 1 /\ (k + 2) - 1 = k + 1
            /\ (n + 1) + 1 - (k + 2) = n - k /\ k + 1 \in 1 .. n /\ n - k \in 1 .. n
        BY <3>2
      <4>2. r[k + 2] = r[k + 1] - p.deltas[n - k]
        BY <2>4, <2>8, <4>1 DEF Falls
      <4>3. p.deltas[n - k] = IF n - k = n THEN d ELSE s.deltas[n - k]
        BY <2>6, <4>1
      <4>4. r[k + 2] = q[k + 1]
        <5>1. CASE k = 0
          <6>1. n - k = n /\ k + 1 = 1
            BY <5>1
          <6>2. r[k + 1] = e /\ p.deltas[n - k] = d
            BY <2>9, <4>3, <6>1
          <6>3. q[k + 1] = s.maxval
            BY <1>2, <4>1, <6>1 DEF Falls
          <6>4. e - d = s.maxval
            BY <1>3 DEF d
          <6> QED BY <4>2, <6>2, <6>3, <6>4
        <5>2. CASE k # 0
          <6>1. n - k # n /\ k + 1 # 1 /\ (k + 1) - 1 = k /\ n + 1 - (k + 1) = n - k
            BY <5>2
          <6>2. q[k + 1] = q[k] - s.deltas[n - k]
            BY <1>1, <1>2, <4>1, <6>1 DEF Falls
          <6>3. r[k + 1] = q[k]
            BY <3>2, <5>2
          <6> QED BY <4>2, <4>3, <6>1, <6>2, <6>3
        <5> QED BY <5>1, <5>2
      <4>5. k + 1 \in 0 .. n /\ (k + 1) + 1 = k + 2
        BY <4>1
      <4> QED BY <4>4, <4>5
    <3> HIDE DEF T
    <3>3. 0 .. n \subseteq T
      BY <3>1, <3>2, FromBelow
    <3> QED BY <3>3 DEF T
  <2>11. \A k \in 1 .. n : r[k + 1] = q[k]
    BY <2>10
  <2>12. Range(r) = Range(q) \cup {e}
    <3>1. \A k \in 1 .. n + 1 : k = 1 \/ (k - 1 \in 1 .. n /\ (k - 1) + 1 = k)
      OBVIOUS
    <3>2. ASSUME NEW k \in 1 .. n + 1 PROVE r[k] \in Range(q) \cup {e}
      <4>1. CASE k = 1
        BY <2>9, <4>1
      <4>2. CASE k # 1
        <5>1. r[k] = q[k - 1] /\ k - 1 \in 1 .. n
          BY <2>11, <3>1, <4>2
        <5> QED BY <1>2, <5>1 DEF Range
      <4> QED BY <4>1, <4>2
    <3>3. \A k \in 1 .. n : k + 1 \in 1 .. n + 1 /\ 1 \in 1 .. n + 1
      OBVIOUS
    <3>4. \A k \in 1 .. n : q[k] \in Range(r)
      BY <2>8, <2>11, <3>3 DEF Range
    <3>5. e \in Range(r)
      <4>1. 1 \in 1 .. n + 1
        OBVIOUS
      <4> QED BY <2>8, <2>9, <4>1 DEF Range
    <3> QED BY <1>2, <2>8, <3>2, <3>4, <3>5 DEF Range
  <2>13. Entries(p) = Entries(s) \cup {e}
    BY <2>12 DEF Entries, q, r
  <2>14. e \notin Entries(s)
    <3>1. \A v \in Entries(s) : v <= s.maxval
      BY EntriesFall
    <3> QED BY <1>3, <2>1, <3>1
  <2> QED BY <2>7, <2>13, <2>14 DEF Stepped, p
<1> QED BY <1>4, <1>5
-----------------------------------------------------------------------------
(***************************************************************************)
(* A list holds an id in as many segments as it was added times            *)
(***************************************************************************)
\* The segments of the list f that hold the id v.
Holders(f, v) == {k \in DOMAIN f : v \in Entries(f[k])}
\* An id is in as many segments as it was added times.
Counted == \A v \in Ids : Cardinality(Holders(segs, v)) = added[v]

\* What holds of every list: it is sound, and it holds what was added.
ListInv == IInv /\ (\A k \in DOMAIN segs : Stepped(segs[k])) /\ Counted

\* The segments that hold an id can be counted.
LEMMA HoldersFinite ==
  ASSUME NEW f \in Seq(Segment), NEW v
  PROVE  IsFiniteSet(Holders(f, v)) /\ Cardinality(Holders(f, v)) \in Nat
<1>1. DOMAIN f = 1 .. Len(f) /\ Len(f) \in Int
  OBVIOUS
<1>2. IsFiniteSet(DOMAIN f)
  BY <1>1, FS_Interval
<1>3. IsFiniteSet(Holders(f, v))
  BY <1>2, FS_Subset DEF Holders
<1> QED BY <1>3, FS_CardinalityType

\* A new segment in front holds nothing.
LEMMA NewInFront ==
  ASSUME NEW f \in Seq(Segment), NEW v
  PROVE  Cardinality(Holders(<<NewSegment>> \o f, v)) = Cardinality(Holders(f, v))
<1> DEFINE g == <<NewSegment>> \o f
           p == [k \in Holders(f, v) |-> k + 1]
<1>1. PICK n \in Nat : Len(f) = n /\ DOMAIN f = 1 .. n
  BY LenProperties
<1>2. /\ g \in Seq(Segment) /\ DOMAIN g = 1 .. n + 1
      /\ \A k \in 1 .. n + 1 : g[k] = IF k = 1 THEN NewSegment ELSE f[k - 1]
  <2>1. NewSegment \in Segment
    BY NewSegmentSound
  <2>2. Len(g) = 1 + n
    BY <1>1, <2>1
  <2> QED BY <1>1, <2>1, <2>2
<1> HIDE DEF g
<1>3. \A k \in 1 .. n : k + 1 \in 1 .. n + 1 /\ k + 1 # 1 /\ (k + 1) - 1 = k
  OBVIOUS
<1>4. \A k \in 1 .. n + 1 : k # 1 => k - 1 \in 1 .. n /\ (k - 1) + 1 = k
  OBVIOUS
<1>5. \A k \in Holders(f, v) : p[k] \in Holders(g, v)
  BY <1>1, <1>2, <1>3 DEF Holders
<1>6. ASSUME NEW k \in Holders(g, v) PROVE k - 1 \in Holders(f, v) /\ p[k - 1] = k
  <2>1. k \in 1 .. n + 1 /\ v \in Entries(g[k]) /\ k # 1
    BY <1>2, NewEntries DEF Holders
  <2>2. g[k] = f[k - 1] /\ k - 1 \in 1 .. n /\ (k - 1) + 1 = k
    BY <1>2, <1>4, <2>1
  <2> QED BY <1>1, <2>1, <2>2 DEF Holders
<1>7. \A j, k \in Holders(f, v) : p[j] = p[k] => j = k
  BY <1>1 DEF Holders
<1> HIDE DEF p
<1>8. Carries(p, Holders(f, v), Holders(g, v))
  BY <1>5, <1>6, <1>7 DEF Carries
<1> QED BY <1>8, HoldersFinite, SameNumber DEF g

\* Whichever segment is brought to the front, as many hold an id as before.
LEMMA FrontedHolds ==
  ASSUME ListInv, NEW e \in Ids
  PROVE  /\ \A k \in DOMAIN Fronted(e) : Stepped(Fronted(e)[k])
         /\ \A v : Cardinality(Holders(Fronted(e), v)) = Cardinality(Holders(segs, v))
         /\ Fronted(e)[1].i > 0 => e > Fronted(e)[1].maxval /\ e - Fronted(e)[1].maxval <= DeltaMax
<1>1. TypeOK /\ segs \in Seq(Segment) /\ \A k \in DOMAIN segs : Stepped(segs[k])
  BY DEF ListInv, IInv, TypeOK
<1>2. \A k \in DOMAIN Fronted(e) : Stepped(Fronted(e)[k])
  BY <1>1, NewEntries, FrontedSegments
<1>3. CASE Candidates(e) = {}
  <2>1. Fronted(e) = <<NewSegment>> \o segs /\ Fronted(e)[1] = NewSegment
    BY <1>1, <1>3, FrontedSegments DEF Fronted
  <2>2. ~(NewSegment.i > 0)
    BY NewSegmentSound
  <2> QED BY <1>1, <1>2, <2>1, <2>2, NewInFront
<1>4. CASE Candidates(e) # {}
  <2> DEFINE f == Fronted(e)
  <2>1. PICK n \in Nat : Len(segs) = n /\ DOMAIN segs = 1 .. n
    BY <1>1, LenProperties
  <2>2. PICK m \in Candidates(e) :
          /\ m \in 1 .. n /\ f \in Seq(Segment) /\ Len(f) = n
          /\ \A k \in 1 .. n : f[k] = IF k = 1 THEN segs[m] ELSE IF k <= m THEN segs[k - 1] ELSE segs[k]
    BY <1>1, <1>4, <2>1, FrontedPlaces
  <2>3. DOMAIN f = 1 .. n
    BY <2>2
  <2> HIDE DEF f
  <2>4. f[1] = segs[m] /\ Matches(segs[m], e)
    <3>1. 1 \in 1 .. n
      BY <2>2
    <3> QED BY <2>2, <3>1 DEF Candidates
  <2>5. ASSUME NEW v PROVE Cardinality(Holders(f, v)) = Cardinality(Holders(segs, v))
    <3> DEFINE p == [k \in Holders(f, v) |-> IF k = 1 THEN m ELSE IF k <= m THEN k - 1 ELSE k]
    <3>1. ASSUME NEW k \in 1 .. n
          PROVE  LET j == IF k = 1 THEN m ELSE IF k <= m THEN k - 1 ELSE k
                 IN  j \in 1 .. n /\ f[k] = segs[j]
      BY <2>2
    <3>2. \A k \in Holders(f, v) : p[k] \in Holders(segs, v)
      BY <2>1, <2>3, <3>1 DEF Holders
    <3>3. ASSUME NEW j \in Holders(segs, v) PROVE \E k \in Holders(f, v) : p[k] = j
      <4> DEFINE k == IF j = m THEN 1 ELSE IF j < m THEN j + 1 ELSE j
      <4>1. j \in 1 .. n /\ v \in Entries(segs[j])
        BY <2>1 DEF Holders
      <4>2. k \in 1 .. n /\ j = IF k = 1 THEN m ELSE IF k <= m THEN k - 1 ELSE k
        BY <2>2, <4>1
      <4> HIDE DEF k
      <4>3. f[k] = segs[j]
        BY <2>2, <3>1, <4>2
      <4>4. k \in Holders(f, v)
        BY <2>3, <4>1, <4>2, <4>3 DEF Holders
      <4> QED BY <4>2, <4>4
    <3>4. ASSUME NEW j \in Holders(f, v), NEW k \in Holders(f, v), p[j] = p[k] PROVE j = k
      <4>1. j \in 1 .. n /\ k \in 1 .. n /\ m \in 1 .. n
        BY <2>2, <2>3 DEF Holders
      <4> QED BY <3>4, <4>1
    <3>5. Holders(f, v) = {} \/ Holders(f, v) # {}
      OBVIOUS
    <3> HIDE DEF p
    <3>6. Carries(p, Holders(f, v), Holders(segs, v))
      BY <3>2, <3>3, <3>4 DEF Carries
    <3> QED BY <2>2, <3>6, HoldersFinite, SameNumber
  <2> QED BY <1>2, <2>4, <2>5 DEF f, Matches
<1> QED BY <1>3, <1>4

\* Another head with the same entries holds the same; with another entry, that as well.
LEMMA HeadHolds ==
  ASSUME NEW f \in Seq(Segment), f # <<>>, NEW h \in Segment, NEW v
  PROVE  \A E : Entries(h) = Entries(f[1]) \cup E =>
                  Holders(<<h>> \o Tail(f), v) = Holders(f, v) \cup (IF v \in E THEN {1} ELSE {})
<1> DEFINE g == <<h>> \o Tail(f)
<1>1. /\ DOMAIN g = DOMAIN f /\ g[1] = h /\ \A k \in DOMAIN f : k # 1 => g[k] = f[k]
      /\ 1 \in DOMAIN f
  BY NewHead
<1> HIDE DEF g
<1> QED BY <1>1 DEF Holders, g

\* An id that is put into the first segment is held once more.
LEMMA PutCounted ==
  ASSUME ListInv, NEW e \in Ids, NEW f \in Seq(Segment), f # <<>>,
         \A k \in DOMAIN f : Stepped(f[k]),
         \A v \in Ids : Cardinality(Holders(f, v)) = added[v],
         Put(f[1], e) \in Segment,
         f[1].i > 0 => e > f[1].maxval /\ e - f[1].maxval <= DeltaMax,
         segs' = <<Put(f[1], e)>> \o Tail(f), Taken(e)
  PROVE  (\A k \in DOMAIN segs' : Stepped(segs'[k])) /\ Counted'
<1> DEFINE h == Put(f[1], e)
<1>1. 1 \in DOMAIN f /\ f[1] \in Segment
  OBVIOUS
<1>2. Stepped(h) /\ Entries(h) = Entries(f[1]) \cup {e} /\ e \notin Entries(f[1]) /\ h \in Segment
  BY <1>1, PutEntries
<1> HIDE DEF h
<1>3. segs' = <<h>> \o Tail(f)
  BY DEF h
<1>4. /\ DOMAIN segs' = DOMAIN f /\ segs'[1] = h
      /\ \A k \in DOMAIN f : k # 1 => segs'[k] = f[k]
  BY <1>2, <1>3, NewHead
<1>5. \A k \in DOMAIN segs' : Stepped(segs'[k])
  BY <1>2, <1>4
<1>6. ASSUME NEW v \in Ids PROVE Cardinality(Holders(segs', v)) = added'[v]
  <2>1. added' = [added EXCEPT ![e] = added[e] + 1] /\ added \in [Ids -> Nat]
    BY DEF Taken, ListInv, IInv, TypeOK
  <2>2. Holders(segs', v) = Holders(f, v) \cup (IF v \in {e} THEN {1} ELSE {})
    <3>1. \A E : Entries(h) = Entries(f[1]) \cup E =>
                    Holders(<<h>> \o Tail(f), v) = Holders(f, v) \cup (IF v \in E THEN {1} ELSE {})
      BY <1>2, HeadHolds
    <3> QED BY <1>2, <1>3, <3>1
  <2>3. IsFiniteSet(Holders(f, v)) /\ Cardinality(Holders(f, v)) = added[v]
    BY HoldersFinite
  <2>4. CASE v = e
    <3>1. 1 \notin Holders(f, v)
      BY <1>2, <2>4 DEF Holders
    <3>2. Holders(segs', v) = Holders(f, v) \cup {1}
      BY <2>2, <2>4
    <3>3. Cardinality(Holders(segs', v)) = Cardinality(Holders(f, v)) + 1
      BY <2>3, <3>1, <3>2, FS_AddElement
    <3> QED BY <2>1, <2>3, <2>4, <3>3
  <2>5. CASE v # e
    BY <2>1, <2>2, <2>3, <2>5
  <2> QED BY <2>4, <2>5
<1>7. Counted'
  BY <1>6 DEF Counted, Holders, Ids
<1> QED BY <1>5, <1>7

LEMMA ListInitInv == Init => ListInv
<1> SUFFICES ASSUME Init PROVE ListInv
  OBVIOUS
<1>1. IInv
  BY InitInv
<1>2. segs = <<>> /\ DOMAIN segs = {} /\ added = [v \in Ids |-> 0]
  BY DEF Init
<1>3. \A v : Holders(segs, v) = {}
  BY <1>2 DEF Holders
<1> QED BY <1>1, <1>2, <1>3, FS_EmptySet DEF ListInv, Counted

\* An append to a new segment counts.
LEMMA AppendNewCounted ==
  ASSUME ListInv, NEW e \in Ids, AppendNew(e)
  PROVE  (\A k \in DOMAIN segs' : Stepped(segs'[k])) /\ Counted'
<1> DEFINE f == <<NewSegment>> \o segs
<1>1. segs \in Seq(Segment) /\ NewSegment \in Segment /\ IInv
  BY NewSegmentSound DEF ListInv, IInv, TypeOK
<1>2. /\ f \in Seq(Segment) /\ Len(f) = 1 + Len(segs) /\ f[1] = NewSegment /\ f # <<>>
      /\ Tail(f) = segs
      /\ \A k \in 1 .. 1 + Len(segs) : k # 1 => f[k] = segs[k - 1]
  BY <1>1
<1>3. \A k \in DOMAIN f : k # 1 => k - 1 \in DOMAIN segs
  BY <1>1, <1>2
<1>4. \A v \in Ids : Cardinality(Holders(f, v)) = added[v]
  BY <1>1, NewInFront DEF ListInv, Counted
<1> HIDE DEF f
<1>5. \A k \in DOMAIN f : Stepped(f[k])
  BY <1>2, <1>3, NewEntries DEF ListInv
<1>6. segs' = <<Put(f[1], e)>> \o Tail(f) /\ Taken(e)
  BY <1>2 DEF AppendNew
<1>7. ~(f[1].i > 0) /\ Put(f[1], e) \in Segment
  BY <1>1, <1>2, NewSegmentSound, PutSound
<1> QED BY <1>2, <1>4, <1>5, <1>6, <1>7, PutCounted

\* The list with another head of the same entries.
LEMMA SameHead ==
  ASSUME NEW f \in Seq(Segment), f # <<>>, NEW h \in Segment,
         h.i = f[1].i, h.maxval = f[1].maxval, h.deltas = f[1].deltas,
         \A k \in DOMAIN f : Stepped(f[k])
  PROVE  /\ \A k \in DOMAIN (<<h>> \o Tail(f)) : Stepped((<<h>> \o Tail(f))[k])
         /\ \A v : Holders(<<h>> \o Tail(f), v) = Holders(f, v)
<1>1. 1 \in DOMAIN f
  OBVIOUS
<1>2. Entries(h) = Entries(f[1]) /\ Stepped(h) = Stepped(f[1])
  BY EntriesSame
<1> DEFINE g == <<h>> \o Tail(f)
<1>3. DOMAIN g = DOMAIN f /\ g[1] = h /\ \A k \in DOMAIN f : k # 1 => g[k] = f[k]
  BY NewHead
<1> HIDE DEF g
<1>4. \A k \in DOMAIN g : Stepped(g[k])
  BY <1>1, <1>2, <1>3
<1>5. \A k \in DOMAIN g : Entries(g[k]) = Entries(f[k])
  BY <1>2, <1>3
<1>6. \A v : Holders(g, v) = Holders(f, v)
  BY <1>3, <1>5 DEF Holders
<1> QED BY <1>4, <1>6 DEF g

\* An append to a segment of the list counts.
LEMMA AppendMatchCounted ==
  ASSUME ListInv, NEW e \in Ids, AppendMatch(e)
  PROVE  (\A k \in DOMAIN segs' : Stepped(segs'[k])) /\ Counted'
<1> DEFINE f == Fronted(e)
           g == IF NeedsGrowth(f[1]) THEN <<Grown(f[1])>> \o Tail(f) ELSE f
<1>1. f \in Seq(Segment) /\ f # <<>> /\ 1 \in DOMAIN f /\ IInv
  BY FrontedSegments DEF ListInv, IInv
<1>2. /\ f[1] \in Segment /\ Sound(f[1])
      /\ f[1].i < f[1].size \/ f[1].size # MaxSize
  BY <1>1, HeadSound
<1>3. /\ \A k \in DOMAIN f : Stepped(f[k])
      /\ \A v : Cardinality(Holders(f, v)) = Cardinality(Holders(segs, v))
      /\ f[1].i > 0 => e > f[1].maxval /\ e - f[1].maxval <= DeltaMax
  BY FrontedHolds
<1>4. PutAtHead(g, e)
  BY DEF AppendMatch
<1> HIDE DEF f
<1>5. /\ g \in Seq(Segment) /\ g # <<>> /\ g[1] \in Segment /\ Sound(g[1]) /\ g[1].i < g[1].size
      /\ g[1].i = f[1].i /\ g[1].maxval = f[1].maxval
      /\ \A k \in DOMAIN g : Stepped(g[k])
      /\ \A v : Cardinality(Holders(g, v)) = Cardinality(Holders(segs, v))
  <2>1. f[1].i \in Nat /\ f[1].size \in Nat
    BY <1>2 DEF Segment
  <2>2. CASE NeedsGrowth(f[1])
    <3> DEFINE h == Grown(f[1])
    <3>1. f[1].size # MaxSize
      BY <1>2, <2>1, <2>2 DEF NeedsGrowth
    <3>2. /\ h \in Segment /\ Sound(h) /\ h.i = f[1].i /\ h.maxval = f[1].maxval
          /\ h.deltas = f[1].deltas /\ f[1].i < h.size
      BY <1>2, <2>2, <3>1, GrownSound
    <3> HIDE DEF h
    <3>3. g = <<h>> \o Tail(f)
      BY <2>2 DEF h
    <3>4. g \in Seq(Segment) /\ g # <<>> /\ g[1] = h
      BY <1>1, <3>2, <3>3, NewHead
    <3>5. /\ \A k \in DOMAIN g : Stepped(g[k])
          /\ \A v : Holders(g, v) = Holders(f, v)
      BY <1>1, <1>3, <3>2, <3>3, SameHead
    <3> HIDE DEF g
    <3> QED BY <1>3, <3>2, <3>4, <3>5
  <2>3. CASE ~NeedsGrowth(f[1])
    <3>1. g = f /\ f[1].i < f[1].size
      BY <2>1, <2>3 DEF NeedsGrowth
    <3> HIDE DEF g
    <3> QED BY <1>1, <1>2, <1>3, <3>1
  <2> QED BY <2>2, <2>3
<1> HIDE DEF g
<1>6. CASE g[1].i > g[1].cap
  <2>1. UNCHANGED <<segs, added>>
    BY <1>4, <1>6 DEF PutAtHead
  <2> QED BY <2>1 DEF ListInv, Counted
<1>7. CASE ~(g[1].i > g[1].cap)
  <2>1. segs' = <<Put(g[1], e)>> \o Tail(g) /\ Taken(e)
    BY <1>4, <1>7 DEF PutAtHead
  <2>2. Put(g[1], e) \in Segment
    BY <1>5, PutSound
  <2>3. \A v \in Ids : Cardinality(Holders(g, v)) = added[v]
    BY <1>5 DEF ListInv, Counted
  <2>4. g[1].i > 0 => e > g[1].maxval /\ e - g[1].maxval <= DeltaMax
    BY <1>3, <1>5
  <2> QED BY <1>5, <2>1, <2>2, <2>3, <2>4, PutCounted
<1> QED BY <1>6, <1>7

\* An append that fails loses nothing of the list.
LEMMA GrowthFailsCounted ==
  ASSUME ListInv, NEW e \in Ids, GrowthFails(e)
  PROVE  (\A k \in DOMAIN segs' : Stepped(segs'[k])) /\ Counted'
<1> DEFINE f == Fronted(e)
           h == [f[1] EXCEPT !.size = Grown(f[1]).size]
<1>1. f \in Seq(Segment) /\ f # <<>> /\ 1 \in DOMAIN f /\ IInv
  BY FrontedSegments DEF ListInv, IInv
<1>2. /\ f[1] \in Segment /\ Sound(f[1])
      /\ f[1].i < f[1].size \/ f[1].size # MaxSize
  BY <1>1, HeadSound
<1>3. /\ \A k \in DOMAIN f : Stepped(f[k])
      /\ \A v : Cardinality(Holders(f, v)) = Cardinality(Holders(segs, v))
  BY FrontedHolds
<1>4. NeedsGrowth(f[1]) /\ segs' = <<h>> \o Tail(f) /\ added' = added
  BY DEF GrowthFails
<1> HIDE DEF f
<1>5. f[1].size # MaxSize
  <2>1. f[1].i \in Nat /\ f[1].size \in Nat
    BY <1>2 DEF Segment
  <2> QED BY <1>2, <1>4, <2>1 DEF NeedsGrowth
<1>6. Grown(f[1]) \in Segment
  BY <1>2, <1>4, <1>5, GrownSound
<1>7. h \in Segment /\ h.i = f[1].i /\ h.maxval = f[1].maxval /\ h.deltas = f[1].deltas
  BY <1>2, <1>6 DEF Segment
<1> HIDE DEF h
<1>8. /\ \A k \in DOMAIN segs' : Stepped(segs'[k])
      /\ \A v : Holders(segs', v) = Holders(f, v)
  BY <1>1, <1>3, <1>4, <1>7, SameHead
<1>9. \A v \in Ids : Cardinality(Holders(segs', v)) = added'[v]
  BY <1>3, <1>4, <1>8 DEF ListInv, Counted
<1> QED BY <1>8, <1>9 DEF Counted

\* No step of the list breaks its invariant.
LEMMA ListStep == ListInv /\ [Next]_vars => ListInv'
<1> SUFFICES ASSUME ListInv, [Next]_vars PROVE ListInv'
  OBVIOUS
<1>1. IInv'
  BY NextInv DEF ListInv
<1>2. CASE UNCHANGED <<segs, added>>
  BY <1>1, <1>2 DEF ListInv, Counted
<1>3. ASSUME NEW e \in Ids, AppendNew(e) \/ AppendMatch(e) \/ NewFails(e) \/ GrowthFails(e)
      PROVE  ListInv'
  <2>1. CASE AppendNew(e)
    BY <1>1, <2>1, AppendNewCounted DEF ListInv
  <2>2. CASE AppendMatch(e)
    BY <1>1, <2>2, AppendMatchCounted DEF ListInv
  <2>3. CASE NewFails(e)
    BY <1>2, <2>3 DEF NewFails
  <2>4. CASE GrowthFails(e)
    BY <1>1, <2>4, GrowthFailsCounted DEF ListInv
  <2> QED BY <1>3, <2>1, <2>2, <2>3, <2>4
<1> QED BY <1>2, <1>3 DEF Next, vars
-----------------------------------------------------------------------------
(***************************************************************************)
(* The array of the entries of all segments                                *)
(***************************************************************************)
\* The array of all entries has every id as often as it was added.
LEMMA ToArraySpec ==
  ASSUME ListInv
  PROVE  ToArray \in Seq(Ids) /\ \A v \in Ids : Times(v, ToArray) = added[v]
<1>1. PICK n \in Nat : Len(segs) = n
  BY LenProperties DEF ListInv, IInv, TypeOK
<1>2. /\ segs \in Seq(Segment) /\ DOMAIN segs = 1 .. n
      /\ \A k \in 1 .. n : segs[k] \in Segment /\ Stepped(segs[k])
  BY <1>1 DEF ListInv, IInv, TypeOK
<1>3. \A k \in 1 .. n : Decoded(segs[k]) \in Seq(Ids)
  <2> SUFFICES ASSUME NEW k \in 1 .. n PROVE Decoded(segs[k]) \in Seq(Ids)
    OBVIOUS
  <2> DEFINE q == Decoded(segs[k])
  <2>1. q \in Seq(Int)
    BY <1>2, DecodedSpec DEF Stepped
  <2>2. \A j \in DOMAIN q : q[j] \in Ids
    BY <1>2 DEF Stepped, Entries, Range
  <2> HIDE DEF q
  <2>3. q \in Seq(Ids)
    BY <2>1, <2>2
  <2> QED BY <2>3 DEF q
<1> DEFINE step == [b \in 1 .. n |-> [x \in Seq(Ids) |-> x \o Decoded(segs[b])]]
<1>4. \A b \in 1 .. n : \A x \in Seq(Ids) : step[b][x] = x \o Decoded(segs[b]) /\ step[b][x] \in Seq(Ids)
  BY <1>3
<1> HIDE DEF step
<1>5. PICK f : Steps(f, n, <<>>, step)
  BY StepsExist
<1>6. \A b \in 0 .. n : f[b] \in Seq(Ids)
  <2>1. <<>> \in Seq(Ids)
    OBVIOUS
  <2> QED BY <1>4, <1>5, <2>1, StepsWithin
<1> DEFINE g == [b \in 0 .. n |-> f[b]]
<1>7. ASSUME NEW b \in 0 .. n PROVE g[b] = IF b = 0 THEN <<>> ELSE g[b - 1] \o Decoded(segs[b])
  <2>1. f[b] = IF b = 0 THEN <<>> ELSE step[b][f[b - 1]]
    BY <1>5 DEF Steps
  <2>2. CASE b = 0
    BY <2>1, <2>2
  <2>3. CASE b # 0
    <3>1. b \in 1 .. n /\ b - 1 \in 0 .. n
      BY <2>3
    <3>2. step[b][f[b - 1]] = f[b - 1] \o Decoded(segs[b])
      BY <1>4, <1>6, <3>1
    <3>3. g[b] = f[b] /\ g[b - 1] = f[b - 1]
      BY <3>1
    <3> HIDE DEF g
    <3> QED BY <2>1, <2>3, <3>2, <3>3
  <2> QED BY <2>2, <2>3
<1>8. g = [b \in 0 .. n |-> g[b]]
  OBVIOUS
<1> HIDE DEF g
<1>9. g = [b \in 0 .. n |-> IF b = 0 THEN <<>> ELSE g[b - 1] \o Decoded(segs[b])]
  BY <1>7, <1>8
<1> DEFINE upto == CHOOSE u : u = [b \in 0 .. n |-> IF b = 0 THEN <<>> ELSE u[b - 1] \o Decoded(segs[b])]
<1>10. upto = [b \in 0 .. n |-> IF b = 0 THEN <<>> ELSE upto[b - 1] \o Decoded(segs[b])]
  BY <1>9
<1>11. ToArray = upto[n]
  BY <1>1 DEF ToArray
<1> HIDE DEF upto
<1>12. upto[0] = <<>> /\ \A b \in 1 .. n : upto[b] = upto[b - 1] \o Decoded(segs[b])
  BY <1>10
<1> DEFINE Among(b, v) == {k \in 1 .. b : v \in Entries(segs[k])}
<1> DEFINE T == {b \in 0 .. n : /\ upto[b] \in Seq(Ids)
                                /\ \A v \in Ids : Times(v, upto[b]) = Cardinality(Among(b, v))}
<1>13. 0 \in T
  <2>1. \A v : Among(0, v) = {}
    OBVIOUS
  <2>2. <<>> \in Seq(Ids) /\ \A v : v \notin Range(<<>>)
    BY DEF Range
  <2>3. \A v : Times(v, <<>>) = 0
    BY <2>2, TimesIsNumber
  <2>4. \A v : Cardinality(Among(0, v)) = 0
    BY <2>1, FS_EmptySet
  <2>5. 0 \in 0 .. n
    OBVIOUS
  <2> HIDE DEF Among
  <2> QED BY <1>12, <2>2, <2>3, <2>4, <2>5
<1>14. ASSUME NEW b \in 0 .. n, b < n, b \in T PROVE b + 1 \in T
  <2>1. b + 1 \in 1 .. n /\ (b + 1) - 1 = b /\ b + 1 \in 0 .. n
    BY <1>14
  <2>2. upto[b + 1] = upto[b] \o Decoded(segs[b + 1]) /\ upto[b] \in Seq(Ids)
    BY <1>12, <1>14, <2>1
  <2>3. Decoded(segs[b + 1]) \in Seq(Ids)
    BY <1>3, <2>1
  <2>4. upto[b + 1] \in Seq(Ids)
    BY <2>2, <2>3
  <2>5. ASSUME NEW v \in Ids PROVE Times(v, upto[b + 1]) = Cardinality(Among(b + 1, v))
    <3>1. Times(v, upto[b + 1]) = Times(v, upto[b]) + Times(v, Decoded(segs[b + 1]))
      BY <2>2, <2>3, TimesOfBoth
    <3>2. Times(v, upto[b]) = Cardinality(Among(b, v))
      BY <1>14
    <3>3. Times(v, Decoded(segs[b + 1])) = IF v \in Entries(segs[b + 1]) THEN 1 ELSE 0
      BY <1>2, <2>1, EntriesFall
    <3>4. \A k \in 1 .. b + 1 : k = b + 1 \/ k \in 1 .. b
      OBVIOUS
    <3>5. \A k \in 1 .. b : k \in 1 .. b + 1
      OBVIOUS
    <3>6. b + 1 \in 1 .. b + 1 /\ b + 1 \notin 1 .. b
      OBVIOUS
    <3>7. Among(b + 1, v) = IF v \in Entries(segs[b + 1]) THEN Among(b, v) \cup {b + 1} ELSE Among(b, v)
      BY <3>4, <3>5, <3>6
    <3>8. b + 1 \notin Among(b, v)
      BY <3>6
    <3>9. IsFiniteSet(Among(b, v))
      <4>1. IsFiniteSet(1 .. b)
        BY FS_Interval
      <4> QED BY <4>1, FS_Subset
    <3> HIDE DEF Among
    <3>10. Cardinality(Among(b, v)) \in Nat
      BY <3>9, FS_CardinalityType
    <3>11. Cardinality(Among(b, v) \cup {b + 1}) = Cardinality(Among(b, v)) + 1
      BY <3>8, <3>9, FS_AddElement
    <3> QED BY <3>1, <3>2, <3>3, <3>7, <3>10, <3>11
  <2> HIDE DEF Among
  <2> QED BY <2>1, <2>4, <2>5
<1> HIDE DEF T
<1>15. 0 .. n \subseteq T
  BY <1>13, <1>14, FromBelow
<1>16. n \in T
  BY <1>15
<1>17. \A v : Among(n, v) = Holders(segs, v)
  BY <1>2 DEF Holders
<1> QED BY <1>11, <1>16, <1>17 DEF T, ListInv, Counted
-----------------------------------------------------------------------------
(***************************************************************************)
(* Sorting                                                                 *)
(***************************************************************************)

\* How many of a list are at most v, and how many are less.
AtMost(ids, v) == {j \in DOMAIN ids : ids[j] <= v}
Under(ids, v) == {j \in DOMAIN ids : ids[j] < v}

\* As many are at most v as there are below it, and v itself.
LEMMA RankSpec ==
  ASSUME NEW ids \in Seq(Nat), NEW v \in Nat
  PROVE  /\ Cardinality(AtMost(ids, v)) \in Nat /\ Cardinality(Under(ids, v)) \in Nat
         /\ Cardinality(AtMost(ids, v)) = Cardinality(Under(ids, v)) + Times(v, ids)
         /\ Cardinality(AtMost(ids, v)) <= Len(ids)
         /\ (\A w \in Range(ids) : w <= v) => Cardinality(AtMost(ids, v)) = Len(ids)
         /\ \A w \in Nat : w < v => Cardinality(AtMost(ids, w)) <= Cardinality(Under(ids, v))
<1> DEFINE E == {k \in DOMAIN ids : ids[k] = v}
<1>1. DOMAIN ids = 1 .. Len(ids) /\ Len(ids) \in Nat /\ \A j \in DOMAIN ids : ids[j] \in Nat
  OBVIOUS
<1>2. IsFiniteSet(DOMAIN ids) /\ Cardinality(DOMAIN ids) = Len(ids)
  <2>1. /\ IsFiniteSet(1 .. Len(ids))
        /\ Cardinality(1 .. Len(ids)) = IF 1 > Len(ids) THEN 0 ELSE Len(ids) - 1 + 1
    BY <1>1, FS_Interval
  <2>2. (IF 1 > Len(ids) THEN 0 ELSE Len(ids) - 1 + 1) = Len(ids)
    BY <1>1
  <2> QED BY <1>1, <2>1, <2>2
<1>3. /\ IsFiniteSet(Under(ids, v)) /\ IsFiniteSet(E)
      /\ \A w : IsFiniteSet(AtMost(ids, w)) /\ Cardinality(AtMost(ids, w)) <= Len(ids)
  BY <1>2, FS_Subset DEF AtMost, Under
<1>4. AtMost(ids, v) = Under(ids, v) \cup E /\ Under(ids, v) \cap E = {}
  BY <1>1 DEF AtMost, Under
<1>5. Cardinality(AtMost(ids, v)) = Cardinality(Under(ids, v)) + Cardinality(E)
  <2> HIDE DEF E
  <2>1. Cardinality(Under(ids, v) \cup E)
          = Cardinality(Under(ids, v)) + Cardinality(E) - Cardinality(Under(ids, v) \cap E)
    BY <1>3, FS_Union
  <2>2. /\ Cardinality(Under(ids, v) \cap E) = 0 /\ Cardinality(Under(ids, v)) \in Nat
        /\ Cardinality(E) \in Nat
    BY <1>3, <1>4, FS_EmptySet, FS_CardinalityType
  <2> QED BY <1>4, <2>1, <2>2
<1>6. (\A w \in Range(ids) : w <= v) => AtMost(ids, v) = DOMAIN ids
  BY DEF Range, AtMost
<1>7. ASSUME NEW w \in Nat, w < v PROVE Cardinality(AtMost(ids, w)) <= Cardinality(Under(ids, v))
  <2>1. AtMost(ids, w) \subseteq Under(ids, v)
    BY <1>1, <1>7 DEF AtMost, Under
  <2> QED BY <1>3, <2>1, FS_Subset
<1> QED BY <1>2, <1>3, <1>5, <1>6, <1>7, FS_CardinalityType DEF Times

\* The ids that k ids do not exceed.
Reached(ids, k) == {v \in Range(ids) : Cardinality(AtMost(ids, v)) >= k}

\* Sorting climbs, and keeps how often each id is there.
LEMMA SortedSpec ==
  ASSUME NEW ids \in Seq(Ids)
  PROVE  /\ Sorted(ids) \in Seq(Ids) /\ Len(Sorted(ids)) = Len(ids)
         /\ \A j, k \in 1 .. Len(ids) : j <= k => Sorted(ids)[j] <= Sorted(ids)[k]
         /\ \A v \in Ids : Times(v, Sorted(ids)) = Times(v, ids)
<1> DEFINE q == Sorted(ids)
<1>1. PICK n \in Nat : Len(ids) = n /\ DOMAIN ids = 1 .. n
  BY LenProperties
<1>2. /\ ids \in Seq(Nat) /\ Ids \subseteq Nat /\ MaxId \in Nat
      /\ Range(ids) \subseteq Ids /\ Range(ids) \subseteq 0 .. MaxId
  <2>1. MaxId \in Nat /\ Ids \subseteq Nat /\ Ids \subseteq 0 .. MaxId
    BY Constants DEF Ids
  <2>2. \A k \in DOMAIN ids : ids[k] \in Ids
    OBVIOUS
  <2>3. ids \in Seq(Nat)
    <3>1. \A k \in 1 .. n : ids[k] \in Nat
      BY <1>1, <2>1, <2>2
    <3>2. ids = [k \in 1 .. n |-> ids[k]]
      BY <1>1
    <3>3. ids \in [1 .. n -> Nat]
      BY <3>1, <3>2
    <3> QED BY <3>3
  <2> QED BY <2>1, <2>2, <2>3 DEF Range
<1>3. DOMAIN q = 1 .. n /\ \A k \in 1 .. n : q[k] = Min(Reached(ids, k))
  BY <1>1 DEF Sorted, Reached, AtMost
<1>4. ASSUME NEW k \in 1 .. n
      PROVE  q[k] \in Reached(ids, k) /\ \A v \in Reached(ids, k) : q[k] <= v
  <2>1. Range(ids) # {}
    BY <1>1 DEF Range
  <2>2. PICK v \in Range(ids) : \A w \in Range(ids) : w <= v
    BY <1>2, <2>1, NatGreatest
  <2>3. Cardinality(AtMost(ids, v)) = n
    <3>1. v \in Nat
      BY <1>2
    <3> QED BY <1>1, <1>2, <2>2, <3>1, RankSpec
  <2>4. v \in Reached(ids, k)
    BY <2>3 DEF Reached
  <2>5. Reached(ids, k) \in SUBSET Nat
    BY <1>2 DEF Reached
  <2> QED BY <1>3, <2>4, <2>5, MinIsLeast
<1> HIDE DEF q
<1>5. \A k \in 1 .. n : q[k] \in Ids /\ q[k] \in Range(ids)
  BY <1>2, <1>4 DEF Reached
<1>6. q \in Seq(Ids) /\ Len(q) = n
  <2>1. q = [k \in 1 .. n |-> q[k]]
    BY <1>3 DEF q, Sorted
  <2>2. q \in [1 .. n -> Ids]
    BY <1>5, <2>1
  <2> QED BY <2>2
<1>7. ASSUME NEW j \in 1 .. n, NEW k \in 1 .. n, j <= k PROVE q[j] <= q[k]
  <2>1. q[k] \in Range(ids) /\ Cardinality(AtMost(ids, q[k])) >= k
    BY <1>4 DEF Reached
  <2>2. Cardinality(AtMost(ids, q[k])) \in Nat
    <3>1. q[k] \in Nat
      BY <1>2, <1>5
    <3> QED BY <1>2, <3>1, RankSpec
  <2>3. q[k] \in Reached(ids, j)
    BY <1>7, <2>1, <2>2 DEF Reached
  <2> QED BY <1>4, <2>3
<1>8. ASSUME NEW v \in Ids PROVE Times(v, q) = Times(v, ids)
  <2>1. CASE v \notin Range(ids)
    <3>1. v \notin Range(q)
      BY <1>3, <1>5, <2>1 DEF Range
    <3>2. Times(v, q) = 0 /\ Times(v, ids) = 0
      BY <1>6, <2>1, <3>1, TimesIsNumber
    <3> QED BY <3>2
  <2>2. CASE v \in Range(ids)
    <3>1. v \in Nat
      BY <1>2, <2>2
    <3>2. PICK u \in Nat : Cardinality(AtMost(ids, v)) = u
      BY <1>2, <3>1, RankSpec
    <3>3. PICK l \in Nat : Cardinality(Under(ids, v)) = l
      BY <1>2, <3>1, RankSpec
    <3>4. u = l + Times(v, ids) /\ u <= n /\ Times(v, ids) \in Nat
      BY <1>1, <1>2, <3>1, <3>2, <3>3, RankSpec, TimesIsNumber
    <3>5. ASSUME NEW k \in 1 .. n, q[k] = v PROVE k \in l + 1 .. u
      <4>1. k <= u
        BY <1>4, <3>2, <3>5 DEF Reached
      <4>2. ASSUME l >= k PROVE FALSE
        <5> DEFINE S == {w \in Range(ids) : w < v}
        <5>1. S # {}
          <6>1. Under(ids, v) # {}
            <7>1. l # 0
              BY <4>2
            <7> QED BY <3>3, <7>1, FS_EmptySet
          <6> QED BY <6>1 DEF Under, Range
        <5>2. S \subseteq 0 .. MaxId
          BY <1>2
        <5>3. PICK w \in S : \A x \in S : x <= w
          <6> HIDE DEF S
          <6> QED BY <1>2, <5>1, <5>2, NatGreatest
        <5>4. Under(ids, v) \subseteq AtMost(ids, w)
          BY <5>3 DEF Under, AtMost, Range
        <5>5. AtMost(ids, w) \subseteq Under(ids, v)
          <6>1. w \in Nat /\ w < v
            BY <1>2, <5>3
          <6>2. \A j \in DOMAIN ids : ids[j] \in Nat
            BY <1>2
          <6> QED BY <3>1, <6>1, <6>2 DEF Under, AtMost
        <5>6. Cardinality(AtMost(ids, w)) = l
          BY <3>3, <5>4, <5>5
        <5>7. w \in Reached(ids, k)
          BY <4>2, <5>3, <5>6 DEF Reached
        <5>8. q[k] <= w
          BY <1>4, <5>7
        <5>9. w < v /\ w \in Nat
          BY <1>2, <5>3
        <5> QED BY <3>1, <3>5, <5>8, <5>9
      <4> QED BY <3>2, <3>3, <4>1, <4>2
    <3>6. ASSUME NEW k \in l + 1 .. u PROVE k \in 1 .. n /\ q[k] = v
      <4>1. k \in 1 .. n /\ u >= k /\ ~(l >= k)
        BY <3>4
      <4>2. v \in Reached(ids, k)
        BY <2>2, <3>2, <4>1 DEF Reached
      <4>3. q[k] <= v /\ q[k] \in Nat
        BY <1>2, <1>4, <1>5, <4>1, <4>2
      <4>4. ASSUME q[k] < v PROVE FALSE
        <5>1. Cardinality(AtMost(ids, q[k])) <= l
          BY <1>2, <3>1, <3>3, <4>3, <4>4, RankSpec
        <5>2. Cardinality(AtMost(ids, q[k])) >= k
          BY <1>4, <4>1 DEF Reached
        <5>3. Cardinality(AtMost(ids, q[k])) \in Nat
          BY <1>2, <4>3, RankSpec
        <5> QED BY <4>1, <5>1, <5>2, <5>3
      <4> QED BY <3>1, <4>1, <4>3, <4>4
    <3>7. {k \in DOMAIN q : q[k] = v} = l + 1 .. u
      BY <1>3, <3>5, <3>6
    <3>8. Cardinality(l + 1 .. u) = IF l + 1 > u THEN 0 ELSE u - (l + 1) + 1
      BY <3>2, <3>3, FS_Interval
    <3>9. (IF l + 1 > u THEN 0 ELSE u - (l + 1) + 1) = Times(v, ids)
      BY <3>4
    <3> QED BY <3>7, <3>8, <3>9 DEF Times
  <2> QED BY <2>1, <2>2
<1> QED BY <1>1, <1>6, <1>7, <1>8 DEF q
-----------------------------------------------------------------------------
(***************************************************************************)
(* Halving and doubling                                                    *)
(***************************************************************************)
\* Each place has half of what the one below it has.
Halves(s, top, x) == s = [b \in 0 .. top |-> IF b = 0 THEN x ELSE s[b - 1] \div 2]

\* There is something that is halved from place to place.
LEMMA HalvesExist ==
  ASSUME NEW top \in Nat, NEW x \in Nat
  PROVE  \E s : Halves(s, top, x)
<1> DEFINE step == [b \in 1 .. top |-> [n \in Nat |-> n \div 2]]
<1>1. \A b \in 1 .. top : \A n \in Nat : step[b][n] = n \div 2 /\ step[b][n] \in Nat
  <2>1. \A n \in Nat : n \div 2 \in Nat
    OBVIOUS
  <2> QED BY <2>1
<1> HIDE DEF step
<1>2. PICK f : Steps(f, top, x, step)
  BY StepsExist
<1>3. \A b \in 0 .. top : f[b] \in Nat
  BY <1>1, <1>2, StepsWithin
<1> DEFINE g == [b \in 0 .. top |-> f[b]]
<1>4. ASSUME NEW b \in 0 .. top PROVE g[b] = IF b = 0 THEN x ELSE g[b - 1] \div 2
  <2>1. f[b] = IF b = 0 THEN x ELSE step[b][f[b - 1]]
    BY <1>2 DEF Steps
  <2>2. b # 0 => b \in 1 .. top /\ b - 1 \in 0 .. top
    OBVIOUS
  <2>3. b # 0 => step[b][f[b - 1]] = f[b - 1] \div 2
    BY <1>1, <1>3, <2>2
  <2> QED BY <2>1, <2>2, <2>3
<1>5. g = [b \in 0 .. top |-> g[b]]
  OBVIOUS
<1> HIDE DEF g
<1>6. g = [b \in 0 .. top |-> IF b = 0 THEN x ELSE g[b - 1] \div 2]
  BY <1>4, <1>5
<1> QED BY <1>6 DEF Halves

\* What is halved stays a number.
LEMMA HalvesSpec ==
  ASSUME NEW top \in Nat, NEW x \in Nat, NEW s, Halves(s, top, x)
  PROVE  /\ s[0] = x /\ \A b \in 0 .. top : s[b] \in Nat
         /\ \A b \in 1 .. top : s[b] = s[b - 1] \div 2
<1>1. s[0] = x /\ \A b \in 1 .. top : s[b] = s[b - 1] \div 2
  BY DEF Halves
<1> DEFINE T == {b \in 0 .. top : s[b] \in Nat}
<1>2. 0 \in T
  BY <1>1
<1>3. ASSUME NEW b \in 0 .. top, b < top, b \in T PROVE b + 1 \in T
  <2>1. b + 1 \in 1 .. top /\ (b + 1) - 1 = b /\ b + 1 \in 0 .. top /\ s[b] \in Nat
    BY <1>3
  <2>2. s[b + 1] = s[b] \div 2
    BY <1>1, <2>1
  <2>3. s[b] \div 2 \in Nat
    BY <2>1
  <2> QED BY <2>1, <2>2, <2>3
<1> HIDE DEF T
<1>4. 0 .. top \subseteq T
  BY <1>2, <1>3, FromBelow
<1> QED BY <1>1, <1>4 DEF T

\* The powers of two.
Doubles(f, top) == f = [b \in 0 .. top |-> IF b = 0 THEN 1 ELSE 2 * f[b - 1]]

LEMMA DoublesExist == ASSUME NEW top \in Nat PROVE \E f : Doubles(f, top)
<1> DEFINE step == [b \in 1 .. top |-> [n \in Nat |-> 2 * n]]
<1>1. \A b \in 1 .. top : \A n \in Nat : step[b][n] = 2 * n /\ step[b][n] \in Nat
  OBVIOUS
<1> HIDE DEF step
<1>2. PICK f : Steps(f, top, 1, step)
  BY StepsExist
<1>3. \A b \in 0 .. top : f[b] \in Nat
  BY <1>1, <1>2, StepsWithin
<1> DEFINE g == [b \in 0 .. top |-> f[b]]
<1>4. ASSUME NEW b \in 0 .. top PROVE g[b] = IF b = 0 THEN 1 ELSE 2 * g[b - 1]
  <2>1. f[b] = IF b = 0 THEN 1 ELSE step[b][f[b - 1]]
    BY <1>2 DEF Steps
  <2>2. b # 0 => b \in 1 .. top /\ b - 1 \in 0 .. top
    OBVIOUS
  <2>3. b # 0 => step[b][f[b - 1]] = 2 * f[b - 1]
    BY <1>1, <1>3, <2>2
  <2> QED BY <2>1, <2>2, <2>3
<1>5. g = [b \in 0 .. top |-> g[b]]
  OBVIOUS
<1> HIDE DEF g
<1>6. g = [b \in 0 .. top |-> IF b = 0 THEN 1 ELSE 2 * g[b - 1]]
  BY <1>4, <1>5
<1> QED BY <1>6 DEF Doubles

LEMMA DoublesSpec ==
  ASSUME NEW top \in Nat, NEW t, Doubles(t, top)
  PROVE  /\ t[0] = 1 /\ \A b \in 0 .. top : t[b] \in Nat /\ t[b] > 0
         /\ \A b \in 1 .. top : t[b] = 2 * t[b - 1]
<1>1. t[0] = 1 /\ \A b \in 1 .. top : t[b] = 2 * t[b - 1]
  BY DEF Doubles
<1> DEFINE T == {b \in 0 .. top : t[b] \in Nat /\ t[b] > 0}
<1>2. 0 \in T
  BY <1>1
<1>3. ASSUME NEW b \in 0 .. top, b < top, b \in T PROVE b + 1 \in T
  <2>1. b + 1 \in 1 .. top /\ (b + 1) - 1 = b /\ b + 1 \in 0 .. top /\ t[b] \in Nat /\ t[b] > 0
    BY <1>3
  <2>2. t[b + 1] = 2 * t[b]
    BY <1>1, <2>1
  <2> QED BY <2>1, <2>2
<1> HIDE DEF T
<1>4. 0 .. top \subseteq T
  BY <1>2, <1>3, FromBelow
<1> QED BY <1>1, <1>4 DEF T

LEMMA TwoToSpec ==
  /\ TwoTo[0] = 1 /\ \A b \in 0 .. IdBits : TwoTo[b] \in Nat /\ TwoTo[b] > 0
  /\ \A b \in 1 .. IdBits : TwoTo[b] = 2 * TwoTo[b - 1]
<1>1. IdBits \in Nat
  BY CodecAssumption
<1> DEFINE t == CHOOSE f : Doubles(f, IdBits)
<1>2. Doubles(t, IdBits)
  BY <1>1, DoublesExist
<1>3. TwoTo = t
  BY DEF TwoTo, Doubles
<1> HIDE DEF t
<1> QED BY <1>1, <1>2, <1>3, DoublesSpec

\* A number that fits into an id has a width, and fits into it.
LEMMA BitsNeededSpec ==
  ASSUME NEW x \in Nat, x < TwoTo[IdBits]
  PROVE  BitsNeeded(x) \in 1 .. IdBits /\ x < TwoTo[BitsNeeded(x)]
<1>1. IdBits \in Nat /\ IdBits # 0
  BY CodecAssumption
<1> DEFINE h == CHOOSE s : Halves(s, IdBits, x)
           W == {b \in 1 .. IdBits : h[b] = 0}
<1>2. Halves(h, IdBits, x)
  BY <1>1, HalvesExist
<1>3. BitsNeeded(x) = Min(W)
  BY DEF BitsNeeded, Halves
<1> HIDE DEF h
<1>4. /\ h[0] = x /\ \A b \in 0 .. IdBits : h[b] \in Nat
      /\ \A b \in 1 .. IdBits : h[b] = h[b - 1] \div 2
  BY <1>1, <1>2, HalvesSpec
<1>5. 0 .. IdBits \subseteq {b \in 0 .. IdBits : h[b] < TwoTo[IdBits - b]}
  <2> DEFINE T == {b \in 0 .. IdBits : h[b] < TwoTo[IdBits - b]}
  <2>1. 0 \in T
    <3>1. IdBits - 0 = IdBits
      BY <1>1
    <3> QED BY <1>1, <1>4, <3>1
  <2>2. ASSUME NEW b \in 0 .. IdBits, b < IdBits, b \in T PROVE b + 1 \in T
    <3>1. b + 1 \in 1 .. IdBits /\ (b + 1) - 1 = b /\ b + 1 \in 0 .. IdBits
          /\ IdBits - b \in 1 .. IdBits /\ (IdBits - b) - 1 = IdBits - (b + 1)
          /\ IdBits - (b + 1) \in 0 .. IdBits
      BY <1>1, <2>2
    <3>2. PICK t \in Nat : TwoTo[IdBits - (b + 1)] = t
      BY <3>1, TwoToSpec
    <3>3. TwoTo[IdBits - b] = 2 * t
      BY <3>1, <3>2, TwoToSpec
    <3>4. PICK y \in Nat : h[b] = y
      BY <1>4
    <3>5. y < 2 * t
      BY <2>2, <3>3, <3>4
    <3>6. h[b + 1] = y \div 2
      BY <1>4, <3>1, <3>4
    <3>7. y \div 2 < t
      BY <3>2, <3>4, <3>5
    <3> QED BY <3>1, <3>2, <3>6, <3>7
  <2> HIDE DEF T
  <2>3. 0 .. IdBits \subseteq T
    BY <1>1, <2>1, <2>2, FromBelow
  <2> QED BY <2>3 DEF T
<1>6. IdBits \in W
  <2>1. IdBits \in 0 .. IdBits /\ IdBits - IdBits = 0 /\ IdBits \in 1 .. IdBits
    BY <1>1
  <2>2. h[IdBits] < 1
    BY <1>5, <2>1, TwoToSpec
  <2> QED BY <1>4, <2>1, <2>2
<1> DEFINE w == Min(W)
<1>7. w \in W
  <2>1. W \in SUBSET Nat
    OBVIOUS
  <2> HIDE DEF W
  <2> QED BY <1>6, <2>1, MinIsLeast
<1>8. w \in 1 .. IdBits /\ h[w] = 0
  BY <1>7
<1> HIDE DEF W, w
<1>9. 0 .. w \subseteq {j \in 0 .. w : h[w - j] < TwoTo[j]}
  <2> DEFINE T == {j \in 0 .. w : h[w - j] < TwoTo[j]}
  <2>1. 0 \in T
    <3>1. w - 0 = w /\ 0 \in 0 .. w
      BY <1>8
    <3> QED BY <1>8, <3>1, TwoToSpec
  <2>2. ASSUME NEW j \in 0 .. w, j < w, j \in T PROVE j + 1 \in T
    <3>1. w - j \in 1 .. IdBits /\ (w - j) - 1 = w - (j + 1) /\ w - (j + 1) \in 0 .. IdBits
          /\ j + 1 \in 1 .. IdBits /\ (j + 1) - 1 = j /\ j \in 0 .. IdBits /\ j + 1 \in 0 .. w
      BY <1>1, <1>8, <2>2
    <3>2. PICK t \in Nat : TwoTo[j] = t
      BY <3>1, TwoToSpec
    <3>3. TwoTo[j + 1] = 2 * t
      BY <3>1, <3>2, TwoToSpec
    <3>4. PICK y \in Nat : h[w - (j + 1)] = y
      BY <1>4, <3>1
    <3>5. h[w - j] = y \div 2
      BY <1>4, <3>1, <3>4
    <3>6. y \div 2 < t
      BY <2>2, <3>2, <3>5
    <3>7. y < 2 * t
      BY <3>2, <3>4, <3>6
    <3> QED BY <3>1, <3>3, <3>4, <3>7
  <2> HIDE DEF T
  <2>3. 0 .. w \subseteq T
    <3>1. w \in Nat
      BY <1>1, <1>8
    <3> QED BY <2>1, <2>2, <3>1, FromBelow
  <2> QED BY <2>3 DEF T
<1>10. x < TwoTo[w]
  <2>1. w \in 0 .. w /\ w - w = 0
    BY <1>1, <1>8
  <2> QED BY <1>4, <1>9, <2>1
<1> QED BY <1>3, <1>8, <1>10 DEF w
-----------------------------------------------------------------------------
(***************************************************************************)
(* The fields of a key                                                     *)
(***************************************************************************)
\* The k-th of the sorted ids is written: not if it repeats the last and ids are unique.
IsWritten(q, k, unique) == k = 1 \/ Diff(q, k) # 0 \/ ~unique

\* The places that are kept, up to each of the ids.
LEMMA KeptExists ==
  ASSUME NEW q \in Seq(Ids), NEW unique \in BOOLEAN
  PROVE  \E f : /\ f[0] = <<>> /\ Kept(q, unique) = f[Len(q)]
                /\ \A k \in 1 .. Len(q) :
                     f[k] = IF IsWritten(q, k, unique) THEN Append(f[k - 1], k) ELSE f[k - 1]
<1>1. PICK n \in Nat : Len(q) = n
  BY LenProperties
<1> DEFINE step == [b \in 1 .. n |-> [x \in Seq(Nat) |-> IF IsWritten(q, b, unique) THEN Append(x, b) ELSE x]]
<1>2. \A b \in 1 .. n : \A x \in Seq(Nat) :
        step[b][x] = (IF IsWritten(q, b, unique) THEN Append(x, b) ELSE x) /\ step[b][x] \in Seq(Nat)
  <2>1. \A b \in 1 .. n : \A x \in Seq(Nat) : Append(x, b) \in Seq(Nat)
    OBVIOUS
  <2> QED BY <2>1
<1> HIDE DEF step
<1>3. PICK f : Steps(f, n, <<>>, step)
  BY StepsExist
<1>4. \A b \in 0 .. n : f[b] \in Seq(Nat)
  <2>1. <<>> \in Seq(Nat)
    OBVIOUS
  <2> QED BY <1>2, <1>3, <2>1, StepsWithin
<1> DEFINE g == [b \in 0 .. n |-> f[b]]
           Piece(x, k) == CASE k = 0 -> <<>>
                            [] k > 0 /\ (k = 1 \/ Diff(q, k) # 0 \/ ~unique) -> Append(x, k)
                            [] OTHER -> x
<1>5. ASSUME NEW b \in 0 .. n PROVE g[b] = Piece(g[b - 1], b)
  <2>1. f[b] = IF b = 0 THEN <<>> ELSE step[b][f[b - 1]]
    BY <1>3 DEF Steps
  <2>2. CASE b = 0
    BY <2>1, <2>2
  <2>3. CASE b # 0
    <3>1. b \in 1 .. n /\ b - 1 \in 0 .. n /\ b > 0
      BY <2>3
    <3>2. step[b][f[b - 1]] = IF IsWritten(q, b, unique) THEN Append(f[b - 1], b) ELSE f[b - 1]
      BY <1>2, <1>4, <3>1
    <3>3. g[b] = f[b] /\ g[b - 1] = f[b - 1]
      BY <3>1
    <3> HIDE DEF g
    <3> QED BY <2>1, <2>3, <3>1, <3>2, <3>3 DEF IsWritten
  <2> QED BY <2>2, <2>3
<1>6. g = [b \in 0 .. n |-> g[b]]
  OBVIOUS
<1> HIDE DEF g
<1>7. g = [b \in 0 .. n |-> Piece(g[b - 1], b)]
  BY <1>5, <1>6
<1> DEFINE kept == CHOOSE x : x = [k \in 0 .. n |-> Piece(x[k - 1], k)]
<1>8. kept = [k \in 0 .. n |-> Piece(kept[k - 1], k)]
  <2> HIDE DEF Piece
  <2> QED BY <1>7
<1>9. Kept(q, unique) = kept[n]
  BY <1>1 DEF Kept
<1> HIDE DEF kept
<1>10. kept[0] = <<>>
  <2>1. 0 \in 0 .. n
    OBVIOUS
  <2> QED BY <1>8, <2>1
<1>11. ASSUME NEW k \in 1 .. n
       PROVE  kept[k] = IF IsWritten(q, k, unique) THEN Append(kept[k - 1], k) ELSE kept[k - 1]
  <2>1. k \in 0 .. n /\ k # 0 /\ k > 0
    OBVIOUS
  <2>2. kept[k] = Piece(kept[k - 1], k)
    <3> HIDE DEF Piece
    <3> QED BY <1>8, <2>1
  <2> QED BY <2>1, <2>2 DEF IsWritten
<1> QED BY <1>1, <1>9, <1>10, <1>11

\* No id is greater than a later one.
Climbing(q) == \A j, k \in 1 .. Len(q) : j <= k => q[j] <= q[k]

\* The places x of the first m ids that are written.
WrittenPlaces(x, q, m, unique) ==
  /\ x \in Seq(1 .. Len(q))
  /\ IF m = 0 THEN x = <<>> ELSE Len(x) > 0 /\ x[1] = 1 /\ q[x[Len(x)]] = q[m]
  /\ \A k \in 2 .. Len(x) : /\ Diff(q, x[k]) = q[x[k]] - q[x[k - 1]]
                            /\ unique => q[x[k - 1]] < q[x[k]]
  /\ ~unique => Len(x) = m /\ \A k \in 1 .. m : x[k] = k
  /\ \A j \in 1 .. m : \E k \in 1 .. Len(x) : q[x[k]] = q[j]

\* One more of the sorted ids is written, or left out.
LEMMA PlacesMore ==
  ASSUME NEW q \in Seq(Ids), Climbing(q), NEW unique \in BOOLEAN, NEW m \in Nat, m + 1 \in 1 .. Len(q),
         NEW x, WrittenPlaces(x, q, m, unique)
  PROVE  WrittenPlaces(IF IsWritten(q, m + 1, unique) THEN Append(x, m + 1) ELSE x, q, m + 1, unique)
<1> DEFINE y == Append(x, m + 1)
<1>1. PICK n \in Nat : Len(q) = n
  BY LenProperties
<1>2. PICK l \in Nat : Len(x) = l
  BY LenProperties DEF WrittenPlaces
<1>3. x \in Seq(1 .. n) /\ DOMAIN x = 1 .. l
  BY <1>1, <1>2 DEF WrittenPlaces
<1>4. \A k \in 1 .. n : q[k] \in Int
  <2>1. \A k \in 1 .. n : q[k] \in Ids
    BY <1>1
  <2>2. \A v \in Ids : v \in Int
    BY Constants
  <2> QED BY <2>1, <2>2
<1>5. \A k \in 1 .. l : x[k] \in 1 .. n /\ q[x[k]] \in Int
  BY <1>3, <1>4
<1>6. m > 0 => /\ l > 0 /\ x[1] = 1 /\ q[x[l]] = q[m] /\ m \in 1 .. n
               /\ Diff(q, m + 1) = q[m + 1] - q[m] /\ q[m] <= q[m + 1]
  <2> SUFFICES ASSUME m > 0 PROVE /\ l > 0 /\ x[1] = 1 /\ q[x[l]] = q[m] /\ m \in 1 .. n
                                  /\ Diff(q, m + 1) = q[m + 1] - q[m] /\ q[m] <= q[m + 1]
    OBVIOUS
  <2>1. m # 0 /\ m + 1 # 1 /\ (m + 1) - 1 = m /\ m \in 1 .. n /\ m <= m + 1
    BY <1>1
  <2>2. Diff(q, m + 1) = q[m + 1] - q[m]
    BY <2>1 DEF Diff
  <2>3. q[m] <= q[m + 1]
    BY <1>1, <2>1 DEF Climbing
  <2> QED BY <1>2, <2>1, <2>2, <2>3 DEF WrittenPlaces
<1>7. CASE IsWritten(q, m + 1, unique)
  <2>1. /\ y \in Seq(1 .. n) /\ Len(y) = l + 1 /\ y[l + 1] = m + 1
        /\ \A k \in 1 .. l : y[k] = x[k]
    BY <1>1, <1>2, <1>3
  <2> HIDE DEF y
  <2>2. m + 1 # 0 /\ l + 1 > 0
    OBVIOUS
  <2>3. y[1] = 1
    <3>1. CASE m = 0
      <4>1. l = 0
        BY <1>2, <3>1 DEF WrittenPlaces
      <4> QED BY <2>1, <3>1, <4>1
    <3>2. CASE m # 0
      <4>1. l > 0 /\ x[1] = 1 /\ 1 \in 1 .. l
        BY <1>6, <3>2
      <4> QED BY <2>1, <4>1
    <3> QED BY <3>1, <3>2
  <2>4. ASSUME NEW k \in 2 .. l + 1
        PROVE  /\ Diff(q, y[k]) = q[y[k]] - q[y[k - 1]]
               /\ unique => q[y[k - 1]] < q[y[k]]
    <3>1. CASE k = l + 1
      <4>1. k - 1 = l /\ l \in 1 .. l
        BY <3>1
      <4>2. y[k] = m + 1 /\ y[k - 1] = x[l]
        BY <2>1, <3>1, <4>1
      <4>3. m > 0
        <5>1. l # 0
          BY <4>1
        <5> QED BY <1>2, <5>1 DEF WrittenPlaces
      <4>4. unique => Diff(q, m + 1) # 0
        BY <1>7, <4>3 DEF IsWritten
      <4>5. q[m] \in Int /\ q[m + 1] \in Int
        BY <1>1, <1>4, <1>6, <4>3
      <4> QED BY <1>6, <4>2, <4>3, <4>4, <4>5
    <3>2. CASE k # l + 1
      <4>1. k \in 2 .. l /\ k \in 1 .. l /\ k - 1 \in 1 .. l
        BY <3>2
      <4>2. y[k] = x[k] /\ y[k - 1] = x[k - 1]
        BY <2>1, <4>1
      <4> QED BY <1>2, <4>1, <4>2 DEF WrittenPlaces
    <3> QED BY <3>1, <3>2
  <2>5. ~unique => l + 1 = m + 1 /\ \A k \in 1 .. m + 1 : y[k] = k
    <3> SUFFICES ASSUME ~unique PROVE l = m /\ \A k \in 1 .. m + 1 : y[k] = k
      OBVIOUS
    <3>1. l = m /\ \A k \in 1 .. m : x[k] = k
      BY <1>2 DEF WrittenPlaces
    <3>2. \A k \in 1 .. m + 1 : k = m + 1 \/ k \in 1 .. m
      OBVIOUS
    <3> QED BY <2>1, <3>1, <3>2
  <2>6. ASSUME NEW j \in 1 .. m + 1 PROVE \E k \in 1 .. l + 1 : q[y[k]] = q[j]
    <3>1. CASE j = m + 1
      <4>1. l + 1 \in 1 .. l + 1
        OBVIOUS
      <4> QED BY <2>1, <3>1, <4>1
    <3>2. CASE j # m + 1
      <4>1. j \in 1 .. m
        BY <3>2
      <4>2. PICK k \in 1 .. l : q[x[k]] = q[j]
        BY <1>2, <4>1 DEF WrittenPlaces
      <4>3. k \in 1 .. l + 1 /\ y[k] = x[k]
        BY <2>1, <4>2
      <4> QED BY <4>2, <4>3
    <3> QED BY <3>1, <3>2
  <2>7. WrittenPlaces(y, q, m + 1, unique)
    BY <1>1, <2>1, <2>2, <2>3, <2>4, <2>5, <2>6 DEF WrittenPlaces
  <2> QED BY <1>7, <2>7 DEF y
<1>8. CASE ~IsWritten(q, m + 1, unique)
  <2>1. unique /\ m + 1 # 1 /\ Diff(q, m + 1) = 0 /\ m > 0
    BY <1>8 DEF IsWritten
  <2>2. q[m + 1] = q[m]
    <3>1. q[m] \in Int /\ q[m + 1] \in Int
      BY <1>1, <1>4, <1>6, <2>1
    <3> QED BY <1>6, <2>1, <3>1
  <2>3. \A j \in 1 .. m + 1 : j = m + 1 \/ j \in 1 .. m
    OBVIOUS
  <2>4. m \in 1 .. m
    BY <2>1
  <2>5. \A j \in 1 .. m + 1 : \E k \in 1 .. l : q[x[k]] = q[j]
    BY <1>2, <2>2, <2>3, <2>4 DEF WrittenPlaces
  <2>6. m + 1 # 0 /\ l > 0 /\ x[1] = 1 /\ q[x[l]] = q[m + 1]
    BY <1>6, <2>1, <2>2
  <2>7. WrittenPlaces(x, q, m + 1, unique)
    BY <1>1, <1>2, <1>3, <2>1, <2>5, <2>6 DEF WrittenPlaces
  <2> QED BY <1>8, <2>7
<1> QED BY <1>7, <1>8

\* The places that are kept of all sorted ids.
LEMMA KeptSpec ==
  ASSUME NEW q \in Seq(Ids), Climbing(q), NEW unique \in BOOLEAN
  PROVE  WrittenPlaces(Kept(q, unique), q, Len(q), unique)
<1>1. PICK n \in Nat : Len(q) = n
  BY LenProperties
<1>2. PICK f : /\ f[0] = <<>> /\ Kept(q, unique) = f[n]
               /\ \A k \in 1 .. n :
                    f[k] = IF IsWritten(q, k, unique) THEN Append(f[k - 1], k) ELSE f[k - 1]
  BY <1>1, KeptExists
<1> DEFINE T == {m \in 0 .. n : WrittenPlaces(f[m], q, m, unique)}
<1>3. 0 \in T
  <2>1. <<>> \in Seq(1 .. n) /\ Len(<<>>) = 0 /\ 0 \in 0 .. n
    OBVIOUS
  <2>2. 2 .. 0 = {} /\ 1 .. 0 = {}
    OBVIOUS
  <2>3. WrittenPlaces(<<>>, q, 0, unique)
    BY <1>1, <2>1, <2>2 DEF WrittenPlaces
  <2> QED BY <1>2, <2>1, <2>3
<1>4. ASSUME NEW m \in 0 .. n, m < n, m \in T PROVE m + 1 \in T
  <2>1. m \in Nat /\ m + 1 \in 1 .. n /\ (m + 1) - 1 = m /\ m + 1 \in 0 .. n
    BY <1>4
  <2>2. f[m + 1] = IF IsWritten(q, m + 1, unique) THEN Append(f[m], m + 1) ELSE f[m]
    BY <1>2, <2>1
  <2>3. WrittenPlaces(f[m], q, m, unique)
    BY <1>4
  <2>4. WrittenPlaces(f[m + 1], q, m + 1, unique)
    BY <1>1, <2>1, <2>2, <2>3, PlacesMore
  <2> QED BY <2>1, <2>4
<1> HIDE DEF T
<1>5. 0 .. n \subseteq T
  BY <1>3, <1>4, FromBelow
<1>6. n \in T
  BY <1>5
<1> QED BY <1>1, <1>2, <1>6 DEF T

\* What is read are the ids at the places that are written.
LEMMA CodecSpec ==
  ASSUME NEW ids \in Seq(Ids), NEW unique \in BOOLEAN
  PROVE  LET q == Sorted(ids)
             kept == Kept(q, unique)
             e == Encode(ids, unique)
         IN  /\ Decode(e) \in Seq(Ids) /\ Len(Decode(e)) = Len(kept)
             /\ \A k \in 1 .. Len(kept) : Decode(e)[k] = q[kept[k]]
             /\ e.duplicates = (~unique /\ \E k \in DOMAIN q : k > 1 /\ Diff(q, k) = 0)
<1> DEFINE q == Sorted(ids)
           kept == Kept(q, unique)
           diffs == {0} \cup {Diff(q, k) : k \in DOMAIN q}
           width == BitsNeeded(Max(diffs))
           e == Encode(ids, unique)
<1>1. PICK n \in Nat : Len(ids) = n
  BY LenProperties
<1>2. q \in Seq(Ids) /\ Len(q) = n /\ DOMAIN q = 1 .. n /\ Climbing(q)
  BY <1>1, SortedSpec DEF Climbing
<1>3. /\ e.count = Len(kept) /\ e.width = (width - 1) % TwoTo[WidthBits]
      /\ e.fields = [k \in DOMAIN kept |-> Diff(q, kept[k]) % TwoTo[width]]
      /\ e.duplicates = (~unique /\ \E k \in DOMAIN q : k > 1 /\ Diff(q, k) = 0)
  BY DEF Encode
<1> HIDE DEF q
<1>4. WrittenPlaces(kept, q, n, unique)
  BY <1>2, KeptSpec
<1> HIDE DEF kept, e
<1>5. PICK m \in Nat : Len(kept) = m
  BY <1>4, LenProperties DEF WrittenPlaces
<1>6. /\ DOMAIN kept = 1 .. m /\ \A k \in 1 .. m : kept[k] \in 1 .. n
      /\ m > 0 => kept[1] = 1
  <2>1. kept \in Seq(1 .. n)
    BY <1>2, <1>4 DEF WrittenPlaces
  <2>2. m > 0 => n # 0
    BY <1>4, <1>5 DEF WrittenPlaces
  <2>3. DOMAIN kept = 1 .. m /\ \A k \in 1 .. m : kept[k] \in 1 .. n
    BY <1>5, <2>1
  <2>4. m > 0 => kept[1] = 1
    BY <1>4, <2>2 DEF WrittenPlaces
  <2> QED BY <2>3, <2>4
<1>7. MaxId \in Nat /\ \A k \in 1 .. n : q[k] \in Nat /\ q[k] <= MaxId
  <2>1. \A k \in 1 .. n : q[k] \in Ids
    BY <1>2
  <2> QED BY <2>1, Constants
<1>8. ASSUME NEW k \in 1 .. n PROVE Diff(q, k) \in 0 .. MaxId
  <2>1. CASE k = 1
    BY <1>7, <2>1 DEF Diff
  <2>2. CASE k # 1
    <3>1. k - 1 \in 1 .. n /\ k - 1 <= k
      BY <2>2
    <3>2. q[k - 1] <= q[k]
      BY <1>2, <3>1 DEF Climbing
    <3>3. q[k] \in Nat /\ q[k - 1] \in Nat /\ q[k] <= MaxId
      BY <1>7, <3>1
    <3>4. q[k] - q[k - 1] \in 0 .. MaxId
      BY <1>7, <3>2, <3>3
    <3> QED BY <2>2, <3>4 DEF Diff
  <2> QED BY <2>1, <2>2
<1>9. Max(diffs) \in 0 .. MaxId /\ \A k \in 1 .. n : Diff(q, k) <= Max(diffs)
  <2>1. diffs \subseteq 0 .. MaxId /\ diffs # {}
    <3>1. 0 \in 0 .. MaxId
      BY <1>7
    <3> QED BY <1>2, <1>8, <3>1
  <2>2. \A k \in 1 .. n : Diff(q, k) \in diffs
    BY <1>2
  <2> HIDE DEF diffs
  <2> QED BY <1>7, <2>1, <2>2, MaxIsGreatest
<1>10. width \in 1 .. IdBits /\ Max(diffs) < TwoTo[width]
  <2>1. TwoTo[IdBits] \in Nat /\ IdBits \in Nat
    <3>1. IdBits \in Nat
      BY CodecAssumption
    <3>2. IdBits \in 0 .. IdBits
      BY <3>1
    <3> QED BY <3>1, <3>2, TwoToSpec
  <2>2. Max(diffs) \in Nat /\ Max(diffs) < TwoTo[IdBits]
    <3>1. MaxId < TwoTo[IdBits]
      BY PackingAssumption
    <3> HIDE DEF diffs
    <3> QED BY <1>7, <1>9, <2>1, <3>1
  <2> HIDE DEF diffs
  <2> QED BY <2>2, BitsNeededSpec
<1> HIDE DEF diffs, width
<1>11. PICK t \in Nat : TwoTo[width] = t
  <2>1. width \in 0 .. IdBits
    BY <1>10, CodecAssumption
  <2> QED BY <2>1, TwoToSpec
<1>12. e.width + 1 = width
  <2>1. TwoTo[WidthBits] \in Nat /\ IdBits \in Nat /\ IdBits <= TwoTo[WidthBits]
    BY TwoToSpec, CodecAssumption
  <2>2. PICK u \in Nat : TwoTo[WidthBits] = u
    BY <2>1
  <2>3. width \in Nat /\ width - 1 \in Nat /\ width - 1 < u
    BY <1>10, <2>1, <2>2
  <2>4. (width - 1) % u = width - 1
    BY <2>2, <2>3
  <2> QED BY <1>3, <2>2, <2>3, <2>4
<1>13. ASSUME NEW k \in 1 .. m
       PROVE  /\ Diff(q, kept[k]) \in Nat
              /\ e.fields[k] % TwoTo[e.width + 1] = Diff(q, kept[k])
  <2>1. PICK d \in Nat : Diff(q, kept[k]) = d
    BY <1>6, <1>7, <1>8
  <2>2. d < t
    <3>1. d <= Max(diffs) /\ Max(diffs) \in Int /\ Max(diffs) < t
      BY <1>6, <1>7, <1>9, <1>10, <1>11, <2>1
    <3> QED BY <2>1, <3>1
  <2>3. d % t = d
    BY <2>1, <2>2
  <2>4. e.fields[k] = d
    BY <1>3, <1>6, <1>11, <2>1, <2>3
  <2> QED BY <1>11, <1>12, <2>1, <2>3, <2>4
<1> DEFINE step == [b \in 1 .. m |-> [x \in Nat |-> x + (e.fields[b] % TwoTo[e.width + 1])]]
<1>14. \A b \in 1 .. m : \A x \in Nat :
         /\ step[b][x] = x + (e.fields[b] % TwoTo[e.width + 1]) /\ step[b][x] \in Nat
  <2> DEFINE d == [b \in 1 .. m |-> e.fields[b] % TwoTo[e.width + 1]]
  <2>1. \A b \in 1 .. m : d[b] \in Nat
    BY <1>13
  <2>2. step = [b \in 1 .. m |-> [x \in Nat |-> x + d[b]]]
    OBVIOUS
  <2>3. \A b \in 1 .. m : d[b] = e.fields[b] % TwoTo[e.width + 1]
    OBVIOUS
  <2> HIDE DEF d, step
  <2>4. \A b \in 1 .. m : \A x \in Nat : step[b][x] = x + d[b] /\ x + d[b] \in Nat
    <3>1. \A b \in 1 .. m : step[b] = [x \in Nat |-> x + d[b]]
      BY <2>2
    <3>2. \A b \in 1 .. m : \A x \in Nat : step[b][x] = x + d[b]
      BY <3>1
    <3>3. \A b \in 1 .. m : \A x \in Nat : x + d[b] \in Nat
      BY <2>1
    <3> QED BY <3>2, <3>3
  <2> QED BY <2>3, <2>4
<1> HIDE DEF step
<1>15. PICK f : Steps(f, m, 0, step)
  BY StepsExist
<1>16. \A b \in 0 .. m : f[b] \in Nat
  <2>1. 0 \in Nat
    OBVIOUS
  <2> QED BY <1>14, <1>15, <2>1, StepsWithin
<1> DEFINE g == [b \in 0 .. m |-> f[b]]
<1>17. ASSUME NEW b \in 0 .. m PROVE g[b] = IF b = 0 THEN 0 ELSE g[b - 1] + (e.fields[b] % TwoTo[e.width + 1])
  <2>1. f[b] = IF b = 0 THEN 0 ELSE step[b][f[b - 1]]
    BY <1>15 DEF Steps
  <2>2. b # 0 => b \in 1 .. m /\ b - 1 \in 0 .. m
    OBVIOUS
  <2>3. b # 0 => step[b][f[b - 1]] = f[b - 1] + (e.fields[b] % TwoTo[e.width + 1])
    BY <1>14, <1>16, <2>2
  <2> QED BY <2>1, <2>2, <2>3
<1>18. g = [b \in 0 .. m |-> g[b]]
  OBVIOUS
<1> HIDE DEF g
<1>19. g = [b \in 0 .. m |-> IF b = 0 THEN 0 ELSE g[b - 1] + (e.fields[b] % TwoTo[e.width + 1])]
  BY <1>17, <1>18
<1> DEFINE read == CHOOSE r : r = [b \in 0 .. m |->
                     IF b = 0 THEN 0 ELSE r[b - 1] + (e.fields[b] % TwoTo[e.width + 1])]
<1>20. read = [b \in 0 .. m |-> IF b = 0 THEN 0 ELSE read[b - 1] + (e.fields[b] % TwoTo[e.width + 1])]
  BY <1>19
<1>21. Decode(e) = [k \in 1 .. m |-> read[k]]
  BY <1>3, <1>5 DEF Decode
<1> HIDE DEF read
<1>22. read[0] = 0 /\ \A k \in 1 .. m : read[k] = read[k - 1] + Diff(q, kept[k])
  <2>1. read[0] = 0
    BY <1>20
  <2>2. ASSUME NEW k \in 1 .. m PROVE read[k] = read[k - 1] + Diff(q, kept[k])
    <3>1. k \in 0 .. m /\ k # 0
      OBVIOUS
    <3>2. read[k] = read[k - 1] + (e.fields[k] % TwoTo[e.width + 1])
      BY <1>20, <3>1
    <3> QED BY <1>13, <3>2
  <2> QED BY <2>1, <2>2
<1> DEFINE T == {k \in 0 .. m : k = 0 \/ read[k] = q[kept[k]]}
<1>23. 0 \in T
  OBVIOUS
<1>24. ASSUME NEW k \in 0 .. m, k < m, k \in T PROVE k + 1 \in T
  <2>1. k + 1 \in 1 .. m /\ (k + 1) - 1 = k /\ k + 1 \in 0 .. m
    BY <1>24
  <2>2. read[k + 1] = read[k] + Diff(q, kept[k + 1])
    BY <1>22, <2>1
  <2>3. CASE k = 0
    <3>1. k + 1 = 1 /\ m > 0 /\ kept[1] = 1 /\ 1 \in 1 .. n
      BY <1>6, <2>1, <2>3
    <3>2. read[1] = 0 + q[1]
      BY <1>22, <2>2, <2>3, <3>1 DEF Diff
    <3>3. q[1] \in Nat
      BY <1>7, <3>1
    <3>4. read[k + 1] = q[kept[k + 1]]
      BY <3>1, <3>2, <3>3
    <3> QED BY <2>1, <3>4
  <2>4. CASE k # 0
    <3>1. k + 1 \in 2 .. m /\ k \in 1 .. m
      BY <2>1, <2>4
    <3>2. Diff(q, kept[k + 1]) = q[kept[k + 1]] - q[kept[k]]
      BY <1>4, <1>5, <2>1, <3>1 DEF WrittenPlaces
    <3>3. read[k] = q[kept[k]]
      BY <1>24, <2>4
    <3>4. q[kept[k]] \in Nat /\ q[kept[k + 1]] \in Nat
      BY <1>6, <1>7, <2>1, <3>1
    <3>5. read[k + 1] = q[kept[k + 1]]
      BY <2>2, <3>2, <3>3, <3>4
    <3> QED BY <2>1, <3>5
  <2> QED BY <2>3, <2>4
<1> HIDE DEF T
<1>25. 0 .. m \subseteq T
  BY <1>23, <1>24, FromBelow
<1>26. \A k \in 1 .. m : read[k] = q[kept[k]]
  BY <1>25 DEF T
<1>27. /\ Decode(e) \in Seq(Ids) /\ Len(Decode(e)) = m
       /\ \A k \in 1 .. m : Decode(e)[k] = q[kept[k]]
  <2>1. \A k \in 1 .. m : read[k] \in Ids
    BY <1>2, <1>6, <1>26
  <2>2. Decode(e) \in [1 .. m -> Ids]
    BY <1>21, <2>1
  <2>3. Decode(e) \in Seq(Ids) /\ Len(Decode(e)) = m
    BY <2>2
  <2> QED BY <1>21, <1>26, <2>3
<1> QED BY <1>3, <1>5, <1>27 DEF q, kept, e

\* Whatever was appended is read.
LEMMA PackedIsRight == ListInv => PackedRight
<1> SUFFICES ASSUME ListInv, NEW unique \in BOOLEAN
             PROVE  LET e == Encode(ToArray, unique)
                        ids == Decode(e)
                    IN  /\ ids \in Seq(Ids) /\ \A k \in 2 .. Len(ids) : ids[k - 1] <= ids[k]
                        /\ \A v \in Ids : Times(v, ids) = IF unique /\ added[v] > 0 THEN 1 ELSE added[v]
                        /\ e.duplicates = \E v \in Ids : ~unique /\ added[v] > 1
  BY DEF PackedRight
<1> DEFINE q == Sorted(ToArray)
           kept == Kept(q, unique)
           e == Encode(ToArray, unique)
           ids == Decode(e)
<1>1. ToArray \in Seq(Ids) /\ \A v \in Ids : Times(v, ToArray) = added[v] /\ added[v] \in Nat
  BY ToArraySpec DEF ListInv, IInv, TypeOK
<1>2. PICK n \in Nat : Len(ToArray) = n
  BY <1>1, LenProperties
<1>3. /\ q \in Seq(Ids) /\ Len(q) = n /\ DOMAIN q = 1 .. n /\ Climbing(q)
      /\ \A v \in Ids : Times(v, q) = added[v] /\ added[v] \in Nat
  <2>1. /\ q \in Seq(Ids) /\ Len(q) = n /\ \A v \in Ids : Times(v, q) = Times(v, ToArray)
        /\ \A j, k \in 1 .. n : j <= k => q[j] <= q[k]
    BY <1>1, <1>2, SortedSpec
  <2> HIDE DEF q
  <2> QED BY <1>1, <2>1 DEF Climbing
<1>4. /\ ids \in Seq(Ids) /\ Len(ids) = Len(kept) /\ \A k \in 1 .. Len(kept) : ids[k] = q[kept[k]]
      /\ e.duplicates = (~unique /\ \E k \in DOMAIN q : k > 1 /\ Diff(q, k) = 0)
  BY <1>1, CodecSpec
<1> HIDE DEF q, e
<1>5. WrittenPlaces(kept, q, n, unique)
  BY <1>3, KeptSpec
<1> HIDE DEF kept, ids
<1>6. PICK m \in Nat : Len(kept) = m
  BY <1>5, LenProperties DEF WrittenPlaces
<1>7. DOMAIN ids = 1 .. m /\ Len(ids) = m /\ \A k \in 1 .. m : ids[k] = q[kept[k]] /\ kept[k] \in 1 .. n
  <2>1. kept \in Seq(1 .. n)
    BY <1>3, <1>5 DEF WrittenPlaces
  <2>2. \A k \in 1 .. m : kept[k] \in 1 .. n
    BY <1>6, <2>1
  <2> QED BY <1>4, <1>6, <2>2
<1>8. \A k \in 1 .. n : q[k] \in Nat /\ q[k] \in Ids
  <2>1. \A k \in 1 .. n : q[k] \in Ids
    BY <1>3
  <2> QED BY <2>1, Constants
<1>9. CASE ~unique
  <2>1. m = n /\ \A k \in 1 .. n : kept[k] = k
    BY <1>5, <1>6, <1>9 DEF WrittenPlaces
  <2>2. \A k \in 1 .. n : ids[k] = q[k]
    BY <1>7, <2>1
  <2>3. ids = q
    <3>1. ids \in Seq(Ids) /\ q \in Seq(Ids) /\ Len(ids) = Len(q)
      BY <1>3, <1>4, <1>7, <2>1
    <3> QED BY <1>3, <2>2, <3>1, SeqEqual
  <2>4. ASSUME NEW k \in 2 .. n PROVE ids[k - 1] <= ids[k]
    <3>1. k \in 1 .. n /\ k - 1 \in 1 .. n /\ k - 1 <= k
      OBVIOUS
    <3> QED BY <1>3, <2>2, <3>1 DEF Climbing
  <2>5. (\E k \in DOMAIN q : k > 1 /\ Diff(q, k) = 0) <=> \E v \in Ids : added[v] > 1
    <3>1. ASSUME NEW k \in 1 .. n, k > 1, Diff(q, k) = 0 PROVE \E v \in Ids : added[v] > 1
      <4>1. k - 1 \in 1 .. n /\ k # 1 /\ k - 1 # k
        BY <3>1
      <4>2. q[k] = q[k - 1]
        <5>1. q[k] \in Nat /\ q[k - 1] \in Nat
          BY <1>8, <4>1
        <5> QED BY <3>1, <4>1, <5>1 DEF Diff
      <4> DEFINE v == q[k]
                 S == {j \in DOMAIN q : q[j] = v}
      <4>3. IsFiniteSet(S) /\ {k - 1, k} \subseteq S
        BY <1>3, <4>1, <4>2, TimesIsNumber
      <4>4. Cardinality({k - 1, k}) = 2
        <5>1. IsFiniteSet({k}) /\ Cardinality({k}) = 1 /\ k - 1 \notin {k}
          BY <4>1, FS_Singleton
        <5>2. Cardinality({k} \cup {k - 1}) = 1 + 1
          BY <5>1, FS_AddElement
        <5>3. {k} \cup {k - 1} = {k - 1, k}
          OBVIOUS
        <5> QED BY <5>2, <5>3
      <4>5. Cardinality(S) >= 2
        <5> HIDE DEF S
        <5>1. Cardinality({k - 1, k}) <= Cardinality(S)
          BY <4>3, FS_Subset
        <5>2. Cardinality(S) \in Nat
          BY <4>3, FS_CardinalityType
        <5> QED BY <4>4, <5>1, <5>2
      <4>6. v \in Ids /\ added[v] = Cardinality(S)
        BY <1>3, <1>8 DEF Times
      <4>7. added[v] > 1
        <5> HIDE DEF S, v
        <5> QED BY <1>3, <4>5, <4>6
      <4> QED BY <4>6, <4>7
    <3>2. ASSUME NEW v \in Ids, added[v] > 1, \A k \in DOMAIN q : k > 1 => Diff(q, k) # 0 PROVE FALSE
      <4>1. ASSUME NEW k \in 2 .. n PROVE q[k - 1] < q[k]
        <5>1. k \in 1 .. n /\ k - 1 \in 1 .. n /\ k - 1 <= k /\ k > 1 /\ k # 1
          OBVIOUS
        <5>2. q[k - 1] <= q[k] /\ q[k] \in Nat /\ q[k - 1] \in Nat
          BY <1>3, <1>8, <5>1 DEF Climbing
        <5>3. q[k] - q[k - 1] # 0
          BY <1>3, <3>2, <5>1 DEF Diff
        <5> QED BY <5>2, <5>3
      <4>2. \A j, k \in 1 .. n : j < k => q[j] < q[k]
        <5>1. \A k \in 1 .. n : q[k] \in Int
          BY <1>8
        <5> QED BY <4>1, <5>1, StepsRise
      <4>3. ASSUME NEW j \in 1 .. n, NEW k \in 1 .. n, q[j] = q[k] PROVE j = k
        <5>1. j < k \/ k < j \/ j = k
          OBVIOUS
        <5>2. q[j] \in Nat /\ q[k] \in Nat
          BY <1>8
        <5> QED BY <4>2, <4>3, <5>1, <5>2
      <4>4. Times(v, q) = IF v \in Range(q) THEN 1 ELSE 0
        BY <1>3, <4>3, TimesOnce
      <4>5. Times(v, q) = 1 \/ Times(v, q) = 0
        BY <4>4
      <4>6. Times(v, q) > 1
        BY <1>3, <3>2
      <4> QED BY <4>5, <4>6
    <3> QED BY <1>3, <3>1, <3>2
  <2>6. e.duplicates = \E v \in Ids : added[v] > 1
    BY <1>4, <1>9, <2>5
  <2> QED BY <1>3, <1>4, <1>7, <1>9, <2>1, <2>3, <2>4, <2>6 DEF ids, e
<1>10. CASE unique
  <2>1. ASSUME NEW k \in 2 .. m PROVE ids[k - 1] < ids[k]
    <3>1. k \in 1 .. m /\ k - 1 \in 1 .. m
      OBVIOUS
    <3>2. q[kept[k - 1]] < q[kept[k]]
      BY <1>5, <1>6, <1>10 DEF WrittenPlaces
    <3> QED BY <1>7, <3>1, <3>2
  <2>2. \A k \in 1 .. m : ids[k] \in Int
    BY <1>7, <1>8
  <2>3. \A j, k \in 1 .. m : j < k => ids[j] < ids[k]
    BY <2>1, <2>2, StepsRise
  <2>4. ASSUME NEW j \in 1 .. m, NEW k \in 1 .. m, ids[j] = ids[k] PROVE j = k
    <3>1. j < k \/ k < j \/ j = k
      OBVIOUS
    <3>2. ids[j] \in Int /\ ids[k] \in Int
      BY <2>2
    <3> QED BY <2>3, <2>4, <3>1, <3>2
  <2>5. ASSUME NEW v \in Ids PROVE Times(v, ids) = IF added[v] > 0 THEN 1 ELSE added[v]
    <3>1. Times(v, ids) = IF v \in Range(ids) THEN 1 ELSE 0
      BY <1>4, <1>7, <2>4, TimesOnce
    <3>2. v \in Range(ids) <=> v \in Range(q)
      <4>1. ASSUME NEW k \in 1 .. m PROVE ids[k] \in Range(q)
        BY <1>3, <1>7 DEF Range
      <4>2. ASSUME NEW j \in 1 .. n PROVE q[j] \in Range(ids)
        <5>1. PICK k \in 1 .. m : q[kept[k]] = q[j]
          BY <1>5, <1>6 DEF WrittenPlaces
        <5>2. ids[k] = q[j]
          BY <1>7, <5>1
        <5> QED BY <1>7, <5>2 DEF Range
      <4> QED BY <1>3, <1>7, <4>1, <4>2 DEF Range
    <3>3. v \in Range(q) <=> added[v] # 0
      BY <1>3, TimesIsNumber
    <3>4. added[v] \in Nat
      BY <1>3
    <3> QED BY <3>1, <3>2, <3>3, <3>4
  <2>6. \A k \in 2 .. m : ids[k - 1] <= ids[k]
    <3> SUFFICES ASSUME NEW k \in 2 .. m PROVE ids[k - 1] <= ids[k]
      OBVIOUS
    <3>1. k \in 1 .. m /\ k - 1 \in 1 .. m
      OBVIOUS
    <3>2. ids[k] \in Int /\ ids[k - 1] \in Int
      BY <2>2, <3>1
    <3> QED BY <2>1, <3>2
  <2>7. ~e.duplicates
    BY <1>4, <1>10
  <2> QED BY <1>4, <1>7, <1>10, <2>5, <2>6, <2>7 DEF ids, e
<1> QED BY <1>9, <1>10
-----------------------------------------------------------------------------
(***************************************************************************)
(* The tree of a code                                                      *)
(***************************************************************************)
\* What has no parent yet, of the first l symbols and a queue q; and what is in the tree.
RootsOf(l, q) == {Leaf(k) : k \in 1 .. l} \cup {Node(q[k]) : k \in DOMAIN q}
Elements == {Leaf(k) : k \in DOMAIN symbols} \cup {Node(k) : k \in DOMAIN nodes}
Kids(p) == {nodes[p].left, nodes[p].right}

Refs == [inner : BOOLEAN, at : Nat]
Ascending(q) == \A j, k \in DOMAIN q : j < k => q[j] < q[k]

TreeType == /\ symbols \in Seq([word : Words, weight : Nat])
            /\ left \in 0 .. Len(symbols)
            /\ nodes \in Seq([left : Refs, right : Refs, weight : Nat])
            /\ queue \in Seq(DOMAIN nodes) /\ Ascending(queue)
            /\ stage \in {"counting", "building", "coded", "failed"}

\* Each node joins two; but a symbol alone gets a node, too.
NodesCounted == \/ left + Len(queue) + Len(nodes) = Len(symbols)
                \/ Len(symbols) = 1 /\ Len(nodes) = 1 /\ left = 0 /\ Len(queue) = 1

\* The node made last is the last in the queue.
LastQueued == nodes # <<>> => queue # <<>> /\ queue[Len(queue)] = Len(nodes)

\* All but the roots have one parent, which was made later than they were.
OneParent ==
  /\ \A p \in DOMAIN nodes :
       /\ nodes[p].left # None /\ nodes[p].left # nodes[p].right
       /\ Kids(p) \ {None} \subseteq Elements \ RootsOf(left, queue)
       /\ \A k \in DOMAIN nodes : Node(k) \in Kids(p) => k < p
  /\ \A r \in Elements \ RootsOf(left, queue) : \E p \in DOMAIN nodes : r \in Kids(p)
  /\ \A p, q \in DOMAIN nodes : p # q => Kids(p) \cap Kids(q) \subseteq {None}

Coded == /\ left = 0 /\ Len(queue) <= 1 /\ codes = Codewords

HuffmanInv == /\ corpus \in Corpora
              /\ stage = "counting" => symbols = <<>> /\ nodes = <<>>
              /\ TreeType /\ NodesCounted /\ LastQueued /\ OneParent
              /\ stage = "coded" => Coded

LEMMA RefKinds == /\ \A k : Leaf(k).at = k /\ ~Leaf(k).inner /\ Node(k).at = k /\ Node(k).inner
                  /\ \A j, k : /\ (Leaf(j) = Leaf(k)) <=> j = k
                               /\ (Node(j) = Node(k)) <=> j = k
                               /\ Leaf(j) # Node(k) /\ Node(k) # None
                               /\ Leaf(j) = None <=> j = 0
                  /\ \A k \in Nat : Leaf(k) \in Refs /\ Node(k) \in Refs
                  /\ None \in Refs
<1>1. \A k : Leaf(k).at = k /\ ~Leaf(k).inner /\ Node(k).at = k /\ Node(k).inner
  BY DEF Leaf, Node
<1>2. None = Leaf(0)
  BY DEF None, Leaf
<1>3. \A k \in Nat : Leaf(k) \in Refs /\ Node(k) \in Refs
  BY DEF Leaf, Node, Refs
<1> QED BY <1>1, <1>2, <1>3

\* There are finitely many words, and what is counted and what is left of it are numbers.
LEMMA WordsCount ==
  ASSUME corpus \in Corpora
  PROVE  /\ IsFiniteSet(Words) /\ Cardinality(Words) \in Nat
         /\ \A w : Frequency(w) \in Nat /\ Freq(w) \in Nat
<1>1. IsFiniteSet(corpus) /\ corpus \subseteq Seq(Byte)
  BY HuffmanAssumption
<1> DEFINE T == {{v} \X WordPlaces(v) : v \in corpus}
<1>2. IsFiniteSet(T)
  <2> DEFINE f == [v \in corpus |-> {v} \X WordPlaces(v)]
  <2>1. f \in Surjection(corpus, T)
    BY DEF Surjection
  <2> HIDE DEF f, T
  <2> QED BY <1>1, <2>1, FS_Surjection
<1>3. ASSUME NEW v \in corpus PROVE IsFiniteSet({v} \X WordPlaces(v))
  <2>1. Len(v) \in Nat /\ Word \in Nat
    BY <1>1, LenProperties, HuffmanAssumption
  <2>2. IsFiniteSet(0 .. Len(v) - Word - 1)
    BY <2>1, FS_Interval
  <2>3. IsFiniteSet(WordPlaces(v))
    BY <2>2, FS_EmptySet DEF WordPlaces
  <2>4. IsFiniteSet({v})
    BY FS_Singleton
  <2> QED BY <2>3, <2>4, FS_Product
<1>4. IsFiniteSet(UNION T)
  BY <1>2, <1>3, FS_UNION
<1>5. Places = UNION T
  BY DEF Places
<1> HIDE DEF T
<1>6. IsFiniteSet(Words)
  <2> DEFINE f == [p \in Places |-> WordAt(p[1], p[2])]
  <2>1. f \in Surjection(Places, Words)
    BY DEF Words, Surjection
  <2> HIDE DEF f
  <2> QED BY <1>4, <1>5, <2>1, FS_Surjection
<1>7. \A w : IsFiniteSet({p \in Places : WordAt(p[1], p[2]) = w})
  BY <1>4, <1>5, FS_Subset
<1>8. \A w : Frequency(w) \in Nat
  BY <1>7, FS_CardinalityType DEF Frequency
<1>9. \A w : Freq(w) \in Nat
  BY <1>8, HuffmanAssumption DEF Freq
<1> QED BY <1>6, <1>8, <1>9, FS_CardinalityType
-----------------------------------------------------------------------------
(***************************************************************************)
(* Making nodes                                                            *)
(***************************************************************************)
LEMMA HuffmanInitInv == HuffmanInit => HuffmanInv
<1> SUFFICES ASSUME HuffmanInit PROVE HuffmanInv
  OBVIOUS
<1>1. /\ symbols = <<>> /\ nodes = <<>> /\ queue = <<>> /\ left = 0 /\ stage = "counting"
      /\ corpus \in Corpora
  BY DEF HuffmanInit
<1>2. TreeType
  BY <1>1 DEF TreeType, Ascending
<1>3. Elements = {}
  BY <1>1 DEF Elements
<1> QED BY <1>1, <1>2, <1>3 DEF HuffmanInv, NodesCounted, LastQueued, OneParent

LEMMA SortSymbolsInv == HuffmanInv /\ SortSymbols => HuffmanInv'
<1> SUFFICES ASSUME HuffmanInv, SortSymbols PROVE HuffmanInv'
  OBVIOUS
<1>1. PICK q \in Orders :
        LET chosen == SubSeq(q, 1, IF Len(q) < CodebookSize THEN Len(q) ELSE CodebookSize)
        IN  /\ symbols' = [k \in DOMAIN chosen |->
                             [word |-> chosen[k], weight |-> Freq(chosen[k])]]
            /\ left' = Len(chosen)
  BY DEF SortSymbols
<1>2. /\ nodes = <<>> /\ symbols = <<>> /\ nodes' = nodes /\ queue' = queue /\ corpus' = corpus
      /\ stage' = "building"
  BY DEF SortSymbols, HuffmanInv
<1>3. queue = <<>> /\ corpus \in Corpora
  <2>1. queue \in Seq({})
    BY <1>2 DEF HuffmanInv, TreeType
  <2> QED BY <2>1, EmptySeq DEF HuffmanInv
<1>4. q \in Seq(Words)
  <2>1. q \in [1 .. Cardinality(Words) -> Words] /\ Cardinality(Words) \in Nat
    BY <1>3, WordsCount DEF Orders, SetToSeqs
  <2> QED BY <2>1
<1> DEFINE m == IF Len(q) < CodebookSize THEN Len(q) ELSE CodebookSize
           chosen == SubSeq(q, 1, m)
<1>5. chosen \in Seq(Words) /\ Len(chosen) \in Nat /\ DOMAIN chosen = 1 .. Len(chosen)
  <2>1. Len(q) \in Nat /\ m \in 0 .. Len(q) /\ \A k \in 1 .. m : q[k] \in Words
    BY <1>4, HuffmanAssumption
  <2>2. chosen \in Seq(Words)
    BY <2>1, SubSeqProperties
  <2> QED BY <2>2, LenProperties
<1>6. symbols' = [k \in DOMAIN chosen |-> [word |-> chosen[k], weight |-> Freq(chosen[k])]] /\ left' = Len(chosen)
  BY <1>1
<1> HIDE DEF chosen
<1>7. /\ symbols' \in Seq([word : Words, weight : Nat]) /\ Len(symbols') = Len(chosen)
      /\ DOMAIN symbols' = 1 .. Len(chosen)
  <2>1. \A k \in 1 .. Len(chosen) : chosen[k] \in Words /\ Freq(chosen[k]) \in Nat
    BY <1>3, <1>5, WordsCount
  <2> QED BY <1>5, <1>6, <2>1
<1>8. Words' = Words
  BY <1>2 DEF Words, Places, WordAt, WordPlaces
<1>9. TreeType'
  BY <1>2, <1>3, <1>5, <1>6, <1>7, <1>8 DEF TreeType, Ascending
<1>10. NodesCounted'
  BY <1>2, <1>3, <1>5, <1>6, <1>7 DEF NodesCounted
<1>11. OneParent'
  <2>1. Elements' = {Leaf(k) : k \in 1 .. Len(chosen)}
    BY <1>2, <1>7 DEF Elements
  <2>2. RootsOf(left', queue') = {Leaf(k) : k \in 1 .. Len(chosen)}
    BY <1>2, <1>3, <1>6 DEF RootsOf
  <2> QED BY <1>2, <2>1, <2>2 DEF OneParent
<1> QED BY <1>2, <1>3, <1>9, <1>10, <1>11 DEF HuffmanInv, LastQueued

LEMMA TreeEntries ==
  ASSUME TreeType
  PROVE  /\ Len(symbols) \in Nat /\ DOMAIN symbols = 1 .. Len(symbols)
         /\ Len(nodes) \in Nat /\ DOMAIN nodes = 1 .. Len(nodes)
         /\ Len(queue) \in Nat /\ DOMAIN queue = 1 .. Len(queue)
         /\ \A k \in DOMAIN nodes : /\ nodes[k].weight \in Nat
                                   /\ nodes[k].left \in Refs /\ nodes[k].right \in Refs
         /\ \A k \in DOMAIN symbols : symbols[k].word \in Words /\ symbols[k].weight \in Nat
         /\ \A k \in DOMAIN queue : queue[k] \in DOMAIN nodes
<1>1. /\ Len(symbols) \in Nat /\ DOMAIN symbols = 1 .. Len(symbols)
      /\ Len(nodes) \in Nat /\ DOMAIN nodes = 1 .. Len(nodes)
      /\ Len(queue) \in Nat /\ DOMAIN queue = 1 .. Len(queue)
  BY LenProperties DEF TreeType
<1>2. \A k \in DOMAIN nodes : nodes[k] \in [left : Refs, right : Refs, weight : Nat]
  BY <1>1, ElementOfSeq DEF TreeType
<1>3. \A k \in DOMAIN symbols : symbols[k] \in [word : Words, weight : Nat]
  BY <1>1, ElementOfSeq DEF TreeType
<1>4. \A k \in DOMAIN queue : queue[k] \in DOMAIN nodes
  BY <1>1, ElementOfSeq DEF TreeType
<1> QED BY <1>1, <1>2, <1>3, <1>4

\* What is popped is a root that is none any more, if there is one.
RootTaken(l, q, r) ==
  /\ r.left \in 0 .. l /\ r.queue \in Seq(DOMAIN nodes) /\ Ascending(r.queue)
  /\ RootsOf(r.left, r.queue) = RootsOf(l, q) \ {r.ref}
  /\ \/ r.ref = None /\ l = 0 /\ q = <<>> /\ r.left = 0 /\ r.queue = <<>>
     \/ r.ref \in RootsOf(l, q) /\ r.left + Len(r.queue) + 1 = l + Len(q)

LEMMA PopSpec ==
  ASSUME TreeType, NEW l \in 0 .. Len(symbols), NEW q \in Seq(DOMAIN nodes), Ascending(q)
  PROVE  RootTaken(l, q, PopMinWeight(l, q))
<1> PICK r : r = PopMinWeight(l, q)
  OBVIOUS
<1> SUFFICES RootTaken(l, q, r)
  OBVIOUS
<1>0. l \in Nat /\ Len(symbols) \in Nat
  BY DEF TreeType
<1>1. CASE q # <<>> /\ r = Popped(Node(Head(q)), l, Tail(q))
  <2>1. /\ r.ref = Node(Head(q)) /\ r.left = l /\ r.queue = Tail(q)
    BY <1>1 DEF Popped
  <2>2. /\ Head(q) = q[1] /\ Tail(q) \in Seq(DOMAIN nodes) /\ Len(Tail(q)) = Len(q) - 1
        /\ \A k \in 1 .. Len(Tail(q)) : Tail(q)[k] = q[k + 1]
        /\ Len(q) \in Nat \ {0} /\ DOMAIN q = 1 .. Len(q) /\ DOMAIN Tail(q) = 1 .. Len(q) - 1
    BY <1>1, HeadTailProperties, LenProperties, EmptySeq
  <2>3. Ascending(Tail(q)) /\ \A k \in 1 .. Len(q) - 1 : q[k + 1] # q[1]
    <3>1. \A k \in 1 .. Len(q) : q[k] \in Int
      <4>1. DOMAIN nodes \subseteq Int
        BY LenProperties DEF TreeType
      <4> QED BY <4>1, <2>2
    <3>2. \A k \in 1 .. Len(q) - 1 : k + 1 \in 1 .. Len(q)
      BY <2>2
    <3>3. \A k \in 1 .. Len(q) - 1 : q[1] < q[k + 1]
      <4>1. \A k \in 1 .. Len(q) - 1 : 1 < k + 1 /\ 1 \in DOMAIN q /\ k + 1 \in DOMAIN q
        BY <2>2
      <4> QED BY <4>1 DEF Ascending
    <3>4. \A j, k \in 1 .. Len(q) - 1 : j < k => q[j + 1] < q[k + 1]
      <4>1. \A j, k \in 1 .. Len(q) - 1 :
              j < k => j + 1 < k + 1 /\ j + 1 \in DOMAIN q /\ k + 1 \in DOMAIN q
        BY <2>2
      <4> QED BY <4>1 DEF Ascending
    <3>5. Ascending(Tail(q))
      BY <2>2, <3>4 DEF Ascending
    <3>6. \A k \in 1 .. Len(q) - 1 : q[k + 1] # q[1]
      BY <2>2, <3>1, <3>2, <3>3
    <3> QED BY <3>5, <3>6
  <2>4. RootsOf(l, Tail(q)) = RootsOf(l, q) \ {Node(Head(q))}
    <3>1. {Node(q[k]) : k \in DOMAIN q} \ {Node(q[1])} = {Node(q[k + 1]) : k \in 1 .. Len(q) - 1}
      <4>1. \A k \in 1 .. Len(q) : k = 1 \/ (k - 1 \in 1 .. Len(q) - 1 /\ k = (k - 1) + 1)
        BY <2>2
      <4>2. \A k \in 1 .. Len(q) - 1 : k + 1 \in 1 .. Len(q)
        BY <2>2
      <4> QED BY <2>2, <2>3, <4>1, <4>2, RefKinds
    <3>2. {Node(Tail(q)[k]) : k \in DOMAIN Tail(q)} = {Node(q[k + 1]) : k \in 1 .. Len(q) - 1}
      BY <2>2
    <3>3. Node(q[1]) \notin {Leaf(k) : k \in 1 .. l}
      BY RefKinds
    <3> QED BY <2>2, <3>1, <3>2, <3>3 DEF RootsOf
  <2>5. Node(Head(q)) \in RootsOf(l, q)
    BY <2>2 DEF RootsOf
  <2>7. r.left \in 0 .. l /\ r.queue \in Seq(DOMAIN nodes) /\ Ascending(r.queue)
    BY <1>0, <2>1, <2>2, <2>3
  <2>8. RootsOf(r.left, r.queue) = RootsOf(l, q) \ {r.ref} /\ r.ref \in RootsOf(l, q)
    BY <2>1, <2>4, <2>5
  <2>9. r.left + Len(r.queue) + 1 = l + Len(q)
    BY <1>0, <2>1, <2>2
  <2> QED BY <2>7, <2>8, <2>9 DEF RootTaken
<1>2. CASE l > 0 /\ r = Popped(Leaf(l), l - 1, q)
  <2>1. r.ref = Leaf(l) /\ r.left = l - 1 /\ r.queue = q
    BY <1>2 DEF Popped
  <2>2. RootsOf(l - 1, q) = RootsOf(l, q) \ {Leaf(l)}
    <3>1. {Leaf(k) : k \in 1 .. l - 1} = {Leaf(k) : k \in 1 .. l} \ {Leaf(l)}
      BY <1>0, <1>2, RefKinds
    <3>2. Leaf(l) \notin {Node(q[k]) : k \in DOMAIN q}
      BY RefKinds
    <3> QED BY <3>1, <3>2 DEF RootsOf
  <2>3. Leaf(l) \in RootsOf(l, q)
    BY <1>0, <1>2 DEF RootsOf
  <2>4. Len(q) \in Nat
    OBVIOUS
  <2>5. r.left \in 0 .. l /\ r.queue \in Seq(DOMAIN nodes) /\ Ascending(r.queue)
    BY <1>0, <1>2, <2>1
  <2>6. RootsOf(r.left, r.queue) = RootsOf(l, q) \ {r.ref} /\ r.ref \in RootsOf(l, q)
    BY <2>1, <2>2, <2>3
  <2>7. r.left + Len(r.queue) + 1 = l + Len(q)
    BY <1>0, <2>1, <2>4
  <2> QED BY <2>5, <2>6, <2>7 DEF RootTaken
<1>3. CASE l = 0 /\ q = <<>> /\ r = Popped(None, l, q)
  <2>1. r.ref = None /\ r.left = 0 /\ r.queue = <<>>
    BY <1>3 DEF Popped
  <2>2. RootsOf(l, q) = {}
    BY <1>3 DEF RootsOf
  <2>3. RootsOf(r.left, r.queue) = {}
    BY <2>1 DEF RootsOf
  <2>4. Ascending(r.queue) /\ r.queue \in Seq(DOMAIN nodes)
    BY <2>1, EmptySeq DEF Ascending
  <2> QED BY <1>0, <1>3, <2>1, <2>2, <2>3, <2>4 DEF RootTaken
<1>4. \/ q # <<>> /\ r = Popped(Node(Head(q)), l, Tail(q))
      \/ l > 0 /\ r = Popped(Leaf(l), l - 1, q)
      \/ l = 0 /\ q = <<>> /\ r = Popped(None, l, q)
  <2>1. q # <<>> /\ l > 0 => nodes[Head(q)].weight \in Nat /\ symbols[l].weight \in Nat
    <3>1. q # <<>> => Head(q) \in DOMAIN nodes
      BY HeadTailProperties
    <3>2. \A k \in DOMAIN nodes : nodes[k].weight \in Nat
      BY TreeEntries
    <3>3. l > 0 => symbols[l].weight \in Nat
      BY <1>0, TreeEntries
    <3> QED BY <3>1, <3>2, <3>3
  <2> QED BY <1>0, <2>1 DEF PopMinWeight
<1> QED BY <1>1, <1>2, <1>3, <1>4

LEMMA RootsIn ==
  ASSUME TreeType
  PROVE  /\ RootsOf(left, queue) \subseteq Elements
         /\ \A r \in Elements : r \in Refs /\ r # None /\ Weight(r) \in Nat
<1>1. RootsOf(left, queue) \subseteq Elements
  BY TreeEntries DEF RootsOf, Elements, TreeType
<1>2. ASSUME NEW r \in Elements PROVE r \in Refs /\ r # None /\ Weight(r) \in Nat
  <2>1. CASE \E k \in DOMAIN symbols : r = Leaf(k)
    BY <2>1, TreeEntries, RefKinds DEF Weight
  <2>2. CASE \E k \in DOMAIN nodes : r = Node(k)
    BY <2>2, TreeEntries, RefKinds DEF Weight
  <2> QED BY <2>1, <2>2 DEF Elements
<1> QED BY <1>1, <1>2

\* What is popped to make a node, a and then b, and the node e that is made N + 1st.
Popping(a, b) ==
  /\ a = PopMinWeight(left, queue) /\ b = PopMinWeight(a.left, a.queue)
  /\ a.left \in 0 .. left /\ a.queue \in Seq(DOMAIN nodes) /\ Ascending(a.queue)
  /\ RootsOf(a.left, a.queue) = RootsOf(left, queue) \ {a.ref}
  /\ a.ref \in RootsOf(left, queue) /\ a.left + Len(a.queue) + 1 = left + Len(queue)
  /\ b.left \in 0 .. a.left /\ b.queue \in Seq(DOMAIN nodes) /\ Ascending(b.queue)
  /\ RootsOf(b.left, b.queue) = RootsOf(left, queue) \ {a.ref, b.ref}
  /\ \/ b.ref = None /\ a.left = 0 /\ a.queue = <<>> /\ b.left = 0 /\ b.queue = <<>>
     \/ b.ref \in RootsOf(left, queue) \ {a.ref} /\ b.left + Len(b.queue) + 1 = a.left + Len(a.queue)

Making(a, b, e, N) ==
  /\ N = Len(nodes) /\ e = [left |-> a.ref, right |-> b.ref, weight |-> Weight(a.ref) + Weight(b.ref)]
  /\ nodes' = Append(nodes, e) /\ left' = b.left /\ queue' = Append(b.queue, Len(nodes'))
  /\ corpus' = corpus /\ stage = "building" /\ stage' = stage /\ symbols' = symbols
  /\ left > 0 \/ Len(queue) > 1
  /\ e \in [left : Refs, right : Refs, weight : Nat] /\ a.ref # None
  /\ nodes' \in Seq([left : Refs, right : Refs, weight : Nat]) /\ Len(nodes') = N + 1
  /\ DOMAIN nodes' = 1 .. N + 1 /\ nodes'[N + 1] = e /\ \A k \in 1 .. N : nodes'[k] = nodes[k]
  /\ queue' \in Seq(DOMAIN nodes') /\ Len(queue') = Len(b.queue) + 1 /\ Len(b.queue) \in Nat
  /\ DOMAIN queue' = 1 .. Len(b.queue) + 1 /\ queue'[Len(b.queue) + 1] = N + 1
  /\ \A k \in 1 .. Len(b.queue) : queue'[k] = b.queue[k] /\ b.queue[k] \in 1 .. N
  /\ RootsOf(left', queue') = (RootsOf(left, queue) \ {a.ref, b.ref}) \cup {Node(N + 1)}

LEMMA MakeNodeMakes ==
  ASSUME HuffmanInv, MakeNode
  PROVE  \E a, b, e, N : Popping(a, b) /\ Making(a, b, e, N)
<1>a. PICK a : a = PopMinWeight(left, queue)
  OBVIOUS
<1>b. PICK b : b = PopMinWeight(a.left, a.queue)
  OBVIOUS
<1>n. PICK N : N = Len(nodes)
  OBVIOUS
<1>e. PICK e : e = [left |-> a.ref, right |-> b.ref, weight |-> Weight(a.ref) + Weight(b.ref)]
  OBVIOUS
<1>1. /\ nodes' = Append(nodes, e) /\ left' = b.left /\ queue' = Append(b.queue, Len(nodes'))
      /\ corpus' = corpus /\ stage = "building" /\ stage' = stage /\ symbols' = symbols
      /\ left > 0 \/ Len(queue) > 1
  BY <1>a, <1>b, <1>e DEF MakeNode
<1>2. TreeType /\ NodesCounted /\ LastQueued /\ OneParent /\ corpus \in Corpora
  BY DEF HuffmanInv
<1>3. /\ Len(symbols) \in Nat /\ N \in Nat /\ DOMAIN nodes = 1 .. N /\ left \in 0 .. Len(symbols)
      /\ Len(queue) \in Nat /\ DOMAIN queue = 1 .. Len(queue) /\ Ascending(queue)
      /\ queue \in Seq(DOMAIN nodes)
  BY <1>2, <1>n, TreeEntries DEF TreeType
<1>4. /\ a.left \in 0 .. left /\ a.queue \in Seq(DOMAIN nodes) /\ Ascending(a.queue)
      /\ RootsOf(a.left, a.queue) = RootsOf(left, queue) \ {a.ref}
      /\ a.ref \in RootsOf(left, queue) /\ a.left + Len(a.queue) + 1 = left + Len(queue)
  <2>1. ~(left = 0 /\ queue = <<>>)
    BY <1>1, <1>3
  <2>2. RootTaken(left, queue, a)
    BY <1>2, <1>3, <1>a, PopSpec
  <2> QED BY <2>1, <2>2 DEF RootTaken
<1>5. /\ b.left \in 0 .. a.left /\ b.queue \in Seq(DOMAIN nodes) /\ Ascending(b.queue)
      /\ RootsOf(b.left, b.queue) = RootsOf(left, queue) \ {a.ref, b.ref}
      /\ \/ b.ref = None /\ a.left = 0 /\ a.queue = <<>> /\ b.left = 0 /\ b.queue = <<>>
         \/ b.ref \in RootsOf(left, queue) \ {a.ref} /\ b.left + Len(b.queue) + 1 = a.left + Len(a.queue)
  <2>1. a.left \in 0 .. Len(symbols)
    BY <1>3, <1>4
  <2>2. RootTaken(a.left, a.queue, b)
    BY <1>2, <1>4, <1>b, <2>1, PopSpec
  <2> QED BY <1>4, <2>2 DEF RootTaken
<1>6. e \in [left : Refs, right : Refs, weight : Nat] /\ a.ref # None
  <2>1. a.ref \in Refs /\ a.ref # None /\ Weight(a.ref) \in Nat
    BY <1>2, <1>4, RootsIn
  <2>2. b.ref \in Refs /\ Weight(b.ref) \in Nat
    <3>1. CASE b.ref = None
      BY <3>1, RefKinds DEF Weight
    <3>2. CASE b.ref \in RootsOf(left, queue)
      BY <1>2, <3>2, RootsIn
    <3> QED BY <1>5, <3>1, <3>2
  <2> QED BY <1>e, <2>1, <2>2
<1>7. /\ nodes' \in Seq([left : Refs, right : Refs, weight : Nat]) /\ Len(nodes') = N + 1
      /\ DOMAIN nodes' = 1 .. N + 1 /\ nodes'[N + 1] = e /\ \A k \in 1 .. N : nodes'[k] = nodes[k]
  BY <1>1, <1>2, <1>3, <1>6, <1>n, AppendProperties, LenProperties DEF TreeType
<1>8. /\ queue' \in Seq(DOMAIN nodes') /\ Len(queue') = Len(b.queue) + 1 /\ Len(b.queue) \in Nat
      /\ DOMAIN queue' = 1 .. Len(b.queue) + 1 /\ queue'[Len(b.queue) + 1] = N + 1
      /\ \A k \in 1 .. Len(b.queue) : queue'[k] = b.queue[k] /\ b.queue[k] \in 1 .. N
  <2>1. 1 .. N \subseteq DOMAIN nodes' /\ N + 1 \in DOMAIN nodes'
    BY <1>3, <1>7
  <2>2. b.queue \in Seq(DOMAIN nodes')
    BY <1>3, <1>5, <2>1, SeqMonotonic
  <2>3. /\ queue' \in Seq(DOMAIN nodes') /\ Len(queue') = Len(b.queue) + 1
        /\ \A k \in 1 .. Len(b.queue) : queue'[k] = b.queue[k]
        /\ queue'[Len(b.queue) + 1] = N + 1
    BY <1>1, <1>7, <2>1, <2>2, AppendProperties
  <2>4. Len(b.queue) \in Nat /\ \A k \in 1 .. Len(b.queue) : b.queue[k] \in 1 .. N
    BY <1>3, <1>5, LenProperties, ElementOfSeq
  <2> QED BY <2>3, <2>4, LenProperties
<1>9. RootsOf(left', queue') = (RootsOf(left, queue) \ {a.ref, b.ref}) \cup {Node(N + 1)}
  <2>1. {Node(queue'[k]) : k \in DOMAIN queue'} = {Node(b.queue[k]) : k \in DOMAIN b.queue} \cup {Node(N + 1)}
    <3>1. DOMAIN b.queue = 1 .. Len(b.queue)
      BY <1>5, LenProperties
    <3>2. DOMAIN queue' = DOMAIN b.queue \cup {Len(b.queue) + 1}
      BY <1>8, <3>1
    <3>3. \A k \in DOMAIN b.queue : queue'[k] = b.queue[k]
      BY <1>8, <3>1
    <3>4. queue'[Len(b.queue) + 1] = N + 1
      BY <1>8
    <3> QED BY <3>2, <3>3, <3>4
  <2> QED BY <1>1, <1>5, <2>1 DEF RootsOf
<1>10. Popping(a, b)
  BY <1>a, <1>b, <1>4, <1>5 DEF Popping
<1>11. Making(a, b, e, N)
  BY <1>n, <1>e, <1>1, <1>6, <1>7, <1>8, <1>9 DEF Making
<1> QED BY <1>10, <1>11

LEMMA MakeNodeInv == HuffmanInv /\ MakeNode => HuffmanInv'
<1> SUFFICES ASSUME HuffmanInv, MakeNode PROVE HuffmanInv'
  OBVIOUS
<1>0. PICK a, b, e, N : Popping(a, b) /\ Making(a, b, e, N)
  BY MakeNodeMakes
<1>n. N = Len(nodes)
  BY <1>0 DEF Making
<1>e. e = [left |-> a.ref, right |-> b.ref, weight |-> Weight(a.ref) + Weight(b.ref)]
  BY <1>0 DEF Making
<1>1. /\ nodes' = Append(nodes, e) /\ left' = b.left /\ queue' = Append(b.queue, Len(nodes'))
      /\ corpus' = corpus /\ stage = "building" /\ stage' = stage /\ symbols' = symbols
      /\ left > 0 \/ Len(queue) > 1
  BY <1>0 DEF Making
<1>2. TreeType /\ NodesCounted /\ LastQueued /\ OneParent /\ corpus \in Corpora
  BY DEF HuffmanInv
<1>3. /\ Len(symbols) \in Nat /\ N \in Nat /\ DOMAIN nodes = 1 .. N /\ left \in 0 .. Len(symbols)
      /\ Len(queue) \in Nat /\ DOMAIN queue = 1 .. Len(queue) /\ Ascending(queue)
      /\ queue \in Seq(DOMAIN nodes)
  BY <1>2, <1>n, TreeEntries DEF TreeType
<1>4. /\ a.left \in 0 .. left /\ a.queue \in Seq(DOMAIN nodes) /\ Ascending(a.queue)
      /\ RootsOf(a.left, a.queue) = RootsOf(left, queue) \ {a.ref}
      /\ a.ref \in RootsOf(left, queue) /\ a.left + Len(a.queue) + 1 = left + Len(queue)
  BY <1>0 DEF Popping
<1>5. /\ b.left \in 0 .. a.left /\ b.queue \in Seq(DOMAIN nodes) /\ Ascending(b.queue)
      /\ RootsOf(b.left, b.queue) = RootsOf(left, queue) \ {a.ref, b.ref}
      /\ \/ b.ref = None /\ a.left = 0 /\ a.queue = <<>> /\ b.left = 0 /\ b.queue = <<>>
         \/ b.ref \in RootsOf(left, queue) \ {a.ref} /\ b.left + Len(b.queue) + 1 = a.left + Len(a.queue)
  BY <1>0 DEF Popping
<1>6. e \in [left : Refs, right : Refs, weight : Nat] /\ a.ref # None
  BY <1>0 DEF Making
<1>7. /\ nodes' \in Seq([left : Refs, right : Refs, weight : Nat]) /\ Len(nodes') = N + 1
      /\ DOMAIN nodes' = 1 .. N + 1 /\ nodes'[N + 1] = e /\ \A k \in 1 .. N : nodes'[k] = nodes[k]
  BY <1>0 DEF Making
<1>8. /\ queue' \in Seq(DOMAIN nodes') /\ Len(queue') = Len(b.queue) + 1 /\ Len(b.queue) \in Nat
      /\ DOMAIN queue' = 1 .. Len(b.queue) + 1 /\ queue'[Len(b.queue) + 1] = N + 1
      /\ \A k \in 1 .. Len(b.queue) : queue'[k] = b.queue[k] /\ b.queue[k] \in 1 .. N
  BY <1>0 DEF Making
<1>9. Ascending(queue')
  <2>1. DOMAIN b.queue = 1 .. Len(b.queue)
    BY <1>5, LenProperties
  <2>2. \A j, k \in 1 .. Len(b.queue) : j < k => b.queue[j] < b.queue[k]
    BY <1>5, <2>1 DEF Ascending
  <2> PICK m \in Nat : m = Len(b.queue)
    BY <1>8
  <2>3. ASSUME NEW j \in 1 .. m + 1, NEW k \in 1 .. m + 1, j < k
        PROVE  queue'[j] < queue'[k]
    <3>1. j \in 1 .. m /\ (k = m + 1 \/ k \in 1 .. m)
      BY <2>3
    <3>2. /\ queue'[m + 1] = N + 1
          /\ \A x \in 1 .. m : queue'[x] = b.queue[x] /\ b.queue[x] \in 1 .. N
      BY <1>8
    <3>3. CASE k = m + 1
      <4>1. b.queue[j] \in 1 .. N /\ queue'[j] = b.queue[j] /\ queue'[k] = N + 1
        BY <3>1, <3>2, <3>3
      <4> QED BY <1>3, <4>1
    <3>4. CASE k \in 1 .. m
      BY <2>2, <2>3, <3>1, <3>2, <3>4
    <3> QED BY <3>1, <3>3, <3>4
  <2>4. DOMAIN queue' = 1 .. m + 1
    BY <1>8
  <2> QED BY <2>3, <2>4 DEF Ascending
<1>10. TreeType'
  <2>1. Words' = Words
    BY <1>1 DEF Words, Places, WordAt, WordPlaces
  <2>2. left' \in 0 .. Len(symbols)
    BY <1>1, <1>3, <1>4, <1>5
  <2> QED BY <1>1, <1>2, <1>7, <1>8, <1>9, <2>1, <2>2 DEF TreeType
<1>11. NodesCounted'
  <2>1. PICK lq \in Nat, la \in Nat, lb \in Nat, n \in Nat :
               lq = Len(queue) /\ la = Len(a.queue) /\ lb = Len(b.queue) /\ n = Len(symbols)
    BY <1>3, <1>4, <1>5, LenProperties
  <2>2. left \in Nat /\ a.left \in Nat /\ b.left \in Nat /\ N \in Nat
    BY <1>3, <1>4, <1>5
  <2>3. /\ left > 0 \/ lq > 1
        /\ left + lq + N = n \/ (n = 1 /\ N = 1 /\ left = 0 /\ lq = 1)
        /\ N # 0 => lq # 0
        /\ a.left + la + 1 = left + lq
    <3>1. N # 0 => queue # <<>>
      BY <1>2, <1>n DEF LastQueued
    <3> QED BY <1>1, <1>2, <1>3, <1>4, <1>n, <2>1, <3>1 DEF NodesCounted
  <2>4. \/ b.left = 0 /\ lb = 0 /\ a.left = 0 /\ la = 0
        \/ b.left + lb + 1 = a.left + la
    BY <1>5, <2>1
  <2>5. \/ b.left + (lb + 1) + (N + 1) = n
        \/ n = 1 /\ N + 1 = 1 /\ b.left = 0 /\ lb + 1 = 1
    BY <2>2, <2>3, <2>4
  <2>6. left' = b.left /\ Len(queue') = lb + 1 /\ Len(nodes') = N + 1 /\ Len(symbols') = n
    BY <1>1, <1>7, <1>8, <2>1
  <2> QED BY <2>5, <2>6 DEF NodesCounted
<1>12. LastQueued'
  <2>1. queue' # <<>>
    BY <1>8
  <2> QED BY <1>7, <1>8, <2>1 DEF LastQueued
<1>13. Elements' = Elements \cup {Node(N + 1)} /\ Node(N + 1) \notin Elements
  <2>1. DOMAIN nodes' = DOMAIN nodes \cup {N + 1} /\ N + 1 \notin DOMAIN nodes
    BY <1>3, <1>7
  <2> QED BY <1>1, <2>1, RefKinds DEF Elements
<1>14. RootsOf(left', queue') = (RootsOf(left, queue) \ {a.ref, b.ref}) \cup {Node(N + 1)}
  BY <1>0 DEF Making
<1>15. /\ Kids(N + 1)' = {a.ref, b.ref} /\ \A p \in 1 .. N : Kids(p)' = Kids(p)
  BY <1>3, <1>7, <1>e DEF Kids
<1>16. OneParent'
  <2>1. RootsOf(left, queue) \subseteq Elements /\ \A r \in Elements : r # None
    BY <1>2, RootsIn
  <2>2. Elements' \ RootsOf(left, queue)' = (Elements \ RootsOf(left, queue)) \cup ({a.ref, b.ref} \ {None})
    BY <1>4, <1>5, <1>13, <1>14, <2>1
  <2>3. ASSUME NEW p \in DOMAIN nodes'
        PROVE  /\ nodes'[p].left # None /\ nodes'[p].left # nodes'[p].right
               /\ Kids(p)' \ {None} \subseteq Elements' \ RootsOf(left, queue)'
               /\ \A k \in DOMAIN nodes' : Node(k) \in Kids(p)' => k < p
    <3>1. CASE p \in 1 .. N
      <4>1. /\ nodes[p].left # None /\ nodes[p].left # nodes[p].right
            /\ Kids(p) \ {None} \subseteq Elements \ RootsOf(left, queue)
            /\ \A k \in DOMAIN nodes : Node(k) \in Kids(p) => k < p
        BY <1>2, <1>3, <3>1 DEF OneParent
      <4>2. Node(N + 1) \notin Kids(p)
        BY <1>13, <4>1, RefKinds
      <4>3. \A k \in DOMAIN nodes' : k \in DOMAIN nodes \/ k = N + 1
        BY <1>3, <1>7
      <4> QED BY <1>7, <1>15, <2>2, <3>1, <4>1, <4>2, <4>3
    <3>2. CASE p = N + 1
      <4>1. e.left = a.ref /\ e.right = b.ref /\ a.ref # b.ref
        BY <1>5, <1>6, <1>e
      <4>2. ASSUME NEW k \in DOMAIN nodes', Node(k) \in {a.ref, b.ref} PROVE k < N + 1
        <5>1. Node(k) \in Elements
          BY <1>4, <1>5, <2>1, <4>2, RefKinds
        <5>2. k # N + 1
          BY <1>13, <5>1
        <5> QED BY <1>3, <1>7, <5>2
      <4> QED BY <1>6, <1>7, <1>15, <2>2, <3>2, <4>1, <4>2
    <3> QED BY <1>3, <1>7, <3>1, <3>2
  <2>4. ASSUME NEW r \in Elements' \ RootsOf(left, queue)' PROVE \E p \in DOMAIN nodes' : r \in Kids(p)'
    <3>1. CASE r \in Elements \ RootsOf(left, queue)
      <4>1. PICK p \in DOMAIN nodes : r \in Kids(p)
        BY <1>2, <3>1 DEF OneParent
      <4> QED BY <1>3, <1>7, <1>15, <4>1
    <3>2. CASE r \in {a.ref, b.ref}
      <4>1. N + 1 \in DOMAIN nodes' /\ r \in Kids(N + 1)'
        BY <1>3, <1>7, <1>15, <3>2
      <4> QED BY <4>1
    <3> QED BY <2>2, <2>4, <3>1, <3>2
  <2>5. ASSUME NEW p \in DOMAIN nodes', NEW q \in DOMAIN nodes', p # q
        PROVE  Kids(p)' \cap Kids(q)' \subseteq {None}
    <3>1. \A s \in 1 .. N : Kids(s) \cap {a.ref, b.ref} \subseteq {None}
      <4>1. \A s \in 1 .. N : Kids(s) \ {None} \subseteq Elements \ RootsOf(left, queue)
        BY <1>2, <1>3 DEF OneParent
      <4>2. {a.ref, b.ref} \ {None} \subseteq RootsOf(left, queue)
        BY <1>4, <1>5
      <4> QED BY <4>1, <4>2
    <3>2. CASE p \in 1 .. N /\ q \in 1 .. N
      BY <1>2, <1>3, <1>15, <2>5, <3>2 DEF OneParent
    <3>3. CASE p = N + 1 /\ q \in 1 .. N
      BY <1>15, <3>1, <3>3
    <3>4. CASE q = N + 1 /\ p \in 1 .. N
      BY <1>15, <3>1, <3>4
    <3> QED BY <1>3, <1>7, <2>5, <3>2, <3>3, <3>4
  <2> QED BY <2>3, <2>4, <2>5 DEF OneParent
<1> QED BY <1>1, <1>2, <1>10, <1>11, <1>12, <1>16 DEF HuffmanInv

\* Everything but the stage and the codes depends on the same state.
LEMMA TreeKept ==
  ASSUME UNCHANGED <<corpus, symbols, left, nodes, queue>>
  PROVE  /\ OneParent' = OneParent /\ NodesCounted' = NodesCounted /\ LastQueued' = LastQueued
         /\ Words' = Words /\ Codewords' = Codewords
         /\ TreeType /\ stage' \in {"counting", "building", "coded", "failed"} => TreeType'
<1>1. Elements' = Elements /\ RootsOf(left, queue)' = RootsOf(left, queue)
  BY DEF Elements, RootsOf
<1>2. OneParent' = OneParent
  BY <1>1 DEF OneParent, Kids
<1>3. NodesCounted' = NodesCounted /\ LastQueued' = LastQueued
  BY DEF NodesCounted, LastQueued
<1>4. Words' = Words
  BY DEF Words, Places, WordAt, WordPlaces
<1>5. Codewords' = Codewords
  BY DEF Codewords, WayTo, Ways, Parent, Turn
<1>6. TreeType /\ stage' \in {"counting", "building", "coded", "failed"} => TreeType'
  BY <1>4 DEF TreeType
<1> QED BY <1>2, <1>3, <1>4, <1>5, <1>6

LEMMA HuffmanStep == HuffmanInv /\ [HuffmanNext]_hvars => HuffmanInv'
<1> SUFFICES ASSUME HuffmanInv, [HuffmanNext]_hvars PROVE HuffmanInv'
  OBVIOUS
<1>1. CASE SortSymbols
  BY <1>1, SortSymbolsInv
<1>2. CASE NoCodemap
  <2>1. UNCHANGED <<corpus, symbols, left, nodes, queue>> /\ stage' = "failed"
    BY <1>2 DEF NoCodemap
  <2> QED BY <2>1, TreeKept DEF HuffmanInv
<1>3. CASE MakeNode
  BY <1>3, MakeNodeInv
<1>4. CASE AllocateCodewords
  <2>1. /\ UNCHANGED <<corpus, symbols, left, nodes, queue>> /\ stage' = "coded" /\ codes' = Codewords
        /\ left = 0 /\ Len(queue) <= 1
    BY <1>4 DEF AllocateCodewords
  <2>2. Coded'
    BY <2>1, TreeKept DEF Coded
  <2> QED BY <2>1, <2>2, TreeKept DEF HuffmanInv
<1>5. CASE UNCHANGED hvars
  <2>1. UNCHANGED <<corpus, symbols, left, nodes, queue>> /\ stage' = stage /\ codes' = codes
    BY <1>5 DEF hvars
  <2>2. TreeType'
    BY <2>1, TreeKept DEF HuffmanInv, TreeType
  <2>3. Coded' = Coded
    BY <2>1, TreeKept DEF Coded
  <2> QED BY <2>1, <2>2, <2>3, TreeKept DEF HuffmanInv
<1> QED BY <1>1, <1>2, <1>3, <1>4, <1>5 DEF HuffmanNext

LEMMA RoomForNodes == HuffmanInv => NodesFit
<1> SUFFICES ASSUME HuffmanInv PROVE NodesFit
  OBVIOUS
<1>1. /\ Len(symbols) \in Nat /\ Len(nodes) \in Nat /\ Len(queue) \in Nat /\ left \in Nat
      /\ NodesCounted
  BY TreeEntries DEF HuffmanInv, TreeType
<1> PICK s \in Nat, n \in Nat, q \in Nat : s = Len(symbols) /\ n = Len(nodes) /\ q = Len(queue)
  BY <1>1
<1>2. left + q + n = s \/ (s = 1 /\ n = 1 /\ left = 0 /\ q = 1)
  BY <1>1 DEF NodesCounted
<1>3. n <= s /\ q <= 2 * s
  BY <1>1, <1>2
<1> QED BY <1>3 DEF NodesFit
-----------------------------------------------------------------------------
(***************************************************************************)
(* The recursive functions exist                                           *)
(***************************************************************************)
\* Each place below the top has a higher one: what it has, with something appended.
Higher(up, top) == \A k \in 0 .. top - 1 : up[k] \in k + 1 .. top
Appends(f, top, up, turn) ==
  \A k \in 0 .. top : f[k] = IF k = top THEN <<>> ELSE Append(f[up[k]], turn[k])

LEMMA AppendingExists ==
  ASSUME NEW top \in Nat, NEW up, NEW turn, Higher(up, top)
  PROVE  \E f : Appends(f, top, up, turn)
<1> USE DEF Higher
<1> DEFINE Solves(f, m) == \A k \in m .. top : f[k] = IF k = top THEN <<>> ELSE Append(f[up[k]], turn[k])
           S == {m \in 0 .. top : \E f : Solves(f, m)}
<1>1. top \in S
  <2> DEFINE f == [k \in top .. top |-> <<>>]
  <2>1. \A k \in top .. top : k = top
    OBVIOUS
  <2>2. Solves(f, top)
    BY <2>1
  <2>3. top \in 0 .. top
    OBVIOUS
  <2> HIDE DEF f, Solves
  <2> QED BY <2>2, <2>3
<1>2. ASSUME NEW m \in 0 .. top, m < top, m + 1 \in S PROVE m \in S
  <2>1. PICK f : Solves(f, m + 1)
    BY <1>2
  <2> DEFINE g == [k \in m .. top |-> IF k = m THEN Append(f[up[m]], turn[m]) ELSE f[k]]
  <2>2. \A k \in m .. top : k = m \/ k \in m + 1 .. top
    OBVIOUS
  <2>3. \A k \in m .. top : k # top => up[k] \in m + 1 .. top
    OBVIOUS
  <2>4. \A k \in m + 1 .. top : g[k] = f[k]
    OBVIOUS
  <2>5. ASSUME NEW k \in m .. top
        PROVE  g[k] = IF k = top THEN <<>> ELSE Append(g[up[k]], turn[k])
    <3>1. CASE k = m
      BY <1>2, <2>3, <2>4, <3>1
    <3>2. CASE k \in m + 1 .. top
      <4>1. f[k] = IF k = top THEN <<>> ELSE Append(f[up[k]], turn[k])
        BY <2>1, <3>2
      <4>2. k # top => g[up[k]] = f[up[k]]
        BY <2>3, <2>4
      <4> HIDE DEF g
      <4> QED BY <2>4, <3>2, <4>1, <4>2
    <3> QED BY <2>2, <3>1, <3>2
  <2>6. Solves(g, m)
    BY <2>5
  <2> HIDE DEF g, Solves
  <2> QED BY <2>6
<1> HIDE DEF S
<1>3. 0 .. top \subseteq S
  BY <1>1, <1>2, FromAbove
<1>4. 0 \in S
  BY <1>3
<1>5. PICK f : Solves(f, 0)
  BY <1>4 DEF S
<1> QED BY <1>5 DEF Appends
-----------------------------------------------------------------------------
(***************************************************************************)
(* The ways to the nodes                                                   *)
(***************************************************************************)
Bit == {0, 1}
Root == Node(Len(nodes))
Below == Elements \ {Root}

\* Some word is coded, and so there is a tree.
HasTree == HuffmanInv /\ stage = "coded" /\ symbols # <<>>

LEMMA CodedTree ==
  ASSUME HasTree
  PROVE  /\ Len(nodes) \in Nat \ {0} /\ DOMAIN nodes = 1 .. Len(nodes)
         /\ RootsOf(left, queue) = {Root}
<1>1. /\ Len(symbols) \in Nat \ {0} /\ Len(nodes) \in Nat /\ DOMAIN nodes = 1 .. Len(nodes)
      /\ Len(queue) \in Nat /\ DOMAIN queue = 1 .. Len(queue)
      /\ \A k \in DOMAIN queue : queue[k] \in DOMAIN nodes
      /\ NodesCounted /\ LastQueued /\ left = 0 /\ Len(queue) <= 1
  <2>1. symbols \in Seq([word : Words, weight : Nat])
    BY DEF HasTree, HuffmanInv, TreeType
  <2>2. Len(symbols) \in Nat \ {0}
    BY <2>1, EmptySeq DEF HasTree
  <2> QED BY <2>2, TreeEntries DEF HasTree, HuffmanInv, Coded
<1>2. Len(nodes) # 0
  <2>1. CASE Len(nodes) = 0
    <3>1. ~(1 \in DOMAIN queue)
      BY <1>1, <2>1
    <3>2. Len(queue) = 0
      BY <1>1, <3>1
    <3>3. PICK s \in Nat, n \in Nat, q \in Nat : s = Len(symbols) /\ n = Len(nodes) /\ q = Len(queue)
      BY <1>1
    <3>4. s # 0 /\ n = 0 /\ q = 0 /\ (left + q + n = s \/ n = 1)
      BY <1>1, <2>1, <3>2, <3>3 DEF NodesCounted
    <3> QED BY <1>1, <3>4
  <2> QED BY <2>1
<1>3. Len(queue) = 1 /\ queue[1] = Len(nodes)
  <2>1. nodes # <<>>
    BY <1>2
  <2>2. queue # <<>> /\ queue[Len(queue)] = Len(nodes)
    BY <1>1, <2>1 DEF LastQueued
  <2>3. Len(queue) # 0
    <3>1. queue \in Seq(DOMAIN nodes)
      BY DEF HasTree, HuffmanInv, TreeType
    <3> QED BY <2>2, <3>1, EmptySeq
  <2> QED BY <1>1, <2>2, <2>3
<1>4. {Node(queue[k]) : k \in DOMAIN queue} = {Root}
  <2>1. DOMAIN queue = {1}
    BY <1>1, <1>3
  <2> QED BY <1>3, <2>1 DEF Root
<1>5. {Leaf(k) : k \in 1 .. left} = {}
  BY <1>1
<1> QED BY <1>1, <1>2, <1>4, <1>5 DEF RootsOf

LEMMA ParentSpec ==
  ASSUME HasTree
  PROVE  /\ \A r \in Below : /\ Parent(r) \in DOMAIN nodes /\ r \in Kids(Parent(r))
                             /\ Turn(r) \in Bit
         /\ \A k \in DOMAIN nodes \ {Len(nodes)} :
              Node(k) \in Below /\ Parent(Node(k)) \in k + 1 .. Len(nodes)
         /\ \A r, s \in Below : Parent(r) = Parent(s) /\ Turn(r) = Turn(s) => r = s
<1>1. OneParent /\ RootsOf(left, queue) = {Root} /\ DOMAIN nodes = 1 .. Len(nodes) /\ Len(nodes) \in Nat
  BY CodedTree DEF HasTree, HuffmanInv
<1>2. ASSUME NEW r \in Below PROVE Parent(r) \in DOMAIN nodes /\ r \in Kids(Parent(r)) /\ Turn(r) \in Bit
  <2>1. \E p \in DOMAIN nodes : r \in {nodes[p].left, nodes[p].right}
    BY <1>1, <1>2 DEF OneParent, Below, Kids
  <2>2. Parent(r) \in DOMAIN nodes /\ r \in {nodes[Parent(r)].left, nodes[Parent(r)].right}
    BY <2>1 DEF Parent
  <2> QED BY <2>2 DEF Kids, Turn, Bit
<1>3. ASSUME NEW k \in DOMAIN nodes \ {Len(nodes)}
      PROVE  Node(k) \in Below /\ Parent(Node(k)) \in k + 1 .. Len(nodes)
  <2>1. Node(k) \in Below
    BY RefKinds DEF Below, Elements, Root
  <2>2. Parent(Node(k)) \in DOMAIN nodes /\ Node(k) \in Kids(Parent(Node(k)))
    BY <1>2, <2>1
  <2>3. k < Parent(Node(k))
    BY <1>1, <2>2 DEF OneParent
  <2> QED BY <1>1, <2>1, <2>2, <2>3
<1>4. ASSUME NEW r \in Below, NEW s \in Below, Parent(r) = Parent(s), Turn(r) = Turn(s) PROVE r = s
  <2>1. /\ r \in {nodes[Parent(r)].left, nodes[Parent(r)].right}
        /\ s \in {nodes[Parent(r)].left, nodes[Parent(r)].right}
    BY <1>2, <1>4 DEF Kids
  <2>2. nodes[Parent(r)].right = r <=> nodes[Parent(r)].right = s
    BY <1>4 DEF Turn
  <2> QED BY <2>1, <2>2
<1> QED BY <1>2, <1>3, <1>4

LEMMA WaysSpec ==
  ASSUME HasTree
  PROVE  Ways = [k \in DOMAIN nodes |-> IF k = Len(nodes) THEN <<>>
                                        ELSE Append(Ways[Parent(Node(k))], Turn(Node(k)))]
<1> DEFINE top == Len(nodes)
           up == [k \in 0 .. top |-> IF k = 0 THEN 1 ELSE Parent(Node(k))]
           turn == [k \in 0 .. top |-> Turn(Node(k))]
<1>1. top \in Nat \ {0} /\ DOMAIN nodes = 1 .. top
  BY CodedTree
<1>2. \A k \in 1 .. top - 1 : Parent(Node(k)) \in k + 1 .. top
  BY <1>1, ParentSpec
<1>3. \A k \in 0 .. top - 1 : up[k] \in k + 1 .. top
  BY <1>1, <1>2
<1>0. top \in Nat
  BY <1>1
<1> HIDE DEF top, up, turn
<1>4. PICK f : Appends(f, top, up, turn)
  <2>1. Higher(up, top)
    BY <1>3 DEF Higher
  <2> QED BY <1>0, <2>1, AppendingExists
<1> DEFINE g == [k \in DOMAIN nodes |-> f[k]]
<1>5. ASSUME NEW k \in DOMAIN nodes
      PROVE  g[k] = IF k = top THEN <<>> ELSE Append(g[Parent(Node(k))], Turn(Node(k)))
  <2>1. k \in 0 .. top /\ k # 0
    BY <1>1
  <2>2. f[k] = IF k = top THEN <<>> ELSE Append(f[up[k]], turn[k])
    BY <1>4, <2>1 DEF Appends
  <2>3. up[k] = Parent(Node(k)) /\ turn[k] = Turn(Node(k))
    BY <2>1 DEF up, turn
  <2>4. k # top => Parent(Node(k)) \in DOMAIN nodes
    BY <1>1, <1>2
  <2> QED BY <2>2, <2>3, <2>4
<1>6. g = [k \in DOMAIN nodes |-> IF k = top THEN <<>> ELSE Append(g[Parent(Node(k))], Turn(Node(k)))]
  <2>1. g = [k \in DOMAIN nodes |-> g[k]]
    OBVIOUS
  <2> HIDE DEF g
  <2> QED BY <1>5, <2>1
<1> HIDE DEF g
<1> QED BY <1>6 DEF Ways, top

LEMMA AppendPrefix ==
  ASSUME NEW S, NEW s \in Seq(S), NEW e \in S, NEW n \in 0 .. Len(s)
  PROVE  SubSeq(Append(s, e), 1, n) = SubSeq(s, 1, n)
<1> DEFINE t == Append(s, e)
<1>1. Len(s) \in Nat /\ \A k \in 1 .. Len(s) : s[k] \in S /\ t[k] = s[k]
  BY LenProperties, ElementOfSeq, AppendProperties
<1> HIDE DEF t
<1> PICK m \in Nat : m = Len(s)
  BY <1>1
<1>2. \A k \in 1 .. n : k \in 1 .. Len(s)
  OBVIOUS
<1>3. /\ SubSeq(s, 1, n) \in Seq(S) /\ Len(SubSeq(s, 1, n)) = IF 1 <= n THEN n - 1 + 1 ELSE 0
      /\ \A k \in 1 .. n - 1 + 1 : SubSeq(s, 1, n)[k] = s[1 + k - 1]
  BY <1>1, <1>2, SubSeqProperties
<1>4. /\ SubSeq(t, 1, n) \in Seq(S) /\ Len(SubSeq(t, 1, n)) = IF 1 <= n THEN n - 1 + 1 ELSE 0
      /\ \A k \in 1 .. n - 1 + 1 : SubSeq(t, 1, n)[k] = t[1 + k - 1]
  BY <1>1, <1>2, SubSeqProperties
<1>5. Len(SubSeq(s, 1, n)) = n /\ Len(SubSeq(t, 1, n)) = n
  BY <1>3, <1>4
<1>6. \A k \in 1 .. n : SubSeq(s, 1, n)[k] = s[k] /\ SubSeq(t, 1, n)[k] = t[k]
  BY <1>3, <1>4
<1>7. \A k \in 1 .. n : SubSeq(s, 1, n)[k] = SubSeq(t, 1, n)[k]
  BY <1>1, <1>2, <1>6
<1>8. SubSeq(s, 1, n) = SubSeq(t, 1, n)
  BY <1>3, <1>4, <1>5, <1>7, SeqEqual
<1> QED BY <1>8 DEF t

\* The way to a node is the way to its parent, and a turn.
LEMMA WaysBits ==
  ASSUME HasTree
  PROVE  /\ \A k \in DOMAIN nodes : Ways[k] \in Seq(Bit)
         /\ Ways[Len(nodes)] = <<>>
         /\ \A k \in DOMAIN nodes \ {Len(nodes)} : Ways[k] = WayTo(Node(k))
         /\ \A r \in Below : WayTo(r) \in Seq(Bit) /\ WayTo(r) # <<>>
<1> PICK top : top = Len(nodes)
  OBVIOUS
<1>1. top \in Nat \ {0} /\ DOMAIN nodes = 1 .. top
  BY CodedTree
<1>2. Ways[top] = <<>>
  BY <1>1, WaysSpec
<1>3. ASSUME NEW k \in DOMAIN nodes \ {top} PROVE Ways[k] = WayTo(Node(k))
  BY <1>3, WaysSpec DEF WayTo
<1> DEFINE S == {k \in 0 .. top : k # 0 => Ways[k] \in Seq(Bit)}
<1>4. ASSUME NEW k \in 0 .. top, k + 1 .. top \subseteq S PROVE k \in S
  <2> SUFFICES ASSUME k # 0 PROVE Ways[k] \in Seq(Bit)
    OBVIOUS
  <2>1. CASE k = top
    BY <1>2, <2>1, EmptySeq
  <2>2. CASE k # top
    <3>1. k \in DOMAIN nodes \ {top}
      BY <1>1, <2>2
    <3>2. Parent(Node(k)) \in k + 1 .. top /\ Turn(Node(k)) \in Bit
      BY <3>1, ParentSpec
    <3>3. Ways[Parent(Node(k))] \in Seq(Bit)
      BY <1>1, <1>4, <3>2
    <3>4. Ways[k] = Append(Ways[Parent(Node(k))], Turn(Node(k)))
      BY <1>3, <3>1 DEF WayTo
    <3> QED BY <3>2, <3>3, <3>4, AppendProperties
  <2> QED BY <2>1, <2>2
<1> HIDE DEF S
<1>5. 0 .. top \subseteq S
  <2>1. top \in Nat
    BY <1>1
  <2> QED BY <1>4, <2>1, FromAll
<1>6. ASSUME NEW k \in DOMAIN nodes PROVE Ways[k] \in Seq(Bit)
  <2>1. k \in 0 .. top /\ k # 0
    BY <1>1
  <2> QED BY <1>5, <2>1 DEF S
<1>7. ASSUME NEW r \in Below PROVE WayTo(r) \in Seq(Bit) /\ WayTo(r) # <<>>
  <2>1. Parent(r) \in DOMAIN nodes /\ Turn(r) \in Bit
    BY ParentSpec
  <2> QED BY <1>6, <2>1, AppendProperties DEF WayTo
<1> QED BY <1>2, <1>3, <1>6, <1>7

\* A node has a way of its own, and so has each leaf.
LEMMA WaysDiffer ==
  ASSUME HasTree
  PROVE  \A r, s \in Below : WayTo(r) = WayTo(s) => r = s
<1> PICK top : top = Len(nodes)
  OBVIOUS
<1>1. top \in Nat \ {0} /\ DOMAIN nodes = 1 .. top
  BY CodedTree
<1> DEFINE S == {k \in 0 .. top : k # 0 => \A j \in DOMAIN nodes : Ways[j] = Ways[k] => j = k}
<1>2. ASSUME NEW k \in 0 .. top, k + 1 .. top \subseteq S PROVE k \in S
  <2> SUFFICES ASSUME k # 0, NEW j \in DOMAIN nodes, Ways[j] = Ways[k] PROVE j = k
    OBVIOUS
  <2>1. \A n \in DOMAIN nodes \ {top} : Ways[n] # <<>>
    BY WaysBits, ParentSpec
  <2>2. Ways[top] = <<>> /\ top \in DOMAIN nodes /\ k \in DOMAIN nodes
    BY <1>1, WaysBits
  <2>3. CASE k = top
    BY <2>1, <2>2, <2>3
  <2>4. CASE k # top
    <3>1. j # top /\ j \in DOMAIN nodes \ {top} /\ k \in DOMAIN nodes \ {top}
      BY <2>1, <2>2, <2>4
    <3>2. /\ Parent(Node(j)) \in DOMAIN nodes /\ Turn(Node(j)) \in Bit /\ Node(j) \in Below
          /\ Parent(Node(k)) \in DOMAIN nodes /\ Turn(Node(k)) \in Bit /\ Node(k) \in Below
          /\ Parent(Node(k)) \in k + 1 .. top
      BY <3>1, ParentSpec
    <3>3. Append(Ways[Parent(Node(j))], Turn(Node(j))) = Append(Ways[Parent(Node(k))], Turn(Node(k)))
      BY <3>1, WaysBits DEF WayTo
    <3>4. Ways[Parent(Node(j))] = Ways[Parent(Node(k))] /\ Turn(Node(j)) = Turn(Node(k))
      <4>1. Ways[Parent(Node(j))] \in Seq(Bit) /\ Ways[Parent(Node(k))] \in Seq(Bit)
        BY <3>2, WaysBits
      <4>2. \A u, v \in Seq(Bit) : \A a, b \in Bit : Append(u, a) = Append(v, b) => u = v /\ a = b
        BY AppendInjective
      <4> DEFINE u == Ways[Parent(Node(j))]
                 v == Ways[Parent(Node(k))]
                 a == Turn(Node(j))
                 b == Turn(Node(k))
      <4>3. u \in Seq(Bit) /\ v \in Seq(Bit) /\ a \in Bit /\ b \in Bit /\ Append(u, a) = Append(v, b)
        BY <3>2, <3>3, <4>1
      <4> HIDE DEF u, v, a, b
      <4>4. u = v /\ a = b
        BY <4>2, <4>3
      <4> QED BY <4>4 DEF u, v, a, b
    <3>5. Parent(Node(k)) \in S /\ Parent(Node(k)) # 0
      BY <1>2, <3>2
    <3>6. Parent(Node(j)) = Parent(Node(k))
      BY <3>2, <3>4, <3>5
    <3>7. Node(j) = Node(k)
      BY <3>2, <3>4, <3>6, ParentSpec
    <3> QED BY <3>7, RefKinds
  <2> QED BY <2>3, <2>4
<1> HIDE DEF S
<1>3. 0 .. top \subseteq S
  <2>1. top \in Nat
    BY <1>1
  <2> QED BY <1>2, <2>1, FromAll
<1>4. ASSUME NEW r \in Below, NEW s \in Below, WayTo(r) = WayTo(s) PROVE r = s
  <2>1. /\ Parent(r) \in DOMAIN nodes /\ Turn(r) \in Bit /\ Ways[Parent(r)] \in Seq(Bit)
        /\ Parent(s) \in DOMAIN nodes /\ Turn(s) \in Bit /\ Ways[Parent(s)] \in Seq(Bit)
    BY ParentSpec, WaysBits
  <2>2. Ways[Parent(r)] = Ways[Parent(s)] /\ Turn(r) = Turn(s)
    BY <1>4, <2>1, AppendInjective DEF WayTo
  <2>3. Parent(s) \in S /\ Parent(s) # 0
    BY <1>1, <1>3, <2>1
  <2>4. Parent(r) = Parent(s)
    BY <2>1, <2>2, <2>3 DEF S
  <2> QED BY <2>2, <2>4, ParentSpec
<1> QED BY <1>4

\* What a way begins with is the way to a node.
LEMMA WayPrefixes ==
  ASSUME HasTree, NEW k \in DOMAIN nodes, NEW n \in 0 .. Len(Ways[k])
  PROVE  \E j \in DOMAIN nodes : Ways[j] = SubSeq(Ways[k], 1, n)
<1> PICK top : top = Len(nodes)
  OBVIOUS
<1>1. top \in Nat \ {0} /\ DOMAIN nodes = 1 .. top
  BY CodedTree
<1> DEFINE Leads(i, m) == \E j \in DOMAIN nodes : Ways[j] = SubSeq(Ways[i], 1, m)
           S == {i \in 0 .. top : i # 0 => \A m \in 0 .. Len(Ways[i]) : Leads(i, m)}
<1>2. ASSUME NEW i \in 0 .. top, i + 1 .. top \subseteq S PROVE i \in S
  <2> SUFFICES ASSUME i # 0, NEW m \in 0 .. Len(Ways[i]) PROVE Leads(i, m)
    OBVIOUS
  <2>1. i \in DOMAIN nodes /\ top \in DOMAIN nodes
    BY <1>1
  <2>2. Ways[i] \in Seq(Bit) /\ Len(Ways[i]) \in Nat
    BY <2>1, WaysBits, LenProperties
  <2>3. CASE m = Len(Ways[i])
    BY <2>1, <2>2, <2>3, SubSeqFull
  <2>4. CASE m # Len(Ways[i])
    <3>1. i # top
      <4>1. Ways[top] = <<>>
        BY WaysBits
      <4> QED BY <2>4, <4>1, EmptySeq
    <3>2. /\ Parent(Node(i)) \in DOMAIN nodes /\ Turn(Node(i)) \in Bit
          /\ Parent(Node(i)) \in i + 1 .. top
      BY <2>1, <3>1, ParentSpec
    <3>3. Ways[i] = Append(Ways[Parent(Node(i))], Turn(Node(i)))
      BY <2>1, <3>1, WaysBits DEF WayTo
    <3>4. PICK w \in Seq(Bit) : w = Ways[Parent(Node(i))]
      BY <3>2, WaysBits
    <3>5. Len(Ways[i]) = Len(w) + 1 /\ Len(w) \in Nat
      BY <3>2, <3>3, <3>4, AppendProperties, LenProperties
    <3>6. m \in 0 .. Len(w)
      BY <2>2, <2>4, <3>5
    <3>7. SubSeq(Ways[i], 1, m) = SubSeq(w, 1, m)
      BY <3>2, <3>3, <3>4, <3>6, AppendPrefix
    <3>8. Parent(Node(i)) \in S /\ Parent(Node(i)) # 0
      BY <1>2, <3>2
    <3>9. Leads(Parent(Node(i)), m)
      BY <3>4, <3>6, <3>8
    <3> QED BY <3>4, <3>7, <3>9
  <2> QED BY <2>3, <2>4
<1> HIDE DEF S
<1>3. 0 .. top \subseteq S
  <2>1. top \in Nat
    BY <1>1
  <2> QED BY <1>2, <2>1, FromAll
<1>4. k \in S /\ k # 0
  BY <1>1, <1>3
<1> QED BY <1>4 DEF S
-----------------------------------------------------------------------------
(***************************************************************************)
(* The codes                                                                *)
(***************************************************************************)
\* What sequences begin with.
LEMMA PrefixSpec ==
  ASSUME NEW S, NEW s \in Seq(S), NEW t \in Seq(S)
  PROVE  IsPrefix(s, t) <=> Len(s) <= Len(t) /\ \A k \in 1 .. Len(s) : s[k] = t[k]
<1>1. /\ Len(s) \in Nat /\ Len(t) \in Nat
      /\ \A k \in 1 .. Len(s) : s[k] \in S
      /\ \A k \in 1 .. Len(t) : t[k] \in S
  BY LenProperties, ElementOfSeq
<1>2. SubSeq(s, 1, Len(s)) = s
  BY SubSeqFull
<1> SUFFICES ASSUME Len(s) <= Len(t)
             PROVE  s = SubSeq(t, 1, Len(s)) <=> \A k \in 1 .. Len(s) : s[k] = t[k]
  BY <1>2 DEF IsPrefix
<1> PICK n \in Nat : n = Len(s)
  BY <1>1
<1>3. \A k \in 1 .. n : k \in 1 .. Len(t)
  BY <1>1
<1>4. /\ SubSeq(t, 1, n) \in Seq(S) /\ Len(SubSeq(t, 1, n)) = IF 1 <= n THEN n - 1 + 1 ELSE 0
      /\ \A k \in 1 .. n - 1 + 1 : SubSeq(t, 1, n)[k] = t[1 + k - 1]
  BY <1>1, <1>3, SubSeqProperties
<1>5. Len(SubSeq(t, 1, n)) = n /\ \A k \in 1 .. n : SubSeq(t, 1, n)[k] = t[k]
  BY <1>4
<1>6. (\A k \in 1 .. n : s[k] = SubSeq(t, 1, n)[k]) => s = SubSeq(t, 1, n)
  BY <1>4, <1>5, SeqEqual
<1> QED BY <1>5, <1>6

\* Of two that something begins with, the shorter is what the longer begins with.
LEMMA PrefixesNest ==
  ASSUME NEW S, NEW s \in Seq(S), NEW t \in Seq(S), NEW u \in Seq(S),
         IsPrefix(s, u), IsPrefix(t, u)
  PROVE  IsPrefix(s, t) \/ IsPrefix(t, s)
<1>1. Len(s) \in Nat /\ Len(t) \in Nat /\ Len(u) \in Nat
  BY LenProperties
<1>2. /\ Len(s) <= Len(u) /\ \A k \in 1 .. Len(s) : s[k] = u[k]
      /\ Len(t) <= Len(u) /\ \A k \in 1 .. Len(t) : t[k] = u[k]
  BY PrefixSpec
<1> PICK m \in Nat, n \in Nat : m = Len(s) /\ n = Len(t)
  BY <1>1
<1>3. CASE m <= n
  <2>1. \A k \in 1 .. m : k \in 1 .. n
    BY <1>3
  <2>2. \A k \in 1 .. Len(s) : s[k] = t[k]
    BY <1>2, <2>1
  <2> QED BY <1>3, <2>2, PrefixSpec
<1>4. CASE n <= m
  <2>1. \A k \in 1 .. n : k \in 1 .. m
    BY <1>4
  <2>2. \A k \in 1 .. Len(t) : t[k] = s[k]
    BY <1>2, <2>1
  <2> QED BY <1>4, <2>2, PrefixSpec
<1> QED BY <1>3, <1>4

\* No leaf lies on the way to another.
LEMMA LeavesApart ==
  ASSUME HasTree, NEW i \in DOMAIN symbols, NEW j \in DOMAIN symbols,
         IsPrefix(WayTo(Leaf(i)), WayTo(Leaf(j)))
  PROVE  i = j
<1> PICK a, b : a = WayTo(Leaf(i)) /\ b = WayTo(Leaf(j))
  OBVIOUS
<1>1. Leaf(i) \in Below /\ Leaf(j) \in Below
  BY RefKinds DEF Below, Elements, Root
<1>2. a \in Seq(Bit) /\ a # <<>> /\ b \in Seq(Bit) /\ Len(a) \in Nat \ {0} /\ Len(b) \in Nat
  BY <1>1, WaysBits, EmptySeq, LenProperties
<1>3. Len(a) <= Len(b) /\ SubSeq(b, 1, Len(a)) = a
  BY <1>2, SubSeqFull DEF IsPrefix
<1>4. CASE Len(a) = Len(b)
  <2>1. a = b
    BY <1>2, <1>3, <1>4, SubSeqFull
  <2>2. Leaf(i) = Leaf(j)
    BY <1>1, <2>1, WaysDiffer
  <2> QED BY <2>2, RefKinds
<1>5. CASE Len(a) < Len(b)
  <2>1. Parent(Leaf(j)) \in DOMAIN nodes /\ Turn(Leaf(j)) \in Bit
    BY <1>1, ParentSpec
  <2>2. PICK w \in Seq(Bit) : w = Ways[Parent(Leaf(j))]
    BY <2>1, WaysBits
  <2>3. b = Append(w, Turn(Leaf(j)))
    BY <2>2 DEF WayTo
  <2>4. Len(b) = Len(w) + 1 /\ Len(w) \in Nat
    BY <2>1, <2>2, <2>3, AppendProperties, LenProperties
  <2>5. Len(a) \in 0 .. Len(w)
    BY <1>2, <1>5, <2>4
  <2>6. SubSeq(w, 1, Len(a)) = a
    BY <1>3, <2>1, <2>2, <2>3, <2>5, AppendPrefix
  <2>7. PICK k \in DOMAIN nodes : Ways[k] = a
    BY <2>1, <2>2, <2>5, <2>6, WayPrefixes
  <2>8. k # Len(nodes)
    BY <1>2, <2>7, WaysBits
  <2>9. WayTo(Leaf(i)) = WayTo(Node(k)) /\ Node(k) \in Below
    BY <2>7, <2>8, WaysBits, ParentSpec
  <2>10. Leaf(i) = Node(k)
    BY <1>1, <2>9, WaysDiffer
  <2> QED BY <2>10, RefKinds
<1> QED BY <1>2, <1>3, <1>4, <1>5

\* The codes: none is what another begins with.
LEMMA CodesApart ==
  ASSUME HuffmanInv, stage = "coded"
  PROVE  /\ \A w \in DOMAIN codes : /\ w \in Words
                                   /\ codes[w] \in Seq(Bit) /\ Len(codes[w]) \in 1 .. MaxDepth
         /\ \A v, w \in DOMAIN codes : IsPrefix(codes[v], codes[w]) => v = w
<1> DEFINE coded == {k \in DOMAIN symbols : Len(WayTo(Leaf(k))) <= MaxDepth}
           of(w) == CHOOSE k \in coded : symbols[k].word = w
<1>1. codes = [w \in {symbols[k].word : k \in coded} |-> WayTo(Leaf(of(w)))]
  BY DEF HuffmanInv, Coded, Codewords
<1>2. TreeType
  BY DEF HuffmanInv
<1>3. ASSUME NEW w \in DOMAIN codes
      PROVE  /\ w \in Words /\ of(w) \in coded /\ symbols[of(w)].word = w
             /\ codes[w] = WayTo(Leaf(of(w)))
  <2>1. PICK k \in coded : symbols[k].word = w
    BY <1>1
  <2>2. of(w) \in coded /\ symbols[of(w)].word = w
    BY <2>1
  <2>3. w \in Words
    BY <1>2, <2>1, TreeEntries
  <2> QED BY <1>1, <2>2, <2>3
<1>4. coded # {} => HasTree
  <2>1. symbols = <<>> => DOMAIN symbols = {}
    OBVIOUS
  <2> QED BY <2>1 DEF HasTree
<1>5. ASSUME NEW w \in DOMAIN codes PROVE codes[w] \in Seq(Bit) /\ Len(codes[w]) \in 1 .. MaxDepth
  <2>1. of(w) \in DOMAIN symbols /\ Len(codes[w]) <= MaxDepth /\ codes[w] = WayTo(Leaf(of(w)))
    BY <1>3
  <2>2. HasTree
    BY <1>3, <1>4
  <2>3. Leaf(of(w)) \in Below
    BY <2>1, RefKinds DEF Below, Elements, Root
  <2> HIDE DEF of
  <2>4. codes[w] \in Seq(Bit) /\ codes[w] # <<>>
    BY <2>1, <2>2, <2>3, WaysBits
  <2>5. Len(codes[w]) \in Nat \ {0} /\ MaxDepth \in Nat
    BY <2>4, EmptySeq, HuffmanAssumption
  <2> QED BY <2>1, <2>4, <2>5
<1>6. ASSUME NEW v \in DOMAIN codes, NEW w \in DOMAIN codes, IsPrefix(codes[v], codes[w])
      PROVE  v = w
  <2>1. /\ of(v) \in DOMAIN symbols /\ codes[v] = WayTo(Leaf(of(v))) /\ symbols[of(v)].word = v
        /\ of(w) \in DOMAIN symbols /\ codes[w] = WayTo(Leaf(of(w))) /\ symbols[of(w)].word = w
        /\ HasTree
    BY <1>3, <1>4
  <2> HIDE DEF of
  <2>2. of(v) = of(w)
    BY <1>6, <2>1, LeavesApart
  <2> QED BY <2>1, <2>2
<1> QED BY <1>3, <1>5, <1>6

\* The entry of an index that begins with a code is that of its word.
LEMMA BookSpec ==
  ASSUME HuffmanInv, stage = "coded", NEW w \in DOMAIN codes, NEW index \in Seq(Bit),
         IsPrefix(codes[w], index)
  PROVE  Book(index) = [symbol |-> w, bits |-> Len(codes[w])]
<1>1. ASSUME NEW v \in Codes(index) PROVE v = w
  <2>1. v \in DOMAIN codes /\ IsPrefix(codes[v], index)
    BY DEF Codes
  <2>2. codes[v] \in Seq(Bit) /\ codes[w] \in Seq(Bit)
    BY <2>1, CodesApart
  <2>3. IsPrefix(codes[v], codes[w]) \/ IsPrefix(codes[w], codes[v])
    BY <2>1, <2>2, PrefixesNest
  <2> QED BY <2>1, <2>3, CodesApart
<1>2. w \in Codes(index)
  BY DEF Codes
<1> QED BY <1>1, <1>2 DEF Book

\* An entry is never longer than a code may be.
LEMMA BookBits ==
  ASSUME HuffmanInv, stage = "coded", NEW index
  PROVE  Book(index).bits \in 0 .. MaxDepth
<1>1. CASE Codes(index) = {}
  BY <1>1, HuffmanAssumption DEF Book
<1>2. CASE Codes(index) # {}
  <2>1. PICK w \in Codes(index) : Book(index) = [symbol |-> w, bits |-> Len(codes[w])]
    BY <1>2 DEF Book
  <2>2. w \in DOMAIN codes
    BY DEF Codes
  <2> QED BY <2>1, <2>2, CodesApart, HuffmanAssumption
<1> QED BY <1>1, <1>2
-----------------------------------------------------------------------------
(***************************************************************************)
(* Bytes                                                                    *)
(***************************************************************************)

LEMMA ShiftedSpec ==
  ASSUME NEW x \in Nat
  PROVE  /\ Shifted(x)[0] = x
         /\ \A b \in 0 .. ByteBits : Shifted(x)[b] \in Nat
         /\ \A b \in 1 .. ByteBits : Shifted(x)[b] = Shifted(x)[b - 1] \div 2
<1>1. ByteBits \in Nat
  BY HuffmanAssumption
<1>2. Halves(Shifted(x), ByteBits, x)
  BY <1>1, HalvesExist DEF Halves, Shifted
<1> QED BY <1>1, <1>2, HalvesSpec

\* A byte is what its bits say.
LEMMA ByteOfBits ==
  ASSUME NEW x \in Byte
  PROVE  /\ Bits(x) \in Seq(Bit) /\ Len(Bits(x)) = ByteBits
         /\ ByteOf(Bits(x)) = x
<1>1. ByteBits \in Nat /\ x \in Nat /\ Shifted(x)[ByteBits] = 0
  BY HuffmanAssumption DEF Byte
<1>2. /\ Shifted(x)[0] = x /\ \A b \in 0 .. ByteBits : Shifted(x)[b] \in Nat
      /\ \A b \in 1 .. ByteBits : Shifted(x)[b] = Shifted(x)[b - 1] \div 2
  BY <1>1, ShiftedSpec
<1> PICK s : s = Shifted(x)
  OBVIOUS
<1> PICK q : q = Bits(x)
  OBVIOUS
<1>3. \A b \in 1 .. ByteBits : q[b] = s[b - 1] % 2 /\ q[b] \in Bit
  <2>1. \A b \in 1 .. ByteBits : s[b - 1] \in Nat
    BY <1>1, <1>2
  <2>2. \A n \in Nat : n % 2 \in Bit
    BY DEF Bit
  <2> QED BY <2>1, <2>2 DEF Bits
<1>4. q \in Seq(Bit) /\ Len(q) = ByteBits
  <2>1. q \in [1 .. ByteBits -> Bit]
    BY <1>3 DEF Bits
  <2> QED BY <1>1, <2>1
<1> DEFINE step == [b \in 0 .. ByteBits |-> [n \in Nat |-> 2 * n + q[ByteBits + 1 - b]]]
           IsNumber(y) == y = [b \in 0 .. ByteBits |->
                                IF b = 0 THEN 0 ELSE 2 * y[b - 1] + q[ByteBits + 1 - b]]
           y == CHOOSE y : IsNumber(y)
<1>5. IsNumber(y)
  <2> PICK f : Steps(f, ByteBits, 0, step)
    <3> HIDE DEF step
    <3> QED BY <1>1, StepsExist
  <2>1. \A b \in 0 .. ByteBits : f[b] = IF b = 0 THEN 0 ELSE step[b][f[b - 1]]
    BY DEF Steps
  <2> DEFINE S == {b \in 0 .. ByteBits : f[b] \in Nat}
  <2>2. 0 \in S
    <3>1. 0 \in 0 .. ByteBits
      BY <1>1
    <3> HIDE DEF step
    <3>2. f[0] = 0
      BY <2>1, <3>1
    <3> QED BY <3>1, <3>2
  <2>3. ASSUME NEW b \in 0 .. ByteBits, b < ByteBits, b \in S PROVE b + 1 \in S
    <3>1. b + 1 \in 0 .. ByteBits /\ f[b] \in Nat /\ (b + 1) - 1 = b /\ b + 1 # 0
      BY <1>1, <2>3
    <3>2. f[b + 1] = step[b + 1][f[b]]
      <4> HIDE DEF step
      <4> QED BY <2>1, <3>1
    <3> PICK k \in 1 .. ByteBits : k = ByteBits + 1 - (b + 1)
      BY <1>1, <2>3
    <3>3. q[k] \in Bit
      BY <1>3
    <3>4. f[b + 1] = 2 * f[b] + q[k]
      BY <3>1, <3>2
    <3>5. f[b + 1] \in Nat
      <4>1. \A m \in Nat : \A n \in Bit : 2 * m + n \in Nat
        BY DEF Bit
      <4> QED BY <3>1, <3>3, <3>4, <4>1
    <3> QED BY <3>1, <3>5
  <2> HIDE DEF S
  <2>4. 0 .. ByteBits \subseteq S
    BY <1>1, <2>2, <2>3, FromBelow
  <2>5. \A b \in 0 .. ByteBits : f[b] \in Nat
    BY <2>4 DEF S
  <2> DEFINE g == [b \in 0 .. ByteBits |-> f[b]]
  <2>6. ASSUME NEW b \in 0 .. ByteBits
        PROVE  g[b] = IF b = 0 THEN 0 ELSE 2 * g[b - 1] + q[ByteBits + 1 - b]
    <3>1. b # 0 => b - 1 \in 0 .. ByteBits
      BY <1>1
    <3>2. b # 0 => f[b] = 2 * f[b - 1] + q[ByteBits + 1 - b]
      BY <2>1, <2>5, <3>1
    <3> QED BY <2>1, <3>1, <3>2
  <2>7. IsNumber(g)
    <3>1. g = [b \in 0 .. ByteBits |-> g[b]]
      OBVIOUS
    <3> HIDE DEF g
    <3> QED BY <2>6, <3>1
  <2> HIDE DEF g, IsNumber
  <2> QED BY <2>7
<1>6. ByteOf(q) = y[ByteBits]
  BY DEF ByteOf
<1> HIDE DEF y
<1> DEFINE S == {b \in 0 .. ByteBits : y[b] = s[ByteBits - b]}
<1>7. 0 \in S
  BY <1>1, <1>5
<1>8. ASSUME NEW b \in 0 .. ByteBits, b < ByteBits, b \in S PROVE b + 1 \in S
  <2>1. b + 1 \in 0 .. ByteBits /\ (b + 1) - 1 = b /\ b + 1 # 0
    BY <1>1, <1>8
  <2>2. y[b + 1] = 2 * y[b] + q[ByteBits + 1 - (b + 1)]
    BY <1>5, <2>1
  <2> PICK k \in 1 .. ByteBits : k = ByteBits - b
    BY <1>1, <1>8
  <2>3. ByteBits + 1 - (b + 1) = k /\ ByteBits - (b + 1) = k - 1
    BY <1>1
  <2>4. y[b] = s[k]
    BY <1>8
  <2>5. s[k] = s[k - 1] \div 2 /\ q[k] = s[k - 1] % 2 /\ s[k - 1] \in Nat
    <3>1. k - 1 \in 0 .. ByteBits
      BY <1>1
    <3> QED BY <1>2, <1>3, <3>1
  <2>6. \A n \in Nat : 2 * (n \div 2) + (n % 2) = n
    OBVIOUS
  <2>7. y[b + 1] = s[k - 1]
    BY <2>2, <2>3, <2>4, <2>5, <2>6
  <2> QED BY <2>1, <2>3, <2>7
<1> HIDE DEF S
<1>9. ByteBits \in S
  <2>1. 0 .. ByteBits \subseteq S
    BY <1>1, <1>7, <1>8, FromBelow
  <2> QED BY <1>1, <2>1
<1>10. y[ByteBits] = s[0]
  BY <1>1, <1>9 DEF S
<1> QED BY <1>2, <1>4, <1>6, <1>10
-----------------------------------------------------------------------------
(***************************************************************************)
(* What is written and read                                                 *)
(***************************************************************************)
\* Each place that is not an end has a piece, and then what a later one has.
Onward(next, ends, top) == \A k \in 0 .. top : k \notin ends => next[k] \in k + 1 .. top
Joins(f, top, ends, piece, next) ==
  \A k \in 0 .. top : f[k] = IF k \in ends THEN <<>> ELSE piece[k] \o f[next[k]]

LEMMA JoiningExists ==
  ASSUME NEW top \in Nat, NEW ends, NEW piece, NEW next, Onward(next, ends, top)
  PROVE  \E f : Joins(f, top, ends, piece, next)
<1> DEFINE Solves(f, m) == \A k \in m .. top : f[k] = IF k \in ends THEN <<>> ELSE piece[k] \o f[next[k]]
           S == {m \in 0 .. top : \E f : Solves(f, m)}
<1>1. \A k \in 0 .. top : k \notin ends => next[k] \in k + 1 .. top
  BY DEF Onward
<1>2. ASSUME NEW m \in 0 .. top, \E f : \A k \in m + 1 .. top : f[k] = IF k \in ends THEN <<>> ELSE piece[k] \o f[next[k]]
      PROVE  \E f : Solves(f, m)
  <2>1. PICK f : \A k \in m + 1 .. top : f[k] = IF k \in ends THEN <<>> ELSE piece[k] \o f[next[k]]
    BY <1>2
  <2> DEFINE g == [k \in m .. top |-> IF k = m THEN (IF m \in ends THEN <<>> ELSE piece[m] \o f[next[m]]) ELSE f[k]]
  <2>2. \A k \in m .. top : k = m \/ k \in m + 1 .. top
    OBVIOUS
  <2>3. \A k \in m .. top : k \notin ends => next[k] \in m + 1 .. top
    BY <1>1
  <2>4. \A k \in m + 1 .. top : g[k] = f[k]
    OBVIOUS
  <2>5. ASSUME NEW k \in m .. top
        PROVE  g[k] = IF k \in ends THEN <<>> ELSE piece[k] \o g[next[k]]
    <3>1. k \notin ends => g[next[k]] = f[next[k]]
      BY <2>3, <2>4
    <3>2. CASE k = m
      <4>1. g[m] = IF m \in ends THEN <<>> ELSE piece[m] \o f[next[m]]
        OBVIOUS
      <4> HIDE DEF g
      <4> QED BY <3>1, <3>2, <4>1
    <3>3. CASE k \in m + 1 .. top
      <4>1. f[k] = IF k \in ends THEN <<>> ELSE piece[k] \o f[next[k]]
        BY <2>1, <3>3
      <4>2. g[k] = f[k]
        BY <2>4, <3>3
      <4> HIDE DEF g
      <4> QED BY <3>1, <4>1, <4>2
    <3> QED BY <2>2, <3>2, <3>3
  <2>6. Solves(g, m)
    BY <2>5
  <2> HIDE DEF g, Solves
  <2> QED BY <2>6
<1>3. top \in S
  <2>1. \E f : \A k \in top + 1 .. top : f[k] = IF k \in ends THEN <<>> ELSE piece[k] \o f[next[k]]
    <3>1. top + 1 .. top = {}
      OBVIOUS
    <3> QED BY <3>1
  <2>2. top \in 0 .. top
    OBVIOUS
  <2> HIDE DEF Solves
  <2> QED BY <1>2, <2>1, <2>2
<1>4. ASSUME NEW m \in 0 .. top, m < top, m + 1 \in S PROVE m \in S
  BY <1>2, <1>4
<1> HIDE DEF S
<1>5. 0 .. top \subseteq S
  BY <1>3, <1>4, FromAbove
<1>6. 0 \in S
  BY <1>5
<1>7. PICK f : Solves(f, 0)
  BY <1>6 DEF S
<1> QED BY <1>7 DEF Joins

\* A flag, a code or literal, and what follows.
LEMMA Flagged ==
  ASSUME NEW a \in Bit, NEW x \in Seq(Bit), NEW y \in Seq(Bit)
  PROVE  /\ (<<a>> \o x) \o y \in Seq(Bit)
         /\ Len((<<a>> \o x) \o y) = 1 + Len(x) + Len(y)
         /\ ((<<a>> \o x) \o y)[1] = a
         /\ \A k \in 1 .. Len(x) : ((<<a>> \o x) \o y)[1 + k] = x[k]
         /\ \A k \in 1 .. Len(y) : ((<<a>> \o x) \o y)[1 + Len(x) + k] = y[k]
<1>1. <<a>> \in Seq(Bit) /\ Len(<<a>>) = 1 /\ <<a>>[1] = a
  OBVIOUS
<1>2. Len(x) \in Nat /\ Len(y) \in Nat
  BY LenProperties
<1> PICK z : z = <<a>> \o x
  OBVIOUS
<1> PICK s : s = z \o y
  OBVIOUS
<1> PICK m \in Nat, n \in Nat : m = Len(x) /\ n = Len(y)
  BY <1>2
<1>3. /\ z \in Seq(Bit) /\ Len(z) = 1 + m
      /\ \A k \in 1 .. 1 + m : z[k] = IF k <= 1 THEN <<a>>[k] ELSE x[k - 1]
  BY <1>1, ConcatProperties
<1>4. /\ s \in Seq(Bit) /\ Len(s) = (1 + m) + n
      /\ \A k \in 1 .. (1 + m) + n : s[k] = IF k <= 1 + m THEN z[k] ELSE y[k - (1 + m)]
  BY <1>3, ConcatProperties
<1>5. s[1] = a
  <2>1. s[1] = z[1] /\ z[1] = <<a>>[1]
    BY <1>3, <1>4
  <2> QED BY <1>1, <2>1
<1>6. \A k \in 1 .. m : s[1 + k] = x[k]
  <2> TAKE k \in 1 .. m
  <2>1. s[1 + k] = z[1 + k] /\ z[1 + k] = x[(1 + k) - 1]
    BY <1>3, <1>4
  <2> QED BY <2>1
<1>7. \A k \in 1 .. n : s[1 + m + k] = y[k]
  <2> TAKE k \in 1 .. n
  <2>1. s[1 + m + k] = y[(1 + m + k) - (1 + m)]
    BY <1>4
  <2> QED BY <2>1
<1> QED BY <1>4, <1>5, <1>6, <1>7

\* The recursive functions of Body and Decompress.
Written(f, v) ==
  f = [p \in 0 .. Len(v) |->
        CASE p = Len(v) -> <<>>
          [] p < Len(v) /\ p \in WordPlaces(v) /\ WordAt(v, p) \in DOMAIN codes ->
               <<1>> \o codes[WordAt(v, p)] \o f[p + Word]
          [] OTHER -> <<0>> \o Bits(v[p + 1]) \o f[p + 1]]

\* At a place there is the code of a word, or a literal.
CodeAt(v, p) == p \in WordPlaces(v) /\ WordAt(v, p) \in DOMAIN codes

LEMMA WordFits ==
  ASSUME NEW v \in Seq(Byte), NEW p \in 0 .. Len(v), CodeAt(v, p)
  PROVE  p < Len(v) /\ p + Word \in p + 1 .. Len(v)
<1>1. Len(v) \in Nat /\ Word \in Nat \ {0}
  BY LenProperties, HuffmanAssumption
<1> QED BY <1>1 DEF CodeAt, WordPlaces

LEMMA WrittenExists ==
  ASSUME NEW v \in Seq(Byte)
  PROVE  \E f : Written(f, v)
<1> DEFINE top == Len(v)
           next == [p \in 0 .. top |-> IF CodeAt(v, p) THEN p + Word ELSE p + 1]
           piece == [p \in 0 .. top |-> IF CodeAt(v, p) THEN <<1>> \o codes[WordAt(v, p)]
                                        ELSE <<0>> \o Bits(v[p + 1])]
<1>1. top \in Nat
  BY LenProperties
<1>2. ASSUME NEW p \in 0 .. top, p \notin {top} PROVE next[p] \in p + 1 .. top
  BY <1>1, <1>2, WordFits
<1>3. PICK f : Joins(f, top, {top}, piece, next)
  <2>1. Onward(next, {top}, top)
    BY <1>2 DEF Onward
  <2> HIDE DEF top, next, piece
  <2> QED BY <1>1, <2>1, JoiningExists
<1> DEFINE g == [p \in 0 .. top |-> f[p]]
<1>4. ASSUME NEW p \in 0 .. top
      PROVE  g[p] = CASE p = top -> <<>>
                      [] p < top /\ p \in WordPlaces(v) /\ WordAt(v, p) \in DOMAIN codes ->
                           <<1>> \o codes[WordAt(v, p)] \o g[p + Word]
                      [] OTHER -> <<0>> \o Bits(v[p + 1]) \o g[p + 1]
  <2>1. f[p] = IF p \in {top} THEN <<>> ELSE piece[p] \o f[next[p]]
    BY <1>3 DEF Joins
  <2>2. CASE p = top
    BY <2>1, <2>2
  <2>3. CASE p # top /\ CodeAt(v, p)
    <3>1. p < top /\ p + Word \in 0 .. top
      BY <1>1, <2>3, WordFits
    <3>2. next[p] = p + Word /\ piece[p] = <<1>> \o codes[WordAt(v, p)]
      BY <2>3
    <3>3. g[p] = <<1>> \o codes[WordAt(v, p)] \o g[p + Word]
      <4> HIDE DEF piece, next
      <4> QED BY <2>1, <2>3, <3>1, <3>2
    <3> HIDE DEF g, top
    <3> QED BY <2>3, <3>1, <3>3 DEF CodeAt
  <2>4. CASE p # top /\ ~CodeAt(v, p)
    <3>1. p + 1 \in 0 .. top
      BY <1>1, <2>4
    <3>2. next[p] = p + 1 /\ piece[p] = <<0>> \o Bits(v[p + 1])
      BY <2>4
    <3>3. g[p] = <<0>> \o Bits(v[p + 1]) \o g[p + 1]
      <4> HIDE DEF piece, next
      <4> QED BY <2>1, <2>4, <3>1, <3>2
    <3> HIDE DEF g, top
    <3> QED BY <2>4, <3>3 DEF CodeAt
  <2> QED BY <2>2, <2>3, <2>4
<1>5. Written(g, v)
  <2>1. g = [p \in 0 .. top |-> g[p]]
    OBVIOUS
  <2> HIDE DEF g
  <2> QED BY <1>4, <2>1 DEF Written
<1> HIDE DEF g
<1> QED BY <1>5

\* Behind each place is what is written there, and what is behind the next.
Behind(f, v) ==
  /\ f[Len(v)] = <<>>
  /\ \A p \in 0 .. Len(v) : f[p] \in Seq(Bit)
  /\ \A p \in 0 .. Len(v) - 1 :
       f[p] = IF CodeAt(v, p) THEN (<<1>> \o codes[WordAt(v, p)]) \o f[p + Word]
              ELSE (<<0>> \o Bits(v[p + 1])) \o f[p + 1]

LEMMA BodySpec ==
  ASSUME HuffmanInv, stage = "coded", NEW v \in Seq(Byte)
  PROVE  \E f : Body(v) = f[0] /\ Behind(f, v)
<1> PICK top : top = Len(v)
  OBVIOUS
<1>1. top \in Nat
  BY LenProperties
<1> DEFINE f == CHOOSE f : Written(f, v)
<1>2. Written(f, v)
  BY WrittenExists
<1>3. Body(v) = f[0]
  BY DEF Body, Written
<1> HIDE DEF f
<1>4. f = [p \in 0 .. top |->
            CASE p = top -> <<>>
              [] p < top /\ p \in WordPlaces(v) /\ WordAt(v, p) \in DOMAIN codes ->
                   <<1>> \o codes[WordAt(v, p)] \o f[p + Word]
              [] OTHER -> <<0>> \o Bits(v[p + 1]) \o f[p + 1]]
  BY <1>2 DEF Written
<1>5. f[top] = <<>>
  BY <1>1, <1>4
<1>6. ASSUME NEW p \in 0 .. top - 1
      PROVE  f[p] = IF CodeAt(v, p) THEN (<<1>> \o codes[WordAt(v, p)]) \o f[p + Word]
                    ELSE (<<0>> \o Bits(v[p + 1])) \o f[p + 1]
  <2>1. p \in 0 .. top /\ p # top /\ p < top
    BY <1>1
  <2> QED BY <1>4, <2>1 DEF CodeAt
<1> DEFINE S == {p \in 0 .. top : f[p] \in Seq(Bit)}
<1>7. ASSUME NEW p \in 0 .. top, p + 1 .. top \subseteq S PROVE p \in S
  <2>1. CASE p = top
    <3>1. f[p] \in Seq(Bit)
      BY <1>5, <2>1, EmptySeq
    <3> QED BY <3>1
  <2>2. CASE p # top /\ CodeAt(v, p)
    <3>1. p + Word \in p + 1 .. top /\ p \in 0 .. top - 1
      BY <1>1, <2>2, WordFits
    <3>2. codes[WordAt(v, p)] \in Seq(Bit) /\ 1 \in Bit
      BY <2>2, CodesApart DEF CodeAt, Bit
    <3>3. f[p + Word] \in Seq(Bit)
      BY <1>7, <3>1
    <3>4. f[p] = (<<1>> \o codes[WordAt(v, p)]) \o f[p + Word]
      BY <1>6, <2>2, <3>1
    <3>5. f[p] \in Seq(Bit)
      BY <3>2, <3>3, <3>4, Flagged
    <3> QED BY <3>5
  <2>3. CASE p # top /\ ~CodeAt(v, p)
    <3>1. p + 1 \in p + 1 .. top /\ p \in 0 .. top - 1
      BY <1>1, <2>3
    <3>2. v[p + 1] \in Byte
      BY <3>1, ElementOfSeq
    <3>3. Bits(v[p + 1]) \in Seq(Bit) /\ 0 \in Bit
      BY <3>2, ByteOfBits DEF Bit
    <3>4. f[p + 1] \in Seq(Bit)
      BY <1>7, <3>1
    <3>5. f[p] = (<<0>> \o Bits(v[p + 1])) \o f[p + 1]
      BY <1>6, <2>3, <3>1
    <3>6. f[p] \in Seq(Bit)
      BY <3>3, <3>4, <3>5, Flagged
    <3> QED BY <3>6
  <2> QED BY <2>1, <2>2, <2>3
<1> HIDE DEF S
<1>8. 0 .. top \subseteq S
  BY <1>1, <1>7, FromAll
<1>9. \A p \in 0 .. top : f[p] \in Seq(Bit)
  BY <1>8 DEF S
<1> QED BY <1>3, <1>5, <1>6, <1>9 DEF Behind

Followed(e, anything) == e.bits \o [b \in 1 .. MaxDepth + ByteBits |-> anything]
NumBits(e) == e.size * 8 - e.residual
LiteralAt(bits, offs) == SubSeq(bits, offs + 2, offs + 1 + ByteBits)
EntryAt(bits, offs) == Book(SubSeq(bits, offs + 2, offs + 1 + MaxDepth))

\* What is got at an offset.
GotAt(f, bits, num_bits, offs) ==
  CASE offs >= num_bits -> <<>>
    [] offs < num_bits /\ bits[offs + 1] = 0 ->
         <<ByteOf(SubSeq(bits, offs + 2, offs + 1 + ByteBits))>> \o f[offs + 1 + ByteBits]
    [] OTHER ->
         LET entry == Book(SubSeq(bits, offs + 2, offs + 1 + MaxDepth))
         IN  entry.symbol \o f[offs + 1 + entry.bits]
Got(f, bits, num_bits) ==
  f = [offs \in 0 .. num_bits + MaxDepth + ByteBits |-> GotAt(f, bits, num_bits, offs)]

LEMMA GotExists ==
  ASSUME HuffmanInv, stage = "coded", NEW bits, NEW num_bits \in Nat
  PROVE  \E f : Got(f, bits, num_bits)
<1> DEFINE top == num_bits + MaxDepth + ByteBits
           ends == num_bits .. top
           next == [offs \in 0 .. top |-> IF bits[offs + 1] = 0 THEN offs + 1 + ByteBits
                                          ELSE offs + 1 + EntryAt(bits, offs).bits]
           piece == [offs \in 0 .. top |-> IF bits[offs + 1] = 0 THEN <<ByteOf(LiteralAt(bits, offs))>>
                                           ELSE EntryAt(bits, offs).symbol]
<1>1. top \in Nat /\ MaxDepth \in Nat /\ ByteBits \in Nat
  BY HuffmanAssumption
<1>2. ASSUME NEW offs \in 0 .. top, offs \notin ends
      PROVE  /\ next[offs] \in offs + 1 .. top
             /\ offs + 1 + ByteBits \in offs + 1 .. top
             /\ offs + 1 + EntryAt(bits, offs).bits \in offs + 1 .. top
  <2>1. offs < num_bits
    BY <1>1, <1>2
  <2>2. PICK k \in 0 .. MaxDepth : k = EntryAt(bits, offs).bits
    BY BookBits DEF EntryAt
  <2>3. offs + 1 + ByteBits \in offs + 1 .. top /\ offs + 1 + k \in offs + 1 .. top
    BY <1>1, <2>1
  <2> QED BY <2>2, <2>3
<1>3. PICK f : Joins(f, top, ends, piece, next)
  <2>1. Onward(next, ends, top)
    BY <1>2 DEF Onward
  <2> HIDE DEF top, next, piece, ends
  <2> QED BY <1>1, <2>1, JoiningExists
<1> DEFINE g == [offs \in 0 .. top |-> f[offs]]
<1>4. ASSUME NEW offs \in 0 .. top
      PROVE  g[offs] = GotAt(g, bits, num_bits, offs)
  <2>1. f[offs] = IF offs \in ends THEN <<>> ELSE piece[offs] \o f[next[offs]]
    BY <1>3 DEF Joins
  <2>2. CASE offs >= num_bits
    <3>1. offs \in ends
      BY <1>1, <2>2
    <3>2. f[offs] = <<>>
      BY <2>1, <3>1
    <3>3. g[offs] = <<>>
      BY <3>2
    <3>4. ~(offs < num_bits)
      BY <1>1, <2>2
    <3> HIDE DEF g, top, ends
    <3> QED BY <2>2, <3>3, <3>4 DEF GotAt
  <2>3. CASE offs < num_bits
    <3>1. offs \notin ends
      BY <1>1, <2>3
    <3>2. g[offs] = piece[offs] \o g[next[offs]]
      <4>1. next[offs] \in 0 .. top
        BY <1>1, <1>2, <3>1
      <4> HIDE DEF piece, next, ends
      <4> QED BY <2>1, <3>1, <4>1
    <3> HIDE DEF g, ends
    <3>3. CASE bits[offs + 1] = 0
      <4>1. next[offs] = offs + 1 + ByteBits /\ piece[offs] = <<ByteOf(LiteralAt(bits, offs))>>
        BY <3>3
      <4> HIDE DEF piece, next, top
      <4> QED BY <2>3, <3>2, <3>3, <4>1 DEF LiteralAt, GotAt
    <3>4. CASE bits[offs + 1] # 0
      <4>1. PICK entry : entry = EntryAt(bits, offs)
        OBVIOUS
      <4>2. next[offs] = offs + 1 + entry.bits /\ piece[offs] = entry.symbol
        BY <3>4, <4>1
      <4> HIDE DEF piece, next, top
      <4>3. g[offs] = entry.symbol \o g[offs + 1 + entry.bits]
        BY <3>2, <4>2
      <4>4. ~(offs >= num_bits)
        BY <1>1, <2>3 DEF top
      <4>5. entry = Book(SubSeq(bits, offs + 2, offs + 1 + MaxDepth))
        BY <4>1 DEF EntryAt
      <4>6. GotAt(g, bits, num_bits, offs) = entry.symbol \o g[offs + 1 + entry.bits]
        BY <3>4, <4>4, <4>5 DEF GotAt
      <4> QED BY <4>3, <4>6
    <3> QED BY <3>3, <3>4
  <2>4. offs >= num_bits \/ offs < num_bits
    BY <1>1
  <2> HIDE DEF g, top, ends, next, piece
  <2> QED BY <2>2, <2>3, <2>4
<1>5. Got(g, bits, num_bits)
  <2>1. g = [offs \in 0 .. top |-> g[offs]]
    OBVIOUS
  <2> HIDE DEF g
  <2> QED BY <1>4, <2>1 DEF Got
<1> HIDE DEF g
<1> QED BY <1>5

\* From each offset the reader gets a byte or the word of an entry, and then what is behind it.
Reading(f, bits, num_bits) ==
  /\ f[num_bits] = <<>>
  /\ \A offs \in 0 .. num_bits - 1 :
       f[offs] = IF bits[offs + 1] = 0
                 THEN <<ByteOf(LiteralAt(bits, offs))>> \o f[offs + 1 + ByteBits]
                 ELSE EntryAt(bits, offs).symbol \o f[offs + 1 + EntryAt(bits, offs).bits]

LEMMA ReadSpec ==
  ASSUME HuffmanInv, stage = "coded", NEW e, NEW anything, NumBits(e) \in Nat
  PROVE  \E f : Decompress(e, anything) = f[3] /\ Reading(f, Followed(e, anything), NumBits(e))
<1> DEFINE f == CHOOSE f : Got(f, Followed(e, anything), NumBits(e))
<1>1. Got(f, Followed(e, anything), NumBits(e))
  BY GotExists
<1>2. Decompress(e, anything) = f[3]
  BY DEF Decompress, Got, GotAt, Followed, NumBits
<1> HIDE DEF f
<1> PICK bits, num_bits : bits = Followed(e, anything) /\ num_bits = NumBits(e)
  OBVIOUS
<1>3. num_bits \in Nat /\ MaxDepth \in Nat /\ ByteBits \in Nat
  BY HuffmanAssumption
<1>4. f = [offs \in 0 .. num_bits + MaxDepth + ByteBits |->
            CASE offs >= num_bits -> <<>>
              [] offs < num_bits /\ bits[offs + 1] = 0 ->
                   <<ByteOf(LiteralAt(bits, offs))>> \o f[offs + 1 + ByteBits]
              [] OTHER -> EntryAt(bits, offs).symbol \o f[offs + 1 + EntryAt(bits, offs).bits]]
  BY <1>1 DEF Got, GotAt, LiteralAt, EntryAt
<1>5. f[num_bits] = <<>>
  <2>1. num_bits \in 0 .. num_bits + MaxDepth + ByteBits /\ num_bits >= num_bits
    BY <1>3
  <2> QED BY <1>4, <2>1
<1>6. ASSUME NEW offs \in 0 .. num_bits - 1
      PROVE  f[offs] = IF bits[offs + 1] = 0
                       THEN <<ByteOf(LiteralAt(bits, offs))>> \o f[offs + 1 + ByteBits]
                       ELSE EntryAt(bits, offs).symbol \o f[offs + 1 + EntryAt(bits, offs).bits]
  <2>1. offs \in 0 .. num_bits + MaxDepth + ByteBits /\ ~(offs >= num_bits) /\ offs < num_bits
    BY <1>3
  <2> QED BY <1>4, <2>1
<1> QED BY <1>2, <1>5, <1>6 DEF Reading

\* What two sequences have, one behind the other.
LEMMA ConcatAt ==
  ASSUME NEW S, NEW s \in Seq(S), NEW t \in Seq(S)
  PROVE  /\ s \o t \in Seq(S) /\ Len(s \o t) = Len(s) + Len(t)
         /\ \A k \in 1 .. Len(s) : (s \o t)[k] = s[k]
         /\ \A k \in 1 .. Len(t) : (s \o t)[Len(s) + k] = t[k]
<1> PICK m, n : m = Len(s) /\ n = Len(t)
  OBVIOUS
<1>1. m \in Nat /\ n \in Nat
  BY LenProperties
<1> PICK u : u = s \o t
  OBVIOUS
<1>2. /\ u \in Seq(S) /\ Len(u) = m + n
      /\ \A k \in 1 .. m + n : u[k] = IF k <= m THEN s[k] ELSE t[k - m]
  BY ConcatProperties
<1>3. \A k \in 1 .. m : u[k] = s[k]
  BY <1>1, <1>2
<1>4. ASSUME NEW k \in 1 .. n PROVE u[m + k] = t[k]
  <2>1. m + k \in 1 .. m + n /\ ~(m + k <= m) /\ (m + k) - m = k
    BY <1>1
  <2> QED BY <1>2, <2>1
<1> QED BY <1>2, <1>3, <1>4

\* The bits of a compressed value: its body behind the residual, and enough behind that.
LEMMA CompressSpec ==
  ASSUME HuffmanInv, stage = "coded", NEW v \in Seq(Byte), NEW anything \in {0, 1},
         NEW e, e = Compress(v), NEW bits, bits = Followed(e, anything)
  PROVE  /\ Body(v) \in Seq(Bit) /\ NumBits(e) = 3 + Len(Body(v))
         /\ bits \in Seq(Bit) /\ Len(bits) >= NumBits(e) + MaxDepth + ByteBits
         /\ \A k \in 1 .. Len(Body(v)) : bits[3 + k] = Body(v)[k]
<1>1. Body(v) \in Seq(Bit)
  <2>1. PICK f : Body(v) = f[0] /\ \A p \in 0 .. Len(v) : f[p] \in Seq(Bit)
    BY BodySpec DEF Behind
  <2>2. 0 \in 0 .. Len(v)
    BY LenProperties
  <2> QED BY <2>1, <2>2
<1> PICK body \in Seq(Bit) : body = Body(v)
  BY <1>1
<1> PICK n \in Nat : n = Len(body)
  BY LenProperties
<1>r. PICK r : r = (-(3 + n)) % 8
  OBVIOUS
<1>2. r \in Nat
  BY <1>r
<1>a. (((3 + n) + r) \div 8) * 8 = (3 + n) + r
  BY <1>r
<1>3. /\ e.size = ((3 + n) + r) \div 8 /\ e.residual = r
      /\ e.bits = (Zeros(3) \o body) \o Zeros(r)
  BY <1>r DEF Compress
<1>4. NumBits(e) = 3 + n
  BY <1>2, <1>a, <1>3 DEF NumBits
<1>5. \A k \in Nat : Zeros(k) \in Seq(Bit) /\ Len(Zeros(k)) = k
  <2>1. \A k \in Nat : Zeros(k) \in [1 .. k -> Bit]
    BY DEF Zeros, Bit
  <2> QED BY <2>1
<1>z. PICK z : z = Zeros(3) \o body
  OBVIOUS
<1>6. /\ z \in Seq(Bit) /\ Len(z) = 3 + n
      /\ \A k \in 1 .. n : z[3 + k] = body[k]
  <2>1. Zeros(3) \in Seq(Bit) /\ Len(Zeros(3)) = 3
    BY <1>5
  <2> PICK c \in Seq(Bit) : c = Zeros(3)
    BY <2>1
  <2>2. /\ c \o body \in Seq(Bit) /\ Len(c \o body) = Len(c) + Len(body)
        /\ \A k \in 1 .. Len(body) : (c \o body)[Len(c) + k] = body[k]
    BY ConcatAt
  <2> QED BY <1>z, <2>1, <2>2
<1>7. /\ e.bits \in Seq(Bit) /\ Len(e.bits) = (3 + n) + r
      /\ \A k \in 1 .. 3 + n : e.bits[k] = z[k]
  <2>1. Zeros(r) \in Seq(Bit) /\ Len(Zeros(r)) = r
    BY <1>2, <1>5
  <2>x. PICK x \in Seq(Bit), y \in Seq(Bit) : x = z /\ y = Zeros(r)
    BY <1>6, <2>1
  <2>2. /\ x \o y \in Seq(Bit) /\ Len(x \o y) = Len(x) + Len(y)
        /\ \A k \in 1 .. Len(x) : (x \o y)[k] = x[k]
    BY <2>x, ConcatAt
  <2>3. e.bits = x \o y /\ Len(x) = 3 + n /\ Len(y) = r
    BY <1>3, <1>6, <1>z, <2>1, <2>x
  <2> QED BY <2>x, <2>2, <2>3
<1> PICK m \in Nat : m = MaxDepth + ByteBits
  BY HuffmanAssumption
<1>t. PICK t : t = [b \in 1 .. m |-> anything]
  OBVIOUS
<1>8. t \in Seq(Bit) /\ Len(t) = m
  <2>1. t \in [1 .. m -> Bit]
    BY <1>t DEF Bit
  <2> QED BY <2>1
<1>9. bits = e.bits \o t
  BY <1>t DEF Followed
<1>10. /\ bits \in Seq(Bit) /\ Len(bits) = ((3 + n) + r) + m
       /\ \A k \in 1 .. 3 + n : bits[k] = z[k]
  <2>x. PICK x \in Seq(Bit), y \in Seq(Bit) : x = e.bits /\ y = t
    BY <1>7, <1>8
  <2>y. /\ x \o y \in Seq(Bit) /\ Len(x \o y) = Len(x) + Len(y)
        /\ \A k \in 1 .. Len(x) : (x \o y)[k] = x[k]
    BY <2>x, ConcatAt
  <2>1. /\ bits \in Seq(Bit) /\ Len(bits) = ((3 + n) + r) + m
        /\ \A k \in 1 .. (3 + n) + r : bits[k] = e.bits[k]
    BY <1>7, <1>8, <1>9, <2>x, <2>y
  <2>2. \A k \in 1 .. 3 + n : k \in 1 .. (3 + n) + r
    BY <1>2
  <2> QED BY <1>7, <2>1, <2>2
<1>11. \A k \in 1 .. n : bits[3 + k] = body[k]
  <2>1. \A k \in 1 .. n : 3 + k \in 1 .. 3 + n
    OBVIOUS
  <2> QED BY <1>6, <1>10, <2>1
<1>12. Len(bits) >= NumBits(e) + MaxDepth + ByteBits
  <2>1. MaxDepth \in Nat /\ ByteBits \in Nat
    BY HuffmanAssumption
  <2> QED BY <1>2, <1>4, <1>10, <2>1
<1> QED BY <1>4, <1>10, <1>11, <1>12

\* Where a part of the bits is written, it is.
Holds(bits, offs, part) == \A k \in 1 .. Len(part) : bits[offs + k] = part[k]

\* A part of a sequence, from one place to another.
LEMMA BitsOfPart ==
  ASSUME NEW b, NEW i \in Int, NEW j \in Int, \A k \in i .. j : b[k] \in Bit
  PROVE  /\ SubSeq(b, i, j) \in Seq(Bit) /\ Len(SubSeq(b, i, j)) = IF i <= j THEN j - i + 1 ELSE 0
         /\ \A k \in 1 .. j - i + 1 : SubSeq(b, i, j)[k] = b[i + k - 1]
BY SubSeqProperties

LEMMA PartRead ==
  ASSUME NEW bits \in Seq(Bit), NEW offs \in Nat, NEW q \in Seq(Bit), Holds(bits, offs, q),
         offs + Len(q) <= Len(bits)
  PROVE  SubSeq(bits, offs + 1, offs + Len(q)) = q
<1> PICK n \in Nat, m \in Nat : n = Len(q) /\ m = Len(bits)
  BY LenProperties
<1> PICK s : s = SubSeq(bits, offs + 1, offs + n)
  OBVIOUS
<1>1. \A k \in offs + 1 .. offs + n : bits[k] \in Bit
  <2>1. \A k \in offs + 1 .. offs + n : k \in 1 .. Len(bits)
    OBVIOUS
  <2> QED BY <2>1, ElementOfSeq
<1>2. /\ s \in Seq(Bit) /\ Len(s) = IF offs + 1 <= offs + n THEN (offs + n) - (offs + 1) + 1 ELSE 0
      /\ \A k \in 1 .. (offs + n) - (offs + 1) + 1 : s[k] = bits[(offs + 1) + k - 1]
  <2>1. PICK i, j : i = offs + 1 /\ j = offs + n
    OBVIOUS
  <2>2. i \in Int /\ j \in Int
    BY <2>1
  <2>3. \A k \in i .. j : bits[k] \in Bit
    BY <1>1, <2>1
  <2>4. /\ SubSeq(bits, i, j) \in Seq(Bit) /\ Len(SubSeq(bits, i, j)) = IF i <= j THEN j - i + 1 ELSE 0
        /\ \A k \in 1 .. j - i + 1 : SubSeq(bits, i, j)[k] = bits[i + k - 1]
    BY ONLY <2>2, <2>3, BitsOfPart
  <2>5. s = SubSeq(bits, i, j)
    BY <2>1
  <2>6. s \in Seq(Bit) /\ Len(s) = IF i <= j THEN j - i + 1 ELSE 0
    BY <2>4, <2>5
  <2>7. \A k \in 1 .. j - i + 1 : s[k] = bits[i + k - 1]
    BY ONLY <2>4, <2>5, Zenon
  <2> QED BY <2>1, <2>6, <2>7
<1>3. Len(s) = n
  BY <1>2
<1>4. ASSUME NEW k \in 1 .. n PROVE s[k] = q[k]
  <2>1. s[k] = bits[(offs + 1) + k - 1] /\ (offs + 1) + k - 1 = offs + k
    BY <1>2
  <2>2. bits[offs + k] = q[k]
    BY DEF Holds
  <2> QED BY <2>1, <2>2
<1>5. s = q
  BY <1>2, <1>3, <1>4, SeqEqual
<1> QED BY <1>5

\* Parts one behind the other are written one behind the other.
LEMMA PartsHeld ==
  ASSUME NEW bits, NEW offs \in Nat, NEW a \in Bit, NEW x \in Seq(Bit), NEW y \in Seq(Bit),
         Holds(bits, offs, (<<a>> \o x) \o y)
  PROVE  /\ bits[offs + 1] = a /\ Holds(bits, offs + 1, x) /\ Holds(bits, offs + 1 + Len(x), y)
<1> PICK s : s = (<<a>> \o x) \o y
  OBVIOUS
<1> PICK m \in Nat, n \in Nat : m = Len(x) /\ n = Len(y)
  BY LenProperties
<1>1. /\ Len(s) = 1 + m + n /\ s[1] = a
      /\ \A k \in 1 .. m : s[1 + k] = x[k]
      /\ \A k \in 1 .. n : s[1 + m + k] = y[k]
  BY Flagged
<1>2. \A k \in 1 .. 1 + m + n : bits[offs + k] = s[k]
  BY <1>1 DEF Holds
<1>3. bits[offs + 1] = a
  BY <1>1, <1>2
<1>4. ASSUME NEW k \in 1 .. m PROVE bits[(offs + 1) + k] = x[k]
  <2>1. 1 + k \in 1 .. 1 + m + n /\ offs + (1 + k) = (offs + 1) + k
    OBVIOUS
  <2> QED BY <1>1, <1>2, <2>1
<1>5. ASSUME NEW k \in 1 .. n PROVE bits[(offs + 1 + m) + k] = y[k]
  <2>1. 1 + m + k \in 1 .. 1 + m + n /\ offs + (1 + m + k) = (offs + 1 + m) + k
    OBVIOUS
  <2> QED BY <1>1, <1>2, <2>1
<1> QED BY <1>3, <1>4, <1>5 DEF Holds

LEMMA TailOf ==
  ASSUME NEW v \in Seq(Byte), NEW p \in 0 .. Len(v) - 1
  PROVE  SubSeq(v, p + 1, Len(v)) = <<v[p + 1]>> \o SubSeq(v, p + 2, Len(v))
<1>1. Len(v) \in Nat
  BY LenProperties
<1>2. p + 1 \in 1 .. Len(v) /\ Len(v) \in p + 1 .. Len(v) /\ (p + 1) + 1 = p + 2
  BY <1>1
<1> QED BY <1>2, SubSeqRecursiveFirst

LEMMA TailOfWord ==
  ASSUME NEW v \in Seq(Byte), NEW p \in 0 .. Len(v), CodeAt(v, p)
  PROVE  SubSeq(v, p + 1, Len(v)) = WordAt(v, p) \o SubSeq(v, p + Word + 1, Len(v))
<1>1. Len(v) \in Nat /\ p + Word \in p + 1 .. Len(v) /\ p < Len(v)
  BY WordFits, LenProperties
<1>2. /\ p + 1 \in 1 .. Len(v) + 1 /\ p + Word \in (p + 1) - 1 .. Len(v)
      /\ Len(v) \in p + Word .. Len(v)
  BY <1>1
<1>3. SubSeq(v, p + 1, p + Word) \o SubSeq(v, (p + Word) + 1, Len(v)) = SubSeq(v, p + 1, Len(v))
  BY <1>2, ConcatAdjacentSubSeq
<1> QED BY <1>3 DEF WordAt

\* Reading from where what is behind a place was written gets the rest of the value.
LEMMA ReadBack ==
  ASSUME HuffmanInv, stage = "coded", NEW v \in Seq(Byte),
         NEW bits \in Seq(Bit), NEW num_bits \in Nat, Len(bits) >= num_bits + MaxDepth + ByteBits,
         NEW f, Behind(f, v), NEW g, Reading(g, bits, num_bits),
         NEW offs \in Nat, offs + Len(f[0]) = num_bits, Holds(bits, offs, f[0])
  PROVE  g[offs] = v
<1> PICK top : top = Len(v)
  OBVIOUS
<1>1. top \in Nat /\ Word \in Nat /\ MaxDepth \in Nat /\ ByteBits \in Nat
  BY LenProperties, HuffmanAssumption
<1>b. PICK len \in Nat : len = Len(bits) /\ len >= num_bits + MaxDepth + ByteBits
  BY LenProperties
<1>2. \A p \in 0 .. top : f[p] \in Seq(Bit) /\ Len(f[p]) \in Nat
  BY LenProperties DEF Behind
<1> DEFINE Back(p, o) == o + Len(f[p]) = num_bits /\ Holds(bits, o, f[p])
                           => g[o] = SubSeq(v, p + 1, top)
           S == {p \in 0 .. top : \A o \in Nat : Back(p, o)}
<1>3. ASSUME NEW p \in 0 .. top, p + 1 .. top \subseteq S PROVE p \in S
  <2> SUFFICES ASSUME NEW o \in Nat, o + Len(f[p]) = num_bits, Holds(bits, o, f[p])
               PROVE  g[o] = SubSeq(v, p + 1, top)
    OBVIOUS
  <2>1. CASE p = top
    <3>1. f[p] = <<>> /\ g[num_bits] = <<>>
      BY <2>1 DEF Behind, Reading
    <3>2. o = num_bits
      BY <3>1
    <3>3. SubSeq(v, p + 1, top) = <<>>
      BY <1>1, <2>1, SubSeqEmpty
    <3> QED BY <3>1, <3>2, <3>3
  <2>2. CASE p # top /\ CodeAt(v, p)
    <3>1. p + Word \in p + 1 .. top /\ p \in 0 .. top - 1
      BY <1>1, <2>2, WordFits
    <3>2. PICK w \in DOMAIN codes, x \in Seq(Bit), n \in 1 .. MaxDepth :
                 w = WordAt(v, p) /\ x = codes[w] /\ n = Len(x)
      BY <2>2, CodesApart DEF CodeAt
    <3>3. PICK y \in Seq(Bit), m \in Nat : y = f[p + Word] /\ m = Len(y)
      BY <1>1, <1>2, <3>1
    <3>4. f[p] = (<<1>> \o x) \o y
      BY <2>2, <3>1, <3>2, <3>3 DEF Behind
    <3>5. 1 \in Bit
      BY DEF Bit
    <3>6. o + (1 + n + m) = num_bits
      <4>1. Len((<<1>> \o x) \o y) = 1 + Len(x) + Len(y)
        BY <3>5, Flagged
      <4> QED BY <3>2, <3>3, <3>4, <4>1
    <3>7. bits[o + 1] = 1 /\ Holds(bits, o + 1, x) /\ Holds(bits, o + 1 + n, y)
      <4>1. Holds(bits, o, (<<1>> \o x) \o y)
        BY <3>4
      <4>2. bits[o + 1] = 1 /\ Holds(bits, o + 1, x) /\ Holds(bits, o + 1 + Len(x), y)
        BY <3>5, <4>1, PartsHeld
      <4> QED BY <3>2, <4>2
    <3>8. PICK index : index = SubSeq(bits, o + 2, o + 1 + MaxDepth)
      OBVIOUS
    <3>9. index \in Seq(Bit) /\ IsPrefix(x, index)
      <4>1. \A k \in o + 2 .. o + 1 + MaxDepth : bits[k] \in Bit
        <5>1. \A k \in o + 2 .. o + 1 + MaxDepth : k \in 1 .. len
          BY <1>1, <1>b, <3>6
        <5> QED BY <1>b, <5>1, ElementOfSeq
      <4>2. /\ index \in Seq(Bit)
            /\ Len(index) = IF o + 2 <= o + 1 + MaxDepth THEN (o + 1 + MaxDepth) - (o + 2) + 1 ELSE 0
            /\ \A k \in 1 .. (o + 1 + MaxDepth) - (o + 2) + 1 : index[k] = bits[(o + 2) + k - 1]
        BY <1>1, <3>8, <4>1, SubSeqProperties
      <4>3. Len(index) = MaxDepth
        BY <1>1, <4>2
      <4>4. ASSUME NEW k \in 1 .. n PROVE x[k] = index[k]
        <5>1. index[k] = bits[(o + 2) + k - 1] /\ (o + 2) + k - 1 = (o + 1) + k
          BY <1>1, <4>2
        <5>2. bits[(o + 1) + k] = x[k]
          BY <3>2, <3>7 DEF Holds
        <5> QED BY <5>1, <5>2
      <4>5. Len(x) <= Len(index)
        BY <1>1, <3>2, <4>3
      <4> QED BY <3>2, <4>2, <4>4, <4>5, PrefixSpec
    <3>10. EntryAt(bits, o) = [symbol |-> w, bits |-> n]
      BY <3>2, <3>8, <3>9, BookSpec DEF EntryAt
    <3>11. g[o] = w \o g[o + 1 + n]
      <4>1. o \in 0 .. num_bits - 1 /\ bits[o + 1] # 0
        BY <3>6, <3>7
      <4>2. g[o] = EntryAt(bits, o).symbol \o g[o + 1 + EntryAt(bits, o).bits]
        BY <4>1 DEF Reading
      <4>3. EntryAt(bits, o).symbol = w /\ EntryAt(bits, o).bits = n
        BY <3>10
      <4> QED BY <4>2, <4>3
    <3>12. g[o + 1 + n] = SubSeq(v, p + Word + 1, top)
      <4>0. n \in Nat /\ o + 1 + n \in Nat
        BY <1>1
      <4>1. Back(p + Word, o + 1 + n)
        <5> HIDE DEF Back
        <5> QED BY <1>3, <3>1, <4>0
      <4>2. (o + 1 + n) + Len(f[p + Word]) = num_bits
        <5>1. (o + 1 + n) + m = num_bits
          BY <3>6, <4>0
        <5> QED BY <3>3, <5>1
      <4> QED BY <3>3, <3>7, <4>1, <4>2
    <3> QED BY <2>2, <3>2, <3>11, <3>12, TailOfWord
  <2>3. CASE p # top /\ ~CodeAt(v, p)
    <3>1. p + 1 \in p + 1 .. top /\ p \in 0 .. top - 1
      BY <1>1, <2>3
    <3>2. PICK b \in Byte, x \in Seq(Bit) : b = v[p + 1] /\ x = Bits(b) /\ Len(x) = ByteBits /\ ByteOf(x) = b
      <4>1. v[p + 1] \in Byte
        BY <3>1, ElementOfSeq
      <4> QED BY <4>1, ByteOfBits
    <3>3. PICK y \in Seq(Bit), m \in Nat : y = f[p + 1] /\ m = Len(y)
      <4>1. p + 1 \in 0 .. top
        BY <1>1, <3>1
      <4> QED BY <1>2, <4>1
    <3>4. f[p] = (<<0>> \o x) \o y
      BY <2>3, <3>1, <3>2, <3>3 DEF Behind
    <3>5. 0 \in Bit
      BY DEF Bit
    <3>6. o + (1 + ByteBits + m) = num_bits
      <4>1. Len((<<0>> \o x) \o y) = 1 + Len(x) + Len(y)
        BY <3>5, Flagged
      <4> QED BY <3>2, <3>3, <3>4, <4>1
    <3>7. bits[o + 1] = 0 /\ Holds(bits, o + 1, x) /\ Holds(bits, o + 1 + ByteBits, y)
      <4>1. Holds(bits, o, (<<0>> \o x) \o y)
        BY <3>4
      <4>2. bits[o + 1] = 0 /\ Holds(bits, o + 1, x) /\ Holds(bits, o + 1 + Len(x), y)
        BY <3>5, <4>1, PartsHeld
      <4> QED BY <3>2, <4>2
    <3>8. LiteralAt(bits, o) = x
      <4>1. o + 1 \in Nat /\ (o + 1) + ByteBits <= len /\ (o + 1) + 1 = o + 2
        BY <1>1, <1>b, <3>6
      <4>2. SubSeq(bits, (o + 1) + 1, (o + 1) + Len(x)) = x
        BY <1>b, <3>2, <3>7, <4>1, PartRead
      <4> QED BY <3>2, <4>1, <4>2 DEF LiteralAt
    <3>9. g[o] = <<b>> \o g[o + 1 + ByteBits]
      <4>1. o \in 0 .. num_bits - 1
        BY <1>1, <3>6
      <4> QED BY <3>2, <3>7, <3>8, <4>1 DEF Reading
    <3>10. g[o + 1 + ByteBits] = SubSeq(v, p + 2, top)
      <4>0. o + 1 + ByteBits \in Nat
        BY <1>1
      <4>1. Back(p + 1, o + 1 + ByteBits)
        <5> HIDE DEF Back
        <5> QED BY <1>3, <3>1, <4>0
      <4>2. (o + 1 + ByteBits) + Len(f[p + 1]) = num_bits
        <5>1. ByteBits \in Nat
          BY <1>1
        <5>2. (o + 1 + ByteBits) + m = num_bits
          BY <3>6, <5>1
        <5> QED BY <3>3, <5>2
      <4>3. (p + 1) + 1 = p + 2
        OBVIOUS
      <4> QED BY <3>3, <3>7, <4>1, <4>2, <4>3
    <3> QED BY <3>1, <3>2, <3>9, <3>10, TailOf
  <2> QED BY <2>1, <2>2, <2>3
<1> HIDE DEF S
<1>4. 0 \in S
  <2>1. 0 .. top \subseteq S
    BY <1>1, <1>3, FromAll
  <2> QED BY <1>1, <2>1
<1>5. g[offs] = SubSeq(v, 0 + 1, top)
  BY <1>4 DEF S
<1> QED BY <1>5, SubSeqFull

LEMMA ReadAgain == HuffmanInv => RoundTrip
<1> SUFFICES ASSUME HuffmanInv, stage = "coded", NEW v \in corpus, NEW anything \in {0, 1},
                    ~TooLong(v)
             PROVE  Decompress(Compress(v), anything) = v
  BY DEF RoundTrip
<1>1. v \in Seq(Byte)
  BY HuffmanAssumption DEF HuffmanInv
<1>2. PICK e, bits : e = Compress(v) /\ bits = Followed(e, anything)
  OBVIOUS
<1>3. /\ Body(v) \in Seq(Bit) /\ NumBits(e) = 3 + Len(Body(v))
      /\ bits \in Seq(Bit) /\ Len(bits) >= NumBits(e) + MaxDepth + ByteBits
      /\ \A k \in 1 .. Len(Body(v)) : bits[3 + k] = Body(v)[k]
  BY <1>1, <1>2, CompressSpec
<1>4. PICK f : Body(v) = f[0] /\ Behind(f, v)
  BY <1>1, BodySpec
<1>5. NumBits(e) \in Nat
  BY <1>3, LenProperties
<1>6. PICK g : Decompress(e, anything) = g[3] /\ Reading(g, bits, NumBits(e))
  BY <1>2, <1>5, ReadSpec
<1>7. 3 \in Nat /\ 3 + Len(f[0]) = NumBits(e) /\ Holds(bits, 3, f[0])
  BY <1>3, <1>4 DEF Holds
<1>8. g[3] = v
  BY <1>1, <1>3, <1>4, <1>5, <1>6, <1>7, ReadBack
<1> QED BY <1>2, <1>6, <1>8
-----------------------------------------------------------------------------
(***************************************************************************)
(* Sums                                                                    *)
(***************************************************************************)
Sum(f, S) == SumFunctionOnSet(f, S)
Some(S) == CHOOSE x \in S : TRUE

\* What the empty set has, and each other set when it has it without any one element.
LEMMA BySize ==
  ASSUME NEW S, IsFiniteSet(S), NEW P, {} \in P,
         \A T \in SUBSET S : T # {} /\ (\A x \in T : T \ {x} \in P) => T \in P
  PROVE  SUBSET S \subseteq P
<1> DEFINE K == {n \in 0 .. Cardinality(S) : \A T \in SUBSET S : Cardinality(T) = n => T \in P}
<1>1. /\ Cardinality(S) \in Nat
      /\ \A T \in SUBSET S : IsFiniteSet(T) /\ Cardinality(T) \in 0 .. Cardinality(S)
  <2>1. \A T \in SUBSET S : /\ IsFiniteSet(T) /\ Cardinality(T) <= Cardinality(S)
                            /\ Cardinality(T) \in Nat
    BY FS_Subset, FS_CardinalityType
  <2>2. Cardinality(S) \in Nat
    BY FS_CardinalityType
  <2> QED BY <2>1, <2>2
<1>2. 0 \in K
  <2>1. \A T \in SUBSET S : Cardinality(T) = 0 => T = {}
    BY <1>1, FS_EmptySet
  <2> QED BY <1>1, <2>1
<1>3. ASSUME NEW k \in 0 .. Cardinality(S), k < Cardinality(S), k \in K PROVE k + 1 \in K
  <2>1. ASSUME NEW T \in SUBSET S, Cardinality(T) = k + 1 PROVE T \in P
    <3>1. ASSUME NEW x \in T PROVE T \ {x} \in P
      <4>1. Cardinality(T \ {x}) = Cardinality(T) - 1 /\ T \ {x} \in SUBSET S
        BY <1>1, FS_RemoveElement
      <4>2. Cardinality(T \ {x}) = k
        BY <2>1, <4>1
      <4> QED BY <1>3, <4>1, <4>2
    <3>2. T # {}
      <4>1. Cardinality({}) = 0 /\ k + 1 # 0
        BY <1>1, FS_EmptySet
      <4> QED BY <2>1, <4>1
    <3> QED BY <3>1, <3>2
  <2>2. k + 1 \in 0 .. Cardinality(S)
    BY <1>1, <1>3
  <2> QED BY <2>1, <2>2
<1> HIDE DEF K
<1>4. 0 .. Cardinality(S) \subseteq K
  BY <1>1, <1>2, <1>3, FromBelow
<1> QED BY <1>1, <1>4 DEF K

\* A function of sets adds up what f has.
Adds(f, S, s) == \A T \in SUBSET S : s[T] = IF T = {} THEN 0 ELSE f[Some(T)] + s[T \ {Some(T)}]

LEMMA SomeIn == \A S : S # {} => Some(S) \in S
  BY DEF Some

IsAdding(f, S, s) == s = [T \in SUBSET S |-> IF T = {} THEN 0 ELSE f[Some(T)] + s[T \ {Some(T)}]]

\* The recursion of the community module's fold has a solution.
LEMMA AddingExists == ASSUME NEW f, NEW S, IsFiniteSet(S) PROVE \E s : IsAdding(f, S, s)
<1> DEFINE Solves(s, n) == \A T \in SUBSET S : Cardinality(T) <= n =>
                             s[T] = IF T = {} THEN 0 ELSE f[Some(T)] + s[T \ {Some(T)}]
           K == {n \in 0 .. Cardinality(S) : \E s : Solves(s, n)}
<1>1. /\ Cardinality(S) \in Nat
      /\ \A T \in SUBSET S : Cardinality(T) \in 0 .. Cardinality(S)
      /\ \A T \in SUBSET S : T # {} => /\ T \ {Some(T)} \in SUBSET S
                                       /\ Cardinality(T \ {Some(T)}) = Cardinality(T) - 1
      /\ \A T \in SUBSET S : Cardinality(T) = 0 => T = {}
  <2>1. \A T \in SUBSET S : /\ IsFiniteSet(T) /\ Cardinality(T) <= Cardinality(S)
                            /\ Cardinality(T) \in Nat
    BY FS_Subset, FS_CardinalityType
  <2>2. Cardinality(S) \in Nat
    BY FS_CardinalityType
  <2>3. \A T \in SUBSET S : T # {} => Cardinality(T \ {Some(T)}) = Cardinality(T) - 1
    BY <2>1, SomeIn, FS_RemoveElement
  <2>4. \A T \in SUBSET S : Cardinality(T) = 0 => T = {}
    BY <2>1, FS_EmptySet
  <2> QED BY <2>1, <2>2, <2>3, <2>4
<1>2. 0 \in K
  <2> DEFINE s == [T \in SUBSET S |-> 0]
  <2>1. Solves(s, 0)
    BY <1>1
  <2> HIDE DEF s, Solves
  <2> QED BY <1>1, <2>1
<1>3. ASSUME NEW k \in 0 .. Cardinality(S), k < Cardinality(S), k \in K PROVE k + 1 \in K
  <2>1. PICK s : Solves(s, k)
    BY <1>3
  <2> DEFINE t == [T \in SUBSET S |-> IF T = {} THEN 0 ELSE f[Some(T)] + s[T \ {Some(T)}]]
  <2>2. \A T \in SUBSET S : Cardinality(T) <= k => t[T] = s[T]
    BY <2>1
  <2>3. ASSUME NEW T \in SUBSET S, Cardinality(T) <= k + 1, T # {}
        PROVE  t[T] = f[Some(T)] + t[T \ {Some(T)}]
    <3>1. Cardinality(T \ {Some(T)}) <= k /\ T \ {Some(T)} \in SUBSET S
      BY <1>1, <2>3
    <3>2. t[T \ {Some(T)}] = s[T \ {Some(T)}]
      BY <2>2, <3>1
    <3>3. t[T] = f[Some(T)] + s[T \ {Some(T)}]
      BY <2>3
    <3> QED BY <3>2, <3>3
  <2>4. {} \in SUBSET S => t[{}] = 0
    OBVIOUS
  <2> HIDE DEF t
  <2>5. Solves(t, k + 1)
    BY <2>3, <2>4
  <2>6. k + 1 \in 0 .. Cardinality(S)
    BY <1>1, <1>3
  <2> HIDE DEF Solves
  <2> QED BY <2>5, <2>6
<1> HIDE DEF K
<1>4. 0 .. Cardinality(S) \subseteq K
  BY <1>1, <1>2, <1>3, FromBelow
<1>5. Cardinality(S) \in K
  BY <1>1, <1>4
<1>6. PICK s : Solves(s, Cardinality(S))
  BY <1>5 DEF K
<1> DEFINE t == [T \in SUBSET S |-> s[T]]
<1>7. \A T \in SUBSET S : t[T] = IF T = {} THEN 0 ELSE f[Some(T)] + t[T \ {Some(T)}]
  <2>1. \A T \in SUBSET S : t[T] = s[T]
    OBVIOUS
  <2>2. \A T \in SUBSET S : Cardinality(T) <= Cardinality(S)
    BY <1>1
  <2>3. \A T \in SUBSET S : T \ {Some(T)} \in SUBSET S
    OBVIOUS
  <2> HIDE DEF t
  <2> QED BY <1>6, <2>1, <2>2, <2>3
<1>8. t = [T \in SUBSET S |-> IF T = {} THEN 0 ELSE f[Some(T)] + t[T \ {Some(T)}]]
  <2>1. t = [T \in SUBSET S |-> t[T]]
    OBVIOUS
  <2> HIDE DEF t
  <2> QED BY <1>7, <2>1
<1> HIDE DEF t
<1> QED BY <1>8 DEF IsAdding

LEMMA SumAdds ==
  ASSUME NEW f, NEW S, IsFiniteSet(S)
  PROVE  \E s : Adds(f, S, s) /\ Sum(f, S) = s[S]
<1> DEFINE sum == CHOOSE s : IsAdding(f, S, s)
<1>1. IsAdding(f, S, sum)
  BY AddingExists
<1>2. Sum(f, S) = sum[S]
  BY DEF Sum, SumFunctionOnSet, FoldFunctionOnSet, MapThenFoldSet, Some, IsAdding
<1>3. Adds(f, S, sum)
  <2> HIDE DEF sum
  <2> QED BY <1>1 DEF Adds, IsAdding
<1> QED BY <1>2, <1>3

\* The sum of a set is one value and the sum of the rest.
LEMMA SumSome ==
  ASSUME NEW f, NEW S, IsFiniteSet(S)
  PROVE  Sum(f, S) = IF S = {} THEN 0 ELSE f[Some(S)] + Sum(f, S \ {Some(S)})
<1>1. PICK s : Adds(f, S, s) /\ Sum(f, S) = s[S]
  BY SumAdds
<1> DEFINE R == S \ {Some(S)}
<1>2. IsFiniteSet(R)
  BY FS_Subset
<1>3. PICK t : Adds(f, R, t) /\ Sum(f, R) = t[R]
  BY <1>2, SumAdds
<1> DEFINE P == {T \in SUBSET R : s[T] = t[T]}
<1>4. {} \in P
  BY <1>1, <1>3 DEF Adds
<1>5. ASSUME NEW T \in SUBSET R, T # {}, \A x \in T : T \ {x} \in P PROVE T \in P
  <2>1. Some(T) \in T
    BY <1>5, SomeIn
  <2>2. s[T \ {Some(T)}] = t[T \ {Some(T)}]
    BY <1>5, <2>1
  <2>3. /\ s[T] = f[Some(T)] + s[T \ {Some(T)}]
        /\ t[T] = f[Some(T)] + t[T \ {Some(T)}]
    <3>1. T \in SUBSET S
      OBVIOUS
    <3> HIDE DEF R, P
    <3> QED BY <1>1, <1>3, <1>5, <3>1 DEF Adds
  <2> QED BY <2>2, <2>3
<1>6. R \in P
  <2> HIDE DEF P, R
  <2>1. SUBSET R \subseteq P
    BY <1>2, <1>4, <1>5, BySize
  <2> QED BY <2>1
<1>7. s[S] = IF S = {} THEN 0 ELSE f[Some(S)] + s[R]
  BY <1>1 DEF Adds
<1> QED BY <1>1, <1>3, <1>6, <1>7

\* It does not matter which value is taken first.
LEMMA SumOne ==
  ASSUME NEW f, NEW S, IsFiniteSet(S), \A x \in S : f[x] \in Nat
  PROVE  Sum(f, S) \in Nat /\ \A x \in S : Sum(f, S) = f[x] + Sum(f, S \ {x})
<1> DEFINE P == {T \in SUBSET S : /\ Sum(f, T) \in Nat
                                 /\ \A x \in T : /\ Sum(f, T) = f[x] + Sum(f, T \ {x})
                                                 /\ Sum(f, T \ {x}) \in Nat}
<1>1. {} \in P
  <2>1. Sum(f, {}) = 0
    BY FS_EmptySet, SumSome
  <2> QED BY <2>1
<1>2. ASSUME NEW T \in SUBSET S, T # {}, \A x \in T : T \ {x} \in P PROVE T \in P
  <2> PICK p : p = Some(T)
    OBVIOUS
  <2>1. p \in T
    BY <1>2, SomeIn
  <2>2. Sum(f, T) = f[p] + Sum(f, T \ {p})
    <3>1. IsFiniteSet(T)
      BY FS_Subset
    <3> QED BY <1>2, <3>1, SumSome
  <2>3. Sum(f, T \ {p}) \in Nat /\ f[p] \in Nat
    BY <1>2, <2>1
  <2>4. ASSUME NEW x \in T, x # p PROVE Sum(f, T) = f[x] + Sum(f, T \ {x})
    <3>1. T \ {p} \in P /\ T \ {x} \in P /\ x \in T \ {p} /\ p \in T \ {x}
      BY <1>2, <2>1, <2>4
    <3>2. Sum(f, T \ {p}) = f[x] + Sum(f, (T \ {p}) \ {x})
      BY <3>1
    <3>3. Sum(f, T \ {x}) = f[p] + Sum(f, (T \ {x}) \ {p}) /\ Sum(f, T \ {x}) \in Nat
      BY <3>1
    <3>4. (T \ {p}) \ {x} = (T \ {x}) \ {p}
      OBVIOUS
    <3>5. Sum(f, (T \ {p}) \ {x}) \in Nat
      BY <3>1
    <3>6. PICK rest \in Nat : rest = Sum(f, (T \ {p}) \ {x})
      BY <3>5
    <3>7. PICK i \in Nat, j \in Nat : i = f[p] /\ j = f[x]
      BY <2>3
    <3>8. Sum(f, T) = i + (j + rest) /\ Sum(f, T \ {x}) = i + rest
      BY <2>2, <3>2, <3>3, <3>4, <3>6, <3>7
    <3>9. Sum(f, T) = j + (i + rest)
      BY <3>8
    <3> QED BY <3>7, <3>8, <3>9
  <2>5. \A x \in T : Sum(f, T \ {x}) \in Nat
    BY <1>2
  <2> QED BY <2>2, <2>3, <2>4, <2>5
<1>3. SUBSET S \subseteq P
  <2> HIDE DEF P
  <2> QED BY <1>1, <1>2, BySize
<1> QED BY <1>3

\* Finitely many numbers, of which one is taken out.
Summed(f, S) == IsFiniteSet(S) /\ \A x \in S : f[x] \in Nat

LEMMA SumTaken ==
  ASSUME NEW f, NEW S, Summed(f, S), NEW x \in S
  PROVE  Sum(f, S) = f[x] + Sum(f, S \ {x})
  BY SumOne DEF Summed

LEMMA SumNothing == \A f : Sum(f, {}) = 0
  BY FS_EmptySet, SumSome

\* Equal values have equal sums.
LEMMA SumSame ==
  ASSUME NEW f, NEW g, NEW S, IsFiniteSet(S), \A x \in S : f[x] = g[x]
  PROVE  Sum(f, S) = Sum(g, S)
<1> DEFINE P == {T \in SUBSET S : Sum(f, T) = Sum(g, T)}
<1>1. {} \in P
  BY SumNothing
<1>2. ASSUME NEW T \in SUBSET S, T # {}, \A x \in T : T \ {x} \in P PROVE T \in P
  <2>1. Some(T) \in T /\ IsFiniteSet(T)
    BY <1>2, SomeIn, FS_Subset
  <2>2. Sum(f, T \ {Some(T)}) = Sum(g, T \ {Some(T)})
    BY <1>2, <2>1
  <2>3. Sum(f, T) = f[Some(T)] + Sum(f, T \ {Some(T)})
    BY <1>2, <2>1, SumSome
  <2>4. Sum(g, T) = g[Some(T)] + Sum(g, T \ {Some(T)})
    BY <1>2, <2>1, SumSome
  <2> QED BY <2>1, <2>2, <2>3, <2>4
<1>3. SUBSET S \subseteq P
  <2> HIDE DEF P
  <2> QED BY <1>1, <1>2, BySize
<1> QED BY <1>3

\* The sum is the same when each value is found somewhere else.
LEMMA SumMoved ==
  ASSUME NEW f, NEW g, NEW h, NEW S, IsFiniteSet(S),
         \A x \in S : f[x] \in Nat /\ g[h[x]] = f[x],
         \A x, y \in S : h[x] = h[y] => x = y
  PROVE  Sum(g, {h[x] : x \in S}) = Sum(f, S)
<1> DEFINE To(T) == {h[x] : x \in T}
           P == {T \in SUBSET S : Sum(g, To(T)) = Sum(f, T)}
<1>1. {} \in P
  <2>1. To({}) = {}
    OBVIOUS
  <2> QED BY <2>1, SumNothing
<1>2. ASSUME NEW T \in SUBSET S, T # {}, \A x \in T : T \ {x} \in P PROVE T \in P
  <2> PICK x : x \in T
    BY <1>2
  <2>1. IsFiniteSet(T)
    BY FS_Subset
  <2>2. To(T \ {x}) = To(T) \ {h[x]} /\ h[x] \in To(T)
    OBVIOUS
  <2>3. IsFiniteSet(To(T)) /\ \A y \in To(T) : g[y] \in Nat
    <3>1. IsFiniteSet(To(T))
      <4> DEFINE k == [z \in T |-> h[z]]
      <4>1. k \in Surjection(T, To(T))
        BY DEF Surjection
      <4> HIDE DEF k, To
      <4> QED BY <2>1, <4>1, FS_Surjection
    <3> QED BY <3>1
  <2>4. Sum(f, T) = f[x] + Sum(f, T \ {x})
    BY <2>1, SumOne
  <2>5. Sum(g, To(T)) = g[h[x]] + Sum(g, To(T) \ {h[x]})
    <3> HIDE DEF To
    <3> QED BY <2>2, <2>3, SumOne
  <2>6. Sum(g, To(T \ {x})) = Sum(f, T \ {x})
    BY <1>2
  <2>7. g[h[x]] = f[x]
    OBVIOUS
  <2>8. Sum(g, To(T)) = Sum(f, T)
    <3> HIDE DEF To, P
    <3> QED BY <2>2, <2>4, <2>5, <2>6, <2>7
  <2> HIDE DEF To
  <2> QED BY <2>8
<1>3. SUBSET S \subseteq P
  <2> HIDE DEF P
  <2> QED BY <1>1, <1>2, BySize
<1>4. S \in P
  <2> HIDE DEF P
  <2> QED BY <1>3
<1> QED BY <1>4

\* A sum of multiples is a multiple.
Multiple(n, q) == \E m \in Nat : n = q * m

LEMMA SumMultiple ==
  ASSUME NEW f, NEW S, IsFiniteSet(S), NEW q \in Nat, \A x \in S : Multiple(f[x], q)
  PROVE  Multiple(Sum(f, S), q)
<1> DEFINE P == {T \in SUBSET S : Multiple(Sum(f, T), q)}
<1>1. {} \in P
  <2>1. 0 = q * 0
    OBVIOUS
  <2> QED BY <2>1, SumNothing DEF Multiple
<1>2. ASSUME NEW T \in SUBSET S, T # {}, \A x \in T : T \ {x} \in P PROVE T \in P
  <2>1. Some(T) \in T /\ IsFiniteSet(T)
    BY <1>2, SomeIn, FS_Subset
  <2>2. Sum(f, T) = f[Some(T)] + Sum(f, T \ {Some(T)})
    BY <1>2, <2>1, SumSome
  <2>3. PICK m \in Nat : f[Some(T)] = q * m
    BY <2>1 DEF Multiple
  <2>4. PICK n \in Nat : Sum(f, T \ {Some(T)}) = q * n
    BY <1>2, <2>1 DEF Multiple
  <2>5. q * m + q * n = q * (m + n) /\ m + n \in Nat
    OBVIOUS
  <2>6. Multiple(Sum(f, T), q)
    BY <2>2, <2>3, <2>4, <2>5 DEF Multiple
  <2> QED BY <2>6
<1>3. SUBSET S \subseteq P
  <2> HIDE DEF P
  <2> QED BY <1>1, <1>2, BySize
<1> QED BY <1>3
-----------------------------------------------------------------------------
(***************************************************************************)
(* Entries of the code book                                                *)
(***************************************************************************)
LEMMA ShareSpec ==
  /\ MaxDepth \in Nat \ {0}
  /\ Share[0] = 1
  /\ \A b \in 0 .. MaxDepth : Share[b] \in Nat /\ Share[b] > 0
  /\ \A b \in 1 .. MaxDepth : Share[b] = 2 * Share[b - 1]
<1>1. MaxDepth \in Nat \ {0}
  BY HuffmanAssumption
<1> DEFINE t == CHOOSE f : Doubles(f, MaxDepth)
<1>2. Doubles(t, MaxDepth)
  BY <1>1, DoublesExist
<1>3. Share = t
  BY DEF Share, Doubles
<1> HIDE DEF t
<1> QED BY <1>1, <1>2, <1>3, DoublesSpec

\* What begins with a code is as often there as what begins with a longer one.
LEMMA ShareMultiple ==
  ASSUME NEW b \in 0 .. MaxDepth, NEW c \in 0 .. b
  PROVE  Multiple(Share[b], Share[c])
<1> DEFINE K == {n \in 0 .. b : n >= c => Multiple(Share[n], Share[c])}
<1>0. MaxDepth \in Nat
  BY ShareSpec
<1>1. 0 \in K
  <2>1. 0 >= c => c = 0 /\ Share[0] = 1 /\ 1 = 1 * 1
    BY ShareSpec
  <2> QED BY <2>1 DEF Multiple
<1>2. ASSUME NEW n \in 0 .. b, n < b, n \in K PROVE n + 1 \in K
  <2>1. n + 1 \in 1 .. MaxDepth /\ n + 1 \in 0 .. b /\ (n + 1) - 1 = n /\ n \in 0 .. MaxDepth
    BY <1>0, <1>2
  <2>2. PICK s \in Nat, q \in Nat : s = Share[n] /\ q = Share[c]
    BY <1>0, <2>1, ShareSpec
  <2>3. Share[n + 1] = 2 * s
    BY <2>1, <2>2, ShareSpec
  <2>4. CASE n >= c
    <3>1. PICK m \in Nat : s = q * m
      BY <1>2, <2>2, <2>4 DEF Multiple
    <3>2. 2 * s = q * (2 * m) /\ 2 * m \in Nat
      BY <3>1
    <3> QED BY <2>1, <2>2, <2>3, <3>2 DEF Multiple
  <2>5. CASE n + 1 = c
    <3>1. Share[n + 1] = q /\ q = q * 1
      BY <2>2, <2>5
    <3> QED BY <2>1, <2>2, <3>1 DEF Multiple
  <2>6. CASE n + 1 < c
    BY <2>1, <2>6
  <2> QED BY <2>4, <2>5, <2>6
<1> HIDE DEF K
<1>3. b \in K
  <2>1. 0 .. b \subseteq K
    BY <1>0, <1>1, <1>2, FromBelow
  <2> QED BY <1>0, <2>1
<1> QED BY <1>0, <1>3 DEF K

-----------------------------------------------------------------------------
(***************************************************************************)
(* Two of the longest codes for the two that are lightest                  *)
(***************************************************************************)
\* What codes of these lengths take of the code book, and what they cost for these weights.
Claimed(len, R) == Sum([r \in R |-> Share[MaxDepth - len[r]]], R)
Cost(w, len, R) == Sum([r \in R |-> w[r] * len[r]], R)

Lengths(R) == [R -> 0 .. MaxDepth]
Fits(len, R) == Claimed(len, R) <= Share[MaxDepth]

\* What a code of each length takes of the code book is a number.
LEMMA ShareOf ==
  \A n \in 0 .. MaxDepth : /\ MaxDepth - n \in 0 .. MaxDepth
                           /\ Share[MaxDepth - n] \in Nat /\ Share[MaxDepth - n] > 0
<1> SUFFICES ASSUME NEW n \in 0 .. MaxDepth
             PROVE  MaxDepth - n \in 0 .. MaxDepth
  BY ShareSpec
<1> QED BY ShareSpec

\* What is claimed and what is paid depends on the values of the functions only.
LEMMA Alike ==
  ASSUME NEW R, NEW v, NEW w, NEW d, NEW e, \A r \in R : d[r] = e[r] /\ v[r] = w[r]
  PROVE  Claimed(d, R) = Claimed(e, R) /\ Cost(v, d, R) = Cost(w, e, R)
<1>1. /\ [r \in R |-> Share[MaxDepth - d[r]]] = [r \in R |-> Share[MaxDepth - e[r]]]
      /\ [r \in R |-> v[r] * d[r]] = [r \in R |-> w[r] * e[r]]
  OBVIOUS
<1> QED BY <1>1 DEF Claimed, Cost

\* Three facts about products, which are cited rather than found again.
LEMMA OneMore == \A i, m \in Nat : i * (m + 1) = i * m + i
  OBVIOUS

LEMMA Both == \A i, j, m \in Nat : (i + j) * m = i * m + j * m
  OBVIOUS

LEMMA Products == \A i, j \in Nat : i * j \in Nat
  OBVIOUS

\* Finitely many that have weights w and codes of lengths d.
Sized(w, d, R) == IsFiniteSet(R) /\ \A r \in R : w[r] \in Nat /\ d[r] \in 0 .. MaxDepth

LEMMA SizedPart == \A w, d, R : Sized(w, d, R) => \A S \in SUBSET R : Sized(w, d, S)
  BY FS_Subset DEF Sized

\* One of them is taken out.
LEMMA TakenOut ==
  ASSUME NEW R, NEW w, NEW d, Sized(w, d, R)
  PROVE  /\ Claimed(d, R) \in Nat /\ Cost(w, d, R) \in Nat
         /\ \A x \in R : /\ Claimed(d, R) = Share[MaxDepth - d[x]] + Claimed(d, R \ {x})
                         /\ Cost(w, d, R) = w[x] * d[x] + Cost(w, d, R \ {x})
                         /\ Claimed(d, R \ {x}) \in Nat /\ Cost(w, d, R \ {x}) \in Nat
<1> DEFINE f == [r \in R |-> Share[MaxDepth - d[r]]]
           g == [r \in R |-> w[r] * d[r]]
<1>0. IsFiniteSet(R) /\ \A r \in R : w[r] \in Nat /\ d[r] \in 0 .. MaxDepth
  BY DEF Sized
<1>1. \A r \in R : f[r] \in Nat /\ g[r] \in Nat
  <2>1. \A r \in R : d[r] \in Nat
    BY <1>0, ShareSpec
  <2> QED BY <1>0, <2>1, ShareOf, Products
<1>2. ASSUME NEW x \in R
      PROVE  Claimed(d, R \ {x}) = Sum(f, R \ {x}) /\ Cost(w, d, R \ {x}) = Sum(g, R \ {x})
  <2> DEFINE S == R \ {x}
             fx == [r \in S |-> Share[MaxDepth - d[r]]]
             gx == [r \in S |-> w[r] * d[r]]
  <2>1. IsFiniteSet(S)
    BY <1>0, FS_Subset
  <2>2. \A r \in S : fx[r] = f[r] /\ gx[r] = g[r]
    OBVIOUS
  <2>3. Claimed(d, S) = Sum(fx, S) /\ Cost(w, d, S) = Sum(gx, S)
    BY DEF Claimed, Cost
  <2>4. Sum(fx, S) = Sum(f, S) /\ Sum(gx, S) = Sum(g, S)
    <3> HIDE DEF f, g, fx, gx, S
    <3> QED BY <2>1, <2>2, SumSame
  <2> QED BY <2>3, <2>4
<1>3. Claimed(d, R) = Sum(f, R) /\ Cost(w, d, R) = Sum(g, R)
  BY DEF Claimed, Cost
<1>4. /\ Sum(f, R) \in Nat /\ \A x \in R : Sum(f, R) = f[x] + Sum(f, R \ {x})
      /\ Sum(g, R) \in Nat /\ \A x \in R : Sum(g, R) = g[x] + Sum(g, R \ {x})
  <2> HIDE DEF f, g
  <2> QED BY <1>0, <1>1, SumOne
<1>5. ASSUME NEW x \in R PROVE Sum(f, R \ {x}) \in Nat /\ Sum(g, R \ {x}) \in Nat
  <2>1. IsFiniteSet(R \ {x})
    BY <1>0, FS_Subset
  <2>2. \A r \in R \ {x} : f[r] \in Nat /\ g[r] \in Nat
    BY <1>1
  <2> HIDE DEF f, g
  <2> QED BY <2>1, <2>2, SumOne
<1>6. \A x \in R : f[x] = Share[MaxDepth - d[x]] /\ g[x] = w[x] * d[x]
  OBVIOUS
<1> HIDE DEF f, g
<1> QED BY <1>2, <1>3, <1>4, <1>5, <1>6

LEMMA ClaimedOut ==
  ASSUME NEW R, NEW w, NEW d, Sized(w, d, R), NEW x \in R
  PROVE  Claimed(d, R) = Share[MaxDepth - d[x]] + Claimed(d, R \ {x}) /\ Claimed(d, R \ {x}) \in Nat
  BY TakenOut

\* The lighter of two weights is better paid for the longer of two codes.
LEMMA Crosswise ==
  ASSUME NEW v \in Nat, NEW w \in Nat, v <= w, NEW m \in Nat, NEW n \in Nat, m <= n
  PROVE  v * n + w * m <= v * m + w * n
<1> PICK i \in Nat, j \in Nat : w = v + i /\ n = m + j
  <2>1. w - v \in Nat /\ w = v + (w - v) /\ n - m \in Nat /\ n = m + (n - m)
    OBVIOUS
  <2> QED BY <2>1
<1>1. w * m = v * m + i * m /\ v * n = v * m + v * j
  OBVIOUS
<1>2. w * n = v * m + v * j + i * m + i * j
  OBVIOUS
<1>3. i * j \in Nat /\ v * m \in Nat /\ i * m \in Nat /\ v * j \in Nat
  BY Products
<1> QED BY <1>1, <1>2, <1>3

\* The lighter one of two may have the longer code.
LEMMA Swapped ==
  ASSUME NEW R, NEW w, NEW d \in Lengths(R), Sized(w, d, R), Fits(d, R),
         NEW x \in R, NEW y \in R, w[x] <= w[y], d[x] <= d[y]
  PROVE  \E e \in Lengths(R) : /\ Sized(w, e, R) /\ Fits(e, R) /\ Cost(w, e, R) <= Cost(w, d, R)
                               /\ e[x] = d[y] /\ e[y] = d[x]
                               /\ \A r \in R \ {x, y} : e[r] = d[r]
<1>0. IsFiniteSet(R) /\ \A r \in R : w[r] \in Nat /\ d[r] \in 0 .. MaxDepth
  BY DEF Sized
<1>1. CASE x = y
  <2>1. Cost(w, d, R) \in Nat
    BY TakenOut
  <2> QED BY <1>1, <2>1
<1>2. CASE x # y
  <2> DEFINE e == [r \in R |-> IF r = x THEN d[y] ELSE IF r = y THEN d[x] ELSE d[r]]
             S == R \ {x, y}
  <2>1. /\ e \in Lengths(R) /\ e[x] = d[y] /\ e[y] = d[x] /\ \A r \in S : e[r] = d[r]
        /\ Sized(w, e, R)
    BY <1>0, <1>2 DEF Lengths, Sized
  <2> HIDE DEF e
  <2>2. Claimed(e, S) = Claimed(d, S) /\ Cost(w, e, S) = Cost(w, d, S)
    BY <2>1, Alike
  <2>3. /\ IsFiniteSet(R \ {x}) /\ y \in R \ {x} /\ (R \ {x}) \ {y} = S
        /\ Sized(w, d, R \ {x}) /\ Sized(w, e, R \ {x})
    BY <1>0, <1>2, <2>1, FS_Subset, SizedPart
  <2> HIDE DEF S
  <2>4. /\ Claimed(d, R) = Share[MaxDepth - d[x]] + (Share[MaxDepth - d[y]] + Claimed(d, S))
        /\ Cost(w, d, R) = w[x] * d[x] + (w[y] * d[y] + Cost(w, d, S))
        /\ Claimed(d, S) \in Nat /\ Cost(w, d, S) \in Nat
    <3>1. /\ Claimed(d, R) = Share[MaxDepth - d[x]] + Claimed(d, R \ {x})
          /\ Cost(w, d, R) = w[x] * d[x] + Cost(w, d, R \ {x})
      BY TakenOut
    <3>2. /\ Claimed(d, R \ {x}) = Share[MaxDepth - d[y]] + Claimed(d, S)
          /\ Cost(w, d, R \ {x}) = w[y] * d[y] + Cost(w, d, S)
          /\ Claimed(d, S) \in Nat /\ Cost(w, d, S) \in Nat
      BY <2>3, TakenOut
    <3> QED BY <3>1, <3>2
  <2>5. /\ Claimed(e, R) = Share[MaxDepth - d[y]] + (Share[MaxDepth - d[x]] + Claimed(d, S))
        /\ Cost(w, e, R) = w[x] * d[y] + (w[y] * d[x] + Cost(w, d, S))
    <3>1. /\ Claimed(e, R) = Share[MaxDepth - e[x]] + Claimed(e, R \ {x})
          /\ Cost(w, e, R) = w[x] * e[x] + Cost(w, e, R \ {x})
      BY <2>1, TakenOut
    <3>2. /\ Claimed(e, R \ {x}) = Share[MaxDepth - e[y]] + Claimed(e, S)
          /\ Cost(w, e, R \ {x}) = w[y] * e[y] + Cost(w, e, S)
      BY <2>1, <2>3, TakenOut
    <3> QED BY <2>1, <2>2, <3>1, <3>2
  <2>6. Share[MaxDepth - d[x]] \in Nat /\ Share[MaxDepth - d[y]] \in Nat
    BY <1>0, ShareOf
  <2>7. Claimed(e, R) = Claimed(d, R)
    BY <2>4, <2>5, <2>6
  <2>8. d[x] \in Nat /\ d[y] \in Nat /\ w[x] \in Nat /\ w[y] \in Nat
    BY <1>0, ShareSpec
  <2>9. w[x] * d[y] + w[y] * d[x] <= w[x] * d[x] + w[y] * d[y]
    BY <2>8, Crosswise
  <2>10. Cost(w, e, R) <= Cost(w, d, R)
    <3> PICK i \in Nat, j \in Nat, k \in Nat, l \in Nat, c \in Nat :
               /\ i = w[x] * d[y] /\ j = w[y] * d[x] /\ k = w[x] * d[x] /\ l = w[y] * d[y]
               /\ c = Cost(w, d, S)
      BY <2>4, <2>8, Products
    <3>1. i + j <= k + l
      BY <2>9
    <3>2. i + (j + c) <= k + (l + c)
      BY <3>1
    <3> QED BY <2>4, <2>5, <3>2
  <2>11. Fits(e, R)
    BY <2>7 DEF Fits
  <2> QED BY <2>1, <2>10, <2>11 DEF S
<1> QED BY <1>1, <1>2

\* Some code is the longest.
LEMMA Longest ==
  ASSUME NEW R, R # {}, NEW d, \A r \in R : d[r] \in 0 .. MaxDepth
  PROVE  \E x \in R : \A r \in R : d[r] <= d[x]
<1> DEFINE D == {d[r] : r \in R}
<1>1. D \subseteq 0 .. MaxDepth /\ D # {} /\ MaxDepth \in Nat
  BY ShareSpec
<1>2. PICK m \in D : \A n \in D : n <= m
  <2> HIDE DEF D
  <2> QED BY <1>1, NatGreatest
<1> QED BY <1>2

\* A code may be as short as the longest one of the others, when all others are that short.
LEMMA Shortened ==
  ASSUME NEW R, NEW w, NEW d \in Lengths(R), Sized(w, d, R), Fits(d, R),
         NEW a \in R, NEW m \in 0 .. MaxDepth, m <= d[a], \A r \in R \ {a} : d[r] <= m
  PROVE  \E e \in Lengths(R) : /\ Sized(w, e, R) /\ Fits(e, R) /\ Cost(w, e, R) <= Cost(w, d, R)
                               /\ e[a] = m /\ \A r \in R \ {a} : e[r] = d[r]
<1>0. IsFiniteSet(R) /\ \A r \in R : w[r] \in Nat /\ d[r] \in 0 .. MaxDepth
  BY DEF Sized
<1> DEFINE S == R \ {a}
           e == [r \in R |-> IF r = a THEN m ELSE d[r]]
<1>1. e \in Lengths(R) /\ Sized(w, e, R) /\ e[a] = m /\ \A r \in S : e[r] = d[r]
  BY <1>0 DEF Lengths, Sized
<1> HIDE DEF e
<1>2. Claimed(e, S) = Claimed(d, S) /\ Cost(w, e, S) = Cost(w, d, S)
  BY <1>1, Alike
<1>3. /\ Claimed(d, R) = Share[MaxDepth - d[a]] + Claimed(d, S)
      /\ Cost(w, d, R) = w[a] * d[a] + Cost(w, d, S)
      /\ Claimed(d, S) \in Nat /\ Cost(w, d, S) \in Nat
  BY TakenOut
<1>4. /\ Claimed(e, R) = Share[MaxDepth - m] + Claimed(d, S)
      /\ Cost(w, e, R) = w[a] * m + Cost(w, d, S)
  BY <1>1, <1>2, TakenOut
<1> PICK q \in Nat : q = Share[MaxDepth - m]
  BY ShareOf
<1>5. Multiple(Claimed(d, S), q)
  <2> DEFINE f == [r \in S |-> Share[MaxDepth - d[r]]]
  <2>1. ASSUME NEW r \in S PROVE Multiple(f[r], q)
    <3>1. d[r] \in 0 .. MaxDepth /\ d[r] <= m
      BY <1>0
    <3>2. MaxDepth - d[r] \in 0 .. MaxDepth /\ MaxDepth - m \in 0 .. MaxDepth - d[r]
      BY <3>1, ShareSpec
    <3>3. Multiple(Share[MaxDepth - d[r]], q)
      BY <3>2, ShareMultiple
    <3> QED BY <3>3
  <2>2. IsFiniteSet(S)
    BY <1>0, FS_Subset
  <2>3. Claimed(d, S) = Sum(f, S)
    BY DEF Claimed
  <2> HIDE DEF f, S
  <2> QED BY <2>1, <2>2, <2>3, SumMultiple
<1>6. PICK s \in Nat, t \in Nat : Claimed(d, S) = q * s /\ Share[MaxDepth] = q * t
  <2>1. MaxDepth \in 0 .. MaxDepth /\ MaxDepth - m \in 0 .. MaxDepth
    BY ShareSpec
  <2>2. Multiple(Share[MaxDepth], q)
    BY <2>1, ShareMultiple
  <2> QED BY <1>5, <2>2 DEF Multiple
<1>7. q * s < q * t
  <2>1. Share[MaxDepth - d[a]] \in Nat /\ Share[MaxDepth - d[a]] > 0
    BY <1>0, ShareOf
  <2>2. q * s \in Nat /\ q * t \in Nat
    BY Products
  <2>3. Share[MaxDepth - d[a]] + q * s <= q * t
    BY <1>3, <1>6 DEF Fits
  <2> QED BY <2>1, <2>2, <2>3
<1>8. q + q * s <= q * t
  <2>1. s < t
    <3>1. CASE t <= s
      <4>1. PICK i \in Nat : s = t + i
        <5>1. s - t \in Nat /\ s = t + (s - t)
          BY <3>1
        <5> QED BY <5>1
      <4>2. q * s = q * t + q * i /\ q * i \in Nat /\ q * t \in Nat
        BY <4>1, Products
      <4> QED BY <1>7, <4>2
    <3> QED BY <3>1
  <2>2. PICK i \in Nat : t = s + 1 + i
    <3>1. t - s - 1 \in Nat /\ t = s + 1 + (t - s - 1)
      BY <2>1
    <3> QED BY <3>1
  <2>3. q * t = q * s + q + q * i /\ q * i \in Nat /\ q * s \in Nat
    BY <2>2, Products
  <2> QED BY <2>3
<1>9. Fits(e, R)
  BY <1>4, <1>6, <1>8 DEF Fits
<1>10. Cost(w, e, R) <= Cost(w, d, R)
  <2>1. d[a] \in Nat /\ m \in Nat /\ w[a] \in Nat
    BY <1>0, ShareSpec
  <2>2. PICK i \in Nat : d[a] = m + i
    <3>1. d[a] - m \in Nat /\ d[a] = m + (d[a] - m)
      BY <2>1
    <3> QED BY <3>1
  <2>3. w[a] * d[a] = w[a] * m + w[a] * i /\ w[a] * i \in Nat /\ w[a] * m \in Nat
    BY <2>1, <2>2, Products
  <2> QED BY <1>3, <1>4, <2>3
<1> QED BY <1>1, <1>9, <1>10

\* The two lightest have codes of the same length in a code that costs no more.
LEMMA Evened ==
  ASSUME NEW R, NEW w, NEW d \in Lengths(R), Sized(w, d, R), Fits(d, R),
         NEW a \in R, NEW b \in R \ {a},
         \A r \in R : w[a] <= w[r], \A r \in R \ {a} : w[b] <= w[r]
  PROVE  \E e \in Lengths(R) : /\ Sized(w, e, R) /\ Fits(e, R) /\ Cost(w, e, R) <= Cost(w, d, R)
                               /\ e[a] = e[b] /\ e[b] >= 1
<1>0. MaxDepth \in Nat /\ MaxDepth \in 0 .. MaxDepth
  BY ShareSpec
<1>1. PICK x \in R : \A r \in R : d[r] <= d[x]
  <2>1. \A r \in R : d[r] \in 0 .. MaxDepth
    BY DEF Sized
  <2> QED BY <2>1, Longest
<1>2. PICK e \in Lengths(R) : /\ Sized(w, e, R) /\ Fits(e, R) /\ Cost(w, e, R) <= Cost(w, d, R)
                              /\ e[a] = d[x] /\ e[x] = d[a] /\ \A r \in R \ {a, x} : e[r] = d[r]
  BY <1>1, Swapped
<1>3. \A r \in R : e[r] <= e[a]
  <2>1. \A r \in R : e[r] = d[r] \/ e[r] = d[a] \/ e[r] = d[x]
    BY <1>2
  <2> QED BY <1>1, <1>2, <2>1
<1>4. PICK y \in R \ {a} : \A r \in R \ {a} : e[r] <= e[y]
  <2>1. \A r \in R \ {a} : e[r] \in 0 .. MaxDepth
    BY <1>2 DEF Sized
  <2> QED BY <2>1, Longest
<1>5. PICK g \in Lengths(R) : /\ Sized(w, g, R) /\ Fits(g, R) /\ Cost(w, g, R) <= Cost(w, e, R)
                              /\ g[b] = e[y] /\ g[y] = e[b] /\ \A r \in R \ {b, y} : g[r] = e[r]
  BY <1>2, <1>4, Swapped
<1>6. g[b] \in 0 .. MaxDepth /\ g[b] <= g[a] /\ \A r \in R \ {a} : g[r] <= g[b]
  <2>1. g[a] = e[a] /\ \A r \in R \ {a} : g[r] = e[r] \/ g[r] = e[b] \/ g[r] = e[y]
    BY <1>4, <1>5
  <2>2. g[b] \in 0 .. MaxDepth
    BY <1>5 DEF Sized
  <2> QED BY <1>3, <1>4, <1>5, <2>1, <2>2
<1> PICK m \in 0 .. MaxDepth : m = g[b]
  BY <1>6
<1>7. PICK h \in Lengths(R) : /\ Sized(w, h, R) /\ Fits(h, R) /\ Cost(w, h, R) <= Cost(w, g, R)
                              /\ h[a] = m /\ \A r \in R \ {a} : h[r] = g[r]
  BY <1>5, <1>6, Shortened
<1>8. h[a] = m /\ h[b] = m
  BY <1>7
<1>9. Cost(w, h, R) <= Cost(w, d, R)
  <2>1. Cost(w, h, R) \in Nat /\ Cost(w, g, R) \in Nat /\ Cost(w, e, R) \in Nat /\ Cost(w, d, R) \in Nat
    BY <1>2, <1>5, <1>7, TakenOut
  <2> QED BY <1>2, <1>5, <1>7, <2>1
<1>10. m >= 1
  <2>1. CASE m = 0
    <3>1. /\ Claimed(h, R) = Share[MaxDepth - h[a]] + Claimed(h, R \ {a})
      BY <1>7, TakenOut
    <3>2. /\ Claimed(h, R \ {a}) = Share[MaxDepth - h[b]] + Claimed(h, (R \ {a}) \ {b})
          /\ Claimed(h, (R \ {a}) \ {b}) \in Nat
      <4> PICK S : S = R \ {a}
        OBVIOUS
      <4>1. Sized(w, h, S) /\ b \in S
        BY <1>7, SizedPart
      <4>2. Claimed(h, S) = Share[MaxDepth - h[b]] + Claimed(h, S \ {b}) /\ Claimed(h, S \ {b}) \in Nat
        BY <4>1, ClaimedOut
      <4> QED BY <4>2
    <3>3. MaxDepth - h[a] = MaxDepth /\ MaxDepth - h[b] = MaxDepth
      BY <1>0, <1>8, <2>1
    <3>4. Share[MaxDepth] \in Nat /\ Share[MaxDepth] > 0
      BY <1>0, ShareSpec
    <3>5. Claimed(h, R) <= Share[MaxDepth]
      BY <1>7 DEF Fits
    <3> QED BY <3>1, <3>2, <3>3, <3>4, <3>5
  <2> QED BY <2>1
<1> QED BY <1>7, <1>8, <1>9, <1>10

\* Two with codes of the same length may have a parent c instead; it weighs what they weigh.
Twins(R, w, d, a, b, c, v) ==
  /\ d \in Lengths(R) /\ Sized(w, d, R) /\ Fits(d, R)
  /\ a \in R /\ b \in R \ {a} /\ d[a] = d[b] /\ d[b] >= 1
  /\ c \notin R /\ v[c] = w[a] + w[b] /\ \A r \in R \ {a, b} : v[r] = w[r]

LEMMA Joined ==
  ASSUME NEW R, NEW w, NEW d, NEW a, NEW b, NEW c, NEW v, Twins(R, w, d, a, b, c, v)
  PROVE  LET S == (R \ {a, b}) \cup {c}
         IN  \E e \in Lengths(S) : /\ Sized(v, e, S) /\ Fits(e, S)
                                   /\ Cost(v, e, S) + (w[a] + w[b]) = Cost(w, d, R)
<1> DEFINE T == R \ {a, b}
           S == T \cup {c}
           e == [r \in S |-> IF r = c THEN d[b] - 1 ELSE d[r]]
<1> USE DEF Twins
<1>0. IsFiniteSet(R) /\ \A r \in R : w[r] \in Nat /\ d[r] \in 0 .. MaxDepth
  BY DEF Sized
<1>1. MaxDepth \in Nat /\ d[b] - 1 \in 0 .. MaxDepth /\ d[b] - 1 \in Nat /\ d[b] = (d[b] - 1) + 1
  BY <1>0, ShareSpec
<1> PICK m \in 0 .. MaxDepth : m \in Nat /\ d[b] = m + 1 /\ d[b] - 1 = m
  BY <1>1
<1>2. /\ e \in Lengths(S) /\ e[c] = m /\ \A r \in T : e[r] = d[r]
      /\ \A r \in S : e[r] \in 0 .. MaxDepth
  BY <1>0, <1>1 DEF Lengths
<1>3. Sized(v, e, S)
  <2>1. IsFiniteSet(S)
    <3>1. IsFiniteSet(T)
      BY <1>0, FS_Subset
    <3> QED BY <3>1, FS_AddElement
  <2>2. \A r \in S : v[r] \in Nat
    BY <1>0
  <2> QED BY <1>2, <2>1, <2>2 DEF Sized
<1> HIDE DEF e
<1>4. Claimed(e, T) = Claimed(d, T) /\ Cost(v, e, T) = Cost(w, d, T)
  BY <1>2, Alike
<1>5. /\ Claimed(d, R) = Share[MaxDepth - (m + 1)] + (Share[MaxDepth - (m + 1)] + Claimed(d, T))
      /\ Cost(w, d, R) = w[a] * (m + 1) + (w[b] * (m + 1) + Cost(w, d, T))
      /\ Claimed(d, T) \in Nat /\ Cost(w, d, T) \in Nat
  <2>1. /\ Claimed(d, R) = Share[MaxDepth - d[a]] + Claimed(d, R \ {a})
        /\ Cost(w, d, R) = w[a] * d[a] + Cost(w, d, R \ {a})
    <3>1. Sized(w, d, R) /\ a \in R
      OBVIOUS
    <3> HIDE DEF Twins
    <3> QED BY <3>1, TakenOut
  <2>2. Sized(w, d, R \ {a}) /\ T = (R \ {a}) \ {b}
    BY SizedPart
  <2>3. /\ Claimed(d, R \ {a}) = Share[MaxDepth - d[b]] + Claimed(d, T)
        /\ Cost(w, d, R \ {a}) = w[b] * d[b] + Cost(w, d, T)
        /\ Claimed(d, T) \in Nat /\ Cost(w, d, T) \in Nat
    <3> HIDE DEF T
    <3> QED BY <2>2, TakenOut
  <2> HIDE DEF T
  <2> QED BY <2>1, <2>3
<1>6. /\ Claimed(e, S) = Share[MaxDepth - m] + Claimed(d, T)
      /\ Cost(v, e, S) = (w[a] + w[b]) * m + Cost(w, d, T)
  <2>1. S \ {c} = T /\ c \in S
    OBVIOUS
  <2> HIDE DEF S, T
  <2> QED BY <1>2, <1>3, <1>4, <2>1, TakenOut
<1>7. Claimed(e, S) = Claimed(d, R)
  <2>1. MaxDepth - m \in 1 .. MaxDepth /\ (MaxDepth - m) - 1 = MaxDepth - (m + 1)
    BY <1>0, <1>1, ShareSpec
  <2>2. Share[MaxDepth - m] = 2 * Share[MaxDepth - (m + 1)] /\ Share[MaxDepth - (m + 1)] \in Nat
    <3>1. MaxDepth - (m + 1) \in 0 .. MaxDepth
      BY <1>1, <2>1
    <3> QED BY <2>1, <3>1, ShareSpec
  <2> QED BY <1>5, <1>6, <2>2
<1>8. Cost(v, e, S) + (w[a] + w[b]) = Cost(w, d, R)
  <2>1. w[a] \in Nat /\ w[b] \in Nat
    BY <1>0
  <2>2. /\ w[a] * (m + 1) = w[a] * m + w[a] /\ w[b] * (m + 1) = w[b] * m + w[b]
        /\ (w[a] + w[b]) * m = w[a] * m + w[b] * m
    <3> PICK i \in Nat, j \in Nat : i = w[a] /\ j = w[b]
      BY <2>1
    <3>1. i * (m + 1) = i * m + i /\ j * (m + 1) = j * m + j /\ (i + j) * m = i * m + j * m
      <4>1. m \in Nat
        BY <1>1
      <4>2. i * (m + 1) = i * m + i /\ j * (m + 1) = j * m + j
        BY <4>1, OneMore
      <4>3. (i + j) * m = i * m + j * m
        BY <4>1, Both
      <4> QED BY <4>2, <4>3
    <3> QED BY <3>1
  <2>3. w[a] * m \in Nat /\ w[b] * m \in Nat
    BY <2>1, Products
  <2> QED BY <1>5, <1>6, <2>1, <2>2, <2>3
<1>9. Fits(e, S)
  BY <1>7 DEF Fits
<1> QED BY <1>2, <1>3, <1>8, <1>9

\* Of one alone the sums are what it has.
LEMMA OnlyOneClaims ==
  ASSUME NEW w, NEW d, NEW z, Sized(w, d, {z})
  PROVE  Claimed(d, {z}) = Share[MaxDepth - d[z]]
<1>1. Claimed(d, {z}) = Share[MaxDepth - d[z]] + Claimed(d, {z} \ {z})
  BY TakenOut
<1>2. {z} \ {z} = {} /\ Claimed(d, {}) = 0
  BY SumNothing DEF Claimed
<1>3. Share[MaxDepth - d[z]] \in Nat
  BY ShareOf DEF Sized
<1> QED BY <1>1, <1>2, <1>3

LEMMA OnlyOneCosts ==
  ASSUME NEW w, NEW d, NEW z, Sized(w, d, {z})
  PROVE  Cost(w, d, {z}) = w[z] * d[z]
<1>1. Cost(w, d, {z}) = w[z] * d[z] + Cost(w, d, {z} \ {z})
  BY TakenOut
<1>2. {z} \ {z} = {} /\ Cost(w, d, {}) = 0
  BY SumNothing DEF Cost
<1>3. PICK c \in Nat : c = w[z] * d[z]
  <2>1. w[z] \in Nat /\ d[z] \in Nat
    BY ShareSpec DEF Sized
  <2> QED BY <2>1, Products
<1>4. Cost(w, d, {z}) = c + 0
  BY <1>1, <1>2, <1>3
<1> QED BY <1>3, <1>4

\* One alone may have a parent instead.
LEMMA JoinedAlone ==
  ASSUME NEW a, NEW w, NEW d \in Lengths({a}), Sized(w, d, {a}), d[a] >= 1, NEW c, NEW v, v[c] = w[a]
  PROVE  \E e \in Lengths({c}) : /\ Sized(v, e, {c}) /\ Fits(e, {c})
                                 /\ Cost(v, e, {c}) + w[a] = Cost(w, d, {a})
<1> DEFINE e == [r \in {c} |-> d[a] - 1]
<1>0. w[a] \in Nat /\ d[a] \in 0 .. MaxDepth
  BY DEF Sized
<1>1. MaxDepth \in Nat /\ d[a] - 1 \in 0 .. MaxDepth /\ d[a] - 1 \in Nat /\ d[a] = (d[a] - 1) + 1
  BY <1>0, ShareSpec
<1> PICK m \in 0 .. MaxDepth : m \in Nat /\ d[a] = m + 1 /\ d[a] - 1 = m
  BY <1>1
<1>2. e \in Lengths({c}) /\ e[c] = m /\ Sized(v, e, {c})
  <2>1. IsFiniteSet({c})
    BY FS_Singleton
  <2> QED BY <1>0, <2>1 DEF Lengths, Sized
<1> HIDE DEF e
<1>3. /\ Claimed(e, {c}) = Share[MaxDepth - m] /\ Cost(v, e, {c}) = w[a] * m
      /\ Cost(w, d, {a}) = w[a] * (m + 1)
  <2>1. Claimed(e, {c}) = Share[MaxDepth - e[c]]
    <3>1. Sized(v, e, {c})
      BY <1>2
    <3> QED BY <3>1, OnlyOneClaims
  <2>2. Cost(v, e, {c}) = v[c] * e[c] /\ Cost(w, d, {a}) = w[a] * d[a]
    BY <1>2, OnlyOneCosts
  <2> QED BY <1>2, <2>1, <2>2
<1>4. w[a] * (m + 1) = w[a] * m + w[a]
  <2> PICK n \in Nat : n = w[a]
    BY <1>0
  <2>1. n * (m + 1) = n * m + n
    BY <1>1, OneMore
  <2> QED BY <2>1
<1>5. Fits(e, {c})
  <2>1. MaxDepth \in 0 .. MaxDepth /\ MaxDepth - m \in 0 .. MaxDepth
    BY <1>1, ShareOf
  <2>2. PICK n \in Nat : Share[MaxDepth] = Share[MaxDepth - m] * n
    BY <2>1, ShareMultiple DEF Multiple
  <2>3. Share[MaxDepth - m] \in Nat /\ Share[MaxDepth] > 0 /\ Share[MaxDepth] \in Nat
    BY <2>1, ShareSpec
  <2>4. Share[MaxDepth - m] <= Share[MaxDepth]
    <3> PICK s \in Nat : s = Share[MaxDepth - m]
      BY <2>3
    <3>1. n # 0
      BY <2>2, <2>3
    <3>2. PICK i \in Nat : n = 1 + i
      <4>1. n - 1 \in Nat /\ n = 1 + (n - 1)
        BY <3>1
      <4> QED BY <4>1
    <3>3. s * n = s + s * i /\ s * i \in Nat
      BY <3>2, Products
    <3> QED BY <2>2, <3>3
  <2> QED BY <1>3, <2>4 DEF Fits
<1> QED BY <1>2, <1>3, <1>4, <1>5

-----------------------------------------------------------------------------
(***************************************************************************)
(* No code is better: what is known while the tree is built.  For each     *)
(* code of the symbols that fits the code book there is one of the roots   *)
(* that fits it too and, with what the nodes made so far weigh, costs no   *)
(* more.  It stays so when the two lightest roots are joined, since they   *)
(* may be given codes of one length, as long as any; and those joined are  *)
(* the two lightest because symbols and queue are both sorted, the queue   *)
(* because each new node weighs at least what the last one does.           *)
(***************************************************************************)
Roots == RootsOf(left, queue)
Weights == [r \in Elements \cup {None} |-> Weight(r)]
SymbolWeights == [k \in DOMAIN symbols |-> symbols[k].weight]

\* What the nodes weigh: in the end, the bits of all codes.
NodeWeights == [p \in DOMAIN nodes |-> nodes[p].weight]
Made == Sum(NodeWeights, DOMAIN nodes)

\* The symbols are the words, or some of them, each once, the most frequent first.
SymbolsRight ==
  /\ \A k \in DOMAIN symbols : symbols[k].weight = Freq(symbols[k].word)
  /\ \A j, k \in DOMAIN symbols : symbols[j].word = symbols[k].word => j = k
  /\ \A j, k \in DOMAIN symbols : j <= k => symbols[k].weight <= symbols[j].weight

NodesWeigh ==
  \A p \in DOMAIN nodes : nodes[p].weight = Weights[nodes[p].left] + Weights[nodes[p].right]

\* The nodes wait in the order of their weights, since those joined last were the lightest.
QueueSorted(q) == \A j, k \in DOMAIN q : j <= k => nodes[q[j]].weight <= nodes[q[k]].weight
LastLightest == nodes # <<>> => \A r \in Roots, kid \in Kids(Len(nodes)) : Weights[kid] <= Weights[r]

\* For every code there is one of the roots that with the nodes made is no worse.
Equalled(len) ==
  \E d \in Lengths(Roots) : /\ Sized(Weights, d, Roots) /\ Fits(d, Roots)
                            /\ Cost(Weights, d, Roots) + Made <= Cost(SymbolWeights, len, DOMAIN symbols)
                            /\ nodes = <<>> => \A r \in Roots : d[r] >= 1

NoneBetter ==
  \A len \in [DOMAIN symbols -> 1 .. MaxDepth] : Fits(len, DOMAIN symbols) => Equalled(len)

Best == /\ SymbolsRight /\ NodesWeigh /\ QueueSorted(queue) /\ LastLightest /\ NoneBetter

BestInv == HuffmanInv /\ (stage \in {"building", "coded"} => Best)

\* R is one to one with K, by h, and has the same weights and lengths.
Renamed(h, K, u, len, R, w, d) ==
  /\ R = {h[k] : k \in K}
  /\ \A k \in K : d[h[k]] = len[k] /\ w[h[k]] = u[k]
  /\ \A j, k \in K : h[j] = h[k] => j = k

\* The same codes for what is one to one with K.
LEMMA CodesMoved ==
  ASSUME NEW K, NEW u, NEW len, Sized(u, len, K), NEW h, NEW R, NEW w, NEW d,
         Renamed(h, K, u, len, R, w, d)
  PROVE  Sized(w, d, R) /\ Claimed(d, R) = Claimed(len, K) /\ Cost(w, d, R) = Cost(u, len, K)
<1>0. /\ IsFiniteSet(K) /\ \A k \in K : u[k] \in Nat /\ len[k] \in 0 .. MaxDepth
      /\ R = {h[k] : k \in K}
      /\ \A k \in K : d[h[k]] = len[k] /\ w[h[k]] = u[k]
      /\ \A j, k \in K : h[j] = h[k] => j = k
  BY DEF Sized, Renamed
<1>1. Sized(w, d, R)
  <2>1. IsFiniteSet(R)
    <3> DEFINE g == [k \in K |-> h[k]]
    <3>1. g \in Surjection(K, R)
      BY <1>0 DEF Surjection
    <3> HIDE DEF g
    <3> QED BY <1>0, <3>1, FS_Surjection
  <2> QED BY <1>0, <2>1 DEF Sized
<1>2. Claimed(d, R) = Claimed(len, K)
  <2> DEFINE f == [k \in K |-> Share[MaxDepth - len[k]]]
             g == [r \in R |-> Share[MaxDepth - d[r]]]
  <2>1. \A k \in K : f[k] \in Nat /\ g[h[k]] = f[k]
    BY <1>0, ShareOf
  <2>2. Claimed(d, R) = Sum(g, R) /\ Claimed(len, K) = Sum(f, K)
    BY DEF Claimed
  <2> HIDE DEF f, g
  <2>3. Sum(g, {h[k] : k \in K}) = Sum(f, K)
    BY <1>0, <2>1, SumMoved
  <2> QED BY <1>0, <2>2, <2>3
<1>3. Cost(w, d, R) = Cost(u, len, K)
  <2> DEFINE f == [k \in K |-> u[k] * len[k]]
             g == [r \in R |-> w[r] * d[r]]
  <2>1. \A k \in K : f[k] \in Nat /\ g[h[k]] = f[k]
    <3>1. \A k \in K : len[k] \in Nat
      BY <1>0, ShareSpec
    <3> QED BY <1>0, <3>1, Products
  <2>2. Cost(w, d, R) = Sum(g, R) /\ Cost(u, len, K) = Sum(f, K)
    BY DEF Cost
  <2> HIDE DEF f, g
  <2>3. Sum(g, {h[k] : k \in K}) = Sum(f, K)
    BY <1>0, <2>1, SumMoved
  <2> QED BY <1>0, <2>2, <2>3
<1> QED BY <1>1, <1>2, <1>3

\* What falls from each place to the next one falls from each to all later ones.
LEMMA StepsFall ==
  ASSUME NEW n \in Nat, NEW f, \A k \in 1 .. n : f[k] \in Int,
         \A k \in 1 .. n - 1 : f[k] >= f[k + 1]
  PROVE  \A j, k \in 1 .. n : j <= k => f[k] <= f[j]
<1> DEFINE T == {k \in 0 .. n : \A j \in 1 .. n : j <= k => f[k] <= f[j]}
<1>1. 0 \in T
  OBVIOUS
<1>2. ASSUME NEW k \in 0 .. n, k < n, k \in T PROVE k + 1 \in T
  <2>1. ASSUME NEW j \in 1 .. n, j <= k + 1 PROVE f[k + 1] <= f[j]
    <3>1. CASE j = k + 1
      BY <3>1
    <3>2. CASE j <= k
      <4>1. k \in 1 .. n - 1 /\ k \in 1 .. n /\ k + 1 \in 1 .. n
        BY <1>2, <3>2
      <4>2. f[k] >= f[k + 1] /\ f[k] <= f[j]
        BY <1>2, <3>2, <4>1
      <4>3. f[j] \in Int /\ f[k] \in Int /\ f[k + 1] \in Int
        BY <4>1
      <4> QED BY <4>2, <4>3
    <3> QED BY <2>1, <3>1, <3>2
  <2>2. k + 1 \in 0 .. n
    BY <1>2
  <2> QED BY <2>1, <2>2
<1> HIDE DEF T
<1>3. 0 .. n \subseteq T
  BY <1>1, <1>2, FromBelow
<1>4. \A k \in 1 .. n : k \in T
  BY <1>3
<1> QED BY <1>4 DEF T

\* What symbols and nodes weigh.
LEMMA WeightOf ==
  ASSUME TreeType
  PROVE  /\ \A k \in DOMAIN symbols : Leaf(k) # None /\ Weight(Leaf(k)) = symbols[k].weight
         /\ \A p \in DOMAIN nodes : Weight(Node(p)) = nodes[p].weight
         /\ Weight(None) = 0
<1>1. \A k \in DOMAIN symbols : k # 0
  BY TreeEntries
<1> QED BY <1>1, RefKinds DEF Weight

\* At first the roots are the symbols, and each code of them is its own equal.
LEMMA SortSymbolsBest == HuffmanInv /\ SortSymbols => Best'
<1> SUFFICES ASSUME HuffmanInv, SortSymbols PROVE Best'
  OBVIOUS
<1>1. PICK q \in Orders :
        LET chosen == SubSeq(q, 1, IF Len(q) < CodebookSize THEN Len(q) ELSE CodebookSize)
        IN  /\ symbols' = [k \in DOMAIN chosen |->
                             [word |-> chosen[k], weight |-> Freq(chosen[k])]]
            /\ left' = Len(chosen)
  BY DEF SortSymbols
<1>2. nodes = <<>> /\ nodes' = nodes /\ queue' = queue /\ corpus' = corpus /\ corpus \in Corpora
  BY DEF SortSymbols, HuffmanInv
<1>3. queue = <<>>
  <2>1. queue \in Seq({})
    BY <1>2 DEF HuffmanInv, TreeType
  <2> QED BY <2>1, EmptySeq
<1>4. /\ q \in Seq(Words) /\ Len(q) \in Nat /\ DOMAIN q = 1 .. Len(q)
      /\ \A j, k \in 1 .. Len(q) : q[j] = q[k] => j = k
      /\ \A k \in 1 .. Len(q) - 1 : Freq(q[k]) >= Freq(q[k + 1])
  <2>1. /\ q \in [1 .. Cardinality(Words) -> Words] /\ Cardinality(Words) \in Nat
        /\ \A j, k \in 1 .. Cardinality(Words) : j # k => q[j] # q[k]
    BY <1>2, WordsCount DEF Orders, SetToSeqs
  <2>2. \A k \in 1 .. Len(q) - 1 : Freq(q[k]) >= Freq(q[k + 1])
    BY DEF Orders
  <2>3. q \in Seq(Words) /\ Len(q) = Cardinality(Words) /\ DOMAIN q = 1 .. Len(q)
    BY <2>1
  <2> QED BY <2>1, <2>2, <2>3
<1> DEFINE m == IF Len(q) < CodebookSize THEN Len(q) ELSE CodebookSize
           chosen == SubSeq(q, 1, m)
<1>5. /\ m \in Nat /\ m <= Len(q) /\ DOMAIN chosen = 1 .. m /\ Len(chosen) = m
      /\ \A k \in 1 .. m : chosen[k] = q[k] /\ k \in 1 .. Len(q) /\ q[k] \in Words
  <2>1. Len(q) \in Nat /\ m \in 0 .. Len(q) /\ m \in Nat /\ \A k \in 1 .. m : q[k] \in Words
    BY <1>4, HuffmanAssumption
  <2>2. /\ chosen \in Seq(Words) /\ Len(chosen) = (IF 1 <= m THEN m - 1 + 1 ELSE 0)
        /\ \A k \in 1 .. m - 1 + 1 : chosen[k] = q[1 + k - 1]
    BY <2>1, SubSeqProperties
  <2>3. Len(chosen) = m
    BY <2>1, <2>2
  <2>4. DOMAIN chosen = 1 .. m
    BY <2>2, <2>3, LenProperties
  <2>5. \A k \in 1 .. m : chosen[k] = q[k] /\ k \in 1 .. Len(q)
    BY <2>1, <2>2
  <2> QED BY <2>1, <2>3, <2>4, <2>5
<1>6. /\ DOMAIN symbols' = 1 .. m /\ left' = m
      /\ \A k \in 1 .. m : symbols'[k].word = q[k] /\ symbols'[k].weight = Freq(q[k])
  BY <1>1, <1>5
<1> HIDE DEF chosen, m
<1>7. \A w : Freq(w)' = Freq(w) /\ Freq(w) \in Nat
  <2>1. \A w : Freq(w)' = Freq(w)
    BY <1>2 DEF Freq, Frequency, Places, WordAt, WordPlaces
  <2> QED BY <1>2, <2>1, WordsCount
<1>8. SymbolsRight'
  <2>1. \A k \in DOMAIN symbols' : symbols'[k].weight = Freq(symbols'[k].word)
    BY <1>6
  <2>2. \A j, k \in DOMAIN symbols' : symbols'[j].word = symbols'[k].word => j = k
    BY <1>4, <1>5, <1>6
  <2>3. \A j, k \in DOMAIN symbols' : j <= k => symbols'[k].weight <= symbols'[j].weight
    <3> DEFINE f == [k \in 1 .. Len(q) |-> Freq(q[k])]
    <3>1. \A k \in 1 .. Len(q) : f[k] \in Int
      BY <1>7
    <3>2. \A k \in 1 .. Len(q) - 1 : f[k] >= f[k + 1]
      <4>1. \A k \in 1 .. Len(q) - 1 : k \in 1 .. Len(q) /\ k + 1 \in 1 .. Len(q)
        BY <1>4
      <4> QED BY <1>4, <4>1
    <3>3. \A k \in 1 .. m : k \in 1 .. Len(q) /\ symbols'[k].weight = f[k]
      BY <1>5, <1>6
    <3> HIDE DEF f
    <3>4. \A j, k \in 1 .. Len(q) : j <= k => f[k] <= f[j]
      BY <1>4, <3>1, <3>2, StepsFall
    <3> QED BY <1>6, <3>3, <3>4
  <2>4. (\A k \in DOMAIN symbols : symbols[k].weight = Freq(symbols[k].word))'
    BY <1>2, <2>1 DEF Freq, Frequency, Places, WordAt, WordPlaces
  <2> QED BY <2>2, <2>3, <2>4 DEF SymbolsRight
<1>9. NodesWeigh' /\ QueueSorted(queue)' /\ LastLightest'
  BY <1>2, <1>3 DEF NodesWeigh, QueueSorted, LastLightest
<1>10. Made' = 0
  BY <1>2, SumNothing DEF Made
<1>11. /\ Roots' = {Leaf(k) : k \in 1 .. m} /\ Elements' = Roots'
       /\ \A k \in 1 .. m : Weights'[Leaf(k)] = symbols'[k].weight
  <2>1. Roots' = {Leaf(k) : k \in 1 .. m}
    BY <1>2, <1>3, <1>6 DEF Roots, RootsOf
  <2>2. Elements' = {Leaf(k) : k \in 1 .. m}
    BY <1>2, <1>6 DEF Elements
  <2>3. \A k \in 1 .. m : Weight(Leaf(k))' = symbols'[k].weight
    BY <1>5, RefKinds DEF Weight
  <2> QED BY <2>1, <2>2, <2>3 DEF Weights
<1>12. ASSUME NEW len \in [DOMAIN symbols' -> 1 .. MaxDepth], Fits(len, DOMAIN symbols')
       PROVE  Equalled(len)'
  <2> DEFINE K == 1 .. m
             h == [k \in K |-> Leaf(k)]
             d == [r \in Roots' |-> len[r.at]]
  <2>0. \A x \in 1 .. MaxDepth : x \in 0 .. MaxDepth /\ x >= 1
    BY ShareSpec
  <2>1. \A k \in K : h[k] = Leaf(k) /\ d[h[k]] = len[k] /\ len[k] \in 0 .. MaxDepth /\ len[k] >= 1
    BY <1>6, <1>11, <2>0, RefKinds
  <2>2. \A k \in K : Weights'[h[k]] = SymbolWeights'[k] /\ SymbolWeights'[k] \in Nat
    BY <1>6, <1>7, <1>11 DEF SymbolWeights
  <2>3. \A j, k \in K : h[j] = h[k] => j = k
    BY RefKinds
  <2>4. Roots' = {h[k] : k \in K}
    BY <1>11
  <2>5. Sized(SymbolWeights', len, K)
    <3>1. IsFiniteSet(K)
      BY <1>5, FS_Interval
    <3> QED BY <2>1, <2>2, <3>1 DEF Sized
  <2>6. d \in Lengths(Roots') /\ \A r \in Roots' : d[r] >= 1
    <3>1. ASSUME NEW r \in Roots' PROVE d[r] \in 0 .. MaxDepth /\ d[r] >= 1
      <4> HIDE DEF d, h, K
      <4>1. PICK k \in K : r = h[k]
        BY <2>4
      <4> QED BY <2>1, <4>1
    <3>2. d = [r \in Roots' |-> d[r]]
      OBVIOUS
    <3> HIDE DEF d
    <3> QED BY <3>1, <3>2 DEF Lengths
  <2>7. K = DOMAIN symbols'
    BY <1>6
  <2> HIDE DEF K, h, d
  <2>8. /\ Sized(Weights', d, Roots') /\ Claimed(d, Roots') = Claimed(len, K)
        /\ Cost(Weights', d, Roots') = Cost(SymbolWeights', len, K)
    <3>1. Renamed(h, K, SymbolWeights', len, Roots', Weights', d)
      BY <2>1, <2>2, <2>3, <2>4 DEF Renamed
    <3> QED BY <2>5, <3>1, CodesMoved
  <2>9. Fits(d, Roots')
    BY <1>12, <2>7, <2>8 DEF Fits
  <2>10. Cost(Weights', d, Roots') + Made' <= Cost(SymbolWeights', len, DOMAIN symbols')
    <3>1. Cost(Weights', d, Roots') \in Nat
      BY <2>8, TakenOut
    <3> QED BY <1>10, <2>7, <2>8, <3>1
  <2> QED BY <2>6, <2>8, <2>9, <2>10 DEF Equalled, Fits, Claimed, Cost, Lengths, Sized
<1>13. NoneBetter'
  BY <1>12 DEF NoneBetter, Fits, Claimed, Sum, SumFunctionOnSet, FoldFunctionOnSet, MapThenFoldSet
<1> QED BY <1>8, <1>9, <1>13 DEF Best

\* What is popped is the lightest root; the queue stays sorted.
LEMMA PopLightest ==
  ASSUME TreeType, SymbolsRight, NEW l \in 0 .. Len(symbols),
         NEW q \in Seq(DOMAIN nodes), QueueSorted(q), NEW r, r = PopMinWeight(l, q)
  PROVE  /\ \A s \in RootsOf(l, q) : Weight(r.ref) <= Weight(s)
         /\ QueueSorted(r.queue)
<1>0. /\ l \in Nat /\ Len(symbols) \in Nat /\ DOMAIN symbols = 1 .. Len(symbols)
      /\ \A k \in 1 .. l : k \in DOMAIN symbols
      /\ \A k \in DOMAIN symbols : symbols[k].weight \in Nat
      /\ \A p \in DOMAIN nodes : nodes[p].weight \in Nat
  BY TreeEntries
<1>1. Len(q) \in Nat /\ DOMAIN q = 1 .. Len(q) /\ \A k \in 1 .. Len(q) : q[k] \in DOMAIN nodes
  BY LenProperties, ElementOfSeq
<1>2. q # <<>> => Head(q) = q[1] /\ 1 \in DOMAIN q
  BY HeadTailProperties, EmptySeq, <1>1
<1>3. \A k \in 1 .. l :
        Weight(Leaf(k)) = symbols[k].weight /\ (l > 0 => symbols[l].weight <= symbols[k].weight)
  BY <1>0, WeightOf DEF SymbolsRight
<1>4. \A k \in DOMAIN q : /\ Weight(Node(q[k])) = nodes[q[k]].weight
                          /\ nodes[q[1]].weight <= nodes[q[k]].weight
  <2>1. \A k \in DOMAIN q : 1 \in DOMAIN q /\ 1 <= k
    BY <1>1
  <2> QED BY <1>1, <2>1, WeightOf DEF QueueSorted
<1>5. ASSUME NEW x \in Nat, \A k \in 1 .. l : x <= symbols[k].weight,
             \A k \in DOMAIN q : x <= nodes[q[k]].weight
      PROVE  \A s \in RootsOf(l, q) : x <= Weight(s)
  BY <1>3, <1>4, <1>5 DEF RootsOf
<1>6. CASE q # <<>> /\ r = Popped(Node(Head(q)), l, Tail(q))
           /\ (l = 0 \/ nodes[Head(q)].weight < symbols[l].weight)
  <2>1. r.ref = Node(q[1]) /\ r.queue = Tail(q) /\ q[1] \in DOMAIN nodes
    BY <1>1, <1>2, <1>6 DEF Popped
  <2>2. PICK x \in Nat : x = Weight(r.ref) /\ x = nodes[q[1]].weight
    BY <1>0, <2>1, WeightOf
  <2>3. \A k \in 1 .. l : x <= symbols[k].weight
    <3> SUFFICES ASSUME NEW k \in 1 .. l PROVE x <= symbols[k].weight
      OBVIOUS
    <3>1. l > 0 /\ l \in 1 .. l
      BY <1>0
    <3>2. x < symbols[l].weight /\ symbols[l].weight <= symbols[k].weight
      BY <1>2, <1>3, <1>6, <2>2, <3>1
    <3>3. symbols[l].weight \in Nat /\ symbols[k].weight \in Nat
      BY <1>0, <3>1
    <3> QED BY <3>2, <3>3
  <2>4. \A s \in RootsOf(l, q) : x <= Weight(s)
    BY <1>4, <1>5, <2>2, <2>3
  <2>5. QueueSorted(Tail(q))
    <3>1. /\ Len(Tail(q)) = Len(q) - 1 /\ DOMAIN Tail(q) = 1 .. Len(q) - 1
          /\ \A k \in 1 .. Len(Tail(q)) : Tail(q)[k] = q[k + 1]
      <4>1. /\ Tail(q) \in Seq(DOMAIN nodes) /\ Len(Tail(q)) = Len(q) - 1
            /\ \A k \in 1 .. Len(Tail(q)) : Tail(q)[k] = q[k + 1]
        BY <1>6, HeadTailProperties
      <4> QED BY <4>1, LenProperties
    <3>2. \A j, k \in 1 .. Len(q) - 1 : j <= k => j + 1 \in DOMAIN q /\ k + 1 \in DOMAIN q /\ j + 1 <= k + 1
      BY <1>1
    <3> QED BY <3>1, <3>2 DEF QueueSorted
  <2> QED BY <2>1, <2>2, <2>4, <2>5
<1>7. CASE l > 0 /\ r = Popped(Leaf(l), l - 1, q)
           /\ (q = <<>> \/ nodes[Head(q)].weight >= symbols[l].weight)
  <2>1. r.ref = Leaf(l) /\ r.queue = q /\ l \in 1 .. l
    BY <1>0, <1>7 DEF Popped
  <2>2. PICK x \in Nat : x = Weight(r.ref) /\ x = symbols[l].weight
    BY <1>0, <1>3, <2>1
  <2>3. \A k \in 1 .. l : x <= symbols[k].weight
    BY <1>3, <1>7, <2>2
  <2>4. \A k \in DOMAIN q : x <= nodes[q[k]].weight
    <3> SUFFICES ASSUME NEW k \in DOMAIN q PROVE x <= nodes[q[k]].weight
      OBVIOUS
    <3>1. q # <<>> /\ 1 \in DOMAIN q
      BY <1>1
    <3>2. nodes[q[1]].weight >= x /\ nodes[q[1]].weight <= nodes[q[k]].weight
      BY <1>2, <1>4, <1>7, <2>2, <3>1
    <3>3. nodes[q[1]].weight \in Nat /\ nodes[q[k]].weight \in Nat
      BY <1>0, <1>1, <3>1
    <3> QED BY <3>2, <3>3
  <2> QED BY <1>5, <2>1, <2>2, <2>3, <2>4
<1>8. CASE l = 0 /\ q = <<>> /\ r = Popped(None, l, q)
  <2>1. RootsOf(l, q) = {} /\ r.queue = q
    BY <1>8 DEF RootsOf, Popped
  <2> QED BY <2>1
<1>9. \/ q # <<>> /\ r = Popped(Node(Head(q)), l, Tail(q))
         /\ (l = 0 \/ nodes[Head(q)].weight < symbols[l].weight)
      \/ l > 0 /\ r = Popped(Leaf(l), l - 1, q)
         /\ (q = <<>> \/ nodes[Head(q)].weight >= symbols[l].weight)
      \/ l = 0 /\ q = <<>> /\ r = Popped(None, l, q)
  <2>1. q # <<>> /\ l > 0 => nodes[Head(q)].weight \in Nat /\ symbols[l].weight \in Nat
    BY <1>0, <1>1, <1>2
  <2> QED BY <1>0, <2>1 DEF PopMinWeight
<1> QED BY <1>6, <1>7, <1>8, <1>9

\* Both that are joined are lighter than the roots that stay.
LEMMA TwoLightest ==
  ASSUME HuffmanInv, Best, NEW a, NEW b, Popping(a, b)
  PROVE  /\ \A r \in Roots : Weight(a.ref) <= Weight(r)
         /\ \A r \in Roots \ {a.ref} : Weight(b.ref) <= Weight(r)
         /\ QueueSorted(b.queue)
<1>1. /\ TreeType /\ SymbolsRight /\ QueueSorted(queue)
      /\ left \in 0 .. Len(symbols) /\ Len(symbols) \in Nat /\ queue \in Seq(DOMAIN nodes)
  BY TreeEntries DEF HuffmanInv, Best, TreeType
<1>2. /\ a = PopMinWeight(left, queue) /\ b = PopMinWeight(a.left, a.queue)
      /\ a.left \in 0 .. left /\ a.queue \in Seq(DOMAIN nodes)
      /\ RootsOf(a.left, a.queue) = RootsOf(left, queue) \ {a.ref}
  BY DEF Popping
<1>3. (\A r \in RootsOf(left, queue) : Weight(a.ref) <= Weight(r)) /\ QueueSorted(a.queue)
  BY <1>1, <1>2, PopLightest
<1>4. a.left \in 0 .. Len(symbols)
  BY <1>1, <1>2
<1>5. (\A r \in RootsOf(a.left, a.queue) : Weight(b.ref) <= Weight(r)) /\ QueueSorted(b.queue)
  BY <1>1, <1>2, <1>3, <1>4, PopLightest
<1> QED BY <1>2, <1>3, <1>5 DEF Roots

\* Joining the two lightest keeps an equal of each code: evened out first, then joined.
LEMMA MakeNodeBest == HuffmanInv /\ Best /\ MakeNode => Best'
<1> SUFFICES ASSUME HuffmanInv, Best, MakeNode PROVE Best'
  OBVIOUS
<1>0. PICK a, b, e, N : Popping(a, b) /\ Making(a, b, e, N)
  BY MakeNodeMakes
<1>1. /\ N = Len(nodes) /\ N \in Nat /\ DOMAIN nodes = 1 .. N /\ DOMAIN nodes' = 1 .. N + 1
      /\ nodes'[N + 1] = e /\ \A k \in 1 .. N : nodes'[k] = nodes[k]
      /\ e = [left |-> a.ref, right |-> b.ref, weight |-> Weight(a.ref) + Weight(b.ref)]
      /\ corpus' = corpus /\ symbols' = symbols /\ Len(nodes') = N + 1
  BY TreeEntries, <1>0 DEF Making, HuffmanInv
<1>2. TreeType /\ NodesCounted /\ LastQueued /\ OneParent /\ corpus \in Corpora
  BY DEF HuffmanInv
<1>3. /\ a.ref \in Roots /\ a.ref \in Elements
      /\ b.ref = None \/ (b.ref \in Roots \ {a.ref} /\ b.ref \in Elements)
      /\ Roots \subseteq Elements /\ None \notin Elements
      /\ \A r \in Elements : Weight(r) \in Nat
  <2>1. Roots \subseteq Elements /\ \A r \in Elements : r # None /\ Weight(r) \in Nat
    BY <1>2, RootsIn DEF Roots
  <2> QED BY <1>0, <2>1 DEF Popping, Roots
<1>4. /\ \A r \in Elements \cup {None} : Weights'[r] = Weights[r] /\ Weights[r] = Weight(r)
      /\ Weights[None] = 0 /\ Weights'[Node(N + 1)] = e.weight
      /\ \A r \in Elements \cup {None} : Weights[r] \in Nat
  <2>1. Weight(None)' = 0 /\ Weight(None) = 0
    BY DEF Weight
  <2>2. Weight(Node(N + 1))' = nodes'[N + 1].weight
    BY RefKinds DEF Weight
  <2>3. \A k \in DOMAIN symbols : Weight(Leaf(k))' = Weight(Leaf(k))
    BY <1>1 DEF Weight, Leaf
  <2>4. \A p \in DOMAIN nodes : Weight(Node(p))' = Weight(Node(p))
    BY <1>1, RefKinds DEF Weight
  <2>5. \A r \in Elements \cup {None} : Weight(r)' = Weight(r)
    BY <2>1, <2>3, <2>4 DEF Elements
  <2>6. Elements \subseteq Elements' /\ Node(N + 1) \in Elements'
    BY <1>1 DEF Elements
  <2>7. \A r \in Elements \cup {None} : Weight(r) \in Nat
    BY <1>3, <2>1
  <2> QED BY <1>1, <2>1, <2>2, <2>5, <2>6, <2>7 DEF Weights
<1>5. e.left = a.ref /\ e.right = b.ref /\ e.weight = Weights[a.ref] + Weights[b.ref]
  BY <1>1, <1>3, <1>4
<1>6. /\ \A r \in Roots : Weights[a.ref] <= Weights[r]
      /\ \A r \in Roots \ {a.ref} : Weights[b.ref] <= Weights[r]
      /\ QueueSorted(b.queue)
  BY <1>0, <1>3, <1>4, TwoLightest
<1>7. /\ Roots' = (Roots \ {a.ref, b.ref}) \cup {Node(N + 1)} /\ Node(N + 1) \notin Elements
      /\ Elements' = Elements \cup {Node(N + 1)}
  <2>1. DOMAIN nodes' = DOMAIN nodes \cup {N + 1} /\ N + 1 \notin DOMAIN nodes
    BY <1>1
  <2>2. Roots' = (Roots \ {a.ref, b.ref}) \cup {Node(N + 1)}
    BY <1>0 DEF Making, Roots
  <2> QED BY <1>1, <2>1, <2>2, RefKinds DEF Elements
<1>8. SymbolsRight'
  BY <1>1 DEF Best, SymbolsRight, Freq, Frequency, Places, WordAt, WordPlaces
<1>9. NodesWeigh'
  <2>1. ASSUME NEW p \in 1 .. N
        PROVE  nodes'[p].weight = Weights'[nodes'[p].left] + Weights'[nodes'[p].right]
    <3>1. nodes[p].weight = Weights[nodes[p].left] + Weights[nodes[p].right]
      BY <1>1 DEF Best, NodesWeigh
    <3>2. Kids(p) \subseteq Elements \cup {None}
      BY <1>1, <1>2 DEF OneParent
    <3> QED BY <1>1, <1>4, <3>1, <3>2 DEF Kids
  <2>2. nodes'[N + 1].weight = Weights'[e.left] + Weights'[e.right]
    BY <1>1, <1>3, <1>4, <1>5
  <2> QED BY <1>1, <2>1, <2>2 DEF NodesWeigh
<1>10. QueueSorted(queue)'
  <2> PICK m \in Nat : m = Len(b.queue)
    BY <1>0 DEF Making
  <2>1. /\ DOMAIN queue' = 1 .. m + 1 /\ queue'[m + 1] = N + 1
        /\ \A k \in 1 .. m : queue'[k] = b.queue[k] /\ b.queue[k] \in 1 .. N
    BY <1>0 DEF Making
  <2>2. \A k \in 1 .. m + 1 :
          nodes'[queue'[k]].weight = IF k = m + 1 THEN e.weight ELSE nodes[b.queue[k]].weight
    BY <1>1, <2>1
  <2>3. \A j, k \in 1 .. m : j <= k => nodes[b.queue[j]].weight <= nodes[b.queue[k]].weight
    <3>1. DOMAIN b.queue = 1 .. m
      BY <1>0, LenProperties DEF Popping
    <3> QED BY <1>6, <3>1 DEF QueueSorted
  <2>4. ASSUME NEW k \in 1 .. m PROVE nodes[b.queue[k]].weight <= e.weight
    <3> PICK n \in 1 .. N : n = b.queue[k]
      BY <2>1
    <3>1. b.queue # <<>> /\ Node(n) \in RootsOf(b.left, b.queue)
      <4>1. DOMAIN b.queue = 1 .. m
        BY <1>0, LenProperties DEF Popping
      <4> QED BY <4>1 DEF RootsOf
    <3>2. b.ref \in Roots /\ Node(n) \in Roots
      BY <1>0, <3>1 DEF Popping, Roots
    <3>3. PICK i \in DOMAIN queue : n = queue[i]
      <4>1. PICK i \in DOMAIN queue : Node(n) = Node(queue[i])
        BY <3>2, RefKinds DEF Roots, RootsOf
      <4> QED BY <4>1, RefKinds
    <3>4. nodes # <<>> /\ queue # <<>> /\ queue[Len(queue)] = N
      <4>1. nodes # <<>>
        BY <1>1
      <4> QED BY <1>1, <1>2, <4>1 DEF LastQueued
    <3>5. nodes[n].weight <= nodes[N].weight
      <4>1. i <= Len(queue) /\ Len(queue) \in DOMAIN queue
        BY <1>2, TreeEntries
      <4> QED BY <3>3, <3>4, <4>1 DEF Best, QueueSorted
    <3>6. nodes[N].weight = Weights[nodes[N].left] + Weights[nodes[N].right]
      BY <1>1 DEF Best, NodesWeigh
    <3>7. Weights[nodes[N].left] <= Weights[a.ref] /\ Weights[nodes[N].right] <= Weights[b.ref]
      BY <1>1, <1>3, <3>2, <3>4 DEF Best, LastLightest, Kids
    <3>8. /\ nodes[n].weight \in Nat /\ nodes[N].weight \in Nat
          /\ Weights[nodes[N].left] \in Nat /\ Weights[nodes[N].right] \in Nat
          /\ Weights[a.ref] \in Nat /\ Weights[b.ref] \in Nat
      <4>1. N \in DOMAIN nodes /\ n \in DOMAIN nodes
        BY <1>1
      <4>2. Kids(N) \subseteq Elements \cup {None}
        BY <1>2, <4>1 DEF OneParent
      <4>3. nodes[n].weight \in Nat /\ nodes[N].weight \in Nat
        BY <1>2, <4>1, TreeEntries
      <4> QED BY <1>3, <1>4, <4>2, <4>3 DEF Kids
    <3>9. nodes[n].weight <= e.weight
      <4> PICK u \in Nat, v \in Nat, x \in Nat, y \in Nat :
                 /\ u = Weights[nodes[N].left] /\ v = Weights[nodes[N].right]
                 /\ x = Weights[a.ref] /\ y = Weights[b.ref]
        BY <3>8
      <4> QED BY <1>5, <3>5, <3>6, <3>7, <3>8
    <3> QED BY <3>9
  <2>5. \A j, k \in 1 .. m + 1 : j <= k => nodes'[queue'[j]].weight <= nodes'[queue'[k]].weight
    <3> SUFFICES ASSUME NEW j \in 1 .. m + 1, NEW k \in 1 .. m + 1, j <= k
                 PROVE  nodes'[queue'[j]].weight <= nodes'[queue'[k]].weight
      OBVIOUS
    <3>1. CASE k \in 1 .. m
      BY <2>2, <2>3, <3>1
    <3>2. CASE k = m + 1 /\ j \in 1 .. m
      BY <2>2, <2>4, <3>2
    <3>3. CASE k = m + 1 /\ j = m + 1
      <4>1. e.weight \in Nat
        BY <1>3, <1>4, <1>5
      <4> QED BY <2>2, <3>3, <4>1
    <3> QED BY <3>1, <3>2, <3>3
  <2> QED BY <2>1, <2>5 DEF QueueSorted
<1>11. LastLightest'
  <2>1. Kids(Len(nodes))' = {a.ref, b.ref}
    BY <1>1, <1>5 DEF Kids
  <2>2. \A r \in Roots \ {a.ref, b.ref} : Weights'[a.ref] <= Weights'[r] /\ Weights'[b.ref] <= Weights'[r]
    BY <1>3, <1>4, <1>6
  <2>3. Weights'[a.ref] <= Weights'[Node(N + 1)] /\ Weights'[b.ref] <= Weights'[Node(N + 1)]
    BY <1>3, <1>4, <1>5
  <2> QED BY <1>7, <2>1, <2>2, <2>3 DEF LastLightest
<1>12. Made' = Made + e.weight /\ Made \in Nat
  <2>1. /\ DOMAIN NodeWeights' = 1 .. N + 1 /\ NodeWeights'[N + 1] = e.weight
        /\ \A p \in 1 .. N : NodeWeights'[p] = NodeWeights[p] /\ NodeWeights[p] \in Nat
    <3>1. NodeWeights' = [p \in 1 .. N + 1 |-> nodes'[p].weight]
      BY <1>1 DEF NodeWeights
    <3>2. NodeWeights = [p \in 1 .. N |-> nodes[p].weight]
      BY <1>1 DEF NodeWeights
    <3>3. N + 1 \in 1 .. N + 1 /\ \A p \in 1 .. N : p \in 1 .. N + 1
      BY <1>1
    <3>4. \A p \in 1 .. N : nodes[p].weight \in Nat
      BY <1>1, <1>2, TreeEntries
    <3>5. \A p \in 1 .. N : nodes'[p].weight = nodes[p].weight
      BY <1>1
    <3>6. nodes'[N + 1].weight = e.weight
      BY <1>1
    <3>7. DOMAIN NodeWeights' = 1 .. N + 1 /\ NodeWeights'[N + 1] = e.weight
      BY <3>1, <3>3, <3>6
    <3>8. \A p \in 1 .. N : NodeWeights'[p] = NodeWeights[p] /\ NodeWeights[p] \in Nat
      BY <3>1, <3>2, <3>3, <3>4, <3>5
    <3> QED BY <3>7, <3>8
  <2>2. IsFiniteSet(1 .. N) /\ IsFiniteSet(1 .. N + 1)
    BY <1>1, FS_Interval
  <2>3. \A p \in 1 .. N + 1 : NodeWeights'[p] \in Nat
    BY <1>1, <1>3, <1>4, <1>5, <2>1
  <2>4. (1 .. N + 1) \ {N + 1} = 1 .. N /\ N + 1 \in 1 .. N + 1
    BY <1>1
  <2> PICK f, g, S, T : f = NodeWeights /\ g = NodeWeights' /\ S = 1 .. N /\ T = 1 .. N + 1
    OBVIOUS
  <2>5. Sum(g, T) = g[N + 1] + Sum(g, S)
    <3>1. IsFiniteSet(T) /\ (\A p \in T : g[p] \in Nat) /\ N + 1 \in T /\ T \ {N + 1} = S
      BY <2>2, <2>3, <2>4
    <3>2. \A x \in T : Sum(g, T) = g[x] + Sum(g, T \ {x})
      BY <3>1, SumOne
    <3> QED BY <3>1, <3>2
  <2>6. Sum(g, S) = Sum(f, S) /\ Sum(f, S) \in Nat
    <3>1. IsFiniteSet(S) /\ \A p \in S : g[p] = f[p] /\ f[p] \in Nat
      BY <2>1, <2>2
    <3>2. Sum(g, S) = Sum(f, S)
      BY <3>1, SumSame
    <3>3. Sum(f, S) \in Nat
      BY <3>1, SumOne
    <3> QED BY <3>2, <3>3
  <2>7. e.weight \in Nat
    BY <1>3, <1>4, <1>5
  <2>8. Made = Sum(NodeWeights, 1 .. N) /\ Made' = Sum(NodeWeights', 1 .. N + 1)
    BY <1>1 DEF Made
  <2> QED BY <2>1, <2>5, <2>6, <2>7, <2>8

<1>13. ASSUME NEW len \in [DOMAIN symbols -> 1 .. MaxDepth], Fits(len, DOMAIN symbols)
       PROVE  \E d \in Lengths(Roots') :
                 /\ Sized(Weights', d, Roots') /\ Fits(d, Roots')
                 /\ Cost(Weights', d, Roots') + Made' <= Cost(SymbolWeights, len, DOMAIN symbols)
  <2>1. PICK d \in Lengths(Roots) :
          /\ Sized(Weights, d, Roots) /\ Fits(d, Roots)
          /\ Cost(Weights, d, Roots) + Made <= Cost(SymbolWeights, len, DOMAIN symbols)
          /\ nodes = <<>> => \A r \in Roots : d[r] >= 1
    BY <1>13 DEF Best, NoneBetter, Equalled
  <2>2. Cost(Weights, d, Roots) \in Nat /\ e.weight \in Nat
    BY <1>3, <1>4, <1>5, <2>1, TakenOut
  <2>3. CASE b.ref = None
    <3>1. Roots = {a.ref}
      <4>1. b.left = 0 /\ b.queue = <<>>
        BY <1>0, <1>3, <2>3 DEF Popping, Roots
      <4>2. RootsOf(b.left, b.queue) = {}
        BY <4>1 DEF RootsOf
      <4> QED BY <1>0, <1>3, <2>3, <4>2 DEF Popping, Roots
    <3>2. nodes = <<>>
      <4>1. a.left = 0 /\ a.queue = <<>> /\ a.left + Len(a.queue) + 1 = left + Len(queue)
        BY <1>0, <1>3, <2>3 DEF Popping, Roots
      <4>2. left \in Nat /\ Len(queue) \in Nat /\ Len(a.queue) = 0 /\ (left > 0 \/ Len(queue) > 1)
        BY <1>0, <1>2, <4>1, TreeEntries, EmptySeq DEF Making, TreeType
      <4>3. Len(queue) = 0
        BY <4>1, <4>2
      <4>4. queue = <<>>
        BY <1>2, <4>3, EmptySeq DEF TreeType
      <4> QED BY <1>2, <4>4 DEF LastQueued
    <3>3. d[a.ref] >= 1 /\ Weights'[Node(N + 1)] = Weights[a.ref] /\ Weights[a.ref] \in Nat
      <4>1. e.weight = Weights[a.ref] + 0
        BY <1>4, <1>5, <2>3
      <4> QED BY <1>3, <1>4, <2>1, <3>1, <3>2, <4>1
    <3>4. d \in Lengths({a.ref}) /\ Sized(Weights, d, {a.ref})
      BY <2>1, <3>1
    <3>5. PICK g \in Lengths({Node(N + 1)}) :
            /\ Sized(Weights', g, {Node(N + 1)}) /\ Fits(g, {Node(N + 1)})
            /\ Cost(Weights', g, {Node(N + 1)}) + Weights[a.ref] = Cost(Weights, d, {a.ref})
      BY <3>3, <3>4, JoinedAlone
    <3>6. Roots' = {Node(N + 1)}
      BY <1>7, <3>1
    <3>7. Cost(Weights', g, Roots') \in Nat
      BY <3>5, <3>6, TakenOut
    <3>8. Cost(Weights', g, Roots') + Made' = Cost(Weights, d, Roots) + Made
      <4>1. Made' = Made + Weights[a.ref]
        BY <1>4, <1>12, <3>3
      <4> QED BY <1>12, <3>1, <3>3, <3>5, <3>6, <3>7, <4>1
    <3> QED BY <2>1, <3>5, <3>6, <3>8
  <2>4. CASE b.ref \in Roots \ {a.ref}
    <3>1. PICK g \in Lengths(Roots) :
            /\ Sized(Weights, g, Roots) /\ Fits(g, Roots)
            /\ Cost(Weights, g, Roots) <= Cost(Weights, d, Roots)
            /\ g[a.ref] = g[b.ref] /\ g[b.ref] >= 1
      BY <1>3, <1>6, <2>1, <2>4, Evened
    <3>2. /\ Node(N + 1) \notin Roots /\ Weights'[Node(N + 1)] = Weights[a.ref] + Weights[b.ref]
          /\ \A r \in Roots \ {a.ref, b.ref} : Weights'[r] = Weights[r]
      BY <1>3, <1>4, <1>5, <1>7
    <3>3. PICK h \in Lengths(Roots') :
            /\ Sized(Weights', h, Roots') /\ Fits(h, Roots')
            /\ Cost(Weights', h, Roots') + (Weights[a.ref] + Weights[b.ref]) = Cost(Weights, g, Roots)
      <4>1. LET S == (Roots \ {a.ref, b.ref}) \cup {Node(N + 1)}
            IN  \E h \in Lengths(S) : /\ Sized(Weights', h, S) /\ Fits(h, S)
                                      /\ Cost(Weights', h, S) + (Weights[a.ref] + Weights[b.ref])
                                           = Cost(Weights, g, Roots)
        <5> PICK v, c : v = Weights' /\ c = Node(N + 1)
          OBVIOUS
        <5> PICK R, w, x, y : R = Roots /\ w = Weights /\ x = a.ref /\ y = b.ref
          OBVIOUS
        <5>1. Twins(R, w, g, x, y, c, v)
          BY <1>3, <2>4, <3>1, <3>2 DEF Twins
        <5>2. LET S == (R \ {x, y}) \cup {c}
              IN  \E h \in Lengths(S) : /\ Sized(v, h, S) /\ Fits(h, S)
                                        /\ Cost(v, h, S) + (w[x] + w[y]) = Cost(w, g, R)
          BY <5>1, Joined
        <5> QED BY <5>2
      <4> QED BY <1>7, <4>1
    <3>4. Cost(Weights', h, Roots') \in Nat /\ Cost(Weights, g, Roots) \in Nat
      BY <3>1, <3>3, TakenOut
    <3>5. Cost(Weights', h, Roots') + e.weight = Cost(Weights, g, Roots)
      BY <1>5, <3>3
    <3>6. Cost(Weights', h, Roots') + Made' <= Cost(Weights, d, Roots) + Made
      BY <1>12, <2>2, <3>1, <3>4, <3>5
    <3>7. Cost(SymbolWeights, len, DOMAIN symbols) \in Nat
      <4>1. Sized(SymbolWeights, len, DOMAIN symbols)
        <5>1. IsFiniteSet(DOMAIN symbols)
          BY <1>2, TreeEntries, FS_Interval
        <5>2. \A k \in DOMAIN symbols : len[k] \in 0 .. MaxDepth
          BY ShareSpec
        <5>3. \A k \in DOMAIN symbols : SymbolWeights[k] \in Nat
          BY <1>2, TreeEntries DEF SymbolWeights
        <5> QED BY <5>1, <5>2, <5>3 DEF Sized
      <4> QED BY <4>1, TakenOut
    <3> QED BY <1>12, <2>1, <2>2, <3>3, <3>4, <3>6, <3>7
  <2> QED BY <1>3, <2>3, <2>4
<1>14. NoneBetter'
  <2>1. symbols' = symbols /\ SymbolWeights' = SymbolWeights
    BY <1>1 DEF SymbolWeights
  <2>2. (nodes = <<>>)' = FALSE
    BY <1>1
  <2>3. ASSUME NEW len \in [DOMAIN symbols' -> 1 .. MaxDepth], Fits(len, DOMAIN symbols')
        PROVE  Equalled(len)'
    <3>1. PICK d \in Lengths(Roots') :
                 /\ Sized(Weights', d, Roots') /\ Fits(d, Roots')
                 /\ Cost(Weights', d, Roots') + Made' <= Cost(SymbolWeights', len, DOMAIN symbols')
      BY <1>13, <2>1, <2>3
    <3>2. nodes' # <<>>
      BY <2>2
    <3> QED BY <3>1, <3>2 DEF Equalled, Fits, Claimed, Cost, Lengths, Sized
  <2> QED BY <2>3 DEF NoneBetter, Fits, Claimed, Sum, SumFunctionOnSet, FoldFunctionOnSet, MapThenFoldSet
<1> QED BY <1>8, <1>9, <1>10, <1>11, <1>14 DEF Best

\* What does not touch the tree keeps all of it.
LEMMA BestKept ==
  ASSUME UNCHANGED <<corpus, symbols, left, nodes, queue>>, Best
  PROVE  Best'
<1>1. /\ Roots' = Roots /\ Elements' = Elements /\ symbols' = symbols /\ nodes' = nodes
      /\ queue' = queue /\ corpus' = corpus
  BY DEF Roots, RootsOf, Elements
<1>2. Weights' = Weights /\ SymbolWeights' = SymbolWeights /\ Made' = Made
  BY <1>1 DEF Weights, Weight, SymbolWeights, Made, NodeWeights
<1>3. SymbolsRight'
  BY <1>1 DEF Best, SymbolsRight, Freq, Frequency, Places, WordAt, WordPlaces
<1>4. NodesWeigh' /\ QueueSorted(queue)' /\ LastLightest'
  BY <1>1, <1>2 DEF Best, NodesWeigh, QueueSorted, LastLightest, Kids
<1>5. NoneBetter'
  <2>1. ASSUME NEW len \in [DOMAIN symbols' -> 1 .. MaxDepth], Fits(len, DOMAIN symbols')
        PROVE  Equalled(len)'
    <3>1. PICK d \in Lengths(Roots') :
                 /\ Sized(Weights', d, Roots') /\ Fits(d, Roots')
                 /\ Cost(Weights', d, Roots') + Made' <= Cost(SymbolWeights', len, DOMAIN symbols')
                 /\ nodes' = <<>> => \A r \in Roots' : d[r] >= 1
      BY <1>1, <1>2, <2>1 DEF Best, NoneBetter, Equalled
    <3> QED BY <3>1 DEF Equalled, Fits, Claimed, Cost, Lengths, Sized
  <2> QED BY <2>1 DEF NoneBetter, Fits, Claimed, Sum, SumFunctionOnSet, FoldFunctionOnSet, MapThenFoldSet
<1> QED BY <1>3, <1>4, <1>5 DEF Best

LEMMA BestStep == BestInv /\ [HuffmanNext]_hvars => BestInv'
<1> SUFFICES ASSUME BestInv, [HuffmanNext]_hvars, stage' \in {"building", "coded"} PROVE Best'
  BY HuffmanStep DEF BestInv
<1>1. CASE SortSymbols
  BY <1>1, SortSymbolsBest DEF BestInv
<1>2. CASE MakeNode
  BY <1>2, MakeNodeBest DEF BestInv, MakeNode
<1>3. CASE NoCodemap
  BY <1>3 DEF NoCodemap
<1>4. CASE AllocateCodewords
  BY <1>4, BestKept DEF BestInv, AllocateCodewords
<1>5. CASE UNCHANGED hvars
  BY <1>5, BestKept DEF BestInv, hvars
<1> QED BY <1>1, <1>2, <1>3, <1>4, <1>5 DEF HuffmanNext

-----------------------------------------------------------------------------
(***************************************************************************)
(* What the nodes weigh is what the codes cost                             *)
(***************************************************************************)
\* How deep what the tree is made of lies, and what that costs.
Deep == [r \in Elements |-> IF r = Root THEN 0 ELSE Len(WayTo(r))]
Costs == [r \in Elements |-> Weights[r] * Deep[r]]

\* What lies just below the nodes that came later than node j.
Fringe(j) == {r \in Elements : (r.inner => r.at <= j) /\ (r = Root \/ Parent(r) > j)}

\* What has a parent lies one deeper than it.
LEMMA DeepSpec ==
  ASSUME HasTree
  PROVE  /\ Root \in Elements /\ Deep[Root] = 0 /\ \A r \in Elements : Deep[r] \in Nat
         /\ \A r \in Below : Node(Parent(r)) \in Elements /\ Deep[r] = Deep[Node(Parent(r))] + 1
<1>1. Len(nodes) \in Nat \ {0} /\ DOMAIN nodes = 1 .. Len(nodes)
  BY CodedTree
<1>2. Root \in Elements /\ Deep[Root] = 0
  <2>1. Root \in Elements
    BY <1>1 DEF Root, Elements
  <2> QED BY <2>1 DEF Deep
<1>3. ASSUME NEW k \in DOMAIN nodes
      PROVE  Node(k) \in Elements /\ Deep[Node(k)] = Len(Ways[k]) /\ Deep[Node(k)] \in Nat
  <2>1. Node(k) \in Elements
    BY DEF Elements
  <2>2. Len(Ways[k]) \in Nat
    BY WaysBits, LenProperties
  <2>3. CASE k = Len(nodes)
    <3>1. Ways[k] = <<>> /\ Node(k) = Root
      BY <2>3, WaysBits DEF Root
    <3> QED BY <1>2, <2>1, <3>1
  <2>4. CASE k # Len(nodes)
    <3>1. Ways[k] = WayTo(Node(k)) /\ Node(k) # Root
      BY <2>4, WaysBits, RefKinds DEF Root
    <3> QED BY <2>1, <2>2, <3>1 DEF Deep
  <2> QED BY <2>1, <2>2, <2>3, <2>4
<1>4. ASSUME NEW r \in Below
      PROVE  Node(Parent(r)) \in Elements /\ Deep[r] = Deep[Node(Parent(r))] + 1
  <2>1. Parent(r) \in DOMAIN nodes /\ Turn(r) \in Bit /\ Ways[Parent(r)] \in Seq(Bit)
    BY ParentSpec, WaysBits
  <2>2. Len(WayTo(r)) = Len(Ways[Parent(r)]) + 1
    BY <2>1, AppendProperties DEF WayTo
  <2>3. Deep[r] = Len(WayTo(r))
    BY DEF Deep, Below
  <2> QED BY <1>3, <2>1, <2>2, <2>3
<1>5. ASSUME NEW r \in Elements PROVE Deep[r] \in Nat
  <2>1. CASE r = Root
    BY <1>2, <2>1
  <2>2. CASE r # Root
    <3>1. r \in Below /\ Parent(r) \in DOMAIN nodes
      BY <2>2, ParentSpec DEF Below
    <3> QED BY <1>3, <1>4, <3>1
  <2> QED BY <2>1, <2>2
<1> QED BY <1>2, <1>4, <1>5

\* All of that are numbers, finitely many.
LEMMA CostsSpec ==
  ASSUME HasTree
  PROVE  /\ IsFiniteSet(Elements) /\ \A r \in Elements : Costs[r] \in Nat /\ Weights[r] \in Nat
         /\ \A p \in DOMAIN nodes : Weights[Node(p)] = nodes[p].weight
         /\ Weights[None] = 0
<1>1. TreeType
  BY DEF HasTree, HuffmanInv
<1>2. IsFiniteSet(Elements)
  <2> DEFINE f == [k \in DOMAIN symbols |-> Leaf(k)]
             g == [k \in DOMAIN nodes |-> Node(k)]
             L == {Leaf(k) : k \in DOMAIN symbols}
             M == {Node(k) : k \in DOMAIN nodes}
  <2>1. IsFiniteSet(DOMAIN symbols) /\ IsFiniteSet(DOMAIN nodes)
    BY <1>1, TreeEntries, FS_Interval
  <2>2. f \in Surjection(DOMAIN symbols, L) /\ g \in Surjection(DOMAIN nodes, M)
    BY DEF Surjection
  <2>3. Elements = L \cup M
    BY DEF Elements
  <2> HIDE DEF f, g, L, M
  <2>4. IsFiniteSet(L) /\ IsFiniteSet(M)
    BY <2>1, <2>2, FS_Surjection
  <2> QED BY <2>3, <2>4, FS_Union
<1>3. /\ \A r \in Elements : Weight(r) \in Nat /\ Weights[r] = Weight(r)
      /\ Weights[None] = 0
  BY <1>1, RootsIn, WeightOf DEF Weights
<1>4. \A r \in Elements : Costs[r] \in Nat
  BY <1>3, DeepSpec, Products DEF Costs
<1>5. \A p \in DOMAIN nodes : Weights[Node(p)] = nodes[p].weight
  BY <1>1, <1>3, WeightOf DEF Elements
<1> QED BY <1>2, <1>3, <1>4, <1>5

\* A step down: the children of a node take its place.
LEMMA FringeSteps ==
  ASSUME HasTree, NEW j \in DOMAIN nodes
  PROVE  /\ Node(j) \in Fringe(j) /\ Kids(j) \cap Fringe(j) = {}
         /\ Fringe(j - 1) = (Fringe(j) \ {Node(j)}) \cup (Kids(j) \ {None})
         /\ nodes[j].left # None /\ nodes[j].left # nodes[j].right
         /\ \A r \in Kids(j) \ {None} : r \in Elements /\ Deep[r] = Deep[Node(j)] + 1
<1>1. /\ Len(nodes) \in Nat \ {0} /\ DOMAIN nodes = 1 .. Len(nodes) /\ j \in Nat \ {0}
      /\ OneParent /\ RootsOf(left, queue) = {Root} /\ TreeType
  BY CodedTree DEF HasTree, HuffmanInv
<1>2. ASSUME NEW r \in Kids(j) \ {None}
      PROVE  /\ r \in Below /\ Parent(r) = j /\ r \notin Fringe(j) /\ r \in Fringe(j - 1)
             /\ Deep[r] = Deep[Node(j)] + 1
  <2>1. r \in Below
    BY <1>1 DEF OneParent, Below
  <2>2. Parent(r) \in DOMAIN nodes /\ r \in Kids(Parent(r))
    BY <2>1, ParentSpec
  <2>3. Parent(r) = j
    BY <1>1, <2>2 DEF OneParent
  <2>4. r \notin Fringe(j)
    BY <1>1, <2>1, <2>3 DEF Fringe, Below
  <2>5. r.inner => r.at <= j - 1
    <3>1. CASE \E k \in DOMAIN symbols : r = Leaf(k)
      BY <3>1, RefKinds
    <3>2. CASE \E k \in DOMAIN nodes : r = Node(k)
      <4>1. PICK k \in DOMAIN nodes : r = Node(k)
        BY <3>2
      <4>2. k < j
        BY <1>1, <4>1 DEF OneParent
      <4> QED BY <1>1, <4>1, <4>2, RefKinds
    <3> QED BY <2>1, <3>1, <3>2 DEF Below, Elements
  <2>6. r \in Fringe(j - 1)
    BY <1>1, <2>1, <2>3, <2>5 DEF Fringe, Below
  <2> QED BY <2>1, <2>3, <2>4, <2>6, DeepSpec
<1>3. Node(j) \in Fringe(j)
  <2>1. Node(j) \in Elements /\ Node(j).inner /\ Node(j).at = j
    BY RefKinds DEF Elements
  <2>2. Node(j) = Root \/ Parent(Node(j)) > j
    <3>1. CASE j = Len(nodes)
      BY <3>1 DEF Root
    <3>2. CASE j # Len(nodes)
      <4>1. Parent(Node(j)) \in j + 1 .. Len(nodes)
        BY <3>2, ParentSpec
      <4> QED BY <1>1, <4>1
    <3> QED BY <3>1, <3>2
  <2> QED BY <1>1, <2>1, <2>2 DEF Fringe
<1>4. None \notin Fringe(j)
  BY <1>1, RootsIn DEF Fringe
<1>5. ASSUME NEW r \in Fringe(j), r # Node(j) PROVE r \in Fringe(j - 1)
  <2>1. r \in Elements /\ (r.inner => r.at <= j) /\ (r = Root \/ Parent(r) > j)
    BY DEF Fringe
  <2>2. r.inner => r.at <= j - 1
    <3>1. CASE \E k \in DOMAIN symbols : r = Leaf(k)
      BY <3>1, RefKinds
    <3>2. CASE \E k \in DOMAIN nodes : r = Node(k)
      <4>1. PICK k \in DOMAIN nodes : r = Node(k)
        BY <3>2
      <4>2. k <= j /\ k # j /\ r.at = k
        BY <1>5, <2>1, <4>1, RefKinds
      <4> QED BY <1>1, <4>2
    <3> QED BY <2>1, <3>1, <3>2 DEF Elements
  <2>3. r = Root \/ Parent(r) > j - 1
    <3>1. CASE r # Root
      <4>1. Parent(r) \in DOMAIN nodes
        BY <2>1, <3>1, ParentSpec DEF Below
      <4> QED BY <1>1, <2>1, <4>1
    <3> QED BY <3>1
  <2> QED BY <2>1, <2>2, <2>3 DEF Fringe
<1>6. ASSUME NEW r \in Fringe(j - 1) PROVE r \in (Fringe(j) \ {Node(j)}) \cup (Kids(j) \ {None})
  <2>1. r \in Elements /\ (r.inner => r.at <= j - 1) /\ (r = Root \/ Parent(r) > j - 1)
    BY DEF Fringe
  <2>2. r # Root
    BY <1>1, <2>1, RefKinds DEF Root
  <2>3. Parent(r) \in DOMAIN nodes /\ r \in Kids(Parent(r)) /\ r # None
    BY <1>1, <2>1, <2>2, ParentSpec, RootsIn DEF Below
  <2>4. CASE Parent(r) = j
    BY <2>3, <2>4
  <2>5. CASE Parent(r) > j
    <3>1. r # Node(j)
      BY <1>1, <2>1, RefKinds
    <3>2. r.inner => r.at <= j
      <4>1. CASE \E k \in DOMAIN symbols : r = Leaf(k)
        BY <4>1, RefKinds
      <4>2. CASE \E k \in DOMAIN nodes : r = Node(k)
        BY <1>1, <2>1, <4>2, RefKinds
      <4> QED BY <2>1, <4>1, <4>2 DEF Elements
    <3> QED BY <2>1, <2>5, <3>1, <3>2 DEF Fringe
  <2> QED BY <1>1, <2>1, <2>2, <2>3, <2>4, <2>5
<1>7. nodes[j].left # None /\ nodes[j].left # nodes[j].right
  BY <1>1 DEF OneParent
<1>8. Fringe(j - 1) = (Fringe(j) \ {Node(j)}) \cup (Kids(j) \ {None})
  BY <1>2, <1>5, <1>6
<1>9. Kids(j) \cap Fringe(j) = {}
  BY <1>2, <1>4
<1> QED BY <1>2, <1>3, <1>7, <1>8, <1>9 DEF Below

\* One node above its children costs so much less than they do.
LEMMA KidsCost ==
  ASSUME HasTree, NodesWeigh, NEW j \in DOMAIN nodes
  PROVE  Sum(Costs, Fringe(j - 1)) = Sum(Costs, Fringe(j)) + nodes[j].weight
<1>1. /\ Node(j) \in Fringe(j) /\ Kids(j) \cap Fringe(j) = {}
      /\ Fringe(j - 1) = (Fringe(j) \ {Node(j)}) \cup (Kids(j) \ {None})
      /\ nodes[j].left # None /\ nodes[j].left # nodes[j].right
      /\ \A r \in Kids(j) \ {None} : r \in Elements /\ Deep[r] = Deep[Node(j)] + 1
  BY FringeSteps
<1> PICK F, T, r, s, c : /\ F = Fringe(j) /\ T = Fringe(j) \ {Node(j)} /\ c = Costs
                         /\ r = nodes[j].left /\ s = nodes[j].right
  OBVIOUS
<1>2. /\ IsFiniteSet(Elements) /\ \A x \in Elements : c[x] \in Nat /\ Weights[x] \in Nat
      /\ Weights[Node(j)] = nodes[j].weight /\ Weights[None] = 0
      /\ \A x \in Elements : Deep[x] \in Nat
  BY CostsSpec, DeepSpec
<1>3. /\ F \subseteq Elements /\ T \subseteq Elements /\ IsFiniteSet(F) /\ IsFiniteSet(T)
      /\ Node(j) \in Elements /\ r \in Elements /\ r \notin F
  <2>1. F \subseteq Elements /\ T \subseteq Elements
    BY DEF Fringe
  <2> QED BY <1>1, <1>2, <2>1, FS_Subset DEF Kids
<1> PICK m \in Nat : m = Deep[Node(j)]
  BY <1>2, <1>3
<1>4. Sum(c, F) = c[Node(j)] + Sum(c, T) /\ Sum(c, T) \in Nat
  BY <1>1, <1>2, <1>3, SumOne
<1>5. c[Node(j)] = nodes[j].weight * m /\ c[r] = Weights[r] * (m + 1)
  BY <1>1, <1>2, <1>3 DEF Costs, Kids
<1>6. nodes[j].weight = Weights[r] + Weights[s]
  BY DEF NodesWeigh
<1>7. ASSUME NEW G, IsFiniteSet(G), G \subseteq Elements, NEW x \in Elements, x \notin G
      PROVE  Sum(c, G \cup {x}) = c[x] + Sum(c, G) /\ Sum(c, G) \in Nat
  <2> PICK H : H = G \cup {x}
    OBVIOUS
  <2>1. IsFiniteSet(H) /\ (\A y \in H : c[y] \in Nat) /\ x \in H /\ H \ {x} = G
    BY <1>2, <1>7, FS_AddElement
  <2>2. \A y \in H : Sum(c, H) = c[y] + Sum(c, H \ {y})
    BY <2>1, SumOne
  <2>3. Sum(c, G) \in Nat
    BY <1>2, <1>7, SumOne
  <2> QED BY <2>1, <2>2, <2>3
<1>8. CASE s = None
  <2>1. Fringe(j - 1) = T \cup {r}
    BY <1>1, <1>8 DEF Kids
  <2>2. r \notin T
    BY <1>3
  <2>3. Sum(c, Fringe(j - 1)) = c[r] + Sum(c, T)
    BY <1>3, <1>7, <2>1, <2>2
  <2> PICK u \in Nat : u = Weights[r]
    BY <1>2, <1>3
  <2>4. nodes[j].weight = u
    BY <1>2, <1>6, <1>8
  <2>5. u * (m + 1) = u * m + u /\ u * m \in Nat
    BY OneMore, Products
  <2> QED BY <1>4, <1>5, <2>3, <2>4, <2>5
<1>9. CASE s # None
  <2>1. Fringe(j - 1) = (T \cup {r}) \cup {s} /\ s \in Elements /\ s \notin F /\ Deep[s] = m + 1
    BY <1>1, <1>9 DEF Kids
  <2>2. r \notin T /\ s \notin T \cup {r}
    BY <1>1, <1>3, <2>1
  <2>3. Sum(c, T \cup {r}) = c[r] + Sum(c, T)
    BY <1>3, <1>7, <2>2
  <2>4. Sum(c, Fringe(j - 1)) = c[s] + Sum(c, T \cup {r})
    <3>1. IsFiniteSet(T \cup {r}) /\ T \cup {r} \subseteq Elements
      BY <1>3, FS_AddElement
    <3> QED BY <1>7, <2>1, <2>2, <3>1
  <2> PICK u \in Nat, v \in Nat : u = Weights[r] /\ v = Weights[s]
    BY <1>2, <1>3, <2>1
  <2>5. c[s] = v * (m + 1)
    BY <2>1 DEF Costs
  <2>6. nodes[j].weight = u + v
    BY <1>6
  <2>7. /\ u * (m + 1) = u * m + u /\ v * (m + 1) = v * m + v /\ (u + v) * m = u * m + v * m
        /\ u * m \in Nat /\ v * m \in Nat
    <3>1. u * (m + 1) = u * m + u /\ v * (m + 1) = v * m + v
      BY OneMore
    <3>2. (u + v) * m = u * m + v * m
      BY Both
    <3>3. u * m \in Nat /\ v * m \in Nat
      BY Products
    <3> QED BY <3>1, <3>2, <3>3
  <2> PICK i \in Nat, k \in Nat : i = u * m /\ k = v * m
    BY <2>7
  <2>8. Sum(c, Fringe(j - 1)) = (k + v) + ((i + u) + Sum(c, T))
    BY <1>5, <2>3, <2>4, <2>5, <2>7
  <2>9. Sum(c, F) = (i + k) + Sum(c, T)
    BY <1>4, <1>5, <2>6, <2>7
  <2> QED BY <1>4, <2>6, <2>8, <2>9
<1> QED BY <1>8, <1>9

\* Down from the root, what the nodes passed weigh is what the fringe costs.
LEMMA FringeCosts ==
  ASSUME HasTree, NodesWeigh
  PROVE  \A j \in 0 .. Len(nodes) : Sum(Costs, Fringe(j)) + Sum(NodeWeights, 1 .. j) = Made
<1> PICK top, g, c : top = Len(nodes) /\ g = NodeWeights /\ c = Costs
  OBVIOUS
<1>1. /\ top \in Nat \ {0} /\ DOMAIN nodes = 1 .. top
      /\ \A p \in 1 .. top : g[p] = nodes[p].weight /\ g[p] \in Nat
  <2>1. TreeType
    BY DEF HasTree, HuffmanInv
  <2> QED BY <2>1, CodedTree, TreeEntries DEF NodeWeights
<1> DEFINE S == {j \in 0 .. top : Sum(c, Fringe(j)) + Sum(g, 1 .. j) = Made}
<1>2. top \in S
  <2>1. Fringe(top) = {Root}
    <3>1. Root \in Elements /\ Root.at = top
      BY DeepSpec, RefKinds DEF Root
    <3>2. \A r \in Elements : r # Root => Parent(r) \in 1 .. top
      BY <1>1, ParentSpec DEF Below
    <3>3. \A r \in Elements : r # Root => ~(Parent(r) > top)
      BY <1>1, <3>2
    <3> QED BY <1>1, <3>1, <3>3 DEF Fringe
  <2>2. c[Root] = 0
    <3>1. Weights[Root] \in Nat /\ Deep[Root] = 0 /\ Root \in Elements
      BY CostsSpec, DeepSpec
    <3>2. Weights[Root] * 0 = 0
      BY <3>1
    <3> QED BY <3>1, <3>2 DEF Costs
  <2>3. Sum(c, {Root}) = 0
    <3>1. Summed(c, {Root})
      <4>1. IsFiniteSet({Root})
        BY FS_Singleton
      <4>2. \A y \in {Root} : c[y] = 0
        BY <2>2
      <4> QED BY <4>1, <4>2 DEF Summed
    <3>2. Sum(c, {Root}) = c[Root] + Sum(c, {Root} \ {Root})
      BY <3>1, SumTaken
    <3>3. {Root} \ {Root} = {}
      OBVIOUS
    <3> QED BY <2>2, <3>2, <3>3, SumNothing
  <2>4. Made = Sum(g, 1 .. top) /\ Made \in Nat
    <3>1. IsFiniteSet(1 .. top)
      BY <1>1, FS_Interval
    <3>2. Sum(g, 1 .. top) \in Nat
      BY <1>1, <3>1, SumOne
    <3> QED BY <1>1, <3>2 DEF Made
  <2>5. Sum(c, Fringe(top)) + Sum(g, 1 .. top) = Made
    BY <2>1, <2>3, <2>4
  <2> QED BY <1>1, <2>5
<1>3. ASSUME NEW k \in 0 .. top, k < top, k + 1 \in S PROVE k \in S
  <2> PICK j \in 1 .. top : j = k + 1 /\ j - 1 = k
    BY <1>1, <1>3
  <2>1. Sum(c, Fringe(k)) = Sum(c, Fringe(j)) + nodes[j].weight
    BY <1>1, KidsCost
  <2>2. Sum(g, 1 .. j) = g[j] + Sum(g, 1 .. k) /\ Sum(g, 1 .. k) \in Nat
    <3>1. IsFiniteSet(1 .. j) /\ IsFiniteSet(1 .. k)
      <4>1. j \in Int /\ k \in Int /\ 1 \in Int
        BY <1>1
      <4>2. \A a, b \in Int : IsFiniteSet(a .. b)
        BY FS_Interval
      <4> QED BY <4>1, <4>2
    <3>2. /\ j \in 1 .. j /\ (1 .. j) \ {j} = 1 .. k
          /\ \A p \in 1 .. j : p \in 1 .. top
          /\ \A p \in 1 .. k : p \in 1 .. top
      BY <1>1
    <3>3. Summed(g, 1 .. j)
      BY <1>1, <3>1, <3>2 DEF Summed
    <3>4. Sum(g, 1 .. j) = g[j] + Sum(g, (1 .. j) \ {j})
      BY <3>2, <3>3, SumTaken
    <3>5. Sum(g, 1 .. k) \in Nat
      BY <1>1, <3>1, <3>2, SumOne
    <3> QED BY <3>2, <3>4, <3>5
  <2>3. Sum(c, Fringe(j)) \in Nat
    <3>1. IsFiniteSet(Fringe(j)) /\ \A r \in Fringe(j) : c[r] \in Nat
      BY CostsSpec, FS_Subset DEF Fringe
    <3> QED BY <3>1, SumOne
  <2>4. Sum(c, Fringe(j)) + Sum(g, 1 .. j) = Made
    BY <1>3
  <2> QED BY <1>1, <2>1, <2>2, <2>3, <2>4
<1> HIDE DEF S
<1>4. 0 .. top \subseteq S
  <2>1. top \in Nat
    BY <1>1
  <2> QED BY <1>2, <1>3, <2>1, FromAbove
<1> QED BY <1>4 DEF S

\* The codes of the symbols cost what all nodes weigh.
LEMMA TreeCosts ==
  ASSUME HasTree, NodesWeigh
  PROVE  Sum([k \in DOMAIN symbols |-> symbols[k].weight * Len(WayTo(Leaf(k)))], DOMAIN symbols) = Made
<1> DEFINE K == DOMAIN symbols
           f == [k \in K |-> symbols[k].weight * Len(WayTo(Leaf(k)))]
           h == [k \in K |-> Leaf(k)]
<1>1. TreeType /\ Len(nodes) \in Nat \ {0} /\ DOMAIN nodes = 1 .. Len(nodes)
  BY CodedTree DEF HasTree, HuffmanInv
<1>2. Fringe(0) = {h[k] : k \in K}
  <2>1. ASSUME NEW k \in K PROVE Leaf(k) \in Fringe(0)
    <3>1. Leaf(k) \in Below /\ ~Leaf(k).inner
      BY RefKinds DEF Below, Elements, Root
    <3>2. Parent(Leaf(k)) \in DOMAIN nodes
      BY <3>1, ParentSpec
    <3> QED BY <1>1, <3>1, <3>2 DEF Fringe, Below
  <2>2. ASSUME NEW r \in Fringe(0) PROVE \E k \in K : r = Leaf(k)
    <3>1. r \in Elements /\ (r.inner => r.at <= 0)
      BY DEF Fringe
    <3>2. \A k \in DOMAIN nodes : r # Node(k)
      BY <1>1, <3>1, RefKinds
    <3> QED BY <3>1, <3>2 DEF Elements
  <2>3. \A k \in K : h[k] = Leaf(k)
    OBVIOUS
  <2> HIDE DEF h, K
  <2> QED BY <2>1, <2>2, <2>3
<1>3. /\ IsFiniteSet(K) /\ \A k \in K : f[k] \in Nat /\ Costs[h[k]] = f[k]
      /\ \A j, k \in K : h[j] = h[k] => j = k
  <2>1. IsFiniteSet(K)
    BY <1>1, TreeEntries, FS_Interval
  <2>2. ASSUME NEW k \in K PROVE f[k] \in Nat /\ Costs[h[k]] = f[k]
    <3>1. Leaf(k) \in Elements /\ Leaf(k) # Root
      BY RefKinds DEF Elements, Root
    <3>2. Weights[Leaf(k)] = symbols[k].weight
      BY <1>1, <3>1, WeightOf DEF Weights
    <3>3. Costs[Leaf(k)] = symbols[k].weight * Len(WayTo(Leaf(k)))
      BY <3>1, <3>2 DEF Costs, Deep
    <3>4. Costs[Leaf(k)] \in Nat
      BY <3>1, CostsSpec
    <3> QED BY <3>3, <3>4
  <2>3. \A j, k \in K : h[j] = h[k] => j = k
    BY RefKinds
  <2> QED BY <2>1, <2>2, <2>3
<1> PICK c : c = Costs
  OBVIOUS
<1>4. Sum(c, {h[k] : k \in K}) = Sum(f, K)
  <2> HIDE DEF f, h, K
  <2> QED BY <1>3, SumMoved
<1>5. Sum(c, Fringe(0)) = Made
  <2>1. 0 \in 0 .. Len(nodes) /\ 1 .. 0 = {}
    BY <1>1
  <2>2. Sum(c, Fringe(0)) + Sum(NodeWeights, {}) = Made
    BY <2>1, FringeCosts
  <2>3. Sum(c, Fringe(0)) \in Nat
    <3>1. IsFiniteSet(Fringe(0)) /\ \A r \in Fringe(0) : c[r] \in Nat
      BY CostsSpec, FS_Subset DEF Fringe
    <3> QED BY <3>1, SumOne
  <2> QED BY <2>2, <2>3, SumNothing
<1> QED BY <1>2, <1>4, <1>5

LEMMA MadeIsNumber == ASSUME HasTree PROVE Made \in Nat
<1>1. TreeType
  BY DEF HasTree, HuffmanInv
<1>2. Summed(NodeWeights, DOMAIN nodes)
  <2>1. IsFiniteSet(DOMAIN nodes)
    BY <1>1, TreeEntries, FS_Interval
  <2>2. \A p \in DOMAIN nodes : NodeWeights[p] \in Nat
    BY <1>1, TreeEntries DEF NodeWeights
  <2> QED BY <2>1, <2>2 DEF Summed
<1> PICK f, S : f = NodeWeights /\ S = DOMAIN nodes
  OBVIOUS
<1>3. Sum(f, S) \in Nat
  BY <1>2, SumOne DEF Summed
<1> QED BY <1>3 DEF Made

\* The code of the symbols costs no more than any other that fits the code book.
LEMMA SymbolsBest ==
  ASSUME HuffmanInv, stage = "coded", Best,
         NEW len \in [DOMAIN symbols -> 1 .. MaxDepth], Fits(len, DOMAIN symbols)
  PROVE  Sum([k \in DOMAIN symbols |-> symbols[k].weight * Len(WayTo(Leaf(k)))], DOMAIN symbols)
           <= Cost(SymbolWeights, len, DOMAIN symbols)
<1>1. CASE symbols = <<>>
  <2>1. DOMAIN symbols = {}
    BY <1>1
  <2>2. \A f : Sum(f, DOMAIN symbols) = 0
    BY <2>1, SumNothing
  <2>3. Cost(SymbolWeights, len, DOMAIN symbols) = 0
    BY <2>2 DEF Cost
  <2> QED BY <2>2, <2>3
<1>2. CASE symbols # <<>>
  <2>1. HasTree /\ NodesWeigh
    BY <1>2 DEF HasTree, Best
  <2>2. PICK d \in Lengths(Roots) :
          /\ Sized(Weights, d, Roots)
          /\ Cost(Weights, d, Roots) + Made <= Cost(SymbolWeights, len, DOMAIN symbols)
    BY DEF Best, NoneBetter, Equalled
  <2>3. Cost(Weights, d, Roots) \in Nat
    BY <2>2, TakenOut
  <2>4. Cost(SymbolWeights, len, DOMAIN symbols) \in Nat
    <3>1. Sized(SymbolWeights, len, DOMAIN symbols)
      <4>1. TreeType
        BY DEF HuffmanInv
      <4>2. IsFiniteSet(DOMAIN symbols)
        <5>1. DOMAIN symbols = 1 .. Len(symbols) /\ Len(symbols) \in Int /\ 1 \in Int
          BY <4>1, TreeEntries
        <5>2. IsFiniteSet(1 .. Len(symbols))
          BY <5>1, FS_Interval
        <5> QED BY <5>1, <5>2
      <4>3. \A k \in DOMAIN symbols : len[k] \in 0 .. MaxDepth
        BY ShareSpec
      <4>4. \A k \in DOMAIN symbols : SymbolWeights[k] \in Nat
        BY <4>1, TreeEntries DEF SymbolWeights
      <4> QED BY <4>2, <4>3, <4>4 DEF Sized
    <3> QED BY <3>1, TakenOut
  <2>5. Made \in Nat
    BY <2>1, MadeIsNumber
  <2>6. Made <= Cost(SymbolWeights, len, DOMAIN symbols)
    BY <2>2, <2>3, <2>4, <2>5
  <2> QED BY <2>1, <2>6, TreeCosts
<1> QED BY <1>1, <1>2

\* All words are symbols, and each has the code of its leaf.
LEMMA WordsCoded ==
  ASSUME HuffmanInv, stage = "coded", DOMAIN codes = Words, SymbolsRight
  PROVE  /\ Words = {symbols[k].word : k \in DOMAIN symbols}
         /\ \A k \in DOMAIN symbols : codes[symbols[k].word] = WayTo(Leaf(k))
<1> DEFINE coded == {k \in DOMAIN symbols : Len(WayTo(Leaf(k))) <= MaxDepth}
           of(w) == CHOOSE k \in coded : symbols[k].word = w
<1>1. codes = [w \in {symbols[k].word : k \in coded} |-> WayTo(Leaf(of(w)))]
  BY DEF HuffmanInv, Coded, Codewords
<1>2. \A k \in DOMAIN symbols : symbols[k].word \in Words
  BY TreeEntries DEF HuffmanInv
<1>3. ASSUME NEW k \in DOMAIN symbols PROVE codes[symbols[k].word] = WayTo(Leaf(k))
  <2> PICK w : w = symbols[k].word
    OBVIOUS
  <2>1. w \in DOMAIN codes
    BY <1>2
  <2>2. PICK j \in coded : symbols[j].word = w
    BY <1>1, <2>1
  <2>3. of(w) \in coded /\ symbols[of(w)].word = w
    BY <2>2
  <2>4. of(w) = k
    BY <2>3 DEF SymbolsRight
  <2> QED BY <1>1, <2>1, <2>4
<1>4. DOMAIN codes \subseteq {symbols[k].word : k \in DOMAIN symbols}
  BY <1>1
<1> QED BY <1>2, <1>3, <1>4

\* At the end there is one root, which costs nothing: no code costs less than the nodes weigh.
LEMMA NoneIsBetter == BestInv => Optimal
<1> SUFFICES ASSUME BestInv, stage = "coded", DOMAIN codes = Words, CountsFit,
                    NEW len \in [Words -> 1 .. MaxDepth],
                    SumFunction([w \in Words |-> Share[MaxDepth - len[w]]]) <= Share[MaxDepth]
             PROVE  SumFunction([w \in Words |-> Frequency(w) * Len(codes[w])])
                      <= SumFunction([w \in Words |-> Frequency(w) * len[w]])
  BY DEF Optimal
<1>1. HuffmanInv /\ Best /\ TreeType /\ SymbolsRight /\ corpus \in Corpora
  BY DEF BestInv, Best, HuffmanInv
<1>f. \A w \in Words : Freq(w) = Frequency(w)
  <2>1. \A w \in Words : Frequency(w) \in Nat /\ Frequency(w) < FreqLimit
    BY <1>1, WordsCount DEF CountsFit
  <2>2. \A x \in Nat : x < FreqLimit => x % FreqLimit = x
    BY HuffmanAssumption
  <2> QED BY <2>1, <2>2 DEF Freq
<1> DEFINE K == DOMAIN symbols
           h == [k \in K |-> symbols[k].word]
           l == [k \in K |-> len[h[k]]]
           F == [w \in Words |-> Frequency(w)]
           cost == [k \in K |-> symbols[k].weight * Len(WayTo(Leaf(k)))]
           paid == [w \in Words |-> Frequency(w) * Len(codes[w])]
<1>2. Words = {h[k] : k \in K} /\ \A k \in K : codes[h[k]] = WayTo(Leaf(k))
  <2>1. /\ Words = {symbols[k].word : k \in DOMAIN symbols}
        /\ \A k \in DOMAIN symbols : codes[symbols[k].word] = WayTo(Leaf(k))
    BY <1>1, WordsCoded
  <2>2. \A k \in K : h[k] = symbols[k].word
    OBVIOUS
  <2> HIDE DEF h
  <2>3. {symbols[k].word : k \in DOMAIN symbols} = {h[k] : k \in K}
    BY <2>2
  <2> QED BY <2>1, <2>2, <2>3
<1>3. \A j, k \in K : h[j] = h[k] => j = k
  BY <1>1 DEF SymbolsRight
<1>4. \A k \in K : h[k] \in Words /\ F[h[k]] = SymbolWeights[k] /\ SymbolWeights[k] \in Nat
                   /\ SymbolWeights[k] = symbols[k].weight
  <2>1. \A k \in K : h[k] \in Words /\ SymbolWeights[k] \in Nat
                     /\ SymbolWeights[k] = symbols[k].weight
    BY <1>1, TreeEntries DEF SymbolWeights
  <2>2. \A k \in K : symbols[k].weight = Freq(h[k])
    BY <1>1 DEF SymbolsRight
  <2>3. \A k \in K : F[h[k]] = Frequency(h[k]) /\ Freq(h[k]) = Frequency(h[k])
    BY <1>f, <2>1
  <2> HIDE DEF K, h, F
  <2> QED BY <2>1, <2>2, <2>3
<1>5. l \in [K -> 1 .. MaxDepth] /\ \A k \in K : l[k] = len[h[k]] /\ l[k] \in 0 .. MaxDepth
  <2>1. \A k \in K : l[k] = len[h[k]] /\ l[k] \in 1 .. MaxDepth
    BY <1>4
  <2>2. \A n \in 1 .. MaxDepth : n \in 0 .. MaxDepth
    BY ShareSpec
  <2> QED BY <2>1, <2>2
<1>6. IsFiniteSet(K)
  BY <1>1, TreeEntries, FS_Interval
<1>7. Claimed(len, Words) = Claimed(l, K) /\ Cost(F, len, Words) = Cost(SymbolWeights, l, K)
  <2> PICK u : u = SymbolWeights
    OBVIOUS
  <2>1. /\ \A k \in K : len[h[k]] = l[k] /\ F[h[k]] = u[k]
        /\ \A k \in K : u[k] \in Nat /\ l[k] \in 0 .. MaxDepth
    BY <1>4, <1>5
  <2> HIDE DEF K, h, l, F
  <2>2. Sized(u, l, K)
    BY <1>6, <2>1 DEF Sized
  <2>3. Renamed(h, K, u, l, Words, F, len)
    BY <1>2, <1>3, <2>1 DEF Renamed
  <2> QED BY <2>2, <2>3, CodesMoved
<1>8. Fits(l, K)
  <2>1. SumFunction([w \in Words |-> Share[MaxDepth - len[w]]]) = Claimed(len, Words)
    BY DEF SumFunction, Claimed, Sum
  <2> HIDE DEF K, l
  <2> QED BY <1>7, <2>1 DEF Fits
<1>9. Sum(cost, K) <= Cost(SymbolWeights, l, K)
  <2> HIDE DEF l
  <2> QED BY <1>1, <1>5, <1>8, SymbolsBest
<1>10. Sum(paid, Words) = Sum(cost, K)
  <2>1. ASSUME NEW k \in K PROVE cost[k] \in Nat /\ paid[h[k]] = cost[k]
    <3>1. paid[h[k]] = Frequency(h[k]) * Len(codes[h[k]]) /\ Frequency(h[k]) = symbols[k].weight
      BY <1>4
    <3>2. codes[h[k]] \in Seq(Bit)
      BY <1>1, <1>4, CodesApart
    <3>3. Len(codes[h[k]]) \in Nat /\ symbols[k].weight \in Nat
      BY <1>4, <3>2, LenProperties
    <3>4. cost[k] = symbols[k].weight * Len(codes[h[k]])
      BY <1>2
    <3> QED BY <3>1, <3>3, <3>4, Products
  <2> HIDE DEF K, h, cost, paid
  <2> QED BY <1>2, <1>3, <1>6, <2>1, SumMoved
<1>11. SumFunction(paid) = Sum(paid, Words)
  BY DEF SumFunction, Sum
<1>12. SumFunction([w \in Words |-> Frequency(w) * len[w]]) = Cost(F, len, Words)
  <2>1. [w \in Words |-> Frequency(w) * len[w]] = [w \in Words |-> F[w] * len[w]]
    OBVIOUS
  <2> HIDE DEF F
  <2> QED BY <2>1 DEF SumFunction, Cost, Sum
<1> HIDE DEF paid, cost, l, F, K
<1>13. SumFunction(paid) <= SumFunction([w \in Words |-> Frequency(w) * len[w]])
  BY <1>7, <1>9, <1>10, <1>11, <1>12
<1> QED BY <1>13 DEF paid
-----------------------------------------------------------------------------
(***************************************************************************)
(* Packing                                                                 *)
(***************************************************************************)
\* A step of packing is one of the list or one of the code, and leaves the other alone.
LEMMA PackingSteps ==
  /\ PackingInit => ListInv /\ BestInv
  /\ ListInv /\ BestInv /\ [PackingNext]_packVars => ListInv' /\ BestInv'
<1>1. PackingInit => ListInv /\ BestInv
  BY ListInitInv, HuffmanInitInv DEF PackingInit, BestInv, HuffmanInit
<1>2. [PackingNext]_packVars => [Next]_vars /\ [HuffmanNext]_hvars
  BY DEF PackingNext, Appending, Compressing, packVars
<1> QED BY <1>1, <1>2, ListStep, BestStep

(***************************************************************************)
(* The lists that are packed keep what makes them safe: whatever ids are   *)
(* appended and whenever memory runs out.                                  *)
(***************************************************************************)
THEOREM PackedListSafe == PackingSpec => []ListSafe
<1>1. ListInv /\ BestInv => ListSafe
  BY ListKeptSafe DEF ListInv
<1> QED BY <1>1, PackingSteps, PTL DEF PackingSpec

(***************************************************************************)
(* The cursor of a reader gets the ids that were added to a key, ascending *)
(* and each as often as it was added, or once where items are unique: for  *)
(* any list of ids, in any order, however long and whatever its segments.  *)
(***************************************************************************)
THEOREM ListsReadBack == PackingSpec => []PackedRight
<1>1. ListInv /\ BestInv => PackedRight
  BY PackedIsRight
<1> QED BY <1>1, PackingSteps, PTL DEF PackingSpec

(***************************************************************************)
(* newnodes and the queue are never written beyond what was allocated for  *)
(* them, for any number of symbols and weights.                            *)
(***************************************************************************)
THEOREM RoomForTheTree == PackingSpec => []NodesFit
<1>1. ListInv /\ BestInv => NodesFit
  BY RoomForNodes DEF BestInv
<1> QED BY <1>1, PackingSteps, PTL DEF PackingSpec

(***************************************************************************)
(* Every value that is compressed is decompressed to itself, whatever lies *)
(* behind it in the file: for any values, any frequencies of their words,  *)
(* whether their counts fit or wrap, any order of those of the same        *)
(* frequency and any tree, cut or not.                                     *)
(***************************************************************************)
THEOREM ValuesReadBack == PackingSpec => []RoundTrip
<1>1. ListInv /\ BestInv => RoundTrip
  BY ReadAgain DEF BestInv
<1> QED BY <1>1, PackingSteps, PTL DEF PackingSpec

(***************************************************************************)
(* When no word had to be left out of the code book, and no count of a     *)
(* word was cut off by the type it is sorted and weighed by, the code is   *)
(* as good as any: no other lengths of codes that fit the code book make   *)
(* the words shorter in total, for any values and any order in which words *)
(* and nodes of the same weight are taken.                                 *)
(***************************************************************************)
THEOREM CodeIsOptimal == PackingSpec => []Optimal
<1>1. ListInv /\ BestInv => Optimal
  BY NoneIsBetter
<1> QED BY <1>1, PackingSteps, PTL DEF PackingSpec
=============================================================================
