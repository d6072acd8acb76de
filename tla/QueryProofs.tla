---------------------------- MODULE QueryProofs ----------------------------
(***************************************************************************)
(* Proofs about the terms of queries and about what queries mean.          *)
(*                                                                         *)
(* Whatever the key's ids are, ddb_val_next, ddb_not_next and              *)
(* ddb_view_next return exactly the ids the term stands for, in ascending  *)
(* order, as long as the id behind the last one fits a valueid_t.          *)
(*                                                                         *)
(* And whatever queries a program builds, with any number of operators,    *)
(* and whatever database it asks: its operators mean what they are named   *)
(* for, a resolved query has the values that were asked for, an expanded   *)
(* one has them where it can, and a printed one is parsed as itself.       *)
(***************************************************************************)
EXTENDS TermCursor, QueryAlgebra, WellFoundedInduction, FiniteSetTheorems, TLAPS

\* A set of numbers that is not empty has a least element.
LEMMA NatLeast ==
  ASSUME NEW S \in SUBSET Nat, S # {}
  PROVE  \E x \in S : \A y \in S : x <= y
<1> DEFINE R == {ss \in Nat \X Nat : ss[1] < ss[2]}
<1>1. IsWellFoundedOn(R, Nat)
  BY NatLessThanWellFounded, Zenon DEF OpToRel
<1> HIDE DEF R
<1>2. PICK x \in S : \A y \in S : ~(<<y, x>> \in R)
  BY <1>1, WFMin
<1>3. \A y \in S : ~(y < x)
  BY <1>2 DEF R
<1> QED BY <1>3

\* Min returns it.
LEMMA MinIsLeast ==
  ASSUME NEW S \in SUBSET Nat, S # {}
  PROVE  Min(S) \in S /\ \A y \in S : Min(S) <= y
BY NatLeast DEF Min

\* There is no other.
LEMMA MinIsUnique ==
  ASSUME NEW S \in SUBSET Nat, NEW x \in S, \A y \in S : x <= y
  PROVE  x = Min(S)
<1>1. Min(S) \in S /\ \A y \in S : Min(S) <= y
  BY MinIsLeast
<1>2. \A m \in S : m <= x /\ x <= m => x = m
  OBVIOUS
<1> QED BY <1>1, <1>2

\* The remainder of 32-bit arithmetic stays in range and does not grow.
LEMMA ModBound ==
  ASSUME NEW a \in Nat, NEW m \in Nat \ {0}
  PROVE  a % m \in 0 .. m - 1 /\ a % m <= a /\ (a < m => a % m = a)
OBVIOUS
-----------------------------------------------------------------------------

\* The id behind the last one is a 32-bit number.
LastFits == NumUniq + 1 < IdLimit

LEMMA Constants == /\ NumUniq \in Nat /\ IdLimit \in Nat
                   /\ Ids \subseteq Nat /\ ValueId \subseteq Nat /\ 0 \in ValueId
                   /\ \A x \in Ids : x >= 1 /\ x <= NumUniq /\ x \in ValueId
BY NumUniqAssumption, IdLimitAssumption DEF Ids, ValueId

\* 32-bit addition of one does not wrap below the last id.
LEMMA PlusOne ==
  ASSUME LastFits, NEW x \in Nat, x <= NumUniq
  PROVE  (x + 1) % IdLimit = x + 1 /\ x + 1 \in ValueId
<1>1. x + 1 \in Nat /\ x + 1 < IdLimit /\ IdLimit \in Nat \ {0}
  BY Constants DEF LastFits
<1> QED BY <1>1, ModBound DEF ValueId

\* The delta cursor moves to the next id of the key, if there is one.
LEMMA DeltaNextSpec ==
  ASSUME TypeOK, DeltaNext
  PROVE  /\ Left = {} => vcur' = vcur
         /\ Left # {} => /\ vcur' \in posting /\ vcur' > vcur
                         /\ vcur' = Min(Left)
                         /\ \A p \in posting : p > vcur => vcur' <= p
<1>1. Left \in SUBSET Nat
  BY Constants DEF TypeOK, Left
<1>2. Left # {} => Min(Left) \in Left /\ \A p \in Left : Min(Left) <= p
  BY <1>1, MinIsLeast
<1> QED BY <1>2 DEF DeltaNext, Left

LEMMA InitInv == Init => IInv
<1> SUFFICES ASSUME Init PROVE IInv
  OBVIOUS
<1>1. Want \subseteq Ids /\ \A x \in Want : ~(x <= 0)
  BY Constants DEF Init, Want
<1>2. TypeOK
  BY Constants DEF Init, TypeOK
<1>3. 0 <= NumUniq /\ 0 \notin posting
  BY Constants DEF Init
<1> QED BY <1>1, <1>2, <1>3 DEF Init, IInv, ReturnedPrefix, DeltaAhead, Position

LEMMA EmptyNextInv == IInv /\ EmptyNext => IInv'
BY Constants DEF EmptyNext, IInv, TypeOK, ReturnedPrefix, DeltaAhead, Position, Want, ValueId, Ids

LEMMA ValNextInv == IInv /\ (ValNext \/ ViewNext) => IInv'
<1> SUFFICES ASSUME IInv, ValNext \/ ViewNext PROVE IInv'
  OBVIOUS
<1>1. /\ kind # "not" /\ pc = "ready" /\ ~empty /\ DeltaNext
      /\ Return(IF Left # {} THEN vcur' ELSE 0)
      /\ UNCHANGED <<kind, posting>>
  BY DEF ValNext, ViewNext
<1>2. /\ TypeOK /\ Want = posting /\ Want' = posting /\ vcur = cur /\ posting \subseteq Ids
      /\ out = {x \in posting : x <= cur} /\ vcur \in Nat
  BY <1>1, Constants DEF IInv, TypeOK, Position, ReturnedPrefix, Want
<1>3. CASE Left = {}
  <2>1. /\ cur' = 0 /\ ret' = 0 /\ empty' = TRUE /\ out' = out /\ pc' = "ready" /\ vcur' = vcur
    BY <1>1, <1>2, <1>3, DeltaNextSpec DEF Return
  <2>2. out = posting
    <3>1. \A p \in posting : ~(p > vcur) /\ p \in Nat
      BY <1>2, <1>3, Constants DEF Left
    <3>2. \A p \in posting : p <= vcur
      BY <1>2, <3>1
    <3> QED BY <1>2, <3>2
  <2>3. TypeOK'
    BY <1>1, <1>2, <2>1, Constants DEF TypeOK, ValueId, Ids
  <2> QED BY <1>1, <1>2, <2>1, <2>2, <2>3 DEF IInv, ReturnedPrefix, DeltaAhead, Position
<1>4. CASE Left # {}
  <2>1. /\ vcur' \in posting /\ vcur' > vcur /\ \A p \in posting : p > vcur => vcur' <= p
    BY <1>1, <1>2, <1>4, DeltaNextSpec
  <2>2. vcur' \in Nat /\ vcur' # 0 /\ vcur' \in ValueId
    BY <1>2, <2>1, Constants
  <2>3. /\ cur' = vcur' /\ ret' = vcur' /\ empty' = FALSE /\ out' = out \cup {vcur'} /\ pc' = "ready"
    BY <1>1, <1>4, <2>2 DEF Return
  <2>4. out' = {x \in posting : x <= vcur'}
    <3>1. \A x \in posting : x <= vcur' <=> x <= vcur \/ x = vcur'
      BY <1>2, <2>1, <2>2, Constants
    <3> QED BY <1>2, <2>1, <2>3, <3>1
  <2>5. TypeOK'
    BY <1>1, <1>2, <2>1, <2>2, <2>3 DEF TypeOK, ValueId, Ids
  <2> QED BY <1>1, <1>2, <2>3, <2>4, <2>5 DEF IInv, ReturnedPrefix, DeltaAhead, Position
<1> QED BY <1>3, <1>4

LEMMA NotEnterInv == LastFits /\ IInv /\ NotEnter => IInv'
<1> SUFFICES ASSUME LastFits, IInv, NotEnter PROVE IInv'
  OBVIOUS
<1>1. /\ kind = "not" /\ pc = "ready" /\ ~empty
      /\ IF cur = 0 THEN DeltaNext ELSE vcur' = vcur
      /\ cur' = (cur + 1) % IdLimit /\ pc' = "skip"
      /\ UNCHANGED <<kind, posting, empty, ret, out>>
  BY DEF NotEnter
<1>2. /\ TypeOK /\ Want' = Want /\ cur \in Nat /\ cur <= NumUniq /\ posting \subseteq Ids
      /\ out = {x \in Want : x <= cur} /\ Want \subseteq Ids /\ cur \notin posting
      /\ vcur \in posting \cup {0} /\ vcur \in Nat
  BY <1>1, Constants DEF IInv, TypeOK, Position, ReturnedPrefix, Want
<1>3. cur' = cur + 1 /\ cur' \in ValueId
  BY <1>1, <1>2, PlusOne
<1>4. vcur' \in posting \cup {0} /\ \A p \in posting : p > cur => p >= vcur' /\ vcur' > cur
  <2>1. CASE cur = 0
    BY <2>1, <1>1, <1>2, DeltaNextSpec, Constants DEF IInv, Position, Left
  <2>2. CASE cur # 0
    BY <2>2, <1>1, <1>2 DEF IInv, Position
  <2> QED BY <2>1, <2>2
<1>5. TypeOK'
  BY <1>1, <1>2, <1>3, <1>4 DEF TypeOK, ValueId, Ids
<1>6. \A x \in Ids : x <= cur <=> x < cur + 1
  BY <1>2, Constants
<1>7. Position'
  <2>1. out' = {x \in Want' : x < cur'}
    <3>1. \A x \in Want : x <= cur <=> x < cur + 1
      BY <1>2, <1>6
    <3> QED BY <1>1, <1>2, <1>3, <3>1
  <2>2. 1 <= cur' /\ cur' <= NumUniq + 1
    BY <1>2, <1>3, Constants
  <2>3. pc' = "skip" /\ kind' = "not" /\ ~empty'
    BY <1>1
  <2> QED BY <2>1, <2>2, <2>3 DEF Position
<1>8. \A x \in posting \cup {0} : x \in Nat
  BY <1>2, Constants
<1>9. DeltaAhead'
  BY <1>1, <1>2, <1>3, <1>4, <1>8 DEF DeltaAhead
<1> QED BY <1>1, <1>5, <1>7, <1>9 DEF IInv, ReturnedPrefix

LEMMA NotSkipInv == LastFits /\ IInv /\ NotSkip => IInv'
<1> SUFFICES ASSUME LastFits, IInv, NotSkip PROVE IInv'
  OBVIOUS
<1>1. /\ kind = "not" /\ pc = "skip" /\ ~empty /\ cur = vcur /\ DeltaNext
      /\ cur' = (cur + 1) % IdLimit
      /\ UNCHANGED <<kind, posting, empty, pc, ret, out>>
  BY DEF NotSkip, IInv, Position
<1>2. /\ TypeOK /\ Want' = Want /\ cur \in Nat /\ 1 <= cur /\ posting \subseteq Ids
      /\ out = {x \in Want : x < cur} /\ Want = Ids \ posting /\ vcur \in posting \cup {0}
  BY <1>1, Constants DEF IInv, TypeOK, Position, Want
<1>3. cur \in posting /\ cur <= NumUniq
  BY <1>1, <1>2, Constants
<1>4. cur' = cur + 1 /\ cur' \in ValueId
  BY <1>1, <1>2, <1>3, PlusOne
<1>5. /\ vcur' \in posting
      /\ \A p \in posting : p > cur => p >= vcur' /\ vcur' > cur
  BY <1>1, <1>2, <1>3, DeltaNextSpec, Constants DEF Left
<1>6. TypeOK'
  BY <1>1, <1>2, <1>4, <1>5 DEF TypeOK, ValueId, Ids
<1>7. out' = {x \in Want' : x < cur'}
  <2>1. \A x \in Want : x < cur <=> x < cur + 1
    <3> SUFFICES ASSUME NEW x \in Want PROVE x < cur <=> x < cur + 1
      OBVIOUS
    <3>1. x \in Nat /\ x # cur
      BY <1>2, <1>3, Constants
    <3> QED BY <1>2, <3>1
  <2> QED BY <1>1, <1>2, <1>4, <2>1
<1>8. Position'
  BY <1>1, <1>2, <1>3, <1>4, <1>7, Constants DEF Position
<1>9. DeltaAhead'
  <2>1. \A p \in posting : p \in Nat /\ vcur' \in Nat
    BY <1>2, <1>5, Constants
  <2> QED BY <1>1, <1>2, <1>4, <1>5, <2>1 DEF DeltaAhead
<1> QED BY <1>1, <1>6, <1>8, <1>9 DEF IInv, ReturnedPrefix

LEMMA NotLeaveInv == LastFits /\ IInv /\ NotLeave => IInv'
<1> SUFFICES ASSUME LastFits, IInv, NotLeave PROVE IInv'
  OBVIOUS
<1>1. /\ kind = "not" /\ pc = "skip" /\ ~empty /\ cur # vcur
      /\ Return(IF cur >= (NumUniq + 1) % IdLimit THEN 0 ELSE cur)
      /\ UNCHANGED <<kind, posting, vcur>>
  BY DEF NotLeave, IInv, Position
<1>2. /\ TypeOK /\ Want' = Want /\ cur \in Nat /\ 1 <= cur /\ cur <= NumUniq + 1 /\ posting \subseteq Ids
      /\ out = {x \in Want : x < cur} /\ Want = Ids \ posting /\ vcur \in Nat
  BY <1>1, Constants DEF IInv, TypeOK, Position, Want
<1>3. (NumUniq + 1) % IdLimit = NumUniq + 1 /\ NumUniq \in Nat
  BY Constants, PlusOne
<1>4. \A p \in posting : p \in Nat /\ (p >= cur => p >= vcur /\ vcur >= cur)
  BY <1>1, <1>2, Constants DEF IInv, DeltaAhead
<1>5. cur \notin posting /\ \A p \in posting : p > cur => p >= vcur /\ vcur > cur
  BY <1>1, <1>2, <1>4
<1>6. CASE cur >= NumUniq + 1
  <2>1. /\ cur' = 0 /\ ret' = 0 /\ empty' = TRUE /\ out' = out /\ pc' = "ready"
    BY <1>1, <1>3, <1>6 DEF Return
  <2>2. out = Want
    <3>1. \A x \in Want : x < cur
      BY <1>2, <1>3, <1>6, Constants
    <3> QED BY <1>2, <3>1
  <2>3. TypeOK'
    BY <1>1, <1>2, <2>1, Constants DEF TypeOK, ValueId, Ids
  <2> QED BY <1>1, <1>2, <2>1, <2>2, <2>3 DEF IInv, ReturnedPrefix, DeltaAhead, Position
<1>7. CASE ~(cur >= NumUniq + 1)
  <2>1. cur \in Ids /\ cur <= NumUniq /\ cur # 0 /\ cur \in ValueId
    BY <1>2, <1>3, <1>7, Constants DEF Ids
  <2>2. /\ cur' = cur /\ ret' = cur /\ empty' = FALSE /\ out' = out \cup {cur} /\ pc' = "ready"
    BY <1>1, <1>3, <1>7, <2>1 DEF Return
  <2>3. out' = {x \in Want' : x <= cur'}
    <3>1. \A x \in Want : x \in Nat /\ (x <= cur <=> x < cur \/ x = cur)
      BY <1>2, Constants
    <3> QED BY <1>2, <1>5, <2>1, <2>2, <3>1
  <2>4. TypeOK'
    BY <1>1, <1>2, <2>1, <2>2 DEF TypeOK, ValueId, Ids
  <2> QED BY <1>1, <1>2, <1>5, <2>1, <2>2, <2>3, <2>4 DEF IInv, ReturnedPrefix, DeltaAhead, Position
<1> QED BY <1>6, <1>7

LEMMA NextInv == LastFits /\ IInv /\ [Next]_vars => IInv'
<1>1. IInv /\ UNCHANGED vars => IInv'
  BY DEF vars, IInv, TypeOK, ReturnedPrefix, DeltaAhead, Position, Want
<1> QED BY <1>1, EmptyNextInv, ValNextInv, NotEnterInv, NotSkipInv, NotLeaveInv DEF Next
-----------------------------------------------------------------------------
(***************************************************************************)
(* At every point between two calls a term has returned exactly the ids it *)
(* stands for up to its cur_id, and all of them once it is empty; in the   *)
(* loop of ddb_not_next the delta cursor stands at the key's next id.      *)
(***************************************************************************)
THEOREM TermSafety == LastFits => (Spec => []TermSafe)
<1> SUFFICES ASSUME LastFits PROVE Spec => []TermSafe
  OBVIOUS
<1>1. Init => IInv
  BY InitInv
<1>2. IInv /\ [Next]_vars => IInv'
  BY NextInv
<1>3. IInv => TermSafe
  BY DEF IInv, TermSafe
<1> QED BY <1>1, <1>2, <1>3, PTL DEF Spec

(***************************************************************************)
(* A term implements the ascending iterator that CnfCursor takes it for.   *)
(***************************************************************************)
THEOREM TermRefinesIter == LastFits => (Spec => Iter!Spec)
<1> SUFFICES ASSUME LastFits PROVE Spec => Iter!Spec
  OBVIOUS
<1>0. \A S : Iter!Min(S) = Min(S)
  BY DEF Iter!Min, Min
<1>1. Init => Iter!Init
  BY DEF Init, Iter!Init, Want, Ids
<1>2. ASSUME IInv, [Next]_vars PROVE [Iter!Next]_Iter!vars
  <2>1. /\ TypeOK /\ posting \subseteq Ids /\ Want \subseteq Ids /\ Want \in SUBSET Nat
        /\ cur \in Nat /\ vcur \in Nat
    BY <1>2, Constants DEF IInv, TypeOK, Want
  <2>2. Want' = Want
    BY <1>2 DEF Next, vars, Want, EmptyNext, ValNext, ViewNext, NotEnter, NotSkip, NotLeave
  <2>3. CASE EmptyNext
    BY <1>2, <2>2, <2>3 DEF EmptyNext, IInv, ReturnedPrefix, Iter!Next, Iter!End
  <2>4. CASE ValNext \/ ViewNext
    <3>1. /\ kind # "not" /\ pc = "ready" /\ ~empty /\ DeltaNext
          /\ Return(IF Left # {} THEN vcur' ELSE 0) /\ vcur = cur /\ Want = posting
          /\ out = {x \in posting : x <= vcur}
      BY <1>2, <2>4 DEF ValNext, ViewNext, IInv, Position, ReturnedPrefix, Want
    <3>2. Want \ out = Left
      <4>1. \A x \in posting : ~(x <= vcur) <=> x > vcur
        BY <2>1, Constants
      <4> QED BY <3>1, <4>1 DEF Left
    <3>3. CASE Left = {}
      BY <2>2, <3>1, <3>2, <3>3 DEF Return, Iter!Next, Iter!End
    <3>4. CASE Left # {}
      <4>1. vcur' = Min(Left) /\ vcur' # 0
        BY <2>1, <3>1, <3>4, DeltaNextSpec, Constants
      <4> QED BY <1>0, <2>2, <3>1, <3>2, <3>4, <4>1 DEF Return, Iter!Next, Iter!Deliver
    <3> QED BY <3>3, <3>4
  <2>5. CASE NotEnter \/ NotSkip
    BY <2>2, <2>5 DEF NotEnter, NotSkip, Iter!vars
  <2>6. CASE NotLeave
    <3>1. /\ kind = "not" /\ cur # vcur /\ Return(IF cur >= NumUniq + 1 THEN 0 ELSE cur)
          /\ out = {x \in Want : x < cur} /\ Want = Ids \ posting /\ 1 <= cur
      BY <1>2, <2>6, PlusOne, Constants DEF NotLeave, IInv, Position, Want
    <3>2. \A p \in posting : p \in Nat /\ (p >= cur => p >= vcur /\ vcur >= cur)
      BY <1>2, <2>1, <2>6, Constants DEF NotLeave, IInv, DeltaAhead
    <3>3. CASE cur >= NumUniq + 1
      <4>1. \A x \in Want : x < cur
        BY <2>1, <3>3, Constants
      <4>2. out = Want
        BY <3>1, <4>1
      <4> QED BY <2>2, <3>1, <3>3, <4>2 DEF Return, Iter!Next, Iter!End
    <3>4. CASE ~(cur >= NumUniq + 1)
      <4>1. cur \in Ids /\ cur # 0
        BY <2>1, <3>1, <3>4, Constants DEF Ids
      <4>2. cur \in Want \ out
        BY <2>1, <3>1, <3>2, <4>1
      <4>3. \A y \in Want \ out : cur <= y
        BY <2>1, <3>1
      <4>4. cur = Min(Want \ out)
        BY <2>1, <4>2, <4>3, MinIsUnique
      <4> QED BY <1>0, <2>2, <3>1, <3>4, <4>1, <4>2, <4>4 DEF Return, Iter!Next, Iter!Deliver
    <3> QED BY <3>3, <3>4
  <2>7. CASE UNCHANGED vars
    BY <2>2, <2>7 DEF vars, Iter!vars
  <2> QED BY <1>2, <2>3, <2>4, <2>5, <2>6, <2>7 DEF Next
<1>3. Init => IInv
  BY InitInv
<1>4. IInv /\ [Next]_vars => IInv'
  BY NextInv
<1> QED BY <1>1, <1>2, <1>3, <1>4, PTL DEF Spec, Iter!Spec
-----------------------------------------------------------------------------
(***************************************************************************)
(* Queries nest, and functions over them are defined by what is nested.    *)
(***************************************************************************)
\* What holds without nesting, and with one more if it holds with n, holds always.
LEMMA Deeper ==
  ASSUME NEW S, 0 \in S, \A n \in Nat : n \in S => n + 1 \in S
  PROVE  \A n \in Nat : n \in S
<1> SUFFICES ASSUME NEW m \in Nat, m \notin S PROVE FALSE
  OBVIOUS
<1> DEFINE D == {n \in Nat : n \notin S}
<1>1. D \in SUBSET Nat /\ D # {}
  OBVIOUS
<1>2. PICK n \in D : \A k \in D : n <= k
  <2> HIDE DEF D
  <2> QED BY <1>1, NatLeast
<1>3. n \in Nat /\ n # 0 /\ n \notin S
  BY <1>2
<1>4. n - 1 \in Nat /\ (n - 1) + 1 = n /\ ~(n <= n - 1)
  BY <1>3
<1>5. n - 1 \in S
  BY <1>2, <1>4
<1> QED BY <1>3, <1>4, <1>5

\* The queries whose terms are in Q.
Over(Q) == SUBSET SUBSET LiteralsOver(Q)

\* The first n + 1 sets of queries.
IsNested(g, n) == /\ g[0] = {{}}
                  /\ \A m \in Nat : m < n => g[m + 1] = Over(g[m])

\* There are such sets, for every n.
LEMMA NestedPrefix ==
  ASSUME NEW n \in Nat
  PROVE  \E g : IsNested(g, n)
<1> DEFINE S == {k \in Nat : \E g : IsNested(g, k)}
<1>1. 0 \in S
  <2> DEFINE g == [m \in {0} |-> {{}}]
  <2>1. IsNested(g, 0)
    BY DEF IsNested
  <2> HIDE DEF g
  <2> QED BY <2>1
<1>2. ASSUME NEW k \in Nat, k \in S PROVE k + 1 \in S
  <2>1. PICK g : IsNested(g, k)
    BY <1>2
  <2> DEFINE h == [m \in 0 .. k + 1 |-> IF m = k + 1 THEN Over(g[k]) ELSE g[m]]
  <2>2. h[0] = {{}}
    BY <2>1 DEF IsNested
  <2>3. ASSUME NEW m \in Nat, m < k + 1 PROVE h[m + 1] = Over(h[m])
    <3>1. CASE m = k
      BY <3>1
    <3>2. CASE m # k
      <4>1. m < k /\ m + 1 \in 0 .. k + 1 /\ m \in 0 .. k + 1 /\ m + 1 # k + 1 /\ m # k + 1
        BY <2>3, <3>2
      <4>2. h[m + 1] = g[m + 1] /\ h[m] = g[m]
        BY <4>1
      <4>3. g[m + 1] = Over(g[m])
        BY <2>1, <4>1 DEF IsNested
      <4> QED BY <4>2, <4>3
    <3> QED BY <3>1, <3>2
  <2> HIDE DEF h
  <2>4. IsNested(h, k + 1)
    BY <2>2, <2>3 DEF IsNested
  <2> QED BY <2>4
<1> HIDE DEF S
<1>3. n \in S
  BY <1>1, <1>2, Deeper
<1> QED BY <1>3 DEF S

\* They are what they are, however many follow.
LEMMA NestedSame ==
  ASSUME NEW n \in Nat, NEW k \in Nat, NEW g, NEW h, IsNested(g, n), IsNested(h, k)
  PROVE  \A m \in Nat : m <= n /\ m <= k => g[m] = h[m]
<1> DEFINE S == {m \in Nat : m <= n /\ m <= k => g[m] = h[m]}
<1>1. 0 \in S
  BY DEF IsNested
<1>2. ASSUME NEW m \in Nat, m \in S PROVE m + 1 \in S
  <2>1. CASE m + 1 <= n /\ m + 1 <= k
    <3>1. m < n /\ m < k /\ m <= n /\ m <= k
      BY <2>1
    <3>2. g[m + 1] = Over(g[m]) /\ h[m + 1] = Over(h[m])
      BY <3>1 DEF IsNested
    <3>3. g[m] = h[m]
      BY <1>2, <3>1
    <3> QED BY <3>2, <3>3
  <2>2. CASE ~(m + 1 <= n /\ m + 1 <= k)
    BY <2>2
  <2> QED BY <2>1, <2>2
<1> HIDE DEF S
<1>3. \A m \in Nat : m \in S
  BY <1>1, <1>2, Deeper
<1> QED BY <1>3 DEF S

\* The equation of Nested holds.
LEMMA NestedIs == /\ Nested[0] = {{}}
                  /\ \A n \in Nat : Nested[n + 1] = Over(Nested[n])
<1> DEFINE part(n) == CHOOSE g : IsNested(g, n)
           all == [n \in Nat |-> part(n)[n]]
<1>1. \A n \in Nat : IsNested(part(n), n)
  BY NestedPrefix
<1> HIDE DEF part
<1>2. all[0] = {{}}
  BY <1>1 DEF IsNested
<1>3. ASSUME NEW n \in Nat PROVE all[n + 1] = Over(all[n])
  <2>1. n + 1 \in Nat /\ n < n + 1 /\ n <= n /\ n <= n + 1
    OBVIOUS
  <2>2. IsNested(part(n), n) /\ IsNested(part(n + 1), n + 1)
    BY <1>1, <2>1
  <2>3. part(n)[n] = part(n + 1)[n]
    BY <2>1, <2>2, NestedSame
  <2>4. part(n + 1)[n + 1] = Over(part(n + 1)[n])
    BY <2>1, <2>2 DEF IsNested
  <2> QED BY <2>1, <2>3, <2>4
<1> DEFINE body(f) == [n \in Nat |-> IF n = 0 THEN {{}} ELSE SUBSET SUBSET LiteralsOver(f[n - 1])]
<1>4. all = body(all)
  <2>1. ASSUME NEW n \in Nat PROVE all[n] = body(all)[n]
    <3>1. CASE n = 0
      BY <1>2, <3>1
    <3>2. CASE n # 0
      <4>1. n - 1 \in Nat /\ (n - 1) + 1 = n
        BY <3>2
      <4>2. all[n] = Over(all[n - 1])
        BY <1>3, <4>1
      <4> HIDE DEF all
      <4>3. body(all)[n] = SUBSET SUBSET LiteralsOver(all[n - 1])
        BY <3>2
      <4> QED BY <4>2, <4>3 DEF Over
    <3> QED BY <3>1, <3>2
  <2>2. all = [n \in Nat |-> all[n]]
    OBVIOUS
  <2> HIDE DEF all
  <2>3. body(all) = [n \in Nat |-> body(all)[n]]
    OBVIOUS
  <2> HIDE DEF body
  <2> QED BY <2>1, <2>2, <2>3
<1> HIDE DEF all
<1>5. \E f : f = [n \in Nat |-> IF n = 0 THEN {{}} ELSE SUBSET SUBSET LiteralsOver(f[n - 1])]
  BY <1>4
<1>6. Nested = [n \in Nat |-> IF n = 0 THEN {{}} ELSE SUBSET SUBSET LiteralsOver(Nested[n - 1])]
  BY <1>5 DEF Nested
<1> HIDE DEF body
<1>7. Nested[0] = {{}}
  BY <1>6
<1>8. ASSUME NEW n \in Nat PROVE Nested[n + 1] = Over(Nested[n])
  <2>1. n + 1 \in Nat /\ n + 1 # 0 /\ (n + 1) - 1 = n
    OBVIOUS
  <2>2. Nested[n + 1] = SUBSET SUBSET LiteralsOver(Nested[(n + 1) - 1])
    BY <1>6, <2>1
  <2> QED BY <2>1, <2>2 DEF Over
<1> QED BY <1>7, <1>8

\* A query may also be taken to nest deeper.
LEMMA NestedRises ==
  ASSUME NEW n \in Nat
  PROVE  Nested[n] \subseteq Nested[n + 1] /\ {} \in Nested[n]
<1>1. \A k \in Nat : {} \in Nested[k]
  <2>1. \A k \in Nat : {} \in Nested[k + 1]
    BY NestedIs DEF Over
  <2>2. ASSUME NEW k \in Nat PROVE {} \in Nested[k]
    <3>1. CASE k = 0
      BY <3>1, NestedIs
    <3>2. CASE k # 0
      <4>1. k - 1 \in Nat /\ (k - 1) + 1 = k
        BY <3>2
      <4> QED BY <2>1, <4>1
    <3> QED BY <3>1, <3>2
  <2> QED BY <2>2
<1> DEFINE S == {k \in Nat : Nested[k] \subseteq Nested[k + 1]}
<1>2. 0 \in S
  <2>1. {} \in Nested[0 + 1]
    BY <1>1
  <2> QED BY <2>1, NestedIs
<1>3. ASSUME NEW k \in Nat, k \in S PROVE k + 1 \in S
  <2>1. LiteralsOver(Nested[k]) \subseteq LiteralsOver(Nested[k + 1])
    BY <1>3 DEF LiteralsOver
  <2>2. Over(Nested[k]) \subseteq Over(Nested[k + 1])
    BY <2>1 DEF Over
  <2>3. k + 1 \in Nat /\ Nested[k + 1] = Over(Nested[k]) /\ Nested[(k + 1) + 1] = Over(Nested[k + 1])
    BY NestedIs
  <2> QED BY <2>2, <2>3
<1> HIDE DEF S
<1>4. n \in S
  BY <1>2, <1>3, Deeper
<1> QED BY <1>1, <1>4 DEF S

LEMMA NestedIn ==
  ASSUME NEW n \in Nat, NEW k \in Nat, k <= n
  PROVE  Nested[k] \subseteq Nested[n]
<1> DEFINE S == {d \in Nat : Nested[k] \subseteq Nested[k + d]}
<1>1. 0 \in S
  OBVIOUS
<1>2. ASSUME NEW d \in Nat, d \in S PROVE d + 1 \in S
  <2>1. Nested[k + d] \subseteq Nested[(k + d) + 1]
    BY NestedRises
  <2>2. (k + d) + 1 = k + (d + 1)
    OBVIOUS
  <2> QED BY <1>2, <2>1, <2>2
<1> HIDE DEF S
<1>3. n - k \in Nat /\ k + (n - k) = n
  OBVIOUS
<1>4. n - k \in S
  BY <1>1, <1>2, <1>3, Deeper
<1> QED BY <1>3, <1>4 DEF S

\* What stands behind a literal nests less.
LEMMA TermNests ==
  ASSUME NEW n \in Nat, NEW q \in Nested[n + 1], NEW c \in q, NEW l \in c
  PROVE  l.of \in Nested[n] /\ l \in LiteralsOver(Nested[n])
<1>1. l \in LiteralsOver(Nested[n])
  BY NestedIs DEF Over
<1>2. {} \in Nested[n]
  BY NestedRises
<1> QED BY <1>1, <1>2 DEF LiteralsOver

\* The terms of a query are queries too, however deep queries may nest.
LEMMA TermIsQuery ==
  ASSUME NEW q \in Queries, NEW c \in q, NEW l \in c
  PROVE  l.of \in Queries /\ l \in LiteralsOver(Queries)
<1>1. MaxOps \in Nat
  BY QueryAlgebraAssumption
<1>2. l.of \in Nested[MaxOps] /\ l \in LiteralsOver(Nested[MaxOps])
  BY <1>1, TermNests DEF Queries
<1>3. Nested[MaxOps] \subseteq Queries
  BY <1>1, NestedRises DEF Queries
<1> QED BY <1>2, <1>3 DEF LiteralsOver

\* G says what a function f over the queries, with values in V, is for a query q, by
\* what it is for the terms of q.
ByItsTerms(G, V) ==
  /\ V # {}
  /\ \A f \in [Queries -> V], q \in Queries : G[<<f, q>>] \in V
  /\ \A f, g \in [Queries -> V], q \in Queries :
       (\A c \in q : \A l \in c : f[l.of] = g[l.of]) => G[<<f, q>>] = G[<<g, q>>]

Defined(f, G, V) == f \in [Queries -> V] /\ f = [q \in Queries |-> G[<<f, q>>]]

\* There is such a function.
LEMMA DefinedByTerms ==
  ASSUME NEW V, NEW G, ByItsTerms(G, V)
  PROVE  \E f : Defined(f, G, V)
<1> USE DEF ByItsTerms
<1> DEFINE Good(f, Q) == f \in [Queries -> V] /\ \A q \in Queries : q \in Q => f[q] = G[<<f, q>>]
           next(f) == [q \in Queries |-> G[<<f, q>>]]
           S == {n \in Nat : \E f : Good(f, Nested[n])}
<1>1. \A f \in [Queries -> V] : next(f) \in [Queries -> V] /\ \A q \in Queries : next(f)[q] = G[<<f, q>>]
  OBVIOUS
<1> HIDE DEF next
<1>2. 0 \in S
  <2>1. PICK v \in V : TRUE
    OBVIOUS
  <2>2. PICK f \in [Queries -> V] : TRUE
    <3>1. [q \in Queries |-> v] \in [Queries -> V]
      OBVIOUS
    <3> QED BY <3>1
  <2>3. Good(next(f), Nested[0])
    <3>1. next(f) \in [Queries -> V] /\ \A q \in Queries : next(f)[q] = G[<<f, q>>]
      BY <1>1
    <3>2. ASSUME NEW q \in Queries, q \in Nested[0] PROVE next(f)[q] = G[<<next(f), q>>]
      <4>1. q = {}
        BY <3>2, NestedIs
      <4>2. \A c \in q : \A l \in c : f[l.of] = next(f)[l.of]
        BY <4>1
      <4>3. G[<<f, q>>] = G[<<next(f), q>>]
        BY <3>1, <4>2
      <4> QED BY <3>1, <4>3
    <3> QED BY <3>1, <3>2
  <2> HIDE DEF Good
  <2> QED BY <2>3
<1>3. ASSUME NEW n \in Nat, n \in S PROVE n + 1 \in S
  <2>1. PICK f : Good(f, Nested[n])
    BY <1>3
  <2>2. next(f) \in [Queries -> V] /\ \A q \in Queries : next(f)[q] = G[<<f, q>>]
    BY <1>1, <2>1
  <2>3. ASSUME NEW q \in Queries, q \in Nested[n + 1] PROVE next(f)[q] = G[<<next(f), q>>]
    <3>1. \A c \in q : \A l \in c : l.of \in Nested[n] /\ l.of \in Queries
      BY <2>3, TermNests, TermIsQuery
    <3>2. \A c \in q : \A l \in c : f[l.of] = next(f)[l.of]
      <4>1. \A p \in Queries : p \in Nested[n] => f[p] = next(f)[p]
        BY <2>1, <2>2
      <4> QED BY <3>1, <4>1
    <3>3. G[<<f, q>>] = G[<<next(f), q>>]
      BY <2>1, <2>2, <3>2
    <3> QED BY <2>2, <3>3
  <2>4. Good(next(f), Nested[n + 1])
    BY <2>2, <2>3
  <2> HIDE DEF Good
  <2> QED BY <2>4
<1>4. PICK f : Good(f, Queries)
  <2>1. MaxOps + 1 \in Nat
    BY QueryAlgebraAssumption
  <2> HIDE DEF Good, S
  <2>2. MaxOps + 1 \in S
    BY <1>2, <1>3, <2>1, Deeper
  <2> QED BY <2>2 DEF S, Queries
<1>5. f = [q \in Queries |-> G[<<f, q>>]]
  <2>1. f = [q \in Queries |-> f[q]] /\ \A q \in Queries : f[q] = G[<<f, q>>]
    BY <1>4
  <2> QED BY <2>1
<1> QED BY <1>4, <1>5 DEF Defined

\* What holds of every query whose terms it holds of holds of all.
LEMMA ByTerms ==
  ASSUME NEW S, \A q \in Queries : (\A c \in q : \A l \in c : l.of \in S) => q \in S
  PROVE  Queries \subseteq S
<1> DEFINE D == {n \in Nat : \A q \in Nested[n] : q \in Queries => q \in S}
<1>1. 0 \in D
  <2>1. \A q \in Nested[0] : q = {}
    BY NestedIs
  <2> QED BY <2>1
<1>2. ASSUME NEW n \in Nat, n \in D PROVE n + 1 \in D
  <2>1. ASSUME NEW q \in Nested[n + 1], q \in Queries PROVE q \in S
    <3>1. \A c \in q : \A l \in c : l.of \in Nested[n] /\ l.of \in Queries
      BY <2>1, TermNests, TermIsQuery
    <3>2. \A c \in q : \A l \in c : l.of \in S
      BY <1>2, <3>1
    <3> QED BY <2>1, <3>2
  <2> QED BY <2>1
<1>3. MaxOps + 1 \in Nat
  BY QueryAlgebraAssumption
<1> HIDE DEF D
<1>4. MaxOps + 1 \in D
  BY <1>1, <1>2, <1>3, Deeper
<1> QED BY <1>4 DEF D, Queries
-----------------------------------------------------------------------------
(***************************************************************************)
(* What the operators of query.py mean, whatever makes a literal true: T   *)
(* is the set of the true ones.                                            *)
(***************************************************************************)
Meets(q, T) == \A c \in q : \E l \in c : l \in T

\* A choice of a family takes one element of each set; the rest of a clause is its range.
LEMMA ChoiceIn ==
  ASSUME NEW F, NEW f \in Selections(F), NEW x \in DOMAIN F
  PROVE  f[x] \in F[x] /\ f[x] \in Range(f) /\ DOMAIN f = DOMAIN F
BY DEF Selections, Range

\* Whatever sets a family has none of which is empty, an element can be chosen by a function.
LEMMA ChoiceExists ==
  ASSUME NEW F, NEW e, \A x \in DOMAIN F : e[x] \in F[x]
  PROVE  [x \in DOMAIN F |-> e[x]] \in Selections(F)
<1> DEFINE f == [x \in DOMAIN F |-> e[x]]
<1>1. \A x \in DOMAIN F : F[x] \in Range(F)
  BY DEF Range
<1>2. \A x \in DOMAIN F : e[x] \in UNION Range(F)
  BY <1>1
<1>3. f \in [DOMAIN F -> UNION Range(F)]
  BY <1>2
<1> QED BY <1>3 DEF Selections

\* Q.__and__.
LEMMA AndMeets ==
  ASSUME NEW p, NEW q, NEW T
  PROVE  Meets(And(p, q), T) <=> Meets(p, T) /\ Meets(q, T)
BY DEF Meets, And

\* Q.__or__.
LEMMA OrMeets ==
  ASSUME NEW p, NEW q, NEW T
  PROVE  Meets(Or(p, q), T) <=> Meets(p, T) \/ Meets(q, T)
<1>1. ASSUME Meets(p, T) \/ Meets(q, T)
      PROVE  Meets(Or(p, q), T)
  BY <1>1 DEF Meets, Or
<1>2. ASSUME ~Meets(p, T), ~Meets(q, T)
      PROVE  ~Meets(Or(p, q), T)
  <2>1. PICK c \in p : \A l \in c : l \notin T
    BY <1>2 DEF Meets
  <2>2. PICK d \in q : \A l \in d : l \notin T
    BY <1>2 DEF Meets
  <2>3. c \cup d \in Or(p, q)
    BY DEF Or
  <2> QED BY <2>1, <2>2, <2>3 DEF Meets
<1> QED BY <1>1, <1>2

\* The reductions of Q.__invert__ and Clause.resolve.
LEMMA OrAllMeets ==
  ASSUME NEW F, NEW T
  PROVE  Meets(OrAll(F), T) <=> \E x \in DOMAIN F : Meets(F[x], T)
<1>1. ASSUME NEW x \in DOMAIN F, Meets(F[x], T)
      PROVE  Meets(OrAll(F), T)
  <2> SUFFICES ASSUME NEW f \in Selections(F)
               PROVE  \E l \in UNION Range(f) : l \in T
    BY DEF Meets, OrAll
  <2>1. f[x] \in F[x] /\ f[x] \in Range(f)
    BY ChoiceIn
  <2> QED BY <1>1, <2>1 DEF Meets
<1>2. ASSUME \A x \in DOMAIN F : ~Meets(F[x], T)
      PROVE  ~Meets(OrAll(F), T)
  <2> DEFINE Failing(x) == CHOOSE c \in F[x] : \A l \in c : l \notin T
             e == [x \in DOMAIN F |-> Failing(x)]
             f == [x \in DOMAIN F |-> e[x]]
  <2>1. \A x \in DOMAIN F : Failing(x) \in F[x] /\ \A l \in Failing(x) : l \notin T
    BY <1>2 DEF Meets
  <2>2. \A x \in DOMAIN F : e[x] \in F[x]
    BY <2>1
  <2>3. f \in Selections(F)
    <3> HIDE DEF e
    <3> QED BY <2>2, ChoiceExists
  <2>4. UNION Range(f) \in OrAll(F)
    BY <2>3 DEF OrAll
  <2>5. \A l \in UNION Range(f) : l \notin T
    BY <2>1 DEF Range
  <2> QED BY <2>4, <2>5 DEF Meets
<1> QED BY <1>1, <1>2

\* Clause.__invert__, where T has a literal or its inversion.
LEMMA InvertClauseMeets ==
  ASSUME NEW c, NEW T, \A l \in c : InvertLiteral(l) \in T <=> l \notin T
  PROVE  Meets(InvertClause(c), T) <=> \A l \in c : l \notin T
<1>1. \A d \in InvertClause(c) : \E l \in c : d = {InvertLiteral(l)}
  BY DEF InvertClause
<1>2. \A l \in c : {InvertLiteral(l)} \in InvertClause(c)
  BY DEF InvertClause
<1>3. \A l \in c : (\E k \in {InvertLiteral(l)} : k \in T) <=> InvertLiteral(l) \in T
  OBVIOUS
<1>4. Meets(InvertClause(c), T) <=> \A l \in c : InvertLiteral(l) \in T
  <2>1. ASSUME Meets(InvertClause(c), T), NEW l \in c PROVE InvertLiteral(l) \in T
    <3> DEFINE d == {InvertLiteral(l)}
    <3>1. \E k \in d : k \in T
      <4>1. d \in InvertClause(c)
        BY <1>2
      <4> HIDE DEF d
      <4> QED BY <2>1, <4>1 DEF Meets
    <3> QED BY <3>1
  <2>2. ASSUME \A l \in c : InvertLiteral(l) \in T PROVE Meets(InvertClause(c), T)
    <3> SUFFICES ASSUME NEW d \in InvertClause(c) PROVE \E k \in d : k \in T
      BY DEF Meets
    <3>1. PICK l \in c : d = {InvertLiteral(l)}
      BY <1>1
    <3>2. InvertLiteral(l) \in d /\ InvertLiteral(l) \in T
      BY <2>2, <3>1
    <3> QED BY <3>2
  <2> QED BY <2>1, <2>2
<1> QED BY <1>4

\* Q.__invert__; a query without clauses is its own inversion.
LEMMA InvertMeets ==
  ASSUME NEW q, q # {}, NEW T, \A c \in q : \A l \in c : InvertLiteral(l) \in T <=> l \notin T
  PROVE  Meets(Invert(q), T) <=> ~Meets(q, T)
<1> DEFINE F == [c \in q |-> InvertClause(c)]
<1>1. Meets(OrAll(F), T) <=> \E c \in q : Meets(F[c], T)
  <2> HIDE DEF F
  <2>1. Meets(OrAll(F), T) <=> \E c \in DOMAIN F : Meets(F[c], T)
    BY OrAllMeets
  <2>2. DOMAIN F = q
    BY DEF F
  <2> QED BY <2>1, <2>2
<1>2. \A c \in q : Meets(F[c], T) <=> \A l \in c : l \notin T
  BY InvertClauseMeets
<1>3. Invert(q) = OrAll(F)
  BY DEF Invert
<1> QED BY <1>1, <1>2, <1>3 DEF Meets

\* The literals that hold are such a set.
LEMMA SatisfiedMeets ==
  ASSUME NEW q, NEW keys, NEW U, UNION q \subseteq U
  PROVE  Satisfied(q, keys) <=> Meets(q, {l \in U : Holds(l, keys)})
BY DEF Satisfied, Meets

\* A literal and its inversion are never satisfied together, and one of them is.
LEMMA InvertLiteralSound ==
  ASSUME NEW l, l.negated \in BOOLEAN, NEW keys
  PROVE  Holds(InvertLiteral(l), keys) <=> ~Holds(l, keys)
<1>1. (l.key \in keys) \in BOOLEAN
  OBVIOUS
<1>2. InvertLiteral(l).key = l.key /\ InvertLiteral(l).negated = ~l.negated
  BY DEF InvertLiteral
<1> QED BY <1>1, <1>2 DEF Holds

(***************************************************************************)
(* The reductions of Q.__invert__ and Clause.resolve: a disjunction of any *)
(* number of queries is satisfied just when one of them is.                *)
(***************************************************************************)
THEOREM OrAllSound ==
  ASSUME NEW F, NEW keys
  PROVE  Satisfied(OrAll(F), keys) <=> \E x \in DOMAIN F : Satisfied(F[x], keys)
<1> DEFINE joined == UNION OrAll(F)
           given == UNION {UNION F[x] : x \in DOMAIN F}
           U == joined \cup given
           T == {l \in U : Holds(l, keys)}
<1>1. UNION OrAll(F) \subseteq U /\ \A x \in DOMAIN F : UNION F[x] \subseteq U
  <2>1. \A x \in DOMAIN F : UNION F[x] \subseteq given
    OBVIOUS
  <2> HIDE DEF given
  <2>2. joined \subseteq U /\ given \subseteq U
    <3> HIDE DEF joined
    <3> QED OBVIOUS
  <2> HIDE DEF U
  <2> QED BY <2>1, <2>2
<1> HIDE DEF U
<1>2. Satisfied(OrAll(F), keys) <=> Meets(OrAll(F), T)
  BY <1>1, SatisfiedMeets
<1>3. \A x \in DOMAIN F : Satisfied(F[x], keys) <=> Meets(F[x], T)
  BY <1>1, SatisfiedMeets
<1> HIDE DEF T
<1> QED BY <1>2, <1>3, OrAllMeets

(***************************************************************************)
(* Q.__invert__: whatever number of clauses a query has, and of literals   *)
(* in them, its inversion is satisfied just when the query is not.  A      *)
(* query without clauses is the exception: it is its own inversion.        *)
(***************************************************************************)
THEOREM InvertSound ==
  ASSUME NEW q, q # {}, \A c \in q : \A l \in c : l.negated \in BOOLEAN, NEW keys
  PROVE  Satisfied(Invert(q), keys) <=> ~Satisfied(q, keys)
<1> DEFINE literals == UNION q
           inverted == UNION Invert(q)
           others == {InvertLiteral(l) : l \in literals}
           U == inverted \cup literals \cup others
           T == {l \in U : Holds(l, keys)}
<1>1. inverted \subseteq U /\ literals \subseteq U /\ others \subseteq U
  <2> HIDE DEF inverted, literals, others
  <2> QED OBVIOUS
<1>2. \A c \in q : \A l \in c : InvertLiteral(l) \in U /\ l \in U
  <2>1. \A c \in q : \A l \in c : l \in literals
    OBVIOUS
  <2>2. \A l \in literals : InvertLiteral(l) \in others
    <3> HIDE DEF literals
    <3> QED OBVIOUS
  <2> HIDE DEF literals, others, U
  <2> QED BY <1>1, <2>1, <2>2
<1> HIDE DEF U
<1>3. \A c \in q : \A l \in c : InvertLiteral(l) \in T <=> l \notin T
  BY <1>2, InvertLiteralSound
<1>4. Satisfied(Invert(q), keys) <=> Meets(Invert(q), T)
  BY <1>1, SatisfiedMeets
<1>5. Satisfied(q, keys) <=> Meets(q, T)
  BY <1>1, SatisfiedMeets
<1> HIDE DEF T
<1> QED BY <1>3, <1>4, <1>5, InvertMeets
-----------------------------------------------------------------------------
(***************************************************************************)
(* The values a query asks for, by its terms.                              *)
(***************************************************************************)
\* The values of a literal that is not negated, of the query behind it those in `of'.
AsksFor(l, of) == IF l.key = Deref THEN UNION {db[w] : w \in of} ELSE db[l.key]

IsTrue(l, v, of) == (v \in AsksFor(l, of)) # l.negated

Meaning[q \in Queries] ==
  IF q = {} THEN {} ELSE {v \in Values : \A c \in q : \E l \in c : IsTrue(l, v, Meaning[l.of])}

\* The literals that are true for a value.
TrueFor(v) == {l \in LiteralsOver(Queries) : IsTrue(l, v, Meaning[l.of])}

MeantBy(f, q) == IF q = {} THEN {} ELSE {v \in Values : \A c \in q : \E l \in c : IsTrue(l, v, f[l.of])}

\* The equation of Meaning holds; only values of the database are meant.
LEMMA MeaningIs ==
  /\ \A q \in Queries : Meaning[q] = MeantBy(Meaning, q)
  /\ \A q \in Queries : Meaning[q] \subseteq Values
<1> DEFINE V == SUBSET Values
           G == [p \in [Queries -> V] \X Queries |-> MeantBy(p[1], p[2])]
<1>1. \A f \in [Queries -> V], q \in Queries : G[<<f, q>>] = MeantBy(f, q)
  OBVIOUS
<1>2. \A f \in [Queries -> V], q \in Queries : MeantBy(f, q) \in V
  BY DEF MeantBy
<1>3. ASSUME NEW f \in [Queries -> V], NEW g \in [Queries -> V], NEW q \in Queries,
             \A c \in q : \A l \in c : f[l.of] = g[l.of]
      PROVE  MeantBy(f, q) = MeantBy(g, q)
  <2>1. \A v \in Values : \A c \in q : \A l \in c : IsTrue(l, v, f[l.of]) <=> IsTrue(l, v, g[l.of])
    BY <1>3
  <2>2. \A v \in Values : (\A c \in q : \E l \in c : IsTrue(l, v, f[l.of]))
                            <=> (\A c \in q : \E l \in c : IsTrue(l, v, g[l.of]))
    BY <2>1
  <2> QED BY <2>2 DEF MeantBy
<1>4. V # {}
  OBVIOUS
<1> HIDE DEF G, V
<1>5. \A f \in [Queries -> V], q \in Queries : G[<<f, q>>] \in V
  BY <1>1, <1>2
<1>6. \A f, g \in [Queries -> V], q \in Queries :
        (\A c \in q : \A l \in c : f[l.of] = g[l.of]) => G[<<f, q>>] = G[<<g, q>>]
  BY <1>1, <1>3
<1>7. PICK f : Defined(f, G, V)
  <2>1. ByItsTerms(G, V)
    BY <1>4, <1>5, <1>6 DEF ByItsTerms
  <2> QED BY <2>1, DefinedByTerms
<1>8. f = [q \in Queries |-> MeantBy(f, q)]
  <2>1. [q \in Queries |-> G[<<f, q>>]] = [q \in Queries |-> MeantBy(f, q)]
    BY <1>1, <1>7 DEF Defined
  <2> QED BY <1>7, <2>1 DEF Defined
<1>9. Meaning = [q \in Queries |-> MeantBy(Meaning, q)]
  BY <1>8 DEF Meaning, MeantBy
<1>10. \A q \in Queries : Meaning[q] = MeantBy(Meaning, q)
  BY <1>9
<1>11. \A q \in Queries : MeantBy(Meaning, q) \subseteq Values
  BY DEF MeantBy
<1> QED BY <1>10, <1>11

\* A query with clauses means the values for which it has a true literal in every clause.
LEMMA Means ==
  ASSUME NEW q \in Queries, NEW v \in Values
  PROVE  v \in Meaning[q] <=> q # {} /\ Meets(q, TrueFor(v))
<1>1. \A c \in q : \A l \in c : l \in LiteralsOver(Queries)
  BY TermIsQuery
<1>2. \A c \in q : \A l \in c : l \in TrueFor(v) <=> IsTrue(l, v, Meaning[l.of])
  BY <1>1 DEF TrueFor
<1>3. Meets(q, TrueFor(v)) <=> \A c \in q : \E l \in c : IsTrue(l, v, Meaning[l.of])
  BY <1>2 DEF Meets
<1>4. v \in MeantBy(Meaning, q) <=> q # {} /\ \A c \in q : \E l \in c : IsTrue(l, v, Meaning[l.of])
  BY DEF MeantBy
<1> QED BY <1>3, <1>4, MeaningIs

\* A literal or its inversion is true, and not both.
LEMMA OneIsTrue ==
  ASSUME NEW l \in LiteralsOver(Queries), NEW v
  PROVE  InvertLiteral(l) \in TrueFor(v) <=> l \notin TrueFor(v)
<1>1. l \in LiteralsOver(Queries)
  OBVIOUS
<1>2. InvertLiteral(l) \in LiteralsOver(Queries)
  BY <1>1 DEF LiteralsOver, InvertLiteral
<1>3. /\ InvertLiteral(l).key = l.key /\ InvertLiteral(l).of = l.of
      /\ InvertLiteral(l).negated = ~l.negated /\ l.negated \in BOOLEAN
  BY <1>1 DEF LiteralsOver, InvertLiteral
<1>4. AsksFor(InvertLiteral(l), Meaning[l.of]) = AsksFor(l, Meaning[l.of])
  BY <1>3 DEF AsksFor
<1>5. (v \in AsksFor(l, Meaning[l.of])) \in BOOLEAN
  OBVIOUS
<1>6. IsTrue(InvertLiteral(l), v, Meaning[l.of]) <=> ~IsTrue(l, v, Meaning[l.of])
  BY <1>3, <1>4, <1>5 DEF IsTrue
<1> QED BY <1>1, <1>2, <1>3, <1>6 DEF TrueFor

\* It changes with the database only.
LEMMA SameMeaning ==
  ASSUME db' = db
  PROVE  Meaning' = Meaning /\ Values' = Values
<1>1. Values' = Values
  BY DEF Values
<1>2. Meaning' = Meaning
  BY <1>1 DEF Meaning, IsTrue, AsksFor
<1> QED BY <1>1, <1>2
-----------------------------------------------------------------------------
(***************************************************************************)
(* Resolving.                                                              *)
(***************************************************************************)
\* The queries of keys only.
Flat == [key : Keys, of : {{}}, negated : BOOLEAN]
FlatQueries == SUBSET SUBSET Flat

\* What is a database.
LEMMA DbIs ==
  ASSUME db \in Dbs
  PROVE  /\ db \in [Keys -> SUBSET Keys] /\ Values \subseteq Keys /\ Deref \notin Keys
         /\ \A k \in Keys : db[k] \subseteq Values
<1>1. db \in [Keys -> SUBSET Keys] /\ Deref \notin Keys
  BY QueryAlgebraAssumption
<1>2. Range(db) = {db[k] : k \in Keys}
  BY <1>1 DEF Range
<1> QED BY <1>1, <1>2 DEF Values

\* They are among the literals of queries.
LEMMA FlatIs ==
  ASSUME db \in Dbs
  PROVE  /\ Flat \subseteq LiteralsOver(Queries)
         /\ \A l \in LiteralsOver(Queries) : l.key # Deref => l \in Flat
         /\ \A l \in LiteralsOver(Queries) : l.of \in Queries /\ l.negated \in BOOLEAN
         /\ \A l \in Flat : l.key \in Keys /\ l.key # Deref /\ l.of = {} /\ l.negated \in BOOLEAN
<1>1. {} \in Queries
  BY NestedRises, QueryAlgebraAssumption DEF Queries
<1> QED BY <1>1, DbIs DEF Flat, LiteralsOver

\* A literal that is a key is true for the values of the key.
LEMMA KeyIsTrue ==
  ASSUME db \in Dbs, NEW l \in Flat, NEW v
  PROVE  l \in TrueFor(v) <=> (v \in db[l.key]) # l.negated
BY FlatIs DEF TrueFor, IsTrue, AsksFor

\* So is a value where it is a key.
LEMMA ValueIsTrue ==
  ASSUME db \in Dbs, NEW w \in Keys, NEW v
  PROVE  Literal(w) \in Flat /\ (Literal(w) \in TrueFor(v) <=> v \in db[w])
<1>1. Literal(w) \in Flat /\ Literal(w).key = w /\ Literal(w).negated = FALSE
  BY DEF Literal, Flat
<1>2. Literal(w) \in TrueFor(v) <=> (v \in db[w]) # FALSE
  BY <1>1, KeyIsTrue
<1>3. (v \in db[w]) \in BOOLEAN
  OBVIOUS
<1>4. ((v \in db[w]) # FALSE) <=> v \in db[w]
  BY <1>3
<1> QED BY <1>1, <1>2, <1>4

\* What the library answers is what the query means.
LEMMA Answers ==
  ASSUME db \in Dbs, NEW p \in FlatQueries
  PROVE  /\ Answer(p) \subseteq Values
         /\ \A v \in Values : v \in Answer(p) <=> p # {} /\ Meets(p, TrueFor(v))
<1>1. Answer(p) \subseteq Values
  BY DEF Answer
<1>2. ASSUME NEW v \in Values PROVE v \in Answer(p) <=> p # {} /\ Meets(p, TrueFor(v))
  <2> DEFINE keys == {k \in Keys : v \in db[k]}
  <2>1. ASSUME NEW c \in p, NEW l \in c PROVE Holds(l, keys) <=> l \in TrueFor(v)
    <3>1. l \in Flat
      BY DEF FlatQueries
    <3>2. l.key \in keys <=> v \in db[l.key]
      BY <3>1, FlatIs
    <3> QED BY <3>1, <3>2, KeyIsTrue DEF Holds
  <2>2. Satisfied(p, keys) <=> Meets(p, TrueFor(v))
    <3> HIDE DEF keys
    <3> QED BY <2>1 DEF Satisfied, Meets
  <2> QED BY <2>2 DEF Answer
<1> QED BY <1>1, <1>2

\* Disjunctions of queries of keys are such queries, and have clauses if those have.
LEMMA OrAllFlat ==
  ASSUME NEW F, \A x \in DOMAIN F : F[x] \in FlatQueries
  PROVE  /\ OrAll(F) \in FlatQueries
         /\ (\A x \in DOMAIN F : F[x] # {}) => OrAll(F) # {}
<1>1. ASSUME NEW f \in Selections(F) PROVE UNION Range(f) \subseteq Flat
  <2>1. \A x \in DOMAIN f : f[x] \in F[x] /\ F[x] \in FlatQueries
    <3>1. DOMAIN f = DOMAIN F
      BY DEF Selections
    <3>2. \A x \in DOMAIN F : f[x] \in F[x]
      BY ChoiceIn
    <3> QED BY <3>1, <3>2
  <2>2. \A c \in Range(f) : c \in SUBSET Flat
    BY <2>1 DEF Range, FlatQueries
  <2> QED BY <2>2
<1>2. OrAll(F) \in FlatQueries
  BY <1>1 DEF OrAll, FlatQueries
<1>3. ASSUME \A x \in DOMAIN F : F[x] # {} PROVE OrAll(F) # {}
  <2> DEFINE e == [x \in DOMAIN F |-> CHOOSE c \in F[x] : TRUE]
             f == [x \in DOMAIN F |-> e[x]]
  <2>1. \A x \in DOMAIN F : e[x] \in F[x]
    BY <1>3
  <2>2. f \in Selections(F)
    <3> HIDE DEF e
    <3> QED BY <2>1, ChoiceExists
  <2> HIDE DEF f
  <2> QED BY <2>2 DEF OrAll
<1> QED BY <1>2, <1>3

\* Resolving makes such literals, clauses and queries.
LEMMA DereferencedFlat ==
  ASSUME db \in Dbs, NEW of \in FlatQueries
  PROVE  Dereferenced(of) \subseteq Flat
<1>1. Answer(of) \subseteq Keys
  BY Answers, DbIs
<1> QED BY <1>1, ValueIsTrue DEF Dereferenced

LEMMA ResolvedFlat ==
  ASSUME db \in Dbs, NEW of \in FlatQueries, NEW l \in LiteralsOver(Queries)
  PROVE  ResolveLiteral(l, of) \in FlatQueries
<1>1. CASE l.key # Deref
  <2>1. l \in Flat
    BY <1>1, FlatIs
  <2> QED BY <1>1, <2>1 DEF ResolveLiteral, FlatQueries
<1>2. CASE l.key = Deref /\ ~l.negated
  BY <1>2, DereferencedFlat DEF ResolveLiteral, FlatQueries
<1>3. CASE l.key = Deref /\ l.negated
  <2>1. \A k \in Dereferenced(of) : InvertLiteral(k) \in Flat
    BY DereferencedFlat DEF InvertLiteral, Flat
  <2>2. InvertClause(Dereferenced(of)) \in FlatQueries
    BY <2>1 DEF InvertClause, FlatQueries
  <2> QED BY <1>3, <2>2 DEF ResolveLiteral
<1>4. l.negated \in BOOLEAN
  BY FlatIs
<1> QED BY <1>1, <1>2, <1>3, <1>4

ResolvedBy(f, q) == UNION {ResolveClause(c, [l \in c |-> f[l.of]]) : c \in q}

LEMMA ResolvedByFlat ==
  ASSUME db \in Dbs, NEW f \in [Queries -> FlatQueries], NEW q \in Queries
  PROVE  ResolvedBy(f, q) \in FlatQueries
<1>1. ASSUME NEW c \in q PROVE ResolveClause(c, [l \in c |-> f[l.of]]) \in FlatQueries
  <2> DEFINE F == [l \in c |-> ResolveLiteral(l, [k \in c |-> f[k.of]][l])]
  <2>1. ASSUME NEW l \in c PROVE F[l] \in FlatQueries
    <3>1. l.of \in Queries /\ l \in LiteralsOver(Queries)
      BY TermIsQuery
    <3>2. F[l] = ResolveLiteral(l, f[l.of]) /\ f[l.of] \in FlatQueries
      BY <3>1
    <3> QED BY <3>1, <3>2, ResolvedFlat
  <2>2. DOMAIN F = c
    OBVIOUS
  <2> HIDE DEF F
  <2>3. OrAll(F) \in FlatQueries
    BY <2>1, <2>2, OrAllFlat
  <2> QED BY <2>3 DEF F, ResolveClause
<1>2. ASSUME NEW d \in ResolvedBy(f, q) PROVE d \in SUBSET Flat
  <2>1. PICK c \in q : d \in ResolveClause(c, [l \in c |-> f[l.of]])
    BY DEF ResolvedBy
  <2>2. ResolveClause(c, [l \in c |-> f[l.of]]) \in FlatQueries
    BY <1>1
  <2> QED BY <2>1, <2>2 DEF FlatQueries
<1> QED BY <1>2 DEF FlatQueries

\* The equation of Resolve holds, and it has queries of keys only.
LEMMA ResolveIs ==
  ASSUME db \in Dbs
  PROVE  \A q \in Queries : Resolve[q] = ResolvedBy(Resolve, q) /\ Resolve[q] \in FlatQueries
<1> DEFINE V == FlatQueries
           G == [p \in [Queries -> V] \X Queries |-> ResolvedBy(p[1], p[2])]
<1>1. \A f \in [Queries -> V], q \in Queries : G[<<f, q>>] = ResolvedBy(f, q)
  OBVIOUS
<1>2. \A f \in [Queries -> V], q \in Queries : ResolvedBy(f, q) \in V
  BY ResolvedByFlat
<1>3. ASSUME NEW f \in [Queries -> V], NEW g \in [Queries -> V], NEW q \in Queries,
             \A c \in q : \A l \in c : f[l.of] = g[l.of]
      PROVE  ResolvedBy(f, q) = ResolvedBy(g, q)
  <2>1. \A c \in q : [l \in c |-> f[l.of]] = [l \in c |-> g[l.of]]
    BY <1>3
  <2>2. \A c \in q : ResolveClause(c, [l \in c |-> f[l.of]]) = ResolveClause(c, [l \in c |-> g[l.of]])
    BY <2>1
  <2> QED BY <2>2 DEF ResolvedBy
<1>4. V # {}
  BY DEF FlatQueries
<1> HIDE DEF G, V
<1>5. \A f \in [Queries -> V], q \in Queries : G[<<f, q>>] \in V
  BY <1>1, <1>2
<1>6. \A f, g \in [Queries -> V], q \in Queries :
        (\A c \in q : \A l \in c : f[l.of] = g[l.of]) => G[<<f, q>>] = G[<<g, q>>]
  BY <1>1, <1>3
<1>7. PICK f : Defined(f, G, V)
  <2>1. ByItsTerms(G, V)
    BY <1>4, <1>5, <1>6 DEF ByItsTerms
  <2> QED BY <2>1, DefinedByTerms
<1>8. f = [q \in Queries |-> ResolvedBy(f, q)]
  <2>1. [q \in Queries |-> G[<<f, q>>]] = [q \in Queries |-> ResolvedBy(f, q)]
    BY <1>1, <1>7 DEF Defined
  <2> QED BY <1>7, <2>1 DEF Defined
<1>9. Resolve = [q \in Queries |-> ResolvedBy(Resolve, q)]
  BY <1>8 DEF Resolve, ResolvedBy
<1>10. \A q \in Queries : Resolve[q] = ResolvedBy(Resolve, q)
  BY <1>9
<1>11. \A q \in Queries : Resolve[q] \in FlatQueries
  <2> DEFINE S == {q \in Queries : Resolve[q] \in FlatQueries}
  <2>1. ASSUME NEW q \in Queries, \A c \in q : \A l \in c : l.of \in S PROVE q \in S
    <3> DEFINE g == [p \in Queries |-> IF p \in S THEN Resolve[p] ELSE {}]
    <3>1. g \in [Queries -> FlatQueries]
      BY DEF FlatQueries
    <3>2. \A c \in q : [l \in c |-> g[l.of]] = [l \in c |-> Resolve[l.of]]
      BY <2>1
    <3> HIDE DEF g, S
    <3>3. ResolvedBy(g, q) = ResolvedBy(Resolve, q)
      BY <3>2 DEF ResolvedBy
    <3>4. ResolvedBy(g, q) \in FlatQueries
      BY <3>1, ResolvedByFlat
    <3> QED BY <1>10, <3>3, <3>4 DEF S
  <2> HIDE DEF S
  <2>2. Queries \subseteq S
    BY <2>1, ByTerms
  <2> QED BY <2>2 DEF S
<1> QED BY <1>10, <1>11
-----------------------------------------------------------------------------
RaisedBy(f, q) == \E c \in q : c = {} \/ \E l \in c : ResolveLiteralRaises(l, f[l.of])

\* The equation of ResolveRaises holds.
LEMMA RaisesIs ==
  \A q \in Queries : ResolveRaises[q] = RaisedBy(ResolveRaises, q)
<1> DEFINE V == BOOLEAN
           G == [p \in [Queries -> V] \X Queries |-> RaisedBy(p[1], p[2])]
<1>1. \A f \in [Queries -> V], q \in Queries : G[<<f, q>>] = RaisedBy(f, q)
  OBVIOUS
<1>2. \A f \in [Queries -> V], q \in Queries : RaisedBy(f, q) \in V
  BY DEF RaisedBy
<1>3. ASSUME NEW f \in [Queries -> V], NEW g \in [Queries -> V], NEW q \in Queries,
             \A c \in q : \A l \in c : f[l.of] = g[l.of]
      PROVE  RaisedBy(f, q) = RaisedBy(g, q)
  <2>1. \A c \in q : \A l \in c : ResolveLiteralRaises(l, f[l.of]) = ResolveLiteralRaises(l, g[l.of])
    BY <1>3
  <2>2. \A c \in q : \A l \in c : ResolveLiteralRaises(l, f[l.of]) <=> ResolveLiteralRaises(l, g[l.of])
    BY <2>1
  <2>3. RaisedBy(f, q) <=> RaisedBy(g, q)
    BY <2>2 DEF RaisedBy
  <2> QED BY <2>3 DEF RaisedBy
<1>4. V # {}
  OBVIOUS
<1> HIDE DEF G, V
<1>5. \A f \in [Queries -> V], q \in Queries : G[<<f, q>>] \in V
  BY <1>1, <1>2
<1>6. \A f, g \in [Queries -> V], q \in Queries :
        (\A c \in q : \A l \in c : f[l.of] = g[l.of]) => G[<<f, q>>] = G[<<g, q>>]
  BY <1>1, <1>3
<1>7. PICK f : Defined(f, G, V)
  <2>1. ByItsTerms(G, V)
    BY <1>4, <1>5, <1>6 DEF ByItsTerms
  <2> QED BY <2>1, DefinedByTerms
<1>8. f = [q \in Queries |-> RaisedBy(f, q)]
  <2>1. [q \in Queries |-> G[<<f, q>>]] = [q \in Queries |-> RaisedBy(f, q)]
    BY <1>1, <1>7 DEF Defined
  <2> QED BY <1>7, <2>1 DEF Defined
<1>9. ResolveRaises = [q \in Queries |-> RaisedBy(ResolveRaises, q)]
  BY <1>8 DEF ResolveRaises, RaisedBy
<1> QED BY <1>9

\* A literal that is resolved without an exception becomes a query that is true where it is,
\* and has clauses.
LEMMA LiteralResolved ==
  ASSUME db \in Dbs, NEW l \in LiteralsOver(Queries),
         l.key = Deref /\ ~ResolveRaises[l.of] => Answer(Resolve[l.of]) = Meaning[l.of],
         ~ResolveLiteralRaises(l, ResolveRaises[l.of])
  PROVE  /\ ResolveLiteral(l, Resolve[l.of]) # {}
         /\ \A v \in Values : Meets(ResolveLiteral(l, Resolve[l.of]), TrueFor(v)) <=> l \in TrueFor(v)
<1>1. l.of \in Queries /\ l.negated \in BOOLEAN
  BY FlatIs
<1>2. CASE l.key # Deref
  <2>1. ResolveLiteral(l, Resolve[l.of]) = {{l}}
    BY <1>2 DEF ResolveLiteral
  <2> QED BY <2>1 DEF Meets
<1>3. CASE l.key = Deref
  <2> DEFINE of == Resolve[l.of]
             W == Meaning[l.of]
             D == Dereferenced(of)
  <2>1. Answer(of) = W
    BY <1>3 DEF ResolveLiteralRaises
  <2>2. W \subseteq Keys
    BY <1>1, MeaningIs, DbIs
  <2>3. D = {Literal(w) : w \in W}
    BY <2>1 DEF Dereferenced
  <2>4. \A v : l \in TrueFor(v) <=> (IF l.negated THEN ~\E w \in W : v \in db[w]
                                     ELSE \E w \in W : v \in db[w])
    <3> SUFFICES ASSUME NEW v
                 PROVE  l \in TrueFor(v) <=> (IF l.negated THEN ~\E w \in W : v \in db[w]
                                             ELSE \E w \in W : v \in db[w])
      OBVIOUS
    <3>1. l \in TrueFor(v) <=> (v \in AsksFor(l, W)) # l.negated
      BY DEF TrueFor, IsTrue
    <3>2. v \in AsksFor(l, W) <=> \E w \in W : v \in db[w]
      BY <1>3 DEF AsksFor
    <3>3. (v \in AsksFor(l, W)) \in BOOLEAN
      OBVIOUS
    <3>4. (v \in AsksFor(l, W)) # l.negated <=> (IF l.negated THEN v \notin AsksFor(l, W) ELSE v \in AsksFor(l, W))
      BY <1>1, <3>3
    <3> QED BY <3>1, <3>2, <3>4
  <2> HIDE DEF of, W, D
  <2>5. \A v : (\E k \in D : k \in TrueFor(v)) <=> \E w \in W : v \in db[w]
    BY <2>2, <2>3, ValueIsTrue
  <2>6. CASE ~l.negated
    <3>1. ResolveLiteral(l, of) = {D}
      BY <1>3, <2>6 DEF ResolveLiteral, D
    <3>2. \A v : Meets({D}, TrueFor(v)) <=> \E k \in D : k \in TrueFor(v)
      BY DEF Meets
    <3>3. \A v : l \in TrueFor(v) <=> \E w \in W : v \in db[w]
      BY <1>1, <2>4, <2>6
    <3>4. {D} # {}
      OBVIOUS
    <3> QED BY <2>5, <3>1, <3>2, <3>3, <3>4 DEF of
  <2>7. CASE l.negated
    <3>1. ResolveLiteral(l, of) = InvertClause(D)
      BY <1>3, <2>7 DEF ResolveLiteral, D
    <3>2. D # {}
      <4>1. ~InvertRaises(D)
        BY <1>3, <2>7 DEF ResolveLiteralRaises, D, of
      <4>2. Cardinality({}) = 0
        BY FS_EmptySet
      <4> QED BY <4>1, <4>2 DEF InvertRaises
    <3>3. InvertClause(D) # {}
      BY <3>2 DEF InvertClause
    <3>4. \A v : \A k \in D : InvertLiteral(k) \in TrueFor(v) <=> k \notin TrueFor(v)
      <4>1. \A k \in D : k \in LiteralsOver(Queries)
        BY <2>2, <2>3, ValueIsTrue, FlatIs
      <4> QED BY <4>1, OneIsTrue
    <3>5. \A v : Meets(InvertClause(D), TrueFor(v)) <=> \A k \in D : k \notin TrueFor(v)
      BY <3>4, InvertClauseMeets
    <3>6. \A v : l \in TrueFor(v) <=> ~\E w \in W : v \in db[w]
      BY <1>1, <2>4, <2>7
    <3> QED BY <2>5, <3>1, <3>3, <3>5, <3>6 DEF of
  <2> QED BY <1>1, <2>6, <2>7
<1> QED BY <1>2, <1>3

\* A query that is resolved without an exception has the values it means.
LEMMA ResolvedMeans ==
  ASSUME db \in Dbs, NEW q \in Queries, ~ResolveRaises[q],
         \A c \in q : \A l \in c : ~ResolveRaises[l.of] => Answer(Resolve[l.of]) = Meaning[l.of]
  PROVE  Answer(Resolve[q]) = Meaning[q]
<1> DEFINE Part(c) == ResolveClause(c, [l \in c |-> Resolve[l.of]])
<1>1. ASSUME NEW c \in q
      PROVE  /\ Part(c) # {}
             /\ \A v \in Values : Meets(Part(c), TrueFor(v)) <=> \E l \in c : l \in TrueFor(v)
  <2> DEFINE F == [l \in c |-> ResolveLiteral(l, Resolve[l.of])]
  <2>1. \A l \in c : ~ResolveLiteralRaises(l, ResolveRaises[l.of])
    BY RaisesIs DEF RaisedBy
  <2>2. \A l \in c : l \in LiteralsOver(Queries) /\ l.of \in Queries
    BY TermIsQuery
  <2>3. \A l \in c : /\ ResolveLiteral(l, Resolve[l.of]) # {}
                     /\ \A v \in Values :
                          Meets(ResolveLiteral(l, Resolve[l.of]), TrueFor(v)) <=> l \in TrueFor(v)
    BY <2>1, <2>2, LiteralResolved
  <2>4. \A l \in c : ResolveLiteral(l, Resolve[l.of]) \in FlatQueries
    BY <2>2, ResolveIs, ResolvedFlat
  <2>5. /\ DOMAIN F = c
        /\ \A l \in c : F[l] \in FlatQueries /\ F[l] # {}
        /\ \A l \in c : \A v \in Values : Meets(F[l], TrueFor(v)) <=> l \in TrueFor(v)
    BY <2>3, <2>4
  <2>6. Part(c) = OrAll(F)
    <3>1. F = [l \in c |-> ResolveLiteral(l, [k \in c |-> Resolve[k.of]][l])]
      OBVIOUS
    <3> HIDE DEF F
    <3> QED BY <3>1 DEF ResolveClause
  <2> HIDE DEF F, Part
  <2>7. OrAll(F) # {}
    BY <2>5, OrAllFlat
  <2>8. \A v \in Values : Meets(OrAll(F), TrueFor(v)) <=> \E l \in c : Meets(F[l], TrueFor(v))
    BY <2>5, OrAllMeets
  <2> QED BY <2>5, <2>6, <2>7, <2>8
<1>2. Resolve[q] = UNION {Part(c) : c \in q} /\ Resolve[q] \in FlatQueries
  BY ResolveIs DEF ResolvedBy
<1> HIDE DEF Part
<1>3. Resolve[q] # {} <=> q # {}
  BY <1>1, <1>2
<1>4. ASSUME NEW v \in Values PROVE Meets(Resolve[q], TrueFor(v)) <=> Meets(q, TrueFor(v))
  <2>1. Meets(Resolve[q], TrueFor(v)) <=> \A c \in q : Meets(Part(c), TrueFor(v))
    BY <1>2 DEF Meets
  <2>2. (\A c \in q : Meets(Part(c), TrueFor(v))) <=> \A c \in q : \E l \in c : l \in TrueFor(v)
    BY <1>1
  <2> QED BY <2>1, <2>2 DEF Meets
<1>5. ASSUME NEW v \in Values PROVE v \in Answer(Resolve[q]) <=> v \in Meaning[q]
  <2>1. v \in Answer(Resolve[q]) <=> Resolve[q] # {} /\ Meets(Resolve[q], TrueFor(v))
    BY <1>2, Answers
  <2>2. v \in Meaning[q] <=> q # {} /\ Meets(q, TrueFor(v))
    BY Means
  <2> QED BY <1>3, <1>4, <2>1, <2>2
<1>6. Answer(Resolve[q]) \subseteq Values /\ Meaning[q] \subseteq Values
  BY <1>2, Answers, MeaningIs
<1> QED BY <1>5, <1>6

\* By induction over what is nested, every query is resolved so.
LEMMA ResolvesRight ==
  ASSUME db \in Dbs
  PROVE  \A q \in Queries : ~ResolveRaises[q] => Answer(Resolve[q]) = Meaning[q]
<1> DEFINE S == {q \in Queries : ~ResolveRaises[q] => Answer(Resolve[q]) = Meaning[q]}
<1>1. ASSUME NEW q \in Queries, \A c \in q : \A l \in c : l.of \in S PROVE q \in S
  BY <1>1, ResolvedMeans
<1> HIDE DEF S
<1>2. Queries \subseteq S
  BY <1>1, ByTerms
<1> QED BY <1>2 DEF S
-----------------------------------------------------------------------------
(***************************************************************************)
(* What the operators make of what queries mean.                           *)
(***************************************************************************)
\* Queries that mean the same values as a query and a set.
LEMMA MeansAll ==
  ASSUME NEW q \in Queries, q # {}, NEW W \in SUBSET Values,
         \A v \in Values : Meets(q, TrueFor(v)) <=> v \in W
  PROVE  Meaning[q] = W
<1>1. \A v \in Values : v \in Meaning[q] <=> v \in W
  BY Means
<1> QED BY <1>1, MeaningIs

LEMMA LiteralMeans ==
  ASSUME NEW l \in LiteralsOver(Queries), {{l}} \in Queries, NEW W \in SUBSET Values,
         \A v \in Values : l \in TrueFor(v) <=> v \in W
  PROVE  Meaning[{{l}}] = W
<1> DEFINE q == {{l}}
<1>1. \A v : Meets(q, TrueFor(v)) <=> l \in TrueFor(v)
  BY DEF Meets
<1>2. q # {} /\ q \in Queries
  OBVIOUS
<1> HIDE DEF q
<1>3. Meaning[q] = W
  BY <1>1, <1>2, MeansAll
<1> QED BY <1>3 DEF q

\* A key means its values.
LEMMA WrapMeans ==
  ASSUME db \in Dbs, NEW k \in Keys, Wrap(k) \in Queries
  PROVE  Meaning[Wrap(k)] = db[k]
<1>1. Literal(k) \in LiteralsOver(Queries) /\ \A v : Literal(k) \in TrueFor(v) <=> v \in db[k]
  BY ValueIsTrue, FlatIs
<1>2. db[k] \in SUBSET Values
  BY DbIs
<1> QED BY <1>1, <1>2, LiteralMeans DEF Wrap

\* Q.__pos__ means the values of the values.
LEMMA DereferenceMeans ==
  ASSUME db \in Dbs, NEW p \in Queries, {{MetaLiteral(p)}} \in Queries
  PROVE  Meaning[{{MetaLiteral(p)}}] = UNION {db[w] : w \in Meaning[p]}
<1> DEFINE l == MetaLiteral(p)
           W == UNION {db[w] : w \in Meaning[p]}
<1>1. l \in LiteralsOver(Queries) /\ l.key = Deref /\ l.of = p /\ l.negated = FALSE
  BY DEF LiteralsOver, MetaLiteral
<1>2. W \in SUBSET Values
  BY MeaningIs, DbIs
<1> HIDE DEF l
<1>3. \A v : l \in TrueFor(v) <=> v \in W
  <2> SUFFICES ASSUME NEW v PROVE l \in TrueFor(v) <=> v \in W
    OBVIOUS
  <2>1. l \in TrueFor(v) <=> (v \in AsksFor(l, Meaning[p])) # FALSE
    BY <1>1 DEF TrueFor, IsTrue
  <2>2. AsksFor(l, Meaning[p]) = W
    BY <1>1 DEF AsksFor
  <2>3. (v \in AsksFor(l, Meaning[p])) \in BOOLEAN
    OBVIOUS
  <2>4. ((v \in AsksFor(l, Meaning[p])) # FALSE) <=> v \in AsksFor(l, Meaning[p])
    BY <2>3
  <2> QED BY <2>1, <2>2, <2>4
<1>4. {{l}} \in Queries
  BY DEF l
<1> HIDE DEF W
<1>5. Meaning[{{l}}] = W
  BY <1>1, <1>2, <1>3, <1>4, LiteralMeans
<1> QED BY <1>5 DEF l, W

\* & means both, | either, and ~ the other values.
LEMMA AndMeans ==
  ASSUME NEW p \in Queries, NEW q \in Queries, p # {}, q # {}, And(p, q) \in Queries
  PROVE  Meaning[And(p, q)] = Meaning[p] \cap Meaning[q]
<1>1. And(p, q) # {}
  BY DEF And
<1>2. Meaning[p] \cap Meaning[q] \in SUBSET Values
  BY MeaningIs
<1>3. \A v \in Values : Meets(And(p, q), TrueFor(v)) <=> v \in Meaning[p] \cap Meaning[q]
  BY AndMeets, Means
<1> QED BY <1>1, <1>2, <1>3, MeansAll

LEMMA OrMeans ==
  ASSUME NEW p \in Queries, NEW q \in Queries, p # {}, q # {}, Or(p, q) \in Queries
  PROVE  Or(p, q) # {} /\ Meaning[Or(p, q)] = Meaning[p] \cup Meaning[q]
<1>1. Or(p, q) # {}
  <2>1. PICK c \in p, d \in q : TRUE
    OBVIOUS
  <2>2. c \cup d \in Or(p, q)
    BY <2>1 DEF Or
  <2> QED BY <2>2
<1>2. Meaning[p] \cup Meaning[q] \in SUBSET Values
  BY MeaningIs
<1>3. \A v \in Values : Meets(Or(p, q), TrueFor(v)) <=> v \in Meaning[p] \cup Meaning[q]
  BY OrMeets, Means
<1> QED BY <1>1, <1>2, <1>3, MeansAll

LEMMA InvertMeans ==
  ASSUME NEW q \in Queries, q # {}, Invert(q) \in Queries, Invert(q) # {}
  PROVE  Meaning[Invert(q)] = Values \ Meaning[q]
<1>1. \A v : \A c \in q : \A l \in c : InvertLiteral(l) \in TrueFor(v) <=> l \notin TrueFor(v)
  BY TermIsQuery, OneIsTrue
<1>2. \A v : Meets(Invert(q), TrueFor(v)) <=> ~Meets(q, TrueFor(v))
  BY <1>1, InvertMeets
<1>3. \A v \in Values : Meets(Invert(q), TrueFor(v)) <=> v \in Values \ Meaning[q]
  BY <1>2, Means
<1> QED BY <1>3, MeansAll
-----------------------------------------------------------------------------
(***************************************************************************)
(* How deep the operators nest.                                            *)
(***************************************************************************)
LEMMA WrapNests ==
  ASSUME NEW n \in Nat, NEW k \in Keys
  PROVE  Wrap(k) \in Nested[n + 1] /\ Wrap(k) # {}
<1>1. Literal(k) \in LiteralsOver(Nested[n])
  BY DEF Literal, LiteralsOver
<1>2. Wrap(k) \in Over(Nested[n])
  BY <1>1 DEF Over, Wrap
<1> QED BY <1>2, NestedIs DEF Wrap

LEMMA AndNests ==
  ASSUME NEW n \in Nat, NEW p \in Nested[n + 1], NEW q \in Nested[n + 1]
  PROVE  And(p, q) \in Nested[n + 1]
BY NestedIs DEF Over, And

LEMMA OrNests ==
  ASSUME NEW n \in Nat, NEW p \in Nested[n + 1], NEW q \in Nested[n + 1]
  PROVE  Or(p, q) \in Nested[n + 1]
<1>1. p \in Over(Nested[n]) /\ q \in Over(Nested[n])
  BY NestedIs
<1>2. \A c \in Or(p, q) : c \subseteq LiteralsOver(Nested[n])
  BY <1>1 DEF Over, Or
<1>3. Or(p, q) \in Over(Nested[n])
  BY <1>2 DEF Over
<1> QED BY <1>3, NestedIs

\* Only + nests deeper, by one.
LEMMA DereferenceNests ==
  ASSUME NEW n \in Nat, NEW p \in Nested[n + 1]
  PROVE  {{MetaLiteral(p)}} \in Nested[(n + 1) + 1]
<1>1. MetaLiteral(p) \in LiteralsOver(Nested[n + 1])
  BY DEF MetaLiteral, LiteralsOver
<1>2. {{MetaLiteral(p)}} \in Over(Nested[n + 1])
  BY <1>1 DEF Over
<1>3. n + 1 \in Nat
  OBVIOUS
<1> QED BY <1>2, <1>3, NestedIs

LEMMA InvertNests ==
  ASSUME NEW n \in Nat, NEW q \in Nested[n + 1]
  PROVE  Invert(q) \in Nested[n + 1]
<1>1. CASE q = {}
  BY <1>1 DEF Invert
<1>2. CASE q # {}
  <2> DEFINE L == LiteralsOver(Nested[n])
             F == [c \in q |-> InvertClause(c)]
  <2>1. \A c \in q : \A l \in c : InvertLiteral(l) \in L
    <3>1. \A c \in q : \A l \in c : l \in L
      BY TermNests
    <3>2. \A l \in L : InvertLiteral(l) \in L
      BY DEF LiteralsOver, InvertLiteral
    <3> QED BY <3>1, <3>2
  <2> HIDE DEF L
  <2>2. \A c \in q : \A d \in InvertClause(c) : d \subseteq L
    BY <2>1 DEF InvertClause
  <2>3. DOMAIN F = q /\ \A c \in q : \A d \in F[c] : d \subseteq L
    BY <2>2
  <2>4. Invert(q) = OrAll(F)
    BY <1>2 DEF Invert
  <2> HIDE DEF F
  <2>5. ASSUME NEW f \in Selections(F) PROVE UNION Range(f) \subseteq L
    <3>1. DOMAIN f = q
      BY <2>3 DEF Selections
    <3>2. \A c \in q : f[c] \in F[c]
      BY <2>3, ChoiceIn
    <3>3. \A d \in Range(f) : d \subseteq L
      BY <2>3, <3>1, <3>2 DEF Range
    <3> QED BY <3>3
  <2>6. OrAll(F) \in SUBSET SUBSET L
    BY <2>5 DEF OrAll
  <2> QED BY <2>4, <2>6, NestedIs DEF L, Over
<1> QED BY <1>1, <1>2

\* Where no exception is raised, an inversion has a clause.
LEMMA InvertHasClauses ==
  ASSUME NEW q, q # {}, \A c \in q : ~InvertRaises(c)
  PROVE  Invert(q) # {}
<1> DEFINE F == [c \in q |-> InvertClause(c)]
<1>1. ASSUME NEW c \in q PROVE InvertClause(c) # {}
  <2>1. Cardinality({}) = 0
    BY FS_EmptySet
  <2>2. c # {}
    BY <2>1 DEF InvertRaises
  <2> QED BY <2>2 DEF InvertClause
<1> DEFINE e == [c \in q |-> CHOOSE d \in InvertClause(c) : TRUE]
<1>2. DOMAIN F = q /\ \A c \in q : e[c] \in F[c]
  BY <1>1
<1>3. Invert(q) = OrAll(F)
  BY DEF Invert
<1> HIDE DEF F, e
<1>4. [c \in DOMAIN F |-> e[c]] \in Selections(F)
  BY <1>2, ChoiceExists
<1> QED BY <1>3, <1>4 DEF OrAll
-----------------------------------------------------------------------------
(***************************************************************************)
(* The inductive invariant: every query nests no deeper than the operators *)
(* applied allow, has clauses, and asks for the values it means.           *)
(***************************************************************************)
Built(r) == /\ query[r] \in Nested[ops + 1]
            /\ query[r] # {}
            /\ asked[r] = Meaning[query[r]]

AlgebraInv == /\ db \in Dbs
              /\ ops \in Nat /\ ops <= MaxOps
              /\ DOMAIN query = Slots /\ DOMAIN asked = Slots
              /\ \A r \in Slots : Built(r)

\* What nests no deeper than the operators applied is a query.
LEMMA BuiltQueries ==
  ASSUME AlgebraInv
  PROVE  \A n \in Nat : n <= ops => Nested[n + 1] \subseteq Queries
<1>1. MaxOps \in Nat /\ ops \in Nat /\ ops <= MaxOps
  BY QueryAlgebraAssumption DEF AlgebraInv
<1>2. ASSUME NEW n \in Nat, n <= MaxOps PROVE Nested[n + 1] \subseteq Queries
  <2>1. n + 1 \in Nat /\ MaxOps + 1 \in Nat /\ n + 1 <= MaxOps + 1
    BY <1>1, <1>2
  <2> QED BY <2>1, NestedIn DEF Queries
<1> QED BY <1>1, <1>2

\* A step gives a query that nests at most one deeper and the values it means.
LEMMA StepBuilds ==
  ASSUME AlgebraInv, NEW r \in Slots, NEW q, NEW values, Step(r, q, values),
         q \in Nested[(ops + 1) + 1], q # {},
         values = Meaning[q]
  PROVE  AlgebraInv'
<1>1. db' = db /\ ops' = ops + 1 /\ ops < MaxOps
  BY DEF Step
<1>2. ops \in Nat /\ MaxOps \in Nat
  BY QueryAlgebraAssumption DEF AlgebraInv
<1>3. ops' \in Nat /\ ops' <= MaxOps
  BY <1>1, <1>2
<1>4. Meaning' = Meaning
  BY <1>1, SameMeaning
<1>5. /\ DOMAIN query' = Slots /\ DOMAIN asked' = Slots
      /\ query'[r] = q /\ asked'[r] = values
      /\ \A s \in Slots : s # r => query'[s] = query[s] /\ asked'[s] = asked[s]
  BY DEF Step, AlgebraInv
<1>6. Nested[ops + 1] \subseteq Nested[(ops + 1) + 1]
  BY <1>2, NestedRises
<1>7. ASSUME NEW s \in Slots
      PROVE  query'[s] \in Nested[(ops + 1) + 1] /\ query'[s] # {} /\ asked'[s] = Meaning[query'[s]]
  <2>1. CASE s = r
    BY <1>5, <2>1
  <2>2. CASE s # r
    <3>1. query[s] \in Nested[ops + 1] /\ query[s] # {} /\ asked[s] = Meaning[query[s]]
      BY DEF AlgebraInv, Built
    <3> QED BY <1>5, <1>6, <2>2, <3>1
  <2> QED BY <2>1, <2>2
<1>8. \A s \in Slots : Built(s)'
  BY <1>1, <1>4, <1>7 DEF Built
<1>9. (db \in Dbs)'
  BY <1>1 DEF AlgebraInv
<1> QED BY <1>3, <1>5, <1>8, <1>9 DEF AlgebraInv

\* The first queries are keys.
LEMMA AlgebraInvInit == AlgebraInit => AlgebraInv
<1> SUFFICES ASSUME AlgebraInit PROVE AlgebraInv
  OBVIOUS
<1>1. PICK f \in [Slots -> Keys] :
        query = [r \in Slots |-> Wrap(f[r])] /\ asked = [r \in Slots |-> db[f[r]]]
  BY DEF AlgebraInit
<1>2. db \in Dbs /\ ops = 0 /\ MaxOps \in Nat
  BY QueryAlgebraAssumption DEF AlgebraInit
<1>3. ASSUME NEW r \in Slots PROVE Built(r)
  <2>1. query[r] = Wrap(f[r]) /\ asked[r] = db[f[r]] /\ f[r] \in Keys
    BY <1>1
  <2>2. Wrap(f[r]) \in Nested[0 + 1] /\ Wrap(f[r]) # {}
    BY <2>1, WrapNests
  <2>3. Nested[0 + 1] \subseteq Queries
    <3>1. 0 + 1 \in Nat /\ MaxOps + 1 \in Nat /\ 0 + 1 <= MaxOps + 1
      BY <1>2
    <3> QED BY <3>1, NestedIn DEF Queries
  <2>4. Meaning[Wrap(f[r])] = db[f[r]]
    BY <1>2, <2>1, <2>2, <2>3, WrapMeans
  <2> QED BY <1>2, <2>1, <2>2, <2>4 DEF Built
<1> QED BY <1>1, <1>2, <1>3 DEF AlgebraInv

\* Every operator keeps the invariant.
LEMMA AlgebraInvNext == AlgebraInv /\ [AlgebraNext]_algebraVars => AlgebraInv'
<1> SUFFICES ASSUME AlgebraInv, [AlgebraNext]_algebraVars PROVE AlgebraInv'
  OBVIOUS
<1>1. db \in Dbs /\ ops \in Nat
  BY DEF AlgebraInv
<1>2. \A r \in Slots : /\ query[r] \in Nested[ops + 1] /\ query[r] \in Queries /\ query[r] # {}
                       /\ asked[r] = Meaning[query[r]]
  <2>1. Nested[ops + 1] \subseteq Queries
    BY <1>1, BuiltQueries
  <2> QED BY <2>1 DEF AlgebraInv, Built
<1>3. Nested[ops + 1] \subseteq Nested[(ops + 1) + 1]
  BY <1>1, NestedRises
<1>4. \A r \in Slots : Other(r) \in Slots
  BY DEF Other, Slots
<1>5. ASSUME NEW r \in Slots, NEW k \in Keys, Take(r, k) PROVE AlgebraInv'
  <2>1. Wrap(k) \in Nested[ops + 1] /\ Wrap(k) # {}
    BY <1>1, WrapNests
  <2>2. Nested[ops + 1] \subseteq Queries
    BY <1>1, BuiltQueries
  <2>3. db[k] = Meaning[Wrap(k)]
    BY <1>1, <2>1, <2>2, WrapMeans
  <2> QED BY <1>3, <1>5, <2>1, <2>3, StepBuilds DEF Take
<1>6. ASSUME NEW r \in Slots, Conjoin(r) PROVE AlgebraInv'
  <2> DEFINE p == query[r]
             q == query[Other(r)]
  <2>1. And(p, q) \in Nested[ops + 1] /\ And(p, q) # {}
    <3>1. And(p, q) \in Nested[ops + 1]
      BY <1>1, <1>2, <1>4, AndNests
    <3> QED BY <3>1, <1>2 DEF And
  <2>2. Nested[ops + 1] \subseteq Queries
    BY <1>1, BuiltQueries
  <2>3. asked[r] \cap asked[Other(r)] = Meaning[And(p, q)]
    BY <1>2, <1>4, <2>1, <2>2, AndMeans
  <2> QED BY <1>3, <1>6, <2>1, <2>3, StepBuilds DEF Conjoin
<1>7. ASSUME NEW r \in Slots, Disjoin(r) PROVE AlgebraInv'
  <2> DEFINE p == query[r]
             q == query[Other(r)]
  <2>1. Or(p, q) \in Nested[ops + 1]
    BY <1>1, <1>2, <1>4, OrNests
  <2>2. Nested[ops + 1] \subseteq Queries
    BY <1>1, BuiltQueries
  <2>3. Or(p, q) # {} /\ asked[r] \cup asked[Other(r)] = Meaning[Or(p, q)]
    BY <1>2, <1>4, <2>1, <2>2, OrMeans
  <2> QED BY <1>3, <1>7, <2>1, <2>3, StepBuilds DEF Disjoin
<1>8. ASSUME NEW r \in Slots, Dereference(r) PROVE AlgebraInv'
  <2> DEFINE p == query[r]
             q == {{MetaLiteral(p)}}
  <2>1. q \in Nested[(ops + 1) + 1] /\ q # {}
    BY <1>1, <1>2, DereferenceNests
  <2>2. Nested[(ops + 1) + 1] \subseteq Queries
    <3>1. MaxOps \in Nat /\ ops < MaxOps
      BY <1>8, QueryAlgebraAssumption DEF Dereference, Step
    <3>2. (ops + 1) + 1 \in Nat /\ MaxOps + 1 \in Nat /\ (ops + 1) + 1 <= MaxOps + 1
      BY <1>1, <3>1
    <3> QED BY <3>2, NestedIn DEF Queries
  <2>3. UNION {db[v] : v \in asked[r]} = Meaning[q]
    BY <1>1, <1>2, <2>1, <2>2, DereferenceMeans
  <2> QED BY <1>8, <2>1, <2>3, StepBuilds DEF Dereference
<1>9. ASSUME NEW r \in Slots, Negate(r) PROVE AlgebraInv'
  <2>1. Invert(query[r]) \in Nested[ops + 1]
    BY <1>1, <1>2, InvertNests
  <2>2. Nested[ops + 1] \subseteq Queries
    BY <1>1, BuiltQueries
  <2>3. Invert(query[r]) # {}
    BY <1>2, <1>9, InvertHasClauses DEF Negate
  <2>4. Values \ asked[r] = Meaning[Invert(query[r])]
    BY <1>2, <2>1, <2>2, <2>3, InvertMeans
  <2> QED BY <1>3, <1>9, <2>1, <2>3, <2>4, StepBuilds DEF Negate
<1>10. ASSUME UNCHANGED <<db, query, asked, ops>> PROVE AlgebraInv'
  <2>1. Meaning' = Meaning
    BY <1>10, SameMeaning
  <2> QED BY <1>10, <2>1 DEF AlgebraInv, Built
<1>11. ASSUME NEW r \in Slots, NegateRaises(r) PROVE AlgebraInv'
  BY <1>10, <1>11 DEF NegateRaises
<1> QED BY <1>5, <1>6, <1>7, <1>8, <1>9, <1>10, <1>11 DEF AlgebraNext, algebraVars

LEMMA AlgebraInvariant == AlgebraSpec => []AlgebraInv
<1> QED BY AlgebraInvInit, AlgebraInvNext, PTL DEF AlgebraSpec

(***************************************************************************)
(* However a query was built, and however deep it looks up values as keys: *)
(* resolved without an exception, as DiscoDB.query resolves it, it has the *)
(* values that were asked for, in every database.                          *)
(***************************************************************************)
THEOREM AnswersAreRight == AlgebraSpec => []AnswerIsRight
<1>1. ASSUME AlgebraInv PROVE AnswerIsRight
  <2>1. db \in Dbs /\ ops \in Nat
    BY <1>1 DEF AlgebraInv
  <2>2. Nested[ops + 1] \subseteq Queries
    BY <1>1, <2>1, BuiltQueries
  <2>3. \A r \in Slots : query[r] \in Queries /\ asked[r] = Meaning[query[r]]
    BY <1>1, <2>2 DEF AlgebraInv, Built
  <2> QED BY <2>1, <2>3, ResolvesRight DEF AnswerIsRight
<1> QED BY <1>1, AlgebraInvariant, PTL
-----------------------------------------------------------------------------
(***************************************************************************)
(* Expanding.                                                              *)
(***************************************************************************)
ExpandedBy(g, q) ==
  {UNION Range(f) : f \in Selections([c \in q |-> ExpandClause(c, [l \in c |-> g[l.of]])])}

\* A value's query and its inversion are queries of keys only; so is what is expanded.
LEMMA WrapFlat ==
  ASSUME db \in Dbs, NEW w \in Keys
  PROVE  Wrap(w) \in FlatQueries /\ Invert(Wrap(w)) \in FlatQueries
<1>1. Literal(w) \in Flat /\ InvertLiteral(Literal(w)) \in Flat
  BY DEF Flat, Literal, InvertLiteral
<1>2. Wrap(w) \in FlatQueries
  BY <1>1 DEF Wrap, FlatQueries
<1> DEFINE c == {Literal(w)}
           F == [d \in {c} |-> InvertClause(d)]
<1>3. InvertClause(c) \in FlatQueries
  BY <1>1 DEF InvertClause, FlatQueries
<1>4. Invert(Wrap(w)) = OrAll(F)
  BY DEF Invert, Wrap
<1>5. \A x \in DOMAIN F : F[x] \in FlatQueries
  BY <1>3
<1> HIDE DEF F, c
<1>6. OrAll(F) \in FlatQueries
  BY <1>5, OrAllFlat
<1> QED BY <1>2, <1>4, <1>6

LEMMA ExpandedLiteralFlat ==
  ASSUME db \in Dbs, NEW l \in LiteralsOver(Queries), NEW of \in SUBSET FlatQueries
  PROVE  ExpandLiteral(l, of) \subseteq FlatQueries
<1>1. CASE l.key # Deref
  <2>1. l \in Flat
    BY <1>1, FlatIs
  <2> QED BY <1>1, <2>1 DEF ExpandLiteral, FlatQueries
<1>2. CASE l.key = Deref
  <2> DEFINE W == UNION {Answer(p) : p \in of}
  <2>1. W \subseteq Keys
    BY Answers, DbIs
  <2>2. ExpandLiteral(l, of) = {IF l.negated THEN Invert(Wrap(v)) ELSE Wrap(v) : v \in W}
    BY <1>2 DEF ExpandLiteral
  <2> HIDE DEF W
  <2> QED BY <2>1, <2>2, WrapFlat
<1> QED BY <1>1, <1>2

\* A choice of what each literal is expanded to.
LEMMA ExpandedClauseFlat ==
  ASSUME db \in Dbs, NEW g \in [Queries -> SUBSET FlatQueries], NEW q \in Queries, NEW c \in q
  PROVE  ExpandClause(c, [l \in c |-> g[l.of]]) \subseteq FlatQueries
<1> DEFINE F == [l \in c |-> ExpandLiteral(l, g[l.of])]
<1>1. \A l \in c : F[l] \subseteq FlatQueries
  <2>1. \A l \in c : l.of \in Queries /\ l \in LiteralsOver(Queries)
    BY TermIsQuery
  <2>2. \A l \in c : g[l.of] \in SUBSET FlatQueries
    BY <2>1
  <2> QED BY <2>1, <2>2, ExpandedLiteralFlat
<1>2. F = [l \in c |-> ExpandLiteral(l, [k \in c |-> g[k.of]][l])] /\ DOMAIN F = c
  OBVIOUS
<1> HIDE DEF F
<1>3. ExpandClause(c, [l \in c |-> g[l.of]]) = {OrAll(f) : f \in Selections(F)}
  BY <1>2 DEF ExpandClause
<1>4. ASSUME NEW f \in Selections(F) PROVE OrAll(f) \in FlatQueries
  <2>1. DOMAIN f = c
    BY <1>2 DEF Selections
  <2>2. \A l \in c : f[l] \in F[l]
    BY <1>2, ChoiceIn
  <2>3. \A l \in DOMAIN f : f[l] \in FlatQueries
    BY <1>1, <2>1, <2>2
  <2> QED BY <2>3, OrAllFlat
<1> QED BY <1>3, <1>4

LEMMA ExpandedByFlat ==
  ASSUME db \in Dbs, NEW g \in [Queries -> SUBSET FlatQueries], NEW q \in Queries
  PROVE  ExpandedBy(g, q) \in SUBSET FlatQueries
<1> DEFINE F == [c \in q |-> ExpandClause(c, [l \in c |-> g[l.of]])]
<1>1. DOMAIN F = q /\ \A c \in q : F[c] \subseteq FlatQueries
  BY ExpandedClauseFlat
<1> HIDE DEF F
<1>2. ASSUME NEW f \in Selections(F) PROVE UNION Range(f) \in FlatQueries
  <2>1. DOMAIN f = q
    BY <1>1 DEF Selections
  <2>2. \A c \in q : f[c] \in F[c]
    BY <1>1, ChoiceIn
  <2>3. \A p \in Range(f) : p \in FlatQueries
    BY <1>1, <2>1, <2>2 DEF Range
  <2> QED BY <2>3 DEF FlatQueries
<1> QED BY <1>2 DEF ExpandedBy, F

\* The equation of Expand holds.
LEMMA ExpandIs ==
  ASSUME db \in Dbs
  PROVE  \A q \in Queries : Expand[q] = ExpandedBy(Expand, q)
<1> DEFINE V == SUBSET FlatQueries
           G == [p \in [Queries -> V] \X Queries |-> ExpandedBy(p[1], p[2])]
<1>1. \A f \in [Queries -> V], q \in Queries : G[<<f, q>>] = ExpandedBy(f, q)
  OBVIOUS
<1>2. \A f \in [Queries -> V], q \in Queries : ExpandedBy(f, q) \in V
  BY ExpandedByFlat
<1>3. ASSUME NEW f \in [Queries -> V], NEW g \in [Queries -> V], NEW q \in Queries,
             \A c \in q : \A l \in c : f[l.of] = g[l.of]
      PROVE  ExpandedBy(f, q) = ExpandedBy(g, q)
  <2>1. \A c \in q : [l \in c |-> f[l.of]] = [l \in c |-> g[l.of]]
    BY <1>3
  <2>2. [c \in q |-> ExpandClause(c, [l \in c |-> f[l.of]])] = [c \in q |-> ExpandClause(c, [l \in c |-> g[l.of]])]
    BY <2>1
  <2> QED BY <2>2 DEF ExpandedBy
<1>4. V # {}
  OBVIOUS
<1> HIDE DEF G, V
<1>5. \A f \in [Queries -> V], q \in Queries : G[<<f, q>>] \in V
  BY <1>1, <1>2
<1>6. \A f, g \in [Queries -> V], q \in Queries :
        (\A c \in q : \A l \in c : f[l.of] = g[l.of]) => G[<<f, q>>] = G[<<g, q>>]
  BY <1>1, <1>3
<1>7. PICK f : Defined(f, G, V)
  <2>1. ByItsTerms(G, V)
    BY <1>4, <1>5, <1>6 DEF ByItsTerms
  <2> QED BY <2>1, DefinedByTerms
<1>8. f = [q \in Queries |-> ExpandedBy(f, q)]
  <2>1. [q \in Queries |-> G[<<f, q>>]] = [q \in Queries |-> ExpandedBy(f, q)]
    BY <1>1, <1>7 DEF Defined
  <2> QED BY <1>7, <2>1 DEF Defined
<1>9. Expand = [q \in Queries |-> ExpandedBy(Expand, q)]
  BY <1>8 DEF Expand, ExpandedBy
<1> QED BY <1>9

PositiveBy(f, q) == \A c \in q : \A l \in c : ~l.negated /\ f[l.of]

\* The equations of Positive and Fruitful hold.
LEMMA PositiveIs ==
  \A q \in Queries : Positive[q] = PositiveBy(Positive, q)
<1> DEFINE V == BOOLEAN
           G == [p \in [Queries -> V] \X Queries |-> PositiveBy(p[1], p[2])]
<1>1. \A f \in [Queries -> V], q \in Queries : G[<<f, q>>] = PositiveBy(f, q)
  OBVIOUS
<1>2. \A f \in [Queries -> V], q \in Queries : PositiveBy(f, q) \in V
  BY DEF PositiveBy
<1>3. ASSUME NEW f \in [Queries -> V], NEW g \in [Queries -> V], NEW q \in Queries,
             \A c \in q : \A l \in c : f[l.of] = g[l.of]
      PROVE  PositiveBy(f, q) = PositiveBy(g, q)
  BY <1>3 DEF PositiveBy
<1>4. V # {}
  OBVIOUS
<1> HIDE DEF G, V
<1>5. \A f \in [Queries -> V], q \in Queries : G[<<f, q>>] \in V
  BY <1>1, <1>2
<1>6. \A f, g \in [Queries -> V], q \in Queries :
        (\A c \in q : \A l \in c : f[l.of] = g[l.of]) => G[<<f, q>>] = G[<<g, q>>]
  BY <1>1, <1>3
<1>7. PICK f : Defined(f, G, V)
  <2>1. ByItsTerms(G, V)
    BY <1>4, <1>5, <1>6 DEF ByItsTerms
  <2> QED BY <2>1, DefinedByTerms
<1>8. f = [q \in Queries |-> PositiveBy(f, q)]
  <2>1. [q \in Queries |-> G[<<f, q>>]] = [q \in Queries |-> PositiveBy(f, q)]
    BY <1>1, <1>7 DEF Defined
  <2> QED BY <1>7, <2>1 DEF Defined
<1>9. Positive = [q \in Queries |-> PositiveBy(Positive, q)]
  BY <1>8 DEF Positive, PositiveBy
<1> QED BY <1>9

FruitfulBy(f, q) == \A c \in q : \A l \in c : f[l.of] /\ ExpandLiteral(l, Expand[l.of]) # {}

LEMMA FruitfulIs ==
  \A q \in Queries : Fruitful[q] = FruitfulBy(Fruitful, q)
<1> DEFINE V == BOOLEAN
           G == [p \in [Queries -> V] \X Queries |-> FruitfulBy(p[1], p[2])]
<1>1. \A f \in [Queries -> V], q \in Queries : G[<<f, q>>] = FruitfulBy(f, q)
  OBVIOUS
<1>2. \A f \in [Queries -> V], q \in Queries : FruitfulBy(f, q) \in V
  BY DEF FruitfulBy
<1>3. ASSUME NEW f \in [Queries -> V], NEW g \in [Queries -> V], NEW q \in Queries,
             \A c \in q : \A l \in c : f[l.of] = g[l.of]
      PROVE  FruitfulBy(f, q) = FruitfulBy(g, q)
  BY <1>3 DEF FruitfulBy
<1>4. V # {}
  OBVIOUS
<1> HIDE DEF G, V
<1>5. \A f \in [Queries -> V], q \in Queries : G[<<f, q>>] \in V
  BY <1>1, <1>2
<1>6. \A f, g \in [Queries -> V], q \in Queries :
        (\A c \in q : \A l \in c : f[l.of] = g[l.of]) => G[<<f, q>>] = G[<<g, q>>]
  BY <1>1, <1>3
<1>7. PICK f : Defined(f, G, V)
  <2>1. ByItsTerms(G, V)
    BY <1>4, <1>5, <1>6 DEF ByItsTerms
  <2> QED BY <2>1, DefinedByTerms
<1>8. f = [q \in Queries |-> FruitfulBy(f, q)]
  <2>1. [q \in Queries |-> G[<<f, q>>]] = [q \in Queries |-> FruitfulBy(f, q)]
    BY <1>1, <1>7 DEF Defined
  <2> QED BY <1>7, <2>1 DEF Defined
<1>9. Fruitful = [q \in Queries |-> FruitfulBy(Fruitful, q)]
  BY <1>8 DEF Fruitful, FruitfulBy
<1> QED BY <1>9

\* Expand has queries of keys only.
LEMMA ExpandFlat ==
  ASSUME db \in Dbs
  PROVE  \A q \in Queries : Expand[q] \in SUBSET FlatQueries
<1> DEFINE S == {q \in Queries : Expand[q] \in SUBSET FlatQueries}
<1>1. ASSUME NEW q \in Queries, \A c \in q : \A l \in c : l.of \in S PROVE q \in S
  <2> DEFINE g == [p \in Queries |-> IF p \in S THEN Expand[p] ELSE {}]
  <2>1. g \in [Queries -> SUBSET FlatQueries]
    OBVIOUS
  <2>2. \A c \in q : [l \in c |-> g[l.of]] = [l \in c |-> Expand[l.of]]
    BY <1>1
  <2> HIDE DEF g, S
  <2>3. [c \in q |-> ExpandClause(c, [l \in c |-> g[l.of]])]
          = [c \in q |-> ExpandClause(c, [l \in c |-> Expand[l.of]])]
    BY <2>2
  <2>4. ExpandedBy(g, q) = ExpandedBy(Expand, q)
    BY <2>3 DEF ExpandedBy
  <2>5. ExpandedBy(g, q) \in SUBSET FlatQueries
    BY <2>1, ExpandedByFlat
  <2> QED BY <2>4, <2>5, ExpandIs DEF S
<1> HIDE DEF S
<1>2. Queries \subseteq S
  BY <1>1, ByTerms
<1> QED BY <1>2 DEF S

\* The values of the queries a query is expanded to, together.
Together(q) == UNION {Answer(p) : p \in Expand[q]}

\* That they are the query's: none but those, and all of them if it is fruitful.
Agrees(q) == Together(q) \subseteq Meaning[q] /\ (Fruitful[q] => Together(q) = Meaning[q])

\* What a literal is expanded to has clauses, and one of them is true only where the literal
\* is, and wherever it is if what is behind it is fruitful.
LEMMA LiteralExpanded ==
  ASSUME db \in Dbs, NEW l \in LiteralsOver(Queries), ~l.negated,
         l.key = Deref => Agrees(l.of)
  PROVE  /\ \A p \in ExpandLiteral(l, Expand[l.of]) : p # {} /\ p \in FlatQueries
         /\ \A v : (\E p \in ExpandLiteral(l, Expand[l.of]) : Meets(p, TrueFor(v))) => l \in TrueFor(v)
         /\ Fruitful[l.of] =>
              \A v : l \in TrueFor(v) => \E p \in ExpandLiteral(l, Expand[l.of]) : Meets(p, TrueFor(v))
<1>1. l.of \in Queries
  BY FlatIs
<1>2. Expand[l.of] \in SUBSET FlatQueries
  BY <1>1, ExpandFlat
<1>3. ExpandLiteral(l, Expand[l.of]) \subseteq FlatQueries
  BY <1>2, ExpandedLiteralFlat
<1>4. CASE l.key # Deref
  <2> DEFINE p == {{l}}
  <2>1. ExpandLiteral(l, Expand[l.of]) = {p}
    BY <1>4 DEF ExpandLiteral
  <2>2. p # {} /\ \A v : Meets(p, TrueFor(v)) <=> l \in TrueFor(v)
    BY DEF Meets
  <2> HIDE DEF p
  <2> QED BY <1>3, <2>1, <2>2
<1>5. CASE l.key = Deref
  <2> DEFINE W == Together(l.of)
             X == ExpandLiteral(l, Expand[l.of])
  <2>1. W \subseteq Meaning[l.of] /\ (Fruitful[l.of] => W = Meaning[l.of])
    BY <1>5 DEF Agrees
  <2>2. W \subseteq Keys
    BY <1>1, <2>1, MeaningIs, DbIs
  <2>3. X = {Wrap(w) : w \in W}
    BY <1>5 DEF ExpandLiteral, Together
  <2>4. \A w \in W : Wrap(w) # {} /\ \A v : Meets(Wrap(w), TrueFor(v)) <=> v \in db[w]
    <3>1. ASSUME NEW w \in W, NEW v PROVE Meets(Wrap(w), TrueFor(v)) <=> v \in db[w]
      <4>1. Literal(w) \in TrueFor(v) <=> v \in db[w]
        BY <2>2, ValueIsTrue
      <4>2. Meets(Wrap(w), TrueFor(v)) <=> Literal(w) \in TrueFor(v)
        BY DEF Meets, Wrap
      <4> QED BY <4>1, <4>2
    <3> QED BY <3>1 DEF Wrap
  <2>5. ASSUME NEW v PROVE l \in TrueFor(v) <=> \E w \in Meaning[l.of] : v \in db[w]
    <3>1. l \in TrueFor(v) <=> (v \in AsksFor(l, Meaning[l.of])) # l.negated
      BY DEF TrueFor, IsTrue
    <3>2. v \in AsksFor(l, Meaning[l.of]) <=> \E w \in Meaning[l.of] : v \in db[w]
      BY <1>5 DEF AsksFor
    <3>3. (v \in AsksFor(l, Meaning[l.of])) \in BOOLEAN /\ l.negated = FALSE
      BY FlatIs
    <3>4. (v \in AsksFor(l, Meaning[l.of])) # l.negated <=> v \in AsksFor(l, Meaning[l.of])
      BY <3>3
    <3> QED BY <3>1, <3>2, <3>4
  <2>6. ASSUME NEW v PROVE (\E p \in X : Meets(p, TrueFor(v))) <=> \E w \in W : v \in db[w]
    <3> HIDE DEF W, X
    <3> QED BY <2>3, <2>4
  <2>7. \A p \in X : p # {}
    <3> HIDE DEF W, X
    <3> QED BY <2>3, <2>4
  <2> HIDE DEF W
  <2> QED BY <1>3, <2>1, <2>5, <2>6, <2>7
<1> QED BY <1>4, <1>5

\* So with the clauses of a query.
LEMMA ClauseExpanded ==
  ASSUME db \in Dbs, NEW q \in Queries, Positive[q], NEW c \in q,
         \A l \in c : Positive[l.of] => Agrees(l.of)
  PROVE  LET X == ExpandClause(c, [l \in c |-> Expand[l.of]])
         IN  /\ \A p \in X : p # {} /\ p \in FlatQueries
             /\ \A v : (\E p \in X : Meets(p, TrueFor(v))) => \E l \in c : l \in TrueFor(v)
             /\ Fruitful[q] =>
                  \A v : (\E l \in c : l \in TrueFor(v)) => \E p \in X : Meets(p, TrueFor(v))
<1> DEFINE X == ExpandClause(c, [l \in c |-> Expand[l.of]])
           F == [l \in c |-> ExpandLiteral(l, Expand[l.of])]
<1>1. \A l \in c : /\ l \in LiteralsOver(Queries) /\ l.of \in Queries
                   /\ ~l.negated /\ Positive[l.of]
  <2>1. \A l \in c : ~l.negated /\ Positive[l.of]
    BY PositiveIs DEF PositiveBy
  <2> QED BY <2>1, TermIsQuery
<1>2. \A l \in c : /\ \A p \in F[l] : p # {} /\ p \in FlatQueries
                   /\ \A v : (\E p \in F[l] : Meets(p, TrueFor(v))) => l \in TrueFor(v)
                   /\ Fruitful[l.of] => \A v : l \in TrueFor(v) => \E p \in F[l] : Meets(p, TrueFor(v))
  BY <1>1, LiteralExpanded
<1>3. Fruitful[q] => \A l \in c : Fruitful[l.of] /\ F[l] # {}
  BY FruitfulIs DEF FruitfulBy
<1>4. DOMAIN F = c
  OBVIOUS
<1>5. X = {OrAll(f) : f \in Selections(F)}
  <2>1. F = [l \in c |-> ExpandLiteral(l, [k \in c |-> Expand[k.of]][l])]
    OBVIOUS
  <2> HIDE DEF F
  <2> QED BY <2>1 DEF ExpandClause
<1> HIDE DEF F, X
<1>6. \A f \in Selections(F) : DOMAIN f = c /\ \A l \in c : f[l] \in F[l]
  BY <1>4, ChoiceIn DEF Selections
<1>7. ASSUME NEW f \in Selections(F) PROVE OrAll(f) # {} /\ OrAll(f) \in FlatQueries
  <2>1. \A l \in DOMAIN f : f[l] \in FlatQueries /\ f[l] # {}
    BY <1>2, <1>6
  <2> QED BY <2>1, OrAllFlat
<1>8. ASSUME NEW f \in Selections(F), NEW v, Meets(OrAll(f), TrueFor(v))
      PROVE  \E l \in c : l \in TrueFor(v)
  <2>1. PICK l \in DOMAIN f : Meets(f[l], TrueFor(v))
    BY <1>8, OrAllMeets
  <2>2. l \in c /\ f[l] \in F[l]
    BY <1>6, <2>1
  <2> QED BY <1>2, <2>1, <2>2
<1>9. ASSUME Fruitful[q], NEW v, NEW l \in c, l \in TrueFor(v)
      PROVE  \E p \in X : Meets(p, TrueFor(v))
  <2>1. PICK p \in F[l] : Meets(p, TrueFor(v))
    BY <1>2, <1>3, <1>9
  <2> DEFINE e == [k \in c |-> IF k = l THEN p ELSE CHOOSE any \in F[k] : TRUE]
             f == [k \in DOMAIN F |-> e[k]]
  <2>2. \A k \in DOMAIN F : e[k] \in F[k]
    BY <1>3, <1>4, <1>9, <2>1
  <2>3. e[l] = p
    OBVIOUS
  <2> HIDE DEF e
  <2>4. f \in Selections(F)
    BY <2>2, ChoiceExists
  <2>5. l \in DOMAIN f /\ f[l] = p
    BY <1>4, <2>3
  <2> HIDE DEF f
  <2>6. Meets(OrAll(f), TrueFor(v))
    BY <2>1, <2>5, OrAllMeets
  <2> QED BY <1>5, <2>4, <2>6
<1>10. \A p \in X : p # {} /\ p \in FlatQueries
  BY <1>5, <1>7
<1>11. \A v : (\E p \in X : Meets(p, TrueFor(v))) => \E l \in c : l \in TrueFor(v)
  BY <1>5, <1>8
<1>12. Fruitful[q] => \A v : (\E l \in c : l \in TrueFor(v)) => \E p \in X : Meets(p, TrueFor(v))
  BY <1>9
<1> QED BY <1>10, <1>11, <1>12 DEF X

\* So with a query.
LEMMA ExpandedAgrees ==
  ASSUME db \in Dbs, NEW q \in Queries, Positive[q],
         \A c \in q : \A l \in c : Positive[l.of] => Agrees(l.of)
  PROVE  Agrees(q)
<1> DEFINE F == [c \in q |-> ExpandClause(c, [l \in c |-> Expand[l.of]])]
<1>1. \A c \in q : /\ \A p \in F[c] : p # {} /\ p \in FlatQueries
                   /\ \A v : (\E p \in F[c] : Meets(p, TrueFor(v))) => \E l \in c : l \in TrueFor(v)
                   /\ Fruitful[q] =>
                        \A v : (\E l \in c : l \in TrueFor(v)) => \E p \in F[c] : Meets(p, TrueFor(v))
  BY ClauseExpanded
<1>2. Expand[q] = {UNION Range(f) : f \in Selections(F)} /\ DOMAIN F = q
  BY ExpandIs DEF ExpandedBy
<1> HIDE DEF F
<1>3. \A f \in Selections(F) : DOMAIN f = q /\ \A c \in q : f[c] \in F[c]
  BY <1>2, ChoiceIn DEF Selections
<1>4. \A p \in Expand[q] : p \in FlatQueries
  BY ExpandFlat
<1>5. ASSUME NEW f \in Selections(F), NEW v
      PROVE  Meets(UNION Range(f), TrueFor(v)) <=> \A c \in q : Meets(f[c], TrueFor(v))
  BY <1>3 DEF Meets, Range
<1>6. \A f \in Selections(F) : UNION Range(f) # {} <=> q # {}
  <2> SUFFICES ASSUME NEW f \in Selections(F) PROVE UNION Range(f) # {} <=> q # {}
    OBVIOUS
  <2>1. \A c \in q : f[c] # {}
    BY <1>1, <1>3
  <2> QED BY <1>3, <2>1 DEF Range
<1>7. ASSUME NEW v \in Together(q) PROVE v \in Meaning[q]
  <2>1. PICK p \in Expand[q] : v \in Answer(p)
    BY DEF Together
  <2>2. v \in Values /\ p # {} /\ Meets(p, TrueFor(v))
    BY <1>4, <2>1, Answers
  <2>3. PICK f \in Selections(F) : p = UNION Range(f)
    BY <1>2
  <2>4. \A c \in q : \E l \in c : l \in TrueFor(v)
    BY <1>1, <1>3, <1>5, <2>2, <2>3
  <2>5. Meets(q, TrueFor(v))
    BY <2>4 DEF Meets
  <2> QED BY <1>6, <2>2, <2>3, <2>5, Means
<1>8. ASSUME Fruitful[q], NEW v \in Meaning[q] PROVE v \in Together(q)
  <2>1. v \in Values /\ q # {} /\ Meets(q, TrueFor(v))
    BY MeaningIs, Means
  <2>2. \A c \in q : \E p \in F[c] : Meets(p, TrueFor(v))
    BY <1>1, <1>8, <2>1 DEF Meets
  <2> DEFINE e == [c \in q |-> CHOOSE p \in F[c] : Meets(p, TrueFor(v))]
             f == [c \in DOMAIN F |-> e[c]]
  <2>3. \A c \in q : e[c] \in F[c] /\ Meets(e[c], TrueFor(v))
    BY <2>2
  <2> HIDE DEF e
  <2>4. f \in Selections(F)
    BY <1>2, <2>3, ChoiceExists
  <2>5. \A c \in q : Meets(f[c], TrueFor(v))
    BY <1>2, <2>3
  <2> HIDE DEF f
  <2>6. Meets(UNION Range(f), TrueFor(v)) /\ UNION Range(f) # {}
    BY <1>5, <1>6, <2>1, <2>4, <2>5
  <2>7. UNION Range(f) \in Expand[q]
    BY <1>2, <2>4
  <2>8. v \in Answer(UNION Range(f))
    BY <1>4, <2>1, <2>6, <2>7, Answers
  <2> QED BY <2>7, <2>8 DEF Together
<1> QED BY <1>7, <1>8 DEF Agrees

\* By induction over what is nested, with every query.
LEMMA ExpandsRight ==
  ASSUME db \in Dbs
  PROVE  \A q \in Queries : Positive[q] => Agrees(q)
<1> DEFINE S == {q \in Queries : Positive[q] => Agrees(q)}
<1>1. ASSUME NEW q \in Queries, \A c \in q : \A l \in c : l.of \in S PROVE q \in S
  BY <1>1, ExpandedAgrees
<1> HIDE DEF S
<1>2. Queries \subseteq S
  BY <1>1, ByTerms
<1> QED BY <1>2 DEF S

(***************************************************************************)
(* A metaquery has, together, no values but those of the query, and all    *)
(* of them unless something behind a + has none; in every database, if     *)
(* nothing in the query is negated.                                        *)
(***************************************************************************)
THEOREM MetaqueriesAgree == AlgebraSpec => []MetaqueryAgrees
<1>1. ASSUME AlgebraInv PROVE MetaqueryAgrees
  <2>1. db \in Dbs /\ ops \in Nat
    BY <1>1 DEF AlgebraInv
  <2>2. Nested[ops + 1] \subseteq Queries
    BY <1>1, <2>1, BuiltQueries
  <2>3. \A r \in Slots : query[r] \in Queries /\ asked[r] = Meaning[query[r]]
    BY <1>1, <2>2 DEF AlgebraInv, Built
  <2>4. \A r \in Slots : Positive[query[r]] => Agrees(query[r])
    BY <2>1, <2>3, ExpandsRight
  <2> QED BY <2>3, <2>4 DEF MetaqueryAgrees, Agrees, Together
<1> QED BY <1>1, AlgebraInvariant, PTL
-----------------------------------------------------------------------------
(***************************************************************************)
(* Printing and parsing.                                                   *)
(***************************************************************************)
\* Inverting a query of one literal inverts the literal.
LEMMA InvertOne ==
  ASSUME NEW l
  PROVE  Invert({{l}}) = {{InvertLiteral(l)}}
<1> DEFINE c == {l}
           d == {InvertLiteral(l)}
           F == [x \in {c} |-> InvertClause(x)]
<1>1. Invert({{l}}) = OrAll(F)
  BY DEF Invert
<1>2. DOMAIN F = {c} /\ F[c] = {d}
  BY DEF InvertClause
<1> HIDE DEF F, c, d
<1>3. ASSUME NEW f \in Selections(F) PROVE UNION Range(f) = d
  <2>1. DOMAIN f = {c}
    BY <1>2 DEF Selections
  <2>2. f[c] = d
    BY <1>2, ChoiceIn
  <2>3. Range(f) = {d}
    BY <2>1, <2>2 DEF Range
  <2> QED BY <2>3
<1>4. \E f : f \in Selections(F)
  <2> DEFINE e == [x \in {c} |-> d]
  <2>1. \A x \in DOMAIN F : e[x] \in F[x]
    BY <1>2
  <2> HIDE DEF e
  <2>2. [x \in DOMAIN F |-> e[x]] \in Selections(F)
    BY <2>1, ChoiceExists
  <2> QED BY <2>2
<1>5. OrAll(F) = {d}
  BY <1>3, <1>4 DEF OrAll
<1> QED BY <1>1, <1>5 DEF d

\* The disjunction of the literals of a clause is the clause.
LEMMA OrAllOfOnes ==
  ASSUME NEW c
  PROVE  OrAll([l \in c |-> {{l}}]) = {c}
<1> DEFINE F == [l \in c |-> {{l}}]
<1>1. DOMAIN F = c /\ \A l \in c : F[l] = {{l}}
  OBVIOUS
<1> HIDE DEF F
<1>2. ASSUME NEW f \in Selections(F) PROVE UNION Range(f) = c
  <2>1. DOMAIN f = c
    BY <1>1 DEF Selections
  <2>2. \A l \in c : f[l] \in F[l]
    BY <1>1, ChoiceIn
  <2>3. \A l \in c : f[l] = {l}
    BY <1>1, <2>2
  <2>4. Range(f) = {{l} : l \in c}
    BY <2>1, <2>3 DEF Range
  <2> QED BY <2>4
<1>3. \E f : f \in Selections(F)
  <2> DEFINE e == [l \in c |-> {l}]
  <2>1. \A l \in DOMAIN F : e[l] \in F[l]
    BY <1>1
  <2> HIDE DEF e
  <2>2. [l \in DOMAIN F |-> e[l]] \in Selections(F)
    BY <2>1, ChoiceExists
  <2> QED BY <2>2
<1>4. OrAll(F) = {c}
  BY <1>2, <1>3 DEF OrAll
<1> QED BY <1>4 DEF F

\* A literal is parsed as itself, if the query behind it is.
LEMMA LiteralReparsed ==
  ASSUME NEW l \in LiteralsOver(Queries)
  PROVE  ReparseLiteral(l, l.of) = {{l}}
<1> DEFINE plain == IF l.key = Deref THEN MetaLiteral(l.of) ELSE Literal(l.key)
<1>1. l.key # Deref => l.of = {}
  BY DEF LiteralsOver
<1>2. l = [key |-> l.key, of |-> l.of, negated |-> l.negated] /\ l.negated \in BOOLEAN
  BY DEF LiteralsOver
<1>3. plain = [key |-> l.key, of |-> l.of, negated |-> FALSE]
  BY <1>1 DEF MetaLiteral, Literal
<1>4. ReparseLiteral(l, l.of) = IF l.negated THEN Invert({{plain}}) ELSE {{plain}}
  BY DEF ReparseLiteral, Wrap
<1> HIDE DEF plain
<1>5. InvertLiteral(plain) = [key |-> l.key, of |-> l.of, negated |-> TRUE]
  BY <1>3 DEF InvertLiteral
<1>6. CASE l.negated
  <2>1. l = InvertLiteral(plain)
    BY <1>2, <1>5, <1>6
  <2> QED BY <1>4, <1>6, <2>1, InvertOne
<1>7. CASE ~l.negated
  <2>1. l = plain
    BY <1>2, <1>3, <1>7
  <2> QED BY <1>4, <1>7, <2>1
<1> QED BY <1>6, <1>7

ReparsedBy(f, q) == UNION {OrAll([l \in c |-> ReparseLiteral(l, f[l.of])]) : c \in q}

\* What parses every term as itself parses a query as itself.
LEMMA ReparsedByTerms ==
  ASSUME NEW f, NEW q \in Queries, \A c \in q : \A l \in c : f[l.of] = l.of
  PROVE  ReparsedBy(f, q) = q
<1> DEFINE Part(c) == OrAll([l \in c |-> ReparseLiteral(l, f[l.of])])
<1>1. ASSUME NEW c \in q PROVE Part(c) = {c}
  <2>1. \A l \in c : ReparseLiteral(l, f[l.of]) = {{l}}
    BY TermIsQuery, LiteralReparsed
  <2>2. [l \in c |-> ReparseLiteral(l, f[l.of])] = [l \in c |-> {{l}}]
    BY <2>1
  <2> QED BY <2>2, OrAllOfOnes
<1>2. ReparsedBy(f, q) = UNION {Part(c) : c \in q}
  BY DEF ReparsedBy
<1> HIDE DEF Part
<1>3. \A d : d \in ReparsedBy(f, q) <=> d \in q
  BY <1>1, <1>2
<1> QED BY <1>3, Zenon

\* The equation of Reparse has a solution, the identity; by induction it is the only one.
LEMMA ReparsesSame == \A q \in Queries : Reparse[q] = q
<1> DEFINE f == [q \in Queries |-> q]
<1>1. \A q \in Queries : f[q] = ReparsedBy(f, q)
  <2>1. \A q \in Queries : \A c \in q : \A l \in c : f[l.of] = l.of
    BY TermIsQuery
  <2>2. \A q \in Queries : f[q] = q
    OBVIOUS
  <2> HIDE DEF f
  <2> QED BY <2>1, <2>2, ReparsedByTerms
<1>2. f = [q \in Queries |-> f[q]]
  OBVIOUS
<1> HIDE DEF f
<1>3. f = [q \in Queries |-> ReparsedBy(f, q)]
  BY <1>1, <1>2
<1>4. Reparse = [q \in Queries |-> ReparsedBy(Reparse, q)]
  BY <1>3 DEF Reparse, ReparsedBy
<1>5. \A q \in Queries : Reparse[q] = ReparsedBy(Reparse, q)
  BY <1>4
<1> DEFINE S == {q \in Queries : Reparse[q] = q}
<1>6. ASSUME NEW q \in Queries, \A c \in q : \A l \in c : l.of \in S PROVE q \in S
  BY <1>5, <1>6, ReparsedByTerms
<1> HIDE DEF S
<1>7. Queries \subseteq S
  BY <1>6, ByTerms
<1> QED BY <1>7 DEF S

(***************************************************************************)
(* A query that is printed and parsed again is the query it was, with any  *)
(* number of operators and of + around each other.                         *)
(***************************************************************************)
THEOREM ParsesAsPrinted == AlgebraSpec => []ParsedIsPrinted
<1>1. ASSUME AlgebraInv PROVE ParsedIsPrinted
  <2>1. ops \in Nat
    BY <1>1 DEF AlgebraInv
  <2>2. Nested[ops + 1] \subseteq Queries
    BY <1>1, <2>1, BuiltQueries
  <2>3. \A r \in Slots : query[r] \in Queries
    BY <1>1, <2>2 DEF AlgebraInv, Built
  <2> QED BY <2>3, ReparsesSame DEF ParsedIsPrinted
<1> QED BY <1>1, AlgebraInvariant, PTL
=============================================================================
