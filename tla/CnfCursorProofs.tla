--------------------------- MODULE CnfCursorProofs --------------------------
(***************************************************************************)
(* Proofs about the query cursor: the inductive invariant IInv of          *)
(* CnfCursor, the safety properties that follow from it, and the           *)
(* refinement of AscendingIter, for every query, window and database.      *)
(***************************************************************************)
EXTENDS CnfCursor, WellFoundedInduction, TLAPS

\* A set of numbers that is not empty has a least element.
LEMMA NatLeast ==
  ASSUME NEW S \in SUBSET Nat, S # {}
  PROVE  \E x \in S : \A y \in S : x <= y
<1> DEFINE R == {ss \in Nat \X Nat : ss[1] < ss[2]}
<1>1. IsWellFoundedOn(R, Nat)
  BY NatLessThanWellFounded, Zenon DEF OpToRel
<1> HIDE DEF R
<1>2. PICK x \in S : \A y \in S : ~(<<y, x>> \in R)
  BY <1>1, WFMin
<1>3. \A y \in S : ~(y < x)
  BY <1>2 DEF R
<1> QED BY <1>3

\* Min returns it.
LEMMA MinIsLeast ==
  ASSUME NEW S \in SUBSET Nat, S # {}
  PROVE  Min(S) \in S /\ \A y \in S : Min(S) <= y
BY NatLeast DEF Min

\* There is no other.
LEMMA MinIsUnique ==
  ASSUME NEW S \in SUBSET Nat, NEW x \in S, \A y \in S : x <= y
  PROVE  x = Min(S)
<1>1. Min(S) \in S /\ \A y \in S : Min(S) <= y
  BY MinIsLeast
<1>2. \A m \in S : m <= x /\ x <= m => x = m
  OBVIOUS
<1> QED BY <1>1, <1>2

\* A bounded set of numbers that is not empty has a greatest element.
LEMMA MaxIsGreatest ==
  ASSUME NEW S \in SUBSET Nat, S # {}, NEW n \in Nat, \A y \in S : y <= n
  PROVE  Max(S) \in S /\ \A y \in S : y <= Max(S)
<1> DEFINE D == {k \in Nat : n - k \in S}
<1>1. PICK y \in S : TRUE
  OBVIOUS
<1>2. n - y \in D
  BY <1>1
<1>3. PICK d \in D : \A e \in D : d <= e
  BY <1>2, NatLeast
<1>4. \A z \in S : n - z \in D
  OBVIOUS
<1>5. n - d \in S /\ \A z \in S : z <= n - d
  BY <1>3, <1>4
<1> QED BY <1>5 DEF Max

\* The remainder of 32-bit arithmetic stays in range and does not grow.
LEMMA ModBound ==
  ASSUME NEW a \in Nat, NEW m \in Nat \ {0}
  PROVE  a % m \in 0 .. m - 1 /\ a % m <= a /\ (a < m => a % m = a)
OBVIOUS


-----------------------------------------------------------------------------
(***************************************************************************)
(* Facts about the operators.                                              *)
(***************************************************************************)

\* NextId is the least id behind x, or 0 if there is none.
LEMMA NextIdSpec ==
  ASSUME NEW S \in SUBSET Nat, NEW x \in Nat
  PROVE  /\ NextId(S, x) = 0 => \A y \in S : y <= x
         /\ NextId(S, x) # 0 => /\ NextId(S, x) \in S /\ NextId(S, x) > x
                                /\ \A y \in S : y > x => NextId(S, x) <= y
<1>1. IdsAfter(S, x) \in SUBSET Nat
  BY DEF IdsAfter
<1>2. CASE IdsAfter(S, x) = {}
  BY <1>2 DEF NextId, IdsAfter
<1>3. CASE IdsAfter(S, x) # {}
  <2>1. Min(IdsAfter(S, x)) \in IdsAfter(S, x) /\ \A y \in IdsAfter(S, x) : Min(IdsAfter(S, x)) <= y
    BY <1>1, <1>3, MinIsLeast
  <2> QED BY <1>3, <2>1 DEF NextId, IdsAfter
<1> QED BY <1>2, <1>3

\* The terms of the query are the terms of its clauses.
LEMMA TermsOfClauses ==
  ASSUME NEW c \in Clauses, NEW k \in 1 .. nterms[c]
  PROVE  <<c, k>> \in Terms /\ <<c, k>> \in TermsOf(c)
BY DEF Terms, TermsOf

LEMMA ClauseOfTerm ==
  ASSUME NEW t \in Terms
  PROVE  t[1] \in Clauses /\ t[2] \in 1 .. nterms[t[1]] /\ t = <<t[1], t[2]>> /\ t \in TermsOf(t[1])
BY DEF Terms, TermsOf

LEMMA TermsOfIn ==
  ASSUME NEW c \in Clauses, NEW t \in TermsOf(c)
  PROVE  t \in Terms /\ t[1] = c
BY DEF Terms, TermsOf

\* The window's end does not exceed base + Window.
LEMMA WindowEnd ==
  ASSUME base \in ValueId
  PROVE  MaxId \in ValueId /\ MaxId <= base + Window
<1>1. base \in Nat /\ Window \in Nat /\ IdLimit \in Nat \ {0}
  BY CnfAssumption DEF ValueId
<1>2. base + Window \in Nat
  BY <1>1
<1>3. (base + Window) % IdLimit \in 0 .. IdLimit - 1 /\ (base + Window) % IdLimit <= base + Window
  BY <1>1, <1>2, ModBound
<1> QED BY <1>3 DEF MaxId, ValueId

\* A call of a term's next function moves that term, and skips no id of it.
LEMMA TermNextSpec ==
  ASSUME TypeOK, CursorsInTerms, NEW t \in Terms, ~empty[t], TermNext(t)
  PROVE  /\ cur' \in [Terms -> ValueId] /\ empty' \in [Terms -> BOOLEAN]
         /\ \A u \in Terms : u # t => cur'[u] = cur[u] /\ empty'[u] = empty[u]
         /\ ~empty'[t] => cur'[t] \in sem[t] /\ cur'[t] > cur[t]
         /\ \A y \in sem[t] : y > cur[t] => ~empty'[t] /\ y >= cur'[t]
<1> DEFINE id == NextId(sem[t], cur[t])
<1>1. sem[t] \in SUBSET Nat /\ sem[t] \subseteq Ids /\ cur[t] \in Nat /\ Ids \subseteq ValueId /\ 0 \in ValueId
  BY CnfAssumption DEF TypeOK, Ids, ValueId
<1>2. /\ id = 0 => \A y \in sem[t] : y <= cur[t]
      /\ id # 0 => id \in sem[t] /\ id > cur[t] /\ \A y \in sem[t] : y > cur[t] => id <= y
  BY <1>1, NextIdSpec
<1>3. id \in ValueId
  BY <1>1, <1>2
<1>4. cur' = [cur EXCEPT ![t] = id] /\ empty' = [empty EXCEPT ![t] = (id = 0)]
  BY DEF TermNext
<1> HIDE DEF id
<1>5. cur' \in [Terms -> ValueId] /\ empty' \in [Terms -> BOOLEAN]
  BY <1>3, <1>4 DEF TypeOK
<1>6. \A u \in Terms : u # t => cur'[u] = cur[u] /\ empty'[u] = empty[u]
  BY <1>4 DEF TypeOK
<1>7. cur'[t] = id /\ empty'[t] = (id = 0)
  BY <1>4 DEF TypeOK
<1>8. ~empty'[t] => cur'[t] \in sem[t] /\ cur'[t] > cur[t]
  BY <1>2, <1>7
<1>9. \A y \in sem[t] : y > cur[t] => ~empty'[t] /\ y >= cur'[t]
  <2> SUFFICES ASSUME NEW y \in sem[t], y > cur[t]
               PROVE  ~empty'[t] /\ y >= cur'[t]
    OBVIOUS
  <2>1. id # 0
    BY <1>1, <1>2
  <2>2. id <= y /\ id \in Nat /\ y \in Nat
    BY <1>1, <1>2, <2>1
  <2>3. ~empty'[t]
    BY <1>7, <2>1
  <2>4. y >= cur'[t]
    BY <1>7, <2>2
  <2> QED BY <2>3, <2>4
<1> QED BY <1>5, <1>6, <1>8, <1>9
-----------------------------------------------------------------------------
(***************************************************************************)
(* Every action preserves the invariant.                                   *)
(***************************************************************************)

LEMMA TypeSpec == TypeOK => /\ Offset \subseteq Nat /\ ValueId \subseteq Nat
                            /\ base \in Nat /\ offset \in Nat /\ entry \in Nat /\ Window \in Nat
                            /\ Want \subseteq Nat /\ Bits \subseteq Offset
<1> SUFFICES ASSUME TypeOK
             PROVE  /\ Offset \subseteq Nat /\ ValueId \subseteq Nat
                    /\ base \in Nat /\ offset \in Nat /\ entry \in Nat /\ Window \in Nat
                    /\ Want \subseteq Nat /\ Bits \subseteq Offset
  OBVIOUS
<1>1. Offset \subseteq Nat /\ ValueId \subseteq Nat /\ Window \in Nat /\ Ids \subseteq Nat
  BY CnfAssumption DEF Offset, ValueId, Ids
<1>2. Want \subseteq Ids /\ Bits \subseteq isect
  BY DEF Want, Bits
<1>3. base \in ValueId /\ offset \in 0 .. Window /\ entry \in ValueId /\ isect \subseteq Offset
  BY DEF TypeOK
<1> QED BY <1>1, <1>2, <1>3

LEMMA EmptyNextInv == IInv /\ EmptyNext => IInv'
<1> SUFFICES ASSUME IInv, EmptyNext PROVE IInv'
  OBVIOUS
<1> USE DEF EmptyNext, query, terms, loop
<1>1. TypeOK'
  BY CnfAssumption DEF IInv, TypeOK, Terms, TermsOf, Clauses, ValueId
<1>2. CursorsInTerms' /\ LoopsInRange' /\ ClauseAlive' /\ BitsMatch' /\ TermsPassed'
  BY DEF IInv, CursorsInTerms, LoopsInRange, ClauseAlive, BitsMatch, TermsPassed,
         Terms, TermsOf, Clauses, InWindow, Live
<1>3. NothingLost' /\ InOrder' /\ OnlyMatches'
  BY DEF IInv, NothingLost, InOrder, OnlyMatches, Want, Bits, Terms, TermsOf, Clauses, InWindow
<1> QED BY <1>1, <1>2, <1>3 DEF IInv

LEMMA WindowDoneInv == IInv /\ WindowDone => IInv'
<1> SUFFICES ASSUME IInv, WindowDone PROVE IInv'
  OBVIOUS
<1> USE DEF WindowDone, query, terms, loop, answer
<1>1. TypeOK'
  BY CnfAssumption DEF IInv, TypeOK, Terms, TermsOf, Clauses, ValueId
<1>2. CursorsInTerms' /\ LoopsInRange' /\ ClauseAlive' /\ BitsMatch' /\ TermsPassed'
  BY DEF IInv, CursorsInTerms, LoopsInRange, ClauseAlive, BitsMatch, TermsPassed,
         Terms, TermsOf, Clauses, InWindow, Live
<1>3. NothingLost'
  BY DEF IInv, NothingLost, Want, ToCome, Ahead, TermsOf, Clauses, InWindow
<1>4. Bits' = {}
  <2>1. isect' = isect /\ offset' = Window
    OBVIOUS
  <2>2. \A b \in isect : ~(b >= Window)
    BY CnfAssumption DEF IInv, TypeOK, Offset
  <2> QED BY <2>1, <2>2 DEF Bits
<1>5. InOrder' /\ OnlyMatches'
  BY <1>4 DEF IInv, InOrder, OnlyMatches, Want, Terms, TermsOf, Clauses, InWindow
<1> QED BY <1>1, <1>2, <1>3, <1>5 DEF IInv

LEMMA NextInWindowInv == IInv /\ NextInWindow => IInv'
<1> SUFFICES ASSUME IInv, NextInWindow PROVE IInv'
  OBVIOUS
<1> DEFINE b == Min(Bits)
<1>0. b \in Bits /\ \A x \in Bits : b <= x
  BY MinIsLeast, TypeSpec DEF IInv, NextInWindow
<1>1. /\ pc = "idle" /\ pc' = "idle" /\ ~errno /\ errno' = errno
      /\ entry' = base + b /\ out' = out \cup {base + b} /\ offset' = b + 1
      /\ UNCHANGED <<nterms, sem, cur, empty, base, unionn, isect, i, j>>
  BY DEF NextInWindow, Deliver, query, terms, loop
<1> HIDE DEF b
<1>2. Want' = Want /\ Clauses' = Clauses /\ Terms' = Terms
  BY <1>1 DEF Want, Clauses, Terms, TermsOf
<1>3. Bits' = {x \in Bits : x > b}
  <2>1. isect' = isect /\ offset' = b + 1 /\ isect \subseteq Nat /\ offset \in Nat
    BY <1>1, TypeSpec DEF IInv, TypeOK
  <2>2. b \in Nat /\ b >= offset
    BY <1>0, <2>1 DEF Bits
  <2>3. \A x \in isect : x >= b + 1 <=> x >= offset /\ x > b
    BY <2>1, <2>2
  <2>4. Bits' = {x \in isect : x >= b + 1}
    BY <2>1 DEF Bits
  <2> QED BY <2>3, <2>4 DEF Bits
<1>4. base + b \in Want
  BY <1>0, <1>1 DEF IInv, OnlyMatches
<1>5. TypeOK'
  <2>1. base + b \in ValueId
    BY <1>4, CnfAssumption DEF ValueId, Want, Ids
  <2>2. b + 1 \in 0 .. Window
    BY <1>0, CnfAssumption, TypeSpec DEF IInv, Offset
  <2> QED BY <1>1, <1>2, <2>1, <2>2 DEF IInv, TypeOK
<1>6. CursorsInTerms' /\ LoopsInRange' /\ ClauseAlive' /\ BitsMatch' /\ TermsPassed'
  BY <1>1, <1>2 DEF IInv, CursorsInTerms, LoopsInRange, ClauseAlive, BitsMatch, TermsPassed,
         InWindow
<1>7. NothingLost'
  BY <1>0, <1>1, <1>2, <1>3, TypeSpec DEF IInv, NothingLost, ToCome, Ahead, TermsOf, InWindow
<1>8. InOrder'
  BY <1>0, <1>1, <1>2, <1>3, TypeSpec DEF IInv, InOrder, InWindow, Offset
<1>9. OnlyMatches'
  BY <1>0, <1>1, <1>2, <1>3, <1>4, TypeSpec DEF IInv, OnlyMatches, Offset
<1> QED BY <1>5, <1>6, <1>7, <1>8, <1>9 DEF IInv

LEMMA WindowFailsInv == IInv /\ WindowFails => IInv'
<1> SUFFICES ASSUME IInv, WindowFails PROVE IInv'
  OBVIOUS
<1> DEFINE b == Min(Bits)
<1>0. b \in Bits
  BY MinIsLeast, TypeSpec DEF IInv, WindowFails
<1>1. /\ pc = "idle" /\ errno' = TRUE /\ pc' \in {"window", "crashed"}
      /\ offset' = b /\ Clauses # {}
      /\ UNCHANGED <<nterms, sem, cur, empty, base, unionn, isect, i, j, entry, out>>
  <2>1. pc = "idle" /\ errno' = TRUE /\ pc' \in {"window", "crashed"} /\ offset' = b
    BY DEF WindowFails, CannotDecode
  <2>2. UNCHANGED <<nterms, sem, cur, empty, base, unionn, isect, i, j, entry, out>>
    BY DEF WindowFails, CannotDecode, query, terms, loop
  <2>3. Clauses # {}
    BY <1>0 DEF IInv, LoopsInRange, Bits
  <2> QED BY <2>1, <2>2, <2>3
<1> HIDE DEF b
<1>2. Want' = Want /\ Clauses' = Clauses /\ Terms' = Terms
  BY <1>1 DEF Want, Clauses, Terms, TermsOf
<1>3. TypeOK'
  BY <1>0, <1>1, <1>2, CnfAssumption DEF IInv, TypeOK, Bits, Offset
<1>4. CursorsInTerms' /\ LoopsInRange' /\ ClauseAlive' /\ BitsMatch' /\ TermsPassed'
  BY <1>1, <1>2 DEF IInv, CursorsInTerms, LoopsInRange, ClauseAlive, BitsMatch, TermsPassed,
         InWindow
<1>5. NothingLost' /\ InOrder' /\ OnlyMatches'
  BY <1>1, <1>2 DEF IInv, NothingLost, InOrder, OnlyMatches, InWindow
<1> QED BY <1>3, <1>4, <1>5 DEF IInv

LEMMA LeastIdSpec ==
  ASSUME TypeOK, NEW c \in Clauses, Live(c) # {}
  PROVE  /\ \E t \in TermsOf(c) : ~empty[t] /\ LeastId(c) = cur[t]
         /\ \A t \in TermsOf(c) : ~empty[t] => LeastId(c) <= cur[t]
         /\ LeastId(c) \in ValueId
<1> DEFINE S == {cur[t] : t \in Live(c)}
<1>1. \A t \in TermsOf(c) : cur[t] \in ValueId
  BY TermsOfIn DEF TypeOK
<1>2. S # {} /\ S \subseteq ValueId /\ S \subseteq Nat
  BY <1>1 DEF Live, ValueId
<1>3. Min(S) \in S /\ \A y \in S : Min(S) <= y
  BY <1>2, MinIsLeast
<1> QED BY <1>2, <1>3 DEF Live, LeastId

LEMMA GreatestOfSpec ==
  ASSUME TypeOK, NEW C \in SUBSET Clauses, \A c \in C : Live(c) # {}
  PROVE  /\ GreatestOf(C) \in ValueId
         /\ \A c \in C : LeastId(c) <= GreatestOf(C)
         /\ GreatestOf(C) = 0 \/ \E c \in C : GreatestOf(C) = LeastId(c)
<1> DEFINE S == {0} \cup {LeastId(c) : c \in C}
<1>1. \A c \in C : LeastId(c) \in ValueId
  BY LeastIdSpec
<1>2. S # {} /\ S \subseteq ValueId
  BY <1>1, CnfAssumption DEF ValueId
<1>3. S \subseteq Nat /\ IdLimit \in Nat /\ \A y \in S : y <= IdLimit
  BY <1>2, CnfAssumption DEF ValueId
<1>4. Max(S) \in S /\ \A y \in S : y <= Max(S)
  BY <1>2, <1>3, MaxIsGreatest
<1> QED BY <1>2, <1>4 DEF GreatestOf

LEMMA NoMoreInv == IInv /\ NoMore => IInv'
<1> SUFFICES ASSUME IInv, NoMore PROVE IInv'
  OBVIOUS
<1>1. /\ pc = "window" /\ pc' = "idle" /\ entry' = 0 /\ Exhausted # {}
      /\ base' = GreatestOf({c \in Clauses : c > Max(Exhausted)})
      /\ UNCHANGED <<nterms, sem, cur, empty, unionn, isect, offset, i, j, errno, out>>
  BY DEF NoMore, query, terms, loop
<1>2. Want' = Want /\ Clauses' = Clauses /\ Terms' = Terms /\ Bits' = Bits
  BY <1>1 DEF Want, Clauses, Terms, TermsOf, Bits
<1>3. base' \in ValueId
  <2>1. nterms \in Seq(Nat)
    BY DEF IInv, TypeOK
  <2>2. Exhausted \in SUBSET Nat /\ Len(nterms) \in Nat /\ \A c \in Exhausted : c <= Len(nterms)
    BY <2>1 DEF Exhausted, Clauses
  <2>3. \A c \in Exhausted : c <= Max(Exhausted)
    BY <1>1, <2>2, MaxIsGreatest
  <2>4. Max(Exhausted) \in Nat
    BY <1>1, <2>2, MaxIsGreatest
  <2>5. \A c \in Clauses : c > Max(Exhausted) => Live(c) # {}
    <3>1. Clauses \subseteq Nat
      BY <2>1 DEF Clauses
    <3>2. \A c \in Clauses : Live(c) = {} => c \in Exhausted
      BY DEF Exhausted
    <3> QED BY <2>3, <2>4, <3>1, <3>2
  <2> QED BY <1>1, <2>5, GreatestOfSpec DEF IInv
<1>4. TypeOK'
  BY <1>1, <1>2, <1>3, CnfAssumption DEF IInv, TypeOK, ValueId
<1>5. ~errno => Want \subseteq out /\ Bits = {}
  <2>1. PICK c \in Clauses : Live(c) = {}
    BY <1>1 DEF Exhausted
  <2>2. \A x : ~ToCome(x, c)
    BY <2>1 DEF ToCome, Ahead, Live
  <2> QED BY <1>1, <2>2 DEF IInv, NothingLost, InOrder
<1>6. CursorsInTerms' /\ LoopsInRange' /\ ClauseAlive' /\ BitsMatch' /\ TermsPassed'
  BY <1>1, <1>2 DEF IInv, CursorsInTerms, LoopsInRange, ClauseAlive, BitsMatch, TermsPassed,
         InWindow
<1>7. NothingLost' /\ InOrder' /\ OnlyMatches'
  BY <1>1, <1>2, <1>5 DEF IInv, NothingLost, InOrder, OnlyMatches, InWindow
<1> QED BY <1>4, <1>6, <1>7 DEF IInv

LEMMA NewWindowInv == IInv /\ NewWindow => IInv'
<1> SUFFICES ASSUME IInv, NewWindow PROVE IInv'
  OBVIOUS
<1> DEFINE n == Len(nterms)
<1>1. /\ pc = "window" /\ pc' = "union" /\ base' = GreatestOf(Clauses)
      /\ i' = n /\ j' = 1 /\ unionn' = [unionn EXCEPT ![n] = {}]
      /\ UNCHANGED <<nterms, sem, cur, empty, isect, offset, entry, errno, out>>
  BY DEF NewWindow, query, terms, answer
<1>2. Want' = Want /\ Clauses' = Clauses /\ Terms' = Terms /\ Bits' = Bits
  BY <1>1 DEF Want, Clauses, Terms, TermsOf, Bits
<1>3. n \in Clauses /\ Clauses = 1 .. n /\ n \in Nat /\ nterms[n] \in Nat
  <2>1. nterms \in Seq(Nat) /\ Clauses # {}
    BY <1>1 DEF IInv, TypeOK, LoopsInRange
  <2> QED BY <2>1 DEF Clauses
<1> HIDE DEF n
<1>4. \A c \in Clauses : Live(c) # {}
  BY DEF NewWindow, Exhausted
<1>5. /\ base' \in ValueId
      /\ \A c \in Clauses : LeastId(c) <= base' /\ LeastId(c) \in Nat
      /\ base' = 0 \/ \E t \in Terms : ~empty[t] /\ base' = cur[t]
  BY <1>1, <1>4, GreatestOfSpec, LeastIdSpec, TermsOfIn DEF IInv, ValueId
<1>6. base' # 0
  <2>1. PICK t \in TermsOf(n) : ~empty[t] /\ LeastId(n) = cur[t]
    BY <1>3, <1>4, LeastIdSpec DEF IInv
  <2>2. cur[t] \in Ids
    BY <1>3, <2>1, TermsOfIn DEF IInv, TypeOK, CursorsInTerms
  <2> QED BY <1>3, <1>5, <2>1, <2>2 DEF Ids
<1>7. TypeOK'
  BY <1>1, <1>2, <1>3, <1>5 DEF IInv, TypeOK
<1>8. CursorsInTerms' /\ LoopsInRange' /\ ClauseAlive'
  <2>1. ClauseAlive'
    BY <1>1, <1>2, <1>4 DEF ClauseAlive, Live, TermsOf
  <2> QED BY <1>1, <1>2, <1>3, <2>1 DEF IInv, CursorsInTerms, LoopsInRange
<1>9. BitsMatch'
  BY <1>1, <1>2, <1>3 DEF BitsMatch, Visited, IInv, TypeOK
<1>10. TermsPassed'
  BY <1>1, <1>2, <1>3, ClauseOfTerm DEF TermsPassed, Passed
<1>11. NothingLost'
  <2> SUFFICES ASSUME ~errno, NEW x \in Want \ out
               PROVE  x >= base' /\ \A c \in Clauses : ToCome(x, c)
    BY <1>1, <1>2 DEF NothingLost, ToCome, Ahead, TermsOf, InWindow
  <2>1. \A c \in Clauses : ToCome(x, c)
    BY <1>1 DEF IInv, NothingLost
  <2>2. x \in Nat
    BY TypeSpec DEF IInv
  <2>3. ASSUME NEW c \in Clauses PROVE LeastId(c) <= x
    <3>1. PICK t \in TermsOf(c) : ~empty[t] /\ x >= cur[t]
      BY <2>1 DEF ToCome, Ahead
    <3>2. LeastId(c) <= cur[t] /\ LeastId(c) \in Nat /\ cur[t] \in Nat
      BY <1>4, <1>5, <3>1, LeastIdSpec, TermsOfIn, TypeSpec DEF IInv, TypeOK
    <3> QED BY <2>2, <3>1, <3>2
  <2>4. \E c \in Clauses : base' = LeastId(c)
    BY <1>1, <1>4, <1>6, GreatestOfSpec DEF IInv
  <2> QED BY <2>1, <2>3, <2>4, <2>2, <1>5
<1>12. InOrder'
  BY <1>1, <1>2, <1>5, <1>6 DEF IInv, InOrder, InWindow
<1>13. OnlyMatches'
  BY <1>1, <1>2 DEF IInv, OnlyMatches
<1> QED BY <1>7, <1>8, <1>9, <1>10, <1>11, <1>12, <1>13 DEF IInv

LEMMA MoveTermInv == IInv /\ (SkipId \/ CollectId) => IInv'
<1> SUFFICES ASSUME IInv, SkipId \/ CollectId PROVE IInv'
  OBVIOUS
<1> DEFINE t == <<i, j>>
<1>1. /\ pc = "union" /\ j <= nterms[i] /\ ~empty[t] /\ TermNext(t)
      /\ UNCHANGED <<nterms, sem, base, isect, offset, i, j, pc, entry, errno, out>>
  BY DEF SkipId, CollectId, InTerm, Here, query, loop, answer
<1>2. \/ cur[t] < base /\ unionn' = unionn
      \/ /\ cur[t] >= base /\ cur[t] < MaxId
         /\ unionn' = [unionn EXCEPT ![i] = @ \cup {cur[t] - base}]
  BY DEF SkipId, CollectId, Here
<1>3. /\ Want' = Want /\ Clauses' = Clauses /\ Terms' = Terms /\ Bits' = Bits /\ MaxId' = MaxId
      /\ \A c : TermsOf(c)' = TermsOf(c)
  BY <1>1 DEF Want, Clauses, Terms, TermsOf, Bits, MaxId
<1>4. t \in Terms /\ i \in Clauses /\ t \in TermsOf(i) /\ t[1] = i /\ t[2] = j /\ i \in Nat /\ j \in Nat
  BY <1>1, TermsOfClauses DEF IInv, TypeOK, LoopsInRange
<1> HIDE DEF t
<1>5. /\ cur' \in [Terms -> ValueId] /\ empty' \in [Terms -> BOOLEAN]
      /\ \A u \in Terms : u # t => cur'[u] = cur[u] /\ empty'[u] = empty[u]
      /\ ~empty'[t] => cur'[t] \in sem[t] /\ cur'[t] > cur[t]
      /\ \A y \in sem[t] : y > cur[t] => ~empty'[t] /\ y >= cur'[t]
  BY <1>1, <1>4, TermNextSpec DEF IInv
<1>6. /\ cur[t] \in Nat /\ cur[t] \in sem[t] /\ base \in Nat /\ MaxId \in Nat /\ MaxId <= base + Window
      /\ out \subseteq Nat /\ Window \in Nat
  BY <1>1, <1>4, WindowEnd, TypeSpec DEF IInv, TypeOK, CursorsInTerms
<1>7. unionn' \in [Clauses -> SUBSET Offset]
  <2>1. cur[t] >= base /\ cur[t] < MaxId => cur[t] - base \in Offset
    BY <1>6 DEF Offset
  <2> QED BY <1>2, <1>4, <2>1 DEF IInv, TypeOK
<1>8. /\ \A c \in Clauses : unionn[c] \subseteq unionn'[c]
      /\ \A c \in Clauses : \A b \in unionn'[c] :
            b \in unionn[c] \/ (c = i /\ b = cur[t] - base /\ base + b = cur[t] /\ cur[t] < MaxId)
      /\ cur[t] < base \/ cur[t] - base \in unionn'[i]
  BY <1>2, <1>4, <1>6 DEF IInv, TypeOK
<1>9. TypeOK'
  BY <1>1, <1>3, <1>5, <1>7 DEF IInv, TypeOK
<1>10. CursorsInTerms' /\ LoopsInRange'
  BY <1>1, <1>3, <1>5 DEF IInv, CursorsInTerms, LoopsInRange
<1>11. ClauseAlive'
  <2> SUFFICES ASSUME NEW c \in Clauses, c < i PROVE Live(c)' # {}
    BY <1>1, <1>3 DEF ClauseAlive
  <2>1. PICK u \in TermsOf(c) : ~empty[u]
    BY <1>1 DEF IInv, ClauseAlive, Live
  <2>2. u \in Terms /\ u # t
    BY <2>1, <1>4, TermsOfIn
  <2> QED BY <2>1, <2>2, <1>3, <1>5 DEF Live
<1>12. BitsMatch'
  <2> SUFFICES ASSUME NEW c \in Clauses, Visited(c), NEW b \in unionn'[c]
               PROVE  base + b < MaxId /\ \E u \in TermsOf(c) : base + b \in sem[u]
    BY <1>1, <1>3 DEF BitsMatch, InWindow, Visited
  <2>1. CASE b \in unionn[c]
    BY <2>1, <1>1 DEF IInv, BitsMatch, InWindow
  <2>2. CASE c = i /\ base + b = cur[t] /\ cur[t] < MaxId
    BY <2>2, <1>4, <1>6
  <2> QED BY <2>1, <2>2, <1>8
<1>13. TermsPassed'
  BY <1>1, <1>3, <1>4, <1>5 DEF IInv, TermsPassed, InWindow, Passed
<1>14. NothingLost'
  <2> SUFFICES ASSUME ~errno, NEW x \in Want \ out, NEW c \in Clauses,
                      x >= base, ToCome(x, c) \/ (Visited(c) /\ x - base \in unionn[c])
               PROVE  ToCome(x, c)' \/ (Visited(c) /\ x - base \in unionn'[c])
    BY <1>1, <1>3 DEF IInv, NothingLost, InWindow, Visited
  <2>1. CASE Visited(c) /\ x - base \in unionn[c]
    BY <2>1, <1>8
  <2>2. ASSUME NEW u \in TermsOf(c), Ahead(x, u), u # t
        PROVE  ToCome(x, c)'
    BY <2>2, <1>1, <1>3, <1>5, TermsOfIn DEF ToCome, Ahead
  <2>3. ASSUME Ahead(x, t), t \in TermsOf(c)
        PROVE  ToCome(x, c)' \/ (Visited(c) /\ x - base \in unionn'[c])
    <3>1. x \in Nat /\ c = i
      BY <2>3, <1>4, TermsOfIn, TypeSpec DEF IInv
    <3>2. CASE x = cur[t]
      BY <3>1, <3>2, <1>4, <1>6, <1>8 DEF Visited
    <3>3. CASE x > cur[t]
      BY <2>3, <3>1, <3>3, <1>1, <1>3, <1>5 DEF ToCome, Ahead
    <3> QED BY <2>3, <3>1, <3>2, <3>3, <1>6 DEF Ahead
  <2> QED BY <2>1, <2>2, <2>3 DEF ToCome
<1>15. InOrder'
  <2>1. \A x \in out : ~empty'[t] => x < cur'[t]
    <3> SUFFICES ASSUME NEW x \in out, ~empty'[t] PROVE x < cur'[t]
      OBVIOUS
    <3>1. x < cur[t] /\ x \in Nat
      BY <1>1, <1>4, <1>6 DEF IInv, InOrder
    <3>2. cur'[t] \in Nat /\ cur'[t] > cur[t]
      BY <1>4, <1>5, CnfAssumption DEF ValueId
    <3> QED BY <3>1, <3>2, <1>6
  <2> QED BY <2>1, <1>1, <1>3, <1>4, <1>5 DEF IInv, InOrder, InWindow
<1>16. OnlyMatches'
  BY <1>1, <1>3 DEF IInv, OnlyMatches
<1> QED BY <1>9, <1>10, <1>11, <1>12, <1>13, <1>14, <1>15, <1>16 DEF IInv

LEMMA TermDoneInv == IInv /\ TermDone => IInv'
<1> SUFFICES ASSUME IInv, TermDone PROVE IInv'
  OBVIOUS
<1> DEFINE t == <<i, j>>
<1>1. /\ pc = "union" /\ j <= nterms[i] /\ j' = j + 1
      /\ empty[t] \/ (cur[t] >= base /\ cur[t] >= MaxId)
      /\ UNCHANGED <<nterms, sem, cur, empty, base, unionn, isect, offset, i, pc, entry, errno, out>>
  BY DEF TermDone, InTerm, Here, query, terms, answer
<1>2. /\ Want' = Want /\ Clauses' = Clauses /\ Terms' = Terms /\ Bits' = Bits /\ MaxId' = MaxId
      /\ \A c : TermsOf(c)' = TermsOf(c)
  BY <1>1 DEF Want, Clauses, Terms, TermsOf, Bits, MaxId
<1>3. i \in Clauses /\ i \in Nat /\ j \in Nat /\ nterms[i] \in Nat
  BY <1>1 DEF IInv, TypeOK, LoopsInRange, Clauses
<1>4. TypeOK'
  BY <1>1, <1>2, <1>3 DEF IInv, TypeOK
<1>5. CursorsInTerms' /\ ClauseAlive' /\ BitsMatch' /\ NothingLost' /\ InOrder' /\ OnlyMatches'
  BY <1>1, <1>2 DEF IInv, CursorsInTerms, ClauseAlive, BitsMatch, NothingLost, InOrder, OnlyMatches,
         InWindow, Visited, Live, ToCome, Ahead
<1>6. LoopsInRange'
  BY <1>1, <1>2, <1>3 DEF IInv, LoopsInRange
<1>7. TermsPassed'
  <2> SUFFICES ASSUME NEW u \in Terms, Passed(u)', ~empty[u]
               PROVE  cur[u] >= base /\ cur[u] >= MaxId
    BY <1>1, <1>2 DEF TermsPassed
  <2>1. u[1] \in Nat /\ u[2] \in Nat /\ u = <<u[1], u[2]>>
    BY ClauseOfTerm DEF IInv, TypeOK, Clauses
  <2>2. Passed(u) \/ u = t
    BY <2>1, <1>1, <1>3 DEF Passed
  <2> QED BY <2>2, <1>1 DEF IInv, TermsPassed, InWindow
<1> QED BY <1>4, <1>5, <1>6, <1>7 DEF IInv

LEMMA ClauseDoneInv == IInv /\ ClauseDone => IInv'
<1> SUFFICES ASSUME IInv, ClauseDone PROVE IInv'
  OBVIOUS
<1>1. /\ pc = "union" /\ j > nterms[i] /\ i > 1 /\ i' = i - 1 /\ j' = 1
      /\ unionn' = [unionn EXCEPT ![i - 1] = {}]
      /\ UNCHANGED <<nterms, sem, cur, empty, base, isect, offset, pc, entry, errno, out>>
  BY DEF ClauseDone, query, terms, answer
<1>2. /\ Want' = Want /\ Clauses' = Clauses /\ Terms' = Terms /\ Bits' = Bits /\ MaxId' = MaxId
      /\ \A c : TermsOf(c)' = TermsOf(c)
  BY <1>1 DEF Want, Clauses, Terms, TermsOf, Bits, MaxId
<1>3. Clauses = 1 .. Len(nterms) /\ Len(nterms) \in Nat /\ \A c \in Clauses : nterms[c] \in Nat
  BY DEF IInv, TypeOK, Clauses
<1>4. i \in Clauses /\ i - 1 \in Clauses /\ i \in Nat /\ j \in Nat /\ j = nterms[i] + 1
  BY <1>1, <1>3 DEF IInv, TypeOK, LoopsInRange
<1>5. unionn'[i - 1] = {} /\ \A c \in Clauses : c >= i => unionn'[c] = unionn[c]
  BY <1>1, <1>3, <1>4 DEF IInv, TypeOK
<1>6. TypeOK'
  BY <1>1, <1>2, <1>4 DEF IInv, TypeOK
<1>7. CursorsInTerms' /\ InOrder' /\ OnlyMatches'
  BY <1>1, <1>2 DEF IInv, CursorsInTerms, InOrder, OnlyMatches, InWindow
<1>8. LoopsInRange' /\ ClauseAlive'
  BY <1>1, <1>2, <1>3, <1>4 DEF IInv, LoopsInRange, ClauseAlive, Live
<1>9. BitsMatch'
  <2> SUFFICES ASSUME NEW c \in Clauses, c >= i - 1, NEW b \in unionn'[c]
               PROVE  base + b < MaxId /\ \E t \in TermsOf(c) : base + b \in sem[t]
    BY <1>1, <1>2 DEF BitsMatch, InWindow, Visited
  <2>1. c # i - 1
    BY <1>5
  <2>2. c >= i /\ unionn'[c] = unionn[c]
    BY <2>1, <1>3, <1>4, <1>5
  <2> QED BY <2>2, <1>1 DEF IInv, BitsMatch, InWindow, Visited
<1>10. TermsPassed'
  <2> SUFFICES ASSUME NEW u \in Terms, Passed(u)', ~empty[u]
               PROVE  cur[u] >= base /\ cur[u] >= MaxId
    BY <1>1, <1>2 DEF TermsPassed
  <2>1. u[1] \in Clauses /\ u[2] \in 1 .. nterms[u[1]] /\ u[2] \in Nat /\ u[1] \in Nat
    BY ClauseOfTerm, <1>3
  <2>2. Passed(u)
    BY <2>1, <1>1, <1>3, <1>4 DEF Passed
  <2> QED BY <2>2, <1>1 DEF IInv, TermsPassed, InWindow
<1>11. NothingLost'
  <2> SUFFICES ASSUME ~errno, NEW x \in Want \ out, NEW c \in Clauses,
                      x >= base, ToCome(x, c) \/ (c >= i /\ x - base \in unionn[c])
               PROVE  ToCome(x, c) \/ (c >= i - 1 /\ x - base \in unionn'[c])
    BY <1>1, <1>2 DEF IInv, NothingLost, InWindow, Visited, ToCome, Ahead
  <2> QED BY <1>3, <1>4, <1>5
<1> QED BY <1>6, <1>7, <1>8, <1>9, <1>10, <1>11 DEF IInv

LEMMA UnionsDoneInv == IInv /\ UnionsDone => IInv'
<1> SUFFICES ASSUME IInv, UnionsDone PROVE IInv'
  OBVIOUS
<1>1. /\ pc = "union" /\ pc' = "isect" /\ j > nterms[i] /\ i = 1
      /\ UNCHANGED <<nterms, sem, cur, empty, base, unionn, isect, offset, i, j, entry, errno, out>>
  BY DEF UnionsDone, query, terms, loop, answer
<1>2. /\ Want' = Want /\ Clauses' = Clauses /\ Terms' = Terms /\ Bits' = Bits /\ MaxId' = MaxId
      /\ \A c : TermsOf(c)' = TermsOf(c)
  BY <1>1 DEF Want, Clauses, Terms, TermsOf, Bits, MaxId
<1>3. Clauses = 1 .. Len(nterms) /\ Len(nterms) \in Nat /\ j \in Nat /\ i \in Clauses
      /\ \A c \in Clauses : nterms[c] \in Nat
  BY <1>1 DEF IInv, TypeOK, Clauses, LoopsInRange
<1>4. TypeOK'
  BY <1>1, <1>2 DEF IInv, TypeOK
<1>5. CursorsInTerms' /\ InOrder' /\ OnlyMatches' /\ LoopsInRange' /\ ClauseAlive'
  BY <1>1, <1>2 DEF IInv, CursorsInTerms, InOrder, OnlyMatches, InWindow, LoopsInRange, ClauseAlive
<1>6. \A c \in Clauses : Visited(c)
  BY <1>1, <1>3 DEF Visited
<1>7. \A u \in Terms : Passed(u)
  <2> SUFFICES ASSUME NEW u \in Terms PROVE Passed(u)
    OBVIOUS
  <2>1. u[1] \in Clauses /\ u[2] \in 1 .. nterms[u[1]] /\ u[2] \in Nat /\ u[1] \in Nat
    BY ClauseOfTerm, <1>3
  <2> QED BY <2>1, <1>1, <1>3 DEF Passed
<1>8. BitsMatch' /\ TermsPassed'
  BY <1>1, <1>2, <1>6, <1>7 DEF IInv, BitsMatch, TermsPassed, InWindow
<1>9. NothingLost'
  BY <1>1, <1>2, <1>6 DEF IInv, NothingLost, InWindow, Visited, ToCome, Ahead
<1> QED BY <1>4, <1>5, <1>8, <1>9 DEF IInv

\* The intersection holds exactly the matches of the window.
LEMMA CommonSpec ==
  ASSUME IInv, pc = "isect"
  PROVE  /\ Common \in SUBSET Offset
         /\ \A b \in Common : /\ base + b \in Want \ out
                              /\ \A t \in Terms : ~empty[t] => base + b < cur[t]
                              /\ \A x \in out : x < base + b
         /\ ~errno => \A x \in Want \ out : \/ \E b \in Common : x = base + b
                                            \/ \A c \in Clauses : ToCome(x, c)
<1>1. Common \in SUBSET Offset /\ Clauses # {} /\ InWindow /\ base \in Nat /\ MaxId \in Nat
      /\ out \subseteq Nat /\ Offset \subseteq Nat /\ Want \subseteq Nat
  BY WindowEnd, TypeSpec DEF Common, IInv, LoopsInRange, InWindow, TypeOK, ValueId
<1>2. \A c \in Clauses : Visited(c)
  BY DEF Visited
<1>3. \A t \in Terms : ~empty[t] => cur[t] >= base /\ cur[t] >= MaxId /\ cur[t] \in Nat
  BY <1>1, TypeSpec DEF IInv, TermsPassed, Passed, TypeOK
<1>4. ASSUME NEW b \in Common
      PROVE  /\ base + b \in Want \ out
             /\ \A t \in Terms : ~empty[t] => base + b < cur[t]
             /\ \A x \in out : x < base + b
  <2>1. \A c \in Clauses : base + b < MaxId /\ \E t \in TermsOf(c) : base + b \in sem[t]
    BY <1>1, <1>2 DEF IInv, BitsMatch, Common
  <2>2. base + b \in Ids
    BY <2>1, <1>1, TermsOfIn DEF IInv, TypeOK
  <2>3. base + b \in Want
    BY <2>1, <2>2, <1>1 DEF Want
  <2>4. b \in Nat /\ base + b < MaxId
    BY <1>1, <2>1
  <2>5. \A x \in out : x < base + b
    <3>1. \A x \in out : x < base /\ x \in Nat
      BY <1>1 DEF IInv, InOrder
    <3> QED BY <3>1, <2>4, <1>1
  <2>6. \A t \in Terms : ~empty[t] => base + b < cur[t]
    BY <2>4, <1>1, <1>3
  <2> QED BY <2>3, <2>4, <2>5, <2>6, <1>1
<1>5. ASSUME ~errno, NEW x \in Want \ out
      PROVE  (\E b \in Common : x = base + b) \/ \A c \in Clauses : ToCome(x, c)
  <2>1. x >= base /\ \A c \in Clauses : ToCome(x, c) \/ x - base \in unionn[c]
    BY <1>1, <1>5 DEF IInv, NothingLost
  <2>2. x \in Nat
    BY <1>1
  <2>3. CASE x < MaxId
    <3>1. \A c \in Clauses : ~ToCome(x, c)
      BY <2>2, <2>3, <1>1, <1>3, TermsOfIn DEF ToCome, Ahead
    <3>2. \A c \in Clauses : x - base \in unionn[c] /\ x - base \in Offset
      BY <2>1, <3>1 DEF IInv, TypeOK
    <3>3. x - base \in Common
      BY <3>2, <1>1 DEF Common
    <3> QED BY <3>3, <2>1, <2>2, <1>1
  <2>4. CASE x >= MaxId
    <3>1. ASSUME NEW c \in Clauses, x - base \in unionn[c] PROVE FALSE
      <4>1. base + (x - base) < MaxId
        BY <3>1, <1>1, <1>2 DEF IInv, BitsMatch
      <4> QED BY <4>1, <2>2, <2>4, <1>1
    <3> QED BY <2>1, <3>1
  <2> QED BY <2>2, <2>3, <2>4, <1>1
<1> QED BY <1>1, <1>4, <1>5

LEMMA IntersectEmptyInv == IInv /\ IntersectEmpty => IInv'
<1> SUFFICES ASSUME IInv, IntersectEmpty PROVE IInv'
  OBVIOUS
<1>1. /\ pc = "isect" /\ pc' = "window" /\ Common = {} /\ isect' = {} /\ offset' = 0
      /\ UNCHANGED <<nterms, sem, cur, empty, base, unionn, i, j, entry, errno, out>>
  BY DEF IntersectEmpty, query, terms, loop, answer
<1>2. /\ Want' = Want /\ Clauses' = Clauses /\ Terms' = Terms /\ Bits' = {}
      /\ \A c : TermsOf(c)' = TermsOf(c)
  BY <1>1 DEF Want, Clauses, Terms, TermsOf, Bits
<1>3. TypeOK'
  BY <1>1, <1>2, CnfAssumption DEF IInv, TypeOK
<1>4. CursorsInTerms' /\ OnlyMatches' /\ LoopsInRange' /\ ClauseAlive' /\ BitsMatch' /\ TermsPassed'
  BY <1>1, <1>2 DEF IInv, CursorsInTerms, OnlyMatches, InWindow, LoopsInRange, ClauseAlive,
                    BitsMatch, TermsPassed
<1>5. NothingLost' /\ InOrder'
  BY <1>1, <1>2, CommonSpec DEF IInv, NothingLost, InOrder, InWindow, ToCome, Ahead
<1> QED BY <1>3, <1>4, <1>5 DEF IInv

LEMMA IntersectHitInv == IInv /\ IntersectHit => IInv'
<1> SUFFICES ASSUME IInv, IntersectHit PROVE IInv'
  OBVIOUS
<1> DEFINE b == Min(Common)
<1>0. b \in Common /\ (\A x \in Common : b <= x) /\ Common \subseteq Offset
      /\ Offset \subseteq Nat /\ Want \subseteq Nat /\ base \in Nat /\ out \subseteq Nat
  BY MinIsLeast, CommonSpec, TypeSpec DEF IInv, IntersectHit, TypeOK
<1>1. /\ pc = "isect" /\ pc' = "idle" /\ ~errno /\ errno' = errno /\ isect' = Common
      /\ entry' = base + b /\ out' = out \cup {base + b} /\ offset' = b + 1
      /\ UNCHANGED <<nterms, sem, cur, empty, base, unionn, i, j>>
  BY DEF IntersectHit, Deliver, query, terms, loop
<1> HIDE DEF b
<1>2. /\ Want' = Want /\ Clauses' = Clauses /\ Terms' = Terms
      /\ \A c : TermsOf(c)' = TermsOf(c)
  BY <1>1 DEF Want, Clauses, Terms, TermsOf
<1>3. Bits' = {x \in Common : x > b}
  <2>1. \A x \in Common : x >= b + 1 <=> x > b
    BY <1>0
  <2> QED BY <2>1, <1>1 DEF Bits
<1>4. base + b \in Want \ out
  BY <1>0, <1>1, CommonSpec
<1>5. TypeOK'
  <2>1. base + b \in ValueId
    BY <1>4, CnfAssumption DEF ValueId, Want, Ids
  <2>2. b + 1 \in 0 .. Window
    BY <1>0, CnfAssumption DEF Offset
  <2> QED BY <1>0, <1>1, <1>2, <2>1, <2>2 DEF IInv, TypeOK
<1>6. CursorsInTerms' /\ ClauseAlive' /\ BitsMatch' /\ TermsPassed'
  BY <1>1, <1>2 DEF IInv, CursorsInTerms, ClauseAlive, BitsMatch, TermsPassed, InWindow
<1>7. LoopsInRange'
  BY <1>1, <1>2 DEF IInv, LoopsInRange
<1>8. NothingLost'
  <2> SUFFICES ASSUME NEW x \in Want \ out, x # base + b
               PROVE  (\E d \in Bits' : x = base + d) \/ \A c \in Clauses : ToCome(x, c)
    BY <1>1, <1>2 DEF NothingLost, InWindow, ToCome, Ahead
  <2>1. (\E d \in Common : x = base + d) \/ \A c \in Clauses : ToCome(x, c)
    BY <1>1, CommonSpec
  <2>2. ASSUME NEW d \in Common, x = base + d PROVE d \in Bits'
    <3>1. d # b /\ d >= b /\ d \in Nat /\ b \in Nat
      BY <1>0, <2>2
    <3> QED BY <3>1, <1>3
  <2> QED BY <2>1, <2>2
<1>9. InOrder'
  <2>1. \A d \in Common : /\ \A t \in Terms : ~empty[t] => base + d < cur[t]
                          /\ \A x \in out : x < base + d
    BY <1>1, CommonSpec
  <2>2. \A d \in Bits' : d \in Common /\ base + b < base + d
    BY <1>0, <1>3
  <2>3. \A x \in out, t \in Terms : ~empty[t] => x < cur[t]
    BY DEF IInv, InOrder
  <2> QED BY <1>0, <1>1, <1>2, <2>1, <2>2, <2>3 DEF InOrder, InWindow
<1>10. OnlyMatches'
  <2>1. \A d \in Bits' : base + d \in Want \ out /\ base + d # base + b
    BY <1>0, <1>1, <1>3, CommonSpec
  <2> QED BY <1>1, <1>2, <1>4, <2>1 DEF IInv, OnlyMatches
<1> QED BY <1>5, <1>6, <1>7, <1>8, <1>9, <1>10 DEF IInv

LEMMA IntersectFailsInv == IInv /\ IntersectFails => IInv'
<1> SUFFICES ASSUME IInv, IntersectFails PROVE IInv'
  OBVIOUS
<1> DEFINE b == Min(Common)
<1>0. b \in Common /\ Common \subseteq Offset /\ Offset \subseteq Nat
  BY MinIsLeast, CommonSpec, TypeSpec DEF IInv, IntersectFails
<1>1. /\ pc = "isect" /\ pc' \in {"idle", "crashed"} /\ errno' = TRUE /\ isect' = Common
      /\ entry' \in {0, entry} /\ offset' = b
      /\ UNCHANGED <<nterms, sem, cur, empty, base, unionn, i, j, out>>
  BY DEF IntersectFails, CannotDecode, query, terms, loop
<1> HIDE DEF b
<1>2. Want' = Want /\ Clauses' = Clauses /\ Terms' = Terms
  BY <1>1 DEF Want, Clauses, Terms, TermsOf
<1>3. TypeOK'
  BY <1>0, <1>1, <1>2, CnfAssumption DEF IInv, TypeOK, Offset, ValueId
<1>4. CursorsInTerms' /\ LoopsInRange' /\ ClauseAlive' /\ BitsMatch' /\ TermsPassed'
  BY <1>1, <1>2 DEF IInv, CursorsInTerms, LoopsInRange, ClauseAlive, BitsMatch, TermsPassed,
         InWindow
<1>5. NothingLost' /\ InOrder' /\ OnlyMatches'
  BY <1>1, <1>2 DEF IInv, NothingLost, InOrder, OnlyMatches, InWindow
<1> QED BY <1>3, <1>4, <1>5 DEF IInv

LEMMA InitInv == Init => IInv
<1> SUFFICES ASSUME Init PROVE IInv
  OBVIOUS
<1>1. nterms \in Seq(Nat)
  <2>1. PICK q \in Queries :
          nterms = IF q.view /\ q.terms # <<>> THEN Append(q.terms, 1) ELSE q.terms
    BY DEF Init
  <2>2. q.terms \in Seq(Nat)
    BY CnfAssumption
  <2> QED BY <2>1, <2>2
<1>2. /\ sem \in [Terms -> SUBSET Ids] /\ pc = "idle" /\ isect = {} /\ out = {} /\ errno = FALSE
      /\ cur = [t \in Terms |-> NextId(sem[t], 0)]
      /\ empty = [t \in Terms |-> NextId(sem[t], 0) = 0]
  BY DEF Init
<1>3. ASSUME NEW t \in Terms
      PROVE  /\ cur[t] \in ValueId /\ empty[t] \in BOOLEAN
             /\ ~empty[t] => cur[t] \in sem[t]
             /\ \A y \in sem[t] : ~empty[t] /\ y >= cur[t]
  <2>1. sem[t] \in SUBSET Nat /\ sem[t] \subseteq Ids /\ sem[t] \subseteq ValueId /\ 0 \in ValueId
    BY <1>2, CnfAssumption DEF Ids, ValueId
  <2> DEFINE id == NextId(sem[t], 0)
  <2>2. /\ id = 0 => \A y \in sem[t] : y <= 0
        /\ id # 0 => id \in sem[t] /\ \A y \in sem[t] : y > 0 => id <= y
    BY <2>1, NextIdSpec
  <2>3. cur[t] = id /\ empty[t] = (id = 0)
    BY <1>2
  <2> HIDE DEF id
  <2>4. \A y \in sem[t] : y \in Nat /\ y > 0
    BY <2>1 DEF Ids
  <2>5. \A y \in sem[t] : id # 0 /\ id <= y /\ id \in Nat
    BY <2>1, <2>2, <2>4
  <2>6. id \in ValueId
    BY <2>1, <2>2
  <2>7. \A y \in sem[t] : ~empty[t]
    BY <2>3, <2>5
  <2>8. \A y \in sem[t] : y >= cur[t]
    BY <2>3, <2>4, <2>5
  <2>9. ~empty[t] => cur[t] \in sem[t]
    BY <2>2, <2>3
  <2> QED BY <2>3, <2>6, <2>7, <2>8, <2>9
<1>4. TypeOK
  <2>1. cur \in [Terms -> ValueId] /\ empty \in [Terms -> BOOLEAN]
    BY <1>2, <1>3
  <2>2. 0 \in ValueId /\ Window \in 0 .. Window
    BY CnfAssumption DEF ValueId
  <2>3. base \in ValueId /\ entry \in ValueId /\ offset \in 0 .. Window /\ i \in Nat /\ j \in Nat
        /\ unionn \in [Clauses -> SUBSET Offset]
    BY <2>2 DEF Init
  <2> QED BY <1>1, <1>2, <2>1, <2>3 DEF TypeOK
<1>5. CursorsInTerms /\ LoopsInRange /\ ClauseAlive /\ BitsMatch /\ TermsPassed
  BY <1>2, <1>3 DEF CursorsInTerms, LoopsInRange, ClauseAlive, BitsMatch, TermsPassed, InWindow
<1>6. NothingLost
  <2>1. \A x \in Want, c \in Clauses : ToCome(x, c)
    BY <1>3, TermsOfIn DEF Want, ToCome, Ahead
  <2> QED BY <1>2, <2>1 DEF NothingLost, InWindow
<1>7. InOrder /\ OnlyMatches
  BY <1>2 DEF InOrder, OnlyMatches, InWindow, Bits
<1> QED BY <1>4, <1>5, <1>6, <1>7 DEF IInv

LEMMA StutterInv == IInv /\ UNCHANGED vars => IInv'
<1> SUFFICES ASSUME IInv, UNCHANGED vars PROVE IInv'
  OBVIOUS
<1> USE DEF vars
<1>1. TypeOK'
  BY DEF IInv, TypeOK, Terms, TermsOf, Clauses
<1>2. CursorsInTerms' /\ LoopsInRange' /\ ClauseAlive' /\ BitsMatch' /\ TermsPassed'
  BY DEF IInv, CursorsInTerms, LoopsInRange, ClauseAlive, BitsMatch, TermsPassed, Terms, TermsOf,
         Clauses, Live, InWindow, Visited, Passed, MaxId
<1>3. NothingLost' /\ InOrder' /\ OnlyMatches'
  BY DEF IInv, NothingLost, InOrder, OnlyMatches, Want, Bits, Terms, TermsOf, Clauses, InWindow,
         ToCome, Ahead, Visited
<1> QED BY <1>1, <1>2, <1>3 DEF IInv

LEMMA NextInv == IInv /\ [Next]_vars => IInv'
BY EmptyNextInv, NextInWindowInv, WindowFailsInv, WindowDoneInv, NoMoreInv, NewWindowInv,
   MoveTermInv, TermDoneInv, ClauseDoneInv, UnionsDoneInv, IntersectEmptyInv, IntersectHitInv,
   IntersectFailsInv, StutterInv DEF Next
-----------------------------------------------------------------------------
(***************************************************************************)
(* The inductive invariant holds in every state of a query cursor, for     *)
(* every number of ids, window size, query and kind of database.           *)
(***************************************************************************)
THEOREM CnfInvariant == Spec => []IInv
<1>1. Init => IInv
  BY InitInv
<1>2. IInv /\ [Next]_vars => IInv'
  BY NextInv
<1> QED BY <1>1, <1>2, PTL DEF Spec

(***************************************************************************)
(* A query cursor delivers nothing but matches, its bitmaps are written    *)
(* inside their bounds, and clause_unions never finds a clause without     *)
(* ids.  This holds even for a window that reaches beyond the last id.     *)
(***************************************************************************)
THEOREM CnfSafety == Spec => [](TypeOK /\ ClauseAlive /\ OnlyMatches)
<1>1. IInv => TypeOK /\ ClauseAlive /\ OnlyMatches
  BY DEF IInv
<1> QED BY <1>1, CnfInvariant, PTL

(***************************************************************************)
(* When the cursor answers NULL and no error is set, every match has been  *)
(* delivered.                                                              *)
(***************************************************************************)
THEOREM CnfComplete == Spec => NullMeansAll
<1>1. IInv /\ NoMore /\ ~errno => out = Want
  <2> SUFFICES ASSUME IInv, NoMore, ~errno PROVE out = Want
    OBVIOUS
  <2>1. PICK c \in Clauses : Live(c) = {}
    BY DEF NoMore, Exhausted
  <2>2. \A x : ~ToCome(x, c)
    BY <2>1 DEF ToCome, Ahead, Live
  <2>3. \A x \in Want \ out : ToCome(x, c)
    BY DEF IInv, NothingLost, NoMore
  <2> QED BY <2>2, <2>3 DEF IInv, OnlyMatches
<1>2. IInv /\ [Next]_vars => [NoMore /\ ~errno => out = Want]_vars
  BY <1>1
<1> QED BY <1>2, CnfInvariant, PTL DEF Spec, NullMeansAll

(***************************************************************************)
(* The query cursor implements the ascending iterator over the matches:    *)
(* each call delivers the least match not delivered yet.                   *)
(***************************************************************************)
THEOREM CnfRefinesIter == Spec => IterSpec
<1>1. Init => Iter!Init
  BY DEF Init, Iter!Init, Want
<1>0. \A S : Iter!Min(S) = Min(S)
  BY DEF Iter!Min, Min
<1>2. ASSUME IInv, [Next]_vars PROVE [Iter!Next]_Iter!vars
  <2>1. out \subseteq Want /\ Want \in SUBSET Nat /\ base \in Nat /\ Offset \subseteq Nat
    BY <1>2, TypeSpec DEF IInv, OnlyMatches
  <2>2. Want' = Want
    BY <1>2 DEF Next, vars, Want, Clauses, TermsOf, EmptyNext, NextInWindow, WindowFails,
       WindowDone, NoMore, NewWindow, SkipId, CollectId, TermDone, ClauseDone, UnionsDone,
       IntersectEmpty, IntersectHit, IntersectFails, query
  <2>3. CASE EmptyNext
    <3>1. out = Want
      BY <2>1, <2>3 DEF EmptyNext, Want
    <3> QED BY <2>2, <2>3, <3>1 DEF EmptyNext, Iter!Next, Iter!End
  <2>4. CASE NextInWindow
    <3> DEFINE b == Min(Bits)
    <3>1. b \in Bits /\ \A x \in Bits : b <= x /\ b \in Nat /\ x \in Nat
      BY <1>2, <2>4, MinIsLeast, TypeSpec DEF IInv, NextInWindow
    <3>2. pc = "idle" /\ ~errno /\ errno' = errno /\ entry' = base + b /\ out' = out \cup {entry'}
      BY <2>4 DEF NextInWindow, Deliver
    <3> HIDE DEF b
    <3>3. base + b \in Want \ out
      BY <1>2, <3>1, <3>2 DEF IInv, OnlyMatches
    <3>4. ASSUME NEW y \in Want \ out PROVE base + b <= y
      <4>1. Clauses # {} /\ y \in Nat
        BY <3>4, <2>1 DEF Want
      <4>2. CASE \E d \in Bits : y = base + d
        BY <4>2, <3>1, <2>1
      <4>3. CASE \A c \in Clauses : ToCome(y, c)
        <5>0. PICK c \in Clauses : ToCome(y, c)
          BY <4>1, <4>3
        <5>1. PICK t \in TermsOf(c) : Ahead(y, t)
          BY <5>0 DEF ToCome
        <5>2. ~empty[t] /\ y >= cur[t] /\ cur[t] \in Nat /\ t \in Terms
          BY <5>1, <1>2, TermsOfIn, TypeSpec DEF Ahead, IInv, TypeOK
        <5>3. base + b < cur[t]
          BY <5>2, <1>2, <3>1, <3>2 DEF IInv, InOrder
        <5> QED BY <5>2, <5>3, <4>1, <3>1, <2>1
      <4> QED BY <3>2, <3>4, <4>1, <4>2, <4>3, <1>2 DEF IInv, NothingLost
    <3>5. base + b = Min(Want \ out)
      BY <2>1, <3>3, <3>4, MinIsUnique
    <3> QED BY <1>0, <2>2, <3>2, <3>3, <3>5 DEF Iter!Next, Iter!Deliver
  <2>5. CASE WindowFails
    <3>1. errno' = TRUE /\ entry' = entry /\ out' = out /\ Compressed /\ pc = "idle" /\ Bits # {}
      BY <2>5 DEF WindowFails, CannotDecode
    <3>2. CASE errno
      <4>1. errno' = errno
        BY <3>1, <3>2, <1>2 DEF IInv, TypeOK
      <4> QED BY <2>2, <3>1, <4>1 DEF Iter!vars
    <3>3. CASE ~errno
      <4>1. out # Want
        BY <1>2, <3>1, <3>3 DEF IInv, OnlyMatches
      <4> QED BY <2>2, <3>1, <3>3, <4>1 DEF Iter!Next, Iter!Break
    <3> QED BY <3>2, <3>3
  <2>6. CASE WindowDone
    BY <2>2, <2>6 DEF WindowDone, answer, Iter!vars
  <2>7. CASE NoMore
    <3>1. entry' = 0 /\ UNCHANGED <<out, errno>>
      BY <2>7 DEF NoMore
    <3>2. out = Want \/ errno
      <4>1. PICK c \in Clauses : Live(c) = {}
        BY <2>7 DEF NoMore, Exhausted
      <4>2. \A x : ~ToCome(x, c)
        BY <4>1 DEF ToCome, Ahead, Live
      <4>3. ~errno => \A x \in Want \ out : ToCome(x, c)
        BY <1>2, <2>7 DEF IInv, NothingLost, NoMore
      <4> QED BY <4>2, <4>3, <2>1
    <3> QED BY <2>2, <3>1, <3>2 DEF Iter!Next, Iter!End
  <2>8. CASE NewWindow \/ SkipId \/ CollectId \/ TermDone \/ ClauseDone \/ UnionsDone \/ IntersectEmpty
    BY <2>2, <2>8 DEF NewWindow, SkipId, CollectId, TermDone, ClauseDone, UnionsDone,
       IntersectEmpty, answer, Iter!vars
  <2>9. CASE IntersectHit
    <3> DEFINE b == Min(Common)
    <3>1. pc = "isect" /\ ~errno /\ errno' = errno /\ entry' = base + b /\ out' = out \cup {entry'}
      BY <2>9 DEF IntersectHit, Deliver
    <3>2. Common # {} /\ Common \subseteq Nat
      BY <1>2, <2>1, <3>1, <2>9, CommonSpec DEF IntersectHit
    <3>3. b \in Common /\ \A x \in Common : b <= x /\ b \in Nat /\ x \in Nat
      BY <3>2, MinIsLeast
    <3> HIDE DEF b
    <3>4. base + b \in Want \ out
      BY <1>2, <3>1, <3>3, CommonSpec
    <3>5. ASSUME NEW y \in Want \ out PROVE base + b <= y
      <4>1. Clauses # {} /\ y \in Nat
        BY <3>5, <2>1 DEF Want
      <4>2. CASE \E d \in Common : y = base + d
        BY <4>2, <3>3, <2>1
      <4>3. CASE \A c \in Clauses : ToCome(y, c)
        <5>0. PICK c \in Clauses : ToCome(y, c)
          BY <4>1, <4>3
        <5>1. PICK t \in TermsOf(c) : Ahead(y, t)
          BY <5>0 DEF ToCome
        <5>2. ~empty[t] /\ y >= cur[t] /\ cur[t] \in Nat /\ t \in Terms
          BY <5>1, <1>2, TermsOfIn, TypeSpec DEF Ahead, IInv, TypeOK
        <5>3. base + b < cur[t]
          BY <5>2, <1>2, <3>1, <3>3, CommonSpec
        <5> QED BY <5>2, <5>3, <4>1, <3>3, <2>1
      <4> QED BY <1>2, <3>1, <4>2, <4>3, CommonSpec
    <3>6. base + b = Min(Want \ out)
      BY <2>1, <3>4, <3>5, MinIsUnique
    <3> QED BY <1>0, <2>2, <3>1, <3>4, <3>6 DEF Iter!Next, Iter!Deliver
  <2>10. CASE IntersectFails
    <3>1. /\ errno' = TRUE /\ out' = out /\ Compressed /\ pc = "isect" /\ Common # {}
          /\ entry' = 0 \/ (errno /\ entry' = entry)
      BY <2>10 DEF IntersectFails, CannotDecode
    <3>2. PICK b \in Common : TRUE
      BY <3>1
    <3>3. out # Want
      BY <1>2, <3>1, <3>2, CommonSpec
    <3>4. CASE errno
      <4>1. errno' = errno
        BY <3>1, <3>4, <1>2 DEF IInv, TypeOK
      <4> QED BY <2>2, <3>1, <3>4, <4>1 DEF Iter!Next, Iter!End, Iter!vars
    <3>5. CASE ~errno
      BY <2>2, <3>1, <3>3, <3>5 DEF Iter!Next, Iter!Break
    <3> QED BY <3>4, <3>5
  <2>11. CASE UNCHANGED vars
    BY <2>2, <2>11 DEF vars, Iter!vars
  <2> QED BY <1>2, <2>3, <2>4, <2>5, <2>6, <2>7, <2>8, <2>9, <2>10, <2>11 DEF Next
<1> QED BY <1>1, <1>2, CnfInvariant, PTL DEF Spec, IterSpec, Iter!Spec
-----------------------------------------------------------------------------
(***************************************************************************)
(* Windows, as long as none of them reaches beyond the last 32-bit id.     *)
(***************************************************************************)
NoWrap == NumUniq + Window < IdLimit

\* Between windows the terms stand behind the last window.
BehindWindow ==
  /\ base <= NumUniq
  /\ pc \in {"idle", "window"} /\ Exhausted = {} /\ base # 0 =>
       \A t \in Terms : ~empty[t] => cur[t] >= base + Window

\* The base of a window is an id that a term holds.
LEMMA BaseIsId ==
  ASSUME IInv, NEW C \in SUBSET Clauses, \A c \in C : Live(c) # {}
  PROVE  \/ GreatestOf(C) = 0
         \/ \E t \in Terms : ~empty[t] /\ GreatestOf(C) = cur[t] /\ cur[t] \in Ids
<1>1. GreatestOf(C) = 0 \/ \E c \in C : GreatestOf(C) = LeastId(c)
  BY GreatestOfSpec DEF IInv
<1>2. ASSUME NEW c \in C
      PROVE  \E t \in Terms : ~empty[t] /\ LeastId(c) = cur[t] /\ cur[t] \in Ids
  <2>1. PICK t \in TermsOf(c) : ~empty[t] /\ LeastId(c) = cur[t]
    BY LeastIdSpec DEF IInv
  <2>2. t \in Terms /\ cur[t] \in Ids
    BY <2>1, TermsOfIn DEF IInv, TypeOK, CursorsInTerms
  <2> QED BY <2>1, <2>2
<1> QED BY <1>1, <1>2

LEMMA BehindWindowStep ==
  ASSUME NoWrap, IInv, BehindWindow, [Next]_vars
  PROVE  BehindWindow' /\ (NewWindow /\ base # 0 => base' >= base + Window)
<1>1. CASE EmptyNext \/ NextInWindow \/ WindowFails \/ WindowDone
  <2>1. UNCHANGED <<nterms, cur, empty, base>> /\ pc = "idle"
    BY <1>1 DEF EmptyNext, NextInWindow, WindowFails, WindowDone, query, terms
  <2> QED BY <1>1, <2>1 DEF BehindWindow, Exhausted, Live, Clauses, Terms, TermsOf, NewWindow
<1>2. CASE NoMore
  <2>1. Exhausted' = Exhausted /\ Exhausted # {} /\ pc' = "idle"
    BY <1>2 DEF NoMore, Exhausted, Live, Clauses, TermsOf, query, terms
  <2>2. \A c \in Clauses : c > Max(Exhausted) => Live(c) # {}
    <3>1. nterms \in Seq(Nat)
      BY DEF IInv, TypeOK
    <3>2. Clauses \subseteq Nat /\ Exhausted \in SUBSET Nat /\ Len(nterms) \in Nat
          /\ \A c \in Exhausted : c <= Len(nterms)
      BY <3>1 DEF Exhausted, Clauses
    <3>3. Max(Exhausted) \in Nat /\ \A c \in Exhausted : c <= Max(Exhausted)
      BY <2>1, <3>2, MaxIsGreatest
    <3>4. \A c \in Clauses : Live(c) = {} => c \in Exhausted
      BY DEF Exhausted
    <3> QED BY <3>2, <3>3, <3>4
  <2>3. base' = 0 \/ base' \in Ids
    BY <1>2, <2>2, BaseIsId DEF NoMore
  <2>4. base' <= NumUniq
    BY <2>3, CnfAssumption DEF Ids
  <2> QED BY <1>2, <2>1, <2>4 DEF BehindWindow, NoMore, NewWindow
<1>3. CASE NewWindow
  <2>1. base' = GreatestOf(Clauses) /\ Exhausted = {} /\ pc = "window" /\ pc' = "union"
    BY <1>3 DEF NewWindow
  <2>2. \A c \in Clauses : Live(c) # {}
    BY <2>1 DEF Exhausted
  <2>3. Clauses # {}
    BY <2>1 DEF IInv, LoopsInRange
  <2>4. PICK c \in Clauses : TRUE
    BY <2>3
  <2>5. LeastId(c) \in ValueId /\ LeastId(c) <= base' /\ \E t \in TermsOf(c) : ~empty[t] /\ LeastId(c) = cur[t]
    BY <2>1, <2>2, LeastIdSpec, GreatestOfSpec DEF IInv
  <2>6. \E t \in TermsOf(c) : ~empty[t] /\ LeastId(c) = cur[t] /\ cur[t] \in Ids
    BY <2>5, TermsOfIn DEF IInv, TypeOK, CursorsInTerms
  <2>7. base' # 0
    BY <2>1, <2>2, <2>5, <2>6, GreatestOfSpec, CnfAssumption DEF Ids, ValueId, IInv
  <2>8. PICK t \in Terms : ~empty[t] /\ base' = cur[t] /\ cur[t] \in Ids
    BY <2>1, <2>2, <2>7, BaseIsId
  <2>9. base' <= NumUniq
    BY <2>8, CnfAssumption DEF Ids
  <2>10. base # 0 => base' >= base + Window
    BY <2>1, <2>8 DEF BehindWindow
  <2> QED BY <2>1, <2>9, <2>10 DEF BehindWindow
<1>4. CASE SkipId \/ CollectId \/ TermDone \/ ClauseDone \/ UnionsDone
  <2>1. base' = base /\ pc' \in {"union", "isect"} /\ pc # "window"
    BY <1>4 DEF SkipId, CollectId, TermDone, ClauseDone, UnionsDone, InTerm
  <2> QED BY <2>1 DEF BehindWindow, NewWindow
<1>5. CASE IntersectEmpty \/ IntersectHit \/ IntersectFails
  <2>1. UNCHANGED <<nterms, cur, empty, base>> /\ pc = "isect"
    BY <1>5 DEF IntersectEmpty, IntersectHit, IntersectFails, query, terms
  <2>2. MaxId = base + Window
    <3>1. base \in Nat /\ Window \in Nat /\ IdLimit \in Nat /\ NumUniq \in Nat /\ base + Window < IdLimit
      BY TypeSpec, CnfAssumption DEF IInv, BehindWindow, NoWrap
    <3>2. base + Window \in Nat /\ IdLimit \in Nat \ {0}
      BY <3>1
    <3>3. (base + Window) % IdLimit = base + Window
      BY <3>1, <3>2, ModBound
    <3> QED BY <3>3 DEF MaxId
  <2>3. \A t \in Terms : ~empty[t] => cur[t] >= base + Window
    BY <2>1, <2>2 DEF IInv, TermsPassed, InWindow, Passed
  <2> QED BY <2>1, <2>3 DEF BehindWindow, Terms, TermsOf, Clauses, NewWindow
<1>6. CASE UNCHANGED vars
  BY <1>6 DEF vars, BehindWindow, Exhausted, Live, Clauses, Terms, TermsOf, NewWindow
<1> QED BY <1>1, <1>2, <1>3, <1>4, <1>5, <1>6 DEF Next

(***************************************************************************)
(* Windows never overlap, provided a window cannot reach beyond the last   *)
(* 32-bit id: without that a cursor opens the same window for ever.        *)
(***************************************************************************)
THEOREM CnfWindowsAdvance == NoWrap => (Spec => WindowsAdvance)
<1> SUFFICES ASSUME NoWrap PROVE Spec => WindowsAdvance
  OBVIOUS
<1>1. Init => BehindWindow
  BY CnfAssumption DEF Init, BehindWindow
<1>2. IInv /\ BehindWindow /\ [Next]_vars => BehindWindow'
  BY BehindWindowStep
<1>3. IInv /\ BehindWindow /\ [Next]_vars => [NewWindow /\ base # 0 => base' >= base + Window]_vars
  BY BehindWindowStep
<1> QED BY <1>1, <1>2, <1>3, CnfInvariant, PTL DEF Spec, WindowsAdvance
=============================================================================
