--------------------------- MODULE ErlQueueProofs ---------------------------
(***************************************************************************)
(* Proofs that the linked list of the Erlang binding stays sound, and that *)
(* it implements a FIFO queue, for any number of threads.                  *)
(***************************************************************************)
EXTENDS ErlQueue, SequenceTheorems, WellFoundedInduction, TLAPS

\* A set of numbers that is not empty has a least element.
LEMMA NatLeast ==
  ASSUME NEW S \in SUBSET Nat, S # {}
  PROVE  \E x \in S : \A y \in S : x <= y
<1> DEFINE R == {ss \in Nat \X Nat : ss[1] < ss[2]}
<1>1. IsWellFoundedOn(R, Nat)
  BY NatLessThanWellFounded, Zenon DEF OpToRel
<1> HIDE DEF R
<1>2. PICK x \in S : \A y \in S : ~(<<y, x>> \in R)
  BY <1>1, WFMin
<1>3. \A y \in S : ~(y < x)
  BY <1>2 DEF R
<1> QED BY <1>3
-----------------------------------------------------------------------------

\* A list is determined by its first item, its length and the links.
LEMMA ItemsUnique ==
  ASSUME NEW n \in Nat, NEW h, NEW nx,
         NEW q \in [1 .. n -> Entries], NEW r \in [1 .. n -> Entries],
         Follows(q, n, h, nx), Follows(r, n, h, nx)
  PROVE  q = r
<1> DEFINE D == {k \in 1 .. n : q[k] # r[k]}
<1>1. ASSUME D # {} PROVE FALSE
  <2>1. PICK k \in D : \A j \in D : k <= j
    <3>1. D \in SUBSET Nat
      OBVIOUS
    <3> HIDE DEF D
    <3> QED BY <1>1, <3>1, NatLeast
  <2>2. CASE k = 1
    BY <2>1, <2>2 DEF Follows
  <2>3. CASE k # 1
    <3>1. k - 1 \in 1 .. n - 1 /\ k - 1 \in 1 .. n /\ (k - 1) + 1 = k /\ ~(k <= k - 1)
      BY <2>1, <2>3
    <3>2. q[k - 1] = r[k - 1]
      BY <2>1, <3>1
    <3>3. q[k] = r[k]
      BY <3>1, <3>2 DEF Follows
    <3> QED BY <2>1, <3>3
  <2> QED BY <2>2, <2>3
<1>2. \A k \in 1 .. n : q[k] = r[k]
  BY <1>1
<1> QED BY <1>2

\* Whatever follows the links is the list.
LEMMA ItemsAre ==
  ASSUME NEW n \in Nat, NEW h, NEW nx, NEW q \in [1 .. n -> Entries], Follows(q, n, h, nx)
  PROVE  ItemsFrom(n, h, nx) = q
<1>1. \A r \in [1 .. n -> Entries] : Follows(r, n, h, nx) => r = q
  BY ItemsUnique
<1> QED BY <1>1, Zenon DEF ItemsFrom

\* The list as the rest of the proofs see it.
Sound(q) == /\ q \in [1 .. length -> Entries]
            /\ IsList(q)
            /\ \A k, j \in 1 .. length : q[k] = q[j] => k = j
            /\ \A k \in 1 .. length : q[k] \notin free /\ \A t \in Threads : q[k] # entry[t]

LEMMA SoundLinked ==
  ASSUME TypeOK, NEW q, Sound(q)
  PROVE  ListSound /\ Linked = q
<1>1. Linked = q
  BY ItemsAre DEF Linked, Sound, IsList, TypeOK
<1> QED BY <1>1 DEF ListSound, Sound

LEMMA Ends ==
  ASSUME TypeOK, NEW q, Sound(q)
  PROVE  /\ length \in Nat
         /\ (head = None) = (length = 0) /\ (tail = None) = (length = 0)
         /\ length > 0 => /\ 1 \in 1 .. length /\ length \in 1 .. length
                          /\ head = q[1] /\ tail = q[length] /\ next[tail] = None
                          /\ head \in Entries /\ tail \in Entries
         /\ \A k \in 1 .. length - 1 : next[q[k]] = q[k + 1]
BY QueueAssumption DEF TypeOK, Sound, IsList, Follows

LEMMA InitInv == Init => IInv
<1> SUFFICES ASSUME Init PROVE IInv
  OBVIOUS
<1>1. TypeOK
  BY DEF Init, TypeOK, Threads
<1>2. ListSound
  <2> DEFINE q == [k \in 1 .. 0 |-> head]
  <2>1. q \in [1 .. length -> Entries] /\ length = 0 /\ 1 .. length = {}
    BY DEF Init
  <2>2. IsList(q)
    BY <2>1 DEF IsList, Follows, Init
  <2> HIDE DEF q
  <2> QED BY <2>1, <2>2 DEF ListSound
<1>3. HandsSound
  BY QueueAssumption DEF Init, HandsSound, InHand, Threads
<1> QED BY <1>1, <1>2, <1>3 DEF IInv

-----------------------------------------------------------------------------
(***************************************************************************)
(* What each action does to the list, the sequence q.                      *)
(***************************************************************************)
LEMMA PushAllocStep ==
  ASSUME IInv, NEW q, Sound(q), NEW p \in Producers, NEW m \in Messages, NEW e \in Entries,
         PushAlloc(p, m, e)
  PROVE  /\ IInv' /\ Linked' = q
         /\ \A x \in Entries \ free : data'[x] = data[x]
<1>1. /\ p \in Threads /\ pc[p] = "idle" /\ e \in free
      /\ \A k \in 1 .. length : q[k] # e /\ q[k] \in Entries \ free
  BY DEF PushAlloc, Threads, Sound
<1>2. TypeOK'
  BY <1>1 DEF PushAlloc, TypeOK, IInv
<1>3. Sound(q)'
  <2>1. q \in [1 .. length' -> Entries] /\ length' = length /\ head' = head /\ tail' = tail
    BY DEF PushAlloc, Sound
  <2>2. \A k \in 1 .. length : next'[q[k]] = next[q[k]]
    BY <1>1 DEF PushAlloc, IInv, TypeOK
  <2>3. IsList(q)'
    BY <2>1, <2>2, Ends DEF IInv, Sound, IsList, Follows, TypeOK
  <2>4. \A k \in 1 .. length : q[k] \notin free' /\ \A t \in Threads : q[k] # entry'[t]
    BY <1>1 DEF PushAlloc, IInv, TypeOK, Sound
  <2> QED BY <2>1, <2>3, <2>4 DEF Sound
<1>4. HandsSound'
  <2>1. \A t \in Threads : t # p => entry'[t] = entry[t] /\ pc'[t] = pc[t]
    BY DEF PushAlloc, IInv, TypeOK
  <2>2. entry'[p] = e /\ pc'[p] = "push" /\ free' = free \ {e} /\ next'[e] = None /\ data'[e] = m
    BY <1>1 DEF PushAlloc, IInv, TypeOK
  <2>3. \A x \in Entries : x # e => next'[x] = next[x] /\ data'[x] = data[x]
    BY DEF PushAlloc, IInv, TypeOK
  <2>4. \A t \in Threads : t # p => entry[t] # e /\ (entry[t] = None \/ entry[t] \in Entries \ free)
    BY <1>1, QueueAssumption DEF IInv, HandsSound, InHand
  <2>5. \A t \in Threads : InHand(t)'
    BY <1>1, <2>1, <2>2, <2>4 DEF IInv, HandsSound, InHand
  <2>6. \A t \in Threads : pc'[t] \in {"idle", "push"} <=> t \in Producers
    BY <2>1, <2>2 DEF IInv, HandsSound
  <2>7. \A t \in Threads : pc'[t] = "push" => next'[entry'[t]] = None
    <3>1. \A t \in Threads : t # p /\ pc[t] = "push" => entry[t] \in Entries /\ next[entry[t]] = None
      BY DEF IInv, HandsSound, InHand
    <3> QED BY <2>1, <2>2, <2>3, <2>4, <3>1
  <2>8. \A t, u \in Threads : entry'[t] = entry'[u] /\ entry'[t] # None => t = u
    BY <2>1, <2>2, <2>4 DEF IInv, HandsSound
  <2>9. \A x \in Entries \ free' : data'[x] \in Messages
    BY <2>2, <2>3 DEF IInv, HandsSound
  <2> QED BY <2>5, <2>6, <2>7, <2>8, <2>9 DEF HandsSound
<1>5. (ListSound /\ Linked = q)'
  <2>1. length' \in Nat
    BY <1>2 DEF TypeOK
  <2>2. Linked' = q
    BY <1>3, <2>1, ItemsAre DEF Linked, Sound, IsList
  <2> QED BY <1>3, <2>2 DEF ListSound, Sound
<1>6. \A x \in Entries \ free : data'[x] = data[x]
  BY <1>1 DEF PushAlloc, IInv, TypeOK
<1> QED BY <1>2, <1>4, <1>5, <1>6 DEF IInv

\* The thread that pushed is idle again, and one that waited may be awake.
LEMMA SignalStep ==
  ASSUME TypeOK, NEW p \in Producers, pc[p] = "push", Signal(p)
  PROVE  /\ pc' \in [Threads -> {"idle", "push", "lock", "wait", "took"}]
         /\ pc'[p] = "idle"
         /\ \A t \in Threads : t # p => pc'[t] = pc[t] \/ (pc[t] = "wait" /\ pc'[t] = "lock")
<1>1. p \in Threads /\ \A c \in Waiting : c \in Threads /\ pc[c] = "wait" /\ c # p
  BY DEF Waiting, Threads
<1>2. CASE Waiting = {}
  BY <1>1, <1>2 DEF Signal, TypeOK
<1>3. CASE Waiting # {}
  <2>1. PICK c \in Waiting : pc' = [pc EXCEPT ![p] = "idle", ![c] = "lock"]
    BY <1>3 DEF Signal
  <2> QED BY <1>1, <2>1 DEF TypeOK
<1> QED BY <1>2, <1>3

\* The list with e behind its last item.
Longer(q, e) == [k \in 1 .. length + 1 |-> IF k = length + 1 THEN e ELSE q[k]]

LEMMA PushLinkStep ==
  ASSUME IInv, NEW q, Sound(q), NEW p \in Producers, PushLink(p)
  PROVE  /\ IInv' /\ Linked' = Longer(q, entry[p]) /\ length' = length + 1
         /\ \A t \in Threads : (pc'[t] = "took") = (pc[t] = "took") /\ (pc[t] = "took" => entry'[t] = entry[t])
<1> DEFINE e == entry[p]
<1>1. /\ p \in Threads /\ pc[p] = "push" /\ e \in Entries \ free /\ next[e] = None /\ e # None
      /\ \A k \in 1 .. length : q[k] # e /\ q[k] \in Entries \ free
      /\ TypeOK /\ length \in Nat
  BY QueueAssumption DEF PushLink, Threads, Sound, IInv, HandsSound, InHand, TypeOK
<1>2. /\ pc' \in [Threads -> {"idle", "push", "lock", "wait", "took"}]
      /\ pc'[p] = "idle"
      /\ \A t \in Threads : t # p => pc'[t] = pc[t] \/ (pc[t] = "wait" /\ pc'[t] = "lock")
  <2>1. Signal(p)
    BY DEF PushLink
  <2> QED BY <1>1, <2>1, SignalStep
<1>3. /\ length' = length + 1 /\ tail' = e /\ free' = free /\ data' = data /\ got' = got
      /\ entry' = [entry EXCEPT ![p] = None]
      /\ head' = IF length = 0 THEN e ELSE head
      /\ next' = IF length = 0 THEN next ELSE [next EXCEPT ![tail] = e]
  BY <1>1, Ends DEF PushLink
<1> HIDE DEF e
<1>4. TypeOK'
  BY <1>1, <1>2, <1>3, Ends DEF TypeOK
<1>5. PICK r : /\ r = Longer(q, e) /\ r \in [1 .. length' -> Entries]
               /\ r[length + 1] = e /\ length + 1 \in 1 .. length'
               /\ \A k \in 1 .. length : r[k] = q[k] /\ k \in 1 .. length'
               /\ \A k \in 1 .. length' : k = length + 1 \/ k \in 1 .. length
  <2>1. /\ Longer(q, e) \in [1 .. length' -> Entries]
        /\ Longer(q, e)[length + 1] = e /\ length + 1 \in 1 .. length'
        /\ \A k \in 1 .. length : Longer(q, e)[k] = q[k] /\ k \in 1 .. length'
        /\ \A k \in 1 .. length' : k = length + 1 \/ k \in 1 .. length
    BY <1>1, <1>3 DEF Longer, Sound
  <2> QED BY <2>1, Zenon
<1>6. IsList(r)'
  <2>1. \A k \in 1 .. length : next'[r[k]] = r[k + 1]
    <3> SUFFICES ASSUME NEW k \in 1 .. length PROVE next'[r[k]] = r[k + 1]
      OBVIOUS
    <3>1. next' = [next EXCEPT ![tail] = e] /\ tail = q[length] /\ length \in 1 .. length
          /\ q[k] \in Entries
      BY <1>1, <1>3, Ends DEF Sound
    <3>2. CASE k = length
      BY <1>1, <1>5, <3>1, <3>2 DEF TypeOK
    <3>3. CASE k # length
      <4>1. k \in 1 .. length - 1 /\ k + 1 \in 1 .. length
        BY <1>1, <3>3
      <4>2. q[k] # tail
        BY <3>1, <3>3 DEF Sound
      <4>3. next[q[k]] = q[k + 1]
        BY <1>1, <4>1, Ends
      <4> QED BY <1>1, <1>5, <3>1, <4>1, <4>2, <4>3 DEF TypeOK
    <3> QED BY <3>2, <3>3
  <2>2. r[1] = head'
    BY <1>1, <1>3, <1>5, Ends
  <2>3. next'[e] = None
    <3>1. CASE length = 0
      BY <1>1, <1>3, <3>1
    <3>2. CASE length # 0
      <4>1. tail # e /\ next' = [next EXCEPT ![tail] = e]
        BY <1>1, <1>3, <3>2, Ends
      <4> QED BY <1>1, <4>1 DEF TypeOK
    <3> QED BY <3>1, <3>2
  <2>4. head' # None /\ length' # 0 /\ tail' = r[length'] /\ length' - 1 = length
    BY <1>1, <1>3, <1>5, Ends
  <2> QED BY <1>3, <2>1, <2>2, <2>3, <2>4 DEF IsList, Follows
<1>7. Sound(r)'
  <2>1. \A k, j \in 1 .. length' : r[k] = r[j] => k = j
    BY <1>1, <1>5 DEF Sound
  <2>2. \A t \in Threads : entry'[t] = entry[t] \/ entry'[t] = None
    BY <1>1, <1>3 DEF TypeOK
  <2>3. \A t \in Threads : entry'[t] # e
    BY <1>1, <1>3 DEF TypeOK, IInv, HandsSound, e
  <2>4. \A k \in 1 .. length' : r[k] \notin free' /\ \A t \in Threads : r[k] # entry'[t]
    BY <1>1, <1>3, <1>5, <2>2, <2>3, QueueAssumption DEF Sound
  <2> QED BY <1>5, <1>6, <2>1, <2>4 DEF Sound
<1>8. HandsSound'
  <2>1. \A t \in Threads : t # p => entry'[t] = entry[t]
    BY <1>3 DEF IInv, TypeOK
  <2>2. entry'[p] = None
    BY <1>1, <1>3 DEF TypeOK
  <2>3. \A t \in Threads : InHand(t)'
    BY <1>1, <1>2, <1>3, <2>1, <2>2 DEF IInv, HandsSound, InHand
  <2>4. \A t \in Threads : pc'[t] \in {"idle", "push"} <=> t \in Producers
    BY <1>2 DEF IInv, HandsSound
  <2>5. \A t \in Threads : pc'[t] = "push" => next'[entry'[t]] = None
    <3> SUFFICES ASSUME NEW t \in Threads, pc'[t] = "push" PROVE next'[entry'[t]] = None
      OBVIOUS
    <3>1. t # p /\ pc[t] = "push" /\ entry'[t] = entry[t]
      BY <1>2, <2>1
    <3>2. entry[t] \in Entries /\ next[entry[t]] = None
      BY <3>1 DEF IInv, HandsSound, InHand
    <3>3. length # 0 => tail # entry[t]
      BY <1>1, Ends DEF Sound
    <3> QED BY <1>1, <1>3, <3>1, <3>2, <3>3 DEF TypeOK
  <2>6. \A t, u \in Threads : entry'[t] = entry'[u] /\ entry'[t] # None => t = u
    BY <2>1, <2>2 DEF IInv, HandsSound
  <2>7. \A x \in Entries \ free' : data'[x] \in Messages
    BY <1>3 DEF IInv, HandsSound
  <2> QED BY <2>3, <2>4, <2>5, <2>6, <2>7 DEF HandsSound
<1>9. (ListSound /\ Linked = r)'
  <2>1. length' \in Nat
    BY <1>4 DEF TypeOK
  <2>2. Linked' = r
    BY <1>7, <2>1, ItemsAre DEF Linked, Sound, IsList
  <2> QED BY <1>7, <2>2 DEF ListSound, Sound
<1>10. \A t \in Threads : (pc'[t] = "took") = (pc[t] = "took") /\ (pc[t] = "took" => entry'[t] = entry[t])
  BY <1>1, <1>2, <1>3 DEF TypeOK
<1> QED BY <1>3, <1>4, <1>8, <1>5, <1>9, <1>10 DEF IInv, e

\* The list without its first item.
Shorter(q) == [k \in 1 .. length - 1 |-> q[k + 1]]

LEMMA PopTakeStep ==
  ASSUME IInv, NEW q, Sound(q), NEW c \in Consumers, PopTake(c)
  PROVE  IInv' /\ Linked' = Shorter(q) /\ length > 0 /\ head = q[1]
<1>1. /\ c \in Threads /\ pc[c] = "lock" /\ head # None /\ c \notin Producers
      /\ TypeOK /\ length \in Nat /\ length > 0 /\ head = q[1] /\ 1 \in 1 .. length
      /\ head \in Entries \ free /\ \A t \in Threads : entry[t] # head
  BY QueueAssumption, Ends DEF PopTake, Threads, Sound, IInv, TypeOK
<1>2. next[head] = IF length = 1 THEN None ELSE q[2]
  BY <1>1, Ends
<1>3. /\ length' = length - 1 /\ free' = free /\ data' = data /\ got' = got
      /\ entry' = [entry EXCEPT ![c] = head] /\ pc' = [pc EXCEPT ![c] = "took"]
      /\ head' = (IF length = 1 THEN None ELSE q[2]) /\ next' = [next EXCEPT ![head] = None]
      /\ tail' = IF length = 1 THEN None ELSE tail
  <2>1. length # 1 => q[2] \in Entries /\ q[2] # None
    BY <1>1, QueueAssumption DEF Sound
  <2> QED BY <1>2, <2>1 DEF PopTake
<1>4. TypeOK'
  <2>1. length # 1 => q[2] \in Entries
    BY <1>1 DEF Sound
  <2> QED BY <1>1, <1>3, <2>1 DEF TypeOK
<1>5. PICK r : /\ r = Shorter(q) /\ r \in [1 .. length' -> Entries]
               /\ \A k \in 1 .. length' : r[k] = q[k + 1] /\ k + 1 \in 1 .. length
  <2>1. /\ Shorter(q) \in [1 .. length' -> Entries]
        /\ \A k \in 1 .. length' : Shorter(q)[k] = q[k + 1] /\ k + 1 \in 1 .. length
    BY <1>1, <1>3 DEF Shorter, Sound
  <2> QED BY <2>1, Zenon
<1>6. IsList(r)'
  <2>1. \A k \in 1 .. length' : r[k] # head /\ r[k] \in Entries /\ next'[r[k]] = next[r[k]]
    <3>1. \A k \in 1 .. length' : r[k] # head /\ r[k] \in Entries
      BY <1>1, <1>3, <1>5 DEF Sound
    <3> QED BY <1>1, <1>3, <3>1 DEF TypeOK
  <2>2. \A k \in 1 .. length' - 1 : next'[r[k]] = r[k + 1]
    <3> SUFFICES ASSUME NEW k \in 1 .. length' - 1 PROVE next'[r[k]] = r[k + 1]
      OBVIOUS
    <3>1. k \in 1 .. length' /\ k + 1 \in 1 .. length' /\ k + 1 \in 1 .. length - 1
      BY <1>1, <1>3
    <3>2. next[q[k + 1]] = q[(k + 1) + 1]
      BY <1>1, <3>1, Ends
    <3> QED BY <1>5, <2>1, <3>1, <3>2
  <2>3. CASE length = 1
    BY <1>1, <1>3, <2>3 DEF IsList, Follows
  <2>4. CASE length # 1
    <3>1. length' > 0 /\ 1 \in 1 .. length' /\ length' \in 1 .. length' /\ length' + 1 = length
      BY <1>1, <1>3, <2>4
    <3>2. r[1] = head' /\ head' # None /\ r[length'] = tail' /\ tail' = tail
      BY <1>1, <1>3, <1>5, <2>1, <2>4, <3>1, QueueAssumption, Ends
    <3>3. next'[tail'] = None
      BY <1>1, <2>1, <3>1, <3>2, Ends
    <3> QED BY <2>2, <3>1, <3>2, <3>3 DEF IsList, Follows
  <2> QED BY <2>3, <2>4
<1>7. Sound(r)'
  <2>1. \A k, j \in 1 .. length' : r[k] = r[j] => k = j
    <3>1. \A k, j \in 1 .. length' : q[k + 1] = q[j + 1] => k + 1 = j + 1
      BY <1>5 DEF Sound
    <3> SUFFICES ASSUME NEW k \in 1 .. length', NEW j \in 1 .. length', r[k] = r[j] PROVE k = j
      OBVIOUS
    <3>2. k + 1 = j + 1
      BY <1>5, <3>1
    <3> QED BY <3>2
  <2>2. \A k \in 1 .. length' : r[k] # head /\ r[k] \notin free
                               /\ \A t \in Threads : r[k] # entry[t]
    BY <1>1, <1>3, <1>5 DEF Sound
  <2>3. \A k \in 1 .. length' : r[k] \notin free' /\ \A t \in Threads : r[k] # entry'[t]
    BY <1>1, <1>3, <2>2 DEF TypeOK
  <2> QED BY <1>5, <1>6, <2>1, <2>3 DEF Sound
<1>8. HandsSound'
  <2>1. /\ entry'[c] = head /\ pc'[c] = "took" /\ next'[head] = None
        /\ \A t \in Threads : t # c => entry'[t] = entry[t] /\ pc'[t] = pc[t]
        /\ \A x \in Entries : x # head => next'[x] = next[x]
    BY <1>1, <1>3 DEF TypeOK
  <2>2. \A t \in Threads : InHand(t)'
    BY <1>1, <1>3, <2>1 DEF IInv, HandsSound, InHand
  <2>3. \A t \in Threads : pc'[t] \in {"idle", "push"} <=> t \in Producers
    BY <1>1, <2>1 DEF IInv, HandsSound
  <2>4. \A t \in Threads : pc'[t] = "push" => next'[entry'[t]] = None
    BY <1>1, <2>1 DEF IInv, HandsSound, InHand
  <2>5. \A t, u \in Threads : entry'[t] = entry'[u] /\ entry'[t] # None => t = u
    BY <1>1, <2>1 DEF IInv, HandsSound
  <2>6. \A x \in Entries \ free' : data'[x] \in Messages
    BY <1>3 DEF IInv, HandsSound
  <2> QED BY <2>2, <2>3, <2>4, <2>5, <2>6 DEF HandsSound
<1>9. (ListSound /\ Linked = r)'
  <2>1. length' \in Nat
    BY <1>4 DEF TypeOK
  <2>2. Linked' = r
    BY <1>7, <2>1, ItemsAre DEF Linked, Sound, IsList
  <2> QED BY <1>7, <2>2 DEF ListSound, Sound
<1> QED BY <1>1, <1>4, <1>5, <1>8, <1>9 DEF IInv

\* The list and what has been taken are the same.
Same(q) == /\ Linked' = q /\ length' = length /\ data' = data
           /\ \A c \in Consumers : Taken(c)' = Taken(c)

\* They are as long as no item of the list is freed or taken in hand.
LEMMA ListKept ==
  ASSUME TypeOK, TypeOK', NEW q, Sound(q), UNCHANGED <<head, tail, length, next, data>>,
         \A k \in 1 .. length : q[k] \notin free' /\ \A t \in Threads : q[k] # entry'[t]
  PROVE  ListSound' /\ Linked' = q
<1>1. Sound(q)'
  BY DEF Sound, IsList
<1>2. length' \in Nat /\ Linked' = q
  BY <1>1, ItemsAre DEF Linked, Sound, IsList, TypeOK
<1> QED BY <1>1, <1>2 DEF ListSound, Sound

LEMMA WaitStep ==
  ASSUME IInv, NEW q, Sound(q), NEW c \in Consumers, PopWait(c) \/ SpuriousWake(c)
  PROVE  IInv' /\ Same(q)
<1>1. /\ UNCHANGED <<head, tail, length, next, data, free, entry, got>>
      /\ c \in Threads /\ c \notin Producers /\ pc[c] \in {"lock", "wait"}
      /\ pc'[c] \in {"lock", "wait"} /\ \A t \in Threads : t # c => pc'[t] = pc[t]
      /\ pc' \in [Threads -> {"idle", "push", "lock", "wait", "took"}]
  BY QueueAssumption DEF PopWait, SpuriousWake, IInv, TypeOK, Threads, list
<1>2. TypeOK'
  BY <1>1 DEF IInv, TypeOK
<1>3. HandsSound'
  BY <1>1 DEF IInv, HandsSound, InHand
<1>4. ListSound' /\ Linked' = q
  BY <1>1, <1>2, ListKept DEF IInv, Sound
<1>5. \A d \in Consumers : Taken(d)' = Taken(d)
  BY <1>1 DEF Taken, Threads
<1> QED BY <1>1, <1>2, <1>3, <1>4, <1>5 DEF IInv, Same

LEMMA PopReturnStep ==
  ASSUME IInv, NEW q, Sound(q), NEW c \in Consumers, PopReturn(c)
  PROVE  IInv' /\ Same(q)
<1>1. /\ c \in Threads /\ c \notin Producers /\ pc[c] = "took"
      /\ entry[c] \in Entries \ free /\ entry[c] # None
      /\ \A t \in Threads : t # c => entry[t] # entry[c]
      /\ \A k \in 1 .. length : q[k] # entry[c]
      /\ data[entry[c]] \in Messages
  BY QueueAssumption DEF PopReturn, IInv, HandsSound, InHand, Threads, Sound
<1>2. /\ UNCHANGED <<head, tail, length, next, data>>
      /\ free' = free \cup {entry[c]}
      /\ entry'[c] = None /\ pc'[c] = "lock" /\ got'[c] = data[entry[c]]
      /\ \A t \in Threads : t # c => entry'[t] = entry[t] /\ pc'[t] = pc[t]
      /\ \A d \in Consumers : d # c => got'[d] = got[d]
  BY <1>1 DEF PopReturn, IInv, TypeOK, list
<1>3. TypeOK'
  BY <1>1 DEF PopReturn, IInv, TypeOK, list
<1>4. HandsSound'
  <2>1. \A t \in Threads : InHand(t)'
    BY <1>1, <1>2 DEF IInv, HandsSound, InHand
  <2>2. \A t \in Threads : /\ pc'[t] \in {"idle", "push"} <=> t \in Producers
                           /\ pc'[t] = "push" => next'[entry'[t]] = None
    BY <1>1, <1>2 DEF IInv, HandsSound
  <2>3. \A t, u \in Threads : entry'[t] = entry'[u] /\ entry'[t] # None => t = u
    BY <1>1, <1>2 DEF IInv, HandsSound
  <2>4. \A x \in Entries \ free' : data'[x] \in Messages
    BY <1>2 DEF IInv, HandsSound
  <2> QED BY <2>1, <2>2, <2>3, <2>4 DEF HandsSound
<1>5. \A k \in 1 .. length : q[k] \notin free' /\ \A t \in Threads : q[k] # entry'[t]
  <2>1. \A k \in 1 .. length : q[k] \in Entries /\ q[k] # None
    BY QueueAssumption DEF Sound
  <2> QED BY <1>1, <1>2, <2>1 DEF Sound
<1>6. ListSound' /\ Linked' = q
  BY <1>2, <1>3, <1>5, ListKept DEF IInv
<1>7. \A d \in Consumers : Taken(d)' = Taken(d)
  BY <1>1, <1>2 DEF Taken, Threads
<1> QED BY <1>2, <1>3, <1>4, <1>6, <1>7 DEF IInv, Same

LEMMA StutterStep ==
  ASSUME IInv, NEW q, Sound(q), UNCHANGED vars
  PROVE  IInv' /\ Same(q)
<1>1. TypeOK' /\ HandsSound'
  BY DEF vars, IInv, TypeOK, HandsSound, InHand
<1>2. ListSound' /\ Linked' = q
  BY <1>1, ListKept DEF vars, IInv, Sound
<1> QED BY <1>1, <1>2 DEF vars, IInv, Same, Taken

LEMMA StepInv == IInv /\ [Next]_vars => IInv'
<1> SUFFICES ASSUME IInv, [Next]_vars PROVE IInv'
  OBVIOUS
<1>1. PICK q : Sound(q)
  BY DEF IInv, ListSound, Sound
<1> QED BY <1>1, PushAllocStep, PushLinkStep, PopTakeStep, PopReturnStep, WaitStep, StutterStep
        DEF Next, Push, Pop

-----------------------------------------------------------------------------
\* Append and Tail of sequences that are given by their elements.
LEMMA AppendIs ==
  ASSUME NEW S, NEW s \in Seq(S), NEW m \in S,
         NEW t, t = [k \in 1 .. Len(s) + 1 |-> IF k = Len(s) + 1 THEN m ELSE s[k]]
  PROVE  t = Append(s, m)
<1>1. /\ Append(s, m) \in Seq(S) /\ Len(Append(s, m)) = Len(s) + 1
      /\ \A k \in 1 .. Len(s) : Append(s, m)[k] = s[k]
      /\ Append(s, m)[Len(s) + 1] = m
  BY AppendProperties
<1>2. Len(s) \in Nat /\ \A k \in 1 .. Len(s) : s[k] \in S
  OBVIOUS
<1>3. t \in Seq(S) /\ Len(t) = Len(s) + 1
  BY <1>2
<1>4. \A k \in 1 .. Len(t) : t[k] = Append(s, m)[k]
  BY <1>1, <1>2, <1>3
<1> QED BY <1>1, <1>3, <1>4, SeqEqual

LEMMA TailIs ==
  ASSUME NEW S, NEW s \in Seq(S), Len(s) > 0,
         NEW t, t = [k \in 1 .. Len(s) - 1 |-> s[k + 1]]
  PROVE  s # <<>> /\ Head(s) = s[1] /\ t = Tail(s)
<1>1. s # <<>> /\ Len(s) \in Nat /\ Head(s) = s[1]
  OBVIOUS
<1>2. /\ Tail(s) \in Seq(S) /\ Len(Tail(s)) = Len(s) - 1
      /\ \A k \in 1 .. Len(Tail(s)) : Tail(s)[k] = s[k + 1]
  BY <1>1, HeadTailProperties
<1>3. t \in Seq(S) /\ Len(t) = Len(s) - 1
  BY <1>1
<1>4. \A k \in 1 .. Len(t) : t[k] = Tail(s)[k]
  BY <1>2, <1>3
<1> QED BY <1>1, <1>2, <1>3, <1>4, SeqEqual

-----------------------------------------------------------------------------
(***************************************************************************)
(* For any number of threads the list behind the lock is whole: queue_pop  *)
(* never takes an item that is freed or another thread's, and the length   *)
(* and the tail are those of the list (the assertions of queue.c).         *)
(***************************************************************************)
THEOREM QueueSafety == Spec => []QueueSafe
<1>1. IInv => QueueSafe
  BY DEF IInv, QueueSafe
<1> QED BY <1>1, InitInv, StepInv, PTL DEF Spec

(***************************************************************************)
(* queue_push and queue_pop implement a FIFO queue: every message is       *)
(* popped once, by one thread, in the order in which they were linked.     *)
(***************************************************************************)
THEOREM QueueIsFifo == Spec => Abstract!Spec
<1>1. Init => Abstract!Init
  BY DEF Init, Abstract!Init, Taken, Threads
<1>2. ASSUME IInv, [Next]_vars PROVE [Abstract!Next]_Abstract!vars
  <2> DEFINE queue == [k \in 1 .. length |-> data[Linked[k]]]
             taken == [c \in Consumers |-> Taken(c)]
  <2>1. PICK q : Sound(q)
    BY <1>2 DEF IInv, ListSound, Sound
  <2>2. /\ Linked = q /\ TypeOK /\ length \in Nat
        /\ \A k \in 1 .. length : q[k] \in Entries \ free /\ data[q[k]] \in Messages
    BY <1>2, <2>1, SoundLinked DEF IInv, Sound, HandsSound, TypeOK
  <2>3. queue \in Seq(Messages) /\ Len(queue) = length
    BY <2>2
  <2>4. ASSUME Same(q) PROVE UNCHANGED <<queue, taken>>
    BY <2>2, <2>4 DEF Same
  <2>5. ASSUME NEW p \in Producers, NEW m \in Messages, NEW e \in Entries, PushAlloc(p, m, e)
        PROVE  UNCHANGED <<queue, taken>>
    <3>1. Linked' = q /\ length' = length /\ \A x \in Entries \ free : data'[x] = data[x]
      BY <1>2, <2>1, <2>5, PushAllocStep DEF PushAlloc
    <3>2. queue' = queue
      BY <2>2, <3>1
    <3>3. \A c \in Consumers : Taken(c)' = Taken(c)
      <4> SUFFICES ASSUME NEW c \in Consumers PROVE Taken(c)' = Taken(c)
        OBVIOUS
      <4>1. c \in Threads /\ c # p /\ entry'[c] = entry[c] /\ pc'[c] = pc[c] /\ got'[c] = got[c]
        BY <2>2, <2>5, QueueAssumption DEF PushAlloc, Threads, TypeOK
      <4>2. pc[c] = "took" => entry[c] \in Entries \ free
        BY <1>2, <4>1 DEF IInv, HandsSound, InHand
      <4> QED BY <3>1, <4>1, <4>2 DEF Taken
    <3> QED BY <3>2, <3>3
  <2>6. ASSUME NEW p \in Producers, PushLink(p)
        PROVE  \E m \in Messages : queue' = Append(queue, m) /\ UNCHANGED taken
    <3> DEFINE m == data[entry[p]]
    <3>1. /\ Linked' = Longer(q, entry[p]) /\ length' = length + 1 /\ data' = data /\ got' = got
          /\ \A t \in Threads : (pc'[t] = "took") = (pc[t] = "took")
                                /\ (pc[t] = "took" => entry'[t] = entry[t])
      BY <1>2, <2>1, <2>6, PushLinkStep DEF PushLink
    <3>2. m \in Messages
      BY <1>2, <2>6 DEF PushLink, IInv, HandsSound, InHand, Threads
    <3>3. queue' = [k \in 1 .. length + 1 |-> IF k = length + 1 THEN m ELSE queue[k]]
      BY <2>2, <3>1 DEF Longer
    <3>4. taken' = taken
      BY <3>1 DEF Taken, Threads
    <3> HIDE DEF m, queue, taken
    <3>5. queue' = Append(queue, m)
      BY <2>3, <3>2, <3>3, AppendIs
    <3> QED BY <3>2, <3>4, <3>5
  <2>7. ASSUME NEW c \in Consumers, PopTake(c)
        PROVE  queue # <<>> /\ queue' = Tail(queue) /\ taken' = [taken EXCEPT ![c] = Head(queue)]
    <3>1. Linked' = Shorter(q) /\ length > 0 /\ head = q[1]
      BY <1>2, <2>1, <2>7, PopTakeStep
    <3>2. /\ length' = length - 1 /\ data' = data /\ got' = got
          /\ entry'[c] = head /\ pc'[c] = "took"
          /\ \A d \in Consumers : d # c => entry'[d] = entry[d] /\ pc'[d] = pc[d]
      BY <2>2, <2>7 DEF PopTake, TypeOK, Threads
    <3>3. queue' = [k \in 1 .. length - 1 |-> queue[k + 1]]
      BY <2>2, <3>1, <3>2 DEF Shorter
    <3>4. queue[1] = data[q[1]]
      BY <2>2, <3>1
    <3>5. Taken(c)' = queue[1] /\ \A d \in Consumers : d # c => Taken(d)' = Taken(d)
      BY <3>1, <3>2, <3>4 DEF Taken
    <3>6. taken' = [taken EXCEPT ![c] = queue[1]]
      BY <3>5
    <3> HIDE DEF queue, taken
    <3>7. queue # <<>> /\ Head(queue) = queue[1] /\ queue' = Tail(queue)
      BY <2>3, <3>1, <3>3, TailIs
    <3> QED BY <3>6, <3>7
  <2> QED
    BY <1>2, <2>1, <2>4, <2>5, <2>6, <2>7, PopReturnStep, WaitStep, StutterStep
       DEF Next, Push, Pop, Abstract!Next, Abstract!Push, Abstract!Pop, Abstract!vars
<1> QED BY <1>1, <1>2, InitInv, StepInv, PTL DEF Spec, Abstract!Spec

=============================================================================
