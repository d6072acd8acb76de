------------------------------ MODULE ErlQueue ------------------------------
(***************************************************************************)
(* The queue between the scheduler threads of Erlang, which push requests, *)
(* and the worker thread of an object, which pops them                     *)
(* (src/erlang/c_src/queue.c): a linked list behind a mutex, with a        *)
(* condition variable to wait for an item.  A critical section is one      *)
(* step, since every field of the queue is touched under the lock only;    *)
(* what a thread does before and after it is a step of its own.            *)
(*                                                                         *)
(* queue_send and queue_receive, which share the condition variable, are   *)
(* not called by the binding and not modelled; queue_free belongs to       *)
(* module ErlNif.                                                          *)
(***************************************************************************)
EXTENDS FiniteSetsExt, SequencesExt

CONSTANTS
  Producers,   \* the threads that push
  Consumers,   \* the threads that pop, for ever
  Messages,    \* what is pushed
  Entries,     \* bound: the list items memory is allocated for
  None         \* NULL

ASSUME QueueAssumption == /\ Producers \cap Consumers = {}
                          /\ None \notin Messages \cup Entries
                          /\ IsFiniteSet(Entries)

Threads == Producers \cup Consumers

VARIABLES
  head, tail,   \* the ends of the list
  length,       \* queue->length
  next, data,   \* the fields of each list item
  free,         \* the list items that are not allocated
  pc,           \* where each thread is
  entry,        \* the list item a thread has in hand
  got           \* what queue_pop returned last to each consumer

vars == <<head, tail, length, next, data, free, pc, entry, got>>

list == <<head, tail, length, next>>

Init == /\ head = None /\ tail = None /\ length = 0
        /\ next = [e \in Entries |-> None] /\ data = [e \in Entries |-> None]
        /\ free = Entries
        /\ pc = [t \in Threads |-> IF t \in Producers THEN "idle" ELSE "lock"]
        /\ entry = [t \in Threads |-> None]
        /\ got = [c \in Consumers |-> None]
-----------------------------------------------------------------------------
\* queue_push up to the lock; without memory it returns 0 and changes nothing.
PushAlloc(p, m, e) ==
  /\ pc[p] = "idle" /\ e \in free
  /\ free' = free \ {e}
  /\ data' = [data EXCEPT ![e] = m]
  /\ next' = [next EXCEPT ![e] = None]
  /\ entry' = [entry EXCEPT ![p] = e]
  /\ pc' = [pc EXCEPT ![p] = "push"]
  /\ UNCHANGED <<head, tail, length, got>>

Waiting == {c \in Consumers : pc[c] = "wait"}

\* Mutant: enif_cond_signal is left out.
SignalLost(p) == pc' = [pc EXCEPT ![p] = "idle"]

\* enif_cond_signal wakes one thread; p leaves the critical section.
Signal(p) == IF Waiting = {}
             THEN pc' = [pc EXCEPT ![p] = "idle"]
             ELSE \E c \in Waiting : pc' = [pc EXCEPT ![p] = "idle", ![c] = "lock"]

PushLink(p) ==
  /\ pc[p] = "push"
  /\ next' = IF tail = None THEN next ELSE [next EXCEPT ![tail] = entry[p]]
  /\ tail' = entry[p]
  /\ head' = IF head = None THEN entry[p] ELSE head
  /\ length' = length + 1
  /\ entry' = [entry EXCEPT ![p] = None]
  /\ Signal(p)
  /\ UNCHANGED <<data, free, got>>

\* enif_cond_wait releases the lock and waits.
PopWait(c) ==
  /\ pc[c] = "lock" /\ head = None
  /\ pc' = [pc EXCEPT ![c] = "wait"]
  /\ UNCHANGED <<list, data, free, entry, got>>

\* The wait may end without a signal; the loop looks at the head again.
SpuriousWake(c) ==
  /\ pc[c] = "wait"
  /\ pc' = [pc EXCEPT ![c] = "lock"]
  /\ UNCHANGED <<list, data, free, entry, got>>

\* Mutant: the tail stays when the last item is taken.
PopTakeTail(c) ==
  /\ pc[c] = "lock" /\ head # None
  /\ entry' = [entry EXCEPT ![c] = head]
  /\ head' = next[head]
  /\ next' = [next EXCEPT ![head] = None]
  /\ length' = length - 1
  /\ pc' = [pc EXCEPT ![c] = "took"]
  /\ UNCHANGED <<tail, data, free, got>>

PopTake(c) ==
  /\ pc[c] = "lock" /\ head # None
  /\ entry' = [entry EXCEPT ![c] = head]
  /\ head' = next[head]
  /\ next' = [next EXCEPT ![head] = None]
  /\ tail' = IF next[head] = None THEN None ELSE tail
  /\ length' = length - 1
  /\ pc' = [pc EXCEPT ![c] = "took"]
  /\ UNCHANGED <<data, free, got>>

\* Behind the lock: the payload is read and the item freed; the worker comes back.
PopReturn(c) ==
  /\ pc[c] = "took"
  /\ got' = [got EXCEPT ![c] = data[entry[c]]]
  /\ free' = free \cup {entry[c]}
  /\ entry' = [entry EXCEPT ![c] = None]
  /\ pc' = [pc EXCEPT ![c] = "lock"]
  /\ UNCHANGED <<list, data>>

Push(p) == PushLink(p) \/ \E m \in Messages, e \in Entries : PushAlloc(p, m, e)
Pop(c) == PopWait(c) \/ SpuriousWake(c) \/ PopTake(c) \/ PopReturn(c)

Next == (\E p \in Producers : Push(p)) \/ (\E c \in Consumers : Pop(c))

Spec == Init /\ [][Next]_vars

\* A thread that wants the lock gets it; nobody need push, or wake for nothing.
FairSpec == /\ Spec
            /\ \A p \in Producers : WF_vars(PushLink(p))
            /\ \A c \in Consumers : WF_vars(PopTake(c)) /\ WF_vars(PopReturn(c))
-----------------------------------------------------------------------------
TypeOK == /\ {head, tail} \subseteq Entries \cup {None}
          /\ length \in Nat
          /\ next \in [Entries -> Entries \cup {None}]
          /\ data \in [Entries -> Messages \cup {None}]
          /\ free \in SUBSET Entries
          /\ pc \in [Threads -> {"idle", "push", "lock", "wait", "took"}]
          /\ entry \in [Threads -> Entries \cup {None}]
          /\ got \in [Consumers -> Messages \cup {None}]

\* Sequence q has the n list items from h on.
Follows(q, n, h, nx) ==
  /\ n > 0 => q[1] = h
  /\ \A k \in 1 .. n - 1 : nx[q[k]] = q[k + 1]

ItemsFrom(n, h, nx) == CHOOSE q \in [1 .. n -> Entries] : Follows(q, n, h, nx)

Linked == ItemsFrom(length, head, next)

\* The items of q are linked from the head to the tail.
IsList(q) == /\ Follows(q, length, head, next)
             /\ head = None <=> length = 0
             /\ IF length = 0 THEN tail = None
                ELSE tail = q[length] /\ next[tail] = None

(***************************************************************************)
(* The assertions of queue.c (lines 101, 133 and 142): the chain from the  *)
(* head has `length' items and ends at the tail, and none of them is freed *)
(* or in another thread's hands.                                           *)
(***************************************************************************)
ListSound == \E q \in [1 .. length -> Entries] :
  /\ IsList(q)
  /\ \A k, j \in 1 .. length : q[k] = q[j] => k = j
  /\ \A k \in 1 .. length : q[k] \notin free /\ \A t \in Threads : q[k] # entry[t]

(***************************************************************************)
(* The queue with its lock released: nothing written by one thread is half *)
(* seen by another, whatever the order of pushes, pops and wake-ups.       *)
(***************************************************************************)
QueueSafe == TypeOK /\ ListSound

\* What consumer c has taken last, returned or not.
Taken(c) == IF pc[c] = "took" THEN data[entry[c]] ELSE got[c]

(***************************************************************************)
(* The queue is a FIFO queue: what is returned after the lock is released  *)
(* is what was taken under it, and a message pushed does not stay in the   *)
(* queue for ever, since no signal is lost.                                *)
(***************************************************************************)
Abstract == INSTANCE Fifo WITH queue <- [k \in 1 .. length |-> data[Linked[k]]],
                               taken <- [c \in Consumers |-> Taken(c)]
FifoSpec == Abstract!FairSpec
-----------------------------------------------------------------------------
(***************************************************************************)
(* What a thread has in hand is its own until it is linked, or freed, and  *)
(* every item in the list or on its way there has a message.               *)
(***************************************************************************)
InHand(t) == IF pc[t] \in {"push", "took"}
             THEN entry[t] \in Entries \ free
             ELSE entry[t] = None

HandsSound ==
  /\ \A t \in Threads : /\ InHand(t)
                        /\ pc[t] \in {"idle", "push"} <=> t \in Producers
                        /\ pc[t] = "push" => next[entry[t]] = None
  /\ \A t, u \in Threads : entry[t] = entry[u] /\ entry[t] # None => t = u
  /\ \A e \in Entries \ free : data[e] \in Messages

IInv == TypeOK /\ ListSound /\ HandsSound
=============================================================================
