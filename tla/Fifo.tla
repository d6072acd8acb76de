-------------------------------- MODULE Fifo --------------------------------
(***************************************************************************)
(* What the request queue of the Erlang binding promises: messages are     *)
(* taken in the order in which they were pushed, each by one consumer.     *)
(***************************************************************************)
EXTENDS Sequences

CONSTANTS
  Messages,    \* what is pushed
  Consumers,   \* who pops
  None         \* not a message

VARIABLES
  queue,   \* the messages pushed and not popped
  taken    \* what each consumer popped last

vars == <<queue, taken>>

Init == queue = <<>> /\ taken = [c \in Consumers |-> None]

Push(m) == queue' = Append(queue, m) /\ UNCHANGED taken

Pop(c) == /\ queue # <<>>
          /\ queue' = Tail(queue)
          /\ taken' = [taken EXCEPT ![c] = Head(queue)]

Next == (\E m \in Messages : Push(m)) \/ (\E c \in Consumers : Pop(c))

Spec == Init /\ [][Next]_vars

\* Consumers that always ask empty the queue again and again.
FairSpec == Spec /\ WF_vars(\E c \in Consumers : Pop(c))
=============================================================================
