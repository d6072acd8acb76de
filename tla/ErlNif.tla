------------------------------- MODULE ErlNif -------------------------------
(***************************************************************************)
(* The Erlang binding (src/erlang/c_src/discodb_nif.c with                 *)
(* src/erlang/src/discodb.erl): every constructor and database is an       *)
(* object with a worker thread and a queue of requests.  A process pushes  *)
(* a request and waits for the answer; the worker sends it.  An object is  *)
(* destroyed by the thread that lets go of the last reference to it: it    *)
(* pushes a stop message and joins the worker.                             *)
(*                                                                         *)
(* The queue is module ErlQueue; here it is the sequence it implements.    *)
(* The reference counts of ERTS are not numbers here: a resource lives     *)
(* while a process, a message, a reply or an iterator refers to it.        *)
(***************************************************************************)
EXTENDS Sequences, FiniteSets, Naturals

CONSTANTS
  Procs,     \* the Erlang processes
  Mortal,    \* those that may be killed
  Objects,   \* bound: the objects (ErlDDB) of one behaviour
  Asks,      \* the requests each process asks: some of add, finalize, dump, get
  MaxLost,   \* bound on the messages there is no memory for
  None       \* no process, no object

ASSUME NifAssumption == /\ Mortal \subseteq Procs
                        /\ Asks \in [Procs -> SUBSET {"add", "finalize", "dump", "get"}]
                        /\ None \notin Procs \cup Objects
                        /\ MaxLost \in Nat

VARIABLES
  kind,     \* ddb->kind; "none" before the object is made
  msgs,     \* ddb->msgs
  worker,   \* where ErlDDB_run is
  msg,      \* the message the worker holds
  reply,    \* its answer
  dtor,     \* how far ErlDDB_free has come
  by,       \* the thread that runs it: a process, or the worker of an object
  holds,    \* which process has a reference to which object
  iters,    \* which process has an iterator over which object
  waits,    \* the object whose answer a process waits for
  box,      \* the answers in a process's mailbox
  alive,    \* the processes not killed
  leaked,   \* objects made by a finalize that failed afterwards
  lost      \* the processes whose request, and the objects whose stop message, was lost

vars == <<kind, msgs, worker, msg, reply, dtor, by, holds, iters, waits, box, alive, leaked, lost>>

thread == <<worker, msg, reply>>
process == <<holds, iters, waits, box, alive>>
losses == <<leaked, lost>>

NoMsg == [from |-> None, func |-> "none", ref |-> None]
NoReply == [ddb |-> None, obj |-> None, iter |-> None]
Stop == [from |-> None, func |-> "stop", ref |-> None]
Null == [from |-> None, func |-> "null", ref |-> None]   \* NULL in place of a message

\* What process p asks an object of each kind (ErlDDB_call).
Asked(p, k) == Asks[p] \cap IF k = "cons" THEN {"add", "finalize"} ELSE {"dump", "get"}

Init == /\ kind = [o \in Objects |-> "none"]
        /\ msgs = [o \in Objects |-> <<>>]
        /\ worker = [o \in Objects |-> "off"]
        /\ msg = [o \in Objects |-> NoMsg]
        /\ reply = [o \in Objects |-> NoReply]
        /\ dtor = [o \in Objects |-> "none"]
        /\ by = [o \in Objects |-> None]
        /\ holds = {} /\ iters = {}
        /\ waits = [p \in Procs |-> None]
        /\ box = [p \in Procs |-> <<>>]
        /\ alive = Procs
        /\ leaked = {}
        /\ lost = {}
-----------------------------------------------------------------------------
Refs(r) == {r.obj, r.iter}

\* Mutant: ErlDDBIter_new does not keep its owner.
HeldNoKeep(o) == \/ \E p \in Procs : <<p, o>> \in holds
                 \/ \E p \in Procs : \E k \in DOMAIN box[p] : o = box[p][k].obj
                 \/ \E x \in Objects : \/ \E k \in DOMAIN msgs[x] : msgs[x][k].ref = o
                                       \/ msg[x].ref = o \/ o = reply[x].obj
                 \/ o \in leaked

\* A term, an iterator, a queued message or the worker's message refers to object o.
Held(o) == \/ \E p \in Procs : <<p, o>> \in holds \cup iters
           \/ \E p \in Procs : \E k \in DOMAIN box[p] : o \in Refs(box[p][k])
           \/ \E x \in Objects : \/ \E k \in DOMAIN msgs[x] : msgs[x][k].ref = o
                                 \/ msg[x].ref = o \/ o \in Refs(reply[x])
           \/ o \in leaked

\* Thread t lets go of references: the objects it held last are due to be
\* destroyed; d is dtor after the step's own change.  An object the worker
\* referred to again during its destruction is destroyed by the worker itself,
\* whose join of itself fails: the queue is gone when ErlDDB_free returns.
Release(t, d) ==
  LET dropped == {o \in Objects : Held(o) /\ ~Held(o)'}
  IN  /\ dtor' = [o \in Objects |-> IF o \notin dropped THEN d[o]
                                    ELSE IF d[o] = "none" THEN "due" ELSE "freed"]
      /\ by' = [o \in Objects |-> IF o \in dropped /\ d[o] = "none" THEN t ELSE by[o]]

\* Thread t is inside ErlDDB_free.
Destroying(t) == \E o \in Objects : by[o] = t /\ dtor[o] \in {"due", "join", "drain"}

\* A worker followed a NULL: nothing runs any more.
Crashed == \E o \in Objects : worker[o] = "crashed"

Ready(p) == ~Crashed /\ p \in alive /\ waits[p] = None /\ ~Destroying(p)
Push(o, m) == msgs' = [msgs EXCEPT ![o] = Append(@, m)]

\* queue_push has no memory, or Message_new has none and what it returned is
\* pushed; neither result is looked at.
PushLost(o) == UNCHANGED msgs \/ Push(o, Null)
-----------------------------------------------------------------------------
(***************************************************************************)
(* discodb:cons, discodb:cons(DB), discodb:load: ErlDDB_init starts the    *)
(* object and pushes its first request.  The caller then waits.            *)
(***************************************************************************)
Start(o, k) ==
  /\ kind[o] = "none"
  /\ kind' = [kind EXCEPT ![o] = k]
  /\ worker' = [worker EXCEPT ![o] = "pop"]

Create(p, o, k, src) ==
  /\ Ready(p) /\ Start(o, k)
  /\ src # None => k = "cons" /\ kind[src] = "db" /\ <<p, src>> \in holds
  /\ Push(o, [from |-> p, func |-> "init", ref |-> src])
  /\ holds' = holds \cup {<<p, o>>}
  /\ waits' = [waits EXCEPT ![p] = o]
  /\ UNCHANGED <<msg, reply, dtor, by, iters, box, alive, losses>>

\* Arguments that name no request: the object is released again, by its caller.
CreateRefused(p, o, k) ==
  /\ Ready(p) /\ Start(o, k)
  /\ dtor' = [dtor EXCEPT ![o] = "due"] /\ by' = [by EXCEPT ![o] = p]
  /\ UNCHANGED <<msgs, msg, reply, process, losses>>

\* The request is lost, and the caller waits all the same.
CreateLost(p, o, k) ==
  /\ Ready(p) /\ Start(o, k)
  /\ Cardinality(lost) < MaxLost /\ lost' = lost \cup {p}
  /\ PushLost(o)
  /\ holds' = holds \cup {<<p, o>>}
  /\ waits' = [waits EXCEPT ![p] = o]
  /\ UNCHANGED <<msg, reply, dtor, by, iters, box, alive, leaked>>

CallLost(p, o, f) ==
  /\ Ready(p) /\ <<p, o>> \in holds /\ f \in Asked(p, kind[o])
  /\ Cardinality(lost) < MaxLost /\ lost' = lost \cup {p}
  /\ PushLost(o)
  /\ waits' = [waits EXCEPT ![p] = o]
  /\ UNCHANGED <<kind, thread, dtor, by, holds, iters, box, alive, leaked>>

\* Mutant: the request is pushed only if the worker waits for one.
CallIdle(p, o, f) ==
  /\ Ready(p) /\ <<p, o>> \in holds /\ f \in Asked(p, kind[o])
  /\ IF worker[o] = "pop" THEN Push(o, [from |-> p, func |-> f, ref |-> None]) ELSE UNCHANGED msgs
  /\ waits' = [waits EXCEPT ![p] = o]
  /\ UNCHANGED <<kind, thread, dtor, by, holds, iters, box, alive, losses>>

\* discodb:call: ErlDDB_call pushes, wait receives.
Call(p, o, f) ==
  /\ Ready(p) /\ <<p, o>> \in holds /\ f \in Asked(p, kind[o])
  /\ Push(o, [from |-> p, func |-> f, ref |-> None])
  /\ waits' = [waits EXCEPT ![p] = o]
  /\ UNCHANGED <<kind, thread, dtor, by, holds, iters, box, alive, losses>>

\* Mutant: wait/1 has a timeout.
ReceiveTimeout(p) ==
  /\ ~Crashed /\ p \in alive /\ waits[p] # None /\ ~Destroying(p)
  /\ box' = [box EXCEPT ![p] = IF @ = <<>> THEN @ ELSE Tail(@)]
  /\ waits' = [waits EXCEPT ![p] = None]
  /\ UNCHANGED <<kind, msgs, thread, dtor, by, holds, iters, alive, losses>>

\* wait/1: any {discodb, Reply} is the answer.
Receive(p) ==
  /\ ~Crashed /\ p \in alive /\ waits[p] # None /\ box[p] # <<>> /\ ~Destroying(p)
  /\ LET r == Head(box[p])
     IN  /\ holds' = holds \cup ({<<p, r.obj>>} \cap (Procs \X Objects))
         /\ iters' = iters \cup ({<<p, r.iter>>} \cap (Procs \X Objects))
  /\ box' = [box EXCEPT ![p] = Tail(@)]
  /\ waits' = [waits EXCEPT ![p] = None]
  /\ UNCHANGED <<kind, msgs, thread, dtor, by, alive, losses>>

\* A reference is sent to another process.
Share(p, q, o) ==
  /\ Ready(p) /\ q \in alive /\ <<p, o>> \in holds
  /\ holds' = holds \cup {<<q, o>>}
  /\ UNCHANGED <<kind, msgs, thread, dtor, by, iters, waits, box, alive, losses>>

\* An iterator is sent, too: both processes may call ErlDDBIter_next on it.
ShareIter(p, q, o) ==
  /\ Ready(p) /\ q \in alive /\ <<p, o>> \in iters
  /\ iters' = iters \cup {<<q, o>>}
  /\ UNCHANGED <<kind, msgs, thread, dtor, by, holds, waits, box, alive, losses>>

\* A reference, or an iterator (ErlDDBIter_free), is garbage collected.
DropRef(p, o) ==
  /\ Ready(p) /\ <<p, o>> \in holds
  /\ holds' = holds \ {<<p, o>>}
  /\ UNCHANGED <<kind, msgs, thread, iters, waits, box, alive, losses>>
  /\ Release(p, dtor)

DropIter(p, o) ==
  /\ Ready(p) /\ <<p, o>> \in iters
  /\ iters' = iters \ {<<p, o>>}
  /\ UNCHANGED <<kind, msgs, thread, holds, waits, box, alive, losses>>
  /\ Release(p, dtor)

\* A process is killed, perhaps while it waits: its requests stay in the queue.
Kill(p) ==
  /\ ~Crashed /\ p \in Mortal \cap alive /\ ~Destroying(p)
  /\ alive' = alive \ {p}
  /\ holds' = {h \in holds : h[1] # p}
  /\ iters' = {h \in iters : h[1] # p}
  /\ box' = [box EXCEPT ![p] = <<>>]
  /\ waits' = [waits EXCEPT ![p] = None]
  /\ UNCHANGED <<kind, msgs, thread, losses>>
  /\ Release(p, dtor)
-----------------------------------------------------------------------------
(***************************************************************************)
(* ErlDDB_run.                                                             *)
(***************************************************************************)
Works(o) == ~Crashed /\ ~Destroying(o) /\ dtor[o] # "freed"

WorkerPop(o) ==
  /\ worker[o] = "pop" /\ Works(o) /\ msgs[o] # <<>> /\ Head(msgs[o]).func # "null"
  /\ msgs' = [msgs EXCEPT ![o] = Tail(@)]
  /\ IF Head(msgs[o]).func = "stop"
     THEN worker' = [worker EXCEPT ![o] = "exit"] /\ UNCHANGED msg
     ELSE worker' = [worker EXCEPT ![o] = "run"] /\ msg' = [msg EXCEPT ![o] = Head(msgs[o])]
  /\ UNCHANGED <<kind, reply, dtor, by, process, losses>>

\* The worker reads the function of a message that is not there.
PopCrashes(o) ==
  /\ worker[o] = "pop" /\ Works(o) /\ msgs[o] # <<>> /\ Head(msgs[o]).func = "null"
  /\ worker' = [worker EXCEPT ![o] = "crashed"]
  /\ UNCHANGED <<kind, msgs, msg, reply, dtor, by, process, losses>>

Answer(o, r) == /\ reply' = [reply EXCEPT ![o] = r]
                /\ worker' = [worker EXCEPT ![o] = "send"]

\* A request whose answer is data, ok or an error.
RunPlain(o) ==
  /\ worker[o] = "run" /\ Works(o)
  /\ Answer(o, [ddb |-> o, obj |-> None, iter |-> None])
  /\ UNCHANGED <<kind, msgs, msg, dtor, by, process, losses>>

\* ErlDDBIter_new: the iterator keeps its owner.
RunGet(o) ==
  /\ worker[o] = "run" /\ Works(o) /\ msg[o].func = "get"
  /\ Answer(o, [ddb |-> o, obj |-> None, iter |-> o])
  /\ UNCHANGED <<kind, msgs, msg, dtor, by, process, losses>>

\* ErlDiscoDBCons_finalize_async: the new object has a worker of its own.  When
\* a step behind ErlDDB_start fails nobody refers to it, but it is not released.
RunFinalize(o, new) ==
  /\ worker[o] = "run" /\ Works(o) /\ msg[o].func = "finalize" /\ kind[new] = "none"
  /\ kind' = [kind EXCEPT ![new] = "db"]
  /\ reply' = [reply EXCEPT ![o] = [ddb |-> o, obj |-> new, iter |-> None]]
  /\ worker' = [worker EXCEPT ![o] = "send", ![new] = "pop"]
  /\ UNCHANGED <<msgs, msg, dtor, by, process, losses>>

FinalizeFails(o, new) ==
  /\ worker[o] = "run" /\ Works(o) /\ msg[o].func = "finalize" /\ kind[new] = "none"
  /\ kind' = [kind EXCEPT ![new] = "db"]
  /\ leaked' = leaked \cup {new}
  /\ reply' = [reply EXCEPT ![o] = [ddb |-> o, obj |-> None, iter |-> None]]
  /\ worker' = [worker EXCEPT ![o] = "send", ![new] = "pop"]
  /\ UNCHANGED <<msgs, msg, dtor, by, process, lost>>

\* enif_send: the terms of the message move to the receiver, if it is alive.
\* Message_free lets go of what is left.
WorkerSend(o) ==
  /\ worker[o] = "send" /\ Works(o)
  /\ LET p == msg[o].from
     IN  IF p \in alive
         THEN /\ box' = [box EXCEPT ![p] = Append(@, reply[o])]
              /\ holds' = holds \cup ({<<p, msg[o].ref>>} \cap (Procs \X Objects))
         ELSE UNCHANGED <<box, holds>>
  /\ msg' = [msg EXCEPT ![o] = NoMsg]
  /\ reply' = [reply EXCEPT ![o] = NoReply]
  /\ worker' = [worker EXCEPT ![o] = "pop"]
  /\ UNCHANGED <<kind, msgs, iters, waits, alive, losses>>
  /\ Release(o, dtor)
-----------------------------------------------------------------------------
(***************************************************************************)
(* ErlDDB_free, on the thread by[o]; a thread destroys one object at a time.*)
(***************************************************************************)
\* Mutant: no stop message for an object whose queue has requests.
PushStopIdle(o) ==
  /\ dtor[o] = "due"
  /\ \A x \in Objects : by[x] = by[o] => dtor[x] \notin {"join", "drain"}
  /\ IF msgs[o] = <<>> THEN Push(o, Stop) ELSE UNCHANGED msgs
  /\ dtor' = [dtor EXCEPT ![o] = "join"]
  /\ UNCHANGED <<kind, thread, by, process, losses>>

\* The stop message is lost, and the destructor joins all the same.
StopLost(o) ==
  /\ dtor[o] = "due"
  /\ \A x \in Objects : by[x] = by[o] => dtor[x] \notin {"join", "drain"}
  /\ Cardinality(lost) < MaxLost /\ lost' = lost \cup {o}
  /\ PushLost(o)
  /\ dtor' = [dtor EXCEPT ![o] = "join"]
  /\ UNCHANGED <<kind, thread, by, process, leaked>>

PushStop(o) ==
  /\ dtor[o] = "due"
  /\ \A x \in Objects : by[x] = by[o] => dtor[x] \notin {"join", "drain"}
  /\ Push(o, Stop)
  /\ dtor' = [dtor EXCEPT ![o] = "join"]
  /\ UNCHANGED <<kind, thread, by, process, losses>>

\* Mutant: the worker is not joined.
JoinAtOnce(o) ==
  /\ dtor[o] = "join"
  /\ dtor' = [dtor EXCEPT ![o] = "drain"]
  /\ UNCHANGED <<kind, msgs, thread, by, process, losses>>

Join(o) ==
  /\ dtor[o] = "join" /\ worker[o] = "exit"
  /\ dtor' = [dtor EXCEPT ![o] = "drain"]
  /\ UNCHANGED <<kind, msgs, thread, by, process, losses>>

\* The messages left are freed, then the queue, then the database.  (A NULL
\* among them would be followed; where QueueOutlivesWorker holds none is left.)
Free(o) ==
  /\ dtor[o] = "drain"
  /\ msgs' = [msgs EXCEPT ![o] = <<>>]
  /\ UNCHANGED <<kind, thread, process, losses>>
  /\ Release(by[o], [dtor EXCEPT ![o] = "freed"])

ProcStep(p) == \E o \in Objects :
  \/ \E k \in {"cons", "db"}, src \in Objects \cup {None} : Create(p, o, k, src)
  \/ \E k \in {"cons", "db"} : CreateRefused(p, o, k) \/ CreateLost(p, o, k)
  \/ \E f \in Asks[p] : Call(p, o, f) \/ CallLost(p, o, f)
  \/ \E q \in Procs : Share(p, q, o) \/ ShareIter(p, q, o)
  \/ DropRef(p, o) \/ DropIter(p, o)

WorkerStep(o) == \/ WorkerPop(o) \/ PopCrashes(o) \/ RunPlain(o) \/ RunGet(o)
                 \/ \E new \in Objects : RunFinalize(o, new) \/ FinalizeFails(o, new)
                 \/ WorkerSend(o)

DtorStep(o) == ~Crashed /\ (PushStop(o) \/ StopLost(o) \/ Join(o) \/ Free(o))

Next == \/ \E p \in Procs : ProcStep(p) \/ Receive(p) \/ Kill(p)
        \/ \E o \in Objects : WorkerStep(o) \/ DtorStep(o)

Spec == Init /\ [][Next]_vars

\* Threads run, and a process in a receive takes a message that is there.
FairSpec == /\ Spec
            /\ \A p \in Procs : WF_vars(Receive(p))
            /\ \A o \in Objects : WF_vars(WorkerStep(o)) /\ WF_vars(DtorStep(o))
-----------------------------------------------------------------------------
Reply == [ddb : Objects \cup {None}, obj : Objects \cup {None}, iter : Objects \cup {None}]
Message == [from : Procs \cup {None},
            func : {"none", "init", "add", "finalize", "dump", "get", "stop", "null"},
            ref : Objects \cup {None}]

TypeOK == /\ kind \in [Objects -> {"none", "cons", "db"}]
          /\ msgs \in [Objects -> Seq(Message)]
          /\ worker \in [Objects -> {"off", "pop", "run", "send", "exit", "crashed"}]
          /\ msg \in [Objects -> {m \in Message : m.func \notin {"stop", "null"}}]
          /\ reply \in [Objects -> Reply]
          /\ dtor \in [Objects -> {"none", "due", "join", "drain", "freed"}]
          /\ by \in [Objects -> Procs \cup Objects \cup {None}]
          /\ holds \in SUBSET (Procs \X Objects) /\ iters \in SUBSET (Procs \X Objects)
          /\ waits \in [Procs -> Objects \cup {None}]
          /\ box \in [Procs -> Seq(Reply)]
          /\ alive \in SUBSET Procs
          /\ leaked \in SUBSET Objects
          /\ lost \in SUBSET (Procs \cup Objects)

(***************************************************************************)
(* Answers carry no tag (src/erlang/src/discodb.erl:49), so a stray one    *)
(* would be taken for the answer to a later request: a process has at most *)
(* one answer, and it is from the object it waits for.                     *)
(***************************************************************************)
NoStrayAnswer == \A p \in Procs :
  /\ Len(box[p]) <= 1
  /\ box[p] # <<>> => waits[p] = box[p][1].ddb

(***************************************************************************)
(* While its destruction is under way nobody alive refers to an object: an *)
(* iterator never reads a database that is being freed.                    *)
(***************************************************************************)
NothingDangles == \A o \in Objects : dtor[o] # "none" =>
  \A p \in alive : <<p, o>> \notin holds \cup iters /\ waits[p] # o

(***************************************************************************)
(* No object is used by anyone once it is being destroyed, and requests,   *)
(* answers and threads stay in the places the code has for them.           *)
(***************************************************************************)
ObjectsSafe == TypeOK /\ NothingDangles

(***************************************************************************)
(* A queue is freed only when its worker has left it, so that nobody pops  *)
(* from a queue whose length is -1 (the assertion of queue_pop,            *)
(* src/erlang/c_src/queue.c:133), and no request is thrown away with it.   *)
(***************************************************************************)
QueueOutlivesWorker == \A o \in Objects :
  /\ dtor[o] = "freed" => worker[o] = "exit"
  /\ dtor[o] = "drain" => msgs[o] = <<>>

(***************************************************************************)
(* A process that waits gets its answer, unless it is killed.  A request   *)
(* that queue_push lost is its caller's loss only; a thread that waits for *)
(* a stop message that was lost may have others wait for it, and NULL in a *)
(* queue is followed by its worker, which ends everything.                 *)
(***************************************************************************)
Answered == \A p \in Procs :
  waits[p] # None ~> waits[p] = None \/ p \in lost \/ lost \cap Objects # {} \/ Crashed

(***************************************************************************)
(* Every destruction that begins ends: destructors and workers never wait  *)
(* for each other for ever, whatever requests queue_push loses.            *)
(***************************************************************************)
DestructionEnds == \A o \in Objects :
  dtor[o] = "due" ~> dtor[o] = "freed" \/ lost \cap Objects # {} \/ Crashed
-----------------------------------------------------------------------------
(***************************************************************************)
(* What makes the invariants inductive.                                    *)
(***************************************************************************)
\* An object that has not been made.
Fresh(o) == msgs[o] = <<>> /\ worker[o] = "off" /\ dtor[o] = "none"

\* A worker has a message while it runs it, and an answer while it sends it.
HandsFull(o) == /\ worker[o] \notin {"run", "send"} => msg[o] = NoMsg
                /\ worker[o] # "send" => reply[o] = NoReply
                /\ worker[o] = "send" => reply[o].ddb = o
                /\ reply[o].iter # None => reply[o].iter = o /\ msg[o].func = "get"

\* A process that waits has a reference to the object it asked, and one request
\* is with that object, or one answer is there.
AsksOnce(p) ==
  /\ waits[p] # None => <<p, waits[p]>> \in holds
  /\ Len(box[p]) <= 1 /\ (box[p] # <<>> => waits[p] # None /\ waits[p] = box[p][1].ddb)
  /\ \A x \in Objects :
       /\ msg[x].from = p => waits[p] = x /\ box[p] = <<>>
       /\ \A k \in DOMAIN msgs[x] : msgs[x][k].from = p =>
            /\ waits[p] = x /\ box[p] = <<>> /\ msg[x].from # p
            /\ \A j \in DOMAIN msgs[x] : msgs[x][j].from = p => j = k

\* Nobody refers to an object, but perhaps its own worker with the iterator of a
\* process that was killed.
Unused(o) ==
  /\ o \notin leaked
  /\ \A p \in Procs : /\ <<p, o>> \notin holds \cup iters
                      /\ \A k \in DOMAIN box[p] : o \notin Refs(box[p][k])
  /\ \A x \in Objects :
       /\ \A k \in DOMAIN msgs[x] : msgs[x][k].ref # o
       /\ msg[x].ref # o /\ reply[x].obj # o
       /\ reply[x].iter = o => msg[x].from \notin alive

Gone(o) == kind[o] = "none" \/ dtor[o] # "none"

NifInv == /\ TypeOK
          /\ \A o \in Objects : /\ kind[o] = "none" => Fresh(o)
                                /\ Gone(o) => Unused(o)
                                /\ HandsFull(o)
          /\ \A p \in alive : AsksOnce(p)
          /\ \A p \in Procs \ alive : box[p] = <<>> /\ \A o \in Objects : <<p, o>> \notin holds \cup iters

\* As long as no process that may be killed asks for iterators.
NoMortalGet == \A p \in Mortal : "get" \notin Asks[p]

\* A request for an iterator comes from a process that is alive.
Gets(m) == m.func = "get" => m.from \in Procs \ Mortal

StopIsLast(o) == /\ \A k \in DOMAIN msgs[o] : Gets(msgs[o][k]) /\ (msgs[o][k].func = "stop" => k = Len(msgs[o]) /\ dtor[o] = "join")
                 /\ Gets(msg[o])
                 /\ worker[o] = "exit" => msgs[o] = <<>> /\ dtor[o] \in {"join", "drain", "freed"}
                 /\ dtor[o] \in {"drain", "freed"} => worker[o] = "exit"

QueueInv == NifInv /\ Procs \ Mortal \subseteq alive /\ \A o \in Objects : StopIsLast(o)
=============================================================================
