---------------------------- MODULE ErlNifProofs ----------------------------
(***************************************************************************)
(* Proofs about the Erlang binding: whoever is killed and whichever        *)
(* message is lost, no object is destroyed while a process can call into   *)
(* it, and an answer always goes to the request it belongs to; a queue     *)
(* outlives its worker as long as no iterator brings an object back.       *)
(* NifInv and QueueInv, the inductive invariants, are in ErlNif.           *)
(***************************************************************************)
EXTENDS ErlNif, TLAPS

-----------------------------------------------------------------------------
(***************************************************************************)
(* Sequences and references.                                               *)
(***************************************************************************)
LEMMA AppendParts ==
  ASSUME NEW S, NEW s \in Seq(S), NEW m \in S, NEW e, e = Append(s, m)
  PROVE  /\ e \in Seq(S) /\ Len(s) \in Nat /\ Len(e) = Len(s) + 1 /\ e # <<>>
         /\ \A k \in DOMAIN s : k \in DOMAIN e /\ e[k] = s[k] /\ k # Len(e)
         /\ Len(e) \in DOMAIN e /\ e[Len(e)] = m
         /\ \A k \in DOMAIN e : k \in DOMAIN s \/ k = Len(e)
OBVIOUS

LEMMA TailParts ==
  ASSUME NEW S, NEW s \in Seq(S), s # <<>>, NEW e, e = Tail(s)
  PROVE  /\ e \in Seq(S) /\ Len(s) \in Nat /\ Len(e) \in Nat /\ Len(s) = Len(e) + 1
         /\ 1 \in DOMAIN s /\ Head(s) = s[1] /\ Head(s) \in S
         /\ \A k \in DOMAIN e : k + 1 \in DOMAIN s /\ e[k] = s[k + 1] /\ k + 1 # 1
         /\ \A k, j \in DOMAIN e : k + 1 = j + 1 => k = j
OBVIOUS

Messages == {m \in Message : m.func \notin {"stop", "null"}}
Stages == {"none", "due", "join", "drain", "freed"}

LEMMA Sorts ==
  /\ NoMsg \in Messages /\ NoReply \in Reply /\ Stop \in Message
  /\ \A p \in Procs : p # None
  /\ \A o \in Objects : o # None
  /\ NoMsg.from = None /\ NoMsg.ref = None /\ NoMsg.func = "none" /\ Stop.from = None /\ Stop.ref = None
  /\ Stop.func = "stop"
  /\ Null \in Message /\ Null.from = None /\ Null.ref = None /\ Null.func = "null"
  /\ NoReply.ddb = None /\ NoReply.obj = None /\ NoReply.iter = None
  /\ \A p \in Procs, o \in Objects \cup {None}, f \in {"init", "add", "finalize", "dump", "get"} :
       /\ [from |-> p, func |-> f, ref |-> o] \in Messages
       /\ [from |-> p, func |-> f, ref |-> o].from = p
       /\ [from |-> p, func |-> f, ref |-> o].ref = o
       /\ [from |-> p, func |-> f, ref |-> o].func = f
BY NifAssumption DEF NoMsg, NoReply, Stop, Null, Message, Messages, Reply

LEMMA NotNone == /\ \A p \in Procs : p # None
                 /\ \A o \in Objects : o # None
BY NifAssumption

LEMMA AskedSorts ==
  ASSUME NEW p \in Procs, NEW k, NEW f \in Asked(p, k)
  PROVE  f \in {"add", "finalize", "dump", "get"} /\ f \in Asks[p]
BY NifAssumption DEF Asked

\* What Release does, whoever lets go.
LEMMA Releases ==
  ASSUME NEW t \in Procs \cup Objects \cup {None}, NEW d \in [Objects -> Stages], Release(t, d),
         by \in [Objects -> Procs \cup Objects \cup {None}]
  PROVE  /\ dtor' \in [Objects -> Stages] /\ by' \in [Objects -> Procs \cup Objects \cup {None}]
         /\ \A o \in Objects : /\ dtor'[o] # "none" => d[o] # "none" \/ (Held(o) /\ ~Held(o)')
                               /\ d[o] # "none" /\ ~Held(o) => dtor'[o] = d[o]
                               /\ dtor'[o] = "due" => d[o] \in {"none", "due"}
                               /\ d[o] = "none" => dtor'[o] \in {"none", "due"}
<1> DEFINE dropped == {o \in Objects : Held(o) /\ ~Held(o)'}
<1>1. /\ dtor' = [o \in Objects |-> IF o \notin dropped THEN d[o]
                                    ELSE IF d[o] = "none" THEN "due" ELSE "freed"]
      /\ by' = [o \in Objects |-> IF o \in dropped /\ d[o] = "none" THEN t ELSE by[o]]
  BY DEF Release
<1>2. \A o \in Objects : o \in dropped <=> Held(o) /\ ~Held(o)'
  OBVIOUS
<1> HIDE DEF dropped
<1>3. dtor' \in [Objects -> Stages] /\ by' \in [Objects -> Procs \cup Objects \cup {None}]
  BY <1>1 DEF Stages
<1>4. \A o \in Objects : dtor'[o] = IF o \notin dropped THEN d[o] ELSE IF d[o] = "none" THEN "due" ELSE "freed"
  BY <1>1
<1> QED BY <1>2, <1>3, <1>4

\* An object that nobody refers to is not used.
LEMMA LetGo ==
  ASSUME NEW o \in Objects, ~Held(o)'
  PROVE  Unused(o)'
<1>1. o \notin leaked'
  BY DEF Held
<1>2. ASSUME NEW p \in Procs
      PROVE  <<p, o>> \notin holds' \cup iters' /\ \A k \in DOMAIN box'[p] : o \notin Refs(box'[p][k])
  BY DEF Held, Refs
<1>3. ASSUME NEW x \in Objects
      PROVE  /\ \A k \in DOMAIN msgs'[x] : msgs'[x][k].ref # o
             /\ msg'[x].ref # o /\ o \notin Refs(reply'[x])
  BY DEF Held, Refs
<1>4. \A x \in Objects : reply'[x].obj # o /\ reply'[x].iter # o
  BY <1>3 DEF Refs
<1> QED BY <1>1, <1>2, <1>3, <1>4, Zenon DEF Unused, Refs

\* The message Call and Create push, and what the queue is afterwards.
LEMMA Pushed ==
  ASSUME NEW o \in Objects, NEW m \in Message, msgs \in [Objects -> Seq(Message)], Push(o, m)
  PROVE  /\ msgs' \in [Objects -> Seq(Message)]
         /\ \A x \in Objects : x # o => msgs'[x] = msgs[x]
         /\ \A k \in DOMAIN msgs[o] : k \in DOMAIN msgs'[o] /\ msgs'[o][k] = msgs[o][k]
         /\ \A x \in Objects : \A j \in DOMAIN msgs'[x] :
              \/ j \in DOMAIN msgs[x] /\ msgs'[x][j] = msgs[x][j]
              \/ x = o /\ j = Len(msgs'[o]) /\ msgs'[x][j] = m
         /\ Len(msgs'[o]) \in DOMAIN msgs'[o] /\ Len(msgs'[o]) \notin DOMAIN msgs[o]
         /\ msgs'[o][Len(msgs'[o])] = m /\ msgs'[o] # <<>>
<1>1. msgs' = [msgs EXCEPT ![o] = Append(msgs[o], m)] /\ msgs[o] \in Seq(Message)
  BY DEF Push
<1>2. PICK e : e = Append(msgs[o], m)
  OBVIOUS
<1>3. msgs'[o] = e /\ msgs' = [msgs EXCEPT ![o] = e]
  BY <1>1, <1>2
<1>4. /\ e \in Seq(Message) /\ e # <<>>
      /\ \A k \in DOMAIN msgs[o] : k \in DOMAIN e /\ e[k] = msgs[o][k] /\ k # Len(e)
      /\ Len(e) \in DOMAIN e /\ e[Len(e)] = m
      /\ \A k \in DOMAIN e : k \in DOMAIN msgs[o] \/ k = Len(e)
  BY <1>1, <1>2, AppendParts
<1>5. Len(e) \notin DOMAIN msgs[o]
  BY <1>4
<1>6. \A x \in Objects : x # o => msgs'[x] = msgs[x]
  BY <1>3
<1>7. ASSUME NEW x \in Objects, NEW j \in DOMAIN msgs'[x]
      PROVE  \/ j \in DOMAIN msgs[x] /\ msgs'[x][j] = msgs[x][j]
             \/ x = o /\ j = Len(msgs'[o]) /\ msgs'[x][j] = m
  <2>1. CASE x # o
    BY <1>6, <1>7, <2>1
  <2>2. CASE x = o
    BY <1>3, <1>4, <1>7, <2>2
  <2> QED BY <2>1, <2>2
<1>8. /\ msgs' \in [Objects -> Seq(Message)]
      /\ \A k \in DOMAIN msgs[o] : k \in DOMAIN msgs'[o] /\ msgs'[o][k] = msgs[o][k]
      /\ Len(msgs'[o]) \in DOMAIN msgs'[o] /\ Len(msgs'[o]) \notin DOMAIN msgs[o]
      /\ msgs'[o][Len(msgs'[o])] = m /\ msgs'[o] # <<>>
  BY <1>3, <1>4, <1>5
<1> QED BY <1>6, <1>7, <1>8

\* A lost message leaves the queue as it is, or NULL behind it.
LEMMA LostPush ==
  ASSUME NEW o \in Objects, msgs \in [Objects -> Seq(Message)], PushLost(o)
  PROVE  /\ msgs' \in [Objects -> Seq(Message)]
         /\ \A x \in Objects : x # o => msgs'[x] = msgs[x]
         /\ \A x \in Objects : \A j \in DOMAIN msgs'[x] :
              \/ j \in DOMAIN msgs[x] /\ msgs'[x][j] = msgs[x][j]
              \/ msgs'[x][j].from = None /\ msgs'[x][j].ref = None
<1>1. CASE msgs' = msgs
  BY <1>1
<1>2. CASE Push(o, Null)
  <2>1. /\ msgs' \in [Objects -> Seq(Message)]
        /\ \A x \in Objects : x # o => msgs'[x] = msgs[x]
        /\ \A x \in Objects : \A j \in DOMAIN msgs'[x] :
             \/ j \in DOMAIN msgs[x] /\ msgs'[x][j] = msgs[x][j]
             \/ x = o /\ j = Len(msgs'[o]) /\ msgs'[x][j] = Null
    BY <1>2, Sorts, Pushed
  <2> QED BY <2>1, Sorts
<1> QED BY <1>1, <1>2 DEF PushLost

-----------------------------------------------------------------------------
(***************************************************************************)
(* One lemma per action: step says what it does, and each of the others    *)
(* keeps one part of the invariant.                                        *)
(***************************************************************************)
\* A process that holds an object, or waits for it, is enough to keep it.
LEMMA InUse ==
  ASSUME NifInv, NEW o \in Objects, NEW p \in alive, <<p, o>> \in holds \cup iters \/ waits[p] = o
  PROVE  ~Gone(o) /\ kind[o] # "none" /\ dtor[o] = "none"
<1>1. p \in Procs /\ o # None
  BY NotNone DEF NifInv, TypeOK
<1>2. <<p, o>> \in holds \cup iters
  BY <1>1 DEF NifInv, AsksOnce
<1> QED BY <1>1, <1>2 DEF NifInv, Gone, Unused

\* Nobody refers to an object that has not been made.
LEMMA NotMade ==
  ASSUME NifInv, NEW o \in Objects, kind[o] = "none"
  PROVE  ~Held(o)
<1>1. Unused(o) /\ worker[o] # "send" /\ \A x \in Objects : HandsFull(x)
  BY DEF NifInv, Gone, Fresh
<1>2. ASSUME NEW x \in Objects
      PROVE  reply[x].iter # o /\ reply[x].obj # o
  BY <1>1, NotNone, Sorts DEF HandsFull, Unused
<1>3. \A x \in Objects : o \notin Refs(reply[x])
  BY <1>2 DEF Refs
<1> QED BY <1>1, <1>3 DEF Held, Unused

\* A process that does not wait has no request anywhere and no answer.
LEMMA Idle ==
  ASSUME NifInv, NEW p \in alive, waits[p] = None
  PROVE  /\ box[p] = <<>>
         /\ \A x \in Objects : msg[x].from # p /\ \A k \in DOMAIN msgs[x] : msgs[x][k].from # p
<1>1. AsksOnce(p) /\ p \in Procs /\ box[p] \in Seq(Reply) /\ \A x \in Objects : x # None
  BY NotNone DEF NifInv, TypeOK
<1>2. ASSUME box[p] # <<>>
      PROVE  FALSE
  <2>1. waits[p] = box[p][1].ddb
    BY <1>1, <1>2 DEF AsksOnce
  <2> QED BY <1>1, <1>2, <2>1 DEF AsksOnce
<1>3. \A x \in Objects : msg[x].from # p /\ \A k \in DOMAIN msgs[x] : msgs[x][k].from # p
  BY <1>1 DEF AsksOnce
<1> QED BY <1>2, <1>3

LEMMA CallLostStep ==
  ASSUME NifInv, NEW p \in Procs, NEW o \in Objects, NEW f, CallLost(p, o, f)
  PROVE  NifInv'
<1>step. /\ p \in alive /\ waits[p] = None /\ <<p, o>> \in holds
         /\ lost' = lost \cup {p} /\ waits' = [waits EXCEPT ![p] = o]
         /\ PushLost(o) /\ UNCHANGED <<kind, worker, msg, reply, dtor, by, holds, iters, box, alive, leaked>>
  BY DEF CallLost, Ready, thread
<1>pre. TypeOK
  BY DEF NifInv
<1>q. /\ msgs' \in [Objects -> Seq(Message)]
      /\ \A x \in Objects : x # o => msgs'[x] = msgs[x]
      /\ \A x \in Objects : \A j \in DOMAIN msgs'[x] :
           \/ j \in DOMAIN msgs[x] /\ msgs'[x][j] = msgs[x][j]
           \/ msgs'[x][j].from = None /\ msgs'[x][j].ref = None
  BY <1>step, <1>pre, LostPush DEF TypeOK
<1>u. kind[o] # "none"
  BY <1>step, InUse
<1>type. TypeOK'
  BY <1>step, <1>q, <1>pre DEF TypeOK
<1>new. \A x \in Objects : kind'[x] = "none" => Fresh(x)'
  BY <1>step, <1>q, <1>u, <1>pre DEF NifInv, Fresh, TypeOK
<1>unused. ASSUME NEW x \in Objects, Gone(x)'
          PROVE  Unused(x)'
  <2>1. Unused(x)
    BY <1>step, <1>pre, <1>unused DEF NifInv, Gone, TypeOK
  <2>2. ASSUME NEW y \in Objects, NEW j \in DOMAIN msgs'[y]
        PROVE  msgs'[y][j].ref # x
    BY <1>q, <2>1, <2>2, NotNone DEF Unused
  <2>3. ASSUME NEW r \in Procs
        PROVE  <<r, x>> \notin holds' \cup iters' /\ \A j \in DOMAIN box'[r] : x \notin Refs(box'[r][j])
    BY <1>step, <1>pre, <2>1 DEF Unused, TypeOK
  <2>4. ASSUME NEW y \in Objects
        PROVE  msg'[y].ref # x /\ reply'[y].obj # x /\ (reply'[y].iter = x => msg'[y].from \notin alive')
    BY <1>step, <1>pre, <2>1 DEF Unused, TypeOK
  <2>5. x \notin leaked'
    BY <1>step, <2>1 DEF Unused
  <2> QED BY <2>2, <2>3, <2>4, <2>5 DEF Unused
<1>hands. ASSUME NEW x \in Objects
         PROVE  HandsFull(x)'
  BY <1>step, <1>pre DEF NifInv, HandsFull, TypeOK
<1>asks. ASSUME NEW q \in alive'
        PROVE  AsksOnce(q)'
  <2>1. q \in alive /\ q \in Procs /\ AsksOnce(q)
    BY <1>step, <1>pre DEF NifInv, TypeOK
  <2>2. \A x \in Objects : \A j \in DOMAIN msgs'[x] : msgs'[x][j].from = q => j \in DOMAIN msgs[x] /\ msgs[x][j].from = q
    BY <1>q, <2>1, NotNone
  <2>3. CASE q = p
    <3>1. /\ waits'[q] = o /\ <<q, o>> \in holds' /\ box'[q] = <<>>
          /\ \A x \in Objects : msg'[x].from # q /\ \A j \in DOMAIN msgs'[x] : msgs'[x][j].from # q
      BY <1>step, <1>pre, <2>1, <2>2, <2>3, Idle DEF TypeOK
    <3> QED BY <3>1 DEF AsksOnce
  <2>4. CASE q # p
    <3>1. waits'[q] = waits[q] /\ box'[q] = box[q] /\ msg' = msg /\ holds \subseteq holds'
      BY <1>step, <1>pre, <2>1, <2>4 DEF TypeOK
    <3> QED BY <2>1, <2>2, <3>1 DEF AsksOnce
  <2> QED BY <2>3, <2>4
<1>dead. \A q \in Procs \ alive' : box'[q] = <<>> /\ \A x \in Objects : <<q, x>> \notin holds' \cup iters'
  BY <1>step, <1>pre DEF NifInv
<1> QED BY <1>type, <1>new, <1>unused, <1>hands, <1>asks, <1>dead DEF NifInv

LEMMA CallStep ==
  ASSUME NifInv, NEW p \in Procs, NEW o \in Objects, NEW f, Call(p, o, f)
  PROVE  NifInv'
<1>step. /\ p \in alive /\ waits[p] = None /\ <<p, o>> \in holds /\ f \in Asked(p, kind[o])
         /\ Push(o, [from |-> p, func |-> f, ref |-> None]) /\ waits' = [waits EXCEPT ![p] = o]
         /\ UNCHANGED <<kind, worker, msg, reply, dtor, by, holds, iters, box, alive, leaked, lost>>
  BY DEF Call, Ready, thread, losses
<1>pre. TypeOK
  BY DEF NifInv
<1>m. PICK m : m = [from |-> p, func |-> f, ref |-> None]
  OBVIOUS
<1>f. f \in {"add", "finalize", "dump", "get"}
  BY <1>step, AskedSorts
<1>n. m \in Message /\ m.from = p /\ m.ref = None
  BY <1>m, <1>f, Sorts DEF Messages
<1>q. /\ msgs' \in [Objects -> Seq(Message)]
      /\ \A x \in Objects : x # o => msgs'[x] = msgs[x]
      /\ \A x \in Objects : \A j \in DOMAIN msgs'[x] :
           \/ j \in DOMAIN msgs[x] /\ msgs'[x][j] = msgs[x][j]
           \/ x = o /\ j = Len(msgs'[o]) /\ msgs'[x][j] = m
  BY <1>step, <1>pre, <1>m, <1>n, Pushed DEF TypeOK
<1>u. kind[o] # "none"
  BY <1>step, InUse
<1>type. TypeOK'
  BY <1>step, <1>q, <1>pre DEF TypeOK
<1>new. \A x \in Objects : kind'[x] = "none" => Fresh(x)'
  BY <1>step, <1>q, <1>u, <1>pre DEF NifInv, Fresh, TypeOK
<1>unused. ASSUME NEW x \in Objects, Gone(x)'
          PROVE  Unused(x)'
  <2>1. Unused(x)
    BY <1>step, <1>pre, <1>unused, <1>q, <1>n DEF NifInv, Gone, TypeOK
  <2>2. ASSUME NEW y \in Objects, NEW j \in DOMAIN msgs'[y]
        PROVE  msgs'[y][j].ref # x
    BY <1>q, <1>n, <2>1, <2>2, NotNone DEF Unused
  <2>3. ASSUME NEW r \in Procs
        PROVE  <<r, x>> \notin holds' \cup iters' /\ \A j \in DOMAIN box'[r] : x \notin Refs(box'[r][j])
    BY <1>step, <1>pre, <2>1, <1>q, <1>n DEF Unused, TypeOK
  <2>4. ASSUME NEW y \in Objects
        PROVE  msg'[y].ref # x /\ reply'[y].obj # x /\ (reply'[y].iter = x => msg'[y].from \notin alive')
    BY <1>step, <1>pre, <2>1, <1>q, <1>n DEF Unused, TypeOK
  <2>5. x \notin leaked'
    BY <1>step, <2>1, <1>q, <1>n DEF Unused
  <2> QED BY <2>2, <2>3, <2>4, <2>5 DEF Unused
<1>hands. ASSUME NEW x \in Objects
         PROVE  HandsFull(x)'
  BY <1>step, <1>pre DEF NifInv, HandsFull, TypeOK
<1>asks. ASSUME NEW q \in alive'
        PROVE  AsksOnce(q)'
  <2>1. q \in alive /\ q \in Procs /\ AsksOnce(q)
    BY <1>step, <1>pre DEF NifInv, TypeOK
  <2>2. waits'[q] # None => <<q, waits'[q]>> \in holds'
    BY <1>step, <1>pre, <2>1, <1>q, <1>n, Idle DEF AsksOnce, TypeOK
  <2>3. Len(box'[q]) <= 1 /\ (box'[q] # <<>> => waits'[q] # None /\ waits'[q] = box'[q][1].ddb)
    BY <1>step, <1>pre, <2>1, <1>q, <1>n, Idle DEF AsksOnce, TypeOK
  <2>4. ASSUME NEW x \in Objects, msg'[x].from = q
        PROVE  waits'[q] = x /\ box'[q] = <<>>
    BY <1>step, <1>pre, <2>1, <2>4, <1>q, <1>n, Idle DEF AsksOnce, TypeOK
  <2>5. ASSUME NEW x \in Objects, NEW i \in DOMAIN msgs'[x], msgs'[x][i].from = q
        PROVE  /\ waits'[q] = x /\ box'[q] = <<>> /\ msg'[x].from # q
               /\ \A j \in DOMAIN msgs'[x] : msgs'[x][j].from = q => j = i
    <3>1. CASE q = p
      <4>1. x = o /\ i = Len(msgs'[o]) /\ \A j \in DOMAIN msgs'[x] : msgs'[x][j].from = q => j = Len(msgs'[o])
        BY <1>step, <1>q, <2>5, <3>1, Idle
      <4> QED BY <1>step, <1>pre, <3>1, <4>1, Idle DEF TypeOK
    <3>2. CASE q # p
      <4>1. \A j \in DOMAIN msgs'[x] : msgs'[x][j].from = q => j \in DOMAIN msgs[x] /\ msgs[x][j].from = q
        BY <1>q, <1>n, <3>2
      <4>2. waits'[q] = waits[q] /\ box'[q] = box[q] /\ msg'[x] = msg[x]
        BY <1>step, <1>pre, <2>1, <3>2 DEF TypeOK
      <4> QED BY <2>1, <2>5, <4>1, <4>2 DEF AsksOnce
    <3> QED BY <3>1, <3>2
  <2> QED BY <2>2, <2>3, <2>4, <2>5 DEF AsksOnce
<1>dead. \A q \in Procs \ alive' : box'[q] = <<>> /\ \A x \in Objects : <<q, x>> \notin holds' \cup iters'
  BY <1>step, <1>pre DEF NifInv
<1> QED BY <1>type, <1>new, <1>unused, <1>hands, <1>asks, <1>dead DEF NifInv

LEMMA CreateLostStep ==
  ASSUME NifInv, NEW p \in Procs, NEW o \in Objects, NEW k \in {"cons", "db"}, CreateLost(p, o, k)
  PROVE  NifInv'
<1>step. /\ p \in alive /\ waits[p] = None /\ kind[o] = "none"
         /\ kind' = [kind EXCEPT ![o] = k] /\ worker' = [worker EXCEPT ![o] = "pop"]
         /\ lost' = lost \cup {p} /\ holds' = holds \cup {<<p, o>>} /\ waits' = [waits EXCEPT ![p] = o]
         /\ PushLost(o) /\ UNCHANGED <<msg, reply, dtor, by, iters, box, alive, leaked>>
  BY DEF CreateLost, Ready, Start
<1>pre. TypeOK
  BY DEF NifInv
<1>q. /\ msgs' \in [Objects -> Seq(Message)]
      /\ \A x \in Objects : x # o => msgs'[x] = msgs[x]
      /\ \A x \in Objects : \A j \in DOMAIN msgs'[x] :
           \/ j \in DOMAIN msgs[x] /\ msgs'[x][j] = msgs[x][j]
           \/ msgs'[x][j].from = None /\ msgs'[x][j].ref = None
  BY <1>step, <1>pre, LostPush DEF TypeOK
<1>u. dtor[o] = "none" /\ worker[o] = "off"
  BY <1>step DEF NifInv, Fresh
<1>type. TypeOK'
  BY <1>step, <1>q, <1>pre DEF TypeOK
<1>new. \A x \in Objects : kind'[x] = "none" => Fresh(x)'
  BY <1>step, <1>q, <1>pre DEF NifInv, Fresh, TypeOK
<1>unused. ASSUME NEW x \in Objects, Gone(x)'
          PROVE  Unused(x)'
  <2>1. Unused(x) /\ x # o
    BY <1>step, <1>pre, <1>unused, <1>u DEF NifInv, Gone, TypeOK
  <2>2. ASSUME NEW y \in Objects, NEW j \in DOMAIN msgs'[y]
        PROVE  msgs'[y][j].ref # x
    BY <1>q, <2>1, <2>2, NotNone DEF Unused
  <2>3. ASSUME NEW r \in Procs
        PROVE  <<r, x>> \notin holds' \cup iters' /\ \A j \in DOMAIN box'[r] : x \notin Refs(box'[r][j])
    BY <1>step, <1>pre, <2>1 DEF Unused, TypeOK
  <2>4. ASSUME NEW y \in Objects
        PROVE  msg'[y].ref # x /\ reply'[y].obj # x /\ (reply'[y].iter = x => msg'[y].from \notin alive')
    BY <1>step, <1>pre, <2>1 DEF Unused, TypeOK
  <2>5. x \notin leaked'
    BY <1>step, <2>1 DEF Unused
  <2> QED BY <2>2, <2>3, <2>4, <2>5 DEF Unused
<1>hands. ASSUME NEW x \in Objects
         PROVE  HandsFull(x)'
  BY <1>step, <1>u, <1>pre DEF NifInv, HandsFull, TypeOK
<1>asks. ASSUME NEW q \in alive'
        PROVE  AsksOnce(q)'
  <2>1. q \in alive /\ q \in Procs /\ AsksOnce(q)
    BY <1>step, <1>pre DEF NifInv, TypeOK
  <2>2. \A x \in Objects : \A j \in DOMAIN msgs'[x] : msgs'[x][j].from = q => j \in DOMAIN msgs[x] /\ msgs[x][j].from = q
    BY <1>q, <2>1, NotNone
  <2>3. CASE q = p
    <3>1. /\ waits'[q] = o /\ <<q, o>> \in holds' /\ box'[q] = <<>>
          /\ \A x \in Objects : msg'[x].from # q /\ \A j \in DOMAIN msgs'[x] : msgs'[x][j].from # q
      BY <1>step, <1>pre, <2>1, <2>2, <2>3, Idle DEF TypeOK
    <3> QED BY <3>1 DEF AsksOnce
  <2>4. CASE q # p
    <3>1. waits'[q] = waits[q] /\ box'[q] = box[q] /\ msg' = msg /\ holds \subseteq holds'
      BY <1>step, <1>pre, <2>1, <2>4 DEF TypeOK
    <3> QED BY <2>1, <2>2, <3>1 DEF AsksOnce
  <2> QED BY <2>3, <2>4
<1>dead. \A q \in Procs \ alive' : box'[q] = <<>> /\ \A x \in Objects : <<q, x>> \notin holds' \cup iters'
  BY <1>step, <1>pre DEF NifInv
<1> QED BY <1>type, <1>new, <1>unused, <1>hands, <1>asks, <1>dead DEF NifInv

LEMMA CreateRefusedStep ==
  ASSUME NifInv, NEW p \in Procs, NEW o \in Objects, NEW k \in {"cons", "db"}, CreateRefused(p, o, k)
  PROVE  NifInv'
<1>step. /\ kind[o] = "none" /\ kind' = [kind EXCEPT ![o] = k] /\ worker' = [worker EXCEPT ![o] = "pop"]
         /\ dtor' = [dtor EXCEPT ![o] = "due"] /\ by' = [by EXCEPT ![o] = p]
         /\ UNCHANGED <<msgs, msg, reply, holds, iters, waits, box, alive, leaked, lost>>
  BY DEF CreateRefused, Start, process, losses
<1>pre. TypeOK
  BY DEF NifInv
<1>u. worker[o] = "off"
  BY <1>step DEF NifInv, Fresh
<1>type. TypeOK'
  BY <1>step, <1>pre DEF TypeOK
<1>new. \A x \in Objects : kind'[x] = "none" => Fresh(x)'
  BY <1>step, <1>pre DEF NifInv, Fresh, TypeOK
<1>unused. ASSUME NEW x \in Objects, Gone(x)'
          PROVE  Unused(x)'
  BY <1>step, <1>pre, <1>unused DEF NifInv, Gone, Unused, TypeOK
<1>hands. ASSUME NEW x \in Objects
         PROVE  HandsFull(x)'
  BY <1>step, <1>u, <1>pre DEF NifInv, HandsFull, TypeOK
<1>asks. ASSUME NEW q \in alive'
        PROVE  AsksOnce(q)'
  BY <1>step, <1>pre DEF NifInv, AsksOnce, TypeOK
<1>dead. \A q \in Procs \ alive' : box'[q] = <<>> /\ \A x \in Objects : <<q, x>> \notin holds' \cup iters'
  BY <1>step, <1>pre DEF NifInv
<1> QED BY <1>type, <1>new, <1>unused, <1>hands, <1>asks, <1>dead DEF NifInv

LEMMA CreateStep ==
  ASSUME NifInv, NEW p \in Procs, NEW o \in Objects, NEW k \in {"cons", "db"}, NEW src \in Objects \cup {None}, Create(p, o, k, src)
  PROVE  NifInv'
<1>step. /\ p \in alive /\ waits[p] = None /\ kind[o] = "none" /\ (src # None => <<p, src>> \in holds)
         /\ kind' = [kind EXCEPT ![o] = k] /\ worker' = [worker EXCEPT ![o] = "pop"]
         /\ Push(o, [from |-> p, func |-> "init", ref |-> src])
         /\ holds' = holds \cup {<<p, o>>} /\ waits' = [waits EXCEPT ![p] = o]
         /\ UNCHANGED <<msg, reply, dtor, by, iters, box, alive, leaked, lost>>
  BY DEF Create, Ready, Start, losses
<1>pre. TypeOK
  BY DEF NifInv
<1>m. PICK m : m = [from |-> p, func |-> "init", ref |-> src]
  OBVIOUS
<1>n. m \in Message /\ m.from = p /\ m.ref = src
  BY <1>m, Sorts DEF Messages
<1>q. /\ msgs' \in [Objects -> Seq(Message)]
      /\ \A x \in Objects : x # o => msgs'[x] = msgs[x]
      /\ \A x \in Objects : \A j \in DOMAIN msgs'[x] :
           \/ j \in DOMAIN msgs[x] /\ msgs'[x][j] = msgs[x][j]
           \/ x = o /\ j = Len(msgs'[o]) /\ msgs'[x][j] = m
  BY <1>step, <1>pre, <1>m, <1>n, Pushed DEF TypeOK
<1>u. dtor[o] = "none" /\ worker[o] = "off" /\ (src # None => ~Gone(src))
  BY <1>step, InUse DEF NifInv, Fresh
<1>g. ASSUME NEW x \in Objects, Gone(x)'
      PROVE  Gone(x) /\ x # o /\ x # src
  <2>1. kind'[o] = k /\ dtor'[o] = "none" /\ \A y \in Objects : y # o => kind'[y] = kind[y] /\ dtor'[y] = dtor[y]
    BY <1>step, <1>pre, <1>u DEF TypeOK
  <2>2. x # o /\ Gone(x) /\ x # None
    BY <1>g, <2>1, NotNone DEF Gone
  <2> QED BY <2>2, <1>u
<1>type. TypeOK'
  BY <1>step, <1>q, <1>pre DEF TypeOK
<1>new. \A x \in Objects : kind'[x] = "none" => Fresh(x)'
  BY <1>step, <1>q, <1>pre DEF NifInv, Fresh, TypeOK
<1>unused. ASSUME NEW x \in Objects, Gone(x)'
          PROVE  Unused(x)'
  <2>1. Unused(x) /\ x # o /\ x # src
    BY <1>step, <1>pre, <1>unused, <1>g DEF NifInv, Gone, TypeOK
  <2>2. ASSUME NEW y \in Objects, NEW j \in DOMAIN msgs'[y]
        PROVE  msgs'[y][j].ref # x
    BY <1>q, <1>n, <2>1, <2>2 DEF Unused
  <2>3. ASSUME NEW r \in Procs
        PROVE  <<r, x>> \notin holds' \cup iters' /\ \A j \in DOMAIN box'[r] : x \notin Refs(box'[r][j])
    BY <1>step, <1>pre, <2>1 DEF Unused, TypeOK
  <2>4. ASSUME NEW y \in Objects
        PROVE  msg'[y].ref # x /\ reply'[y].obj # x /\ (reply'[y].iter = x => msg'[y].from \notin alive')
    BY <1>step, <1>pre, <2>1 DEF Unused, TypeOK
  <2>5. x \notin leaked'
    BY <1>step, <2>1 DEF Unused
  <2> QED BY <2>2, <2>3, <2>4, <2>5 DEF Unused
<1>hands. ASSUME NEW x \in Objects
         PROVE  HandsFull(x)'
  BY <1>step, <1>u, <1>pre DEF NifInv, HandsFull, TypeOK
<1>asks. ASSUME NEW q \in alive'
        PROVE  AsksOnce(q)'
  <2>1. q \in alive /\ q \in Procs /\ AsksOnce(q)
    BY <1>step, <1>pre DEF NifInv, TypeOK
  <2>2. waits'[q] # None => <<q, waits'[q]>> \in holds'
    BY <1>step, <1>pre, <2>1, <1>q, <1>n, Idle DEF AsksOnce, TypeOK
  <2>3. Len(box'[q]) <= 1 /\ (box'[q] # <<>> => waits'[q] # None /\ waits'[q] = box'[q][1].ddb)
    BY <1>step, <1>pre, <2>1, <1>q, <1>n, Idle DEF AsksOnce, TypeOK
  <2>4. ASSUME NEW x \in Objects, msg'[x].from = q
        PROVE  waits'[q] = x /\ box'[q] = <<>>
    BY <1>step, <1>pre, <2>1, <2>4, <1>q, <1>n, Idle DEF AsksOnce, TypeOK
  <2>5. ASSUME NEW x \in Objects, NEW i \in DOMAIN msgs'[x], msgs'[x][i].from = q
        PROVE  /\ waits'[q] = x /\ box'[q] = <<>> /\ msg'[x].from # q
               /\ \A j \in DOMAIN msgs'[x] : msgs'[x][j].from = q => j = i
    <3>1. CASE q = p
      <4>1. x = o /\ i = Len(msgs'[o]) /\ \A j \in DOMAIN msgs'[x] : msgs'[x][j].from = q => j = Len(msgs'[o])
        BY <1>step, <1>q, <2>5, <3>1, Idle
      <4> QED BY <1>step, <1>pre, <3>1, <4>1, Idle DEF TypeOK
    <3>2. CASE q # p
      <4>1. \A j \in DOMAIN msgs'[x] : msgs'[x][j].from = q => j \in DOMAIN msgs[x] /\ msgs[x][j].from = q
        BY <1>q, <1>n, <3>2
      <4>2. waits'[q] = waits[q] /\ box'[q] = box[q] /\ msg'[x] = msg[x]
        BY <1>step, <1>pre, <2>1, <3>2 DEF TypeOK
      <4> QED BY <2>1, <2>5, <4>1, <4>2 DEF AsksOnce
    <3> QED BY <3>1, <3>2
  <2> QED BY <2>2, <2>3, <2>4, <2>5 DEF AsksOnce
<1>dead. \A q \in Procs \ alive' : box'[q] = <<>> /\ \A x \in Objects : <<q, x>> \notin holds' \cup iters'
  BY <1>step, <1>pre DEF NifInv
<1> QED BY <1>type, <1>new, <1>unused, <1>hands, <1>asks, <1>dead DEF NifInv

LEMMA ReceiveStep ==
  ASSUME NifInv, NEW p \in Procs, Receive(p)
  PROVE  NifInv'
<1>step. /\ p \in alive /\ waits[p] # None /\ box[p] # <<>>
         /\ holds' = holds \cup ({<<p, Head(box[p]).obj>>} \cap (Procs \X Objects))
         /\ iters' = iters \cup ({<<p, Head(box[p]).iter>>} \cap (Procs \X Objects))
         /\ box' = [box EXCEPT ![p] = Tail(box[p])] /\ waits' = [waits EXCEPT ![p] = None]
         /\ UNCHANGED <<kind, msgs, worker, msg, reply, dtor, by, alive, leaked, lost>>
  BY DEF Receive, thread, losses
<1>pre. TypeOK
  BY DEF NifInv
<1>b. AsksOnce(p) /\ box[p] \in Seq(Reply)
  BY <1>step, <1>pre DEF NifInv, TypeOK
<1>e. PICK e : e = Tail(box[p])
  OBVIOUS
<1>l. /\ e \in Seq(Reply) /\ Len(box[p]) \in Nat /\ Len(e) \in Nat /\ Len(box[p]) = Len(e) + 1
      /\ 1 \in DOMAIN box[p] /\ Head(box[p]) = box[p][1]
  BY <1>step, <1>b, <1>e, TailParts
<1>t. e \in Seq(Reply) /\ Len(e) = 0 /\ 1 \in DOMAIN box[p] /\ Head(box[p]) = box[p][1]
  BY <1>b, <1>l DEF AsksOnce
<1>z. e = <<>>
  BY <1>t
<1>o. box' = [box EXCEPT ![p] = <<>>]
  BY <1>step, <1>e, <1>z
<1>i. \A x \in Objects : msg[x].from # p /\ \A k \in DOMAIN msgs[x] : msgs[x][k].from # p
  BY <1>step, <1>b DEF AsksOnce
<1>type. TypeOK'
  BY <1>step, <1>o, <1>t, <1>pre DEF TypeOK
<1>new. \A x \in Objects : kind'[x] = "none" => Fresh(x)'
  BY <1>step, <1>pre DEF NifInv, Fresh, TypeOK
<1>unused. ASSUME NEW x \in Objects, Gone(x)'
          PROVE  Unused(x)'
  <2>1. Unused(x)
    BY <1>step, <1>pre, <1>unused DEF NifInv, Gone, TypeOK
  <2>2. ASSUME NEW y \in Objects, NEW j \in DOMAIN msgs'[y]
        PROVE  msgs'[y][j].ref # x
    BY <1>step, <1>pre, <2>1 DEF Unused, TypeOK
  <2>3. ASSUME NEW r \in Procs
        PROVE  <<r, x>> \notin holds' \cup iters' /\ \A j \in DOMAIN box'[r] : x \notin Refs(box'[r][j])
    BY <1>step, <1>pre, <1>o, <1>t, <2>1 DEF Unused, Refs, TypeOK
  <2>4. ASSUME NEW y \in Objects
        PROVE  msg'[y].ref # x /\ reply'[y].obj # x /\ (reply'[y].iter = x => msg'[y].from \notin alive')
    BY <1>step, <1>pre, <2>1 DEF Unused, TypeOK
  <2>5. x \notin leaked'
    BY <1>step, <2>1 DEF Unused
  <2> QED BY <2>2, <2>3, <2>4, <2>5 DEF Unused
<1>hands. ASSUME NEW x \in Objects
         PROVE  HandsFull(x)'
  BY <1>step, <1>pre DEF NifInv, HandsFull, TypeOK
<1>asks. ASSUME NEW q \in alive'
        PROVE  AsksOnce(q)'
  <2>1. q \in alive /\ q \in Procs /\ AsksOnce(q)
    BY <1>step, <1>pre DEF NifInv, TypeOK
  <2>2. waits'[q] # None => <<q, waits'[q]>> \in holds'
    BY <1>step, <1>pre, <2>1, <1>o, <1>i DEF AsksOnce, TypeOK
  <2>3. Len(box'[q]) <= 1 /\ (box'[q] # <<>> => waits'[q] # None /\ waits'[q] = box'[q][1].ddb)
    BY <1>step, <1>pre, <2>1, <1>o, <1>i DEF AsksOnce, TypeOK
  <2>4. ASSUME NEW x \in Objects, msg'[x].from = q
        PROVE  waits'[q] = x /\ box'[q] = <<>>
    BY <1>step, <1>pre, <2>1, <2>4, <1>o, <1>i DEF AsksOnce, TypeOK
  <2>5. ASSUME NEW x \in Objects, NEW i \in DOMAIN msgs'[x], msgs'[x][i].from = q
        PROVE  /\ waits'[q] = x /\ box'[q] = <<>> /\ msg'[x].from # q
               /\ \A j \in DOMAIN msgs'[x] : msgs'[x][j].from = q => j = i
    BY <1>step, <1>pre, <2>1, <2>5, <1>o, <1>i DEF AsksOnce, TypeOK
  <2> QED BY <2>2, <2>3, <2>4, <2>5 DEF AsksOnce
<1>dead. \A q \in Procs \ alive' : box'[q] = <<>> /\ \A x \in Objects : <<q, x>> \notin holds' \cup iters'
  BY <1>step, <1>o, <1>pre DEF NifInv
<1> QED BY <1>type, <1>new, <1>unused, <1>hands, <1>asks, <1>dead DEF NifInv

LEMMA ShareStep ==
  ASSUME NifInv, NEW p \in Procs, NEW o \in Objects, NEW q1 \in Procs, Share(p, q1, o)
  PROVE  NifInv'
<1>step. /\ p \in alive /\ q1 \in alive /\ <<p, o>> \in holds /\ holds' = holds \cup {<<q1, o>>}
         /\ UNCHANGED <<kind, msgs, worker, msg, reply, dtor, by, iters, waits, box, alive, leaked, lost>>
  BY DEF Share, Ready, thread, losses
<1>pre. TypeOK
  BY DEF NifInv
<1>u. ~Gone(o)
  BY <1>step, InUse
<1>type. TypeOK'
  BY <1>step, <1>pre DEF TypeOK
<1>new. \A x \in Objects : kind'[x] = "none" => Fresh(x)'
  BY <1>step, <1>pre DEF NifInv, Fresh, TypeOK
<1>unused. ASSUME NEW x \in Objects, Gone(x)'
          PROVE  Unused(x)'
  BY <1>step, <1>u, <1>pre, <1>unused DEF NifInv, Gone, Unused, TypeOK
<1>hands. ASSUME NEW x \in Objects
         PROVE  HandsFull(x)'
  BY <1>step, <1>pre DEF NifInv, HandsFull, TypeOK
<1>asks. ASSUME NEW q \in alive'
        PROVE  AsksOnce(q)'
  BY <1>step, <1>pre DEF NifInv, AsksOnce, TypeOK
<1>dead. \A q \in Procs \ alive' : box'[q] = <<>> /\ \A x \in Objects : <<q, x>> \notin holds' \cup iters'
  BY <1>step, <1>pre DEF NifInv
<1> QED BY <1>type, <1>new, <1>unused, <1>hands, <1>asks, <1>dead DEF NifInv

LEMMA ShareIterStep ==
  ASSUME NifInv, NEW p \in Procs, NEW o \in Objects, NEW q1 \in Procs, ShareIter(p, q1, o)
  PROVE  NifInv'
<1>step. /\ p \in alive /\ q1 \in alive /\ <<p, o>> \in iters /\ iters' = iters \cup {<<q1, o>>}
         /\ UNCHANGED <<kind, msgs, worker, msg, reply, dtor, by, holds, waits, box, alive, leaked, lost>>
  BY DEF ShareIter, Ready, thread, losses
<1>pre. TypeOK
  BY DEF NifInv
<1>u. ~Gone(o)
  BY <1>step, InUse
<1>type. TypeOK'
  BY <1>step, <1>pre DEF TypeOK
<1>new. \A x \in Objects : kind'[x] = "none" => Fresh(x)'
  BY <1>step, <1>pre DEF NifInv, Fresh, TypeOK
<1>unused. ASSUME NEW x \in Objects, Gone(x)'
          PROVE  Unused(x)'
  BY <1>step, <1>u, <1>pre, <1>unused DEF NifInv, Gone, Unused, TypeOK
<1>hands. ASSUME NEW x \in Objects
         PROVE  HandsFull(x)'
  BY <1>step, <1>pre DEF NifInv, HandsFull, TypeOK
<1>asks. ASSUME NEW q \in alive'
        PROVE  AsksOnce(q)'
  BY <1>step, <1>pre DEF NifInv, AsksOnce, TypeOK
<1>dead. \A q \in Procs \ alive' : box'[q] = <<>> /\ \A x \in Objects : <<q, x>> \notin holds' \cup iters'
  BY <1>step, <1>pre DEF NifInv
<1> QED BY <1>type, <1>new, <1>unused, <1>hands, <1>asks, <1>dead DEF NifInv

LEMMA DropRefStep ==
  ASSUME NifInv, NEW p \in Procs, NEW o \in Objects, DropRef(p, o)
  PROVE  NifInv'
<1>step. /\ p \in alive /\ waits[p] = None /\ holds' = holds \ {<<p, o>>} /\ Release(p, dtor)
         /\ UNCHANGED <<kind, msgs, worker, msg, reply, iters, waits, box, alive, leaked, lost>>
  BY DEF DropRef, Ready, thread, losses
<1>pre. TypeOK
  BY DEF NifInv
<1>r. /\ dtor' \in [Objects -> Stages] /\ by' \in [Objects -> Procs \cup Objects \cup {None}]
      /\ \A x \in Objects : dtor'[x] # "none" => dtor[x] # "none" \/ (Held(x) /\ ~Held(x)')
  BY <1>step, <1>pre, Releases DEF TypeOK, Stages
<1>k. \A x \in Objects : kind[x] = "none" => ~Held(x)
  BY NotMade
<1>type. TypeOK'
  BY <1>step, <1>r, <1>pre DEF TypeOK, Stages
<1>new. \A x \in Objects : kind'[x] = "none" => Fresh(x)'
  BY <1>step, <1>r, <1>k, <1>pre DEF NifInv, Fresh, TypeOK
<1>unused. ASSUME NEW x \in Objects, Gone(x)'
          PROVE  Unused(x)'
  <2>1. Unused(x) \/ ~Held(x)'
    BY <1>step, <1>pre, <1>unused, <1>r DEF NifInv, Gone
  <2>2. CASE Unused(x)
    BY <1>step, <1>pre, <2>2 DEF Unused, TypeOK
  <2> QED BY <2>1, <2>2, LetGo
<1>hands. ASSUME NEW x \in Objects
         PROVE  HandsFull(x)'
  BY <1>step, <1>pre DEF NifInv, HandsFull, TypeOK
<1>asks. ASSUME NEW q \in alive'
        PROVE  AsksOnce(q)'
  BY <1>step, <1>pre DEF NifInv, AsksOnce, TypeOK
<1>dead. \A q \in Procs \ alive' : box'[q] = <<>> /\ \A x \in Objects : <<q, x>> \notin holds' \cup iters'
  BY <1>step, <1>pre DEF NifInv, Stages
<1> QED BY <1>type, <1>new, <1>unused, <1>hands, <1>asks, <1>dead DEF NifInv

LEMMA DropIterStep ==
  ASSUME NifInv, NEW p \in Procs, NEW o \in Objects, DropIter(p, o)
  PROVE  NifInv'
<1>step. /\ p \in alive /\ waits[p] = None /\ iters' = iters \ {<<p, o>>} /\ Release(p, dtor)
         /\ UNCHANGED <<kind, msgs, worker, msg, reply, holds, waits, box, alive, leaked, lost>>
  BY DEF DropIter, Ready, thread, losses
<1>pre. TypeOK
  BY DEF NifInv
<1>r. /\ dtor' \in [Objects -> Stages] /\ by' \in [Objects -> Procs \cup Objects \cup {None}]
      /\ \A x \in Objects : dtor'[x] # "none" => dtor[x] # "none" \/ (Held(x) /\ ~Held(x)')
  BY <1>step, <1>pre, Releases DEF TypeOK, Stages
<1>k. \A x \in Objects : kind[x] = "none" => ~Held(x)
  BY NotMade
<1>type. TypeOK'
  BY <1>step, <1>r, <1>pre DEF TypeOK, Stages
<1>new. \A x \in Objects : kind'[x] = "none" => Fresh(x)'
  BY <1>step, <1>r, <1>k, <1>pre DEF NifInv, Fresh, TypeOK
<1>unused. ASSUME NEW x \in Objects, Gone(x)'
          PROVE  Unused(x)'
  <2>1. Unused(x) \/ ~Held(x)'
    BY <1>step, <1>pre, <1>unused, <1>r DEF NifInv, Gone
  <2>2. CASE Unused(x)
    BY <1>step, <1>pre, <2>2 DEF Unused, TypeOK
  <2> QED BY <2>1, <2>2, LetGo
<1>hands. ASSUME NEW x \in Objects
         PROVE  HandsFull(x)'
  BY <1>step, <1>pre DEF NifInv, HandsFull, TypeOK
<1>asks. ASSUME NEW q \in alive'
        PROVE  AsksOnce(q)'
  BY <1>step, <1>pre DEF NifInv, AsksOnce, TypeOK
<1>dead. \A q \in Procs \ alive' : box'[q] = <<>> /\ \A x \in Objects : <<q, x>> \notin holds' \cup iters'
  BY <1>step, <1>pre DEF NifInv, Stages
<1> QED BY <1>type, <1>new, <1>unused, <1>hands, <1>asks, <1>dead DEF NifInv

LEMMA KillStep ==
  ASSUME NifInv, NEW p \in Procs, Kill(p)
  PROVE  NifInv'
<1>step. /\ p \in alive /\ alive' = alive \ {p}
         /\ holds' = {h \in holds : h[1] # p} /\ iters' = {h \in iters : h[1] # p}
         /\ box' = [box EXCEPT ![p] = <<>>] /\ waits' = [waits EXCEPT ![p] = None] /\ Release(p, dtor)
         /\ UNCHANGED <<kind, msgs, worker, msg, reply, leaked, lost>>
  BY DEF Kill, thread, losses
<1>pre. TypeOK
  BY DEF NifInv
<1>r. /\ dtor' \in [Objects -> Stages] /\ by' \in [Objects -> Procs \cup Objects \cup {None}]
      /\ \A x \in Objects : dtor'[x] # "none" => dtor[x] # "none" \/ (Held(x) /\ ~Held(x)')
  BY <1>step, <1>pre, Releases DEF TypeOK, Stages
<1>k. \A x \in Objects : kind[x] = "none" => ~Held(x)
  BY NotMade
<1>type. TypeOK'
  BY <1>step, <1>r, <1>pre DEF TypeOK, Stages
<1>new. \A x \in Objects : kind'[x] = "none" => Fresh(x)'
  BY <1>step, <1>r, <1>k, <1>pre DEF NifInv, Fresh, TypeOK
<1>unused. ASSUME NEW x \in Objects, Gone(x)'
          PROVE  Unused(x)'
  <2>1. Unused(x) \/ ~Held(x)'
    BY <1>step, <1>pre, <1>unused, <1>r DEF NifInv, Gone
  <2>2. CASE Unused(x)
    BY <1>step, <1>pre, <2>2 DEF Unused, TypeOK
  <2> QED BY <2>1, <2>2, LetGo
<1>hands. ASSUME NEW x \in Objects
         PROVE  HandsFull(x)'
  BY <1>step, <1>pre DEF NifInv, HandsFull, TypeOK
<1>asks. ASSUME NEW q \in alive'
        PROVE  AsksOnce(q)'
  <2>1. q \in alive /\ q \in Procs /\ AsksOnce(q)
    BY <1>step, <1>pre DEF NifInv, TypeOK
  <2>2. waits'[q] # None => <<q, waits'[q]>> \in holds'
    BY <1>step, <1>pre, <2>1 DEF AsksOnce, TypeOK
  <2>3. Len(box'[q]) <= 1 /\ (box'[q] # <<>> => waits'[q] # None /\ waits'[q] = box'[q][1].ddb)
    BY <1>step, <1>pre, <2>1 DEF AsksOnce, TypeOK
  <2>4. ASSUME NEW x \in Objects, msg'[x].from = q
        PROVE  waits'[q] = x /\ box'[q] = <<>>
    BY <1>step, <1>pre, <2>1, <2>4 DEF AsksOnce, TypeOK
  <2>5. ASSUME NEW x \in Objects, NEW i \in DOMAIN msgs'[x], msgs'[x][i].from = q
        PROVE  /\ waits'[q] = x /\ box'[q] = <<>> /\ msg'[x].from # q
               /\ \A j \in DOMAIN msgs'[x] : msgs'[x][j].from = q => j = i
    BY <1>step, <1>pre, <2>1, <2>5 DEF AsksOnce, TypeOK
  <2> QED BY <2>2, <2>3, <2>4, <2>5 DEF AsksOnce
<1>dead. \A q \in Procs \ alive' : box'[q] = <<>> /\ \A x \in Objects : <<q, x>> \notin holds' \cup iters'
  <2>1. ASSUME NEW q \in Procs \ alive', NEW x \in Objects
        PROVE  <<q, x>> \notin holds' \cup iters'
    <3>1. CASE q = p
      BY <1>step, <3>1
    <3>2. CASE q # p
      BY <1>step, <2>1, <3>2 DEF NifInv
    <3> QED BY <3>1, <3>2
  <2>2. \A q \in Procs \ alive' : box'[q] = <<>>
    BY <1>step, <1>pre DEF NifInv, TypeOK
  <2> QED BY <2>1, <2>2
<1> QED BY <1>type, <1>new, <1>unused, <1>hands, <1>asks, <1>dead DEF NifInv

\* The worker.
LEMMA WorkerPopStep ==
  ASSUME NifInv, NEW o \in Objects, WorkerPop(o)
  PROVE  NifInv'
<1>step. /\ worker[o] = "pop" /\ msgs[o] # <<>> /\ Head(msgs[o]).func # "null"
         /\ msgs' = [msgs EXCEPT ![o] = Tail(msgs[o])]
         /\ \/ Head(msgs[o]).func = "stop" /\ worker' = [worker EXCEPT ![o] = "exit"] /\ msg' = msg
            \/ /\ Head(msgs[o]).func # "stop"
               /\ worker' = [worker EXCEPT ![o] = "run"] /\ msg' = [msg EXCEPT ![o] = Head(msgs[o])]
         /\ UNCHANGED <<kind, reply, dtor, by, holds, iters, waits, box, alive, leaked, lost>>
  BY DEF WorkerPop, process, losses
<1>pre. TypeOK
  BY DEF NifInv
<1>s. msgs[o] \in Seq(Message)
  BY <1>pre DEF TypeOK
<1>e. PICK e : e = Tail(msgs[o])
  OBVIOUS
<1>t. /\ e \in Seq(Message) /\ 1 \in DOMAIN msgs[o] /\ Head(msgs[o]) = msgs[o][1] /\ msgs[o][1] \in Message
      /\ \A k \in DOMAIN e : k + 1 \in DOMAIN msgs[o] /\ e[k] = msgs[o][k + 1] /\ k + 1 # 1
      /\ \A k, j \in DOMAIN e : k + 1 = j + 1 => k = j
  BY <1>step, <1>s, <1>e, TailParts
<1>m. msgs' = [msgs EXCEPT ![o] = e]
  BY <1>step, <1>e
<1>q. \A x \in Objects : msgs'[x] = IF x = o THEN e ELSE msgs[x]
  BY <1>m, <1>pre DEF TypeOK
<1>h. \A x \in Objects : msg'[x] = msg[x] \/ (x = o /\ msg'[x] = msgs[o][1])
  BY <1>step, <1>t, <1>pre DEF TypeOK
<1>n. msg[o] = NoMsg /\ reply[o] = NoReply /\ kind[o] # "none"
  BY <1>step DEF NifInv, HandsFull, Fresh
<1>w. /\ msg' \in [Objects -> Messages]
      /\ worker' \in [Objects -> {"off", "pop", "run", "send", "exit", "crashed"}]
      /\ msgs' \in [Objects -> Seq(Message)]
  <2>1. msgs' \in [Objects -> Seq(Message)]
    BY <1>pre, <1>m, <1>t DEF TypeOK
  <2>2. worker' \in [Objects -> {"off", "pop", "run", "send", "exit", "crashed"}]
    BY <1>step, <1>pre DEF TypeOK
  <2>3. PICK m : m = Head(msgs[o])
    OBVIOUS
  <2>4. m \in Message /\ (msg' = msg \/ (m.func \notin {"stop", "null"} /\ msg' = [msg EXCEPT ![o] = m]))
    BY <1>step, <1>t, <2>3
  <2>5. msg' \in [Objects -> Messages]
    BY <1>pre, <2>4 DEF TypeOK, Messages
  <2> QED BY <2>1, <2>2, <2>5
<1>type. TypeOK'
  BY <1>step, <1>w, <1>pre DEF TypeOK, Messages
<1>new. \A x \in Objects : kind'[x] = "none" => Fresh(x)'
  BY <1>step, <1>q, <1>pre DEF NifInv, Fresh, TypeOK
<1>unused. ASSUME NEW x \in Objects, Gone(x)'
          PROVE  Unused(x)'
  <2>1. Unused(x)
    BY <1>step, <1>pre, <1>unused DEF NifInv, Gone
  <2>2. ASSUME NEW y \in Objects, NEW j \in DOMAIN msgs'[y]
        PROVE  msgs'[y][j].ref # x
    <3>1. CASE y = o
      BY <1>q, <1>t, <2>1, <2>2, <3>1 DEF Unused
    <3>2. CASE y # o
      BY <1>q, <2>1, <2>2, <3>2 DEF Unused
    <3> QED BY <3>1, <3>2
  <2>3. \A y \in Objects : msg'[y].ref # x /\ reply'[y].obj # x
    BY <1>step, <1>h, <1>t, <2>1 DEF Unused
  <2>4. ASSUME NEW y \in Objects, reply'[y].iter = x
        PROVE  msg'[y].from \notin alive'
    <3>1. y # o
      BY <1>step, <1>n, <2>4, NotNone, Sorts
    <3> QED BY <1>step, <1>h, <2>1, <2>4, <3>1 DEF Unused
  <2> QED BY <1>step, <2>1, <2>2, <2>3, <2>4 DEF Unused
<1>hands. ASSUME NEW x \in Objects
         PROVE  HandsFull(x)'
  <2>1. CASE x # o
    BY <1>step, <1>pre, <2>1 DEF NifInv, HandsFull, TypeOK
  <2>2. CASE x = o
    <3>1. worker'[x] \in {"run", "exit"} /\ (worker'[x] = "exit" => msg'[x] = NoMsg) /\ reply'[x] = NoReply
      BY <1>step, <1>pre, <1>n, <2>2 DEF TypeOK
    <3> QED BY <3>1, Sorts DEF HandsFull
  <2> QED BY <2>1, <2>2
<1>asks. ASSUME NEW q \in alive'
        PROVE  AsksOnce(q)'
  <2>1. q \in alive /\ q \in Procs /\ AsksOnce(q) /\ msg[o].from # q
    BY <1>step, <1>pre, <1>n, NotNone, Sorts DEF NifInv, TypeOK
  <2>2. ASSUME NEW x \in Objects, msg'[x].from = q
        PROVE  waits[q] = x /\ box[q] = <<>>
    BY <1>h, <1>t, <2>1, <2>2 DEF AsksOnce
  <2>3. ASSUME NEW x \in Objects, NEW i \in DOMAIN msgs'[x], msgs'[x][i].from = q
        PROVE  /\ waits[q] = x /\ box[q] = <<>> /\ msg'[x].from # q
               /\ \A j \in DOMAIN msgs'[x] : msgs'[x][j].from = q => j = i
    <3>1. CASE x = o
      <4>1. i + 1 \in DOMAIN msgs[o] /\ msgs[o][i + 1].from = q /\ i + 1 # 1
        BY <1>q, <1>t, <2>3, <3>1
      <4>2. /\ waits[q] = x /\ box[q] = <<>>
            /\ \A j \in DOMAIN msgs[o] : msgs[o][j].from = q => j = i + 1
        BY <2>1, <3>1, <4>1 DEF AsksOnce
      <4>3. msg'[x].from # q
        BY <1>h, <1>t, <2>1, <3>1, <4>1, <4>2
      <4>4. \A j \in DOMAIN e : e[j].from = q => j = i
        BY <1>q, <1>t, <2>3, <3>1, <4>2
      <4> QED BY <1>q, <3>1, <4>2, <4>3, <4>4
    <3>2. CASE x # o
      BY <1>q, <1>h, <2>1, <2>3, <3>2 DEF AsksOnce
    <3> QED BY <3>1, <3>2
  <2> QED BY <1>step, <2>1, <2>2, <2>3 DEF AsksOnce
<1>dead. \A q \in Procs \ alive' : box'[q] = <<>> /\ \A x \in Objects : <<q, x>> \notin holds' \cup iters'
  BY <1>step, <1>pre DEF NifInv
<1> QED BY <1>type, <1>new, <1>unused, <1>hands, <1>asks, <1>dead DEF NifInv

LEMMA PopCrashesStep ==
  ASSUME NifInv, NEW o \in Objects, PopCrashes(o)
  PROVE  NifInv'
<1>step. /\ worker[o] = "pop" /\ worker' = [worker EXCEPT ![o] = "crashed"]
         /\ UNCHANGED <<kind, msgs, msg, reply, dtor, by, holds, iters, waits, box, alive, leaked, lost>>
  BY DEF PopCrashes, process, losses
<1>pre. TypeOK
  BY DEF NifInv
<1>type. TypeOK'
  BY <1>step, <1>pre DEF TypeOK
<1>new. \A x \in Objects : kind'[x] = "none" => Fresh(x)'
  BY <1>step, <1>pre DEF NifInv, Fresh, TypeOK
<1>unused. ASSUME NEW x \in Objects, Gone(x)'
          PROVE  Unused(x)'
  BY <1>step, <1>pre, <1>unused DEF NifInv, Gone, Unused, TypeOK
<1>hands. ASSUME NEW x \in Objects
         PROVE  HandsFull(x)'
  BY <1>step, <1>pre DEF NifInv, HandsFull, TypeOK
<1>asks. ASSUME NEW q \in alive'
        PROVE  AsksOnce(q)'
  BY <1>step, <1>pre DEF NifInv, AsksOnce, TypeOK
<1>dead. \A q \in Procs \ alive' : box'[q] = <<>> /\ \A x \in Objects : <<q, x>> \notin holds' \cup iters'
  BY <1>step, <1>pre DEF NifInv
<1> QED BY <1>type, <1>new, <1>unused, <1>hands, <1>asks, <1>dead DEF NifInv

LEMMA RunPlainStep ==
  ASSUME NifInv, NEW o \in Objects, RunPlain(o)
  PROVE  NifInv'
<1>step. /\ worker[o] = "run" /\ worker' = [worker EXCEPT ![o] = "send"]
         /\ reply' = [reply EXCEPT ![o] = [ddb |-> o, obj |-> None, iter |-> None]]
         /\ UNCHANGED <<kind, msgs, msg, dtor, by, holds, iters, waits, box, alive, leaked, lost>>
  BY DEF RunPlain, Answer, NoReply, process, losses
<1>pre. TypeOK
  BY DEF NifInv
<1>type. TypeOK'
  BY <1>step, <1>pre DEF TypeOK, Reply
<1>new. \A x \in Objects : kind'[x] = "none" => Fresh(x)'
  BY <1>step, <1>pre DEF NifInv, Fresh, TypeOK
<1>unused. ASSUME NEW x \in Objects, Gone(x)'
          PROVE  Unused(x)'
  BY <1>step, NotNone, <1>pre, <1>unused DEF NifInv, Gone, Unused, TypeOK
<1>hands. ASSUME NEW x \in Objects
         PROVE  HandsFull(x)'
  BY <1>step, <1>pre DEF NifInv, HandsFull, TypeOK
<1>asks. ASSUME NEW q \in alive'
        PROVE  AsksOnce(q)'
  BY <1>step, <1>pre DEF NifInv, AsksOnce, TypeOK
<1>dead. \A q \in Procs \ alive' : box'[q] = <<>> /\ \A x \in Objects : <<q, x>> \notin holds' \cup iters'
  BY <1>step, <1>pre DEF NifInv, Reply
<1> QED BY <1>type, <1>new, <1>unused, <1>hands, <1>asks, <1>dead DEF NifInv

LEMMA RunGetStep ==
  ASSUME NifInv, NEW o \in Objects, RunGet(o)
  PROVE  NifInv'
<1>step. /\ worker[o] = "run" /\ worker' = [worker EXCEPT ![o] = "send"] /\ msg[o].func = "get"
         /\ reply' = [reply EXCEPT ![o] = [ddb |-> o, obj |-> None, iter |-> o]]
         /\ UNCHANGED <<kind, msgs, msg, dtor, by, holds, iters, waits, box, alive, leaked, lost>>
  BY DEF RunGet, Answer, NoReply, process, losses
<1>pre. TypeOK
  BY DEF NifInv
<1>g. Gone(o) => msg[o].from \notin alive
  <2>1. msg[o].from \in alive => waits[msg[o].from] = o
    BY DEF NifInv, AsksOnce
  <2> QED BY <2>1, InUse
<1>type. TypeOK'
  BY <1>step, <1>pre DEF TypeOK, Reply
<1>new. \A x \in Objects : kind'[x] = "none" => Fresh(x)'
  BY <1>step, <1>pre DEF NifInv, Fresh, TypeOK
<1>unused. ASSUME NEW x \in Objects, Gone(x)'
          PROVE  Unused(x)'
  BY <1>step, <1>g, NotNone, <1>pre, <1>unused DEF NifInv, Gone, Unused, TypeOK
<1>hands. ASSUME NEW x \in Objects
         PROVE  HandsFull(x)'
  BY <1>step, <1>pre DEF NifInv, HandsFull, TypeOK
<1>asks. ASSUME NEW q \in alive'
        PROVE  AsksOnce(q)'
  BY <1>step, <1>pre DEF NifInv, AsksOnce, TypeOK
<1>dead. \A q \in Procs \ alive' : box'[q] = <<>> /\ \A x \in Objects : <<q, x>> \notin holds' \cup iters'
  BY <1>step, <1>pre DEF NifInv, Reply
<1> QED BY <1>type, <1>new, <1>unused, <1>hands, <1>asks, <1>dead DEF NifInv

LEMMA RunFinalizeStep ==
  ASSUME NifInv, NEW o \in Objects, NEW new \in Objects, RunFinalize(o, new)
  PROVE  NifInv'
<1>step. /\ worker[o] = "run" /\ kind[new] = "none" /\ kind' = [kind EXCEPT ![new] = "db"]
         /\ reply' = [reply EXCEPT ![o] = [ddb |-> o, obj |-> new, iter |-> None]]
         /\ worker' = [worker EXCEPT ![o] = "send", ![new] = "pop"]
         /\ UNCHANGED <<msgs, msg, dtor, by, holds, iters, waits, box, alive, leaked, lost>>
  BY DEF RunFinalize, NoReply, process, losses
<1>pre. TypeOK
  BY DEF NifInv
<1>u. dtor[new] = "none" /\ worker[new] = "off" /\ new # o
  BY <1>step DEF NifInv, Fresh
<1>type. TypeOK'
  BY <1>step, <1>pre DEF TypeOK, Reply
<1>new. \A x \in Objects : kind'[x] = "none" => Fresh(x)'
  BY <1>step, <1>u, <1>pre DEF NifInv, Fresh, TypeOK
<1>unused. ASSUME NEW x \in Objects, Gone(x)'
          PROVE  Unused(x)'
  BY <1>step, <1>u, NotNone, <1>pre, <1>unused DEF NifInv, Gone, Unused, TypeOK
<1>hands. ASSUME NEW x \in Objects
         PROVE  HandsFull(x)'
  BY <1>step, <1>u, <1>pre DEF NifInv, HandsFull, TypeOK
<1>asks. ASSUME NEW q \in alive'
        PROVE  AsksOnce(q)'
  BY <1>step, <1>pre DEF NifInv, AsksOnce, TypeOK
<1>dead. \A q \in Procs \ alive' : box'[q] = <<>> /\ \A x \in Objects : <<q, x>> \notin holds' \cup iters'
  BY <1>step, <1>pre DEF NifInv, Reply
<1> QED BY <1>type, <1>new, <1>unused, <1>hands, <1>asks, <1>dead DEF NifInv

LEMMA FinalizeFailsStep ==
  ASSUME NifInv, NEW o \in Objects, NEW new \in Objects, FinalizeFails(o, new)
  PROVE  NifInv'
<1>step. /\ worker[o] = "run" /\ kind[new] = "none" /\ kind' = [kind EXCEPT ![new] = "db"]
         /\ reply' = [reply EXCEPT ![o] = [ddb |-> o, obj |-> None, iter |-> None]]
         /\ worker' = [worker EXCEPT ![o] = "send", ![new] = "pop"]
         /\ leaked' = leaked \cup {new}
         /\ UNCHANGED <<msgs, msg, dtor, by, holds, iters, waits, box, alive, lost>>
  BY DEF FinalizeFails, NoReply, process, losses
<1>pre. TypeOK
  BY DEF NifInv
<1>u. dtor[new] = "none" /\ worker[new] = "off" /\ new # o
  BY <1>step DEF NifInv, Fresh
<1>type. TypeOK'
  BY <1>step, <1>pre DEF TypeOK, Reply
<1>new. \A x \in Objects : kind'[x] = "none" => Fresh(x)'
  BY <1>step, <1>u, <1>pre DEF NifInv, Fresh, TypeOK
<1>unused. ASSUME NEW x \in Objects, Gone(x)'
          PROVE  Unused(x)'
  BY <1>step, <1>u, NotNone, <1>pre, <1>unused DEF NifInv, Gone, Unused, TypeOK
<1>hands. ASSUME NEW x \in Objects
         PROVE  HandsFull(x)'
  BY <1>step, <1>u, <1>pre DEF NifInv, HandsFull, TypeOK
<1>asks. ASSUME NEW q \in alive'
        PROVE  AsksOnce(q)'
  BY <1>step, <1>pre DEF NifInv, AsksOnce, TypeOK
<1>dead. \A q \in Procs \ alive' : box'[q] = <<>> /\ \A x \in Objects : <<q, x>> \notin holds' \cup iters'
  BY <1>step, <1>pre DEF NifInv, Reply
<1> QED BY <1>type, <1>new, <1>unused, <1>hands, <1>asks, <1>dead DEF NifInv

LEMMA WorkerSendStep ==
  ASSUME NifInv, NEW o \in Objects, WorkerSend(o)
  PROVE  NifInv'
<1>step. /\ worker[o] = "send" /\ worker' = [worker EXCEPT ![o] = "pop"]
         /\ \/ /\ msg[o].from \in alive
               /\ box' = [box EXCEPT ![msg[o].from] = Append(box[msg[o].from], reply[o])]
               /\ holds' = holds \cup ({<<msg[o].from, msg[o].ref>>} \cap (Procs \X Objects))
            \/ msg[o].from \notin alive /\ box' = box /\ holds' = holds
         /\ msg' = [msg EXCEPT ![o] = NoMsg] /\ reply' = [reply EXCEPT ![o] = NoReply] /\ Release(o, dtor)
         /\ UNCHANGED <<kind, msgs, iters, waits, alive, leaked, lost>>
  BY DEF WorkerSend, losses
<1>pre. TypeOK
  BY DEF NifInv
<1>r. /\ dtor' \in [Objects -> Stages] /\ by' \in [Objects -> Procs \cup Objects \cup {None}]
      /\ \A x \in Objects : dtor'[x] # "none" => dtor[x] # "none" \/ (Held(x) /\ ~Held(x)')
  BY <1>step, <1>pre, Releases DEF TypeOK, Stages
<1>k. \A x \in Objects : kind[x] = "none" => ~Held(x)
  BY NotMade
<1>p. PICK p : p = msg[o].from
  OBVIOUS
<1>a. /\ reply[o] \in Reply /\ reply[o].ddb = o
      /\ p \in alive => p \in Procs /\ waits[p] = o /\ box[p] = <<>>
      /\ \A x \in Objects : msg'[x] = IF x = o THEN NoMsg ELSE msg[x]
      /\ \A x \in Objects : reply'[x] = IF x = o THEN NoReply ELSE reply[x]
  <2>1. reply[o] \in Reply /\ reply[o].ddb = o
    BY <1>step, <1>pre DEF NifInv, HandsFull, TypeOK
  <2>2. p \in alive => p \in Procs /\ waits[p] = o /\ box[p] = <<>>
    BY <1>pre, <1>p DEF NifInv, AsksOnce, TypeOK
  <2>3. \A x \in Objects : msg'[x] = IF x = o THEN NoMsg ELSE msg[x]
    BY <1>step, <1>pre DEF TypeOK
  <2>4. \A x \in Objects : reply'[x] = IF x = o THEN NoReply ELSE reply[x]
    BY <1>step, <1>pre DEF TypeOK
  <2> QED BY <2>1, <2>2, <2>3, <2>4
<1>b. PICK r : r = reply[o]
  OBVIOUS
<1>c. r \in Reply /\ r.ddb = o /\ Append(<<>>, r) = <<r>> /\ <<r>> \in Seq(Reply)
  <2>1. r \in Reply /\ r.ddb = o
    BY <1>a, <1>b
  <2> QED BY <2>1
<1>d. \/ /\ p \in alive /\ box' = [box EXCEPT ![p] = <<r>>]
         /\ holds' = holds \cup ({<<p, msg[o].ref>>} \cap (Procs \X Objects))
      \/ p \notin alive /\ box' = box /\ holds' = holds
  BY <1>step, <1>p, <1>a, <1>b, <1>c
<1>e. \A q \in Procs : box'[q] = box[q] \/ (q = p /\ p \in alive /\ box'[q] = <<r>>)
  BY <1>d, <1>pre DEF TypeOK
<1>type. TypeOK'
  <2>1. box' \in [Procs -> Seq(Reply)]
    <3>1. box \in [Procs -> Seq(Reply)]
      BY <1>pre DEF TypeOK
    <3> QED BY <1>c, <1>d, <3>1
  <2>3. holds' \in SUBSET (Procs \X Objects)
    BY <1>pre, <1>d DEF TypeOK
  <2>2. /\ msg' \in [Objects -> Messages] /\ reply' \in [Objects -> Reply]
        /\ worker' \in [Objects -> {"off", "pop", "run", "send", "exit", "crashed"}]
    BY <1>step, <1>pre, Sorts DEF TypeOK, Messages
  <2> QED BY <1>step, <1>pre, <1>r, <2>1, <2>2, <2>3 DEF TypeOK, Stages, Messages
<1>new. \A x \in Objects : kind'[x] = "none" => Fresh(x)'
  BY <1>step, <1>r, <1>k, <1>d, <1>pre DEF NifInv, Fresh, TypeOK
<1>unused. ASSUME NEW x \in Objects, Gone(x)'
          PROVE  Unused(x)'
  <2>1. Unused(x) \/ ~Held(x)'
    BY <1>step, <1>pre, <1>unused, <1>r DEF NifInv, Gone
  <2>2. CASE Unused(x)
    <3>1. ASSUME NEW q \in Procs
          PROVE  <<q, x>> \notin holds' \cup iters' /\ \A j \in DOMAIN box'[q] : x \notin Refs(box'[q][j])
      <4>1. <<q, x>> \notin holds' \cup iters'
        BY <1>step, <1>d, <2>2 DEF Unused
      <4>2. p \in alive => x \notin Refs(r)
        BY <1>p, <1>b, <2>2 DEF Unused, Refs
      <4>3. \A j \in DOMAIN <<r>> : <<r>>[j] = r
        OBVIOUS
      <4> QED BY <1>e, <2>2, <4>1, <4>2, <4>3 DEF Unused
    <3>2. ASSUME NEW y \in Objects
          PROVE  msg'[y].ref # x /\ reply'[y].obj # x /\ (reply'[y].iter = x => msg'[y].from \notin alive')
      BY <1>step, <1>a, <2>2, NotNone, Sorts DEF Unused
    <3> QED BY <1>step, <2>2, <3>1, <3>2 DEF Unused
  <2> QED BY <2>1, <2>2, LetGo
<1>hands. ASSUME NEW x \in Objects
         PROVE  HandsFull(x)'
  <2>1. CASE x # o
    BY <1>step, <1>pre, <1>a, <2>1 DEF NifInv, HandsFull, TypeOK
  <2>2. CASE x = o
    BY <1>step, <1>pre, <1>a, <2>2, Sorts DEF HandsFull, TypeOK
  <2> QED BY <2>1, <2>2
<1>asks. ASSUME NEW q \in alive'
        PROVE  AsksOnce(q)'
  <2>1. q \in alive /\ q \in Procs /\ AsksOnce(q)
    BY <1>step, <1>pre DEF NifInv, TypeOK
  <2>2. waits[q] # None => <<q, waits[q]>> \in holds'
    BY <1>d, <2>1 DEF AsksOnce
  <2>3. Len(box'[q]) <= 1 /\ (box'[q] # <<>> => waits[q] # None /\ waits[q] = box'[q][1].ddb)
    <3>1. Len(<<r>>) = 1 /\ <<r>>[1] = r
      OBVIOUS
    <3>2. CASE box'[q] = box[q]
      BY <2>1, <3>2 DEF AsksOnce
    <3>3. CASE q = p /\ p \in alive /\ box'[q] = <<r>>
      BY <1>a, <1>c, <3>1, <3>3, NotNone
    <3> QED BY <1>e, <2>1, <3>2, <3>3
  <2>4. ASSUME NEW x \in Objects, msg'[x].from = q
        PROVE  waits[q] = x /\ box'[q] = <<>>
    <3>1. x # o /\ msg[x].from = q
      BY <1>a, <2>1, <2>4, NotNone, Sorts
    <3>2. waits[q] = x /\ box[q] = <<>>
      BY <2>1, <3>1 DEF AsksOnce
    <3> QED BY <1>a, <1>e, <2>1, <3>1, <3>2
  <2>5. ASSUME NEW x \in Objects, NEW i \in DOMAIN msgs[x], msgs[x][i].from = q
        PROVE  /\ waits[q] = x /\ box'[q] = <<>> /\ msg'[x].from # q
               /\ \A j \in DOMAIN msgs[x] : msgs[x][j].from = q => j = i
    <3>1. /\ waits[q] = x /\ box[q] = <<>> /\ msg[x].from # q
          /\ \A j \in DOMAIN msgs[x] : msgs[x][j].from = q => j = i
      BY <2>1, <2>5 DEF AsksOnce
    <3>2. q # p
      BY <1>p, <1>a, <2>1, <3>1
    <3> QED BY <1>a, <1>e, <2>1, <3>1, <3>2, NotNone, Sorts
  <2> QED BY <1>step, <2>2, <2>3, <2>4, <2>5 DEF AsksOnce
<1>dead. \A q \in Procs \ alive' : box'[q] = <<>> /\ \A x \in Objects : <<q, x>> \notin holds' \cup iters'
  BY <1>step, <1>d, <1>e, <1>a DEF NifInv
<1> QED BY <1>type, <1>new, <1>unused, <1>hands, <1>asks, <1>dead DEF NifInv

\* The destructor.
LEMMA PushStopStep ==
  ASSUME NifInv, NEW o \in Objects, PushStop(o)
  PROVE  NifInv'
<1>step. /\ dtor[o] = "due" /\ Push(o, Stop) /\ dtor' = [dtor EXCEPT ![o] = "join"]
         /\ UNCHANGED <<kind, worker, msg, reply, by, holds, iters, waits, box, alive, leaked, lost>>
  BY DEF PushStop, thread, process, losses
<1>pre. TypeOK
  BY DEF NifInv
<1>m. PICK m : m = Stop
  OBVIOUS
<1>n. m \in Message /\ m.from = None /\ m.ref = None
  BY <1>m, Sorts
<1>q. /\ msgs' \in [Objects -> Seq(Message)]
      /\ \A x \in Objects : x # o => msgs'[x] = msgs[x]
      /\ \A x \in Objects : \A j \in DOMAIN msgs'[x] :
           \/ j \in DOMAIN msgs[x] /\ msgs'[x][j] = msgs[x][j]
           \/ x = o /\ j = Len(msgs'[o]) /\ msgs'[x][j] = m
  BY <1>step, <1>pre, <1>m, <1>n, Pushed DEF TypeOK
<1>u. kind[o] # "none"
  BY <1>step DEF NifInv, Fresh
<1>type. TypeOK'
  BY <1>step, <1>q, <1>pre DEF TypeOK
<1>new. \A x \in Objects : kind'[x] = "none" => Fresh(x)'
  BY <1>step, <1>q, <1>u, <1>pre DEF NifInv, Fresh, TypeOK
<1>unused. ASSUME NEW x \in Objects, Gone(x)'
          PROVE  Unused(x)'
  <2>1. Unused(x)
    BY <1>step, <1>pre, <1>unused, <1>u DEF NifInv, Gone, TypeOK
  <2>2. ASSUME NEW y \in Objects, NEW j \in DOMAIN msgs'[y]
        PROVE  msgs'[y][j].ref # x
    BY <1>q, <1>n, <2>1, <2>2, NotNone DEF Unused
  <2>3. ASSUME NEW r \in Procs
        PROVE  <<r, x>> \notin holds' \cup iters' /\ \A j \in DOMAIN box'[r] : x \notin Refs(box'[r][j])
    BY <1>step, <1>pre, <2>1 DEF Unused, TypeOK
  <2>4. ASSUME NEW y \in Objects
        PROVE  msg'[y].ref # x /\ reply'[y].obj # x /\ (reply'[y].iter = x => msg'[y].from \notin alive')
    BY <1>step, <1>pre, <2>1 DEF Unused, TypeOK
  <2>5. x \notin leaked'
    BY <1>step, <2>1 DEF Unused
  <2> QED BY <2>2, <2>3, <2>4, <2>5 DEF Unused
<1>hands. ASSUME NEW x \in Objects
         PROVE  HandsFull(x)'
  BY <1>step, <1>pre DEF NifInv, HandsFull, TypeOK
<1>asks. ASSUME NEW q \in alive'
        PROVE  AsksOnce(q)'
  <2>1. q \in alive /\ q \in Procs /\ AsksOnce(q)
    BY <1>step, <1>pre DEF NifInv, TypeOK
  <2>2. \A x \in Objects : \A j \in DOMAIN msgs'[x] : msgs'[x][j].from = q => j \in DOMAIN msgs[x] /\ msgs[x][j].from = q
    BY <1>q, <1>n, <2>1, NotNone
  <2> QED BY <1>step, <2>1, <2>2 DEF AsksOnce
<1>dead. \A q \in Procs \ alive' : box'[q] = <<>> /\ \A x \in Objects : <<q, x>> \notin holds' \cup iters'
  BY <1>step, <1>pre DEF NifInv
<1> QED BY <1>type, <1>new, <1>unused, <1>hands, <1>asks, <1>dead DEF NifInv

LEMMA StopLostStep ==
  ASSUME NifInv, NEW o \in Objects, StopLost(o)
  PROVE  NifInv'
<1>step. /\ dtor[o] = "due" /\ lost' = lost \cup {o} /\ dtor' = [dtor EXCEPT ![o] = "join"]
         /\ PushLost(o) /\ UNCHANGED <<kind, worker, msg, reply, by, holds, iters, waits, box, alive, leaked>>
  BY DEF StopLost, thread, process
<1>pre. TypeOK
  BY DEF NifInv
<1>q. /\ msgs' \in [Objects -> Seq(Message)]
      /\ \A x \in Objects : x # o => msgs'[x] = msgs[x]
      /\ \A x \in Objects : \A j \in DOMAIN msgs'[x] :
           \/ j \in DOMAIN msgs[x] /\ msgs'[x][j] = msgs[x][j]
           \/ msgs'[x][j].from = None /\ msgs'[x][j].ref = None
  BY <1>step, <1>pre, LostPush DEF TypeOK
<1>u. kind[o] # "none"
  BY <1>step DEF NifInv, Fresh
<1>type. TypeOK'
  BY <1>step, <1>q, <1>pre DEF TypeOK
<1>new. \A x \in Objects : kind'[x] = "none" => Fresh(x)'
  BY <1>step, <1>q, <1>u, <1>pre DEF NifInv, Fresh, TypeOK
<1>unused. ASSUME NEW x \in Objects, Gone(x)'
          PROVE  Unused(x)'
  <2>1. Unused(x)
    BY <1>step, <1>pre, <1>unused DEF NifInv, Gone, TypeOK
  <2>2. ASSUME NEW y \in Objects, NEW j \in DOMAIN msgs'[y]
        PROVE  msgs'[y][j].ref # x
    BY <1>q, <2>1, <2>2, NotNone DEF Unused
  <2>3. ASSUME NEW r \in Procs
        PROVE  <<r, x>> \notin holds' \cup iters' /\ \A j \in DOMAIN box'[r] : x \notin Refs(box'[r][j])
    BY <1>step, <1>pre, <2>1 DEF Unused, TypeOK
  <2>4. ASSUME NEW y \in Objects
        PROVE  msg'[y].ref # x /\ reply'[y].obj # x /\ (reply'[y].iter = x => msg'[y].from \notin alive')
    BY <1>step, <1>pre, <2>1 DEF Unused, TypeOK
  <2>5. x \notin leaked'
    BY <1>step, <2>1 DEF Unused
  <2> QED BY <2>2, <2>3, <2>4, <2>5 DEF Unused
<1>hands. ASSUME NEW x \in Objects
         PROVE  HandsFull(x)'
  BY <1>step, <1>pre DEF NifInv, HandsFull, TypeOK
<1>asks. ASSUME NEW q \in alive'
        PROVE  AsksOnce(q)'
  <2>1. q \in alive /\ q \in Procs /\ AsksOnce(q)
    BY <1>step, <1>pre DEF NifInv, TypeOK
  <2>2. \A x \in Objects : \A j \in DOMAIN msgs'[x] : msgs'[x][j].from = q => j \in DOMAIN msgs[x] /\ msgs[x][j].from = q
    BY <1>q, <2>1, NotNone
  <2> QED BY <1>step, <1>pre, <2>1, <2>2 DEF AsksOnce, TypeOK
<1>dead. \A q \in Procs \ alive' : box'[q] = <<>> /\ \A x \in Objects : <<q, x>> \notin holds' \cup iters'
  BY <1>step, <1>pre DEF NifInv
<1> QED BY <1>type, <1>new, <1>unused, <1>hands, <1>asks, <1>dead DEF NifInv

LEMMA JoinStep ==
  ASSUME NifInv, NEW o \in Objects, Join(o)
  PROVE  NifInv'
<1>step. /\ dtor[o] = "join" /\ dtor' = [dtor EXCEPT ![o] = "drain"]
         /\ UNCHANGED <<kind, msgs, worker, msg, reply, by, holds, iters, waits, box, alive, leaked, lost>>
  BY DEF Join, thread, process, losses
<1>pre. TypeOK
  BY DEF NifInv
<1>type. TypeOK'
  BY <1>step, <1>pre DEF TypeOK
<1>new. \A x \in Objects : kind'[x] = "none" => Fresh(x)'
  BY <1>step, <1>pre DEF NifInv, Fresh, TypeOK
<1>unused. ASSUME NEW x \in Objects, Gone(x)'
          PROVE  Unused(x)'
  BY <1>step, <1>pre, <1>unused DEF NifInv, Gone, Unused, TypeOK
<1>hands. ASSUME NEW x \in Objects
         PROVE  HandsFull(x)'
  BY <1>step, <1>pre DEF NifInv, HandsFull, TypeOK
<1>asks. ASSUME NEW q \in alive'
        PROVE  AsksOnce(q)'
  BY <1>step, <1>pre DEF NifInv, AsksOnce, TypeOK
<1>dead. \A q \in Procs \ alive' : box'[q] = <<>> /\ \A x \in Objects : <<q, x>> \notin holds' \cup iters'
  BY <1>step, <1>pre DEF NifInv
<1> QED BY <1>type, <1>new, <1>unused, <1>hands, <1>asks, <1>dead DEF NifInv

LEMMA FreeStep ==
  ASSUME NifInv, NEW o \in Objects, Free(o)
  PROVE  NifInv'
<1>step. /\ dtor[o] = "drain" /\ msgs' = [msgs EXCEPT ![o] = <<>>] /\ Release(by[o], [dtor EXCEPT ![o] = "freed"])
         /\ UNCHANGED <<kind, worker, msg, reply, holds, iters, waits, box, alive, leaked, lost>>
  BY DEF Free, thread, process, losses
<1>pre. TypeOK
  BY DEF NifInv
<1>s. PICK d : d = [dtor EXCEPT ![o] = "freed"]
  OBVIOUS
<1>t. /\ d \in [Objects -> Stages] /\ by[o] \in Procs \cup Objects \cup {None}
      /\ \A x \in Objects : d[x] # "none" => dtor[x] # "none"
  BY <1>step, <1>s, <1>pre DEF TypeOK, Stages
<1>r. /\ dtor' \in [Objects -> Stages] /\ by' \in [Objects -> Procs \cup Objects \cup {None}]
      /\ \A x \in Objects : dtor'[x] # "none" => dtor[x] # "none" \/ (Held(x) /\ ~Held(x)')
  BY <1>step, <1>pre, <1>s, <1>t, Releases DEF TypeOK
<1>k. \A x \in Objects : kind[x] = "none" => ~Held(x)
  BY NotMade
<1>q. \A x \in Objects : msgs'[x] = msgs[x] \/ msgs'[x] = <<>>
  BY <1>step, <1>pre DEF TypeOK
<1>type. TypeOK'
  BY <1>step, <1>r, <1>pre DEF TypeOK, Stages
<1>new. \A x \in Objects : kind'[x] = "none" => Fresh(x)'
  BY <1>step, <1>r, <1>k, <1>pre DEF NifInv, Fresh, TypeOK
<1>unused. ASSUME NEW x \in Objects, Gone(x)'
          PROVE  Unused(x)'
  <2>1. Unused(x) \/ ~Held(x)'
    BY <1>step, <1>pre, <1>unused, <1>r DEF NifInv, Gone
  <2>2. CASE Unused(x)
    BY <1>step, <1>pre, <2>2, <1>q DEF Unused, TypeOK
  <2> QED BY <2>1, <2>2, LetGo
<1>hands. ASSUME NEW x \in Objects
         PROVE  HandsFull(x)'
  BY <1>step, <1>pre DEF NifInv, HandsFull, TypeOK
<1>asks. ASSUME NEW q \in alive'
        PROVE  AsksOnce(q)'
  <2>1. q \in alive /\ q \in Procs /\ AsksOnce(q)
    BY <1>step, <1>pre DEF NifInv, TypeOK
  <2>2. waits'[q] # None => <<q, waits'[q]>> \in holds'
    BY <1>step, <1>pre, <2>1, <1>q DEF AsksOnce, TypeOK
  <2>3. Len(box'[q]) <= 1 /\ (box'[q] # <<>> => waits'[q] # None /\ waits'[q] = box'[q][1].ddb)
    BY <1>step, <1>pre, <2>1, <1>q DEF AsksOnce, TypeOK
  <2>4. ASSUME NEW x \in Objects, msg'[x].from = q
        PROVE  waits'[q] = x /\ box'[q] = <<>>
    BY <1>step, <1>pre, <2>1, <2>4, <1>q DEF AsksOnce, TypeOK
  <2>5. ASSUME NEW x \in Objects, NEW i \in DOMAIN msgs'[x], msgs'[x][i].from = q
        PROVE  /\ waits'[q] = x /\ box'[q] = <<>> /\ msg'[x].from # q
               /\ \A j \in DOMAIN msgs'[x] : msgs'[x][j].from = q => j = i
    BY <1>step, <1>pre, <2>1, <2>5, <1>q DEF AsksOnce, TypeOK
  <2> QED BY <2>2, <2>3, <2>4, <2>5 DEF AsksOnce
<1>dead. \A q \in Procs \ alive' : box'[q] = <<>> /\ \A x \in Objects : <<q, x>> \notin holds' \cup iters'
  BY <1>step, <1>pre DEF NifInv, Stages
<1> QED BY <1>type, <1>new, <1>unused, <1>hands, <1>asks, <1>dead DEF NifInv
-----------------------------------------------------------------------------
(***************************************************************************)
(* The invariant and what it says.                                         *)
(***************************************************************************)
LEMMA NifInit == Init => NifInv
<1> SUFFICES ASSUME Init PROVE NifInv
  OBVIOUS
<1>1. TypeOK
  BY Sorts DEF Init, TypeOK, Messages
<1>2. ASSUME NEW o \in Objects
      PROVE  Fresh(o) /\ Unused(o) /\ HandsFull(o)
  BY NotNone, Sorts DEF Init, Fresh, Unused, HandsFull
<1>3. ASSUME NEW p \in alive
      PROVE  AsksOnce(p)
  BY NotNone, Sorts DEF Init, AsksOnce
<1>4. Procs \ alive = {}
  BY DEF Init
<1> QED BY <1>1, <1>2, <1>3, <1>4 DEF NifInv

LEMMA NifStep == NifInv /\ [Next]_vars => NifInv'
<1> SUFFICES ASSUME NifInv, [Next]_vars PROVE NifInv'
  OBVIOUS
<1>1. ASSUME NEW p \in Procs, NEW o \in Objects,
             \/ \E k \in {"cons", "db"}, src \in Objects \cup {None} : Create(p, o, k, src)
             \/ \E k \in {"cons", "db"} : CreateRefused(p, o, k) \/ CreateLost(p, o, k)
      PROVE  NifInv'
  BY <1>1, CreateStep, CreateRefusedStep, CreateLostStep
<1>2. ASSUME NEW p \in Procs, NEW o \in Objects, \E f \in Asks[p] : Call(p, o, f) \/ CallLost(p, o, f)
      PROVE  NifInv'
  BY <1>2, CallStep, CallLostStep
<1>3. ASSUME NEW p \in Procs, NEW o \in Objects,
             (\E q \in Procs : Share(p, q, o) \/ ShareIter(p, q, o)) \/ DropRef(p, o) \/ DropIter(p, o)
      PROVE  NifInv'
  BY <1>3, ShareStep, ShareIterStep, DropRefStep, DropIterStep
<1>4. ASSUME NEW p \in Procs, Receive(p) \/ Kill(p)
      PROVE  NifInv'
  BY <1>4, ReceiveStep, KillStep
<1>5. ASSUME NEW o \in Objects, WorkerStep(o)
      PROVE  NifInv'
  BY <1>5, WorkerPopStep, PopCrashesStep, RunPlainStep, RunGetStep, RunFinalizeStep, FinalizeFailsStep, WorkerSendStep
     DEF WorkerStep
<1>6. ASSUME NEW o \in Objects, DtorStep(o)
      PROVE  NifInv'
  BY <1>6, PushStopStep, StopLostStep, JoinStep, FreeStep DEF DtorStep
<1>7. ASSUME UNCHANGED vars
      PROVE  NifInv'
  <2>1. /\ kind' = kind /\ msgs' = msgs /\ worker' = worker /\ msg' = msg /\ reply' = reply /\ dtor' = dtor
        /\ by' = by /\ holds' = holds /\ iters' = iters /\ waits' = waits /\ box' = box /\ alive' = alive
        /\ leaked' = leaked /\ lost' = lost
    BY <1>7 DEF vars
  <2> QED BY <2>1 DEF NifInv, TypeOK, Gone, Fresh, Unused, HandsFull, AsksOnce
<1> QED BY <1>1, <1>2, <1>3, <1>4, <1>5, <1>6, <1>7 DEF Next, ProcStep

LEMMA NifAlways == Spec => []NifInv
BY NifInit, NifStep, PTL DEF Spec

LEMMA NifMeans == NifInv => ObjectsSafe /\ NoStrayAnswer
<1> SUFFICES ASSUME NifInv PROVE ObjectsSafe /\ NoStrayAnswer
  OBVIOUS
<1>1. TypeOK
  BY DEF NifInv
<1>2. NothingDangles
  BY InUse DEF NothingDangles
<1>3. ASSUME NEW p \in Procs
      PROVE  Len(box[p]) <= 1 /\ (box[p] # <<>> => waits[p] = box[p][1].ddb)
  <2>1. CASE p \in alive
    BY <2>1 DEF NifInv, AsksOnce
  <2>2. CASE p \notin alive
    BY <2>2 DEF NifInv
  <2> QED BY <2>1, <2>2
<1> QED BY <1>1, <1>2, <1>3 DEF ObjectsSafe, NoStrayAnswer

(***************************************************************************)
(* An object that a process refers to, or waits for, is not destroyed:     *)
(* ErlDDB_free runs when nobody alive can call into the object, whoever is *)
(* killed and whichever message is lost.                                   *)
(***************************************************************************)
THEOREM NifSafety == Spec => []ObjectsSafe
BY NifAlways, NifMeans, PTL

(***************************************************************************)
(* The untagged answers never mix: a process has at most one in its        *)
(* mailbox, and that is the one from the object it waits for.              *)
(***************************************************************************)
THEOREM NifAnswers == Spec => []NoStrayAnswer
BY NifAlways, NifMeans, PTL
-----------------------------------------------------------------------------
(***************************************************************************)
(* The queue and its worker.                                               *)
(***************************************************************************)
LEMMA Unheld ==
  ASSUME QueueInv, NEW o \in Objects, dtor[o] # "none"
  PROVE  ~Held(o)
<1>1. Unused(o) /\ \A x \in Objects : HandsFull(x) /\ Gets(msg[x])
  BY DEF QueueInv, NifInv, Gone, StopIsLast
<1>2. ASSUME NEW x \in Objects, reply[x].iter = o
      PROVE  FALSE
  <2>1. msg[x].func = "get" /\ msg[x].from \notin alive
    BY <1>1, <1>2, NotNone DEF HandsFull, Unused
  <2> QED BY <1>1, <2>1 DEF Gets, QueueInv
<1>3. \A x \in Objects : o \notin Refs(reply[x])
  BY <1>1, <1>2 DEF Unused, Refs
<1> QED BY <1>1, <1>3 DEF Held, Unused

\* A step that lets go of references begins destructions and does nothing more.
LEMMA Begins ==
  ASSUME QueueInv, NEW t \in Procs \cup Objects, Release(t, dtor), NEW x \in Objects
  PROVE  dtor'[x] = dtor[x] \/ (dtor[x] = "none" /\ dtor'[x] = "due")
<1>1. dtor \in [Objects -> Stages] /\ by \in [Objects -> Procs \cup Objects \cup {None}]
  BY DEF QueueInv, NifInv, TypeOK, Stages
<1>2. /\ dtor[x] # "none" /\ ~Held(x) => dtor'[x] = dtor[x]
      /\ dtor[x] = "none" => dtor'[x] \in {"none", "due"}
  BY <1>1, Releases
<1> QED BY <1>2, Unheld

LEMMA Quiet ==
  ASSUME NEW x \in Objects, StopIsLast(x), msgs'[x] = msgs[x],
         msg'[x] = msg[x] \/ msg'[x] = NoMsg,
         worker'[x] = worker[x] \/ {worker[x], worker'[x]} \cap {"exit"} = {},
         dtor'[x] = dtor[x] \/ (dtor[x] = "none" /\ dtor'[x] = "due")
  PROVE  StopIsLast(x)'
<1>1. worker'[x] = "exit" <=> worker[x] = "exit"
  OBVIOUS
<1>2. Gets(msg'[x])
  BY Sorts DEF StopIsLast, Gets
<1>3. /\ msgs[x] = msgs'[x]
      /\ dtor[x] = "join" <=> dtor'[x] = "join"
      /\ dtor[x] \in {"drain", "freed"} <=> dtor'[x] \in {"drain", "freed"}
      /\ dtor[x] \in {"join", "drain", "freed"} <=> dtor'[x] \in {"join", "drain", "freed"}
  OBVIOUS
<1> QED BY <1>1, <1>2, <1>3 DEF StopIsLast, Gets

\* The queue of an object that a request or the stop message goes to.
LEMMA PushedLast ==
  ASSUME QueueInv, NEW o \in Objects, dtor[o] \in {"none", "due"}, NEW m \in Message, Push(o, m), Gets(m),
         msg' = msg, NEW x \in Objects,
         \A y \in Objects : /\ y # o => worker'[y] = worker[y] /\ dtor'[y] = dtor[y]
                            /\ worker'[o] # "exit" /\ worker[o] # "exit"
                            /\ dtor'[o] \notin {"drain", "freed"} /\ (m.func = "stop" => dtor'[o] = "join")
  PROVE  StopIsLast(x)'
<1>1. /\ \A y \in Objects : y # o => msgs'[y] = msgs[y]
      /\ \A y \in Objects : \A j \in DOMAIN msgs'[y] :
           \/ j \in DOMAIN msgs[y] /\ msgs'[y][j] = msgs[y][j]
           \/ y = o /\ j = Len(msgs'[o]) /\ msgs'[y][j] = m
  BY Pushed DEF QueueInv, NifInv, TypeOK
<1>2. StopIsLast(x)
  BY DEF QueueInv
<1>3. CASE x # o
  BY <1>1, <1>2, <1>3, Quiet
<1>4. CASE x = o
  <2>1. \A j \in DOMAIN msgs[o] : Gets(msgs[o][j]) /\ msgs[o][j].func # "stop"
    BY <1>2, <1>4 DEF StopIsLast
  <2>2. ASSUME NEW j \in DOMAIN msgs'[o]
        PROVE  Gets(msgs'[o][j]) /\ (msgs'[o][j].func = "stop" => j = Len(msgs'[o]) /\ dtor'[o] = "join")
    BY <1>1, <2>1, <2>2
  <2>3. Gets(msg'[o]) /\ worker'[o] # "exit" /\ dtor'[o] \notin {"drain", "freed"}
    BY <1>2, <1>4 DEF StopIsLast
  <2> QED BY <1>4, <2>2, <2>3 DEF StopIsLast, Gets
<1> QED BY <1>3, <1>4

\* The same of a message that was lost.
LEMMA LostLast ==
  ASSUME QueueInv, NEW o \in Objects, dtor[o] \in {"none", "due"}, PushLost(o),
         msg' = msg, NEW x \in Objects,
         \A y \in Objects : /\ y # o => worker'[y] = worker[y] /\ dtor'[y] = dtor[y]
                            /\ worker'[o] # "exit" /\ worker[o] # "exit"
                            /\ dtor'[o] \notin {"drain", "freed"}
  PROVE  StopIsLast(x)'
<1>1. StopIsLast(x)
  BY DEF QueueInv
<1>2. CASE msgs' = msgs
  <2>1. CASE x # o
    BY <1>1, <1>2, <2>1, Quiet
  <2>2. CASE x = o
    <3>1. \A j \in DOMAIN msgs[o] : Gets(msgs[o][j]) /\ msgs[o][j].func # "stop"
      BY <1>1, <2>2 DEF StopIsLast
    <3>2. Gets(msg'[o]) /\ worker'[o] # "exit" /\ dtor'[o] \notin {"drain", "freed"}
      BY <1>1, <2>2 DEF StopIsLast
    <3> QED BY <1>2, <2>2, <3>1, <3>2 DEF StopIsLast, Gets
  <2> QED BY <2>1, <2>2
<1>3. CASE Push(o, Null)
  <2>1. Null \in Message /\ Gets(Null) /\ Null.func # "stop"
    BY Sorts DEF Gets
  <2> QED BY <1>3, <2>1, PushedLast
<1> QED BY <1>2, <1>3 DEF PushLost

LEMMA ProcQueue ==
  ASSUME QueueInv, NoMortalGet, NEW p \in Procs, ProcStep(p) \/ Receive(p) \/ Kill(p), NEW x \in Objects
  PROVE  StopIsLast(x)' /\ Procs \ Mortal \subseteq alive'
<1>1. TypeOK /\ NifInv /\ StopIsLast(x) /\ Procs \ Mortal \subseteq alive
  BY DEF QueueInv, NifInv
<1>2. ASSUME NEW o \in Objects, NEW k \in {"cons", "db"}, NEW src \in Objects \cup {None}, Create(p, o, k, src)
      PROVE  StopIsLast(x)' /\ alive' = alive
  <2>1. PICK m : m = [from |-> p, func |-> "init", ref |-> src]
    OBVIOUS
  <2>2. m \in Message /\ Gets(m) /\ m.func = "init"
    BY <2>1, Sorts DEF Messages, Gets
  <2>3. dtor[o] = "none" /\ worker[o] = "off"
    BY <1>1, <1>2 DEF Create, Start, NifInv, Fresh
  <2>4. /\ Push(o, m) /\ msg' = msg /\ dtor' = dtor /\ worker' = [worker EXCEPT ![o] = "pop"] /\ alive' = alive
    BY <1>2, <2>1 DEF Create, Start
  <2>5. worker'[o] = "pop" /\ \A y \in Objects : y # o => worker'[y] = worker[y]
    BY <1>1, <2>4 DEF TypeOK
  <2> QED BY <2>2, <2>3, <2>4, <2>5, PushedLast
<1>3. ASSUME NEW o \in Objects, NEW f, Call(p, o, f)
      PROVE  StopIsLast(x)' /\ alive' = alive
  <2>1. PICK m : m = [from |-> p, func |-> f, ref |-> None]
    OBVIOUS
  <2>2. /\ Push(o, m) /\ msg' = msg /\ dtor' = dtor /\ worker' = worker /\ alive' = alive
        /\ p \in alive /\ <<p, o>> \in holds /\ f \in Asked(p, kind[o])
    BY <1>3, <2>1 DEF Call, Ready, thread
  <2>3. f \in {"add", "finalize", "dump", "get"} /\ (f = "get" => p \notin Mortal)
    BY <2>2, AskedSorts DEF NoMortalGet
  <2>4. m \in Message /\ Gets(m) /\ m.func # "stop"
    BY <2>1, <2>3, Sorts DEF Messages, Gets
  <2>5. dtor[o] = "none"
    BY <1>1, <2>2, InUse
  <2>6. worker[o] # "exit"
    BY <2>5 DEF QueueInv, StopIsLast
  <2> QED BY <2>2, <2>4, <2>5, <2>6, PushedLast
<1>4. ASSUME NEW o \in Objects, NEW k \in {"cons", "db"}, CreateRefused(p, o, k)
      PROVE  StopIsLast(x)' /\ alive' = alive
  <2>1. dtor[o] = "none" /\ worker[o] = "off"
    BY <1>1, <1>4 DEF CreateRefused, Start, NifInv, Fresh
  <2>2. /\ msgs' = msgs /\ msg' = msg /\ worker' = [worker EXCEPT ![o] = "pop"] /\ alive' = alive
        /\ dtor' = [dtor EXCEPT ![o] = "due"]
    BY <1>4 DEF CreateRefused, Start, process
  <2>3. worker'[x] = worker[x] \/ {worker[x], worker'[x]} \cap {"exit"} = {}
    BY <1>1, <2>1, <2>2 DEF TypeOK
  <2>4. dtor'[x] = dtor[x] \/ (dtor[x] = "none" /\ dtor'[x] = "due")
    BY <1>1, <2>1, <2>2 DEF TypeOK
  <2> QED BY <1>1, <2>2, <2>3, <2>4, Quiet
<1>5. ASSUME NEW o \in Objects, \/ \E q \in Procs : Share(p, q, o) \/ ShareIter(p, q, o)
                                \/ Receive(p)
      PROVE  StopIsLast(x)' /\ alive' = alive
  <2>1. msgs' = msgs /\ msg' = msg /\ worker' = worker /\ dtor' = dtor /\ alive' = alive
    BY <1>5 DEF Share, ShareIter, Receive, thread
  <2> QED BY <1>1, <2>1, Quiet
<1>6. ASSUME NEW o \in Objects, DropRef(p, o) \/ DropIter(p, o) \/ Kill(p)
      PROVE  StopIsLast(x)' /\ Procs \ Mortal \subseteq alive'
  <2>1. /\ msgs' = msgs /\ msg' = msg /\ worker' = worker /\ Release(p, dtor)
        /\ alive' = alive \/ (p \in Mortal /\ alive' = alive \ {p})
    BY <1>6 DEF DropRef, DropIter, Kill, thread
  <2> QED BY <1>1, <2>1, Begins, Quiet
<1>7. ASSUME NEW o \in Objects, NEW k \in {"cons", "db"}, CreateLost(p, o, k)
      PROVE  StopIsLast(x)' /\ alive' = alive
  <2>1. dtor[o] = "none" /\ worker[o] = "off"
    BY <1>1, <1>7 DEF CreateLost, Start, NifInv, Fresh
  <2>2. /\ PushLost(o) /\ msg' = msg /\ dtor' = dtor /\ worker' = [worker EXCEPT ![o] = "pop"] /\ alive' = alive
    BY <1>7 DEF CreateLost, Start
  <2>3. worker'[o] = "pop" /\ \A y \in Objects : y # o => worker'[y] = worker[y]
    BY <1>1, <2>2 DEF TypeOK
  <2> QED BY <2>1, <2>2, <2>3, LostLast
<1>8. ASSUME NEW o \in Objects, NEW f, CallLost(p, o, f)
      PROVE  StopIsLast(x)' /\ alive' = alive
  <2>1. /\ PushLost(o) /\ msg' = msg /\ dtor' = dtor /\ worker' = worker /\ alive' = alive
        /\ p \in alive /\ <<p, o>> \in holds
    BY <1>8 DEF CallLost, Ready, thread
  <2>2. dtor[o] = "none"
    BY <1>1, <2>1, InUse
  <2>3. worker[o] # "exit"
    BY <2>2 DEF QueueInv, StopIsLast
  <2> QED BY <2>1, <2>2, <2>3, LostLast
<1> QED BY <1>1, <1>2, <1>3, <1>4, <1>5, <1>6, <1>7, <1>8 DEF ProcStep

LEMMA WorkerQueue ==
  ASSUME QueueInv, NEW o \in Objects, WorkerStep(o), NEW x \in Objects
  PROVE  StopIsLast(x)' /\ Procs \ Mortal \subseteq alive'
<1>1. TypeOK /\ NifInv /\ StopIsLast(x) /\ Procs \ Mortal \subseteq alive
  BY DEF QueueInv, NifInv
<1>2. ASSUME WorkerPop(o)
      PROVE  StopIsLast(x)' /\ alive' = alive
  <2>1. /\ worker[o] = "pop" /\ msgs[o] # <<>> /\ msgs' = [msgs EXCEPT ![o] = Tail(msgs[o])]
        /\ \/ Head(msgs[o]).func = "stop" /\ worker' = [worker EXCEPT ![o] = "exit"] /\ msg' = msg
           \/ /\ Head(msgs[o]).func # "stop"
              /\ worker' = [worker EXCEPT ![o] = "run"] /\ msg' = [msg EXCEPT ![o] = Head(msgs[o])]
        /\ dtor' = dtor /\ alive' = alive
    BY <1>2 DEF WorkerPop, process
  <2>2. PICK e : e = Tail(msgs[o])
    OBVIOUS
  <2>3. /\ Len(msgs[o]) \in Nat /\ Len(e) \in Nat /\ Len(msgs[o]) = Len(e) + 1 /\ e \in Seq(Message)
        /\ 1 \in DOMAIN msgs[o] /\ Head(msgs[o]) = msgs[o][1]
        /\ \A k \in DOMAIN e : k + 1 \in DOMAIN msgs[o] /\ e[k] = msgs[o][k + 1] /\ k + 1 # 1
    BY <1>1, <2>1, <2>2, TailParts DEF TypeOK
  <2>4. msgs' = [msgs EXCEPT ![o] = e]
    BY <2>1, <2>2
  <2>5. CASE x # o
    BY <1>1, <2>1, <2>4, <2>5, Quiet DEF TypeOK
  <2>6. CASE x = o
    <3>1. msgs'[o] = e
      BY <1>1, <2>4 DEF TypeOK
    <3>2. /\ \A k \in DOMAIN msgs[o] : /\ Gets(msgs[o][k])
                                       /\ msgs[o][k].func = "stop" => k = Len(msgs[o]) /\ dtor[o] = "join"
          /\ Gets(msg[o]) /\ dtor[o] \notin {"drain", "freed"}
      BY <1>1, <2>1, <2>6 DEF StopIsLast
    <3>3. ASSUME NEW k \in DOMAIN e
          PROVE  Gets(e[k]) /\ (e[k].func = "stop" => k = Len(e) /\ dtor[o] = "join")
      <4>1. /\ k + 1 \in DOMAIN msgs[o] /\ e[k] = msgs[o][k + 1] /\ k \in Nat
        BY <2>3
      <4>2. Gets(e[k]) /\ (e[k].func = "stop" => k + 1 = Len(msgs[o]) /\ dtor[o] = "join")
        BY <3>2, <4>1
      <4> QED BY <2>3, <4>1, <4>2
    <3>4. CASE msgs[o][1].func = "stop"
      <4>1. 1 = Len(msgs[o]) /\ dtor[o] = "join"
        BY <2>3, <3>2, <3>4
      <4>2. e = <<>>
        BY <2>3, <4>1
      <4>3. msg' = msg
        BY <2>1, <2>3, <3>4
      <4> QED BY <2>1, <2>6, <3>1, <3>2, <4>1, <4>2, <4>3 DEF StopIsLast, Gets
    <3>5. CASE msgs[o][1].func # "stop"
      <4>1. worker'[o] = "run" /\ msg'[o] = msgs[o][1]
        BY <1>1, <2>1, <2>3, <3>5 DEF TypeOK
      <4>2. Gets(msg'[o])
        BY <2>3, <3>2, <4>1
      <4> QED BY <2>1, <2>6, <3>1, <3>2, <3>3, <4>1, <4>2 DEF StopIsLast, Gets
    <3> QED BY <3>4, <3>5
  <2> QED BY <2>1, <2>5, <2>6
<1>3. ASSUME RunPlain(o) \/ RunGet(o)
      PROVE  StopIsLast(x)' /\ alive' = alive
  <2>1. /\ msgs' = msgs /\ msg' = msg /\ dtor' = dtor /\ alive' = alive
        /\ worker[o] = "run" /\ worker' = [worker EXCEPT ![o] = "send"]
    BY <1>3 DEF RunPlain, RunGet, Answer, process
  <2>2. worker'[x] = worker[x] \/ {worker[x], worker'[x]} \cap {"exit"} = {}
    BY <1>1, <2>1 DEF TypeOK
  <2> QED BY <1>1, <2>1, <2>2, Quiet
<1>4. ASSUME NEW new \in Objects, RunFinalize(o, new) \/ FinalizeFails(o, new)
      PROVE  StopIsLast(x)' /\ alive' = alive
  <2>1. /\ msgs' = msgs /\ msg' = msg /\ dtor' = dtor /\ alive' = alive /\ kind[new] = "none"
        /\ worker[o] = "run" /\ worker' = [worker EXCEPT ![o] = "send", ![new] = "pop"]
    BY <1>4 DEF RunFinalize, FinalizeFails, process
  <2>2. worker[new] = "off"
    BY <1>1, <2>1 DEF NifInv, Fresh
  <2>3. worker'[x] = worker[x] \/ {worker[x], worker'[x]} \cap {"exit"} = {}
    BY <1>1, <2>1, <2>2 DEF TypeOK
  <2> QED BY <1>1, <2>1, <2>3, Quiet
<1>5. ASSUME WorkerSend(o)
      PROVE  StopIsLast(x)' /\ alive' = alive
  <2>1. /\ msgs' = msgs /\ msg' = [msg EXCEPT ![o] = NoMsg] /\ Release(o, dtor) /\ alive' = alive
        /\ worker[o] = "send" /\ worker' = [worker EXCEPT ![o] = "pop"]
    BY <1>5 DEF WorkerSend
  <2>2. worker'[x] = worker[x] \/ {worker[x], worker'[x]} \cap {"exit"} = {}
    BY <1>1, <2>1 DEF TypeOK
  <2>3. msg'[x] = msg[x] \/ msg'[x] = NoMsg
    BY <1>1, <2>1 DEF TypeOK
  <2> QED BY <1>1, <2>1, <2>2, <2>3, Begins, Quiet
<1>6. ASSUME PopCrashes(o)
      PROVE  StopIsLast(x)' /\ alive' = alive
  <2>1. /\ msgs' = msgs /\ msg' = msg /\ dtor' = dtor /\ alive' = alive
        /\ worker[o] = "pop" /\ worker' = [worker EXCEPT ![o] = "crashed"]
    BY <1>6 DEF PopCrashes, process
  <2>2. worker'[x] = worker[x] \/ {worker[x], worker'[x]} \cap {"exit"} = {}
    BY <1>1, <2>1 DEF TypeOK
  <2> QED BY <1>1, <2>1, <2>2, Quiet
<1> QED BY <1>1, <1>2, <1>3, <1>4, <1>5, <1>6 DEF WorkerStep

LEMMA DtorQueue ==
  ASSUME QueueInv, NEW o \in Objects, DtorStep(o), NEW x \in Objects
  PROVE  StopIsLast(x)' /\ Procs \ Mortal \subseteq alive'
<1>1. TypeOK /\ NifInv /\ StopIsLast(x) /\ StopIsLast(o) /\ Procs \ Mortal \subseteq alive
  BY DEF QueueInv, NifInv
<1>2. ASSUME PushStop(o)
      PROVE  StopIsLast(x)' /\ alive' = alive
  <2>1. PICK m : m = Stop
    OBVIOUS
  <2>2. m \in Message /\ m.func = "stop" /\ Gets(m)
    BY <2>1, Sorts DEF Gets
  <2>3. /\ dtor[o] = "due" /\ Push(o, m) /\ dtor' = [dtor EXCEPT ![o] = "join"]
        /\ msg' = msg /\ worker' = worker /\ alive' = alive
    BY <1>2, <2>1 DEF PushStop, thread, process
  <2>4. dtor'[o] = "join" /\ worker[o] # "exit" /\ \A y \in Objects : y # o => dtor'[y] = dtor[y]
    BY <1>1, <2>3 DEF TypeOK, StopIsLast
  <2> QED BY <2>2, <2>3, <2>4, PushedLast
<1>3. ASSUME Join(o)
      PROVE  StopIsLast(x)' /\ alive' = alive
  <2>1. /\ msgs' = msgs /\ msg' = msg /\ worker' = worker /\ alive' = alive
        /\ dtor[o] = "join" /\ worker[o] = "exit" /\ dtor' = [dtor EXCEPT ![o] = "drain"]
    BY <1>3 DEF Join, thread, process
  <2>2. CASE x # o
    BY <1>1, <2>1, <2>2, Quiet DEF TypeOK
  <2>3. CASE x = o
    BY <1>1, <2>1, <2>3 DEF TypeOK, StopIsLast, Gets
  <2> QED BY <2>1, <2>2, <2>3
<1>4. ASSUME Free(o)
      PROVE  StopIsLast(x)' /\ alive' = alive
  <2>1. PICK d : d = [dtor EXCEPT ![o] = "freed"]
    OBVIOUS
  <2>2. /\ dtor[o] = "drain" /\ msgs' = [msgs EXCEPT ![o] = <<>>] /\ Release(by[o], d)
        /\ msg' = msg /\ worker' = worker /\ alive' = alive
    BY <1>4, <2>1 DEF Free, thread, process
  <2>3. /\ d \in [Objects -> Stages] /\ by[o] \in Procs \cup Objects \cup {None}
        /\ by \in [Objects -> Procs \cup Objects \cup {None}]
        /\ \A y \in Objects : d[y] = IF y = o THEN "freed" ELSE dtor[y]
    BY <1>1, <2>1 DEF TypeOK, Stages
  <2>4. /\ d[x] # "none" /\ ~Held(x) => dtor'[x] = d[x]
        /\ d[x] = "none" => dtor'[x] \in {"none", "due"}
    BY <2>2, <2>3, Releases
  <2>5. CASE x # o
    <3>1. dtor'[x] = dtor[x] \/ (dtor[x] = "none" /\ dtor'[x] = "due")
      BY <2>3, <2>4, <2>5, Unheld
    <3>2. msgs'[x] = msgs[x]
      BY <1>1, <2>2, <2>5 DEF TypeOK
    <3> QED BY <1>1, <2>2, <3>1, <3>2, Quiet
  <2>6. CASE x = o
    <3>1. dtor'[o] = "freed"
      BY <2>2, <2>3, <2>4, <2>6, Unheld
    <3>2. msgs'[o] = <<>> /\ worker[o] = "exit" /\ Gets(msg[o])
      BY <1>1, <2>2 DEF TypeOK, StopIsLast
    <3> QED BY <2>2, <2>6, <3>1, <3>2 DEF StopIsLast, Gets
  <2> QED BY <2>2, <2>5, <2>6
<1>5. ASSUME StopLost(o)
      PROVE  StopIsLast(x)' /\ alive' = alive
  <2>1. /\ dtor[o] = "due" /\ PushLost(o) /\ dtor' = [dtor EXCEPT ![o] = "join"]
        /\ msg' = msg /\ worker' = worker /\ alive' = alive
    BY <1>5 DEF StopLost, thread, process
  <2>2. dtor'[o] = "join" /\ worker[o] # "exit" /\ \A y \in Objects : y # o => dtor'[y] = dtor[y]
    BY <1>1, <2>1 DEF TypeOK, StopIsLast
  <2> QED BY <2>1, <2>2, LostLast
<1> QED BY <1>1, <1>2, <1>3, <1>4, <1>5 DEF DtorStep

\* The invariant of the queues is inductive.
LEMMA QueueInit == Init => QueueInv
<1> SUFFICES ASSUME Init PROVE QueueInv
  OBVIOUS
<1>1. NifInv /\ Procs \ Mortal \subseteq alive
  BY NifInit DEF Init
<1>2. ASSUME NEW o \in Objects
      PROVE  StopIsLast(o)
  BY Sorts DEF Init, StopIsLast, Gets
<1> QED BY <1>1, <1>2 DEF QueueInv

LEMMA QueueStep == NoMortalGet /\ QueueInv /\ [Next]_vars => QueueInv'
<1> SUFFICES ASSUME NoMortalGet, QueueInv, [Next]_vars PROVE QueueInv'
  OBVIOUS
<1>1. NifInv'
  BY NifStep DEF QueueInv
<1>2. ASSUME Next, NEW x \in Objects
      PROVE  StopIsLast(x)' /\ Procs \ Mortal \subseteq alive'
  BY <1>2, ProcQueue, WorkerQueue, DtorQueue DEF Next
<1>3. CASE Next
  <2>1. Procs \ Mortal \subseteq alive'
    <3>1. CASE Objects = {}
      BY <1>3, <3>1 DEF Next, ProcStep, Receive, Kill, QueueInv
    <3>2. CASE Objects # {}
      BY <1>2, <1>3, <3>2
    <3> QED BY <3>1, <3>2
  <2> QED BY <1>1, <1>2, <1>3, <2>1 DEF QueueInv
<1>4. CASE UNCHANGED vars
  <2>1. msgs' = msgs /\ worker' = worker /\ msg' = msg /\ dtor' = dtor /\ alive' = alive
    BY <1>4 DEF vars
  <2> QED BY <1>1, <2>1 DEF QueueInv, StopIsLast
<1> QED BY <1>3, <1>4

LEMMA QueueMeans == QueueInv => QueueOutlivesWorker
<1> SUFFICES ASSUME QueueInv, NEW o \in Objects
             PROVE  /\ dtor[o] = "freed" => worker[o] = "exit"
                    /\ dtor[o] = "drain" => msgs[o] = <<>>
  BY DEF QueueOutlivesWorker
<1> QED BY DEF QueueInv, StopIsLast

(***************************************************************************)
(* While no process that may be killed asks for iterators, a queue is      *)
(* freed after its worker has left it, and no request is in it: a stop     *)
(* message is the last one ever pushed, and nobody is brought back.        *)
(***************************************************************************)
THEOREM NifQueues == NoMortalGet => (Spec => []QueueOutlivesWorker)
<1> SUFFICES ASSUME NoMortalGet PROVE Spec => []QueueOutlivesWorker
  OBVIOUS
<1>1. QueueInv /\ [Next]_vars => QueueInv'
  BY QueueStep
<1> QED BY <1>1, QueueInit, QueueMeans, PTL DEF Spec
=============================================================================
