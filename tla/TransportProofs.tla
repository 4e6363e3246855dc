-------------------------- MODULE TransportProofs --------------------------
(***************************************************************************)
(* Proofs about a server: the transport of tool calls, for every number of *)
(* connections and workers, every batch, queue and limit, and the holder   *)
(* of its model, for any finite set of threads.                            *)
(***************************************************************************)
EXTENDS Transport, ModelSlot, FiniteSetTheorems, TLAPS

-----------------------------------------------------------------------------
(* The inductive invariant *)

\* A worker has a connection exactly between taking it and closing it; while a
\* call is decided or runs, the worker is at an item of the batch.
Held ==
  \A w \in Worker :
    /\ job[w] = None <=> pc[w] \in {"free", "recv", "dead"}
    /\ job[w] # None => conn[job[w]] = "served"
    /\ pc[w] \in {"cas"} \cup Calling => item[w] \in DOMAIN Request[job[w]]
    /\ pc[w] = "cas" => Kind(w) = "call"
    /\ pc[w] = "stage" => todo[w] > 0

\* No two workers have the same connection ...
Apart == \A v, w \in Worker : job[v] = job[w] /\ job[w] # None => v = w

\* ... since none is in the channel twice.
Queued ==
  /\ \A i \in DOMAIN queue : conn[queue[i]] = "queued"
  /\ \A i, j \in DOMAIN queue : queue[i] = queue[j] => i = j

\* The server has nothing of a proxy that has not connected.
Fresh == \A c \in Conn : client[c] = "new" => conn[c] = "new"

Shape == TypeOK /\ Held /\ Apart /\ Queued /\ Fresh

Inv == Shape /\ SlotsCounted

-----------------------------------------------------------------------------
(* Steps of the shape *)

\* What a tool call that runs has taken is there to be given back.
LEMMA SlotHeld ==
  ASSUME Inv, NEW w \in Worker, pc[w] \in Calling, Kind(w) = "call"
  PROVE  inFlight >= 1
<1>1. IsFiniteSet(Admitted)
  BY TransportAssumption, FS_Subset DEF Admitted
<1>2. w \in Admitted
  BY DEF Admitted
<1>3. Cardinality(Admitted) # 0 /\ Cardinality(Admitted) \in Nat
  BY <1>1, <1>2, FS_EmptySet, FS_CardinalityType
<1> QED BY <1>3 DEF Inv, SlotsCounted

LEMMA FreeSlotType ==
  ASSUME Inv, NEW w \in Worker, pc[w] \in Calling, FreeSlot(w)
  PROVE  inFlight' \in 0..SlotCap
<1>1. CASE Kind(w) = "call"
  BY <1>1, SlotHeld, TransportAssumption DEF FreeSlot, Inv, Shape, TypeOK
<1>2. CASE Kind(w) # "call"
  BY <1>2 DEF FreeSlot, Inv, Shape, TypeOK
<1> QED BY <1>1, <1>2

LEMMA ShapeInit == Init => Shape
BY TransportAssumption
   DEF Init, Shape, TypeOK, Held, Apart, Queued, Fresh, Places, Phases, Calling, Dispatching

\* Between the proxies, the acceptor and the watchers, only the connection c changes,
\* and it is not with a worker or in the channel, before or after.
LEMMA ShapeOutside ==
  ASSUME Inv, NEW c \in Conn,
         UNCHANGED <<serverVars, pc, job, workVars>>,
         client' \in [Conn -> {"new", "waiting", "answer", "error", "silence"}],
         conn' \in [Conn -> Places],
         cancelled' \in [Conn -> BOOLEAN], watching' \subseteq Conn,
         \A d \in Conn \ {c} : conn'[d] = conn[d] /\ client'[d] = client[d],
         conn'[c] # conn[c] => conn[c] \notin {"served", "queued"},
         client'[c] = "new" => conn'[c] = "new"
  PROVE  Shape'
<1> USE DEF Inv, Shape, serverVars, workVars
<1>1. TypeOK'
  BY DEF TypeOK
<1>2. Held'
  BY DEF Held, TypeOK, Kind
<1>3. Apart'
  BY DEF Apart
<1>4. Queued'
  BY DEF Queued, TypeOK
<1>5. Fresh'
  BY DEF Fresh
<1> QED BY <1>1, <1>2, <1>3, <1>4, <1>5

LEMMA ShapePeers ==
  ASSUME Inv, NEW c \in Conn,
         Connect(c) \/ Receive(c) \/ GiveUp(c) \/ Watcher(c) \/ Overload(c) \/ WriteOverload(c)
  PROVE  Shape'
<1> USE DEF Inv, Shape, TypeOK, Fresh, Put, Tell, Places, Sent
<1>1. ASSUME Connect(c) PROVE Shape'
  <2>1. conn[c] = "new" /\ client'[c] \in {"waiting", "error"}
    BY <1>1 DEF Connect
  <2>2. conn' \in [Conn -> Places] /\ \A d \in Conn \ {c} : conn'[d] = conn[d]
    BY <1>1 DEF Connect
  <2>3. /\ client' \in [Conn -> {"new", "waiting", "answer", "error", "silence"}]
        /\ \A d \in Conn \ {c} : client'[d] = client[d]
    BY <1>1 DEF Connect
  <2>4. UNCHANGED <<serverVars, pc, job, workVars, cancelled, watching>>
    BY <1>1 DEF Connect
  <2> QED BY <2>1, <2>2, <2>3, <2>4, ShapeOutside
<1>2. ASSUME Receive(c) PROVE Shape'
  <2>1. /\ client' \in [Conn -> {"new", "waiting", "answer", "error", "silence"}]
        /\ client'[c] # "new" /\ \A d \in Conn \ {c} : client'[d] = client[d]
    BY <1>2 DEF Receive
  <2>2. UNCHANGED <<serverVars, conn, pc, job, workVars, cancelled, watching>>
    BY <1>2 DEF Receive
  <2> QED BY <2>1, <2>2, ShapeOutside
<1>3. ASSUME GiveUp(c) PROVE Shape'
  <2>1. /\ client' \in [Conn -> {"new", "waiting", "answer", "error", "silence"}]
        /\ client'[c] # "new" /\ \A d \in Conn \ {c} : client'[d] = client[d]
    BY <1>3 DEF GiveUp
  <2>2. UNCHANGED <<serverVars, conn, pc, job, workVars, cancelled, watching>>
    BY <1>3 DEF GiveUp
  <2> QED BY <2>1, <2>2, ShapeOutside
<1>4. ASSUME PeerGone(c) PROVE Shape'
  <2>1. /\ client[c] # "waiting" /\ watching' = watching \ {c}
        /\ cancelled' = [cancelled EXCEPT ![c] = TRUE]
        /\ UNCHANGED <<serverVars, client, pc, job, workVars>>
    BY <1>4 DEF PeerGone
  <2>2. /\ conn' \in [Conn -> Places] /\ \A d \in Conn \ {c} : conn'[d] = conn[d]
        /\ conn'[c] # conn[c] => conn[c] = "orphan" /\ client[c] # "new"
    BY <1>4 DEF PeerGone
  <2> QED BY <2>1, <2>2, ShapeOutside
<1>5. ASSUME WatcherStops(c) PROVE Shape'
  BY <1>5, ShapeOutside DEF WatcherStops
<1>6. ASSUME Overload(c) PROVE Shape'
  <2>1. /\ conn' \in [Conn -> Places] /\ conn[c] = "backlog"
        /\ \A d \in Conn \ {c} : conn'[d] = conn[d]
    BY <1>6 DEF Overload
  <2>2. UNCHANGED <<serverVars, client, pc, job, workVars, cancelled, watching>>
    BY <1>6 DEF Overload
  <2> QED BY <2>1, <2>2, ShapeOutside
<1>7. ASSUME WriteOverload(c) PROVE Shape'
  <2>1. /\ conn' \in [Conn -> Places] /\ conn[c] = "refusing"
        /\ \A d \in Conn \ {c} : conn'[d] = conn[d]
    BY <1>7 DEF WriteOverload, Refusal
  <2>2. UNCHANGED <<serverVars, client, pc, job, workVars, cancelled, watching>>
    BY <1>7 DEF WriteOverload
  <2> QED BY <2>1, <2>2, ShapeOutside
<1> QED BY <1>1, <1>2, <1>3, <1>4, <1>5, <1>6, <1>7 DEF Watcher

LEMMA ShapeEnqueue ==
  ASSUME Inv, NEW c \in Conn, Enqueue(c)
  PROVE  Shape'
<1> USE DEF Inv, Shape
<1>1. /\ conn[c] = "backlog" /\ conn' = [conn EXCEPT ![c] = "queued"]
      /\ queue' = Append(queue, c) /\ Len(queue) < QueueCap
      /\ UNCHANGED <<up, lock, client, pc, job, item, todo, seen, inFlight, cancelled, watching>>
  BY TransportAssumption DEF Enqueue, Full, Put, workVars, TypeOK
<1>2. /\ queue \in Seq(Conn) /\ DOMAIN queue = 1..Len(queue) /\ Len(queue) \in Nat
      /\ DOMAIN queue' = 1..(Len(queue) + 1)
      /\ \A i \in DOMAIN queue : queue'[i] = queue[i]
      /\ queue'[Len(queue) + 1] = c
  BY <1>1 DEF TypeOK
<1>3. /\ conn' \in [Conn -> Places] /\ conn'[c] = "queued"
      /\ \A d \in Conn : conn[d] # "backlog" => conn'[d] = conn[d]
  BY <1>1 DEF TypeOK, Places
<1>4. TypeOK'
  <2>1. queue' \in Seq(Conn) /\ Len(queue') <= QueueCap
    BY <1>1, <1>2, TransportAssumption
  <2> QED BY <1>1, <1>3, <2>1 DEF TypeOK
<1>5. Held'
  <2>1. \A w \in Worker : job[w] # None => job[w] \in Conn /\ conn'[job[w]] = conn[job[w]]
    BY <1>3 DEF TypeOK, Held
  <2> QED BY <1>1, <2>1 DEF Held, Kind
<1>6. Apart'
  BY <1>1 DEF Apart
<1>7. Queued'
  <2>1. \A i \in DOMAIN queue : queue[i] \in Conn /\ conn[queue[i]] = "queued"
    BY <1>2 DEF Queued
  <2>2. \A i \in DOMAIN queue : queue[i] # c /\ conn'[queue[i]] = "queued"
    BY <1>1, <1>3, <2>1
  <2>3. \A i \in DOMAIN queue' : i \in DOMAIN queue \/ i = Len(queue) + 1
    BY <1>2
  <2>4. \A i \in DOMAIN queue' : conn'[queue'[i]] = "queued"
    BY <1>2, <1>3, <2>2, <2>3
  <2>5. ASSUME NEW i \in DOMAIN queue', NEW j \in DOMAIN queue', queue'[i] = queue'[j]
        PROVE  i = j
    BY <1>2, <2>2, <2>3, <2>5 DEF Queued
  <2> QED BY <2>4, <2>5 DEF Queued
<1>8. Fresh'
  BY <1>1, <1>3 DEF Fresh
<1> QED BY <1>4, <1>5, <1>6, <1>7, <1>8

\* A worker at work on its connection: only what is its own changes, and the count
\* of slots.
LEMMA ShapeWork ==
  ASSUME Inv, NEW w \in Worker, job[w] # None,
         UNCHANGED <<serverVars, conn, client, job, cancelled>>,
         watching' \subseteq Conn,
         inFlight' \in 0..SlotCap,
         pc' \in [Worker -> Phases], item' \in [Worker -> Nat],
         todo' \in [Worker -> 0..MaxStages], seen' \in [Worker -> 0..SlotCap],
         \A v \in Worker \ {w} : pc'[v] = pc[v] /\ item'[v] = item[v] /\ todo'[v] = todo[v],
         pc'[w] \notin {"free", "recv", "dead"},
         pc'[w] \in {"cas"} \cup Calling => item'[w] \in DOMAIN Request[job[w]],
         pc'[w] = "cas" => Request[job[w]][item'[w]] = "call",
         pc'[w] = "stage" => todo'[w] > 0
  PROVE  Shape'
<1> USE DEF Inv, Shape, serverVars
<1>1. TypeOK'
  BY DEF TypeOK
<1>2. Held'
  <2>1. ASSUME NEW v \in Worker \ {w}
        PROVE  /\ job'[v] = None <=> pc'[v] \in {"free", "recv", "dead"}
               /\ job'[v] # None => conn'[job'[v]] = "served"
               /\ pc'[v] \in {"cas"} \cup Calling => item'[v] \in DOMAIN Request[job'[v]]
               /\ pc'[v] = "cas" => Request[job'[v]][item'[v]] = "call"
               /\ pc'[v] = "stage" => todo'[v] > 0
    BY DEF Held, Kind
  <2>2. /\ job'[w] # None /\ conn'[job'[w]] = "served"
        /\ pc'[w] \notin {"free", "recv", "dead"}
    BY DEF Held
  <2> QED
    BY <2>1, <2>2 DEF Held, Kind
<1>3. Apart'
  BY DEF Apart
<1>4. Queued'
  BY DEF Queued
<1>5. Fresh'
  BY DEF Fresh
<1> QED BY <1>1, <1>2, <1>3, <1>4, <1>5

\* The phases in which a worker has a connection.
LEMMA AtWork ==
  ASSUME Inv, NEW w \in Worker, pc[w] \in {"reading", "join"} \cup Dispatching
  PROVE  job[w] \in Conn /\ job[w] # None
<1>1. pc[w] \notin {"free", "recv", "dead"}
  BY DEF Dispatching, Calling
<1>2. job[w] # None
  BY <1>1 DEF Inv, Shape, Held
<1>3. job[w] \in Conn \cup {None}
  BY DEF Inv, Shape, TypeOK
<1> QED BY <1>2, <1>3

LEMMA ShapeNextItem ==
  ASSUME Inv, NEW w \in Worker, job[w] # None, NextItem(w), inFlight' \in 0..SlotCap,
         UNCHANGED <<serverVars, conn, client, job, cancelled, watching>>
  PROVE  Shape'
<1>1. /\ pc' \in [Worker -> Phases] /\ pc'[w] = "item"
      /\ \A v \in Worker \ {w} : pc'[v] = pc[v]
  BY DEF NextItem, Goto, Inv, Shape, TypeOK, Phases, Dispatching
<1>2. item' \in [Worker -> Nat] /\ \A v \in Worker \ {w} : item'[v] = item[v]
  BY DEF NextItem, Inv, Shape, TypeOK
<1>3. todo' \in [Worker -> 0..MaxStages] /\ \A v \in Worker \ {w} : todo'[v] = todo[v]
  BY TransportAssumption DEF NextItem, Inv, Shape, TypeOK
<1>4. seen' \in [Worker -> 0..SlotCap] /\ watching' \subseteq Conn
  BY TransportAssumption DEF NextItem, Inv, Shape, TypeOK
<1> QED BY <1>1, <1>2, <1>3, <1>4, ShapeWork DEF Calling

LEMMA ShapeItems ==
  ASSUME Inv, NEW w \in Worker,
         Dispatch(w) \/ Stop(w) \/ Skip(w) \/ Read(w) \/ LoadSlots(w) \/ AtCapacity(w)
           \/ Reserve(w) \/ RetryReserve(w)
  PROVE  Shape'
<1>0. job[w] \in Conn /\ job[w] # None
  BY AtWork DEF Dispatch, Stop, Skip, Read, LoadSlots, AtCapacity, Reserve, RetryReserve, Dispatching
<1>1. ASSUME Skip(w) \/ AtCapacity(w) PROVE Shape'
  BY <1>0, <1>1, ShapeNextItem DEF Skip, AtCapacity, Inv, Shape, TypeOK
<1> USE TransportAssumption DEF Inv, Shape, TypeOK, Phases, Dispatching, Calling, Goto, workVars
<1>2. ASSUME Dispatch(w) PROVE Shape'
  BY <1>0, <1>2, ShapeWork DEF Dispatch
<1>3. ASSUME Stop(w) PROVE Shape'
  BY <1>0, <1>3, ShapeWork DEF Stop
<1>4. ASSUME Read(w) PROVE Shape'
  <2>1. todo' \in [Worker -> 0..MaxStages] /\ \A v \in Worker \ {w} : todo'[v] = todo[v]
    BY <1>4 DEF Read
  <2> QED BY <1>0, <1>4, <2>1, ShapeWork DEF Read
<1>5. ASSUME LoadSlots(w) PROVE Shape'
  BY <1>0, <1>5, ShapeWork DEF LoadSlots, Kind
<1>6. ASSUME Reserve(w) PROVE Shape'
  <2>1. todo' \in [Worker -> 0..MaxStages] /\ \A v \in Worker \ {w} : todo'[v] = todo[v]
    BY <1>6 DEF Reserve
  <2>2. seen' \in [Worker -> 0..SlotCap] /\ inFlight' \in 0..SlotCap
    BY <1>6 DEF Reserve
  <2>3. item[w] \in DOMAIN Request[job[w]]
    BY <1>6 DEF Reserve, Held
  <2> QED BY <1>0, <1>6, <2>1, <2>2, <2>3, ShapeWork DEF Reserve
<1>7. ASSUME RetryReserve(w) PROVE Shape'
  <2>1. seen' \in [Worker -> 0..SlotCap]
    BY <1>7 DEF RetryReserve
  <2>2. item[w] \in DOMAIN Request[job[w]] /\ Request[job[w]][item[w]] = "call"
    BY <1>7 DEF RetryReserve, Held, Kind
  <2> QED BY <1>0, <1>7, <2>1, <2>2, ShapeWork DEF RetryReserve
<1> QED BY <1>1, <1>2, <1>3, <1>4, <1>5, <1>6, <1>7

LEMMA ShapeStages ==
  ASSUME Inv, NEW w \in Worker,
         GateContinues(w) \/ GateTruncates(w) \/ CallEnds(w) \/ StageFails(w) \/ StageDone(w)
  PROVE  Shape'
<1>0. /\ job[w] \in Conn /\ job[w] # None
      /\ pc[w] \in Calling
  BY AtWork DEF GateContinues, GateTruncates, CallEnds, StageFails, StageDone, Dispatching, Calling
<1>1. item[w] \in DOMAIN Request[job[w]] /\ (pc[w] = "stage" => todo[w] > 0)
  BY <1>0 DEF Inv, Shape, Held
<1>2. ASSUME CallEnds(w) \/ StageFails(w) PROVE Shape'
  <2>1. inFlight' \in 0..SlotCap
    BY <1>0, <1>2, FreeSlotType DEF CallEnds, StageFails
  <2> QED BY <1>0, <1>2, <2>1, ShapeNextItem DEF CallEnds, StageFails
<1> USE TransportAssumption DEF Inv, Shape, TypeOK, Phases, Dispatching, Calling, Goto, workVars
<1>3. ASSUME GateContinues(w) PROVE Shape'
  BY <1>0, <1>1, <1>3, ShapeWork DEF GateContinues
<1>4. ASSUME GateTruncates(w) \/ StageDone(w) PROVE Shape'
  <2>1. /\ todo' \in [Worker -> 0..MaxStages]
        /\ \A v \in Worker \ {w} : todo'[v] = todo[v]
    <3>1. todo[w] > 0 /\ todo' = [todo EXCEPT ![w] = todo[w] - 1]
      BY <1>1, <1>4 DEF GateTruncates, StageDone
    <3>2. todo[w] - 1 \in 0..MaxStages
      BY <3>1
    <3> QED BY <3>1, <3>2
  <2>2. pc' \in [Worker -> Phases] /\ pc'[w] = "gate" /\ \A v \in Worker \ {w} : pc'[v] = pc[v]
    BY <1>4 DEF GateTruncates, StageDone
  <2> QED BY <1>0, <1>1, <1>4, <2>1, <2>2, ShapeWork DEF GateTruncates, StageDone
<1> QED BY <1>2, <1>3, <1>4

\* A worker that closes its connection is without one; no other worker had it.
LEMMA ShapeClose ==
  ASSUME Inv, NEW w \in Worker, job[w] # None,
         UNCHANGED <<serverVars, client, cancelled, watching>>,
         inFlight' \in 0..SlotCap,
         todo' \in [Worker -> 0..MaxStages], seen' \in [Worker -> 0..SlotCap],
         \A v \in Worker \ {w} : todo'[v] = todo[v],
         NEW l \in Sent \cup {"orphan"}, Put(job[w], l),
         NEW p \in {"free", "dead"}, Goto(w, p),
         job' = [job EXCEPT ![w] = None],
         item' = [item EXCEPT ![w] = 1]
  PROVE  Shape'
<1> USE TransportAssumption DEF Inv, Shape, serverVars
<1>0. /\ job[w] \in Conn /\ conn[job[w]] = "served"
      /\ conn'[job[w]] = l /\ \A c \in Conn \ {job[w]} : conn'[c] = conn[c]
      /\ \A v \in Worker \ {w} : job'[v] = job[v] /\ pc'[v] = pc[v] /\ item'[v] = item[v]
      /\ job'[w] = None /\ pc'[w] = p
  BY DEF TypeOK, Held, Put, Goto
<1>1. TypeOK'
  BY <1>0 DEF TypeOK, Put, Places, Goto, Phases
<1>2. Held'
  <2> SUFFICES ASSUME NEW v \in Worker
               PROVE  /\ job'[v] = None <=> pc'[v] \in {"free", "recv", "dead"}
                      /\ job'[v] # None => conn'[job'[v]] = "served"
                      /\ pc'[v] \in {"cas"} \cup Calling => item'[v] \in DOMAIN Request[job'[v]]
                      /\ pc'[v] = "cas" => Request[job'[v]][item'[v]] = "call"
                      /\ pc'[v] = "stage" => todo'[v] > 0
    BY DEF Held, Kind
  <2>1. CASE v = w
    BY <1>0, <2>1 DEF Calling
  <2>2. CASE v # w
    <3>1. job[v] # None => job[v] \in Conn \ {job[w]}
      BY <2>2 DEF Apart, TypeOK
    <3>2. pc'[v] = pc[v] /\ job'[v] = job[v] /\ item'[v] = item[v] /\ todo'[v] = todo[v]
      BY <1>0, <2>2
    <3>3. /\ job[v] = None <=> pc[v] \in {"free", "recv", "dead"}
          /\ job[v] # None => conn[job[v]] = "served"
          /\ pc[v] \in {"cas"} \cup Calling => item[v] \in DOMAIN Request[job[v]]
          /\ pc[v] = "cas" => Request[job[v]][item[v]] = "call"
          /\ pc[v] = "stage" => todo[v] > 0
      BY DEF Held, Kind
    <3>4. job[v] # None => conn'[job[v]] = conn[job[v]]
      BY <1>0, <3>1
    <3> QED BY <3>2, <3>3, <3>4
  <2> QED BY <2>1, <2>2
<1>3. Apart'
  BY <1>0 DEF Apart
<1>4. Queued'
  <2>1. queue \in Seq(Conn)
    BY DEF TypeOK
  <2>2. ASSUME NEW i \in DOMAIN queue PROVE conn'[queue[i]] = "queued"
    <3>1. queue[i] \in Conn
      BY <2>1
    <3>2. conn[queue[i]] = "queued"
      BY DEF Queued
    <3> QED BY <1>0, <3>1, <3>2
  <2>3. \A i, j \in DOMAIN queue : queue[i] = queue[j] => i = j
    BY DEF Queued
  <2> QED BY <2>2, <2>3 DEF Queued
<1>5. Fresh'
  BY <1>0 DEF Fresh
<1> QED BY <1>1, <1>2, <1>3, <1>4, <1>5

LEMMA ShapeCloses ==
  ASSUME Inv, NEW w \in Worker, ReadFails(w) \/ Reject(w) \/ Respond(w) \/ Panic(w)
  PROVE  Shape'
<1>0. job[w] \in Conn /\ job[w] # None
  BY AtWork DEF ReadFails, Reject, Respond, Panic, Dispatching, Calling
<1> USE DEF Inv, Shape, TypeOK
<1>1. ASSUME ReadFails(w) PROVE Shape'
  BY <1>0, <1>1, ShapeClose DEF ReadFails, Close, Sent
<1>2. ASSUME Reject(w) PROVE Shape'
  BY <1>0, <1>2, ShapeClose DEF Reject, Close, Sent
<1>3. ASSUME Respond(w) PROVE Shape'
  BY <1>0, <1>3, ShapeClose DEF Respond, Close, Sent
<1>4. ASSUME Panic(w) PROVE Shape'
  <2>1. inFlight' \in 0..SlotCap
    BY <1>4, FreeSlotType DEF Panic, Calling
  <2>2. todo' \in [Worker -> 0..MaxStages] /\ \A v \in Worker \ {w} : todo'[v] = todo[v]
    BY <1>4, TransportAssumption DEF Panic
  <2> QED BY <1>0, <1>4, <2>1, <2>2, ShapeClose DEF Panic, Sent
<1> QED BY <1>1, <1>2, <1>3, <1>4

\* Waiting at the channel, and taking a connection from it.
LEMMA ShapeChannel ==
  ASSUME Inv, NEW w \in Worker, Lock(w) \/ Poll(w) \/ Recv(w)
  PROVE  Shape'
<1> USE DEF Inv, Shape
<1>1. ASSUME NEW l \in Worker \cup {None}, NEW p \in {"free", "recv"},
             pc[w] \in {"free", "recv"}, lock' = l, Goto(w, p),
             UNCHANGED <<up, queue, conn, client, job, workVars, cancelled, watching>>
      PROVE  Shape'
  <2>1. /\ pc' \in [Worker -> Phases] /\ pc'[w] = p
        /\ \A v \in Worker \ {w} : pc'[v] = pc[v]
    BY <1>1 DEF Goto, TypeOK, Phases
  <2>2. UNCHANGED <<item, todo, seen, inFlight>>
    BY <1>1 DEF workVars
  <2>3. TypeOK'
    BY <1>1, <2>1, <2>2 DEF TypeOK
  <2>4. Held'
    BY <1>1, <2>1, <2>2 DEF Held, Kind, Calling
  <2>5. Apart' /\ Queued' /\ Fresh'
    BY <1>1 DEF Apart, Queued, Fresh
  <2> QED BY <2>3, <2>4, <2>5
<1>2. ASSUME Lock(w) PROVE Shape'
  BY <1>1, <1>2 DEF Lock
<1>3. ASSUME Poll(w) PROVE Shape'
  BY <1>1, <1>3 DEF Poll
<1>4. ASSUME Recv(w) PROVE Shape'
  <2> DEFINE h == Head(queue)
  <2>1. queue \in Seq(Conn) /\ queue # <<>> /\ queue' = Tail(queue)
    BY <1>4 DEF Recv, TypeOK
  <2>2. h \in Conn /\ queue[1] = h /\ 1 \in DOMAIN queue
    BY <2>1
  <2>3. /\ queue' \in Seq(Conn) /\ Len(queue') <= QueueCap
        /\ \A i \in DOMAIN queue' : i + 1 \in DOMAIN queue /\ queue'[i] = queue[i + 1]
    BY <2>1, TransportAssumption DEF TypeOK
  <2>4. /\ conn[h] = "queued"
        /\ \A i \in DOMAIN queue : conn[queue[i]] = "queued" /\ queue[i] \in Conn
    BY <2>1, <2>2 DEF Queued
  <2>5. \A i \in DOMAIN queue' : queue'[i] # h
    BY <2>1, <2>2, <2>3 DEF Queued
  <2>6. /\ conn' \in [Conn -> Places] /\ conn'[h] = "served"
        /\ \A c \in Conn \ {h} : conn'[c] = conn[c]
    BY <1>4, <2>2 DEF Recv, Put, TypeOK, Places
  <2>7. /\ job' \in [Worker -> Conn \cup {None}] /\ job'[w] = h
        /\ \A v \in Worker \ {w} : job'[v] = job[v]
    BY <1>4, <2>2 DEF Recv, TypeOK
  <2>8. /\ pc' \in [Worker -> Phases] /\ pc'[w] = "reading"
        /\ \A v \in Worker \ {w} : pc'[v] = pc[v]
    BY <1>4 DEF Recv, Goto, TypeOK, Phases
  <2>9. lock' = None /\ UNCHANGED <<up, client, item, todo, seen, inFlight, cancelled, watching>>
    BY <1>4 DEF Recv, workVars
  <2>10. \A v \in Worker : job[v] # None => job[v] \in Conn /\ job[v] # h
    BY <2>4 DEF Held, TypeOK
  <2>11. TypeOK'
    BY <2>3, <2>6, <2>7, <2>8, <2>9 DEF TypeOK
  <2>12. Held'
    <3> SUFFICES ASSUME NEW v \in Worker
                 PROVE  /\ job'[v] = None <=> pc'[v] \in {"free", "recv", "dead"}
                        /\ job'[v] # None => conn'[job'[v]] = "served"
                        /\ pc'[v] \in {"cas"} \cup Calling => item'[v] \in DOMAIN Request[job'[v]]
                        /\ pc'[v] = "cas" => Request[job'[v]][item'[v]] = "call"
                        /\ pc'[v] = "stage" => todo'[v] > 0
      BY DEF Held, Kind
    <3>1. CASE v = w
      BY <2>2, <2>6, <2>7, <2>8, <3>1, TransportAssumption DEF Calling
    <3>2. CASE v # w
      <4>1. /\ job'[v] = job[v] /\ pc'[v] = pc[v] /\ item'[v] = item[v] /\ todo'[v] = todo[v]
            /\ job[v] # None => conn'[job[v]] = conn[job[v]]
        BY <2>6, <2>7, <2>8, <2>9, <2>10, <3>2
      <4> QED BY <4>1 DEF Held, Kind
    <3> QED BY <3>1, <3>2
  <2>13. Apart'
    BY <2>7, <2>10 DEF Apart
  <2>14. Queued'
    <3>1. \A i \in DOMAIN queue' : conn'[queue'[i]] = "queued"
      BY <2>3, <2>4, <2>5, <2>6
    <3>2. ASSUME NEW i \in DOMAIN queue', NEW j \in DOMAIN queue', queue'[i] = queue'[j]
          PROVE  i = j
      <4>1. i + 1 = j + 1
        BY <2>3, <3>2 DEF Queued
      <4>2. DOMAIN queue' = 1..Len(queue') /\ Len(queue') \in Nat
        BY <2>3
      <4> QED BY <4>1, <4>2
    <3> QED BY <3>1, <3>2 DEF Queued
  <2>15. Fresh'
    BY <2>4, <2>6, <2>9 DEF Fresh
  <2> QED BY <2>11, <2>12, <2>13, <2>14, <2>15
<1> QED BY <1>2, <1>3, <1>4

LEMMA ShapeCrash ==
  ASSUME Inv, Crash
  PROVE  Shape'
<1> USE TransportAssumption DEF Crash, Inv, Shape
<1>1. TypeOK'
  <2>1. conn' \in [Conn -> Places]
    BY DEF TypeOK, Places, Sent
  <2>2. pc' \in [Worker -> Phases]
    BY DEF Phases
  <2>3. queue' \in Seq(Conn) /\ Len(queue') = 0
    OBVIOUS
  <2>4. /\ job' \in [Worker -> Conn \cup {None}]
        /\ item' \in [Worker -> Nat] /\ todo' \in [Worker -> 0..MaxStages]
        /\ seen' \in [Worker -> 0..SlotCap] /\ inFlight' \in 0..SlotCap
    OBVIOUS
  <2>5. Len(queue') <= QueueCap
    BY <2>3
  <2>6. /\ lock' \in Worker \cup {None} /\ watching' \subseteq Conn
        /\ client' = client /\ cancelled' = cancelled
    OBVIOUS
  <2>7. up' \in BOOLEAN
    OBVIOUS
  <2> QED BY <2>1, <2>2, <2>3, <2>4, <2>5, <2>6, <2>7 DEF TypeOK
<1>2. \A w \in Worker : pc'[w] = "dead" /\ job'[w] = None
  OBVIOUS
<1>3. Held' /\ Apart'
  BY <1>2 DEF Held, Apart, Calling
<1>4. Queued'
  BY DEF Queued
<1>5. Fresh'
  BY DEF Fresh
<1> QED BY <1>1, <1>3, <1>4, <1>5

LEMMA ShapeStep == Inv /\ [Next]_vars => Shape'
<1> SUFFICES ASSUME Inv, [Next]_vars PROVE Shape'
  OBVIOUS
<1>1. CASE UNCHANGED vars
  BY <1>1 DEF vars, serverVars, workVars, Inv, Shape, TypeOK, Held, Apart, Queued, Fresh, Kind
<1> QED
  BY <1>1, ShapePeers, ShapeEnqueue, ShapeItems, ShapeStages, ShapeCloses, ShapeChannel, ShapeCrash
     DEF Next, Accept, Serve, RunStage

-----------------------------------------------------------------------------
(* The count of slots *)

LEMMA AdmittedFinite == IsFiniteSet(Admitted) /\ Cardinality(Admitted) \in Nat
BY TransportAssumption, FS_Subset, FS_CardinalityType DEF Admitted

\* Nobody is admitted and nobody ends.
LEMMA SlotsFrame ==
  ASSUME SlotsCounted, inFlight' = inFlight,
         \A v \in Worker : v \in Admitted' <=> v \in Admitted
  PROVE  SlotsCounted'
<1>1. Admitted' = Admitted
  BY DEF Admitted
<1> QED BY <1>1 DEF SlotsCounted

\* The worker w only moves to a phase outside of the calls, or leaves its kind alone.
LEMMA SlotsElsewhere ==
  ASSUME Inv, NEW w \in Worker, inFlight' = inFlight,
         \A v \in Worker \ {w} : pc'[v] = pc[v] /\ job'[v] = job[v] /\ item'[v] = item[v],
         \/ pc[w] \notin Calling /\ pc'[w] \notin Calling
         \/ pc[w] \in Calling /\ pc'[w] \in Calling /\ job'[w] = job[w] /\ item'[w] = item[w]
         \/ pc[w] \notin Calling /\ Request[job'[w]][item'[w]] # "call"
  PROVE  SlotsCounted'
<1>1. \A v \in Worker : v \in Admitted' <=> v \in Admitted
  BY DEF Admitted, Kind
<1> QED BY <1>1, SlotsFrame DEF Inv

LEMMA SlotsTaken ==
  ASSUME Inv, NEW w \in Worker, Reserve(w)
  PROVE  SlotsCounted'
<1>1. Kind(w) = "call" /\ pc[w] = "cas"
  BY DEF Reserve, Inv, Shape, Held
<1>2. pc'[w] = "gate" /\ \A v \in Worker \ {w} : pc'[v] = pc[v]
  BY DEF Reserve, Goto, Inv, Shape, TypeOK
<1>3. Admitted' = Admitted \cup {w} /\ w \notin Admitted
  BY <1>1, <1>2 DEF Admitted, Calling, Kind, Reserve
<1>4. Cardinality(Admitted \cup {w}) = Cardinality(Admitted) + 1
  BY <1>3, AdmittedFinite, FS_AddElement
<1>5. inFlight' = inFlight + 1
  BY DEF Reserve, Unchanged
<1> QED BY <1>3, <1>4, <1>5 DEF Inv, SlotsCounted

LEMMA SlotsReturned ==
  ASSUME Inv, NEW w \in Worker, pc[w] \in Calling, FreeSlot(w),
         pc'[w] \notin Calling,
         \A v \in Worker \ {w} : pc'[v] = pc[v] /\ job'[v] = job[v] /\ item'[v] = item[v]
  PROVE  SlotsCounted'
<1>1. Admitted' = Admitted \ {w}
  BY DEF Admitted, Kind
<1>2. CASE Kind(w) = "call"
  <2>1. w \in Admitted
    BY <1>2 DEF Admitted
  <2>2. Cardinality(Admitted \ {w}) = Cardinality(Admitted) - 1
    BY <2>1, AdmittedFinite, FS_RemoveElement
  <2> QED BY <1>1, <1>2, <2>2 DEF Inv, SlotsCounted, FreeSlot
<1>3. CASE Kind(w) # "call"
  <2>1. Admitted' = Admitted
    BY <1>1, <1>3 DEF Admitted
  <2> QED BY <1>3, <2>1 DEF Inv, SlotsCounted, FreeSlot
<1> QED BY <1>2, <1>3

LEMMA SlotsStep == Inv /\ [Next]_vars => SlotsCounted'
<1> SUFFICES ASSUME Inv, [Next]_vars PROVE SlotsCounted'
  OBVIOUS
<1> USE DEF Calling, Goto
<1>0. pc \in [Worker -> Phases] /\ job \in [Worker -> Conn \cup {None}] /\ item \in [Worker -> Nat]
  BY DEF Inv, Shape, TypeOK
<1>1. ASSUME UNCHANGED <<pc, job, item, inFlight>> PROVE SlotsCounted'
  BY <1>1, SlotsFrame DEF Inv, Admitted, Kind
<1>2. ASSUME NEW c \in Conn, Connect(c) \/ Receive(c) \/ GiveUp(c) \/ Watcher(c)
      PROVE  SlotsCounted'
  BY <1>1, <1>2 DEF Connect, Receive, GiveUp, Watcher, PeerGone, WatcherStops, workVars
<1>3. ASSUME Accept PROVE SlotsCounted'
  BY <1>1, <1>3 DEF Accept, Enqueue, Overload, WriteOverload, workVars
<1>4. ASSUME NEW w \in Worker, Lock(w) \/ Recv(w) \/ Poll(w) PROVE SlotsCounted'
  BY <1>0, <1>4, SlotsElsewhere DEF Lock, Recv, Poll, workVars
<1>5. ASSUME NEW w \in Worker, ReadFails(w) \/ Reject(w) \/ Respond(w) PROVE SlotsCounted'
  BY <1>0, <1>5, SlotsElsewhere DEF ReadFails, Reject, Respond, Close
<1>6. ASSUME NEW w \in Worker, Dispatch(w) \/ Stop(w) PROVE SlotsCounted'
  BY <1>0, <1>6, SlotsElsewhere DEF Dispatch, Stop, workVars
<1>7. ASSUME NEW w \in Worker, Skip(w) \/ AtCapacity(w) PROVE SlotsCounted'
  BY <1>0, <1>7, SlotsElsewhere DEF Skip, AtCapacity, NextItem
<1>8. ASSUME NEW w \in Worker, Read(w) PROVE SlotsCounted'
  BY <1>0, <1>8, SlotsElsewhere DEF Read, Kind
<1>9. ASSUME NEW w \in Worker, LoadSlots(w) \/ RetryReserve(w) PROVE SlotsCounted'
  BY <1>0, <1>9, SlotsElsewhere DEF LoadSlots, RetryReserve
<1>10. ASSUME NEW w \in Worker, Reserve(w) PROVE SlotsCounted'
  BY <1>10, SlotsTaken
<1>11. ASSUME NEW w \in Worker, GateContinues(w) \/ GateTruncates(w) \/ StageDone(w)
       PROVE  SlotsCounted'
  BY <1>0, <1>11, SlotsElsewhere DEF GateContinues, GateTruncates, StageDone, workVars
<1>12. ASSUME NEW w \in Worker, CallEnds(w) \/ StageFails(w) PROVE SlotsCounted'
  BY <1>0, <1>12, SlotsReturned DEF CallEnds, StageFails, NextItem
<1>13. ASSUME NEW w \in Worker, Panic(w) PROVE SlotsCounted'
  BY <1>0, <1>13, SlotsReturned DEF Panic
<1>14. ASSUME Crash PROVE SlotsCounted'
  <2>1. Admitted' = {} /\ inFlight' = 0
    BY <1>14 DEF Crash, Admitted
  <2> QED BY <2>1, FS_EmptySet DEF SlotsCounted
<1>15. CASE UNCHANGED vars
  BY <1>1, <1>15 DEF vars, workVars
<1> QED
  BY <1>2, <1>3, <1>4, <1>5, <1>6, <1>7, <1>8, <1>9, <1>10, <1>11, <1>12, <1>13, <1>14, <1>15
     DEF Next, Serve, RunStage

LEMMA InvInit == Init => Inv
<1> SUFFICES ASSUME Init PROVE Inv
  OBVIOUS
<1>1. Admitted = {} /\ inFlight = 0
  BY DEF Init, Admitted, Calling
<1> QED BY <1>1, ShapeInit, FS_EmptySet DEF Inv, SlotsCounted

LEMMA InvAlways == Spec => []Inv
<1>1. Inv /\ [Next]_vars => Inv'
  BY ShapeStep, SlotsStep DEF Inv
<1> QED BY <1>1, InvInit, PTL DEF Spec

\* Every variable keeps its type for any pool, queue and limiter; in particular
\* the channel holds no more than its capacity and the limiter no more than its cap.
THEOREM TransportTypes == Spec => []TypeOK
BY InvAlways, PTL DEF Inv, Shape

\* The limiter counts exactly the calls that run, whatever fails, panics or is
\* killed, however the compare-and-swaps of any number of workers interleave.
THEOREM SlotsAreCounted == Spec => []SlotsCounted
BY InvAlways, PTL DEF Inv

-----------------------------------------------------------------------------
(* Watcher threads *)

\* A step that keeps every connection an orphan that was one, and every worker at a
\* watched connection where a watcher is accounted for.
LEMMA WatchFrame ==
  ASSUME WatchersJoined, NEW w \in Worker,
         watching' \subseteq watching,
         \A c \in watching' : conn[c] = "orphan" => conn'[c] = "orphan",
         \A v \in Worker \ {w} : pc'[v] = pc[v] /\ job'[v] = job[v],
         \A c \in watching' : job[w] = c /\ pc[w] \in Dispatching \cup {"join"} =>
           \/ job'[w] = c /\ pc'[w] \in Dispatching \cup {"join"}
           \/ conn'[c] = "orphan"
  PROVE  WatchersJoined'
BY DEF WatchersJoined

LEMMA WatchStep == Inv /\ WatchersJoined /\ [Next]_vars => WatchersJoined'
<1> SUFFICES ASSUME Inv, WatchersJoined, [Next]_vars PROVE WatchersJoined'
  OBVIOUS
<1> USE DEF Dispatching, Calling
<1>0. /\ pc \in [Worker -> Phases] /\ job \in [Worker -> Conn \cup {None}]
      /\ conn \in [Conn -> Places] /\ watching \subseteq Conn
      /\ \A w \in Worker : job[w] # None => job[w] \in Conn /\ conn[job[w]] = "served"
  BY DEF Inv, Shape, TypeOK, Held
<1>1. ASSUME UNCHANGED <<pc, job>>, watching' \subseteq watching,
             \A c \in watching' : conn[c] = "orphan" => conn'[c] = "orphan"
      PROVE  WatchersJoined'
  BY <1>1 DEF WatchersJoined
<1>2. ASSUME NEW c \in Conn, Connect(c) \/ Receive(c) \/ GiveUp(c) \/ Watcher(c)
      PROVE  WatchersJoined'
  <2>1. ASSUME Connect(c) PROVE WatchersJoined'
    <3>1. conn[c] = "new"
      BY <2>1 DEF Connect, Inv, Shape, Fresh
    <3> QED BY <1>0, <1>1, <2>1, <3>1 DEF Connect, Put
  <2>2. ASSUME Receive(c) \/ GiveUp(c) PROVE WatchersJoined'
    BY <1>1, <2>2 DEF Receive, GiveUp
  <2>3. ASSUME PeerGone(c) PROVE WatchersJoined'
    BY <1>0, <1>1, <2>3 DEF PeerGone, Put
  <2>4. ASSUME WatcherStops(c) PROVE WatchersJoined'
    BY <1>1, <2>4 DEF WatcherStops
  <2> QED BY <1>2, <2>1, <2>2, <2>3, <2>4 DEF Watcher
<1>3. ASSUME Accept PROVE WatchersJoined'
  <2>1. PICK c \in Conn : Enqueue(c) \/ Overload(c) \/ WriteOverload(c)
    BY <1>3 DEF Accept
  <2> QED BY <1>0, <1>1, <2>1 DEF Enqueue, Overload, WriteOverload, Put
<1>4. ASSUME NEW w \in Worker, Lock(w) \/ Recv(w) \/ Poll(w) PROVE WatchersJoined'
  <2>1. CASE Lock(w) \/ Poll(w)
    BY <1>0, <2>1, WatchFrame DEF Lock, Poll, Goto
  <2>2. CASE Recv(w)
    <3>1. Head(queue) \in Conn /\ conn[Head(queue)] = "queued"
      BY <2>2 DEF Recv, Inv, Shape, TypeOK, Queued
    <3> QED BY <1>0, <2>2, <3>1, WatchFrame DEF Recv, Goto, Put
  <2> QED BY <1>4, <2>1, <2>2
<1>5. ASSUME NEW w \in Worker, ReadFails(w) \/ Reject(w) \/ Respond(w) PROVE WatchersJoined'
  <2>1. job[w] \in Conn /\ conn[job[w]] = "served"
    BY <1>0, <1>5, AtWork DEF ReadFails, Reject, Respond
  <2>2. /\ conn' \in [Conn -> {conn'[c] : c \in Conn}]
        /\ \A c \in Conn \ {job[w]} : conn'[c] = conn[c]
        /\ \A v \in Worker \ {w} : pc'[v] = pc[v] /\ job'[v] = job[v]
        /\ watching' = watching
    BY <1>0, <1>5 DEF ReadFails, Reject, Respond, Close, Put, Goto
  <2>3. pc[w] = "reading" \/ job[w] \notin watching
    BY <1>5 DEF ReadFails, Reject, Respond, Joined
  <2> QED BY <1>0, <2>1, <2>2, <2>3, WatchFrame
<1>6. ASSUME NEW w \in Worker, Dispatch(w) PROVE WatchersJoined'
  <2>1. pc'[w] = "item" /\ \A v \in Worker \ {w} : pc'[v] = pc[v]
    BY <1>0, <1>6 DEF Dispatch, Goto
  <2>2. UNCHANGED <<conn, job>> /\ watching' = watching \cup {job[w]} /\ pc[w] = "reading"
    BY <1>6 DEF Dispatch
  <2> QED BY <2>1, <2>2 DEF WatchersJoined
<1>7. ASSUME NEW w \in Worker,
             \/ Stop(w) \/ Skip(w) \/ Read(w) \/ LoadSlots(w) \/ AtCapacity(w) \/ Reserve(w)
             \/ RetryReserve(w) \/ GateContinues(w) \/ GateTruncates(w) \/ CallEnds(w)
             \/ StageDone(w) \/ StageFails(w)
      PROVE  WatchersJoined'
  <2>1. /\ UNCHANGED <<conn, job, watching>>
        /\ pc'[w] \in Dispatching \cup {"join"}
        /\ \A v \in Worker \ {w} : pc'[v] = pc[v]
    BY <1>0, <1>7 DEF Stop, Skip, Read, LoadSlots, AtCapacity, Reserve, RetryReserve,
       GateContinues, GateTruncates, CallEnds, StageDone, StageFails, NextItem, Goto, workVars
  <2> QED BY <2>1, WatchFrame
<1>8. ASSUME NEW w \in Worker, Panic(w) PROVE WatchersJoined'
  <2>1. job[w] \in Conn /\ conn[job[w]] = "served"
    BY <1>0, <1>8, AtWork DEF Panic
  <2>2. /\ \A c \in Conn \ {job[w]} : conn'[c] = conn[c]
        /\ job[w] \in watching => conn'[job[w]] = "orphan"
        /\ \A v \in Worker \ {w} : pc'[v] = pc[v] /\ job'[v] = job[v]
        /\ watching' = watching
    BY <1>0, <1>8, <2>1 DEF Panic, Put, Goto
  <2> QED BY <1>0, <2>1, <2>2, WatchFrame
<1>9. ASSUME Crash PROVE WatchersJoined'
  BY <1>9 DEF Crash, WatchersJoined
<1>10. CASE UNCHANGED vars
  BY <1>1, <1>10 DEF vars, serverVars
<1> QED
  BY <1>2, <1>3, <1>4, <1>5, <1>6, <1>7, <1>8, <1>9, <1>10 DEF Next, Serve, RunStage

\* No watcher thread is left behind a request that is over, unless its worker
\* panicked: of any number of connections, batches and workers.
THEOREM NoLeftoverWatchers == Spec => []WatchersJoined
<1>1. Init => WatchersJoined
  BY DEF Init, WatchersJoined
<1> QED BY <1>1, InvAlways, WatchStep, PTL DEF Spec

\* Neither slots nor threads leak, whatever is refused, fails, panics or is killed.
THEOREM NothingEverLeaks == Spec => []NothingLeaks
BY SlotsAreCounted, NoLeftoverWatchers, PTL DEF NothingLeaks

-----------------------------------------------------------------------------
(* Answers *)

\* What a waiting proxy can find on its connection: 202 only for notifications, and
\* never the mere end of the stream.
Heard ==
  \A c \in Conn :
    /\ conn[c] = "accepted" => OnlyNotes(Request[c])
    /\ conn[c] = "closed" => client[c] # "waiting"

\* A request that is being dispatched is watched as long as its proxy waits; this is
\* what keeps the stream open when the worker panics.
Watched ==
  \A w \in Worker : pc[w] \in Dispatching => job[w] \in watching \/ client[job[w]] # "waiting"

Answering == Heard /\ Watched /\ EveryCallAnswered

LEMMA AnswerFrame ==
  ASSUME Answering, UNCHANGED <<conn, client, job>>,
         watching \subseteq watching',
         \A w \in Worker :
           pc'[w] \in Dispatching => pc[w] \in Dispatching \/ job[w] \in watching'
  PROVE  Answering'
BY DEF Answering, Heard, Watched, EveryCallAnswered

LEMMA AnswerPeers ==
  ASSUME Inv, Answering, NEW c \in Conn, Connect(c) \/ Receive(c) \/ GiveUp(c) \/ Watcher(c)
  PROVE  Answering'
<1> USE DEF Answering, Heard, Watched, EveryCallAnswered, Put, Tell
<1>0. /\ client \in [Conn -> {"new", "waiting", "answer", "error", "silence"}]
      /\ conn \in [Conn -> Places]
      /\ \A w \in Worker : pc[w] \in Dispatching => job[w] \in Conn /\ conn[job[w]] = "served"
  BY AtWork DEF Inv, Shape, TypeOK, Held
<1>1. ASSUME Connect(c) PROVE Answering'
  <2>1. conn[c] = "new"
    BY <1>1 DEF Connect, Inv, Shape, Fresh
  <2>2. /\ conn'[c] \in {"new", "backlog"} /\ client'[c] \in {"waiting", "error"}
        /\ \A d \in Conn \ {c} : conn'[d] = conn[d] /\ client'[d] = client[d]
        /\ UNCHANGED <<pc, job, watching>>
    BY <1>0, <1>1, <2>1 DEF Connect
  <2> QED BY <1>0, <2>1, <2>2
<1>2. ASSUME Receive(c) PROVE Answering'
  <2>1. client'[c] = "silence" => OnlyNotes(Request[c])
    BY <1>0, <1>2 DEF Receive
  <2>2. /\ client'[c] # "waiting" /\ \A d \in Conn \ {c} : client'[d] = client[d]
        /\ UNCHANGED <<conn, pc, job, watching>>
    BY <1>0, <1>2 DEF Receive
  <2> QED BY <1>0, <2>1, <2>2
<1>3. ASSUME GiveUp(c) PROVE Answering'
  <2>1. /\ client'[c] = "error" /\ \A d \in Conn \ {c} : client'[d] = client[d]
        /\ UNCHANGED <<conn, pc, job, watching>>
    BY <1>0, <1>3 DEF GiveUp
  <2> QED BY <1>0, <2>1
<1>4. ASSUME PeerGone(c) PROVE Answering'
  <2>1. /\ client[c] # "waiting" /\ watching' = watching \ {c}
        /\ conn'[c] = "closed" \/ conn'[c] = conn[c]
        /\ \A d \in Conn \ {c} : conn'[d] = conn[d]
        /\ UNCHANGED <<client, pc, job>>
    BY <1>0, <1>4 DEF PeerGone
  <2> QED BY <1>0, <2>1
<1>5. ASSUME WatcherStops(c) PROVE Answering'
  <2>1. PICK w \in Worker : pc[w] = "join" /\ job[w] = c
    BY <1>5 DEF WatcherStops
  <2>2. \A v \in Worker : pc[v] \in Dispatching => job[v] # c
    BY <1>0, <2>1 DEF Inv, Shape, Apart, Held, Dispatching, Calling
  <2> QED BY <1>5, <2>2 DEF WatcherStops
<1> QED BY <1>1, <1>2, <1>3, <1>4, <1>5 DEF Watcher

\* The server puts a connection somewhere, of which its own worker is done.
LEMMA AnswerPut ==
  ASSUME Inv, Answering, NEW c \in Conn, NEW l \in Places,
         conn' = [conn EXCEPT ![c] = l], UNCHANGED <<client, watching>>,
         l = "accepted" => OnlyNotes(Request[c]),
         l = "closed" => client[c] # "waiting",
         \A w \in Worker : pc'[w] \in Dispatching => pc[w] \in Dispatching /\ job'[w] = job[w]
  PROVE  Answering'
BY DEF Inv, Shape, TypeOK, Answering, Heard, Watched, EveryCallAnswered

\* A server that was killed does not come back.
LEMMA UpBefore == Inv /\ [Next]_vars /\ up' => up /\ ~Crash
<1> SUFFICES ASSUME Inv, [Next]_vars, ~Crash PROVE up' = up
  BY DEF Crash, Inv, Shape, TypeOK
<1> QED
  BY DEF Next, Accept, Serve, RunStage, Watcher, Connect, Receive, GiveUp, PeerGone, WatcherStops,
     Enqueue, Overload, WriteOverload, Lock, Recv, Poll, ReadFails, Reject, Dispatch, Stop,
     Respond, Skip, Read, LoadSlots, AtCapacity, Reserve, RetryReserve, GateContinues,
     GateTruncates, CallEnds, StageDone, StageFails, Panic, vars, serverVars

LEMMA AnswerStep == Inv /\ Answering /\ [Next]_vars /\ ~Crash => Answering'
<1> SUFFICES ASSUME Inv, Answering, [Next]_vars, ~Crash PROVE Answering'
  OBVIOUS
<1> USE DEF Dispatching, Calling
<1>0. pc \in [Worker -> Phases] /\ job \in [Worker -> Conn \cup {None}]
  BY DEF Inv, Shape, TypeOK
<1>1. ASSUME Accept PROVE Answering'
  <2>1. PICK c \in Conn : Enqueue(c) \/ Overload(c) \/ WriteOverload(c)
    BY <1>1 DEF Accept
  <2> QED BY <2>1, AnswerPut DEF Enqueue, Overload, WriteOverload, Refusal, Put, Places, Sent
<1>2. ASSUME NEW w \in Worker, Lock(w) \/ Recv(w) \/ Poll(w) PROVE Answering'
  <2>1. CASE Lock(w) \/ Poll(w)
    BY <1>0, <2>1, AnswerFrame DEF Lock, Poll, Goto
  <2>2. CASE Recv(w)
    <3>1. Head(queue) \in Conn
      BY <2>2 DEF Recv, Inv, Shape, TypeOK
    <3>2. \A v \in Worker : pc'[v] \in Dispatching => pc[v] \in Dispatching /\ job'[v] = job[v]
      BY <1>0, <2>2 DEF Recv, Goto
    <3> QED BY <2>2, <3>1, <3>2, AnswerPut DEF Recv, Put, Places
  <2> QED BY <1>2, <2>1, <2>2
<1>3. ASSUME NEW w \in Worker, ReadFails(w) \/ Reject(w) \/ Respond(w) PROVE Answering'
  <2>1. job[w] \in Conn
    BY <1>3, AtWork DEF ReadFails, Reject, Respond
  <2>2. \A v \in Worker : pc'[v] \in Dispatching => pc[v] \in Dispatching /\ job'[v] = job[v]
    BY <1>0, <1>3 DEF ReadFails, Reject, Respond, Close, Goto
  <2>3. CASE ReadFails(w)
    BY <2>1, <2>2, <2>3, AnswerPut DEF ReadFails, Close, Put, Places, Sent
  <2>4. CASE Reject(w)
    BY <2>1, <2>2, <2>4, AnswerPut DEF Reject, Close, Put, Places, Sent
  <2>5. CASE Respond(w)
    BY <2>1, <2>2, <2>5, AnswerPut DEF Respond, Close, Put, Places, Sent
  <2> QED BY <1>3, <2>3, <2>4, <2>5
<1>4. ASSUME NEW w \in Worker, Dispatch(w) PROVE Answering'
  BY <1>0, <1>4, AnswerFrame DEF Dispatch, Goto
<1>5. ASSUME NEW w \in Worker,
             \/ Stop(w) \/ Skip(w) \/ Read(w) \/ LoadSlots(w) \/ AtCapacity(w) \/ Reserve(w)
             \/ RetryReserve(w) \/ GateContinues(w) \/ GateTruncates(w) \/ CallEnds(w)
             \/ StageDone(w) \/ StageFails(w)
      PROVE  Answering'
  BY <1>0, <1>5, AnswerFrame
     DEF Stop, Skip, Read, LoadSlots, AtCapacity, Reserve, RetryReserve, GateContinues,
         GateTruncates, CallEnds, StageDone, StageFails, NextItem, Goto, workVars
<1>6. ASSUME NEW w \in Worker, Panic(w) PROVE Answering'
  <2>1. job[w] \in Conn
    BY <1>6, AtWork DEF Panic
  <2>2. job[w] \in watching \/ client[job[w]] # "waiting"
    BY <1>6 DEF Panic, Answering, Watched
  <2>3. \A v \in Worker : pc'[v] \in Dispatching => pc[v] \in Dispatching /\ job'[v] = job[v]
    BY <1>0, <1>6 DEF Panic, Goto
  <2>4. CASE job[w] \in watching
    <3>1. conn' = [conn EXCEPT ![job[w]] = "orphan"] /\ UNCHANGED <<client, watching>>
      BY <1>6, <2>4 DEF Panic, Put
    <3> QED BY <2>1, <2>3, <3>1, AnswerPut DEF Places
  <2>5. CASE job[w] \notin watching
    <3>1. conn' = [conn EXCEPT ![job[w]] = "closed"] /\ UNCHANGED <<client, watching>>
      BY <1>6, <2>5 DEF Panic, Put
    <3> QED BY <2>1, <2>2, <2>3, <2>5, <3>1, AnswerPut DEF Places, Sent
  <2> QED BY <2>4, <2>5
<1>7. CASE UNCHANGED vars
  BY <1>7, AnswerFrame DEF vars, serverVars
<1> QED
  BY <1>1, <1>2, <1>3, <1>4, <1>5, <1>6, <1>7, AnswerPeers DEF Next, Serve, RunStage

\* While the server is not killed, no call is left in silence: whatever is refused,
\* fails, panics, is cancelled or given up, the editor gets an answer or an error.
THEOREM CallsAreAnswered == Spec => []AnsweredUnlessKilled
<1>1. Init => (up => Answering)
  BY DEF Init, Answering, Heard, Watched, EveryCallAnswered, Dispatching, Calling
<1>2. Inv /\ (up => Answering) /\ [Next]_vars => (up => Answering)'
  BY UpBefore, AnswerStep
<1>3. (up => Answering) => AnsweredUnlessKilled
  BY DEF Answering, EveryCallAnswered, AnsweredUnlessKilled
<1> QED BY <1>1, <1>2, <1>3, InvAlways, PTL DEF Spec

-----------------------------------------------------------------------------
(* Cancellation *)

\* No stage begins for a peer known to have gone, in whatever item of its batch the
\* worker is, and with any number of stages.
THEOREM GoneStartNothing == Spec => NoStageForTheGone
<1> DEFINE Spared ==
      \A w \in Worker : pc[w] = "gate" /\ pc'[w] = "stage" => ~cancelled[job[w]]
<1>1. ASSUME Inv, [Next]_vars PROVE Spared
  <2> SUFFICES ASSUME NEW w \in Worker, pc[w] = "gate", pc'[w] = "stage"
               PROVE  ~cancelled[job[w]]
    OBVIOUS
  <2>0. pc \in [Worker -> Phases]
    BY <1>1 DEF Inv, Shape, TypeOK
  <2>1. \A v \in Worker : GateContinues(v) => v = w
    BY <2>0 DEF GateContinues, Goto
  <2>2. ASSUME NEW v \in Worker, Serve(v) \/ RunStage(v) PROVE GateContinues(v)
    BY <2>0, <2>2 DEF Serve, RunStage, Lock, Recv, Poll, ReadFails, Reject, Dispatch, Stop,
       Respond, Skip, Read, LoadSlots, AtCapacity, Reserve, RetryReserve, GateTruncates,
       CallEnds, StageDone, StageFails, Panic, Close, NextItem, Goto
  <2>3. \E v \in Worker : Serve(v) \/ RunStage(v)
    BY <1>1, <2>0 DEF Next, Accept, Connect, Receive, GiveUp, Watcher, PeerGone, WatcherStops,
       Enqueue, Overload, WriteOverload, Crash, vars
  <2> QED BY <2>1, <2>2, <2>3 DEF GateContinues, Cancelled
<1> QED BY <1>1, InvAlways, PTL DEF Spec, NoStageForTheGone

-----------------------------------------------------------------------------
(* The model slot.  BorrowsCounted says nothing of the count while the     *)
(* slot is not Ready; that it is exact there too is what makes it zero     *)
(* again when the next load begins.                                        *)

Counted == inFlightCount = Cardinality(At("holding"))
HeldIsReady == slot # "ready" => At("holding") = {}

\* SlotTypeOK but for the bound on inFlightCount, which follows from Counted
PartTypes ==
  /\ slot \in {"empty", "loading", "ready", "failed"}
  /\ cooling \in BOOLEAN
  /\ idle \in BOOLEAN
  /\ at \in [Thread -> CallerPhases]
  /\ owed \in [Thread -> {"nothing", "ok", "err"}]

SlotInv == PartTypes /\ Counted /\ HeldIsReady /\ SingleFlight /\ NoLostWakeup

\* Every set of threads has a cardinality, at most that of Thread.
LEMMA CountBound ==
  ASSUME NEW l
  PROVE  /\ IsFiniteSet(At(l))
         /\ Cardinality(At(l)) \in 0..Cardinality(Thread)
<1>1. IsFiniteSet(Thread)
  BY SlotAssumption
<1>2. At(l) \in SUBSET Thread
  BY DEF At
<1>3. IsFiniteSet(At(l)) /\ Cardinality(At(l)) <= Cardinality(Thread)
  BY <1>1, <1>2, FS_Subset
<1>4. Cardinality(At(l)) \in Nat /\ Cardinality(Thread) \in Nat
  BY <1>1, <1>3, FS_CardinalityType
<1>5. \A m, n \in Nat : m <= n => m \in 0..n
  OBVIOUS
<1> QED
  BY <1>3, <1>4, <1>5

\* A thread that starts to hold is one more.
LEMMA HoldsMore ==
  ASSUME NEW t \in Thread, at[t] # "holding", PartTypes, Becomes(t, "holding"), Counted
  PROVE  Cardinality(At("holding")') = inFlightCount + 1
<1>1. At("holding")' = At("holding") \cup {t}
  BY DEF At, Becomes, PartTypes
<1>2. t \notin At("holding")
  BY DEF At
<1>3. IsFiniteSet(At("holding"))
  BY CountBound
<1>4. Cardinality(At("holding") \cup {t}) = Cardinality(At("holding")) + 1
  BY <1>2, <1>3, FS_AddElement
<1> QED
  BY <1>1, <1>4 DEF Counted

\* A thread that drops its borrow is one fewer.
LEMMA HoldsFewer ==
  ASSUME NEW t \in Thread, at[t] = "holding", PartTypes, Becomes(t, "out"), Counted
  PROVE  /\ Cardinality(At("holding")') = inFlightCount - 1
         /\ inFlightCount > 0
<1>1. At("holding")' = At("holding") \ {t}
  BY DEF At, Becomes, PartTypes
<1>2. t \in At("holding")
  BY DEF At
<1>3. At("holding") # {}
  BY <1>2
<1>4. IsFiniteSet(At("holding")) /\ Cardinality(At("holding")) \in Nat
  <2>1. IsFiniteSet(At("holding"))
    BY CountBound
  <2> QED
    BY <2>1, FS_CardinalityType
<1>5. Cardinality(At("holding")) # 0
  BY <1>3, <1>4, FS_EmptySet
<1> QED
  BY <1>1, <1>2, <1>4, <1>5, FS_RemoveElement DEF Counted

\* A thread that neither holds nor comes to hold leaves the holders alone.
LEMMA HoldersKept ==
  ASSUME NEW t \in Thread, at[t] # "holding", PartTypes,
         NEW l, l # "holding", Becomes(t, l)
  PROVE  At("holding")' = At("holding")
BY DEF At, Becomes, PartTypes

-----------------------------------------------------------------------------
LEMMA SlotInvInit == SlotInit => SlotInv
<1> SUFFICES ASSUME SlotInit PROVE SlotInv
  OBVIOUS
<1>1. \A l \in {"holding", "loading", "waiting"} : At(l) = {}
  BY DEF SlotInit, At
<1>2. PartTypes
  BY DEF SlotInit, PartTypes, CallerPhases, Between
<1>3. Counted
  BY <1>1, FS_EmptySet DEF SlotInit, Counted
<1> QED
  BY <1>1, <1>2, <1>3 DEF SlotInv, HeldIsReady, SingleFlight, NoLostWakeup

LEMMA SlotInvStep == SlotInv /\ [SlotNext]_slotVars => SlotInv'
<1> SUFFICES ASSUME SlotInv, [SlotNext]_slotVars PROVE SlotInv'
  OBVIOUS
<1> USE DEF SlotInv
<1>1. ASSUME NEW t \in Thread, Borrow(t), at[t] \in {"out", "demand", "again"} PROVE SlotInv'
  <2>1. PartTypes'
    BY <1>1 DEF PartTypes, Borrow, Becomes, CallerPhases, Between
  <2>2. Counted'
    BY <1>1, HoldsMore DEF Counted, Borrow
  <2>3. HeldIsReady' /\ SingleFlight' /\ NoLostWakeup'
    BY <1>1 DEF HeldIsReady, SingleFlight, NoLostWakeup, At, Borrow, Becomes, PartTypes
  <2> QED
    BY <2>1, <2>2, <2>3
<1>2. ASSUME NEW t \in Thread, NEW l \in {"demand", "out", "waiting", "again", "panicked"},
             at[t] \in {"out", "demand", "again", "notified", "loading"}, Becomes(t, l),
             l = "waiting" => slot = "loading",
             owed' \in [Thread -> {"nothing", "ok", "err"}],
             UNCHANGED <<slot, cooling, idle, inFlightCount>>
      PROVE SlotInv'
  <2>1. PartTypes'
    BY <1>2 DEF PartTypes, Becomes, CallerPhases, Between
  <2>2. At("holding")' = At("holding")
    BY <1>2, HoldersKept
  <2>3. Counted' /\ HeldIsReady'
    BY <1>2, <2>2 DEF Counted, HeldIsReady
  <2>4. SingleFlight' /\ NoLostWakeup'
    BY <1>2 DEF SingleFlight, NoLostWakeup, At, Becomes, PartTypes
  <2> QED
    BY <2>1, <2>3, <2>4
<1>3. ASSUME NEW t \in Thread, TryBorrow(t) PROVE SlotInv'
  <2>1. CASE Borrow(t)
    BY <1>1, <1>3, <2>1 DEF TryBorrow
  <2>2. CASE Becomes(t, "demand") /\ UNCHANGED <<slot, cooling, idle, inFlightCount, owed>>
    BY <1>2, <1>3, <2>2 DEF TryBorrow, PartTypes
  <2> QED
    BY <1>3, <2>1, <2>2 DEF TryBorrow
<1>4. ASSUME NEW t \in Thread, BorrowReady(t) PROVE SlotInv'
  BY <1>1, <1>4 DEF BorrowReady
<1>5. ASSUME NEW t \in Thread, Refuse(t) PROVE SlotInv'
  <2>1. owed' \in [Thread -> {"nothing", "ok", "err"}]
    BY <1>5 DEF Refuse, PartTypes
  <2> QED
    BY <1>2, <1>5, <2>1 DEF Refuse
<1>6. ASSUME NEW t \in Thread, Wait(t) PROVE SlotInv'
  BY <1>2, <1>6 DEF Wait, PartTypes
<1>7. ASSUME NEW t \in Thread, Wake(t) PROVE SlotInv'
  <2>1. CASE slot = "loading"
    BY <1>2, <1>7, <2>1 DEF Wake, PartTypes
  <2>2. CASE slot # "loading"
    BY <1>2, <1>7, <2>2 DEF Wake, PartTypes
  <2> QED
    BY <2>1, <2>2
<1>8. ASSUME NEW t \in Thread, LoadPanics(t) PROVE SlotInv'
  BY <1>2, <1>8 DEF LoadPanics, PartTypes
<1>9. ASSUME NEW t \in Thread, Reset(t) PROVE SlotInv'
  <2>1. At("holding")' = At("holding") /\ At("loading")' = At("loading") /\ At("waiting")' = At("waiting")
    BY <1>9 DEF Reset, At
  <2>2. slot = "failed" /\ slot' = "empty"
    BY <1>9 DEF Reset
  <2> QED
    BY <1>9, <2>1, <2>2 DEF Reset, PartTypes, Counted, HeldIsReady, SingleFlight, NoLostWakeup
<1>10. ASSUME NEW t \in Thread, ClaimLoad(t) PROVE SlotInv'
  <2>1. slot = "empty" /\ slot' = "loading" /\ Becomes(t, "loading") /\ at[t] # "holding"
    BY <1>10 DEF ClaimLoad, Unclaimed
  <2>2. PartTypes'
    BY <1>10 DEF ClaimLoad, PartTypes, Becomes, CallerPhases, Between
  <2>3. At("holding")' = At("holding")
    BY <2>1, HoldersKept
  <2>4. Counted' /\ HeldIsReady'
    BY <1>10, <2>1, <2>3 DEF ClaimLoad, Counted, HeldIsReady
  <2>5. SingleFlight' /\ NoLostWakeup'
    BY <2>1 DEF SingleFlight, NoLostWakeup, At, Becomes, PartTypes
  <2> QED
    BY <2>2, <2>4, <2>5
<1>11. ASSUME NEW t \in Thread, LoadOk(t) PROVE SlotInv'
  <2>1. slot = "loading" /\ At("holding") = {}
    BY <1>11 DEF LoadOk, Publish, SingleFlight, HeldIsReady, At
  <2>2. At("holding")' = {t}
    BY <1>11, <2>1 DEF LoadOk, Publish, At, Woken, PartTypes
  <2>3. PartTypes'
    BY <1>11 DEF LoadOk, Publish, PartTypes, CallerPhases, Between
  <2>4. Counted'
    BY <1>11, <2>2, FS_Singleton DEF LoadOk, Counted
  <2>5. At("waiting")' = {}
    BY <1>11 DEF LoadOk, Publish, At, Woken, PartTypes
  <2>6. At("loading")' = {}
    BY <1>11 DEF LoadOk, Publish, At, Woken, PartTypes, SingleFlight
  <2> QED
    BY <1>11, <2>3, <2>4, <2>5, <2>6 DEF LoadOk, HeldIsReady, SingleFlight, NoLostWakeup
<1>12. ASSUME NEW t \in Thread, LoadFails(t) PROVE SlotInv'
  <2>1. slot = "loading" /\ At("holding") = {}
    BY <1>12 DEF LoadFails, Publish, SingleFlight, HeldIsReady, At
  <2>2. At("holding")' = {}
    BY <1>12, <2>1 DEF LoadFails, Publish, At, Woken, PartTypes
  <2>3. PartTypes'
    BY <1>12 DEF LoadFails, Publish, PartTypes, CallerPhases, Between
  <2>4. At("waiting")' = {}
    BY <1>12 DEF LoadFails, Publish, At, Woken, PartTypes
  <2>5. At("loading")' = {}
    BY <1>12 DEF LoadFails, Publish, At, Woken, PartTypes, SingleFlight
  <2> QED
    BY <1>12, <2>1, <2>2, <2>3, <2>4, <2>5 DEF LoadFails, Counted, HeldIsReady, SingleFlight, NoLostWakeup
<1>13. ASSUME NEW t \in Thread, Release(t) PROVE SlotInv'
  <2>1. slot = "ready" /\ t \in At("holding")
    BY <1>13 DEF Release, HeldIsReady, At
  <2>2. PartTypes'
    BY <1>13 DEF Release, PartTypes, Becomes, CallerPhases, Between
  <2>3. Counted'
    BY <1>13, <2>1, HoldsFewer DEF Release, Returned, Counted
  <2>4. HeldIsReady' /\ SingleFlight' /\ NoLostWakeup'
    BY <1>13, <2>1 DEF Release, HeldIsReady, SingleFlight, NoLostWakeup, At, Becomes, PartTypes
  <2> QED
    BY <2>2, <2>3, <2>4
<1>14. CASE Evict
  <2>1. At("holding")' = At("holding") /\ At("loading")' = At("loading") /\ At("waiting")' = At("waiting")
    BY <1>14 DEF Evict, At
  <2>2. At("holding") = {}
    BY <1>14, CountBound, FS_EmptySet DEF Evict, Evictable, Counted
  <2> QED
    BY <1>14, <2>1, <2>2 DEF Evict, Evictable, PartTypes, Counted, HeldIsReady, SingleFlight, NoLostWakeup
<1>15. CASE CooldownElapses \/ IdleElapses \/ UNCHANGED slotVars
  <2>1. /\ UNCHANGED <<slot, inFlightCount, at>> /\ cooling' \in BOOLEAN /\ idle' \in BOOLEAN
        /\ owed' \in [Thread -> {"nothing", "ok", "err"}]
    BY <1>15 DEF CooldownElapses, IdleElapses, slotVars, PartTypes
  <2>2. At("holding")' = At("holding") /\ At("loading")' = At("loading") /\ At("waiting")' = At("waiting")
    BY <2>1 DEF At
  <2> QED
    BY <2>1, <2>2 DEF PartTypes, Counted, HeldIsReady, SingleFlight, NoLostWakeup
<1> QED
  BY <1>3, <1>4, <1>5, <1>6, <1>7, <1>8, <1>9, <1>10, <1>11, <1>12, <1>13, <1>14, <1>15
     DEF SlotNext, Demand

LEMMA SlotInvHolds == SlotSpec => []SlotInv
BY SlotInvInit, SlotInvStep, PTL DEF SlotSpec

-----------------------------------------------------------------------------
\* The slot is well typed; in particular the borrow count never exceeds the threads.
THEOREM SlotTypes == SlotSpec => []SlotTypeOK
<1>1. SlotInv => SlotTypeOK
  BY CountBound DEF SlotInv, PartTypes, Counted, SlotTypeOK
<1> QED
  BY <1>1, SlotInvHolds, PTL

\* in_flight_count counts the live borrows, so an evicted model is one nobody holds.
THEOREM BorrowsAlwaysCounted == SlotSpec => []BorrowsCounted
<1>1. SlotInv => BorrowsCounted
  BY DEF SlotInv, Counted, HeldIsReady, BorrowsCounted
<1> QED
  BY <1>1, SlotInvHolds, PTL

\* One thread runs the factory at a time, and only while the slot is Loading.
THEOREM OneLoadAtATime == SlotSpec => []SingleFlight
BY SlotInvHolds, PTL DEF SlotInv

\* No waiter is left asleep after the load it waits for.
THEOREM WaitersAreWoken == SlotSpec => []NoLostWakeup
BY SlotInvHolds, PTL DEF SlotInv

\* One load at a time, and whoever waits for it is woken.
THEOREM TheModelIsOne == SlotSpec => []OneModel
BY BorrowsAlwaysCounted, OneLoadAtATime, WaitersAreWoken, PTL DEF OneModel

-----------------------------------------------------------------------------
(* Until a window elapses, the outcome a sleeper was woken for is still in   *)
(* the slot when it takes the mutex again.                                   *)

Kept ==
  \A u \in Thread : at[u] \in {"notified", "again"} /\ owed[u] # "nothing" =>
     \/ owed[u] = "ok" /\ slot = "ready" /\ ~idle
     \/ owed[u] = "err" /\ slot = "failed" /\ cooling

LEMMA StepKept ==
  ASSUME SlotInv, Kept, [SlotNext]_slotVars
  PROVE  Kept'
<1> USE DEF Kept, PartTypes, Becomes
<1>0. PartTypes
  BY DEF SlotInv
<1>1. ASSUME NEW t \in Thread, Borrow(t) PROVE Kept'
  BY <1>0, <1>1 DEF Borrow
<1>2. ASSUME NEW t \in Thread, TryBorrow(t) PROVE Kept'
  BY <1>0, <1>1, <1>2 DEF TryBorrow
<1>3. ASSUME NEW t \in Thread, BorrowReady(t) PROVE Kept'
  BY <1>1, <1>3 DEF BorrowReady
<1>4. ASSUME NEW t \in Thread, Refuse(t) PROVE Kept'
  BY <1>0, <1>4 DEF Refuse
<1>5. ASSUME NEW t \in Thread, Reset(t) PROVE Kept'
  BY <1>0, <1>5 DEF Reset, CooledDown
<1>6. ASSUME NEW t \in Thread, ClaimLoad(t) PROVE Kept'
  BY <1>0, <1>6 DEF ClaimLoad, Unclaimed
<1>7. ASSUME NEW t \in Thread, Wait(t) PROVE Kept'
  BY <1>0, <1>7 DEF Wait
<1>8. ASSUME NEW t \in Thread, Wake(t) PROVE Kept'
  BY <1>0, <1>8 DEF Wake
<1>9. ASSUME NEW t \in Thread, LoadOk(t) PROVE Kept'
  <2>1. slot = "loading"
    BY <1>9 DEF LoadOk, Publish, SlotInv, SingleFlight, At
  <2> QED
    BY <1>0, <1>9, <2>1 DEF LoadOk, Publish, Woken, At
<1>10. ASSUME NEW t \in Thread, LoadFails(t) PROVE Kept'
  <2>1. slot = "loading"
    BY <1>10 DEF LoadFails, Publish, SlotInv, SingleFlight, At
  <2> QED
    BY <1>0, <1>10, <2>1 DEF LoadFails, Publish, Woken, At
<1>11. ASSUME NEW t \in Thread, LoadPanics(t) PROVE Kept'
  BY <1>0, <1>11 DEF LoadPanics
<1>12. ASSUME NEW t \in Thread, Release(t) PROVE Kept'
  BY <1>0, <1>12 DEF Release
<1>13. CASE Evict
  BY <1>13 DEF Evict, Evictable
<1>14. CASE CooldownElapses \/ IdleElapses
  BY <1>14 DEF CooldownElapses, IdleElapses
<1>15. CASE UNCHANGED slotVars
  BY <1>15 DEF slotVars
<1> QED
  BY <1>2, <1>3, <1>4, <1>5, <1>6, <1>7, <1>8, <1>9, <1>10, <1>11, <1>12, <1>13, <1>14, <1>15
     DEF SlotNext, Demand

LEMMA StepOutcome ==
  ASSUME SlotInv, Kept, [SlotNext]_slotVars
  PROVE  [\A t \in Thread : at[t] = "again" /\ owed[t] # "nothing" /\ at'[t] # "again" =>
            at'[t] = IF owed[t] = "ok" THEN "holding" ELSE "out"]_slotVars
<1> SUFFICES ASSUME SlotNext, NEW t \in Thread, at[t] = "again", owed[t] # "nothing",
                    at'[t] # "again"
             PROVE  at'[t] = IF owed[t] = "ok" THEN "holding" ELSE "out"
  OBVIOUS
<1> USE DEF PartTypes, Becomes
<1>0. PartTypes
  BY DEF SlotInv
<1>1. \/ owed[t] = "ok" /\ slot = "ready"
      \/ owed[t] = "err" /\ slot = "failed" /\ cooling
  BY DEF Kept
<1>2. PICK u \in Thread : TryBorrow(u) \/ Demand(u) \/ Release(u)
  BY DEF SlotNext, Evict, CooldownElapses, IdleElapses
<1>3. CASE u = t
  <2>1. BorrowReady(t) \/ Refuse(t)
    BY <1>0, <1>1, <1>2, <1>3
       DEF TryBorrow, Release, Demand, Reset, CooledDown, ClaimLoad, Unclaimed, Wait, Wake,
           LoadOk, LoadFails, LoadPanics, Publish
  <2> QED
    BY <1>0, <1>1, <2>1 DEF BorrowReady, Borrow, Refuse
<1>4. CASE u # t
  <2>1. at'[t] = at[t]
    BY <1>0, <1>2, <1>4
       DEF TryBorrow, Borrow, Release, Demand, BorrowReady, Refuse, Reset, ClaimLoad, Wait, Wake,
           LoadOk, LoadFails, LoadPanics, Publish, Woken, At
  <2> QED
    BY <2>1
<1> QED
  BY <1>3, <1>4

\* A waiter returns with the outcome of the load it slept through, and does not run
\* the factory a second time, unless a window has elapsed meanwhile.
THEOREM WaitersShareTheOutcome == SlotSpec => SameOutcome
<1>1. SlotInit => Kept
  BY DEF SlotInit, Kept
<1>2. SlotInv /\ Kept /\ [SlotNext]_slotVars => Kept'
  BY StepKept
<1>3. SlotInv /\ Kept /\ [SlotNext]_slotVars =>
        [\A t \in Thread : at[t] = "again" /\ owed[t] # "nothing" /\ at'[t] # "again" =>
            at'[t] = IF owed[t] = "ok" THEN "holding" ELSE "out"]_slotVars
  BY StepOutcome
<1> QED
  BY <1>1, <1>2, <1>3, SlotInvHolds, PTL DEF SlotSpec, SameOutcome
=============================================================================
