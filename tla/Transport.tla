----------------------------- MODULE Transport -----------------------------
(***************************************************************************)
(* One call of an editor on its way through a thin proxy session           *)
(* (bins/cognis-mcpd/src/proxy.rs) and the HTTP transport of the server    *)
(* behind it (crates/cognis-mcp/src/http.rs, caps.rs, server.rs): an       *)
(* acceptor thread, a bounded channel, a pool of workers that share its    *)
(* receiver under a mutex, a watcher thread per dispatched request, and    *)
(* the limiter of concurrent tool calls.  A connection carries one request *)
(* (Connection: close), which may be a batch.                              *)
(*                                                                         *)
(* Whether the deadline of a call is over when a stage gate looks at it is *)
(* left open: no property depends on how long a stage takes.               *)
(***************************************************************************)
EXTENDS Integers, Sequences, FiniteSets

CONSTANTS
  Conn,       \* connections, each the forwarding of one line of an editor
  Worker,     \* threads of the pool (worker_count)
  None,       \* "no worker", "no connection"
  Request,    \* the request on each connection, a batch of items
  QueueCap,   \* queue_capacity of the channel
  SlotCap,    \* cap of the ConcurrencyLimiter (0 in the code turns it off)
  MaxStages,  \* bound: stages of a tool, each behind a gate
  Stuck,      \* environment: connections whose stages may take for ever
  Panics,     \* environment: a stage may panic
  Crashes     \* environment: the server may be killed

\* a tool call; resources/read, which runs a tool without a slot; one that is
\* answered on the spot; a notification
Kinds == {"call", "read", "plain", "note"}

ASSUME TransportAssumption ==
  /\ IsFiniteSet(Worker)
  /\ None \notin Conn \cup Worker
  /\ Request \in [Conn -> Seq(Kinds)]
  /\ QueueCap \in Nat \ {0} /\ SlotCap \in Nat \ {0} /\ MaxStages \in Nat
  /\ Stuck \subseteq Conn
  /\ {Panics, Crashes} \subseteq BOOLEAN

VARIABLES
  up,         \* the server process runs
  conn,       \* where the server has each connection, or what it has sent on it
  client,     \* the proxy's side: waiting, or what it told the editor
  queue,      \* the channel between the acceptor and the workers
  lock,       \* the worker that holds the mutex of the receiver
  pc, job,    \* where each worker is, and its connection
  item,       \* the item of the batch it is at
  todo,       \* the stages left to the tool it runs
  seen,       \* the count of slots it has read
  inFlight,   \* in_flight of the limiter
  cancelled,  \* the CancelToken of each connection
  watching    \* the connections whose watcher thread runs

serverVars == <<up, queue, lock>>
workVars == <<item, todo, seen, inFlight>>
vars == <<serverVars, conn, client, pc, job, workVars, cancelled, watching>>

-----------------------------------------------------------------------------
\* closed: the request was read and nothing was written; reset: it was not read
Sent == {"ok", "accepted", "refused", "closed", "reset"}
Places == {"new", "backlog", "queued", "refusing", "served", "orphan"} \cup Sent
Calling == {"gate", "stage"}
Dispatching == {"item", "cas"} \cup Calling
Phases == {"free", "recv", "reading", "join", "dead"} \cup Dispatching

TypeOK ==
  /\ up \in BOOLEAN
  /\ conn \in [Conn -> Places]
  /\ client \in [Conn -> {"new", "waiting", "answer", "error", "silence"}]
  /\ queue \in Seq(Conn) /\ Len(queue) <= QueueCap
  /\ lock \in Worker \cup {None}
  /\ pc \in [Worker -> Phases]
  /\ job \in [Worker -> Conn \cup {None}]
  /\ item \in [Worker -> Nat]
  /\ todo \in [Worker -> 0..MaxStages]
  /\ seen \in [Worker -> 0..SlotCap]
  /\ inFlight \in 0..SlotCap
  /\ cancelled \in [Conn -> BOOLEAN]
  /\ watching \subseteq Conn

Init ==
  /\ up = TRUE
  /\ conn = [c \in Conn |-> "new"]
  /\ client = [c \in Conn |-> "new"]
  /\ queue = <<>>
  /\ lock = None
  /\ pc = [w \in Worker |-> "free"]
  /\ job = [w \in Worker |-> None]
  /\ item = [w \in Worker |-> 1]
  /\ todo = [w \in Worker |-> 0]
  /\ seen = [w \in Worker |-> 0]
  /\ inFlight = 0
  /\ cancelled = [c \in Conn |-> FALSE]
  /\ watching = {}

Put(c, l) == conn' = [conn EXCEPT ![c] = l]
Tell(c, r) == client' = [client EXCEPT ![c] = r]
Goto(w, l) == pc' = [pc EXCEPT ![w] = l]

OnlyNotes(r) == \A i \in DOMAIN r : r[i] = "note"

-----------------------------------------------------------------------------
(* forward_jsonrpc, in a proxy session *)

\* connected, and the request written
Connect(c) ==
  /\ client[c] = "new"
  /\ IF up THEN Tell(c, "waiting") /\ Put(c, "backlog")
           ELSE Tell(c, "error") /\ UNCHANGED conn
  /\ UNCHANGED <<serverVars, pc, job, workVars, cancelled, watching>>

\* the status line: 200 and 202 are results, any other status an error; the end of
\* the stream is taken for the answer to a notification, a reset (which some
\* systems always send for a process that died) for an error
Receive(c) ==
  /\ client[c] = "waiting"
  /\ \/ conn[c] = "ok" /\ Tell(c, "answer")
     \/ conn[c] \in {"accepted", "closed"} /\ Tell(c, "silence")
     \/ conn[c] \in {"refused", "closed", "reset"} /\ Tell(c, "error")
  /\ UNCHANGED <<serverVars, conn, pc, job, workVars, cancelled, watching>>

\* the read timeout, or the end of the session: the proxy closes
GiveUp(c) ==
  /\ client[c] = "waiting"
  /\ Tell(c, "error")
  /\ UNCHANGED <<serverVars, conn, pc, job, workVars, cancelled, watching>>

-----------------------------------------------------------------------------
(* serve_listener_with: the accept loop *)

\* Mutant of Full: one more than the channel holds
FullBeyond == Len(queue) > QueueCap

Full == Len(queue) >= QueueCap

\* the acceptor's own thread writes the overload response
Accepting == up /\ \A c \in Conn : conn[c] # "refusing"

Enqueue(c) ==
  /\ Accepting /\ conn[c] = "backlog"
  /\ ~Full
  /\ queue' = Append(queue, c)
  /\ Put(c, "queued")
  /\ UNCHANGED <<up, lock, client, pc, job, workVars, cancelled, watching>>

\* TrySendError::Full
Overload(c) ==
  /\ Accepting /\ conn[c] = "backlog"
  /\ Full
  /\ Put(c, "refusing")
  /\ UNCHANGED <<serverVars, client, pc, job, workVars, cancelled, watching>>

\* Mutant of Refusal: the stream is drained and dropped without a status
RefusalSilent == "closed"

\* 503 with Retry-After
Refusal == "refused"

WriteOverload(c) ==
  /\ up /\ conn[c] = "refusing"
  /\ Put(c, Refusal)
  /\ UNCHANGED <<serverVars, client, pc, job, workVars, cancelled, watching>>

-----------------------------------------------------------------------------
(* worker_loop *)

\* Mutant of Unlocked: the guard lives to the end of the loop body
UnlockedAtRest == lock = None /\ \A w \in Worker : pc[w] \in {"free", "recv", "dead"}

Unlocked == lock = None

Lock(w) ==
  /\ pc[w] = "free"
  /\ Unlocked
  /\ lock' = w
  /\ Goto(w, "recv")
  /\ UNCHANGED <<up, queue, conn, client, job, workVars, cancelled, watching>>

\* recv_timeout returns a stream; it is handled outside of the lock
Recv(w) ==
  /\ pc[w] = "recv"
  /\ queue # <<>>
  /\ queue' = Tail(queue)
  /\ lock' = None
  /\ job' = [job EXCEPT ![w] = Head(queue)]
  /\ Put(Head(queue), "served")
  /\ Goto(w, "reading")
  /\ UNCHANGED <<up, client, workVars, cancelled, watching>>

\* recv_timeout times out
Poll(w) ==
  /\ pc[w] = "recv"
  /\ queue = <<>>
  /\ lock' = None
  /\ Goto(w, "free")
  /\ UNCHANGED <<up, queue, conn, client, job, workVars, cancelled, watching>>

\* the worker is through with its connection
Close(w, l) ==
  /\ Put(job[w], l)
  /\ job' = [job EXCEPT ![w] = None]
  /\ item' = [item EXCEPT ![w] = 1]
  /\ Goto(w, "free")

-----------------------------------------------------------------------------
(* handle_connection *)

\* the peer has gone before the request was complete
ReadFails(w) ==
  /\ pc[w] = "reading"
  /\ client[job[w]] # "waiting"
  /\ Close(w, "closed")
  /\ UNCHANGED <<serverVars, client, todo, seen, inFlight, cancelled, watching>>

\* 401, 403 or 405
Reject(w) ==
  /\ pc[w] = "reading"
  /\ Close(w, "refused")
  /\ UNCHANGED <<serverVars, client, todo, seen, inFlight, cancelled, watching>>

\* the body is read, the watcher started
Dispatch(w) ==
  /\ pc[w] = "reading"
  /\ watching' = watching \cup {job[w]}
  /\ Goto(w, "item")
  /\ UNCHANGED <<serverVars, conn, client, job, workVars, cancelled>>

Kind(w) == Request[job[w]][item[w]]

\* the batch is through: stop is set
Stop(w) ==
  /\ pc[w] = "item"
  /\ item[w] > Len(Request[job[w]])
  /\ Goto(w, "join")
  /\ UNCHANGED <<serverVars, conn, client, job, workVars, cancelled, watching>>

\* Mutant of Joined: the watcher is left to itself
JoinedNever(w) == TRUE

Joined(w) == job[w] \notin watching

\* 200, or 202 if nothing is to be said
Respond(w) ==
  /\ pc[w] = "join"
  /\ Joined(w)
  /\ Close(w, IF OnlyNotes(Request[job[w]]) THEN "accepted" ELSE "ok")
  /\ UNCHANGED <<serverVars, client, todo, seen, inFlight, cancelled, watching>>

\* watch_peer_disconnect reads the end of the stream
PeerGone(c) ==
  /\ c \in watching
  /\ client[c] # "waiting"
  /\ cancelled' = [cancelled EXCEPT ![c] = TRUE]
  /\ watching' = watching \ {c}
  /\ IF conn[c] = "orphan" THEN Put(c, "closed") ELSE UNCHANGED conn
  /\ UNCHANGED <<serverVars, client, pc, job, workVars>>

\* watch_peer_disconnect sees stop
WatcherStops(c) ==
  /\ c \in watching
  /\ \E w \in Worker : pc[w] = "join" /\ job[w] = c
  /\ watching' = watching \ {c}
  /\ UNCHANGED <<serverVars, conn, client, pc, job, workVars, cancelled>>

-----------------------------------------------------------------------------
(* handle_with_cancel and the limiter *)

\* on to the next item of the batch; what the last one needed is gone
NextItem(w) ==
  /\ item' = [item EXCEPT ![w] = @ + 1]
  /\ todo' = [todo EXCEPT ![w] = 0]
  /\ seen' = [seen EXCEPT ![w] = 0]
  /\ Goto(w, "item")

\* answered on the spot, or a notification
Skip(w) ==
  /\ pc[w] = "item" /\ item[w] \in DOMAIN Request[job[w]]
  /\ Kind(w) \in {"plain", "note"}
  /\ NextItem(w)
  /\ UNCHANGED <<serverVars, conn, client, job, inFlight, cancelled, watching>>

\* resources_read: no slot
Read(w) ==
  /\ pc[w] = "item" /\ item[w] \in DOMAIN Request[job[w]]
  /\ Kind(w) = "read"
  /\ \E n \in 0..MaxStages : todo' = [todo EXCEPT ![w] = n]
  /\ Goto(w, "gate")
  /\ UNCHANGED <<serverVars, conn, client, job, item, seen, inFlight, cancelled, watching>>

\* acquire: the load
LoadSlots(w) ==
  /\ pc[w] = "item" /\ item[w] \in DOMAIN Request[job[w]]
  /\ Kind(w) = "call"
  /\ seen' = [seen EXCEPT ![w] = inFlight]
  /\ Goto(w, "cas")
  /\ UNCHANGED <<serverVars, conn, client, job, item, todo, inFlight, cancelled, watching>>

\* the retryable capacity error
AtCapacity(w) ==
  /\ pc[w] = "cas" /\ seen[w] >= SlotCap
  /\ NextItem(w)
  /\ UNCHANGED <<serverVars, conn, client, job, inFlight, cancelled, watching>>

\* Mutant of Unchanged: the count is stored without a comparison
UnchangedOrNot(w) == TRUE

\* the comparison of compare_exchange_weak
Unchanged(w) == inFlight = seen[w]

\* admitted; 0 stages when an index is missing, the snapshot fails or the
\* arguments are refused
Reserve(w) ==
  /\ pc[w] = "cas" /\ seen[w] < SlotCap
  /\ Unchanged(w)
  /\ inFlight' = seen[w] + 1
  /\ seen' = [seen EXCEPT ![w] = 0]
  /\ \E n \in 0..MaxStages : todo' = [todo EXCEPT ![w] = n]
  /\ Goto(w, "gate")
  /\ UNCHANGED <<serverVars, conn, client, job, item, cancelled, watching>>

\* the count moved: once more with the value observed
RetryReserve(w) ==
  /\ pc[w] = "cas" /\ seen[w] < SlotCap
  /\ inFlight # seen[w]
  /\ seen' = [seen EXCEPT ![w] = inFlight]
  /\ UNCHANGED <<serverVars, conn, client, pc, job, item, todo, inFlight, cancelled, watching>>

\* Drop of the ConcurrencySlot
FreeSlot(w) == inFlight' = IF Kind(w) = "call" THEN inFlight - 1 ELSE inFlight

\* Mutant of Cancelled: every item of a batch has a token of its own
CancelledFirst(w) == cancelled[job[w]] /\ item[w] = 1

Cancelled(w) == cancelled[job[w]]

\* stage_gate: Continue
GateContinues(w) ==
  /\ pc[w] = "gate" /\ todo[w] > 0
  /\ ~Cancelled(w)
  /\ Goto(w, "stage")
  /\ UNCHANGED <<serverVars, conn, client, job, workVars, cancelled, watching>>

\* Truncate: the stage is left out
GateTruncates(w) ==
  /\ pc[w] = "gate" /\ todo[w] > 0
  /\ ~Cancelled(w)
  /\ todo' = [todo EXCEPT ![w] = @ - 1]
  /\ UNCHANGED <<serverVars, conn, client, pc, job, item, seen, inFlight, cancelled, watching>>

\* cancelled, past the hard deadline, or no stage left
CallEnds(w) ==
  /\ pc[w] = "gate"
  /\ NextItem(w)
  /\ FreeSlot(w)
  /\ UNCHANGED <<serverVars, conn, client, job, cancelled, watching>>

\* a stage fails and the call with it
StageFails(w) ==
  /\ pc[w] = "stage"
  /\ NextItem(w)
  /\ FreeSlot(w)
  /\ UNCHANGED <<serverVars, conn, client, job, cancelled, watching>>

StageDone(w) ==
  /\ pc[w] = "stage"
  /\ todo' = [todo EXCEPT ![w] = @ - 1]
  /\ Goto(w, "gate")
  /\ UNCHANGED <<serverVars, conn, client, job, item, seen, inFlight, cancelled, watching>>

\* the thread unwinds: the slot is dropped, stop is never set, and a watcher that
\* runs keeps the socket open
Panic(w) ==
  /\ Panics
  /\ pc[w] = "stage"
  /\ FreeSlot(w)
  /\ Put(job[w], IF job[w] \in watching THEN "orphan" ELSE "closed")
  /\ job' = [job EXCEPT ![w] = None]
  /\ Goto(w, "dead")
  /\ item' = [item EXCEPT ![w] = 1]
  /\ todo' = [todo EXCEPT ![w] = 0]
  /\ UNCHANGED <<serverVars, client, seen, cancelled, watching>>

-----------------------------------------------------------------------------
\* the process is killed: its sockets are closed, or reset if bytes of the request
\* were left unread
Crash ==
  /\ Crashes /\ up
  /\ up' = FALSE
  /\ conn' = [c \in Conn |->
       IF conn[c] \in Sent \cup {"new"} THEN conn[c]
       ELSE IF conn[c] = "orphan" \/ (\E w \in Worker : job[w] = c /\ pc[w] # "reading")
            THEN "closed" ELSE "reset"]
  /\ queue' = <<>>
  /\ lock' = None
  /\ pc' = [w \in Worker |-> "dead"]
  /\ job' = [w \in Worker |-> None]
  /\ inFlight' = 0
  /\ watching' = {}
  /\ item' = [w \in Worker |-> 1]
  /\ todo' = [w \in Worker |-> 0]
  /\ seen' = [w \in Worker |-> 0]
  /\ UNCHANGED <<client, cancelled>>

-----------------------------------------------------------------------------
Accept == \E c \in Conn : Enqueue(c) \/ Overload(c) \/ WriteOverload(c)

RunStage(w) == StageDone(w) \/ StageFails(w) \/ Panic(w)

Serve(w) ==
  \/ Lock(w) \/ Recv(w) \/ Poll(w)
  \/ ReadFails(w) \/ Reject(w) \/ Dispatch(w) \/ Stop(w) \/ Respond(w)
  \/ Skip(w) \/ Read(w)
  \/ LoadSlots(w) \/ AtCapacity(w) \/ Reserve(w) \/ RetryReserve(w)
  \/ GateContinues(w) \/ GateTruncates(w) \/ CallEnds(w)

Watcher(c) == PeerGone(c) \/ WatcherStops(c)

Next ==
  \/ \E c \in Conn : Connect(c) \/ Receive(c) \/ GiveUp(c) \/ Watcher(c)
  \/ Accept
  \/ \E w \in Worker : Serve(w) \/ RunStage(w)
  \/ Crash

Spec == Init /\ [][Next]_vars

\* The threads of the server run, stages end unless their connection is Stuck, and
\* a proxy reads what was sent.  Nobody is obliged to connect or to give up.
Fairness ==
  /\ WF_vars(Accept)
  /\ \A w \in Worker :
       /\ WF_vars(Serve(w))
       /\ WF_vars(job[w] \notin Stuck /\ RunStage(w))
  /\ \A c \in Conn : WF_vars(Watcher(c)) /\ WF_vars(Receive(c))

FairSpec == Spec /\ Fairness

-----------------------------------------------------------------------------
(* Properties *)

Admitted == {w \in Worker : pc[w] \in Calling /\ Kind(w) = "call"}

\* The limiter counts exactly the tool calls that run, never more than its cap:
\* neither the compare-and-swap of two workers, nor an error, a cancellation or a
\* panic loses or leaks a slot (caps.rs:231-279).
SlotsCounted == inFlight = Cardinality(Admitted)

\* A watcher thread runs only while its request is dispatched or joined, or if its
\* worker panicked: threads do not pile up behind finished requests.
WatchersJoined ==
  \A c \in watching :
    \/ conn[c] = "orphan"
    \/ \E w \in Worker : job[w] = c /\ pc[w] \in Dispatching \cup {"join"}

\* Neither slots nor threads leak.
NothingLeaks == SlotsCounted /\ WatchersJoined

\* While the server is not killed no call is left in silence, whatever is refused,
\* fails, panics, is cancelled or given up.
AnsweredUnlessKilled ==
  up => \A c \in Conn : client[c] = "silence" => OnlyNotes(Request[c])

\* "so the editor sees a structured failure rather than a hung call"
\* (proxy.rs:536-537): a request that asks for an answer gets one, or an error.
EveryCallAnswered ==
  \A c \in Conn : client[c] = "silence" => OnlyNotes(Request[c])

\* Once the watcher has seen the peer go, no further stage begins for it, in any
\* item of the batch (server.rs:119-125).
NoStageForTheGone ==
  [][\A w \in Worker :
       pc[w] = "gate" /\ pc'[w] = "stage" => ~cancelled[job[w]]]_vars

Able == {w \in Worker : pc[w] # "dead" /\ job[w] \notin Stuck}

\* "a slow request cannot head-of-line-block the next" (http.rs:423): while a
\* worker is left, a proxy gets an answer however long the others' requests take.
SlowNeverBlocks ==
  \A c \in Conn \ Stuck :
    client[c] = "waiting" ~> client[c] # "waiting" \/ conn[c] = "orphan" \/ Able = {}
=============================================================================
