# Verification of cognis

cognis is a local-first indexer of source code: it parses a repository into a
graph of symbols in one SQLite database, embeds the symbols with a local model,
keeps both fresh while files change, and serves them to editors and agents over
MCP. This directory holds TLA+ modules that model its core, the TLC
configurations that check them on small instances, and theorems checked by
TLAPS. Paths and line numbers below are those of the repository.

1. [The system](#the-system)
2. [What is modelled](#what-is-modelled)
3. [The modules](#the-modules)
4. [The runs](#the-runs)
5. [Where code and documentation disagree](#where-code-and-documentation-disagree)
6. [What is proved](#what-is-proved)
7. [What is only model-checked, and what is not modelled](#what-is-only-model-checked-and-what-is-not-modelled)
8. [Plan](#plan)
9. [Running the checks](#running-the-checks)

## The system

### Processes

Several processes of one user work on one repository:

- **cognis-indexd** (`bins/cognis-indexd`) watches the tree, indexes each batch
  of changed files and writes a status file the editor shows.
- **`cognis index`** (`bins/cognis-cli/src/index.rs`) indexes the tree once; the
  editor runs it with `--full` before it starts the daemon, and a user at any
  time.
- **The workspace owner** (`crates/cognis-owner`, surface `cognis owner`) opens
  the database once and serves MCP over HTTP.
- **cognis-mcpd** (`bins/cognis-mcpd`) is what an MCP client starts: a thin
  stdin/stdout proxy that finds the owner or starts one, or a server of its own.
- **The editor extension** (`apps/cognis-mcp`, TypeScript) starts, stops and
  reclaims all of them.

What they share is a directory, `.cognis/`: the database `index.db` (SQLite, one
writer at a time), one lease file per role, the endpoint file `mcpd.endpoint`
and the status file. There is no other channel between indexer, owner and
extension; MCP clients reach the owner over HTTP.

### Inventory

| component | state it keeps | operations | how it interacts | what makes it correct |
|---|---|---|---|---|
| lease (`cognis-core/src/lease.rs`) | one JSON file per role: nonce, pid, heartbeat, expiry; a heartbeat thread per owner | acquire_or_attach, heartbeat, release | read, rename and remove of one file by processes with no lock | one owner; a record that was given up stays gone; nobody is refused for ever by the dead |
| publication (`cognis-store/src/publish.rs`, `lib.rs`) | tables symbol, edge, file, symbol_vec, embedding_queue; rows generation, vector_space, meta | publish a batch; reconcile the vector table; reset and heal on open | one write transaction per call, from any process | generations count commits and drained queues; no vector of another space or of a deleted symbol |
| pipeline (`cognis-indexer/src/pipeline.rs`, `planner.rs`, `embed_queue.rs`) | the batch in hand, the rows selected for draining | plan, prepare, publish, drain; open with a policy | several transactions per call, other processes in between | every live symbol has a current vector or is queued; symbols are those of the parsed version |
| resolver, writer (`resolver.rs`, `writer.rs`, `shadow.rs`) | edges, import tables | resolve references, find dependents | part of a plan | no dangling edge; batches confluent |
| model slot (`cognis-embed/src/lifecycle.rs`) | slot state, borrow count, cooldown | try_borrow, borrow_or_load, drop, try_idle_evict | threads over a mutex and a condition variable | one load at a time; no eviction under a borrow; nobody sleeps for ever |
| indexing daemon (`cognis-indexd/src/lib.rs`) | event channel, batch, status | rebuild, watch, collect, index, report | notification service, pipeline, status file | no edit is lost unnoticed; it comes to rest; the status tells the truth |
| watcher queue (`cognis-owner/src/queue.rs`) | latest observation per path, overflow flag | offer, take | watcher thread and planner over a mutex | bounded, nothing observed is forgotten |
| owner (`cognis-owner/src/lib.rs`, `run.rs`) | lease guard, database, listener, endpoint file | become_owner, attach, ensure_owner_running, advertise | lease, endpoint file, TCP port | at most one; every adapter finds it |
| thin proxy (`cognis-mcpd/src/proxy.rs`) | target of the session | resolve_or_spawn_heavy, forward | endpoint file, port, child process | a session reaches the owner of its repository and model |
| MCP transport (`cognis-mcp/src/http.rs`, `caps.rs`) | bounded queue, worker pool, slot counter, cancel tokens | accept, refuse, handle, cancel | TCP clients, worker threads | every connection is answered or refused; bounded work |
| tools, store engine, snapshot (`cognis-mcp/src/tools.rs`, `store_engine.rs`, `cognis-store/src/snapshot.rs`) | a read transaction per call | the MCP tools | the database | one call reads one generation |
| graph search and ranking (`cognis-csar`, `cognis-retrieval`) | none | push, diffuse, impact, fuse, pack | pure | bounds, order, budget |
| complexity (`cognis-core/src/complexity.rs`, `cognis-indexer/src/complexity.rs`) | none | summarise a function, find recursion, carry growth to callers | called by three tools on what one snapshot holds | nothing is cheaper than what it calls; the right callee is blamed |
| parsers, enrichers, config, models, command line reports | none | parse, render | pure | not protocol |
| extension (`apps/cognis-mcp/src/*.ts`) | processes started, settings, consent | activate, toggle, reconcile, deactivate | asynchronous callbacks, the lease files | one daemon per repository; off means off, until something starts a daemon anew |

`PROJECT.json` lists every component with its status, and under `hazards` the
places in this code that are hard to test, with the properties that cover them.

### What is hard

- *Processes with no lock.* The lease is made of reads, renames and removals;
  between any two of them another process may act. The database serialises
  transactions, but a pipeline needs several of them per batch, and `cognis index`
  takes no lease at all (`index.rs:96-116`), so it runs beside the daemon.
- *Values read and used later.* The drainer embeds text it read transactions ago;
  the reconcile of the vector table decides outside its transaction; a heartbeat
  compares a nonce and then writes.
- *Failure in the middle.* Any process may be killed at any step; a transaction, a
  rename, an embedding or a factory may fail or panic.
- *Events.* Watcher events may be late, lost, or caused by the daemon itself.
- *Limits.* Budgets, caps, cooldowns, a queue that may be configured to hold
  nothing.

## What is modelled

| module | models | instances for TLC | theorems |
|---|---|---|---|
| `Lease` | the lease of one role and its processes | `MCLease` | `LeaseProofs` |
| `IndexStore` | the database and the pipelines that write it | `MCIndexStore` | `IndexProofs` |
| `Generations` | what the store promises about its generations: the abstract specification `IndexStore` implements | `MCIndexStore` (by refinement) | `IndexProofs` |
| `Resolver` | the resolution of calls, hierarchies, routes, keys and tables to edges | `MCPlanner`, `MCDrift` | `PlannerProofs` |
| `Planner` | incremental indexing: the two readings of a plan, dependents, what is published, against a rebuild | `MCPlanner`, `MCDrift` | `PlannerProofs` |
| `ModelSlot` | the lazy holder of the model | `MCTransport` | `TransportProofs` |
| `Watch` | the daemon's loop | `MCIndexing` | `DaemonProofs` |
| `Extension` | the editor window: toggle, daemon handles, lease records, commands, starts on changes of files, reconciler of watcher and MCP entry; and the daemon processes as it sees them | `MCIndexing` | `DaemonProofs` |
| `Owner` | how sessions find or start the workspace owner, and the owner processes | `MCOwner` | `OwnerProofs` |
| `WatcherQueue` | the owner's watcher queue | `MCServing` | `ServingProofs` |
| `Transport` | a proxy session's call, the HTTP transport and the admission of tool calls | `MCTransport` | `TransportProofs` |
| `ToolCalls` | what a tool reads, stage by stage, from its snapshot and from the resident graph | `MCServing` | `ServingProofs` |
| `Push` | diffusion over the graph, fusion of ranks, the budget of a capsule | `MCServing` | `SearchProofs` |
| `Lookup` | the indexed lookups and traces and the full scans they replaced | `MCServing` | `SearchProofs` |
| `Complexity` | growth of functions, recursion, propagation over the call graph | `MCServing` | |

`MCServing` puts five modules side by side that share no state, because one owner
process does all five; a behaviour of it is a behaviour of one of them, while the others
rest in a state with nothing to do. `MCIndexing` does the same for
the daemon's loop and the window that starts and stops daemons: while one moves, the other
rests in a state of its own with nothing left to do; and `MCTransport` for the transport of a
server and the model its threads share.

Definitions written as a mutant (`KeptAlways` before `Kept`) are plausible bugs:
each property is broken by one of them, which shows that it says something about
the code. They take no part in any specification.

## The modules

### Lease

`file` is the lease file, `pc[p]` where process p is in `acquire_or_attach`
(lease.rs:285-373), its tenure or `release`, `hb[p]` its heartbeat thread.
Each file operation is an action: `CallAttach`/`CallReclaim` the first read,
`Write` the atomic rename, `VerifyOwn`, `VerifyLost`, `VerifyExpired`,
`VerifyVanished`, `ReverifyVanished` and `WriteUnverified` the branches after the
verifying reads, `BeatRead` and `BeatWrite` the two halves of a heartbeat,
`ReleaseOwn` and `Unlink` those of a release. `Crash` stops a process wherever it
is; the file stays. The `...Fails` actions are the error returns.

Wall-clock time is represented by the time *left* to each record, so
`is_live_at` is `left > 0` and `Tick` ages every record, on disk or about to be
written; how long ago a record expired, nothing asks. `TypeOK` bounds the time left by one
window, which a heartbeat that put the old expiry off would break. A corrupt file is treated by the code as a missing one and is not
modelled apart. `retired` is a history variable.

Three constants describe the environment rather than the code: `Serial` (no two
processes are inside `acquire_or_attach` at once), `Timely` (no live process lets
its record lapse), `IOErrors`. The safety properties `RetiredNonceGone` and
`RecordHasOwner` need neither of the first two (`RecordHasOwner` needs the file
system to work: a release whose remove fails leaves a record without an owner, until
it expires). The documented promises, mutual exclusion and not clobbering newer
owners, hold only under `Serial` and `Timely`; `lease_double_owner` shows what
happens without `Serial`.

### IndexStore and Generations

One action per write transaction, because SQLite makes a `BEGIN IMMEDIATE ..
COMMIT` atomic against other writers and against a crash. A pipeline goes through
`Open` (with a model, or without one under `--skip-embeddings`), `StartWatch`, then `IndexTouched` or `IndexRepo` (the plan: it reads the
tree and the cache), `Prepare` (embed, or leave pending), `Publish`, and a drain:
`DueRows`, per row `HydrateRow`, then `RemoveStaleRow`, or `ReconcileCheck`,
`ReconcileApply` and `PersistSuccess` or `RecordFailure`.

A *version* of a file (`Content`) defines one symbol. The symbol's id is its path
with a hash of the body (`BodyOf`), so two versions with one body, an edit of a
comment, have the same id and different text to embed; here the text is the
version itself. `vec` remembers from which text and by which model a vector was
computed, which is what the properties need. `Kept` is the treatment of the stored
vectors by `upsert_vector_space_and_vectors` (publish.rs:561-672): tables of
another width or form are dropped, vectors of another recorded space deleted.
Which other files a change re-publishes is left open (`D`), since it depends on
the edges.

`Generations` is the contract: a source generation that counts commits and a
semantic generation that catches up in exactly the step that leaves nothing
pending. `FollowsContract` instantiates it over the queue and the generation row.

Bounds: `MaxGen` publications, `MaxEdits` edits, `Budget` 1 (the least
interesting positive budget: a drain always leaves rows behind when there are
several). Environment: `Crashes`, `IOErrors`.

### ModelSlot

Each critical section of the slot's mutex is an action; the factory runs outside
of the mutex. The waiters of the condition variable are the threads at `waiting`,
`Wake` is `wait_while` taking the mutex again. `cooling` and `idle` stand for the
two clocks: a cooldown that has not elapsed, an idle interval that has. Either may
elapse at any moment, between the notification of a sleeper and its next critical
section too, and then a sleeper may find the slot to be loaded anew; `owed`, a
history variable, remembers the outcome a sleeper was woken for until that happens.
`FactoryPanics` lets the factory unwind: no destructor restores the slot
(lifecycle.rs:398), and nothing catches the panic.

### Watch

The daemon is a sequence of stages; `Edit` happens between any two. The channel
`events` carries paths in order, the database and status writes of the daemon
included (`Own`, a path under `.cognis`, which `should_ignore` filters). Two
events in a row for one path count as one, as the notification service coalesces
them. `Plan` is the moment the planner reads the files (`seen`), `Publish` the
moment the index gets what was read. `missed` is a history variable: the files
with an edit lost at a place where the code loses one, namely no registered
watcher, a notification error, a failed batch, or the end of the process.
The pipeline's inner steps are those of `IndexStore`.

### Extension

The extension host runs one thread, so an action is what it does between two awaits.
`task[t]` is one run of an asynchronous function, with the stage it waits in: `prepare`
and `entry` of a turn-on (activation.ts:117-211), `waiting` of a turn-off until the daemon
is gone (deactivation.ts:87-113), `exiting`, `dying` and `orphan` of `stopLiveIndexing`
(indexd.ts:569-633: the close event, the pid, the pid of a status file without a handle),
`fetch` and `rehydrate` of the commands, of a start on a change of a file, and of a reload.
`FilesChange` is that start (`ensureLiveIndexingForWorkspaceChange`, extension.ts:365-415,
called on every save, creation, deletion and renaming, 1853-1876): with the setting
`autoIndexOnFileChange` (the constant `AutoIndex`, TRUE as is its default), no live daemon
and no pause, `startLive` begins, one at a time and whatever the toggle says. `newest`, `wanted` and `aborted`
are generation, `inFlight` and the abort signals of `ToggleControl`; `handle` is the entry of
the map `processes`, either of a process this window spawned (with a pid field, `pidOf`,
that the status file overwrites) or of a pid it attached to. `started` are the child
processes whose close event is to come.

A daemon is a process that takes or finds the lease (`Acquires`), keeps its record alive
(`Beats`: a record that was removed comes back, one that was replaced ends the thread),
reports to the status file, and ends on SIGTERM, by itself, or at once before its handler
is installed. The two sides compute the start id of a process differently (lease.rs:511,
lease.ts:219-230), which is why a record the daemon wrote never verifies (`Mismatch`), and why
one the extension wrote for the daemon looks to it like somebody else's. Whether the daemon
or the extension writes first after a spawn is open.

Bounds: `MaxDaemons` processes are spawned, `MaxTasks` requests, commands, starts on changes of files and reloads are
made, and one begins only if every spawn it may need is left besides those of the tasks
under way (`Begins`), so that no behaviour ends in the middle of a start; a reload starts a
daemon only if one more is left for what follows it (`Rehydrates`). `calm` is a history variable: one task at a time
(a change of a file that is to start a daemon is one, and counts as overlapping when it comes while
another is under way), processes end within the time they are given, no reload. The model has
one window and one repository, which is set up (`config.yaml`). `liveIndexing`, which every poll overwrites with what it sees, is left open at
the one place it is read (`Rehydrates`).

### Resolver and Planner

What a file may hold (`Content`) is given as the symbols in it: what each calls, quotes,
extends and does to tables, and the other words of its text. A name is a sequence of words
(`db.host`). `Resolver` has the five resolvers of `resolver.rs` that make edges: calls, type
hierarchies, routes, configuration keys, tables. A name with more bearers in other files, or
a key with more readers, than `FanoutCap` (8 in the code) gets no edge; of the edges proposed
between two symbols `Best` keeps the most confident of each kind.

In `Planner` `tree` is the source tree, `cache`, `syms` and `edges` are the tables file,
symbol and edge. Edits (`Change`, `Rename`) put the path into `touched`, what the watcher has
reported, or into `unseen` if the report is missed. `ReadTouched` and `ReadAll` are the first
reading of a plan: the files asked about, the cached ones among them left alone.
`PlanAndPublish` is the second: the files whose symbols have an edge to something changed
(`AffectedFiles`) or mention it (`ReferenceFiles`) are read as they are by then
(planner.rs:268), resolved together with whatever their text names or quotes
(`ResolverSymbols`), and published: rows of deleted files go, edges out of the files read are
replaced, edges into a symbol that is gone are flagged `missing`. `PlanFails` is a dependent
that vanishes under the reader: no batch. `Rebuild` is the reference: the index that the same
tree would have from nothing. `EqualsRebuild` compares the two whenever no change is pending
or unreported. The history variable `overtaken` names the sequences after which they differ
(see "Other behaviour"): the second reading saw a file in a state not yet published, or a
deletion took a name back under the fan-out cap (`Crowded`); a full index ends it. Edges that
hang in the air, rows of files that are gone and symbols without a row are excluded at every
moment, by `TablesAgree`.

`Findable` is what the contents must be like for the second reading to be complete. A batch
looks up what the changed symbols mention; a rebuild has all symbols at hand. They see the
same edges when a query names its tables as they are declared and normalised, when a
configuration key is quoted in one form and has that form in its own text (a key under an
index, `db[0].host`, has not), and when a route that is handled has its path in quotes.
`MCPlanner` assumes it of its trees; `MCDrift` has trees for which one conjunct is false.

A symbol id is the path, the name and the body's hash together, so an edit of the body makes
a new id and a comment does not; `Noted` is the content that changes nothing but comments.
`MCPlanner` has four families of trees: functions that call each other (the fan-out cap
of 1 is crossed by a second file that defines the name), types that extend each other, and
readers of keys and tables with the artifacts that define them; and a class whose comment names
the class of another file.

Abstracted: the caps on the text that is looked at and on the hits of one lookup in the
full-text index (`REFERENCE_CANDIDATE_CAP`, 256), beyond which a batch may miss an edge;
qualified names, by which candidates are looked up as well; names made of punctuation only
(the route `/`), which the full-text index cannot find.

### Owner

`lease`, `listen` and `endpoint` are all that the processes share: who holds the owner
lease, who is bound to each port, what `mcpd.endpoint` says. A thin proxy goes through
`resolve_or_spawn_heavy`: an explicit port, the advertised endpoint (`look`, `probe`, again
until the deadline, `recheck`), then port after port `try`: reuse whoever accepts, or
launch a child and `await` it, noticing that it ended (`poll`) and then asking the endpoint
file again (`reprobe`); the target is written to the endpoint file. A library caller goes
through `ensure_owner_running`: `ask` (which takes the lease for a moment when it is free,
and gives it back), `check` the advertised address, `spawn`, `wait`, `confirm`. An owner
process starts with the lease (or attaches and ends), opens the database, binds,
advertises, serves.

The lease is one step here, the lock that `Lease` shows it to be for callers whose starts
do not overlap. `Crashes`, `Strangers` (another program takes a port) and `Failures` are
counted in `faults` and bounded by `MaxFaults`; the properties that hold only of clean
histories say `clean`. `raced` remembers that two sessions were spawning at once or that an
owner with another model was there: exactly then the credential a proxy made up need not
be the owner's.

### WatcherQueue

`offer` and `take` run under one mutex. The history variable `latest` is the
unbounded queue this one approximates. Nothing in the repository calls `take` yet
(`cognis-owner/src/lib.rs:621-623`), so there is no liveness to state.

### Transport

One connection is one line of an editor, forwarded by `forward_jsonrpc`: `client[c]`
is what the proxy knows of it and in the end what it tells the editor (an answer, an
error, or silence), `conn[c]` where the server has it or what it sent. The acceptor
(`Enqueue`, `Overload`, `WriteOverload`) runs beside the workers, which share the
receiver of the bounded channel under a mutex (`Lock`, `Recv`, `Poll`) and handle a
connection outside of it: `ReadFails`, `Reject` (401, 403, 405), `Dispatch` (the
watcher thread starts), the items of the batch one after the other, `Stop`, and
`Respond` once the watcher is joined. The items are tool calls, which pass the limiter
(`LoadSlots`, then a compare-and-swap: `Reserve`, `RetryReserve` or `AtCapacity`),
`resources/read`, which runs a tool without a slot, requests answered on the spot, and
notifications. A tool is a number of stages, each behind `stage_gate`: it may go on,
leave the stage out (soft deadline), or end the call (cancelled, or hard deadline).
Deadlines are not counted: every outcome of a gate that some time allows is a step.

A call is answered exactly when its connection gets a status line. The end of the
stream without one is `closed` if the request had been read, `reset` if bytes of it
were still unread, as sockets do it: the proxy takes the first for the answer to a
notification (proxy.rs:614) and the second for an error. `Panics` lets a stage unwind
its worker's thread; nothing catches it, the slot is dropped, the watcher is left with a
clone of the socket (`orphan`). `Crashes` kills the server. `Stuck` connections are
those whose stages need not end.

### ToolCalls

A call pins a snapshot (one read transaction, `snapshot.rs:119`) and reads stage by stage;
between any two stages another process may commit: `Publish`, `Drain`, `Reembed` (vectors
of another space), `Reset` (the symbols and their cache go, the generation row stays),
`LoseIndex` (the full-text index is unreadable). The resident graph is kept per
generation, outside of any transaction: a worker looks it up, builds it from its own
snapshot without the lock, and stores it. What a call answers is compared with what its
snapshot holds, and the freshness it reports (generations, pending vectors, whether the
semantic layer took part, whether the answer was cut) with the truth of that snapshot.

### Push

The residual push of `push.rs` on integer masses: a normalised score of 1 is `Unit`, alpha is
1/2, and what the code divides is rounded down. Seeds are the normalised scores of the hits
with the floor of 1e-3; they are not divided by their total, instead a node's threshold is its
degree times that total, over `EpsDen`. The worklist is a stack with a flag per node. Then the
fusion of the layers (`fusion.rs`) and the packing of a capsule (`capsule.rs`). `DiffusionIsSound`
has four parts: what is over its threshold is on the worklist, once; mass is neither made nor
lost but for what rounding takes, at most one unit per node and unit of work, and the work is
paid for in mass; a seed that clears the threshold ends up with at least half of its mass; and
a capsule names a symbol once, has the direct hits in front, and is a prefix of any larger one.

### Lookup

`resolve_exact` and `resolve_symbol` as a ladder of four indexed questions, and
`ReferenceScan`, the scan over all symbols they replaced and which the repository keeps
(`reference_scan.rs`); `dependency_trace` hop by hop, and `Ball`, the symbols within a
distance. Letter case matters: SQLite lowers ASCII letters, Rust all of them.

### Complexity

A program is a function from symbols to bodies, a body a sequence of nodes: loops with the
bound their text was given, and calls with what is nested in them. `Visit` is the walk with
its stack of loops; it leaves one call site for each name (`Merged`) and the function's own
growth. `TarjanScc` is the code's, and one step of the module, `Propagate`, is one turn of the
loop over the components: the recurrence of a recursive one (`RecurrenceTime`), then each
member's callees outside of it (`Weighed`). `CostsAreCarried` and `BlameIsDeserved` compare the
result with all calls under all their loops, read off the bodies anew, and
`ComponentsInOrder` the components with reachability. Which text is a loop, a scan or a
query is given.

## The runs

Bounds are small on purpose: each was chosen so that the case the property is about
occurs, and enlarged as far as TLC's time allows; every property is also broken by a
mutant under the same bounds.

| run | environment and bounds | shows |
|---|---|---|
| `lease_races` | 2 processes, window of 1 tick, 3 nonces, I/O errors, lapses, fair | a nonce given up never returns to the file; no record claims more than a window; who calls again and again is refused for ever only while somebody serves |
| `lease_serial` | 3 processes, window of 3, 2 nonces, serial and timely, no errors | one owner; no heartbeat or release touches another's record; the record has an owner |
| `lease_double_owner` | 2 processes, 1 nonce, timely but not serial | *violation*: two owners |
| `index_shared` | two pipelines, either with one of two models of different width, one of them also with `--skip-embeddings`; 2 interchangeable files, 1 version, 1 edit, 2 publications, crashes, errors | generations follow the contract; nothing outlives its symbol; a recorded space is replaced only with its vectors |
| `index_single` | one pipeline, 2 files, 3 versions, 2 edits, 3 publications, crashes, errors | every live symbol has a vector or is queued; vectors are of the current text; symbols are those of the parsed version |
| `index_dim_wipe` | the same with a model of another width, no crashes, no errors | *violation*: vectors are dropped and not queued |
| `incremental` | trees of up to 4 files in four families, each edited within itself, edits one at a time, one pending request, fan-out cap 1 | the incremental index is the rebuilt one; tables agree at every moment |
| `drift_route` | `incremental` with a page of two routes and their two handlers, which are not `Findable` | *violation*: after an edit the index lacks an edge that a rebuild has |
| `indexing_daemon` | the loop: 2 files, 2 edits, 2 starts, rebuild, all errors, fair; the window: 2 processes, 3 tasks out of presses of the toggle, rebuild, pause, resume, starts on changes of files and reloads (orderly or by a crash), the third only after a press that turns the daemon on (`ThirdAfterOn`), fair | every edit is in the index, under way, or lost at a named place; once the edits cease the daemon is at rest with every other edit indexed; only the newest request settles and a superseded one starts nothing; used calmly, the window has one process at most, and settled on Off none but one that a command or a change of a file started since; in the end the toggle is as asked and the MCP entry there exactly while a daemon is believed to run |
| `owner_startup` | 2 sessions of one model, 2 port offsets and the system's port, one wait, one fault (kill, stranger or failure), leftover endpoint files, fair | one process past the lease; in clean histories everybody attached reaches the owner, with its credential unless starts raced; sessions settle |
| `serving` | queue: 4 paths, 3 kinds, cap 2; calls: 2 workers, 2 commits, 2 calls, of which only those on the resident graph overlap (`OverlapsBounded`); search: 6 graphs, 2 layers of up to 3 hits; lookup: tables of 3 symbols over a cap of 2, all edge sets of 8 edges; analysis: 3 functions, 14 bodies, with and without memoisation | the queue is exact; an answer is of one generation and labelled so; diffusion keeps its mass; lookups equal scans and traces find what lies within their hops; reports of growth carry what callees cost |
| `http_pool` | 3 connections (two calls; a resource and a call; two notifications), 2 workers, channel of 1, 1 slot, 1 stage, panics, kills, one connection that may take for ever, a proxy that gives up on calls and reads but not on notifications (`NotesAwaited`), fair; the model slot: 3 threads, failing and panicking factory, fair | slots and watcher threads are accounted for; every call is answered or refused while the server lives; a gone peer starts no stage; a slow request holds up no other; the slot's borrow count is exact, one load runs at a time and no wake-up is lost (`OneModel`), outcomes are shared, demands return |

Why they are enough. A lease conflict involves two processes and the process that
replaces one of them; a window of one tick lets any record lapse at any moment, one of
three lets a record age without lapsing. Two pipelines suffice where the question is
what another process does between two transactions of one pipeline, and two models are
needed to change between; what a version contains matters only to a single pipeline's
properties, so `index_shared` has one, with files that come and go. Two files with a budget of one row per drain always leave a row
behind. Three versions give an edit that keeps the symbol id and one that changes it.
Three threads give a loader, a sleeper and a newcomer. Two edits give an edit during a
batch and one after it; two starts, a daemon that inherits what another left. Three tasks give
a request that overtakes another that overtakes a third, or a reload between two, and two
processes one that takes the other's place while a stop still waits for the first; where the
first is a rebuild, a pause, a resume, a change of a file or a reload instead of a press that
turns the daemon on, a second that overtakes it is all that is explored.
Two tool calls meet in the resident graph, which `diffuse_context` and `trace_blast_radius`
build and use in two ways; the other tools share no more with a call under way, so they run
beside commits of the indexer but not beside each other. Four paths
against a cap of two overflow from every direction. Three connections against two workers
and a channel of one make the pool full, the channel full and the limiter full; a batch of
two calls shows what the second inherits from the first; notifications have no stage that
a peer's leaving could stop. Two sessions and two ports make
every race for a port, a child and the endpoint file; one fault at a time is what start-up
claims to survive. The trees of `incremental` are the smallest with a caller, a callee and
a second bearer of the callee's name, where two files may call and define at once; with a class that turns into an interface under
another; with a key quoted by two files and an artifact that may fail to parse. Two commits
give an answer something to mix up before and after the graph is built. What does not depend on the bound is
proved (below).

`CHECK_DEADLOCK FALSE` is used where the modelled system really stops: processes
that died for good (Lease), bounded edits and publications (IndexStore), threads that
sleep behind a panicked factory (ModelSlot), a daemon that ended or a window whose tasks are
used up (MCIndexing), a pool whose
workers have all panicked or that has been killed (Transport), sessions that have
attached (Owner), calls answered and lookups done (MCServing), an edit bound reached
(Planner).

*Fairness.* `Lease`: threads that are not killed run and time passes. Nothing obliges
a process to call, to call again after it was refused (a daemon that is refused ends), to
release, or to crash; so `RefusedWhileServed` speaks of behaviours in which somebody does call
again and again: he is sent to a live owner (lease.rs:296-297) for ever only while somebody,
again and again, serves. `ModelSlot`: a thread inside
`borrow_or_load` is scheduled and the factory returns or unwinds; nobody is obliged to
call, to drop a borrow, or to evict. Its liveness excludes executions in which cooldowns
and idle intervals elapse for ever, since then a caller may find the model evicted each
time it looks. `Watch`: the loop thread runs and a batch window ends.
`Extension`: what the window awaits comes or times out (every wait in the code has a limit,
or ends with a child process that ran), the reconciler's interval fires, and close events
are delivered; nothing is assumed of daemons, of file events, or of the user. `Transport`: the acceptor, the
workers and the watchers are threads that run, stages end except those of `Stuck`
connections, and a proxy reads what it was sent; nobody is obliged to connect or to give
up, so an answer is never owed to the client's own timeout. `Owner`: sessions that have
begun and processes that were spawned run, a wait has an end, and the record of a dead
holder lapses; nobody is obliged to begin and no fault to happen. Weak fairness is
enough everywhere; strong fairness is never assumed.

## Where code and documentation disagree

Each of these runs has one property, taken from a comment or a test of the
repository, that TLC refutes. `findings` in `PROJECT.json` quotes the lines.

| run | what happens |
|---|---|
| `lease_double_owner` | both of two starters read a missing file; the second renames after the first's verifying read; both own |
| `index_dim_wipe` | publish writes vectors of a width other than 384 without recording it; the next drained row drops every vector, and nothing queues them |
| `drift_route` | a page has two routes, handled in two files; one handler is edited, so the page is resolved anew with what its text quotes, which is nothing: the route to the other handler is lost |

The other two conjuncts of `Findable` are needed as well: `MCDrift` with `DriftTable.cfg` and
`DriftKey.cfg` violates `EqualsRebuild` in the same way. A query that spells a table `Users`, as it is
declared, looks up only `users` once its own file is edited (planner.rs:641-643), and the edge is
lost, though `resolver.rs:838` means to join the two spellings. One file quotes a key by its path,
another by its last part: the batch of the one that comes later finds only itself (planner.rs:458),
counts one reader, draws its edge and leaves the other's, where a rebuild counts two against the
cap (resolver.rs:809) and may draw none.

Other behaviour that the models make explicit, and that the runs avoid by their
environment rather than refute:

- A heartbeat or a release may overwrite or remove a record that was written after it
  compared the nonce (lease.rs:199-229, a read and a write that are two file operations).
  `Serial` and `Timely` exclude it.
- Vectors the drainer writes while there is no `vector_space` row survive under the
  identity of the next model (publish.rs:617); hence `ReplacedSpaceIsEmptied` speaks of
  recorded spaces.
- A drainer that saw a symbol gone removes the queue row that another process has written
  for it since (embed_queue.rs:228); hence `Covered` is checked for one pipeline.
- An edit between the rebuild's read of a file and the registration of the watcher stays
  unindexed until the next edit or start (indexd lib.rs:177, 263); `EditsAccounted` counts
  it as lost.
- A factory that panics leaves the slot at Loading, and every later demand asleep
  (lifecycle.rs:398); `DemandReturns` excepts it.
- Workers that panic are not replaced. The receiver is owned by the frame of
  `serve_listener_with`, so the branch for `Disconnected` (http.rs:491) is never taken:
  with no worker left, connections queue and then get 503, and those in the channel wait
  for their own timeout. `SlowNeverBlocks` excepts it.
- The watcher of a request whose worker panicked keeps the socket open, so the proxy
  waits for its read timeout of 120 s instead of seeing the connection end (and then
  reports an error, not silence).
- `resources/read` runs a tool without a slot (server.rs:271): it is not counted against
  the cap.
- With a cap of 0 the watcher queue still shows a depth of 1 (queue.rs:84).
- A server killed after it has read a request closes the connection without a status
  line; the proxy takes that for the answer to a notification (proxy.rs:614-616, against
  the comment at 536-537) and the editor is never answered. `AnsweredUnlessKilled` excepts it.
- The daemon's report "90 percent, vectors pending" is overwritten by "100 percent" in the
  next statement (indexd lib.rs:298).

*The editor window.* Overlapping requests and the record that two programs write in two
forms lead to the following; `CalmControl` is stated for windows used calmly because of them.
The starts that do not ask the toggle (the second point) it allows for: what a command or a
change of a file has started since the last press may run.

- A daemon that finds the record the extension has written for it takes it for another's,
  attaches to it and exits (indexd.ts:497, lease.rs:316, against lease.ts:13-14); one whose
  record is overwritten loses its heartbeat.
- A save, a creation, a deletion or a renaming of a file starts a daemon whenever none runs
  and the index is not paused, whatever the toggle says (extension.ts:380-403; the setting is on
  by default): after Off, the next save brings a daemon back, and as the toggle shows Off it can
  only be stopped by a pause, or by On and Off. A resume or a rebuild under Off does the same. A save
  after the old process of a rebuild has ended and before the rebuild's wait has may start a second
  one beside that of the rebuild.
- `verifyLeaseOwner` says "mismatch" of every record a daemon wrote. So turn-off does not
  signal the daemon this window started (`getStartedIndexdPid` is undefined) but leaves it to
  `stopLiveIndexing`, `killByPid` and `terminatePid` refuse a live daemon, and
  `removeLeaseForPid` removes its record all the same.
- On, Off, On, Off in quick succession: the stop of the superseded Off, which does not look at
  its signal any more, removes the handle of the newer daemon, which runs on with the toggle Off.
- Off, On in quick succession: the start sees the dying process, attaches to it and spawns
  nothing; the toggle is On without a daemon. A required step of a turn-on that fails also
  settles as On.
- The close handler (indexd.ts:512-517) deletes the map entry without looking whose it is, and
  the `finally` of a superseded transition ends the reconciler's pause of the newer one.
- `refreshIndexStatus` gives the handle of our own process the pid of whoever wrote the status
  file, so turn-off may signal a daemon it did not start (against deactivation.ts:13-16);
  `reconcileOrphanLease` overwrites the live record of another pid.
- Off next to a daemon somebody else started removes the MCP entry, and the reconciler puts it
  back. A reload starts a daemon whatever the toggle says. Two rebuilds at once spawn two.
- The reference count of a handle decides nothing: every stop is forced.

*Start-up.*

- A proxy that meets a live owner of another model refuses it, finds the derived port
  accepting and reuses it all the same, with a credential of its own making, which it also
  writes to the endpoint file (proxy.rs:367). Two racing proxies do the same when the second
  sees the port accept before it sees its own child end (against the comment at 385-386).
- A racing proxy fails when its children, port after port, all attach and end while the
  winner is still opening its database.
- After a kill a new proxy fails as long as the dead owner's record is live (30 s), and
  sessions attached to the dead owner never look again.
- Between bind and advertise a leftover endpoint file gives the new owner's port with the old
  credential; a stranger on a derived port is advertised as the owner.
- `attach_existing_owner` takes the lease for a moment, during which a starting owner
  attaches to it and exits. It and `ensure_owner_running` are called from the library and
  tests only.

*Incremental indexing against a rebuild.*

- A dependent that was edited, deleted or created between the two readings is published
  with what the second one saw, but what depends on *it* is not looked for, and its own
  report then finds it cached.
- When a file is deleted whose names were too common to have edges, the names are common no
  longer, and the edges a rebuild would make are not made.
- A file away at the first reading, back at the second, and deleted again may leave an edge
  flagged as missing; `overtaken` covers it.
- Contents that are not `Findable`: above.

*Tool calls.*

- `diffuse.rs:10-13` says that every seed survives; a faint one (floor 1e-3) on a node of
  high degree is under its threshold, is never pushed, and drops out.
- `retrieve_context_capsule` never reports the semantic layer as available: it looks for a
  layer the composed hits do not carry (tools.rs:541). It cuts its text at a byte offset,
  which panics inside a character of several bytes (tools.rs:570).
- The substring rung of `resolve_symbol` looks at the first 256 candidates in order of name,
  so it may miss what the scan would find in a larger table.
- After a reset with the generation unchanged the cached graph is stale; the symbols it
  names are then filtered by the read that follows. `cognis index --clear` deletes the
  database under a live server, and the new file counts its generations from the start.
- `diffuse_context` and `retrieve_context_capsule` never load the model on demand.

*Complexity reports.*

- The comment at `cognis-indexer/src/complexity.rs:849` says that I/O is lifted "or if `v`
  already has loop I/O"; the code lifts it out of a callee only when the call is in a loop.
- Calls within a recursive component are skipped when growth is carried, so what one member
  calls outside of it does not count for the others; which reduction of an argument counts is
  that of the first edge that has one.
- A root times anything but a root counts as a whole degree, so `nest_mul` is not associative;
  five nested logarithms rank above `O(n)`, and `O(n^9)` above `O(2^n)`.
- The line scan for sources without a grammar never closes a loop (`complexity.rs:507-540`).

## What is proved

TLAPS checks the following for every value of the constants that satisfies the
assumptions the modules state: any number of processes, pipelines, threads, files,
paths, and any bounds.

**LeaseProofs.** `TypeCorrect`; the invariant adds that a process past its first
read has a nonce and that a running heartbeat implies a tenure.
`RetiredNonceStaysGone` needs the strengthening `NothingToRetry` and
`RetiredAreOld`: a process whose latest nonce is retired is neither acquiring nor has
a heartbeat inside a beat. This is where `stop_and_join` before `release` matters.
`RecordAlwaysHasOwner` is inductive as it stands. `SerialExclusion` and
`SerialSparesNewer` assume `Serial` and
`Timely`; their invariant says that whoever claims the lease is on disk and live, and
that a process about to write for the first time is alone.

**IndexProofs.** `TypeCorrect`, with a phase invariant on what the drainer has in
hand. `SemanticMarksDrained` and `GenerationsContract`, the refinement of
`Generations`, rest on the semantic generation being recomputed in every transaction
that touches the queue. `NothingOutlives` is inductive over the typing
invariant: publications delete rows and vectors with the symbol, and the drainer
looks the symbol up again in the transaction that writes.
`ReplacedSpaceEmptied` is a property of steps.

Two theorems have a hypothesis about the environment, `OnePipeline`: at most one pipeline, which
embeds, with one model of the default width; `index_single` is an instance of it, and
`index_dim_wipe` and the drain of another process ("Other behaviour") show why it is there. Under it `SingleInv` is inductive:
the pipeline that has something in hand holds what the database holds (`Held`), the vector
table has the default width once anything was embedded (`Form`), and what is served is what was parsed and, if its vector is
there, of the current text (`Served`). `NothingIsForgotten` is `Covered`, `ServedIsParsed` is
`ServesWhatWasParsed`.

**TransportProofs.** The inductive invariant says that a worker has a connection exactly
while it works, that no two have the same and none is in the channel twice, and that the
limiter's count is the cardinality of the admitted calls; the last needs the first, since a
worker's kind of item is read off its connection. From it follow `TransportTypes` and
`SlotsAreCounted`. `NoLeftoverWatchers` uses that an orphan belongs to nobody any more.
`CallsAreAnswered` (of `AnsweredUnlessKilled`) needs to know
that a request being dispatched is watched while its proxy waits, which is why a panic never ends the stream
under a waiting proxy. `NothingEverLeaks` joins the counts of slots and watchers, as the run checks them.
`GoneStartNothing` is a property of steps.

Of the model slot: one invariant for `SlotTypes`, `BorrowsAlwaysCounted`,
`OneLoadAtATime` and `WaitersAreWoken`: the borrow count is the cardinality of the
holders, and holders exist only while Ready. `TheModelIsOne` is their conjunction, as the run checks it.
`WaitersShareTheOutcome` needs the
invariant `Kept`: the outcome a sleeper was woken for is still in the slot when it takes
the mutex, unless a window has elapsed since.

**PlannerProofs.** `TablesAlwaysAgree` (of `TablesAgree`): at every moment each edge begins at
a row of the symbol table, an edge that is not flagged ends at one, and every row belongs to a
row of the file table: the symbols are exactly those of the cached contents, which is how what a
file's symbols were is read off its row. What makes it inductive is about the plan in hand,
`PlanTyped`: it is made of files and contents; and every edge stored is an `EdgeRow`.
`PlannerAssumption` says of the data what the hash in the id makes so, a content defines a name
with a body once, and what makes a text a text: it is finite, what it calls or extends is among
its words, and nothing it quotes is empty.

`IncrementalEqualsRebuild` (of `EqualsRebuild`), for any files and `Findable` contents, any trees
and cap, and any order of edits, reports, plans and failures. `Complete` adds three facts to
the invariant above. `Fresh`: a file with no change to hear about is in the plan as the tree has
it, or cached as the tree has it. `PlanCovers`: a plan does not change and delete one file, and a
full one covers whatever is cached. `GraphFollows`: unless overtaken, the edges are those
`Resolve` draws between the stored symbols. The last is the hard one (`IncrementalGraph`): after
a batch, an edge that starts in a file of the batch was resolved among the symbols the batch
looked up, and every other edge was left as it was. The first is right because those symbols
include whatever the resolvers look at for such an edge (`FinderAlike`: the five
resolvers give a symbol the same edges in two sets that agree on what it names, one lemma for
each resolver). The second is right because a file that is neither changed nor a dependent has
no symbol that mentions, or is an end of an edge with, anything that changed
(`OthersAreBystanders`), and for such a symbol nothing that counts against a cap changed either
(`BystanderAlike`). `Findable` is used where a name is looked up in another form than it has
in the text (`OneForm`, `OneSpelling`), and the two exceptions in `overtaken` where the second reading
is not of what is published.

**OwnerProofs.** Three theorems, two inductive invariants. `AtMostOneOwner` (of `OneOwner`): the
holder of the lease is the one process past it. `EverySessionReachesTheOwner` (of
`AllReachTheOwner`): in clean histories whatever listens is an owner past its bind, on the port
it was given (`ListenersServe`), and the port a session has taken for accepting accepts
(`TakenAccept`). `Sole` is inductive for the first, `Inv` for the second. `AttachedAreAdmitted` (of `UnracedSessionsAreAdmitted`) needs
`Admits`: at which rung of the ladder a session stands and what it holds in its hand there
(`Ladder`), whose credential and model each listener has (`Listeners`), what a session alone in
spawning knows of its child (`Unraced`), and what the two endpoint files can say (`Advertised`,
`Told`). `OwnerAssumption` has the sessions and the processes they spawn apart, as two kinds of
process are.

**ServingProofs.** Of the watcher queue: `QueueStaysExact` (of `KeepsTheLatest`: the queue is within
its cap and equals the history, or the history is larger than the cap) and `TakenCovers`.

Of tool calls: `AnswersStayHonest` (of `AnswersAreHonest`), for any workers, tools, contents of the
index and analysis cap. The invariant `CInv` says of a call what it has read by the stage it
stands at (`Progress`), and of a call cut short what it can still name (`Remnant`); of the
versions of the index that those of one generation have one graph, but for the ones a reset has
emptied (`OneGraph`), and so has what is cached for that generation (`CacheTrue`). A reset keeps the generation:
that its stale graph does no harm is because an emptied version has no seeds, and because an
analysis keeps only rows of its own snapshot (`CacheServes`). `CallsAssumption` has the tools
among those served, and symbols and edges among the rows.

**SearchProofs.** Of lookups: `LadderIsScan`: for every table, the ladder returns the symbol the scan
returns, provided that the rows of the asked kind fit the candidate cap and that names Rust
lowers alike SQLite lowers alike; the two provisos are where the code differs (above). Each
rung is a lemma: what it finds is the least row among those the scan prefers, and when it
finds none no row of that rank exists. `LookupsAgree` states it of every question the model
asks.

Of traces: `TracesAgree` (of `TraceAgrees`), for any edges, texts and depth. A hop over the
edges at the frontier finds what a hop over all of them finds, in the same order, because an edge
that leads nowhere from a node adds nothing to its neighbours wherever it comes in the order
(`FromEdges`). The invariant `SInv` is about what has been found after some hops: `seen` is
what is within them, the frontier what the last one added, and each hit has the hop at which it was new. The
frontier alone is not enough for that; that nothing is named twice is because `seen` holds every earlier hop.

What is read off recursive functions here (`Fresh`, `Ball`, the flattening of sequences) needs
induction. The theorems of the library state it with an operator as parameter, which no prover here
instantiates, but the fact that a set of numbers has a least one can be used with the set (`LeastNat`), and
from it follow induction over numbers (`Induct`), that a function built step by step exists (`Steps`), and
induction over sets of edges, one edge after the other (`EdgeInduct`). `LookupAssumption` says of the edges what
the table's primary key and `ORDER BY` make so: no two have the same key, and different texts compare as different.

Of diffusion: `DiffusionStaysSound` (of `DiffusionIsSound`), for any finite graph, hits, unit and eps.
`NothingForgotten` and `MassIsKept` are inductive, but the fate of a seed is not said until the
worklist is empty: `Clear` says that until it is pushed a clear seed waits on the worklist with at least its own
mass, since others only add to it, and that the push then leaves half of it there. The two hold by the same facts about a push:
it empties its node, takes from no other, and gives away what is left of its half (`PushedIs`). For
that a sum may not depend on the order in which it is made: `Total` is a fold that picks the next member by
`CHOOSE`, and that any member may be taken first (`TotalLaw`) is an induction over finite sets (`FinInduct`), from which follow the
sum of two functions, a common factor, one changed value and the rest. Half of a residual
divided by weights that add up to the degree is at most half of it and falls short by at most one for each neighbour (`Given`); the bound on the
work is the threshold itself, added up over the pushes (`Work`). The capsule needs none of
it (`CapsulesAdd`): rankings name each symbol once (`RankedAll`, from the ranks of a total order), and with a larger budget either one more
direct hit fits or one more of what was reached (`ComposedAdds`). `PushAssumption` says that symbols
are finitely many numbers, that what a search is made from has its types, and nothing of
weights or scores: rows of no positive weight are left out by the code.

**DaemonProofs.** Of the loop: `WatchTypes` and `EditsStayAccounted`; the strengthening says that
what the planner read is current or the file has an event behind it.

Of the window: `NewestAlwaysSettles`. The invariant says that what is aborted, and what
is newest, is a request of the toggle and never a command; of the requests only the
turn-on spawns, and it does so after a look at its signal. A step of one task touches no
other task, so a spawn by a command is no step of an aborted one.

`CalmStaysControlled` (of `CalmControl`), for any number of daemons and tasks. That one process at
most is there, and once the toggle has settled on Off none that was not started since, is not inductive: it is stated of
moments between tasks, and tasks break off in the middle. `Calm` says what holds in the middle. `Held`:
every live process was spawned by this window, which holds the handle of the last one and has
seen all others exit. `Staged`: where the one busy task stands says what has become of
the process; a task that waits for an exit waits for the one process there is, and behind that
wait there is none; Off takes back an On; whatever else is to start a daemon, a command or a
change of a file, came after the newest request (`InTurn`: tasks begin in the order of their
numbers), so that what it starts is started since. So a stop that ends forgets a handle of nothing, and a start either
finds the process of the handle or has none to join. A reload, a second request and a wait
that runs out end the calm, and with it what the theorem says. `Typing` adds to the types that
whoever waits has a process to wait for and that a handle of our own is of a process not yet
reported as closed; `ExtensionAssumption` has the value for "no handle" apart from handles.

## What is only model-checked, and what is not modelled

Liveness under fairness (`RefusedWhileServed`, `DemandReturns`, `Settles`,
`SettlesAsAsked`, `SlowNeverBlocks`, `StartupEnds`) is beyond the prover and stays with TLC. What stays with TLC besides, on the instances given:

- `EveryAnalysisIsSound`: `Complexity` has recursive operators.

No module with a theorem declares a recursive operator; what recurs there is a function.

Not modelled:

- *The full-text mirror and the publish audit* of `publish.rs`.
- *Healing on open* (`lib.rs:1691`) and migrations. Two openers race there: the version is
  read, the tables are changed and the version is stamped in separate statements
  (lib.rs:1645), and a form of the vector table found outside of the transaction is replaced
  inside of it (lib.rs:1506-1530).
- *A timer for the embedding queue:* there is none. Rows beyond a drain's budget wait
  for the next batch or start, so no eventual property of the queue is true of the
  code and none is stated.
- *The other commands of the extension that start or stop a daemon:* set-up (workspace.ts:394),
  repair (workspace.ts:469), clear and re-index (workspace.ts:544-590) and the start command
  (extension.ts:1156), each of which calls `startLive` whatever the toggle says, as resume does; and the
  cancelling of an index build (extension.ts:643-653), a pause without the flag.
- *The rest of the extension:* stopping the owner of a repository and the MCP server of the
  panel, removal and clean-up commands, consent and the MCP entry written
  on activation, the compatibility coordinator, a window without automatic management or a
  workspace that is not set up; the second call of `rehydrateWorkspaceState` in a row.
- *The idle eviction timer of the owner, its status document, the legacy lease of the stdio
  daemon.*
- *The server of its own on stdin and stdout* (`server.rs:203`): one request after the
  other, without cancellation.
- *Advisories, risk and branch counts* of the complexity analysis, and the analysis of shadow
  patches.
- *Import aliases, scores of candidates, the parsers and enrichers:* what a version of a
  file mentions is given.
- *Status files outside `.cognis`:* `COGNIS_INDEXD_STATUS_PATH` may point into the
  watched tree; the model has the default placement.
- *Numbers:* embeddings and hashes are model values; the masses of a diffusion are integers.
- *Rendering, parsing of sources, configuration files and command lines.*

## Plan

1. **Opening**: migrations, reset and heal, by several openers.
2. **Pure algorithms**: the impact closure.
3. **Compositions**: `Watch` over `IndexStore`, the daemon and its pipeline; `Extension` over
   `Lease`, with several windows.

## Running the checks

    tlasany IndexStore.tla
    tlc -workers 2 -config IndexShared.cfg MCIndexStore
    tlapm IndexProofs.tla

`PROJECT.json` names module and configuration of each run, the mutants, the lines of
the source that every definition models, the findings, hazards and theorems.
