----------------------------- MODULE IndexStore -----------------------------
(***************************************************************************)
(* One repository's index database and the pipelines that write it.        *)
(*                                                                         *)
(* The database is crates/cognis-store (publish.rs, lib.rs); a write       *)
(* transaction (BEGIN IMMEDIATE .. COMMIT) is one action, so a crash or an *)
(* error inside it is the transaction not happening.  An engine is an      *)
(* IndexerPipeline (crates/cognis-indexer/src/pipeline.rs) in a process of *)
(* its own: the watching daemon cognis-indexd, which holds the indexd      *)
(* lease, or a `cognis index' run, which takes no lease and may run beside *)
(* the daemon.  Between two transactions engines interleave freely.        *)
(*                                                                         *)
(* A version of a file defines one symbol.  Its id is made of the path and *)
(* a hash of the body (BodyOf), so an edit of a comment or a docstring     *)
(* keeps the id and changes the text that is embedded, here the version.   *)
(* Edges, the FTS mirror and the publish audit rows are left out.          *)
(***************************************************************************)
EXTENDS Integers, FiniteSets

CONSTANTS
  Engine,      \* pipelines that may be open at once
  SkipEngine,  \* those that may run with --skip-embeddings: no model, no demand load
  File, Content, Body, BodyOf,
  Model, DimOf,            \* embedding models, and the width of their vectors
  DefaultDim,              \* DEFAULT_EMBEDDING_DIM, assumed when meta has no dimension
  VecExt,                  \* the build can load sqlite-vec
  Budget,                  \* owner.embed_batch_budget
  None,                    \* no file, no row, no vector
  Requests,                \* tree requests the engines issue: {"reconcile", "full"}
  MaxGen, MaxEdits,        \* bounds: publications, edits of the tree
  Crashes, IOErrors        \* environment: engines die; transactions may fail

Id == File \X Body
Vector == [text : Content, model : Model]

ASSUME IndexAssumption ==
  /\ SkipEngine \subseteq Engine
  /\ BodyOf \in [Content -> Body]
  /\ DimOf \in [Model -> Nat \ {0}]
  /\ DefaultDim \in Nat \ {0}
  /\ Budget \in Nat \ {0}
  /\ None \notin Content \cup Model \cup Id \cup Vector
  /\ Requests \subseteq {"reconcile", "full"}
  /\ {MaxGen, MaxEdits} \subseteq Nat
  /\ {VecExt, Crashes, IOErrors} \subseteq BOOLEAN

IdOf(f, c) == <<f, BodyOf[c]>>

VARIABLES
  disk,        \* the working tree
  fileRow,     \* table file: the version last parsed (content_hash)
  symbol,      \* table symbol: the text each live symbol would be embedded from
  vec,         \* table symbol_vec: the text and the model of each stored vector
  queue,       \* table embedding_queue
  waiting,     \* those of its rows whose next_attempt_at is still to come
  space,       \* row vector_space
  metaDim,     \* meta.embedding_dim, DefaultDim when absent
  width,       \* FLOAT[n] of symbol_vec as a vec0 table; 0: the plain BLOB table
  sourceGen, semanticGen,  \* row generation
  pc,          \* where each engine is
  model,       \* the model each engine's configuration names; None: --skip-embeddings
  watching,    \* engines whose file watcher runs
  todo,        \* watched paths each engine has not yet taken
  batch,       \* the PublishBatch each engine is building
  due,         \* the queue rows each engine selected and has yet to process
  cur,         \* the row an engine processes: its id and the text it hydrated
  edits

tables == <<fileRow, symbol, vec, queue, waiting, space, metaDim, width, sourceGen, semanticGen>>
tree   == <<disk, edits>>
locals == <<model, watching, todo, batch, due, cur>>
vars   == <<tree, tables, pc, locals>>

-----------------------------------------------------------------------------
NoBatch == [up |-> [f \in File |-> None], stale |-> {}, gone |-> {}, mode |-> "pending"]
NoRow   == [id |-> None, text |-> None]

Batches == [up : [File -> Content \cup {None}], stale : SUBSET Id, gone : SUBSET File,
            mode : {"pending", "vectors", "none"}]
Rows == [id : Id, text : Content \cup {None}] \cup {NoRow}
Phases == {"down", "idle", "prepare", "publish", "drain", "rows", "stale", "check",
           "recreate", "embed"}

TypeOK ==
  /\ disk \in [File -> Content \cup {None}]
  /\ fileRow \in [File -> Content \cup {None}]
  /\ symbol \in [Id -> Content \cup {None}]
  /\ vec \in [Id -> Vector \cup {None}]
  /\ queue \subseteq Id
  /\ waiting \subseteq queue
  /\ space \in Model \cup {None}
  /\ metaDim \in Nat
  /\ width \in Nat
  /\ sourceGen \in Nat
  /\ semanticGen \in Nat
  /\ pc \in [Engine -> Phases]
  /\ model \in [Engine -> Model \cup {None}]
  /\ watching \subseteq Engine
  /\ todo \in [Engine -> SUBSET File]
  /\ batch \in [Engine -> Batches]
  /\ due \in [Engine -> SUBSET Id]
  /\ cur \in [Engine -> Rows]
  /\ edits \in Nat

Init ==
  /\ disk \in [File -> Content \cup {None}]
  /\ fileRow = [f \in File |-> None]
  /\ symbol = [i \in Id |-> None]
  /\ vec = [i \in Id |-> None]
  /\ queue = {}
  /\ waiting = {}
  /\ space = None
  /\ metaDim = DefaultDim
  /\ width = 0
  /\ sourceGen = 0
  /\ semanticGen = 0
  /\ pc = [e \in Engine |-> "down"]
  /\ model = [e \in Engine |-> None]
  /\ watching = {}
  /\ todo = [e \in Engine |-> {}]
  /\ batch = [e \in Engine |-> NoBatch]
  /\ due = [e \in Engine |-> {}]
  /\ cur = [e \in Engine |-> NoRow]
  /\ edits = 0

Goto(e, l) == pc' = [pc EXCEPT ![e] = l]
Live(i) == symbol[i] # None
SymbolsIn(f) == {i \in Id : i[1] = f /\ Live(i)}

-----------------------------------------------------------------------------
(* The tree, the clock, and processes that start and die *)

\* an edit, creation or deletion; every running watcher reports it
Edit(f, c) ==
  /\ edits < MaxEdits
  /\ disk[f] # c
  /\ disk' = [disk EXCEPT ![f] = c]
  /\ edits' = edits + 1
  /\ todo' = [e \in Engine |-> IF e \in watching THEN todo[e] \cup {f} ELSE todo[e]]
  /\ UNCHANGED <<tables, pc, model, watching, batch, due, cur>>

\* a row's next_attempt_at comes
BackoffElapses(i) ==
  /\ i \in waiting
  /\ waiting' = waiting \ {i}
  /\ UNCHANGED <<tree, fileRow, symbol, vec, queue, space, metaDim, width, sourceGen,
                 semanticGen, pc, locals>>

\* open_with_policy: the eager policy reconciles the vector table first; either
\* way the queue is drained once.  Pipelines without a model skip both.
Open(e, m) ==
  /\ pc[e] = "down"
  /\ model' = [model EXCEPT ![e] = m]
  /\ \/ m = None /\ e \in SkipEngine /\ Goto(e, "idle")
     \/ m # None /\ \E l \in {"check", "drain"} : Goto(e, l)
  /\ UNCHANGED <<tree, tables, watching, todo, batch, due, cur>>

\* watch_loop_with: only edits made from now on are reported
StartWatch(e) ==
  /\ pc[e] = "idle"
  /\ e \notin watching
  /\ watching' = watching \cup {e}
  /\ UNCHANGED <<tree, tables, pc, model, todo, batch, due, cur>>

\* the process ends, whatever it was doing
Crash(e) ==
  /\ Crashes
  /\ pc[e] # "down"
  /\ Goto(e, "down")
  /\ model' = [model EXCEPT ![e] = None]
  /\ watching' = watching \ {e}
  /\ todo' = [todo EXCEPT ![e] = {}]
  /\ batch' = [batch EXCEPT ![e] = NoBatch]
  /\ due' = [due EXCEPT ![e] = {}]
  /\ cur' = [cur EXCEPT ![e] = NoRow]
  /\ UNCHANGED <<tree, tables>>

-----------------------------------------------------------------------------
(* ChangePlanner::plan *)

\* the cached hash is that of the bytes read and the file has its symbols
Unchanged(f) == fileRow[f] = disk[f] /\ SymbolsIn(f) # {}

\* Mutant of Stale: symbols of a replaced version are kept
StaleForgotten(S) == {}

\* stale_ids: what the database holds for the files and the new versions do not define
Stale(S) ==
  {i \in Id : i[1] \in S /\ Live(i) /\ (disk[i[1]] # None => i # IdOf(i[1], disk[i[1]]))}

\* the batch for the paths T; a change also re-publishes other files that refer
\* to it (D: which ones is up to the edges and names in the sources)
PlanBatch(e, T, full) ==
  LET changed == {f \in T : disk[f] # None /\ (full \/ ~Unchanged(f))}
      gone == {f \in T : disk[f] = None /\ fileRow[f] # None}
      dependents == {f \in File \ (changed \cup gone) : disk[f] # None /\ SymbolsIn(f) # {}}
  IN IF changed \cup gone = {}
     THEN Goto(e, "drain") /\ UNCHANGED batch
     ELSE \E D \in SUBSET dependents :
            /\ batch' = [batch EXCEPT ![e] =
                 [up |-> [f \in File |-> IF f \in changed \cup D THEN disk[f] ELSE None],
                  stale |-> Stale(changed \cup D \cup gone),
                  gone |-> gone,
                  mode |-> "pending"]]
            /\ Goto(e, "prepare")

\* index_batch of a debounced set of watched paths
IndexTouched(e, T) ==
  /\ pc[e] = "idle"
  /\ T # {} /\ T \subseteq todo[e]
  /\ PlanBatch(e, T, FALSE)
  /\ todo' = [todo EXCEPT ![e] = @ \ T]
  /\ UNCHANGED <<tree, tables, model, watching, due, cur>>

\* index_repo, before the watcher starts or in a `cognis index' run
IndexRepo(e, request) ==
  /\ pc[e] = "idle"
  /\ e \notin watching
  /\ PlanBatch(e, File, request = "full")
  /\ UNCHANGED <<tree, tables, model, watching, todo, due, cur>>

-----------------------------------------------------------------------------
(* prepare_semantic_batch and publish *)

\* the model embeds every new symbol, or cannot (queue them), or is not wanted
Prepare(e) ==
  /\ pc[e] = "prepare"
  /\ \E m \in IF batch[e].up = NoBatch.up THEN {"pending"}
              ELSE IF model[e] = None THEN {"none"} ELSE {"vectors", "pending"} :
       batch' = [batch EXCEPT ![e].mode = m]
  /\ Goto(e, "publish")
  /\ UNCHANGED <<tree, tables, model, watching, todo, due, cur>>

\* Mutant of Kept: the vectors of another space survive
KeptAlways(m, i) == vec[i] # None

\* which stored vectors survive upsert_vector_space_and_vectors for model m:
\* a table of another form or width is dropped, keeping BLOBs of the same space
\* when it becomes a vec0 table; vectors of another space are deleted
Kept(m, i) ==
  LET sameSpace == space \in {None, m}
      dimChanged == width \notin {0, DimOf[m]}
  IN /\ vec[i] # None
     /\ sameSpace
     /\ ~dimChanged
     /\ VecExt \/ width = 0
     /\ VecExt /\ width = 0 => DimOf[vec[i].model] = DimOf[m]

\* Mutant of SemanticAfter: forgotten while anything is pending
SemanticReset(q, source) == IF q = {} THEN source ELSE 0

\* advance_semantic_if_queue_empty, and the CASE of publish
SemanticAfter(q, source) == IF q = {} THEN source ELSE semanticGen

\* Mutants of Settled: new symbols are never left pending, or not when they have
\* some vector already
SettledAlways(mode, ids) == ids
SettledByAnyVector(mode, ids) ==
  IF mode = "pending" THEN {i \in ids : vec[i] # None} ELSE ids

\* queue_remove of a batch: the new symbols that shall not be pending
Settled(mode, ids) == IF mode = "pending" THEN {} ELSE ids

Publish(e) ==
  LET b == batch[e]
      m == model[e]
      upFiles == {f \in File : b.up[f] # None}
      upIds == {IdOf(f, b.up[f]) : f \in upFiles}
      deleted == b.stale \cup {i \in Id : i[1] \in b.gone /\ Live(i)}
      dequeued == deleted \cup {i \in Id : i[1] \in b.gone} \cup Settled(b.mode, upIds)
  IN
  /\ pc[e] = "publish"
  /\ sourceGen < MaxGen
  /\ symbol' = [i \in Id |-> IF i \in deleted THEN None
                             ELSE IF i \in upIds THEN b.up[i[1]] ELSE symbol[i]]
  /\ vec' = [i \in Id |-> IF i \in deleted THEN None
                          ELSE IF b.mode # "vectors" THEN vec[i]
                          ELSE IF i \in upIds THEN [text |-> b.up[i[1]], model |-> m]
                          ELSE IF Kept(m, i) THEN vec[i] ELSE None]
  /\ space' = IF b.mode = "vectors" THEN m ELSE space
  /\ width' = IF b.mode # "vectors" THEN width ELSE IF VecExt THEN DimOf[m] ELSE 0
  /\ fileRow' = [f \in File |-> IF f \in b.gone THEN None
                                ELSE IF f \in upFiles THEN b.up[f] ELSE fileRow[f]]
  /\ queue' = (queue \cup upIds) \ dequeued
  /\ waiting' = (waiting \ upIds) \ dequeued
  /\ sourceGen' = sourceGen + 1
  /\ semanticGen' = SemanticAfter(queue', sourceGen + 1)
  /\ batch' = [batch EXCEPT ![e] = NoBatch]
  /\ Goto(e, "drain")
  /\ UNCHANGED <<tree, metaDim, model, watching, todo, due, cur>>

-----------------------------------------------------------------------------
(* EmbeddingQueueDrainer::drain *)

\* due_rows: at most Budget rows whose backoff has elapsed; which of them come
\* first is not modelled
DueRows(e) ==
  /\ pc[e] = "drain"
  /\ \E S \in SUBSET (queue \ waiting) :
       /\ \/ S = queue \ waiting /\ Cardinality(S) <= Budget
          \/ Cardinality(S) = Budget
       /\ due' = [due EXCEPT ![e] = S]
       /\ Goto(e, IF S = {} THEN "idle" ELSE "rows")
  /\ UNCHANGED <<tree, tables, model, watching, todo, batch, cur>>

\* hydrate_ids: the symbol may be gone by now
HydrateRow(e, i) ==
  /\ pc[e] = "rows"
  /\ i \in due[e]
  /\ due' = [due EXCEPT ![e] = @ \ {i}]
  /\ cur' = [cur EXCEPT ![e] = [id |-> i, text |-> symbol[i]]]
  /\ Goto(e, IF Live(i) THEN "check" ELSE "stale")
  /\ UNCHANGED <<tree, tables, model, watching, todo, batch>>

\* after a row, the next one or back to the caller
RowDone(e) ==
  /\ Goto(e, IF due[e] = {} THEN "idle" ELSE "rows")
  /\ cur' = [cur EXCEPT ![e] = NoRow]

\* Mutant of Dequeue: the generation is left to the next publication
DequeueOnly(i) ==
  /\ queue' = queue \ {i}
  /\ waiting' = waiting \ {i}
  /\ UNCHANGED semanticGen

\* delete_queue_row, advance_semantic_if_queue_empty
Dequeue(i) ==
  /\ queue' = queue \ {i}
  /\ waiting' = waiting \ {i}
  /\ semanticGen' = SemanticAfter(queue', sourceGen)

\* remove_stale_queue_row: does not look whether the symbol has come back
RemoveStaleRow(e) ==
  /\ pc[e] = "stale"
  /\ Dequeue(cur[e].id)
  /\ RowDone(e)
  /\ UNCHANGED <<tree, fileRow, symbol, vec, space, metaDim, width, sourceGen, model,
                 watching, todo, batch, due>>

\* reconcile_embedding_dim, the reads: is the table of the model's dimension and
\* of the form this build uses?  They are made before the transaction begins.
\* cur = NoRow: the call of open_with_policy.
ReconcileCheck(e) ==
  /\ pc[e] = "check"
  /\ model[e] # None
  /\ LET d == DimOf[model[e]]
         matches == metaDim = d /\ width \in {0, d} /\ (VecExt <=> width # 0)
     IN Goto(e, IF ~matches THEN "recreate" ELSE IF cur[e] = NoRow THEN "drain" ELSE "embed")
  /\ UNCHANGED <<tree, tables, locals>>

\* reconcile_embedding_dim, the transaction: every vector is dropped
ReconcileApply(e) ==
  /\ pc[e] = "recreate"
  /\ metaDim' = DimOf[model[e]]
  /\ width' = IF VecExt THEN DimOf[model[e]] ELSE 0
  /\ vec' = [i \in Id |-> None]
  /\ Goto(e, IF cur[e] = NoRow THEN "drain" ELSE "embed")
  /\ UNCHANGED <<tree, fileRow, symbol, queue, waiting, space, sourceGen, semanticGen, locals>>

\* Mutant of Postponed: a row that is gone is written again
PostponedBlindly(i) == waiting \cup {i}

\* the UPDATE of record_failure: a row that is gone stays gone
Postponed(i) == waiting \cup ({i} \cap queue)

\* record_failure: no model (always so without one), a failed embedding or a
\* failed reconcile; the row stays and waits
RecordFailure(e) ==
  /\ pc[e] \in {"check", "embed"} \/ (IOErrors /\ pc[e] = "recreate")
  /\ cur[e] # NoRow
  /\ waiting' = Postponed(cur[e].id)
  /\ RowDone(e)
  /\ UNCHANGED <<tree, fileRow, symbol, vec, queue, space, metaDim, width, sourceGen,
                 semanticGen, model, watching, todo, batch, due>>

\* Mutant of Writes: the symbol is not looked up again
WritesAlways(i) == TRUE

\* upsert_symbol_vectors looks for the symbol inside the transaction
Writes(i) == Live(i)

\* persist_success: the vector is written if the symbol still exists, and the
\* row goes; a vec0 table refuses a vector of another width
PersistSuccess(e) ==
  LET i == cur[e].id IN
  /\ pc[e] = "embed"
  /\ width \in {0, DimOf[model[e]]} \/ ~Writes(i)
  /\ vec' = IF Writes(i) THEN [vec EXCEPT ![i] = [text |-> cur[e].text, model |-> model[e]]]
            ELSE vec
  /\ Dequeue(i)
  /\ RowDone(e)
  /\ UNCHANGED <<tree, fileRow, symbol, space, metaDim, width, sourceGen, model, watching,
                 todo, batch, due>>

\* a transaction fails: index_batch returns the error, the batch and the rows
\* not yet processed are dropped, and the watch loop goes on
TransactionFails(e) ==
  /\ \/ IOErrors /\ pc[e] \in {"publish", "stale", "embed"}
     \/ pc[e] = "embed" /\ Writes(cur[e].id) /\ width \notin {0, DimOf[model[e]]}
  /\ Goto(e, "idle")
  /\ batch' = [batch EXCEPT ![e] = NoBatch]
  /\ due' = [due EXCEPT ![e] = {}]
  /\ cur' = [cur EXCEPT ![e] = NoRow]
  /\ UNCHANGED <<tree, tables, model, watching, todo>>

-----------------------------------------------------------------------------
EngineStep(e) ==
  \/ StartWatch(e)
  \/ \E T \in SUBSET File : IndexTouched(e, T)
  \/ \E r \in Requests : IndexRepo(e, r)
  \/ Prepare(e) \/ Publish(e)
  \/ DueRows(e) \/ (\E i \in Id : HydrateRow(e, i)) \/ RemoveStaleRow(e)
  \/ ReconcileCheck(e) \/ ReconcileApply(e)
  \/ RecordFailure(e) \/ PersistSuccess(e) \/ TransactionFails(e)

Next ==
  \/ \E f \in File, c \in Content \cup {None} : Edit(f, c)
  \/ \E i \in Id : BackoffElapses(i)
  \/ \E e \in Engine, m \in Model \cup {None} : Open(e, m)
  \/ \E e \in Engine : EngineStep(e) \/ Crash(e)

Spec == Init /\ [][Next]_vars

-----------------------------------------------------------------------------
(* Properties *)

\* The semantic generation equals the source generation exactly when no vector
\* is pending (publish.rs: "Equal to source_generation iff embedding_queue was
\* empty at commit"), whichever engines publish, drain, fail or die in between;
\* otherwise it lags behind.
SemanticIffDrained ==
  /\ semanticGen <= sourceGen
  /\ semanticGen = sourceGen <=> queue = {}

\* The three moving parts follow the contract of module Generations.
Contract == INSTANCE Generations WITH
  Item <- Id, source <- sourceGen, semantic <- semanticGen, pending <- queue

FollowsContract == Contract!Spec

\* Neither a queue row nor a vector outlives its symbol
\* (prop_embedding_queue_conservation.rs: "a symbol delete does not leave a queue
\* row behind"), although the drainer writes what it read before the deletion.
NothingOutlivesItsSymbol ==
  \A i \in Id : i \in queue \/ vec[i] # None => Live(i)

\* When the recorded vector space is replaced by another, no vector of the old
\* one survives (publish.rs: "No vector from the old space may survive under the
\* new identity").
ReplacedSpaceIsEmptied ==
  [][space # None /\ space' # space =>
       \A i \in Id : vec'[i] # None => vec'[i].model = space']_vars

\* Every live symbol has a vector or a queue row (prop_vector_completeness.rs: the
\* persisted set plus the pending set "covers every currently indexed symbol").
Covered == \A i \in Id : Live(i) => vec[i] # None \/ i \in queue

\* A vector that is not about to be replaced was computed from the text its
\* symbol has now.
VectorsAreFresh ==
  \A i \in Id : Live(i) /\ vec[i] # None /\ i \notin queue => vec[i].text = symbol[i]

\* A file's symbols are exactly those of the version its row says was parsed.
SymbolsMatchRow ==
  \A f \in File : SymbolsIn(f) = IF fileRow[f] = None THEN {} ELSE {IdOf(f, fileRow[f])}

\* What is served for a file is what its row says was parsed, text and vector.
ServesWhatWasParsed == VectorsAreFresh /\ SymbolsMatchRow
=============================================================================
