----------------------------- MODULE ToolCalls -----------------------------
(***************************************************************************)
(* The MCP tool calls of one server over the index it reads                *)
(* (crates/cognis-mcp/src/server.rs, tools.rs, store_engine.rs, caps.rs,   *)
(* crates/cognis-store/src/snapshot.rs and its queries in lib.rs).         *)
(*                                                                         *)
(* A worker thread pins a generation with the first read of a deferred     *)
(* transaction and runs the tool's stages one by one, each behind the      *)
(* deadline gate; other processes publish, drain, re-embed or reset the    *)
(* index meanwhile.  The workers share the embedding model and the         *)
(* resident code graph.  Admission is in module Transport, the order of    *)
(* hits in module Push: here an answer is the set of symbols it names.     *)
(***************************************************************************)
EXTENDS Naturals, Sequences, FiniteSets

CONSTANTS
  Worker,       \* the server's worker threads
  ToolsOf,      \* the tools each worker is asked for
  SubgraphCap,  \* ANALYSIS_SUBGRAPH_CAP
  Rows,         \* the symbols in row order
  Asked,        \* the symbol, or the text, every call asks for
  Contents,     \* what a publication leaves of symbols and edges: [syms, edges]
  Changes,      \* sets of symbols that one publication may change
  MaxCommits,   \* bound: commits of other processes
  MaxCalls      \* bound: calls

VARIABLES
  db,        \* the committed index
  resident,  \* StoreEngine.resident_graph
  loaded,    \* the embedding model is resident
  call,      \* the call each worker executes
  commits, calls   \* bounded counters

callVars == <<db, resident, loaded, call, commits, calls>>

-----------------------------------------------------------------------------
(* The index: symbols in row order, edges between them, one vector space *)

Symbol == {Rows[i] : i \in DOMAIN Rows}
RowBefore(s, t) == \E i, j \in DOMAIN Rows : i < j /\ s = Rows[i] /\ t = Rows[j]
First(S, n) == {s \in S : Cardinality({t \in S : RowBefore(t, s)}) < n}

Space == {"ours", "theirs"}

\* an edge into a symbol that is gone stays and is flagged dst_missing
Flagged(v, e) == e[2] \notin v.syms

\* generation row, embedding_queue, symbol, edge, symbol_vec, vector_space; the
\* required indexes are there
Index(c) == [gen |-> 1, sem |-> 1, queue |-> {}, syms |-> c.syms, edges |-> c.edges,
             vecs |-> c.syms, space |-> "ours", indexed |-> TRUE]

\* build_code_graph: live edges, both ways
Graph(v) == [nodes |-> v.syms,
             links |-> {e \in v.edges : ~Flagged(v, e) /\ e[1] \in v.syms}]
NoGraph == [gen |-> 0, graph |-> [nodes |-> {}, links |-> {}]]

Around(links, S) == {e[2] : e \in {l \in links : l[1] \in S}}
               \cup {e[1] : e \in {l \in links : l[2] \in S}}

-----------------------------------------------------------------------------
(* What the stages read in a version v of the index *)

\* fts_search
Lexical(v) == {Asked} \cap v.syms

\* diffuse_seed_hits reaches what is linked to a seed; seeds outside of the graph
\* are dropped
Reached(g, seeds) ==
  LET from == seeds \cap g.nodes
      one == from \cup Around(g.links, from)
  IN one \cup Around(g.links, one)

\* dependency_trace, direction out, depth 3
Traced(v) ==
  LET out(S) == {e[2] : e \in {l \in v.edges : l[1] \in S /\ ~Flagged(v, l)}}
      one == out({Asked})
      two == one \cup out(one)
  IN (two \cup out(two)) \ {Asked}

\* load_analysis_subgraph: the symbol asked for, the first nodes of a small resident
\* graph, and two hops over edges, flagged ones included, while the cap is not reached
Widened(v, seen) ==
  seen \cup First(Around(v.edges, seen) \ seen,
                  IF Cardinality(seen) < SubgraphCap THEN SubgraphCap - Cardinality(seen) ELSE 0)

Subgraph(v, g, seeds) ==
  LET small == seeds = {} \/ Cardinality(g.nodes) <= SubgraphCap
      base == seeds \cup IF small THEN First(g.nodes, SubgraphCap) ELSE {}
  IN Widened(v, Widened(v, base)) \cap v.syms

-----------------------------------------------------------------------------
(* The tools and their stages; one gate before each stage *)

Resource == "resources/read"
Analyses == {"analyze_patch_impact", "inspect_symbol_complexity",
             "trace_blast_radius", "suggest_optimal_refactor", Resource}

\* diffuse_context and the capsule use vectors only while the model is resident
Diffusing == {"diffuse_context", "retrieve_context_capsule"}

SymbolSearch == <<"lexical", "hydrate">>
SemanticSearch == <<"semantic", "hydrate">>
DiscoverSymbols == <<"lexical", "semantic", "hydrate">>
DiffuseContext == <<"lexical", "semantic", "diffuse", "hydrate">>
RetrieveContextCapsule == <<"lexical", "semantic", "diffuse", "hydrate">>
DependencyTrace == <<"trace", "hydrate">>
SymbolLookup == <<"read">>
ResolveSymbols == <<"read">>
Analysis == <<"subgraph">>

Tool == {"symbol_search", "semantic_search", "discover_symbols", "dependency_trace",
         "symbol_lookup", "resolve_symbols"} \cup Diffusing \cup Analyses

ASSUME CallsAssumption ==
  /\ ToolsOf \in [Worker -> SUBSET Tool]
  /\ Rows \in Seq(Symbol)
  /\ \A c \in Contents : c.syms \subseteq Symbol /\ c.edges \subseteq Symbol \X Symbol

Stages(t) ==
  CASE t = "symbol_search" -> SymbolSearch
    [] t = "semantic_search" -> SemanticSearch
    [] t = "discover_symbols" -> DiscoverSymbols
    [] t = "diffuse_context" -> DiffuseContext
    [] t = "retrieve_context_capsule" -> RetrieveContextCapsule
    [] t = "dependency_trace" -> DependencyTrace
    [] t = "symbol_lookup" -> SymbolLookup
    [] t = "resolve_symbols" -> ResolveSymbols
    [] t \in Analyses -> Analysis

\* resources/read asks about nothing in particular
Seeds(t, v) == IF t = Resource THEN {} ELSE {Asked} \cap v.syms

\* the symbols a call names that has found these
Hits(t, lexical, semantic, related) ==
  IF t = "diffuse_context" THEN related ELSE lexical \cup semantic \cup related

Nowhere == Index([syms |-> {}, edges |-> {}])

NoReply == [kind |-> "none", label |-> <<0, 0, 0>>, flagged |-> FALSE,
            truncated |-> FALSE, out |-> {}]

NoCall == [pc |-> "idle", tool |-> Resource, step |-> 1, snap |-> Nowhere,
              lexical |-> {}, semantic |-> {}, related |-> {}, hydrated |-> {},
              truncated |-> FALSE, reply |-> NoReply]

CallsInit ==
  /\ db \in {Index(c) : c \in {d \in Contents : Asked \in d.syms}}
  /\ resident = NoGraph
  /\ loaded = FALSE
  /\ call = [w \in Worker |-> NoCall]
  /\ commits = 0
  /\ calls = 0

-----------------------------------------------------------------------------
(* Commits of the other processes, each one transaction *)

Commit(v) ==
  /\ commits < MaxCommits
  /\ commits' = commits + 1
  /\ db' = v
  /\ UNCHANGED <<resident, loaded, call, calls>>

\* a publication: a changed symbol loses its vector and is queued
Publish ==
  \E c \in Contents, changed \in Changes :
    LET vecs == (db.vecs \cap c.syms) \ changed
        queue == c.syms \ vecs
    IN Commit([db EXCEPT !.gen = @ + 1, !.syms = c.syms, !.edges = c.edges, !.vecs = vecs,
                 !.queue = queue, !.sem = IF queue = {} THEN db.gen + 1 ELSE @])

\* the drain embeds what is queued, in the space recorded
Drain ==
  /\ db.queue # {}
  /\ Commit([db EXCEPT !.queue = {}, !.sem = db.gen, !.vecs = @ \cup (db.queue \cap db.syms)])

\* an indexer with another model replaces the vector space
Reembed ==
  \E space \in Space \ {db.space} :
    Commit([db EXCEPT !.gen = @ + 1, !.sem = db.gen + 1, !.space = space,
              !.queue = {}, !.vecs = db.syms])

\* safe_index_reset drops the index tables and leaves generation, queue and space
Reset == Commit([db EXCEPT !.syms = {}, !.edges = {}, !.vecs = {}])

\* an external tool drops a required index
LoseIndex ==
  /\ db.indexed
  /\ Commit([db EXCEPT !.indexed = FALSE])

EvictModel ==
  /\ loaded
  /\ loaded' = FALSE
  /\ UNCHANGED <<db, resident, call, commits, calls>>

-----------------------------------------------------------------------------
(* A call *)

Set(w, c) ==
  /\ call' = [call EXCEPT ![w] = c]
  /\ UNCHANGED <<db, commits>>

Own == <<resident, loaded, calls>>

Label(v) == <<v.gen, v.sem, Cardinality(v.queue)>>

\* refused before a generation is pinned: no freshness metadata
Refuse(w, kind) ==
  Set(w, [call[w] EXCEPT !.pc = "reply", !.reply = [NoReply EXCEPT !.kind = kind]])

Begin(w, t) ==
  /\ call[w].pc = "idle"
  /\ calls < MaxCalls
  /\ calls' = calls + 1
  /\ Set(w, [NoCall EXCEPT !.tool = t, !.pc = IF t = Resource THEN "open" ELSE "check"])
  /\ UNCHANGED <<resident, loaded>>

\* missing_required_indexes: INDEX_NOT_READY, not to be retried
Check(w) ==
  /\ call[w].pc = "check"
  /\ IF db.indexed THEN Set(w, [call[w] EXCEPT !.pc = "open"]) ELSE Refuse(w, "not_ready")
  /\ UNCHANGED Own

\* open_snapshot looks again
Open(w) ==
  /\ call[w].pc = "open"
  /\ IF db.indexed THEN Set(w, [call[w] EXCEPT !.pc = "pin"]) ELSE Refuse(w, "internal")
  /\ UNCHANGED Own

\* the first read after BEGIN DEFERRED pins what is committed
Pin(w) ==
  /\ call[w].pc = "pin"
  /\ Set(w, [call[w] EXCEPT !.pc = "stage", !.snap = db])
  /\ UNCHANGED Own

Stage(w) == Stages(call[w].tool)[call[w].step]

AtStage(w) ==
  /\ call[w].pc = "stage"
  /\ call[w].step \in DOMAIN Stages(call[w].tool)

Answer(w, kind, out) ==
  LET c == call[w] IN
  [kind |-> kind, label |-> Label(c.snap), flagged |-> FALSE,
   truncated |-> c.truncated /\ kind = "answer", out |-> out]

\* stage_gate: cancelled, or past the hard limit
GateStops(w) ==
  /\ AtStage(w)
  /\ Set(w, [call[w] EXCEPT !.pc = "reply", !.reply = Answer(w, "timeout", {})])
  /\ UNCHANGED Own

Onward(c) == [c EXCEPT !.step = @ + 1]

\* past the soft limit this stage is left out, and so is every later one
GateSkips(w) ==
  /\ AtStage(w)
  /\ Set(w, [Onward(call[w]) EXCEPT !.truncated = TRUE])
  /\ UNCHANGED Own

Passes(w, stage) == AtStage(w) /\ ~call[w].truncated /\ Stage(w) = stage

SearchText(w) ==
  /\ Passes(w, "lexical")
  /\ Set(w, [Onward(call[w]) EXCEPT !.lexical = Lexical(call[w].snap)])
  /\ UNCHANGED Own

SpaceOf(w) == call[w].snap.space

Allowed(w) == SpaceOf(w) = "ours"

\* a demand for the model may load it; semantic_available wants it loaded already
Score(w) ==
  /\ Passes(w, "semantic")
  /\ Allowed(w)
  /\ call[w].tool \in Diffusing => loaded /\ call[w].snap.vecs # {}
  /\ loaded' = TRUE
  /\ Set(w, [Onward(call[w]) EXCEPT !.semantic = call[w].snap.vecs])
  /\ UNCHANGED <<resident, calls>>

\* no guard, no model, or it fails
Withhold(w) ==
  /\ Passes(w, "semantic")
  /\ Set(w, Onward(call[w]))
  /\ UNCHANGED Own

\* Mutant of Hit: the cache is keyed by the generation embedded last
HitBySemantic(w) == resident.gen = call[w].snap.sem /\ resident.graph.nodes # {}

Hit(w) == resident.gen = call[w].snap.gen /\ resident.graph.nodes # {}

GraphFor(w) == IF Hit(w) THEN resident.graph ELSE Graph(call[w].snap)

\* resident_code_graph: built without the lock, stored afterwards
UseGraph(w, c) ==
  /\ Set(w, [c EXCEPT !.pc = IF Hit(w) THEN @ ELSE "store"])
  /\ UNCHANGED Own

Diffuse(w) ==
  /\ Passes(w, "diffuse")
  /\ UseGraph(w, [Onward(call[w]) EXCEPT
       !.related = Reached(GraphFor(w), call[w].lexical \cup call[w].semantic)])

LoadSubgraph(w) ==
  /\ Passes(w, "subgraph")
  /\ LET c == call[w] IN
     UseGraph(w, [Onward(c) EXCEPT !.related = Subgraph(c.snap, GraphFor(w), Seeds(c.tool, c.snap))])

StoreGraph(w) ==
  /\ call[w].pc = "store"
  /\ resident' = [gen |-> call[w].snap.gen, graph |-> Graph(call[w].snap)]
  /\ Set(w, [call[w] EXCEPT !.pc = "stage"])
  /\ UNCHANGED <<loaded, calls>>

Trace(w) ==
  /\ Passes(w, "trace")
  /\ Set(w, [Onward(call[w]) EXCEPT !.related = Traced(call[w].snap)])
  /\ UNCHANGED Own

Read(w) ==
  /\ Passes(w, "read")
  /\ Set(w, [Onward(call[w]) EXCEPT !.related = {Asked} \cap call[w].snap.syms])
  /\ UNCHANGED Own

Hydrate(w) ==
  /\ Passes(w, "hydrate")
  /\ LET c == call[w] IN
     Set(w, [Onward(c) EXCEPT
       !.hydrated = Hits(c.tool, c.lexical, c.semantic, c.related) \cap c.snap.syms])
  /\ UNCHANGED Own

\* tools that need the symbol itself
Missing(w) ==
  /\ call[w].tool \in {"symbol_lookup", "trace_blast_radius"}
  /\ ~call[w].truncated
  /\ Asked \notin call[w].snap.syms

\* a trace names what it reached, hydrated or not
Out(c) ==
  IF c.tool \in Analyses \cup {"symbol_lookup", "resolve_symbols", "dependency_trace"}
  THEN c.related ELSE c.hydrated

\* note_semantic_included; the capsule looks for a layer its hits no longer carry
Noted(c) == c.tool # "retrieve_context_capsule" /\ Out(c) \cap c.semantic # {}

Finish(w) ==
  /\ call[w].pc = "stage" /\ ~AtStage(w)
  /\ LET c == call[w]
         reply == IF Missing(w) THEN Answer(w, "not_found", {}) ELSE Answer(w, "answer", Out(c))
     IN Set(w, [c EXCEPT !.pc = "reply",
                  !.reply = [reply EXCEPT !.flagged = reply.kind = "answer" /\ Noted(c)]])
  /\ UNCHANGED Own

\* the response is written, the snapshot dropped
Deliver(w) ==
  /\ call[w].pc = "reply"
  /\ Set(w, NoCall)
  /\ UNCHANGED Own

-----------------------------------------------------------------------------
CallsNext ==
  \/ Publish \/ Drain \/ Reembed \/ Reset \/ LoseIndex \/ EvictModel
  \/ \E w \in Worker :
       \/ \E t \in ToolsOf[w] : Begin(w, t)
       \/ Check(w) \/ Open(w) \/ Pin(w) \/ GateStops(w) \/ GateSkips(w)
       \/ SearchText(w) \/ Score(w) \/ Withhold(w) \/ Diffuse(w) \/ LoadSubgraph(w)
       \/ StoreGraph(w) \/ Trace(w) \/ Read(w) \/ Hydrate(w) \/ Finish(w) \/ Deliver(w)

CallsSpec == CallsInit /\ [][CallsNext]_callVars

-----------------------------------------------------------------------------
(* Properties *)

\* The whole answer of a tool over version v, with or without vectors.
Whole(t, v, vectors) ==
  LET lexical == IF t \in {"symbol_search", "discover_symbols"} \cup Diffusing
                 THEN Lexical(v) ELSE {}
      semantic == IF vectors /\ v.space = "ours" /\
                     t \in {"semantic_search", "discover_symbols"} \cup Diffusing
                  THEN v.vecs ELSE {}
      related == CASE t \in Diffusing -> Reached(Graph(v), lexical \cup semantic)
                   [] t = "dependency_trace" -> Traced(v)
                   [] t \in Analyses -> Subgraph(v, Graph(v), Seeds(t, v))
                   [] t \in {"symbol_lookup", "resolve_symbols"} -> {Asked} \cap v.syms
                   [] OTHER -> {}
  IN Hits(t, lexical, semantic, related)

\* "derivable from exactly one committed generation" (prop_snapshot_consistency.rs:4):
\* whatever is committed between the stages of a call, whatever graph other calls
\* have left in the cache and whatever stages the deadline cuts, an answer names the
\* symbols its tool finds in the one version that its label gives, or some of them
\* if it says that it is truncated.
AnswerIsOfItsSnapshot ==
  \A w \in Worker :
    LET c == call[w]  r == c.reply IN
    r.kind = "answer" =>
      /\ r.label = Label(c.snap)
      /\ IF r.truncated
         THEN r.out \subseteq Whole(c.tool, c.snap, TRUE)
         ELSE \E vectors \in BOOLEAN : r.out = Whole(c.tool, c.snap, vectors)

\* What an answer says of its freshness can be relied on: semantic_available says
\* that the answer holds a symbol scored in the space of this process' own model
\* (server.rs:56, store_engine.rs:27), and it is said of every such answer except
\* a capsule's; no vector is pending exactly when both generations are the same.
FreshnessIsHonest ==
  \A w \in Worker :
    LET c == call[w]  r == c.reply
        scored == c.snap.space = "ours" /\ r.out \cap c.semantic # {} IN
    /\ r.flagged => scored
    /\ r.kind = "answer" /\ scored /\ c.tool # "retrieve_context_capsule" => r.flagged
    /\ r.kind = "answer" => (r.label[3] = 0 <=> r.label[1] = r.label[2])

\* Every answer of a tool is derived from the one generation that its label gives,
\* and its freshness metadata says of it what is true.
AnswersAreHonest == AnswerIsOfItsSnapshot /\ FreshnessIsHonest
=============================================================================
