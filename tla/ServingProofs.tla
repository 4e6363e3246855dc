--------------------------- MODULE ServingProofs ----------------------------
(***************************************************************************)
(* Proofs about what one owner process serves: the queue of its watcher,   *)
(* for any paths, kinds and cap; the tool calls, for any workers, tools    *)
(* asked for, contents of the index and cap of an analysis.                *)
(***************************************************************************)
EXTENDS WatcherQueue, ToolCalls, FiniteSetTheorems, TLAPS

-----------------------------------------------------------------------------
(* The inductive invariant: Exact, and what makes it exact.                  *)

QInv ==
  /\ QueueTypeOK
  /\ Exact
  /\ overflowed => map = Empty

LEMMA EmptyMap == Empty \in Observations /\ DOMAIN Empty = {} /\ Cardinality(DOMAIN Empty) = 0
<1>1. Empty \in [{} -> Kind] /\ DOMAIN Empty = {}
  BY DEF Empty
<1>2. IsFiniteSet({}) /\ Cardinality({}) = 0
  BY FS_EmptySet
<1> QED
  BY <1>1, <1>2 DEF Observations

LEMMA Finite ==
  ASSUME NEW m \in Observations
  PROVE  DOMAIN m \subseteq Path /\ IsFiniteSet(DOMAIN m) /\ Cardinality(DOMAIN m) \in Nat
<1>1. PICK S \in SUBSET Path : IsFiniteSet(S) /\ m \in [S -> Kind]
  BY DEF Observations
<1>2. Cardinality(S) \in Nat
  BY <1>1, FS_CardinalityType
<1> QED
  BY <1>1, <1>2

LEMMA InsertType ==
  ASSUME NEW m \in Observations, NEW p \in Path, NEW k \in Kind
  PROVE  /\ Insert(m, p, k) \in Observations
         /\ DOMAIN Insert(m, p, k) = DOMAIN m \cup {p}
         /\ Cardinality(DOMAIN Insert(m, p, k)) =
              IF p \in DOMAIN m THEN Cardinality(DOMAIN m) ELSE Cardinality(DOMAIN m) + 1
<1>1. PICK S \in SUBSET Path : IsFiniteSet(S) /\ m \in [S -> Kind]
  BY DEF Observations
<1>2. Insert(m, p, k) \in [S \cup {p} -> Kind] /\ DOMAIN m = S
  BY <1>1 DEF Insert
<1>3. IsFiniteSet(S \cup {p})
      /\ Cardinality(S \cup {p}) = IF p \in S THEN Cardinality(S) ELSE Cardinality(S) + 1
  BY <1>1, FS_AddElement
<1>4. S \cup {p} \in {T \in SUBSET Path : IsFiniteSet(T)}
  BY <1>1, <1>3
<1> QED
  BY <1>1, <1>2, <1>3, <1>4 DEF Observations

-----------------------------------------------------------------------------
LEMMA InitQInv == QueueInit => QInv
<1> SUFFICES ASSUME QueueInit PROVE QInv
  OBVIOUS
<1>1. Nothing \in [paths : SUBSET Path, reconcile : BOOLEAN]
  BY DEF Nothing
<1>2. Cardinality(DOMAIN Empty) <= Cap
  BY EmptyMap, QueueAssumption
<1> QED
  BY <1>1, <1>2, EmptyMap DEF QueueInit, QInv, QueueTypeOK, Exact

LEMMA OfferQInv ==
  ASSUME QInv, NEW p \in Path, NEW k \in Kind, Offer(p, k)
  PROVE  QInv'
<1> USE QueueAssumption DEF QInv, QueueTypeOK
<1>1. latest' \in Observations /\ plan' = plan
  BY InsertType DEF Offer
<1>2. Cardinality(DOMAIN latest) \in Nat /\ Cardinality(DOMAIN map) \in Nat
  BY Finite
<1>3. Cardinality(DOMAIN latest') =
        IF p \in DOMAIN latest THEN Cardinality(DOMAIN latest) ELSE Cardinality(DOMAIN latest) + 1
  BY InsertType DEF Offer
<1>4. CASE OfferAbsorbed
  <2>1. UNCHANGED <<map, overflowed>> /\ overflowed
    BY <1>4 DEF OfferAbsorbed
  <2>2. Exact'
    BY <1>2, <1>3, <2>1 DEF Exact
  <2> QED
    BY <1>1, <2>1, <2>2
<1>5. CASE OfferQueued(p, k)
  <2>1. map' = Insert(map, p, k) /\ latest' = Insert(latest, p, k) /\ ~overflowed /\ overflowed' = overflowed
    BY <1>5 DEF OfferQueued, Offer
  <2>2. map = latest
    BY <2>1 DEF Exact
  <2>3. map' \in Observations
    BY <2>1, InsertType
  <2>4. Cardinality(DOMAIN map') <= Cap
    BY <1>2, <1>3, <1>5, <2>1, <2>2 DEF OfferQueued, Replaces, Full
  <2> QED
    BY <1>1, <2>1, <2>2, <2>3, <2>4 DEF Exact
<1>6. CASE OfferOverflows(p)
  <2>1. map' = Empty /\ overflowed' = TRUE /\ ~overflowed
    BY <1>6 DEF OfferOverflows, Collapsed
  <2>2. map = latest
    BY <2>1 DEF Exact
  <2>3. Cardinality(DOMAIN latest') > Cap
    BY <1>2, <1>3, <1>6, <2>2 DEF OfferOverflows, Replaces, Full
  <2> QED
    BY <1>1, <2>1, <2>3, EmptyMap DEF Exact
<1> QED
  BY <1>4, <1>5, <1>6 DEF Offer

LEMMA StepQInv == QInv /\ [QueueNext]_queueVars => QInv'
<1> SUFFICES ASSUME QInv, [QueueNext]_queueVars PROVE QInv'
  OBVIOUS
<1>1. CASE Take
  <2>1. map' = Empty /\ latest' = Empty /\ overflowed' = FALSE
    BY <1>1 DEF Take
  <2>2. DOMAIN map \subseteq Path
    BY Finite DEF QInv, QueueTypeOK
  <2>3. plan' \in [paths : SUBSET Path, reconcile : BOOLEAN]
    <3>1. {} \in SUBSET Path /\ DOMAIN map \in SUBSET Path
      BY <2>2
    <3>2. \A S \in SUBSET Path, b \in BOOLEAN :
            [paths |-> S, reconcile |-> b] \in [paths : SUBSET Path, reconcile : BOOLEAN]
      OBVIOUS
    <3>3. \/ plan' = [paths |-> {}, reconcile |-> TRUE]
          \/ plan' = [paths |-> DOMAIN map, reconcile |-> FALSE]
          \/ plan' = [paths |-> {}, reconcile |-> FALSE]
      BY <1>1 DEF Take, Reconcile, Touched, Nothing
    <3> QED
      BY <3>1, <3>2, <3>3
  <2>4. Cardinality(DOMAIN Empty) <= Cap
    BY EmptyMap, QueueAssumption
  <2> QED
    BY <2>1, <2>3, <2>4, EmptyMap DEF QInv, QueueTypeOK, Exact
<1>2. CASE UNCHANGED queueVars
  BY <1>2 DEF queueVars, QInv, QueueTypeOK, Exact
<1> QED
  BY <1>1, <1>2, OfferQInv DEF QueueNext

LEMMA Invariant == QueueSpec => []QInv
BY InitQInv, StepQInv, PTL DEF QueueSpec

-----------------------------------------------------------------------------
\* The queue never holds more than Cap observations, and is the last one of every
\* path since the last take, unless these are more than the cap: then it has
\* collapsed into one reconcile (offer and take, queue.rs).
THEOREM QueueStaysExact == QueueSpec => []KeepsTheLatest
BY Invariant, PTL DEF QInv, KeepsTheLatest

\* What is taken covers every path observed since the last take.
THEOREM TakenCovers == QueueSpec => TakeCovers
<1>1. QInv /\ [QueueNext]_queueVars => [Take => plan'.reconcile \/ plan'.paths = DOMAIN latest]_queueVars
  <2> SUFFICES ASSUME QInv, Take PROVE plan'.reconcile \/ plan'.paths = DOMAIN latest
    OBVIOUS
  <2>1. CASE overflowed
    BY <2>1 DEF Take, Reconcile
  <2>2. CASE ~overflowed
    <3>1. map = latest
      BY <2>2 DEF QInv, Exact
    <3> QED
      BY <2>2, <3>1, EmptyMap DEF Take, Touched, Nothing
  <2> QED
    BY <2>1, <2>2
<1> QED
  BY <1>1, Invariant, PTL DEF QueueSpec, TakeCovers

-----------------------------------------------------------------------------
(* Tool calls.  The versions of the index that a database goes through; at   *)
(* which step of its tool each stage stands (none: Never); and what a call   *)
(* has read when it has passed it.                                           *)

Version ==
  {v \in [gen : Nat, sem : Nat, queue : SUBSET Symbol, syms : SUBSET Symbol,
          edges : SUBSET (Symbol \X Symbol), vecs : SUBSET Symbol, space : Space,
          indexed : BOOLEAN] :
     v.vecs \subseteq v.syms /\ v.sem <= v.gen /\ (v.queue = {} <=> v.sem = v.gen)}

Never == 9
Searching == {"symbol_search", "discover_symbols"} \cup Diffusing
Scoring == {"discover_symbols"} \cup Diffusing
Reading == {"symbol_lookup", "resolve_symbols"}

LexicalAt(t) == IF t \in Searching THEN 1 ELSE Never
SemanticAt(t) == IF t = "semantic_search" THEN 1 ELSE IF t \in Scoring THEN 2 ELSE Never
RelatedAt(t) ==
  IF t \in Diffusing THEN 3
  ELSE IF t \in {"dependency_trace"} \cup Analyses \cup Reading THEN 1 ELSE Never
HydrateAt(t) ==
  IF t \in Diffusing THEN 4
  ELSE IF t = "discover_symbols" THEN 3
  ELSE IF t \in {"symbol_search", "semantic_search", "dependency_trace"} THEN 2 ELSE Never

RelatedOf(t, v, semantic) ==
  CASE t \in Diffusing -> Reached(Graph(v), Lexical(v) \cup semantic)
    [] t = "dependency_trace" -> Traced(v)
    [] t \in Analyses -> Subgraph(v, Graph(v), Seeds(t, v))
    [] t \in Reading -> {Asked} \cap v.syms
    [] OTHER -> {}

Scored(c) ==
  c.semantic = {} \/ (c.step > SemanticAt(c.tool) /\ c.semantic = c.snap.vecs /\ c.snap.space = "ours")

Gathered(c) ==
  /\ c.lexical = IF c.step > LexicalAt(c.tool) THEN Lexical(c.snap) ELSE {}
  /\ c.related = IF c.step > RelatedAt(c.tool) THEN RelatedOf(c.tool, c.snap, c.semantic) ELSE {}
  /\ c.hydrated = IF c.step > HydrateAt(c.tool)
                  THEN Hits(c.tool, c.lexical, c.semantic, c.related) \cap c.snap.syms ELSE {}

\* what a call cut short can still name
Remnant(c) ==
  /\ c.hydrated = {}
  /\ c.tool \notin Diffusing =>
       c.related = {} \/ (c.tool = "dependency_trace" /\ c.related = Traced(c.snap))

Progress(c) == Scored(c) /\ IF c.truncated THEN Remnant(c) ELSE Gathered(c)

\* the bodies of AnswerIsOfItsSnapshot and of FreshnessIsHonest
Derived(c) ==
  c.reply.kind = "answer" =>
    /\ c.reply.label = Label(c.snap)
    /\ IF c.reply.truncated
       THEN c.reply.out \subseteq Whole(c.tool, c.snap, TRUE)
       ELSE \E vectors \in BOOLEAN : c.reply.out = Whole(c.tool, c.snap, vectors)

Candid(c) ==
  LET scored == c.snap.space = "ours" /\ c.reply.out \cap c.semantic # {} IN
  /\ c.reply.flagged => scored
  /\ c.reply.kind = "answer" /\ scored /\ c.tool # "retrieve_context_capsule" => c.reply.flagged
  /\ c.reply.kind = "answer" => (c.reply.label[3] = 0 <=> c.reply.label[1] = c.reply.label[2])

Early == {"check", "open", "pin"}

Reply == [kind : {"none", "not_ready", "internal", "timeout", "not_found", "answer"},
          label : Nat \X Nat \X Nat, flagged : BOOLEAN, truncated : BOOLEAN,
          out : SUBSET Symbol]

CallRecord ==
  [pc : Early \cup {"idle", "stage", "store", "reply"}, tool : Tool, step : 1..5, snap : Version,
   lexical : SUBSET Symbol, semantic : SUBSET Symbol, related : SUBSET Symbol,
   hydrated : SUBSET Symbol, truncated : BOOLEAN, reply : Reply]

CallOK(c) ==
  /\ Progress(c)
  /\ c.step <= Len(Stages(c.tool)) + 1
  /\ c.pc \in Early => c.step = 1 /\ ~c.truncated
  /\ c.pc # "reply" => c.reply = NoReply
  /\ Derived(c) /\ Candid(c)

\* Versions of one generation have one graph, but for those a reset has emptied.
SameGraph(u, v) ==
  u.gen = v.gen /\ u.syms # {} /\ v.syms # {} => Graph(u) = Graph(v)

\* and so has what is cached for that generation
Cached(r, v) ==
  r.gen = v.gen /\ r.graph.nodes # {} /\ v.syms # {} => r.graph = Graph(v)

CallsTyped ==
  /\ db \in Version
  /\ call \in [Worker -> CallRecord]
  /\ resident.gen \in Nat

Aged ==
  /\ 1 <= db.gen
  /\ resident.gen <= db.gen
  /\ \A w \in Worker : call[w].snap.gen <= db.gen

OneGraph ==
  /\ \A w \in Worker : SameGraph(call[w].snap, db)
  /\ \A v, w \in Worker : SameGraph(call[v].snap, call[w].snap)

CacheTrue ==
  /\ Cached(resident, db)
  /\ \A w \in Worker : Cached(resident, call[w].snap)

CInv ==
  /\ CallsTyped /\ Aged /\ OneGraph /\ CacheTrue
  /\ \A w \in Worker : CallOK(call[w])

LEMMA SymbolsFinite == IsFiniteSet(Symbol)
<1> DEFINE f == [i \in 1..Len(Rows) |-> Rows[i]]
<1>1. Len(Rows) \in Nat /\ DOMAIN Rows = 1..Len(Rows)
  BY CallsAssumption
<1>2. f \in Surjection(1..Len(Rows), Symbol)
  BY <1>1 DEF Surjection, Symbol
<1>3. IsFiniteSet(1..Len(Rows))
  BY <1>1, FS_Interval
<1> QED
  BY <1>2, <1>3, FS_Surjection

\* Where each stage of a tool stands.
LEMMA StageTable ==
  ASSUME NEW t \in Tool
  PROVE  /\ DOMAIN Stages(t) = 1..Len(Stages(t)) /\ Len(Stages(t)) \in 1..4
         /\ \A i \in DOMAIN Stages(t) :
              /\ Stages(t)[i] = "lexical" => i = LexicalAt(t)
              /\ Stages(t)[i] = "semantic" => i = SemanticAt(t)
              /\ Stages(t)[i] = "diffuse" => i = RelatedAt(t) /\ t \in Diffusing
              /\ Stages(t)[i] = "trace" => i = RelatedAt(t) /\ t = "dependency_trace"
              /\ Stages(t)[i] = "subgraph" => i = RelatedAt(t) /\ t \in Analyses
              /\ Stages(t)[i] = "read" => i = RelatedAt(t) /\ t \in Reading
              /\ Stages(t)[i] = "hydrate" => i = HydrateAt(t)
         /\ \A i \in DOMAIN Stages(t) :
              /\ i = LexicalAt(t) => Stages(t)[i] = "lexical"
              /\ i = SemanticAt(t) => Stages(t)[i] = "semantic"
              /\ i = RelatedAt(t) => Stages(t)[i] \in {"diffuse", "trace", "subgraph", "read"}
              /\ i = HydrateAt(t) => Stages(t)[i] = "hydrate"
         /\ LexicalAt(t) \in 1..Len(Stages(t)) \/ LexicalAt(t) = Never
         /\ SemanticAt(t) \in 1..Len(Stages(t)) \/ SemanticAt(t) = Never
         /\ RelatedAt(t) \in 1..Len(Stages(t)) \/ RelatedAt(t) = Never
         /\ HydrateAt(t) = Len(Stages(t)) \/ HydrateAt(t) = Never
         /\ t \in Analyses \cup Reading => Len(Stages(t)) = 1
         /\ t = "dependency_trace" => Len(Stages(t)) = 2
<1> USE DEF LexicalAt, SemanticAt, RelatedAt, HydrateAt, Never, Searching, Scoring, Reading,
            Diffusing, Analyses, Resource
<1>1. CASE t = "symbol_search"
  BY <1>1 DEF Stages, SymbolSearch
<1>2. CASE t = "semantic_search"
  BY <1>2 DEF Stages, SemanticSearch
<1>3. CASE t = "discover_symbols"
  BY <1>3 DEF Stages, DiscoverSymbols
<1>4. CASE t = "diffuse_context"
  BY <1>4 DEF Stages, DiffuseContext
<1>5. CASE t = "retrieve_context_capsule"
  BY <1>5 DEF Stages, RetrieveContextCapsule
<1>6. CASE t = "dependency_trace"
  BY <1>6 DEF Stages, DependencyTrace
<1>7. CASE t = "symbol_lookup"
  BY <1>7 DEF Stages, SymbolLookup
<1>8. CASE t = "resolve_symbols"
  BY <1>8 DEF Stages, ResolveSymbols
<1>9. CASE t \in Analyses
  <2>1. Stages(t) = <<"subgraph">>
    BY <1>9 DEF Stages, Analysis
  <2> QED
    BY <1>9, <2>1
<1> QED
  BY <1>1, <1>2, <1>3, <1>4, <1>5, <1>6, <1>7, <1>8, <1>9 DEF Tool

\* What is read in a version is of it.
LEMMA ReadIsOfVersion ==
  ASSUME NEW v \in Version
  PROVE  /\ Lexical(v) \subseteq v.syms
         /\ \A seeds : Reached(Graph(v), seeds) \subseteq v.syms
         /\ Traced(v) \subseteq Symbol
         /\ \A g, seeds : Subgraph(v, g, seeds) \subseteq v.syms
<1>1. \A S : S \subseteq v.syms => Around(Graph(v).links, S) \subseteq v.syms
  BY DEF Graph, Around, Flagged
<1>2. Graph(v).nodes = v.syms
  BY DEF Graph
<1>3. ASSUME NEW seeds PROVE Reached(Graph(v), seeds) \subseteq v.syms
  <2> DEFINE from == seeds \cap Graph(v).nodes
             one == from \cup Around(Graph(v).links, from)
  <2>1. from \subseteq v.syms
    BY <1>2
  <2>2. one \subseteq v.syms
    BY <1>1, <2>1
  <2>3. Around(Graph(v).links, one) \subseteq v.syms
    BY <1>1, <2>2
  <2> QED
    BY <2>2, <2>3 DEF Reached
<1>4. Traced(v) \subseteq Symbol
  <2>1. v.edges \subseteq Symbol \X Symbol
    BY DEF Version
  <2> DEFINE out(S) == {e[2] : e \in {l \in v.edges : l[1] \in S /\ ~Flagged(v, l)}}
             one == out({Asked})
             two == one \cup out(one)
  <2>2. \A S : out(S) \subseteq Symbol
    BY <2>1
  <2>3. Traced(v) = (two \cup out(two)) \ {Asked}
    BY DEF Traced
  <2> HIDE DEF out
  <2> QED
    BY <2>2, <2>3
<1> QED
  BY <1>3, <1>4 DEF Lexical, Subgraph

\* A cached graph reaches from what a version holds what the version's own graph does.
LEMMA CacheServes ==
  ASSUME NEW v \in Version, NEW r, Cached(r, v), r.gen = v.gen, r.graph.nodes # {}
  PROVE  /\ \A seeds : seeds \subseteq v.syms => Reached(r.graph, seeds) = Reached(Graph(v), seeds)
         /\ \A seeds : Subgraph(v, r.graph, seeds) = Subgraph(v, Graph(v), seeds)
<1>1. CASE v.syms # {}
  BY <1>1 DEF Cached
<1>2. CASE v.syms = {}
  <2>1. \A g : Reached(g, {}) = {}
    BY DEF Reached, Around
  <2>2. \A g, seeds : Subgraph(v, g, seeds) = {}
    BY <1>2 DEF Subgraph
  <2> QED
    BY <1>2, <2>1, <2>2
<1> QED
  BY <1>1, <1>2

\* The whole answer of a tool, without vectors and with them.
LEMMA WholeIs ==
  ASSUME NEW t \in Tool, NEW v
  PROVE  LET lexical == IF t \in Searching THEN Lexical(v) ELSE {} IN
         /\ Whole(t, v, FALSE) = Hits(t, lexical, {}, RelatedOf(t, v, {}))
         /\ SemanticAt(t) # Never /\ v.space = "ours" =>
              Whole(t, v, TRUE) = Hits(t, lexical, v.vecs, RelatedOf(t, v, v.vecs))
         /\ t = "dependency_trace" => Whole(t, v, TRUE) = Traced(v)
<1>1. t \in Diffusing => t \in Searching
  BY DEF Searching
<1>2. SemanticAt(t) # Never <=> t \in {"semantic_search", "discover_symbols"} \cup Diffusing
  BY DEF SemanticAt, Scoring, Never
<1>3. Whole(t, v, FALSE) = Hits(t, IF t \in Searching THEN Lexical(v) ELSE {}, {}, RelatedOf(t, v, {}))
  BY <1>1 DEF Whole, RelatedOf, Searching, Reading
<1>4. ASSUME SemanticAt(t) # Never, v.space = "ours"
      PROVE  Whole(t, v, TRUE) =
               Hits(t, IF t \in Searching THEN Lexical(v) ELSE {}, v.vecs, RelatedOf(t, v, v.vecs))
  BY <1>1, <1>2, <1>4 DEF Whole, RelatedOf, Searching, Reading
<1>5. ASSUME t = "dependency_trace"
      PROVE  Whole(t, v, TRUE) = Traced(v)
  <2>1. t \notin Searching /\ t \notin Diffusing /\ SemanticAt(t) = Never
    BY <1>5 DEF Diffusing, Searching, SemanticAt, Scoring
  <2>2. Whole(t, v, TRUE) = Hits(t, {}, {}, RelatedOf(t, v, {}))
    BY <1>2, <2>1 DEF Whole, RelatedOf, Searching, Reading
  <2>3. RelatedOf(t, v, {}) = Traced(v)
    BY <1>5 DEF RelatedOf, Diffusing, Analyses, Reading, Resource
  <2>4. Hits(t, {}, {}, Traced(v)) = Traced(v)
    BY <1>5 DEF Hits
  <2> QED
    BY <2>2, <2>3, <2>4
<1> QED
  BY <1>3, <1>4, <1>5

\* What a tool is told of relation, one case at a time.
LEMMA RelatedIs ==
  ASSUME NEW t \in Tool, NEW v, NEW s
  PROVE  /\ t \in Diffusing => RelatedOf(t, v, s) = Reached(Graph(v), Lexical(v) \cup s)
         /\ t = "dependency_trace" => RelatedOf(t, v, s) = Traced(v)
         /\ t \in Analyses => RelatedOf(t, v, s) = Subgraph(v, Graph(v), Seeds(t, v))
         /\ t \in Reading => RelatedOf(t, v, s) = {Asked} \cap v.syms
BY DEF RelatedOf, Diffusing, Analyses, Reading, Resource

LEMMA RelatedType ==
  ASSUME NEW t \in Tool, NEW v \in Version, NEW s
  PROVE  /\ RelatedOf(t, v, s) \in SUBSET Symbol
         /\ t # "dependency_trace" => RelatedOf(t, v, s) \subseteq v.syms
<1>1. v.syms \subseteq Symbol
  BY DEF Version
<1>2. CASE t \in Diffusing \/ t = "dependency_trace" \/ t \in Analyses \/ t \in Reading
  <2>1. CASE t \in Diffusing
    <3>1. RelatedOf(t, v, s) = Reached(Graph(v), Lexical(v) \cup s)
      BY <2>1, RelatedIs
    <3> QED
      BY <1>1, <3>1, ReadIsOfVersion
  <2>2. CASE t = "dependency_trace"
    <3>1. t = "dependency_trace" => RelatedOf(t, v, s) = Traced(v)
      BY RelatedIs
    <3> QED
      BY <2>2, <3>1, ReadIsOfVersion
  <2>3. CASE t \in Analyses
    <3>1. RelatedOf(t, v, s) = Subgraph(v, Graph(v), Seeds(t, v))
      BY <2>3, RelatedIs
    <3> QED
      BY <1>1, <3>1, ReadIsOfVersion
  <2>4. CASE t \in Reading
    <3>1. RelatedOf(t, v, s) = {Asked} \cap v.syms
      BY <2>4, RelatedIs
    <3> QED
      BY <1>1, <3>1
  <2> QED
    BY <1>2, <2>1, <2>2, <2>3, <2>4
<1>3. CASE ~(t \in Diffusing \/ t = "dependency_trace" \/ t \in Analyses \/ t \in Reading)
  <2>1. RelatedOf(t, v, s) = {}
    BY <1>3 DEF RelatedOf
  <2> QED
    BY <2>1
<1> QED
  BY <1>2, <1>3

\* Nothing was said yet.
LEMMA NoReplyOK ==
  ASSUME NEW c, c.reply = NoReply
  PROVE  Derived(c) /\ Candid(c)
BY DEF Derived, Candid, NoReply

\* A call that is not cut short has, one stage on, what that stage adds.
LEMMA OnwardOK ==
  ASSUME NEW c \in CallRecord, CallOK(c), c.pc = "stage", ~c.truncated,
         c.step \in DOMAIN Stages(c.tool),
         NEW d \in CallRecord, d.tool = c.tool, d.step = c.step + 1, d.snap = c.snap,
         d.truncated = FALSE, d.reply = c.reply, d.pc \in {"stage", "store"},
         d.semantic = c.semantic
           \/ (c.step = SemanticAt(c.tool) /\ d.semantic = c.snap.vecs /\ c.snap.space = "ours"),
         d.lexical = IF c.step = LexicalAt(c.tool) THEN Lexical(c.snap) ELSE c.lexical,
         d.related = IF c.step = RelatedAt(c.tool)
                     THEN RelatedOf(c.tool, c.snap, c.semantic) ELSE c.related,
         d.hydrated = IF c.step = HydrateAt(c.tool)
                      THEN Hits(c.tool, c.lexical, c.semantic, c.related) \cap c.snap.syms
                      ELSE c.hydrated
  PROVE  CallOK(d)
<1> DEFINE t == c.tool
           n == Len(Stages(t))
           L == LexicalAt(t)
           S == SemanticAt(t)
           R == RelatedAt(t)
           H == HydrateAt(t)
<1>1. c.tool \in Tool /\ c.step \in 1..5
  BY DEF CallRecord
<1>2. /\ n \in 1..4 /\ c.step \in 1..n
      /\ L \in 1..n \/ L = 9
      /\ S \in 1..n \/ S = 9
      /\ R \in 1..n \/ R = 9
      /\ H = n \/ H = 9
  BY <1>1, StageTable DEF Never
<1>3. /\ c.step = L => c.step # S /\ c.step # R /\ c.step # H
      /\ c.step = S => c.step # R /\ c.step # H
      /\ c.step = R => c.step # H
  BY <1>1, StageTable
<1>4. S # 9 /\ R # 9 => S < R
  BY DEF SemanticAt, RelatedAt, Never, Scoring, Diffusing, Analyses, Reading, Resource
<1>5. Scored(c) /\ Gathered(c) /\ c.reply = NoReply
  BY DEF CallOK, Progress
<1> HIDE DEF L, S, R, H, n
<1>6. Scored(d)
  BY <1>1, <1>2, <1>5 DEF Scored, S
<1>7. d.lexical = IF d.step > L THEN Lexical(d.snap) ELSE {}
  BY <1>1, <1>2, <1>5 DEF Gathered, L
<1>8. d.related = IF d.step > R THEN RelatedOf(t, d.snap, d.semantic) ELSE {}
  <2>1. c.related = IF c.step > R THEN RelatedOf(t, c.snap, c.semantic) ELSE {}
    BY <1>5 DEF Gathered, R
  <2>2. c.step >= R => d.semantic = c.semantic
    BY <1>1, <1>2, <1>3, <1>4 DEF S
  <2> QED
    BY <1>1, <1>2, <2>1, <2>2 DEF R
<1>9. d.hydrated = IF d.step > H THEN Hits(t, d.lexical, d.semantic, d.related) \cap d.snap.syms ELSE {}
  <2>1. c.hydrated = IF c.step > H THEN Hits(t, c.lexical, c.semantic, c.related) \cap c.snap.syms ELSE {}
    BY <1>5 DEF Gathered, H
  <2>2. c.step = H => d.lexical = c.lexical /\ d.semantic = c.semantic /\ d.related = c.related
    BY <1>3 DEF L, S, R
  <2>3. ~(c.step > H)
    BY <1>1, <1>2
  <2>4. d.step > H <=> c.step = H
    BY <1>1, <1>2, <2>3
  <2>5. CASE c.step = H
    BY <2>2, <2>4, <2>5 DEF H
  <2>6. CASE c.step # H
    BY <2>1, <2>3, <2>4, <2>6 DEF H
  <2> QED
    BY <2>5, <2>6
<1>10. Progress(d)
  BY <1>6, <1>7, <1>8, <1>9 DEF Progress, Gathered, L, R, H
<1>11. d.step <= Len(Stages(d.tool)) + 1
  BY <1>2 DEF n
<1>12. Derived(d) /\ Candid(d)
  BY <1>5, NoReplyOK
<1> QED
  BY <1>5, <1>10, <1>11, <1>12 DEF CallOK, Early

\* When the deadline cuts a call short, its remnant is what a trace had reached.
LEMMA SkipOK ==
  ASSUME NEW c \in CallRecord, CallOK(c), c.pc = "stage", c.step \in DOMAIN Stages(c.tool),
         NEW d \in CallRecord, d = [c EXCEPT !.step = c.step + 1, !.truncated = TRUE]
  PROVE  CallOK(d)
<1>1. c.tool \in Tool /\ c.step \in 1..5 /\ d.step = c.step + 1 /\ d.truncated
      /\ d.tool = c.tool /\ d.snap = c.snap /\ d.semantic = c.semantic /\ d.related = c.related
      /\ d.hydrated = c.hydrated /\ d.reply = c.reply /\ d.pc = c.pc
  BY DEF CallRecord
<1>2. Scored(d)
  <2>1. SemanticAt(c.tool) \in Nat
    BY <1>1 DEF SemanticAt, Never
  <2> QED
    BY <1>1, <2>1 DEF CallOK, Progress, Scored
<1>3. Remnant(d)
  <2>1. CASE c.truncated
    BY <1>1, <2>1 DEF CallOK, Progress, Remnant
  <2>2. CASE ~c.truncated
    <3>1. Gathered(c)
      BY <2>2 DEF CallOK, Progress
    <3>2. ~(c.step > HydrateAt(c.tool))
      BY <1>1, StageTable DEF Never
    <3>3. c.tool \notin Diffusing /\ c.step > RelatedAt(c.tool) => c.tool = "dependency_trace"
      <4>1. c.step <= Len(Stages(c.tool)) /\ Len(Stages(c.tool)) \in 1..4
        BY <1>1, StageTable
      <4>2. c.tool \in Analyses \cup Reading => ~(c.step > RelatedAt(c.tool))
        <5>1. c.tool \in Analyses \cup Reading => Len(Stages(c.tool)) = 1
          BY <1>1, StageTable
        <5>2. RelatedAt(c.tool) \in 1..9
          BY DEF RelatedAt, Never
        <5> QED
          BY <1>1, <4>1, <5>1, <5>2
      <4>3. c.tool \notin Diffusing \cup {"dependency_trace"} \cup Analyses \cup Reading
              => RelatedAt(c.tool) = 9
        BY DEF RelatedAt, Never
      <4> QED
        BY <1>1, <4>2, <4>3
    <3>4. c.hydrated = {}
      BY <3>1, <3>2 DEF Gathered
    <3>5. c.tool \notin Diffusing => c.related = {} \/ (c.tool = "dependency_trace" /\ c.related = Traced(c.snap))
      <4>1. c.tool = "dependency_trace" => RelatedOf(c.tool, c.snap, c.semantic) = Traced(c.snap)
        BY <1>1, RelatedIs
      <4> QED
        BY <3>1, <3>3, <4>1 DEF Gathered
    <3> QED
      BY <1>1, <3>4, <3>5 DEF Remnant
  <2> QED
    BY <2>1, <2>2
<1>4. d.step <= Len(Stages(d.tool)) + 1
  BY <1>1, StageTable
<1>5. c.reply = NoReply
  BY DEF CallOK
<1> QED
  BY <1>1, <1>2, <1>3, <1>4, <1>5, NoReplyOK DEF CallOK, Progress, Early

LEMMA LabelOK ==
  ASSUME NEW v \in Version
  PROVE  /\ Label(v) \in Nat \X Nat \X Nat
         /\ Label(v)[3] = 0 <=> Label(v)[1] = Label(v)[2]
<1>1. v.queue \subseteq Symbol /\ v.gen \in Nat /\ v.sem \in Nat /\ (v.queue = {} <=> v.sem = v.gen)
  BY DEF Version
<1>2. IsFiniteSet(v.queue)
  BY <1>1, SymbolsFinite, FS_Subset
<1>3. Cardinality(v.queue) \in Nat /\ (Cardinality(v.queue) = 0 <=> v.queue = {})
  BY <1>2, FS_CardinalityType, FS_EmptySet
<1> QED
  BY <1>1, <1>3 DEF Label

\* A call that nothing has cut short has, behind its last stage, the whole answer.
LEMMA NamesTheWhole ==
  ASSUME NEW c \in CallRecord, CallOK(c), c.step \notin DOMAIN Stages(c.tool), ~c.truncated
  PROVE  \E vectors \in BOOLEAN : Out(c) = Whole(c.tool, c.snap, vectors)
<1> DEFINE t == c.tool
           v == c.snap
           X == Hits(t, c.lexical, c.semantic, c.related)
<1>1. t \in Tool /\ v \in Version /\ c.step \in 1..5 /\ c.step = Len(Stages(t)) + 1
  <2>1. t \in Tool /\ v \in Version /\ c.step \in 1..5 /\ c.step <= Len(Stages(t)) + 1
    BY DEF CallRecord, CallOK
  <2>2. DOMAIN Stages(t) = 1..Len(Stages(t)) /\ Len(Stages(t)) \in 1..4
    BY <2>1, StageTable
  <2> QED
    BY <2>1, <2>2
<1>2. Scored(c) /\ Gathered(c)
  BY DEF CallOK, Progress
<1>3. /\ c.step > LexicalAt(t) <=> t \in Searching
      /\ c.step > SemanticAt(t) <=> SemanticAt(t) # Never
      /\ c.step > RelatedAt(t) <=> RelatedAt(t) # Never
      /\ c.step > HydrateAt(t) <=> HydrateAt(t) # Never
  <2>1. LexicalAt(t) = Never <=> t \notin Searching
    BY DEF LexicalAt, Never
  <2> QED
    BY <1>1, <2>1, StageTable DEF Never
<1>4. c.lexical = IF t \in Searching THEN Lexical(v) ELSE {}
  BY <1>2, <1>3 DEF Gathered
<1>5. c.related = RelatedOf(t, v, c.semantic)
  <2>1. CASE RelatedAt(t) # Never
    BY <1>2, <1>3, <2>1 DEF Gathered
  <2>2. CASE RelatedAt(t) = Never
    <3>1. t \notin Diffusing \cup {"dependency_trace"} \cup Analyses \cup Reading
      BY <2>2 DEF RelatedAt, Never
    <3>2. RelatedOf(t, v, c.semantic) = {}
      BY <3>1 DEF RelatedOf
    <3> QED
      BY <1>2, <1>3, <2>2, <3>2 DEF Gathered
  <2> QED
    BY <2>1, <2>2
<1>6. \E vectors \in BOOLEAN : X = Whole(t, v, vectors)
  <2>1. CASE c.semantic = {}
    <3>1. Whole(t, v, FALSE) =
            Hits(t, IF t \in Searching THEN Lexical(v) ELSE {}, {}, RelatedOf(t, v, {}))
      BY <1>1, WholeIs
    <3>2. X = Whole(t, v, FALSE)
      BY <1>4, <1>5, <2>1, <3>1
    <3> QED
      BY <3>2
  <2>2. CASE c.semantic # {}
    <3>1. SemanticAt(t) # Never /\ v.space = "ours" /\ c.semantic = v.vecs
      BY <1>2, <1>3, <2>2 DEF Scored
    <3>2. Whole(t, v, TRUE) =
            Hits(t, IF t \in Searching THEN Lexical(v) ELSE {}, v.vecs, RelatedOf(t, v, v.vecs))
      BY <1>1, <3>1, WholeIs
    <3>3. X = Whole(t, v, TRUE)
      BY <1>4, <1>5, <3>1, <3>2
    <3> QED
      BY <3>3
  <2> QED
    BY <2>1, <2>2
<1>7. Out(c) = X
  <2>1. CASE t \in Analyses \cup Reading \cup {"dependency_trace"}
    <3>1. t \notin Searching /\ SemanticAt(t) = Never /\ t # "diffuse_context"
      BY <2>1 DEF Searching, SemanticAt, Scoring, Diffusing, Analyses, Reading, Resource
    <3>2. c.lexical = {} /\ c.semantic = {}
      BY <1>2, <1>3, <1>4, <3>1 DEF Scored
    <3>3. Out(c) = c.related
      BY <2>1 DEF Out, Reading
    <3> QED
      BY <3>1, <3>2, <3>3 DEF Hits
  <2>2. CASE t \notin Analyses \cup Reading \cup {"dependency_trace"}
    <3>1. HydrateAt(t) # Never
      BY <1>1, <2>2 DEF HydrateAt, Never, Tool, Reading
    <3>2. Out(c) = X \cap v.syms
      BY <1>2, <1>3, <2>2, <3>1 DEF Gathered, Out, Reading
    <3>3. c.lexical \subseteq v.syms
      BY <1>1, <1>4, ReadIsOfVersion
    <3>4. c.semantic \subseteq v.syms
      BY <1>1, <1>2 DEF Scored, Version
    <3>5. c.related \subseteq v.syms
      BY <1>1, <1>5, <2>2, RelatedType
    <3> QED
      BY <3>2, <3>3, <3>4, <3>5 DEF Hits
  <2> QED
    BY <2>1, <2>2
<1> QED
  BY <1>6, <1>7

\* The reply of Finish is derived from the snapshot and honest of its freshness.
LEMMA FinishOK ==
  ASSUME NEW c \in CallRecord, CallOK(c), c.pc = "stage", c.step \notin DOMAIN Stages(c.tool),
         NEW d \in CallRecord,
         d.tool = c.tool, d.step = c.step, d.snap = c.snap, d.truncated = c.truncated,
         d.semantic = c.semantic, d.lexical = c.lexical, d.related = c.related,
         d.hydrated = c.hydrated, d.pc = "reply",
         d.reply.label = Label(c.snap),
         \/ d.reply.kind = "not_found" /\ ~d.reply.flagged
         \/ /\ d.reply.kind = "answer" /\ d.reply.truncated = c.truncated
            /\ d.reply.out = Out(c) /\ d.reply.flagged = Noted(c)
  PROVE  CallOK(d)
<1>1. c.tool \in Tool /\ c.snap \in Version
  BY DEF CallRecord
<1>2. Derived(d)
  <2> SUFFICES ASSUME d.reply.kind = "answer" PROVE Derived(d)
    BY DEF Derived
  <2>1. CASE c.truncated
    <3>1. Remnant(c)
      BY <2>1 DEF CallOK, Progress
    <3>2. Out(c) = {} \/ (c.tool = "dependency_trace" /\ Out(c) = Traced(c.snap))
      BY <3>1 DEF Remnant, Out, Diffusing, Analyses, Resource
    <3>3. c.tool = "dependency_trace" => Whole(c.tool, c.snap, TRUE) = Traced(c.snap)
      BY <1>1, WholeIs
    <3>4. Out(c) \subseteq Whole(c.tool, c.snap, TRUE)
      BY <3>2, <3>3
    <3> QED
      BY <2>1, <3>4 DEF Derived
  <2>2. CASE ~c.truncated
    <3>1. \E vectors \in BOOLEAN : Out(c) = Whole(c.tool, c.snap, vectors)
      BY <2>2, NamesTheWhole
    <3> QED
      BY <2>2, <3>1 DEF Derived
  <2> QED
    BY <2>1, <2>2
<1>3. Candid(d)
  <2>1. Scored(c)
    BY DEF CallOK, Progress
  <2>2. Noted(c) <=> c.tool # "retrieve_context_capsule" /\ Out(c) \cap c.semantic # {}
    BY DEF Noted
  <2>3. d.reply.label[3] = 0 <=> d.reply.label[1] = d.reply.label[2]
    BY <1>1, LabelOK
  <2> QED
    BY <2>1, <2>2, <2>3 DEF Candid, Scored
<1>4. Progress(d)
  BY DEF CallOK, Progress, Scored, Gathered, Remnant
<1> QED
  BY <1>2, <1>3, <1>4 DEF CallOK, Early

-----------------------------------------------------------------------------
(* The steps.  A version that is none, and a call that is none.             *)

LEMMA NoneYet ==
  /\ Nowhere \in Version /\ Nowhere.syms = {} /\ Nowhere.gen = 1
  /\ NoReply \in Reply
  /\ NoCall \in CallRecord /\ CallOK(NoCall)
  /\ \A t \in Tool, p \in Early :
       LET c == [NoCall EXCEPT !.tool = t, !.pc = p] IN
       c \in CallRecord /\ CallOK(c) /\ c.snap = Nowhere
<1>1. Nowhere \in Version /\ Nowhere.syms = {} /\ Nowhere.gen = 1
  BY DEF Nowhere, Index, Version, Space
<1>2. NoReply \in Reply
  BY DEF NoReply, Reply
<1>3. NoCall \in CallRecord /\ NoCall.snap = Nowhere
  BY <1>1, <1>2 DEF NoCall, CallRecord, Tool, Analyses
<1>4. ASSUME NEW t \in Tool, NEW p \in Early \cup {"idle"}
      PROVE  LET c == [NoCall EXCEPT !.tool = t, !.pc = p] IN
             c \in CallRecord /\ CallOK(c) /\ c.snap = Nowhere
  <2> DEFINE c == [NoCall EXCEPT !.tool = t, !.pc = p]
  <2>1. c \in CallRecord
    BY <1>3 DEF CallRecord
  <2>2. /\ c.tool = t /\ c.pc = p /\ c.step = 1 /\ c.lexical = {} /\ c.semantic = {}
        /\ c.related = {} /\ c.hydrated = {} /\ c.truncated = FALSE /\ c.reply = NoReply
        /\ c.snap = Nowhere
    BY DEF NoCall
  <2> HIDE DEF c
  <2>3. Progress(c)
    <3>1. ~(1 > LexicalAt(t)) /\ ~(1 > RelatedAt(t)) /\ ~(1 > HydrateAt(t))
      BY DEF LexicalAt, RelatedAt, HydrateAt, Never
    <3> QED
      BY <2>2, <3>1 DEF Progress, Scored, Gathered
  <2>4. c.step <= Len(Stages(c.tool)) + 1
    BY <2>2, StageTable
  <2>5. Derived(c) /\ Candid(c)
    BY <2>2, NoReplyOK
  <2>6. CallOK(c)
    BY <2>2, <2>3, <2>4, <2>5 DEF CallOK
  <2> QED
    BY <2>1, <2>2, <2>6 DEF c
<1>5. CallOK(NoCall)
  <2>1. NoCall.tool = Resource /\ NoCall.pc = "idle"
    BY DEF NoCall
  <2>2. Resource \in Tool
    BY DEF Tool, Analyses
  <2>3. NoCall = [NoCall EXCEPT !.tool = Resource, !.pc = "idle"]
    <3>1. \A c \in CallRecord : c = [c EXCEPT !.tool = c.tool, !.pc = c.pc]
      BY DEF CallRecord
    <3> QED
      BY <1>3, <2>1, <3>1
  <2> QED
    <3>1. CallOK([NoCall EXCEPT !.tool = Resource, !.pc = "idle"])
      BY <1>4, <2>2
    <3> QED
      BY <2>3, <3>1
<1> QED
  BY <1>1, <1>2, <1>3, <1>4, <1>5

\* One call changes: it keeps its snapshot, drops it, or pins what is committed.
LEMMA OneCall ==
  ASSUME CInv, NEW w \in Worker, NEW c \in CallRecord, CallOK(c),
         call' = [call EXCEPT ![w] = c], db' = db, resident' = resident,
         c.snap = call[w].snap \/ c.snap = db \/ c.snap = Nowhere
  PROVE  CInv'
<1>1. call \in [Worker -> CallRecord] /\ call'[w] = c /\ \A v \in Worker \ {w} : call'[v] = call[v]
  BY DEF CInv, CallsTyped
<1>2. \A v \in Worker :
        \/ call'[v].snap = call[v].snap
        \/ call'[v].snap = db
        \/ call'[v].snap = Nowhere
  BY <1>1
<1>3. CallsTyped'
  BY <1>1 DEF CInv, CallsTyped
<1>4. Aged'
  <2>1. db.gen \in Nat /\ 1 <= db.gen /\ resident.gen <= db.gen
        /\ \A v \in Worker : call[v].snap.gen <= db.gen
    BY DEF CInv, Aged, CallsTyped, Version
  <2>2. Nowhere.gen = 1
    BY NoneYet
  <2>3. db.gen <= db.gen /\ Nowhere.gen <= db.gen
    BY <2>1, <2>2
  <2>4. \A v \in Worker : call'[v].snap.gen <= db.gen
    BY <1>2, <2>1, <2>3
  <2> QED
    BY <2>1, <2>4 DEF Aged
<1>5. OneGraph'
  <2>1. PICK n : n = Nowhere
    OBVIOUS
  <2>2. n.syms = {}
    BY <2>1, NoneYet
  <2>3. \A u : SameGraph(u, n) /\ SameGraph(n, u) /\ SameGraph(u, u)
    BY <2>2 DEF SameGraph
  <2>4. \A u, v : SameGraph(u, v) => SameGraph(v, u)
    BY DEF SameGraph
  <2>5. /\ \A v \in Worker : SameGraph(call[v].snap, db)
        /\ \A u, v \in Worker : SameGraph(call[u].snap, call[v].snap)
    BY DEF CInv, OneGraph
  <2>6. \A v \in Worker : SameGraph(call'[v].snap, db)
    BY <1>2, <2>1, <2>3, <2>5
  <2>7. \A u, v \in Worker : SameGraph(call'[u].snap, call[v].snap)
    BY <1>2, <2>1, <2>3, <2>4, <2>5
  <2>8. \A u, v \in Worker : SameGraph(call'[u].snap, call'[v].snap)
    BY <1>2, <2>1, <2>3, <2>4, <2>6, <2>7
  <2> QED
    BY <2>6, <2>8 DEF OneGraph
<1>6. CacheTrue'
  <2>1. Cached(resident, Nowhere)
    BY NoneYet DEF Cached
  <2> QED
    BY <1>2, <2>1 DEF CInv, CacheTrue
<1>7. \A v \in Worker : CallOK(call'[v])
  BY <1>1 DEF CInv
<1> QED
  BY <1>3, <1>4, <1>5, <1>6, <1>7 DEF CInv

\* Another process commits a version: of a new generation, of the same content, or of none.
LEMMA Committed ==
  ASSUME CInv, NEW v \in Version, db' = v, call' = call, resident' = resident,
         db.gen < v.gen \/ (v.gen = db.gen /\ (v.syms = {} \/ (v.syms = db.syms /\ v.edges = db.edges)))
  PROVE  CInv'
<1>1. db.gen \in Nat /\ v.gen \in Nat /\ resident.gen \in Nat
      /\ \A w \in Worker : call[w] \in CallRecord /\ call[w].snap.gen \in Nat
  BY DEF CInv, CallsTyped, CallRecord, Version
<1>2. v.syms = db.syms /\ v.edges = db.edges => Graph(v) = Graph(db)
  BY DEF Graph, Flagged
<1>3. CallsTyped'
  BY DEF CInv, CallsTyped
<1>4. Aged'
  BY <1>1 DEF CInv, Aged
<1>5. \A w \in Worker : SameGraph(call[w].snap, v)
  BY <1>1, <1>2 DEF CInv, Aged, OneGraph, SameGraph
<1>6. Cached(resident, v)
  BY <1>1, <1>2 DEF CInv, Aged, CacheTrue, Cached
<1> QED
  BY <1>3, <1>4, <1>5, <1>6 DEF CInv, OneGraph, CacheTrue

\* Of a call that is at a stage.
LEMMA AtStageIs ==
  ASSUME CInv, NEW w \in Worker, AtStage(w)
  PROVE  /\ call[w] \in CallRecord /\ CallOK(call[w]) /\ call[w].pc = "stage"
         /\ call[w].step \in DOMAIN Stages(call[w].tool) /\ call[w].step \in 1..4
         /\ call[w].tool \in Tool /\ call[w].snap \in Version /\ call[w].reply = NoReply
<1>1. call[w] \in CallRecord /\ CallOK(call[w])
  BY DEF CInv, CallsTyped
<1>2. call[w].tool \in Tool /\ call[w].snap \in Version
  BY <1>1 DEF CallRecord
<1>3. call[w].step \in 1..4
  BY <1>2, StageTable DEF AtStage
<1> QED
  BY <1>1, <1>2, <1>3 DEF AtStage, CallOK

\* The stages that leave the resident graph alone.
LEMMA StageStep ==
  ASSUME CInv, NEW w \in Worker,
         \/ SearchText(w) \/ Score(w) \/ Withhold(w) \/ Trace(w) \/ Read(w) \/ Hydrate(w)
         \/ GateStops(w) \/ GateSkips(w)
  PROVE  CInv'
<1>1. AtStage(w)
  BY DEF SearchText, Score, Withhold, Trace, Read, Hydrate, GateStops, GateSkips, Passes
<1>2. PICK c \in CallRecord : c = call[w]
  BY <1>1, AtStageIs
<1>3. /\ CallOK(c) /\ c.pc = "stage" /\ c.step \in DOMAIN Stages(c.tool) /\ c.step \in 1..4
      /\ c.tool \in Tool /\ c.snap \in Version /\ c.reply = NoReply
  BY <1>1, <1>2, AtStageIs
<1>4. db' = db /\ resident' = resident
  BY DEF SearchText, Score, Withhold, Trace, Read, Hydrate, GateStops, GateSkips, Set, Own
<1>5. c.snap.syms \subseteq Symbol /\ c.snap.vecs \subseteq Symbol
  BY <1>3 DEF Version
<1> DEFINE next == c.step + 1
<1>6. next \in 1..5
  BY <1>3
<1> HIDE DEF next
<1>7. CASE GateSkips(w)
  <2>1. PICK d : d = [c EXCEPT !.step = next, !.truncated = TRUE]
    OBVIOUS
  <2>2. d \in CallRecord /\ d.snap = c.snap
    BY <1>6, <2>1 DEF CallRecord
  <2>3. call' = [call EXCEPT ![w] = d]
    BY <1>2, <1>7, <2>1 DEF GateSkips, Set, Onward, next
  <2>4. CallOK(d)
    BY <1>3, <2>1, <2>2, SkipOK DEF next
  <2> QED
    BY <1>2, <1>4, <2>2, <2>3, <2>4, OneCall
<1>8. CASE GateStops(w)
  <2>1. PICK r : r = [kind |-> "timeout", label |-> Label(c.snap), flagged |-> FALSE,
                      truncated |-> FALSE, out |-> {}]
    OBVIOUS
  <2>2. r \in Reply
    BY <1>3, <2>1, LabelOK DEF Reply
  <2>3. PICK d : d = [c EXCEPT !.pc = "reply", !.reply = r]
    OBVIOUS
  <2>4. d \in CallRecord
    BY <2>2, <2>3 DEF CallRecord
  <2>5. /\ d.tool = c.tool /\ d.step = c.step /\ d.snap = c.snap /\ d.truncated = c.truncated
        /\ d.semantic = c.semantic /\ d.lexical = c.lexical /\ d.related = c.related
        /\ d.hydrated = c.hydrated /\ d.pc = "reply" /\ d.reply = r
    BY <2>3 DEF CallRecord
  <2>6. CallOK(d)
    <3>1. Progress(d) /\ d.step <= Len(Stages(d.tool)) + 1
      BY <1>3, <2>5 DEF CallOK, Progress, Scored, Gathered, Remnant
    <3>2. Derived(d) /\ Candid(d)
      BY <2>1, <2>5 DEF Derived, Candid
    <3> QED
      BY <2>5, <3>1, <3>2 DEF CallOK, Early
  <2>7. call' = [call EXCEPT ![w] = d]
    BY <1>2, <1>8, <2>1, <2>3 DEF GateStops, Set, Answer
  <2> QED
    BY <1>2, <1>4, <2>4, <2>5, <2>6, <2>7, OneCall
<1>9. CASE SearchText(w) \/ Score(w) \/ Withhold(w) \/ Trace(w) \/ Read(w) \/ Hydrate(w)
  <2>1. c.truncated = FALSE
    <3>1. ~c.truncated
      BY <1>2, <1>9 DEF SearchText, Score, Withhold, Trace, Read, Hydrate, Passes
    <3> QED
      BY <3>1 DEF CallRecord
  <2> DEFINE stage == Stages(c.tool)[c.step]
  <2>2. /\ stage = "lexical" <=> c.step = LexicalAt(c.tool)
        /\ stage = "semantic" <=> c.step = SemanticAt(c.tool)
        /\ stage \in {"diffuse", "trace", "subgraph", "read"} <=> c.step = RelatedAt(c.tool)
        /\ stage = "hydrate" <=> c.step = HydrateAt(c.tool)
        /\ stage = "trace" => c.tool = "dependency_trace"
        /\ stage = "read" => c.tool \in Reading
    BY <1>3, StageTable
  <2> HIDE DEF stage
  <2>3. /\ stage = "lexical" => c.step # SemanticAt(c.tool) /\ c.step # RelatedAt(c.tool)
                                /\ c.step # HydrateAt(c.tool)
        /\ stage = "semantic" => c.step # LexicalAt(c.tool) /\ c.step # RelatedAt(c.tool)
                                 /\ c.step # HydrateAt(c.tool)
        /\ stage \in {"trace", "read"} =>
             c.step # LexicalAt(c.tool) /\ c.step # SemanticAt(c.tool) /\ c.step # HydrateAt(c.tool)
        /\ stage = "hydrate" => c.step # LexicalAt(c.tool) /\ c.step # SemanticAt(c.tool)
                                /\ c.step # RelatedAt(c.tool)
    BY <2>2
  <2>4. SUFFICES \E d \in CallRecord : d.snap = c.snap /\ CallOK(d) /\ call' = [call EXCEPT ![w] = d]
    BY <1>2, <1>4, OneCall
  <2>5. CASE SearchText(w)
    <3>1. stage = "lexical"
      BY <1>2, <2>5 DEF SearchText, Passes, Stage, stage
    <3>2. PICK d : d = [c EXCEPT !.step = next, !.lexical = Lexical(c.snap)]
      OBVIOUS
    <3>3. Lexical(c.snap) \subseteq Symbol
      BY <1>3, <1>5, ReadIsOfVersion
    <3>4. d \in CallRecord
      BY <1>6, <3>2, <3>3 DEF CallRecord
    <3>5. CallOK(d)
      <4>1. /\ d.tool = c.tool /\ d.step = next /\ d.snap = c.snap /\ d.pc = c.pc
            /\ d.truncated = c.truncated /\ d.semantic = c.semantic /\ d.related = c.related
            /\ d.hydrated = c.hydrated /\ d.reply = c.reply /\ d.lexical = Lexical(c.snap)
        BY <3>2 DEF CallRecord
      <4> QED
        BY <1>3, <2>1, <2>2, <2>3, <3>1, <3>4, <4>1, OnwardOK DEF next
    <3>6. call' = [call EXCEPT ![w] = d]
      BY <1>2, <2>5, <3>2 DEF SearchText, Set, Onward, next
    <3> QED
      BY <3>2, <3>4, <3>5, <3>6 DEF CallRecord
  <2>6. CASE Score(w)
    <3>1. stage = "semantic" /\ c.snap.space = "ours"
      BY <1>2, <2>6 DEF Score, Passes, Stage, stage, Allowed, SpaceOf
    <3>2. PICK d : d = [c EXCEPT !.step = next, !.semantic = c.snap.vecs]
      OBVIOUS
    <3>3. d \in CallRecord
      BY <1>5, <1>6, <3>2 DEF CallRecord
    <3>4. CallOK(d)
      <4>1. /\ d.tool = c.tool /\ d.step = next /\ d.snap = c.snap /\ d.pc = c.pc
            /\ d.truncated = c.truncated /\ d.lexical = c.lexical /\ d.related = c.related
            /\ d.hydrated = c.hydrated /\ d.reply = c.reply /\ d.semantic = c.snap.vecs
        BY <3>2 DEF CallRecord
      <4> QED
        BY <1>3, <2>1, <2>2, <2>3, <3>1, <3>3, <4>1, OnwardOK DEF next
    <3>5. call' = [call EXCEPT ![w] = d]
      BY <1>2, <2>6, <3>2 DEF Score, Set, Onward, next
    <3> QED
      BY <3>2, <3>3, <3>4, <3>5 DEF CallRecord
  <2>7. CASE Withhold(w)
    <3>1. stage = "semantic"
      BY <1>2, <2>7 DEF Withhold, Passes, Stage, stage
    <3>2. PICK d : d = [c EXCEPT !.step = next]
      OBVIOUS
    <3>3. d \in CallRecord
      BY <1>6, <3>2 DEF CallRecord
    <3>4. CallOK(d)
      <4>1. /\ d.tool = c.tool /\ d.step = next /\ d.snap = c.snap /\ d.pc = c.pc
            /\ d.truncated = c.truncated /\ d.lexical = c.lexical /\ d.related = c.related
            /\ d.hydrated = c.hydrated /\ d.reply = c.reply /\ d.semantic = c.semantic
        BY <3>2 DEF CallRecord
      <4> QED
        BY <1>3, <2>1, <2>2, <2>3, <3>1, <3>3, <4>1, OnwardOK DEF next
    <3>5. call' = [call EXCEPT ![w] = d]
      BY <1>2, <2>7, <3>2 DEF Withhold, Set, Onward, next
    <3> QED
      BY <3>2, <3>3, <3>4, <3>5 DEF CallRecord
  <2>8. CASE Trace(w) \/ Read(w)
    <3>1. stage \in {"trace", "read"} /\ c.step = RelatedAt(c.tool)
      BY <1>2, <2>2, <2>8 DEF Trace, Read, Passes, Stage, stage
    <3>2. PICK related : related = RelatedOf(c.tool, c.snap, c.semantic)
      OBVIOUS
    <3>3. related \in SUBSET Symbol
      BY <1>3, <3>2, RelatedType
    <3>4. PICK d : d = [c EXCEPT !.step = next, !.related = related]
      OBVIOUS
    <3>5. d \in CallRecord
      BY <1>6, <3>3, <3>4 DEF CallRecord
    <3>6. CallOK(d)
      <4>1. /\ d.tool = c.tool /\ d.step = next /\ d.snap = c.snap /\ d.pc = c.pc
            /\ d.truncated = c.truncated /\ d.lexical = c.lexical /\ d.related = related
            /\ d.hydrated = c.hydrated /\ d.reply = c.reply /\ d.semantic = c.semantic
        BY <3>4 DEF CallRecord
      <4> QED
        BY <1>3, <2>1, <2>2, <2>3, <3>1, <3>2, <3>5, <4>1, OnwardOK DEF next
    <3>7. call' = [call EXCEPT ![w] = d]
      <4>1. CASE Trace(w)
        <5>1. stage = "trace"
          BY <1>2, <4>1 DEF Trace, Passes, Stage, stage
        <5>2. related = Traced(c.snap)
          BY <1>3, <2>2, <3>2, <5>1, RelatedIs
        <5> QED
          BY <1>2, <3>4, <4>1, <5>2 DEF Trace, Set, Onward, next
      <4>2. CASE Read(w)
        <5>1. stage = "read"
          BY <1>2, <4>2 DEF Read, Passes, Stage, stage
        <5>2. related = {Asked} \cap c.snap.syms
          BY <1>3, <2>2, <3>2, <5>1, RelatedIs
        <5> QED
          BY <1>2, <3>4, <4>2, <5>2 DEF Read, Set, Onward, next
      <4> QED
        BY <2>8, <4>1, <4>2
    <3> QED
      BY <3>4, <3>5, <3>6, <3>7 DEF CallRecord
  <2>9. CASE Hydrate(w)
    <3>1. stage = "hydrate"
      BY <1>2, <2>9 DEF Hydrate, Passes, Stage, stage
    <3>2. PICK some : some = Hits(c.tool, c.lexical, c.semantic, c.related) \cap c.snap.syms
      OBVIOUS
    <3>3. PICK d : d = [c EXCEPT !.step = next, !.hydrated = some]
      OBVIOUS
    <3>4. d \in CallRecord
      BY <1>5, <1>6, <3>2, <3>3 DEF CallRecord
    <3>5. CallOK(d)
      <4>1. /\ d.tool = c.tool /\ d.step = next /\ d.snap = c.snap /\ d.pc = c.pc
            /\ d.truncated = c.truncated /\ d.lexical = c.lexical /\ d.related = c.related
            /\ d.hydrated = some /\ d.reply = c.reply /\ d.semantic = c.semantic
        BY <3>3 DEF CallRecord
      <4> QED
        BY <1>3, <2>1, <2>2, <2>3, <3>1, <3>2, <3>4, <4>1, OnwardOK DEF next
    <3>6. call' = [call EXCEPT ![w] = d]
      BY <1>2, <2>9, <3>2, <3>3 DEF Hydrate, Set, Onward, next
    <3> QED
      BY <3>3, <3>4, <3>5, <3>6 DEF CallRecord
  <2> QED
    BY <1>9, <2>5, <2>6, <2>7, <2>8, <2>9
<1> QED
  BY <1>7, <1>8, <1>9

\* The stages that ask for the resident graph: what they find in it they would find in
\* the graph of their own snapshot.
LEMMA GraphStep ==
  ASSUME CInv, NEW w \in Worker, Diffuse(w) \/ LoadSubgraph(w)
  PROVE  CInv'
<1>1. AtStage(w)
  BY DEF Diffuse, LoadSubgraph, Passes
<1>2. PICK c \in CallRecord : c = call[w]
  BY <1>1, AtStageIs
<1>3. /\ CallOK(c) /\ c.pc = "stage" /\ c.step \in DOMAIN Stages(c.tool) /\ c.step \in 1..4
      /\ c.tool \in Tool /\ c.snap \in Version /\ c.reply = NoReply
  BY <1>1, <1>2, AtStageIs
<1>4. db' = db /\ resident' = resident
  BY DEF Diffuse, LoadSubgraph, UseGraph, Set, Own
<1>5. c.truncated = FALSE
  <2>1. ~c.truncated
    BY <1>2 DEF Diffuse, LoadSubgraph, Passes
  <2> QED
    BY <2>1 DEF CallRecord
<1> DEFINE next == c.step + 1
           stage == Stages(c.tool)[c.step]
<1>6. next \in 1..5
  BY <1>3
<1>7. /\ stage \in {"diffuse", "subgraph"} => c.step = RelatedAt(c.tool)
      /\ stage = "diffuse" => c.tool \in Diffusing
      /\ stage = "subgraph" => c.tool \in Analyses
      /\ c.step = LexicalAt(c.tool) => stage = "lexical"
      /\ c.step = SemanticAt(c.tool) => stage = "semantic"
      /\ c.step = HydrateAt(c.tool) => stage = "hydrate"
  BY <1>3, StageTable
<1>8. PICK r : r = resident
  OBVIOUS
<1>9. Hit(w) => Cached(r, c.snap) /\ r.gen = c.snap.gen /\ r.graph.nodes # {}
  BY <1>2, <1>8 DEF CInv, CacheTrue, Hit
<1>10. PICK g : g = GraphFor(w)
  OBVIOUS
<1>11. Hit(w) => g = r.graph
  BY <1>8, <1>10 DEF GraphFor
<1>12. ~Hit(w) => g = Graph(c.snap)
  BY <1>2, <1>10 DEF GraphFor
<1> HIDE DEF next, stage
<1>13. \A seeds : seeds \subseteq c.snap.syms => Reached(g, seeds) = Reached(Graph(c.snap), seeds)
  <2>1. CASE Hit(w)
    <3>1. \A seeds : seeds \subseteq c.snap.syms => Reached(r.graph, seeds) = Reached(Graph(c.snap), seeds)
      BY <1>3, <1>9, <2>1, CacheServes
    <3> QED
      BY <1>11, <2>1, <3>1
  <2>2. CASE ~Hit(w)
    BY <1>12, <2>2
  <2> QED
    BY <2>1, <2>2
<1>14. \A seeds : Subgraph(c.snap, g, seeds) = Subgraph(c.snap, Graph(c.snap), seeds)
  <2>1. CASE Hit(w)
    <3>1. \A seeds : Subgraph(c.snap, r.graph, seeds) = Subgraph(c.snap, Graph(c.snap), seeds)
      BY <1>3, <1>9, <2>1, CacheServes
    <3> QED
      BY <1>11, <2>1, <3>1
  <2>2. CASE ~Hit(w)
    BY <1>12, <2>2
  <2> QED
    BY <2>1, <2>2
<1>15. PICK related : related = RelatedOf(c.tool, c.snap, c.semantic)
  OBVIOUS
<1>16. related \in SUBSET Symbol
  BY <1>3, <1>15, RelatedType
<1>17. PICK p \in {"stage", "store"} : p = IF Hit(w) THEN c.pc ELSE "store"
  BY <1>3
<1>18. PICK d : d = [c EXCEPT !.step = next, !.related = related, !.pc = p]
  OBVIOUS
<1>19. d \in CallRecord
  BY <1>6, <1>16, <1>17, <1>18 DEF CallRecord
<1>20. /\ d.tool = c.tool /\ d.step = next /\ d.snap = c.snap /\ d.pc = p
       /\ d.truncated = c.truncated /\ d.lexical = c.lexical /\ d.related = related
       /\ d.hydrated = c.hydrated /\ d.reply = c.reply /\ d.semantic = c.semantic
  BY <1>18 DEF CallRecord
<1>21. stage \in {"diffuse", "subgraph"}
  BY <1>2 DEF Diffuse, LoadSubgraph, Passes, Stage, stage
<1>22. CallOK(d)
  <2>1. c.step = RelatedAt(c.tool) /\ c.step # LexicalAt(c.tool) /\ c.step # SemanticAt(c.tool)
        /\ c.step # HydrateAt(c.tool)
    BY <1>7, <1>21
  <2> QED
    BY <1>3, <1>5, <1>15, <1>17, <1>19, <1>20, <2>1, OnwardOK DEF next
<1>23. call' = [call EXCEPT ![w] = d]
  <2>1. CASE Diffuse(w)
    <3>1. stage = "diffuse"
      BY <1>2, <2>1 DEF Diffuse, Passes, Stage, stage
    <3>2. c.tool \in Diffusing /\ c.step = RelatedAt(c.tool)
      BY <1>7, <3>1
    <3>3. Scored(c) /\ Gathered(c)
      BY <1>3, <1>5 DEF CallOK, Progress
    <3>4. c.lexical = Lexical(c.snap)
      <4>1. LexicalAt(c.tool) = 1 /\ RelatedAt(c.tool) = 3
        BY <3>2 DEF LexicalAt, RelatedAt, Searching
      <4> QED
        BY <3>2, <3>3, <4>1 DEF Gathered
    <3>5. c.lexical \cup c.semantic \subseteq c.snap.syms
      <4>1. Lexical(c.snap) \subseteq c.snap.syms
        BY DEF Lexical
      <4>2. c.semantic \subseteq c.snap.syms
        BY <1>3, <3>3 DEF Scored, Version
      <4> QED
        BY <3>4, <4>1, <4>2
    <3>6. related = Reached(Graph(c.snap), Lexical(c.snap) \cup c.semantic)
      BY <1>3, <1>15, <3>2, RelatedIs
    <3>7. related = Reached(g, c.lexical \cup c.semantic)
      BY <1>13, <3>4, <3>5, <3>6
    <3> QED
      BY <1>2, <1>10, <1>17, <1>18, <2>1, <3>7 DEF Diffuse, UseGraph, Set, Onward, next
  <2>2. CASE LoadSubgraph(w)
    <3>1. stage = "subgraph"
      BY <1>2, <2>2 DEF LoadSubgraph, Passes, Stage, stage
    <3>2. related = Subgraph(c.snap, Graph(c.snap), Seeds(c.tool, c.snap))
      BY <1>3, <1>7, <1>15, <3>1, RelatedIs
    <3>3. related = Subgraph(c.snap, g, Seeds(c.tool, c.snap))
      BY <1>14, <3>2
    <3> QED
      BY <1>2, <1>10, <1>17, <1>18, <2>2, <3>3 DEF LoadSubgraph, UseGraph, Set, Onward, next
  <2> QED
    BY <2>1, <2>2
<1> QED
  BY <1>2, <1>4, <1>19, <1>20, <1>22, <1>23, OneCall

\* A call whose control moves on without reading anything.
LEMMA MovesOn ==
  ASSUME NEW c \in CallRecord, CallOK(c), NEW p \in Early \cup {"stage"},
         c.pc \in Early \cup {"store"}, p \in Early => c.pc \in Early,
         NEW d, d = [c EXCEPT !.pc = p]
  PROVE  d \in CallRecord /\ d.snap = c.snap /\ CallOK(d)
<1>1. d \in CallRecord
  BY DEF CallRecord
<1>2. /\ d.tool = c.tool /\ d.step = c.step /\ d.snap = c.snap /\ d.pc = p
      /\ d.truncated = c.truncated /\ d.lexical = c.lexical /\ d.related = c.related
      /\ d.hydrated = c.hydrated /\ d.reply = c.reply /\ d.semantic = c.semantic
  BY DEF CallRecord
<1>3. c.reply = NoReply
  BY DEF CallOK, Early
<1>4. Progress(d)
  BY <1>2 DEF CallOK, Progress, Scored, Gathered, Remnant
<1>5. Derived(d) /\ Candid(d)
  BY <1>2, <1>3, NoReplyOK
<1> QED
  BY <1>1, <1>2, <1>3, <1>4, <1>5 DEF CallOK

\* The graph stored is that of the snapshot it was built from.
LEMMA StoreStep ==
  ASSUME CInv, NEW w \in Worker, StoreGraph(w)
  PROVE  CInv'
<1>1. PICK c \in CallRecord : c = call[w]
  BY DEF CInv, CallsTyped
<1>2. CallOK(c) /\ c.pc = "store" /\ c.snap \in Version
  BY <1>1 DEF CInv, StoreGraph, CallRecord
<1>3. PICK d : d = [c EXCEPT !.pc = "stage"]
  OBVIOUS
<1>4. d \in CallRecord /\ d.snap = c.snap /\ CallOK(d)
  BY <1>2, <1>3, MovesOn DEF Early
<1>5. call' = [call EXCEPT ![w] = d] /\ db' = db /\ resident'.gen = c.snap.gen
      /\ resident'.graph = Graph(c.snap)
  BY <1>1, <1>3 DEF StoreGraph, Set
<1>6. call \in [Worker -> CallRecord]
  BY DEF CInv, CallsTyped
<1>7. \A v \in Worker : call'[v] \in CallRecord /\ call'[v].snap = call[v].snap /\ CallOK(call'[v])
  BY <1>1, <1>4, <1>5, <1>6 DEF CInv
<1>8. Graph(c.snap).nodes = c.snap.syms
  BY DEF Graph
<1>9. CallsTyped'
  <2>1. call' \in [Worker -> CallRecord]
    BY <1>4, <1>5, <1>6
  <2>2. resident'.gen \in Nat
    BY <1>2, <1>5 DEF Version
  <2> QED
    BY <1>5, <2>1, <2>2 DEF CInv, CallsTyped
<1>10. Aged'
  BY <1>1, <1>5, <1>7 DEF CInv, Aged
<1>11. OneGraph'
  BY <1>5, <1>7 DEF CInv, OneGraph
<1>12. SameGraph(c.snap, db) /\ \A v \in Worker : SameGraph(c.snap, call[v].snap)
  BY <1>1 DEF CInv, OneGraph
<1>13. CacheTrue'
  BY <1>5, <1>7, <1>8, <1>12 DEF CacheTrue, Cached, SameGraph
<1> QED
  BY <1>7, <1>9, <1>10, <1>11, <1>13 DEF CInv

\* The control of a call around its stages.
LEMMA ControlStep ==
  ASSUME CInv, NEW w \in Worker,
         \/ \E t \in ToolsOf[w] : Begin(w, t)
         \/ Check(w) \/ Open(w) \/ Pin(w) \/ Finish(w) \/ Deliver(w)
  PROVE  CInv'
<1>1. PICK c \in CallRecord : c = call[w]
  BY DEF CInv, CallsTyped
<1>2. CallOK(c) /\ c.tool \in Tool /\ c.snap \in Version
  BY <1>1 DEF CInv, CallRecord
<1>3. db' = db /\ resident' = resident
  BY DEF Begin, Check, Open, Pin, Finish, Deliver, Refuse, Set, Own
<1>4. SUFFICES \E d \in CallRecord :
                 /\ CallOK(d) /\ call' = [call EXCEPT ![w] = d]
                 /\ d.snap = call[w].snap \/ d.snap = db \/ d.snap = Nowhere
  BY <1>3, OneCall
<1>5. ASSUME NEW t \in ToolsOf[w], Begin(w, t)
      PROVE  \E d \in CallRecord : CallOK(d) /\ call' = [call EXCEPT ![w] = d] /\ d.snap = Nowhere
  <2>1. t \in Tool
    BY CallsAssumption
  <2>2. PICK p \in Early : p = IF t = Resource THEN "open" ELSE "check"
    BY DEF Early
  <2>3. PICK d : d = [NoCall EXCEPT !.tool = t, !.pc = p]
    OBVIOUS
  <2>4. d \in CallRecord /\ CallOK(d) /\ d.snap = Nowhere
    BY <2>1, <2>3, NoneYet
  <2>5. call' = [call EXCEPT ![w] = d]
    BY <1>5, <2>2, <2>3 DEF Begin, Set
  <2> QED
    BY <2>4, <2>5
<1>6. CASE Deliver(w)
  <2>1. call' = [call EXCEPT ![w] = NoCall]
    BY <1>6 DEF Deliver, Set
  <2>2. NoCall.snap = Nowhere
    BY DEF NoCall
  <2> QED
    BY <2>1, <2>2, NoneYet
<1>7. CASE Check(w) \/ Open(w)
  <2>1. c.pc \in {"check", "open"} /\ c.reply = NoReply
    BY <1>1, <1>2, <1>7 DEF Check, Open, CallOK
  <2>2. ASSUME NEW p \in {"open", "pin"}, call' = [call EXCEPT ![w] = [c EXCEPT !.pc = p]]
        PROVE  \E d \in CallRecord : CallOK(d) /\ call' = [call EXCEPT ![w] = d] /\ d.snap = c.snap
    <3>1. PICK d : d = [c EXCEPT !.pc = p]
      OBVIOUS
    <3>2. d \in CallRecord /\ d.snap = c.snap /\ CallOK(d)
      BY <1>2, <2>1, <3>1, MovesOn DEF Early
    <3> QED
      BY <2>2, <3>1, <3>2
  <2>3. ASSUME NEW k \in {"not_ready", "internal"}, Refuse(w, k)
        PROVE  \E d \in CallRecord : CallOK(d) /\ call' = [call EXCEPT ![w] = d] /\ d.snap = c.snap
    <3>1. PICK r : r = [NoReply EXCEPT !.kind = k]
      OBVIOUS
    <3>2. r \in Reply /\ r.kind = k /\ r.flagged = FALSE
      BY <3>1, NoneYet DEF Reply, NoReply
    <3>3. PICK d : d = [c EXCEPT !.pc = "reply", !.reply = r]
      OBVIOUS
    <3>4. d \in CallRecord
      BY <3>2, <3>3 DEF CallRecord
    <3>5. /\ d.tool = c.tool /\ d.step = c.step /\ d.snap = c.snap /\ d.truncated = c.truncated
          /\ d.semantic = c.semantic /\ d.lexical = c.lexical /\ d.related = c.related
          /\ d.hydrated = c.hydrated /\ d.pc = "reply" /\ d.reply = r
      BY <3>3 DEF CallRecord
    <3>6. Progress(d) /\ d.step <= Len(Stages(d.tool)) + 1
      BY <1>2, <3>5 DEF CallOK, Progress, Scored, Gathered, Remnant
    <3>7. Derived(d) /\ Candid(d)
      BY <3>2, <3>5 DEF Derived, Candid
    <3>8. CallOK(d)
      BY <3>5, <3>6, <3>7 DEF CallOK, Early
    <3>9. call' = [call EXCEPT ![w] = d]
      BY <1>1, <2>3, <3>1, <3>3 DEF Refuse, Set
    <3> QED
      BY <3>4, <3>5, <3>8, <3>9
  <2>4. \/ \E p \in {"open", "pin"} : call' = [call EXCEPT ![w] = [c EXCEPT !.pc = p]]
        \/ \E k \in {"not_ready", "internal"} : Refuse(w, k)
    BY <1>1, <1>7 DEF Check, Open, Set
  <2> QED
    BY <1>1, <2>2, <2>3, <2>4
<1>8. CASE Pin(w)
  <2>1. c.pc = "pin" /\ c.step = 1 /\ c.truncated = FALSE /\ c.reply = NoReply
    <3>1. c.pc = "pin"
      BY <1>1, <1>8 DEF Pin
    <3>2. c.step = 1 /\ ~c.truncated /\ c.reply = NoReply
      BY <1>2, <3>1 DEF CallOK, Early
    <3> QED
      BY <3>1, <3>2 DEF CallRecord
  <2>2. PICK v \in Version : v = db
    BY DEF CInv, CallsTyped
  <2>3. PICK d : d = [c EXCEPT !.pc = "stage", !.snap = v]
    OBVIOUS
  <2>4. d \in CallRecord
    BY <2>3 DEF CallRecord
  <2>5. /\ d.tool = c.tool /\ d.step = 1 /\ d.snap = v /\ d.truncated = FALSE
        /\ d.semantic = c.semantic /\ d.lexical = c.lexical /\ d.related = c.related
        /\ d.hydrated = c.hydrated /\ d.pc = "stage" /\ d.reply = NoReply
    BY <2>1, <2>3 DEF CallRecord
  <2>6. Progress(d)
    <3>1. ~(1 > LexicalAt(c.tool)) /\ ~(1 > SemanticAt(c.tool)) /\ ~(1 > RelatedAt(c.tool))
          /\ ~(1 > HydrateAt(c.tool))
      BY DEF LexicalAt, SemanticAt, RelatedAt, HydrateAt, Never
    <3>2. Scored(c) /\ Gathered(c)
      BY <1>2, <2>1 DEF CallOK, Progress
    <3>3. c.semantic = {} /\ c.lexical = {} /\ c.related = {} /\ c.hydrated = {}
      BY <2>1, <3>1, <3>2 DEF Scored, Gathered
    <3> QED
      BY <2>5, <3>1, <3>3 DEF Progress, Scored, Gathered
  <2>7. CallOK(d)
    <3>1. d.step <= Len(Stages(d.tool)) + 1
      BY <1>2, <2>1, <2>5 DEF CallOK
    <3> QED
      BY <2>5, <2>6, <3>1, NoReplyOK DEF CallOK, Early
  <2>8. call' = [call EXCEPT ![w] = d]
    BY <1>1, <1>8, <2>2, <2>3 DEF Pin, Set
  <2> QED
    BY <2>2, <2>4, <2>5, <2>7, <2>8
<1>9. CASE Finish(w)
  <2>1. c.pc = "stage" /\ c.step \notin DOMAIN Stages(c.tool) /\ c.reply = NoReply
    BY <1>1, <1>2, <1>9 DEF Finish, AtStage, CallOK
  <2>2. Out(c) \subseteq Symbol
    BY DEF Out, CallRecord
  <2>3. Noted(c) \in BOOLEAN /\ c.truncated \in BOOLEAN
    BY DEF Noted, CallRecord
  <2>4. Label(c.snap) \in Nat \X Nat \X Nat
    BY <1>2, LabelOK
  <2>5. ASSUME NEW k \in {"not_found", "answer"}, NEW out \in SUBSET Symbol
        PROVE  /\ Answer(w, k, out) \in Reply
               /\ Answer(w, k, out).kind = k /\ Answer(w, k, out).label = Label(c.snap)
               /\ Answer(w, k, out).out = out /\ Answer(w, k, out).flagged = FALSE
               /\ k = "answer" => Answer(w, k, out).truncated = c.truncated
    <3>1. (c.truncated /\ k = "answer") \in BOOLEAN
      OBVIOUS
    <3>2. k = "answer" => (c.truncated /\ k = "answer") = c.truncated
      BY <2>3
    <3>3. PICK cut \in BOOLEAN : cut = (c.truncated /\ k = "answer")
      BY <3>1
    <3>4. Answer(w, k, out) = [kind |-> k, label |-> Label(c.snap), flagged |-> FALSE,
                               truncated |-> cut, out |-> out]
      BY <1>1, <3>3 DEF Answer
    <3> QED
      BY <2>4, <3>2, <3>3, <3>4 DEF Reply
  <2>6. PICK reply : reply = IF Missing(w) THEN Answer(w, "not_found", {})
                             ELSE Answer(w, "answer", Out(c))
    OBVIOUS
  <2>7. PICK r : r = [reply EXCEPT !.flagged = reply.kind = "answer" /\ Noted(c)]
    OBVIOUS
  <2>8. /\ reply \in Reply /\ reply.label = Label(c.snap)
         /\ \/ reply.kind = "not_found"
            \/ reply.kind = "answer" /\ reply.truncated = c.truncated /\ reply.out = Out(c)
    BY <2>2, <2>5, <2>6
  <2>9. /\ r \in Reply /\ r.label = reply.label /\ r.kind = reply.kind
         /\ r.truncated = reply.truncated /\ r.out = reply.out
         /\ r.flagged = (reply.kind = "answer" /\ Noted(c))
    BY <2>3, <2>7, <2>8 DEF Reply
  <2>10. \/ r.kind = "not_found" /\ ~r.flagged
         \/ /\ r.kind = "answer" /\ r.truncated = c.truncated
            /\ r.out = Out(c) /\ r.flagged = Noted(c)
    BY <2>3, <2>8, <2>9
  <2>11. PICK d : d = [c EXCEPT !.pc = "reply", !.reply = r]
    OBVIOUS
  <2>12. d \in CallRecord
    BY <2>9, <2>11 DEF CallRecord
  <2>13. /\ d.tool = c.tool /\ d.step = c.step /\ d.snap = c.snap /\ d.truncated = c.truncated
         /\ d.semantic = c.semantic /\ d.lexical = c.lexical /\ d.related = c.related
         /\ d.hydrated = c.hydrated /\ d.pc = "reply" /\ d.reply = r
    BY <2>11 DEF CallRecord
  <2>14. CallOK(d)
    BY <1>2, <2>1, <2>8, <2>9, <2>10, <2>12, <2>13, FinishOK
  <2>15. call' = [call EXCEPT ![w] = d]
    BY <1>1, <1>9, <2>6, <2>7, <2>11 DEF Finish, Set
  <2> QED
    BY <1>1, <2>12, <2>13, <2>14, <2>15
<1> QED
  BY <1>5, <1>6, <1>7, <1>8, <1>9

\* What other processes do.
LEMMA OthersStep ==
  ASSUME CInv, Publish \/ Drain \/ Reembed \/ Reset \/ LoseIndex \/ EvictModel
  PROVE  CInv'
<1>1. PICK u \in Version : u = db
  BY DEF CInv, CallsTyped
<1>2. /\ u.gen \in Nat /\ u.sem \in Nat /\ u.sem <= u.gen /\ u.queue \in SUBSET Symbol
      /\ u.syms \in SUBSET Symbol /\ u.edges \in SUBSET (Symbol \X Symbol)
      /\ u.vecs \in SUBSET Symbol /\ u.vecs \subseteq u.syms /\ (u.queue = {} <=> u.sem = u.gen)
      /\ u \in [gen : Nat, sem : Nat, queue : SUBSET Symbol, syms : SUBSET Symbol,
                edges : SUBSET (Symbol \X Symbol), vecs : SUBSET Symbol, space : Space,
                indexed : BOOLEAN]
  BY DEF Version
<1>3. ASSUME NEW v \in Version, Commit(v),
             u.gen < v.gen
               \/ (v.gen = u.gen /\ (v.syms = {} \/ (v.syms = u.syms /\ v.edges = u.edges)))
      PROVE  CInv'
  BY <1>1, <1>3, Committed DEF Commit
<1>4. CASE Publish
  <2>1. PICK c \in Contents, changed \in Changes :
          LET vecs == (u.vecs \cap c.syms) \ changed
              queue == c.syms \ vecs
          IN Commit([u EXCEPT !.gen = @ + 1, !.syms = c.syms, !.edges = c.edges, !.vecs = vecs,
                       !.queue = queue, !.sem = IF queue = {} THEN u.gen + 1 ELSE @])
    BY <1>1, <1>4 DEF Publish
  <2>2. c.syms \subseteq Symbol /\ c.edges \subseteq Symbol \X Symbol
    BY CallsAssumption
  <2>3. PICK vecs : vecs = (u.vecs \cap c.syms) \ changed
    OBVIOUS
  <2>4. PICK queue : queue = c.syms \ vecs
    OBVIOUS
  <2>5. PICK sem : sem = IF queue = {} THEN u.gen + 1 ELSE u.sem
    OBVIOUS
  <2>6. PICK v : v = [u EXCEPT !.gen = u.gen + 1, !.syms = c.syms, !.edges = c.edges, !.vecs = vecs,
                        !.queue = queue, !.sem = sem]
    OBVIOUS
  <2>7. vecs \subseteq Symbol /\ queue \subseteq Symbol /\ vecs \subseteq c.syms
        /\ sem \in Nat /\ u.gen + 1 \in Nat /\ sem <= u.gen + 1
        /\ (queue = {} <=> sem = u.gen + 1)
    BY <1>2, <2>2, <2>3, <2>4, <2>5
  <2>8. v \in [gen : Nat, sem : Nat, queue : SUBSET Symbol, syms : SUBSET Symbol,
               edges : SUBSET (Symbol \X Symbol), vecs : SUBSET Symbol, space : Space,
               indexed : BOOLEAN]
    BY <1>2, <2>2, <2>6, <2>7
  <2>9. v.vecs = vecs /\ v.syms = c.syms /\ v.queue = queue /\ v.sem = sem /\ v.gen = u.gen + 1
    BY <1>2, <2>6
  <2>10. v \in Version /\ u.gen < v.gen
    BY <1>2, <2>7, <2>8, <2>9 DEF Version
  <2>11. Commit(v)
    BY <2>1, <2>3, <2>4, <2>5, <2>6
  <2> QED
    BY <1>3, <2>10, <2>11
<1>5. CASE Drain
  <2>1. PICK vecs : vecs = u.vecs \cup (u.queue \cap u.syms)
    OBVIOUS
  <2>2. PICK v : v = [u EXCEPT !.queue = {}, !.sem = u.gen, !.vecs = vecs]
    OBVIOUS
  <2>3. vecs \in SUBSET Symbol /\ vecs \subseteq u.syms
    BY <1>2, <2>1
  <2>4. v \in [gen : Nat, sem : Nat, queue : SUBSET Symbol, syms : SUBSET Symbol,
               edges : SUBSET (Symbol \X Symbol), vecs : SUBSET Symbol, space : Space,
               indexed : BOOLEAN]
    BY <1>2, <2>2, <2>3
  <2>5. /\ v.gen = u.gen /\ v.sem = u.gen /\ v.queue = {} /\ v.vecs = vecs
        /\ v.syms = u.syms /\ v.edges = u.edges
    BY <1>2, <2>2
  <2>6. v \in Version
    BY <1>2, <2>3, <2>4, <2>5 DEF Version
  <2>7. Commit(v)
    BY <1>1, <1>5, <2>1, <2>2 DEF Drain
  <2> QED
    BY <1>3, <2>5, <2>6, <2>7
<1>6. CASE Reembed
  <2>1. PICK space \in Space :
          Commit([u EXCEPT !.gen = u.gen + 1, !.sem = u.gen + 1, !.space = space,
                    !.queue = {}, !.vecs = u.syms])
    BY <1>1, <1>6 DEF Reembed
  <2>2. PICK v : v = [u EXCEPT !.gen = u.gen + 1, !.sem = u.gen + 1, !.space = space,
                        !.queue = {}, !.vecs = u.syms]
    OBVIOUS
  <2>3. PICK next \in Nat : next = u.gen + 1
    BY <1>2
  <2>4. v \in [gen : Nat, sem : Nat, queue : SUBSET Symbol, syms : SUBSET Symbol,
               edges : SUBSET (Symbol \X Symbol), vecs : SUBSET Symbol, space : Space,
               indexed : BOOLEAN]
    BY <1>2, <2>2, <2>3
  <2>5. v.gen = next /\ v.sem = next /\ v.queue = {} /\ v.vecs = u.syms /\ v.syms = u.syms
    BY <1>2, <2>2, <2>3
  <2>6. v \in Version /\ u.gen < v.gen
    BY <1>2, <2>3, <2>4, <2>5 DEF Version
  <2> QED
    BY <1>3, <2>1, <2>2, <2>6
<1>7. CASE Reset
  <2>1. PICK v : v = [u EXCEPT !.syms = {}, !.edges = {}, !.vecs = {}]
    OBVIOUS
  <2>2. v \in Version /\ v.gen = u.gen /\ v.syms = {}
    BY <1>2, <2>1 DEF Version
  <2>3. Commit(v)
    BY <1>1, <1>7, <2>1 DEF Reset
  <2> QED
    BY <1>3, <2>2, <2>3
<1>8. CASE LoseIndex
  <2>1. PICK v : v = [u EXCEPT !.indexed = FALSE]
    OBVIOUS
  <2>2. v \in Version /\ v.gen = u.gen /\ v.syms = u.syms /\ v.edges = u.edges
    BY <1>2, <2>1 DEF Version
  <2>3. Commit(v)
    BY <1>1, <1>8, <2>1 DEF LoseIndex
  <2> QED
    BY <1>3, <2>2, <2>3
<1>9. CASE EvictModel
  BY <1>9 DEF EvictModel, CInv, CallsTyped, Aged, OneGraph, CacheTrue
<1> QED
  BY <1>4, <1>5, <1>6, <1>7, <1>8, <1>9

LEMMA CallsBegin == CallsInit => CInv
<1> SUFFICES ASSUME CallsInit PROVE CInv
  OBVIOUS
<1>1. PICK c \in Contents : db = Index(c)
  BY DEF CallsInit
<1>2. c.syms \subseteq Symbol /\ c.edges \subseteq Symbol \X Symbol
  BY CallsAssumption
<1>3. db \in Version /\ db.gen = 1
  BY <1>1, <1>2 DEF Index, Version, Space
<1>4. \A w \in Worker : call[w] = NoCall
  BY DEF CallsInit
<1>5. call \in [Worker -> CallRecord] /\ \A w \in Worker : CallOK(call[w])
  BY <1>4, NoneYet DEF CallsInit
<1>6. \A w \in Worker : call[w].snap = Nowhere
  BY <1>4 DEF NoCall
<1>7. resident.gen = 0 /\ resident.graph.nodes = {}
  BY DEF CallsInit, NoGraph
<1>8. Nowhere.gen = 1 /\ Nowhere.syms = {}
  BY NoneYet
<1> QED
  BY <1>3, <1>5, <1>6, <1>7, <1>8
     DEF CInv, CallsTyped, Aged, OneGraph, CacheTrue, SameGraph, Cached

LEMMA CallsInvariant == CallsSpec => []CInv
<1>1. CInv /\ [CallsNext]_callVars => CInv'
  <2> SUFFICES ASSUME CInv, [CallsNext]_callVars PROVE CInv'
    OBVIOUS
  <2>1. CASE UNCHANGED callVars
    BY <2>1 DEF callVars, CInv, CallsTyped, Aged, OneGraph, CacheTrue
  <2>2. CASE CallsNext
    BY <2>2, StageStep, GraphStep, StoreStep, ControlStep, OthersStep DEF CallsNext
  <2> QED
    BY <2>1, <2>2
<1> QED
  BY <1>1, CallsBegin, PTL DEF CallsSpec

\* Whatever is committed between the stages of a call, whatever graph other calls have
\* left in the cache and whatever stages the deadline cuts, an answer of tools_call is of
\* the one generation its label gives, and its freshness metadata is true of it
\* (GenerationSnapshot, resident_code_graph, note_semantic_included).
THEOREM AnswersStayHonest == CallsSpec => []AnswersAreHonest
<1>1. CInv => AnswersAreHonest
  <2> SUFFICES ASSUME CInv, NEW w \in Worker PROVE Derived(call[w]) /\ Candid(call[w])
    BY DEF AnswersAreHonest, AnswerIsOfItsSnapshot, FreshnessIsHonest, Derived, Candid
  <2> QED
    BY DEF CInv, CallOK
<1> QED
  BY <1>1, CallsInvariant, PTL
=============================================================================
