-------------------------------- MODULE Push --------------------------------
(***************************************************************************)
(* Graph search over the code graph: seeds from search hits, forward push  *)
(* of personalised PageRank, and the capsule that adds what it reaches to  *)
(* the hits (crates/cognis-csar/src/push.rs, diffuse.rs,                   *)
(* crates/cognis-core/src/graph.rs, crates/cognis-retrieval/src/fusion.rs, *)
(* capsule.rs).                                                            *)
(*                                                                         *)
(* The loop over the worklist is a state machine, one pop a step.  Masses  *)
(* are integers, rounded down where the code rounds a float: a seed of     *)
(* normalised score 1 has mass Unit, and alpha is 1/2.  Seed masses are    *)
(* not divided by their total, eps is multiplied by it instead.            *)
(***************************************************************************)
EXTENDS Integers, Sequences, FiniteSets, SequencesExt, FiniteSetsExt

CONSTANTS
  Node,      \* 1..n, the symbols in row order
  Searches,  \* inputs: [rows, layers], edge rows and the hit lists of the layers
  Unit,      \* mass of a normalised score 1, a multiple of 1000
  EpsDen     \* eps is 1/EpsDen

ASSUME PushAssumption ==
  /\ Node \subseteq Int /\ IsFiniteSet(Node) /\ Unit \in Nat /\ EpsDen \in Nat
  /\ \A q \in Searches :
       /\ q.rows \in Seq([src : Int, dst : Int, w : Int, missing : BOOLEAN])
       /\ q.layers \in Seq(Seq([node : Int, score : Int]))

VARIABLES
  search,    \* the input
  estimate, residual,
  active,    \* the worklist, a stack
  listed,    \* in_active
  work       \* degrees of the nodes pushed

pushVars == <<search, estimate, residual, active, listed, work>>

-----------------------------------------------------------------------------
\* the sum of f
Total(f) == FoldFunction(+, 0, f)

\* the members of s that are in S, each once, in the order in which they first occur
Firsts(s, S) ==
  LET new[i \in 0..Len(s)] ==
        IF i = 0 THEN <<>>
        ELSE IF s[i] \in S \ Range(new[i - 1]) THEN Append(new[i - 1], s[i])
        ELSE new[i - 1]
  IN new[Len(s)]

\* S, best first by key, ties in row order
Ahead(m, n, key) == key[m] > key[n] \/ (key[m] = key[n] /\ m < n)

Ranked(S, key) ==
  [i \in 1..Cardinality(S) |->
     CHOOSE n \in S : Cardinality({m \in S : Ahead(m, n, key)}) = i - 1]

-----------------------------------------------------------------------------
(* build_code_graph *)

\* a row of table edge [src, dst, w, missing] counts: it is not flagged, no self-edge,
\* of positive confidence, and both ends are symbols
Usable(r) == ~r.missing /\ r.src # r.dst /\ r.w > 0 /\ {r.src, r.dst} \subseteq Node

Between(u, v) == {i \in DOMAIN search.rows :
                    Usable(search.rows[i]) /\ {search.rows[i].src, search.rows[i].dst} = {u, v}}

Linked(u) == {v \in Node \ {u} : Between(u, v) # {}}

\* an isolated node keeps its mass on a loop
Looped(u) == Linked(u) = {}

Neighbors(u) == IF Looped(u) THEN {u} ELSE Linked(u)

\* parallel rows add up, in both directions
Weight(u, v) == IF u = v THEN 1 ELSE Total([i \in Between(u, v) |-> search.rows[i].w])

Degree(u) == Total([v \in Neighbors(u) |-> Weight(u, v)])

-----------------------------------------------------------------------------
(* build_seed_distribution: layers are sequences of hits [node, score] *)

Scores(layer) == {h.score : h \in Range(layer)}
LowestScore(layer) == Min(Scores(layer))
Span(layer) == Max(Scores(layer)) - LowestScore(layer)

\* min-max normalised within the layer, with a floor of 1e-3
Norm(layer, h) ==
  IF Span(layer) = 0 THEN Unit
  ELSE IF h.score = LowestScore(layer) THEN Unit \div 1000
  ELSE (Unit * (h.score - LowestScore(layer))) \div Span(layer)

\* what the hits of a layer give to u
Share(layer, u) ==
  Total([i \in {j \in DOMAIN layer : layer[j].node = u} |-> Norm(layer, layer[i])])

Seed(layers) == [u \in Node |-> Total([l \in DOMAIN layers |-> Share(layers[l], u)])]

\* hits outside of the graph seed nothing, but they count for the span
SeedOrder(layers) ==
  LET all == FlattenSeq(layers)
  IN Firsts([i \in DOMAIN all |-> all[i].node], Node)

-----------------------------------------------------------------------------
(* approximate_ppr_push *)

\* at least eps * degree, of a total seed mass of 1; without a seed nothing is pushed
Reaches(mass, u) == mass > 0 /\ mass * EpsDen >= Total(Seed(search.layers)) * Degree(u)

PushInit ==
  /\ search \in Searches
  /\ estimate = [u \in Node |-> 0]
  /\ residual = Seed(search.layers)
  /\ active = Firsts(SeedOrder(search.layers), {u \in Node : Reaches(residual[u], u)})
  /\ listed = Range(active)
  /\ work = 0

\* what each node gets when u is pushed: u's own residual is used up first
Pushed(u) ==
  [v \in Node |->
     (IF v = u THEN 0 ELSE residual[v])
       + IF v \in Neighbors(u) THEN (residual[u] * Weight(u, v)) \div (2 * Degree(u)) ELSE 0]

\* Mutant of Listed: a node that was worked on is not listed again
ListedOnce(u) == {v \in Node : estimate[v] > 0} \cup listed

Listed(u) == listed \ {u}

\* a stale entry: the residual is below the threshold
PopStale ==
  /\ active # <<>>
  /\ ~Reaches(residual[Last(active)], Last(active))
  /\ active' = Front(active)
  /\ listed' = listed \ {Last(active)}
  /\ UNCHANGED <<search, estimate, residual, work>>

PopAndPush ==
  /\ active # <<>>
  /\ LET u == Last(active)
         new == {v \in Neighbors(u) : v \notin Listed(u) /\ Reaches(Pushed(u)[v], v)}
     IN /\ Reaches(residual[u], u)
        /\ estimate' = [estimate EXCEPT ![u] = @ + residual[u] \div 2]
        /\ residual' = Pushed(u)
        /\ active' = Front(active) \o Ranked(new, [v \in new |-> 0])
        /\ listed' = (listed \ {u}) \cup new
        /\ work' = work + Degree(u)
  /\ UNCHANGED search

PushNext == PopStale \/ PopAndPush

PushSpec == PushInit /\ [][PushNext]_pushVars

Pushing == active # <<>>

-----------------------------------------------------------------------------
(* Ranking: rrf_fuse, diffuse_seed_hits, compose_capsule *)

\* best first, ties by symbol id, one rank per symbol of a layer
RankIn(layer, n) ==
  LET best(m) == Max({h.score : h \in {g \in Range(layer) : g.node = m}})
  IN 1 + Cardinality({m \in {h.node : h \in Range(layer)} :
                        best(m) > best(n) \/ (best(m) = best(n) /\ m < n)})

\* 1 / (60 + rank), in a unit in which the first ranks are exact
Contribution(rank) == (61 * 62 * 63 * 64) \div (60 + rank)

Fused(layers) ==
  LET found == {h.node : h \in UNION {Range(layers[l]) : l \in DOMAIN layers}}
      in(n) == {l \in DOMAIN layers : \E h \in Range(layers[l]) : h.node = n}
  IN Ranked(found,
       [n \in found |-> Total([l \in in(n) |-> Contribution(RankIn(layers[l], n))])])

Truncated(s, k) == SubSeq(s, 1, IF Len(s) < k THEN Len(s) ELSE k)

Diffused == Ranked({u \in Node : estimate[u] > 0}, estimate)

\* what diffusion reached is added behind the hits, while the budget lasts
Composed(direct, csar, k) ==
  LET first == Truncated(direct, k)
  IN Truncated(first \o Firsts(csar, Node \ Range(first)), k)

Capsule(k) == Composed(Fused(search.layers), Truncated(Diffused, k), k)

-----------------------------------------------------------------------------
(* Properties *)

\* "r[u] exceeds eps * degree" (push.rs:38): a node that clears the threshold is on
\* the worklist, whatever was pushed into it after it had been worked on, and the
\* worklist lists a node once.
NothingForgotten ==
  /\ listed = Range(active) /\ IsInjective(active)
  /\ \A u \in Node : Reaches(residual[u], u) => u \in listed

\* Mass is neither made nor lost (ppr(seed) = p + ppr(residual), push.rs:20), but for
\* what the divisions round off; every push has paid for its degree (work is bounded
\* by 1/(alpha eps), push.rs:29).
MassIsKept ==
  LET seed == Total(Seed(search.layers))
      sum == Total(estimate) + Total(residual)
  IN /\ sum <= seed
     /\ seed - sum <= work * (Cardinality(Node) + 1)
     /\ seed * work <= 2 * EpsDen * (Total(estimate) + work)

\* Seeds keep their place (diffuse.rs:10): a seed that clears the threshold ends up
\* with at least alpha of its mass.  A fainter one may be dropped.
ClearSeedsSurvive ==
  ~Pushing =>
    \A u \in Node : LET m == Seed(search.layers)[u] IN
      m > 0 /\ Reaches(m, u) => estimate[u] >= m \div 2

\* A capsule names a symbol once, never drops a hit that fits for what diffusion
\* reached ("the union is additive-only", capsule.rs:24), and a larger budget only
\* adds behind.
CapsuleOnlyAdds ==
  ~Pushing =>
    \A k \in 1..Cardinality(Node) :
      /\ IsInjective(Capsule(k))
      /\ IsPrefix(Truncated(Fused(search.layers), k), Capsule(k))
      /\ IsPrefix(Capsule(k), Capsule(k + 1))

\* (without a layer there is nothing to diffuse)
DiffusionIsSound ==
  search.layers # <<>> =>
    NothingForgotten /\ MassIsKept /\ ClearSeedsSurvive /\ CapsuleOnlyAdds
=============================================================================
