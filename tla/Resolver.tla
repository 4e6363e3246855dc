------------------------------ MODULE Resolver ------------------------------
(***************************************************************************)
(* The edges between symbols: resolve_edges and the five resolvers it runs   *)
(* (crates/cognis-indexer/src/resolver.rs).                                 *)
(*                                                                         *)
(* A name is a sequence of words (db.host is <<db, host>>), a number among   *)
(* them the index of a sequence.  Of a symbol's signature and excerpt only   *)
(* what the resolvers look for is kept: the names called, the strings quoted, *)
(* the identifiers, the SQL verbs and the base list of a type header.         *)
(***************************************************************************)
EXTENDS Integers, FiniteSets, Sequences, SequencesExt

CONSTANTS
  FanoutCap,  \* CROSS_FANOUT_CAP: more namesakes than this and no edge is drawn
  Snake       \* normalize_ident, for the words that occur

\* confidence in hundredths
SameFile      == 100
CrossModule   == 60
OopUnique     == 90
OopAmbiguous  == 50
RouteExact    == 100
ConfigReads   == 70
SqlEdge       == 65
AmbiguousBelow == 60

Artifact == {"yaml", "toml", "sql", "html", "markdown"}
TypeKind == {"class", "interface"}

\* ResolvedEdge::new, to_edge: an edge of low confidence is flagged
Edge(s, t, k, c) == [src |-> s.id, dst |-> t.id, kind |-> k, conf |-> c,
                     ambiguous |-> c < AmbiguousBelow, missing |-> FALSE]

Key(e) == <<e.src, e.dst, e.kind>>

\* of the edges proposed for the same symbols and kind the most confident is kept
Best(E) == {e \in E : \A f \in E : Key(f) = Key(e) => f.conf <= e.conf}

\* normalize_ident, word by word
Norm(n) == [i \in DOMAIN n |-> IF n[i] \in DOMAIN Snake THEN Snake[n[i]] ELSE n[i]]

\* is_markdown_section, integration_candidates
Candidates(S) == {s \in S : ~(s.kind = "module" /\ s.lang = "markdown")}

Code(S) == {s \in Candidates(S) : s.lang \notin Artifact}

-----------------------------------------------------------------------------
(* calls *)

\* HeuristicResolver: a callable calls what has the name it calls, in its own
\* file, and elsewhere in its language if the name is not too common there
CallEdges(S) ==
  UNION {LET Named(n) == {t \in S : t.name = n /\ t.id # s.id}
             Cross(n) == {t \in Named(n) : t.file # s.file /\ t.lang = s.lang}
         IN UNION {{Edge(s, t, "calls", SameFile) : t \in {t \in Named(n) : t.file = s.file}}
                   \cup IF Cardinality(Cross(n)) <= FanoutCap
                        THEN {Edge(s, t, "calls", CrossModule) : t \in Cross(n)} ELSE {}
                   : n \in s.calls}
         : s \in {s \in S : s.kind \in {"function", "method", "route"}}}

-----------------------------------------------------------------------------
(* inherits, implements *)

\* edge_kind_for
BaseEdge(keyword, t) ==
  IF keyword = "implements" \/ (keyword = "colon" /\ t.kind = "interface")
  THEN "implements" ELSE "inherits"

\* OopResolver: the types that have the name of a base, all of them if there are
\* several
OopEdges(S) ==
  UNION {UNION {LET T == {t \in S : t.kind \in TypeKind /\ t.name = b[1] /\ t.id # s.id}
                IN {Edge(s, t, BaseEdge(b[2], t),
                         IF Cardinality(T) = 1 THEN OopUnique ELSE OopAmbiguous) : t \in T}
                : b \in s.bases}
         : s \in {s \in S : s.lang \in {"java", "csharp"} /\ s.kind \in TypeKind}}

-----------------------------------------------------------------------------
(* routes_to, reads, writes *)

\* RoutesToResolver: a route leads to the code that quotes it
RouteEdges(S) ==
  UNION {{Edge(r, t, "routes_to", RouteExact)
            : t \in {t \in Code(S) : r.name \in t.quoted /\ t.id # r.id}}
         : r \in {r \in Candidates(S) : r.kind = "route" /\ r.name # <<>>}}

IsConfigKey(s) == s.kind \in {"var", "const"} /\ s.lang \in {"yaml", "toml"}

\* config_key_literals: the path without the indexes, and its last part
KeyForms(n) ==
  LET path == SelectSeq(n, LAMBDA w : w \notin Nat)
  IN IF path = <<>> THEN {} ELSE {path, <<Last(path)>>}

\* ConfigReadsResolver: the code that quotes a key reads it, unless too many do
ReadEdges(S) ==
  UNION {LET R == {s \in Code(S) : s.quoted \cap KeyForms(k.name) # {} /\ s.id # k.id}
         IN IF Cardinality(R) <= FanoutCap
            THEN {Edge(s, k, "reads", ConfigReads) : s \in R} ELSE {}
         : k \in {k \in Candidates(S) : IsConfigKey(k)}}

\* SqlEdgeResolver: code with an SQL verb in it reads or writes the tables and
\* columns it mentions, whatever the spelling; one writing verb makes it a writer
SqlEdges(S) ==
  UNION {{Edge(s, t, IF "write" \in s.verbs THEN "writes" ELSE "reads", SqlEdge)
            : t \in {t \in Candidates(S) :
                       /\ t.lang = "sql" /\ t.kind \in {"class", "var"} /\ t.id # s.id
                       /\ Norm(t.name) \in {Norm(n) : n \in s.words \cup {s.name}}}}
         : s \in {s \in Code(S) : s.verbs # {}}}

-----------------------------------------------------------------------------
\* resolve_edges, to_edges
Resolve(S) ==
  Best(CallEdges(S) \cup OopEdges(S) \cup RouteEdges(S) \cup ReadEdges(S) \cup SqlEdges(S))
=============================================================================
