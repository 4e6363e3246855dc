------------------------------- MODULE Lookup -------------------------------
(***************************************************************************)
(* The indexed reads of the MCP tools: a symbol by id, qualified name or   *)
(* name, and the symbols its dependencies lead to                          *)
(* (crates/cognis-store/src/lib.rs, crates/cognis-mcp/src/store_engine.rs) *)
(* next to the full scans they replace                                     *)
(* (crates/cognis-mcp/src/reference_scan.rs).                              *)
(*                                                                         *)
(* A lookup is one step and a trace one step a hop, over one version of    *)
(* the index.  Texts are values of which only the order, the lower case    *)
(* and the containment are known.                                          *)
(***************************************************************************)
EXTENDS Integers, Sequences, FiniteSets, SequencesExt

CONSTANTS
  Text,       \* ids, qualified names, names and needles
  NoText,     \* the empty one
  Order,      \* [Text -> Int], the order of ORDER BY
  Lower,      \* [Text -> Text], to_lowercase
  SqlLower,   \* [Text -> Text], SQLite's lower(), for ASCII letters only
  Within,     \* pairs of texts: the first is a substring of the second
  LookupCap,  \* LOOKUP_CANDIDATE_CAP
  Questions   \* inputs: [rows, edges, needle, kind, from, direction, depth]

\* the primary key of table edge
Key(e) == <<e.src, e.dst, e.kind>>

ASSUME LookupAssumption ==
  /\ Order \in [Text -> Int] /\ Lower \in [Text -> Text] /\ SqlLower \in [Text -> Text]
  /\ \A x \in Text : Lower[Lower[x]] = Lower[x] /\ Lower[SqlLower[x]] = Lower[x]
  /\ LookupCap \in Nat
  /\ \A x, y \in Text : Order[x] = Order[y] => x = y
  /\ \A q \in Questions :
       /\ IsFiniteSet(q.rows) /\ {q.needle, q.from} \subseteq Text
       /\ \A s \in q.rows : {s.id, s.qname, s.name} \subseteq Text
       /\ IsFiniteSet(q.edges) /\ q.depth \in Nat
       /\ \A e \in q.edges :
            /\ {e.src, e.dst} \subseteq Text /\ e.kind \in Int /\ e.missing \in BOOLEAN
            /\ \A d \in q.edges : Key(d) = Key(e) => d = e

VARIABLES
  question,   \* the index read and what is asked for
  found,      \* the symbol resolved, or none
  hop,        \* hops made
  seen, frontier,   \* visited, and the symbols of the last hop
  hits        \* [id, depth], in the order of the answer

lookupVars == <<question, found, hop, seen, frontier, hits>>

-----------------------------------------------------------------------------
(* resolve_symbol_on_connection: rows of table symbol [id, qname, name, kind] *)

AnyKind == "any"
OfKind(rows, kind) == {s \in rows : kind = AnyKind \/ s.kind = kind}

\* ORDER BY id LIMIT 1: a set of at most one row
Lowest(S) == {s \in S : \A t \in S : Order[s.id] <= Order[t.id]}

\* Mutant of Rung: names are tried before qualified names
RungNameFirst(i, n, S) ==
  {s \in S : \/ i = 1 /\ s.id = n
             \/ i = 2 /\ s.name = n
             \/ i = 3 /\ s.qname = n
             \/ i = 4 /\ SqlLower[s.name] = Lower[n]}

\* the exact rungs of the ladder, each an indexed query
Rung(i, n, S) ==
  {s \in S : \/ i = 1 /\ s.id = n
             \/ i = 2 /\ s.qname = n
             \/ i = 3 /\ s.name = n
             \/ i = 4 /\ SqlLower[s.name] = Lower[n]}

\* a prefix of fixed size of the index on lower(name)
Before(s, t) ==
  \/ Order[SqlLower[s.name]] < Order[SqlLower[t.name]]
  \/ Order[SqlLower[s.name]] = Order[SqlLower[t.name]] /\ Order[s.id] < Order[t.id]

Candidates(S) == {s \in S : Cardinality({t \in S : Before(t, s)}) < LookupCap}

In(part, whole) == <<Lower[part], Lower[whole]>> \in Within

CandidateRank(n, s) ==
  IF Lower[s.name] = Lower[n] THEN 3
  ELSE IF In(n, s.name) \/ In(n, s.qname) THEN 2
  ELSE IF In(n, s.id) THEN 1 ELSE 0

BestCandidates(n, S) ==
  {s \in S : /\ CandidateRank(n, s) > 0
             /\ \A t \in S : CandidateRank(n, t) <= CandidateRank(n, s)}

Resolve(n, S) ==
  LET hit(i) == Rung(i, n, S) # {} /\ \A j \in 1..(i - 1) : Rung(j, n, S) = {}
  IN {s \in S :
        /\ n # NoText
        /\ \/ \E i \in 1..4 : hit(i) /\ s \in Lowest(Rung(i, n, S))
           \/ /\ \A i \in 1..4 : Rung(i, n, S) = {}
              /\ s \in Lowest(BestCandidates(n, Candidates(S)))}

\* ReferenceScan.lookup: the best rank over all rows, the lowest id of that rank
ScanRank(n, s) ==
  IF s.id = n THEN 6 ELSE IF s.qname = n THEN 5 ELSE IF s.name = n THEN 4
  ELSE CandidateRank(n, s)

Scan(n, S) ==
  {s \in S :
     /\ n # NoText
     /\ s \in Lowest({r \in S : /\ ScanRank(n, r) > 0
                                /\ \A t \in S : ScanRank(n, t) <= ScanRank(n, r)})}

-----------------------------------------------------------------------------
(* dependency_trace: rows of table edge [src, dst, kind, missing] *)

Outbound == question.direction \in {"out", "both"}
Inbound == question.direction \in {"in", "both"}

\* edges_incident: one query per endpoint, merged in key order
Incident ==
  {e \in question.edges : \/ Outbound /\ e.src \in Range(frontier)
                          \/ Inbound /\ e.dst \in Range(frontier)}

KeyOrder(d, e) ==
  \/ Order[d.src] < Order[e.src]
  \/ d.src = e.src /\ Order[d.dst] < Order[e.dst]
  \/ d.src = e.src /\ d.dst = e.dst /\ d.kind < e.kind

InKeyOrder(E) ==
  [i \in 1..Cardinality(E) |-> CHOOSE e \in E : Cardinality({d \in E : KeyOrder(d, e)}) = i - 1]

\* the other end of e, seen from n; an edge that is flagged leads nowhere
Neighbor(n, e) ==
  CASE e.missing -> <<>>
    [] ~e.missing /\ Outbound /\ e.src = n -> <<e.dst>>
    [] ~e.missing /\ Inbound /\ e.dst = n /\ ~(Outbound /\ e.src = n) -> <<e.src>>
    [] OTHER -> <<>>

\* Mutant of Fresh: only the last hop is told from what is new
FreshSinceLastHop(s) ==
  LET new[i \in 0..Len(s)] ==
        IF i = 0 THEN <<>>
        ELSE IF s[i] \in Range(frontier) \cup Range(new[i - 1]) THEN new[i - 1]
        ELSE Append(new[i - 1], s[i])
  IN new[Len(s)]

\* the first occurrence of each member that has not been seen
Fresh(s) ==
  LET new[i \in 0..Len(s)] ==
        IF i = 0 THEN <<>>
        ELSE IF s[i] \in seen \cup Range(new[i - 1]) THEN new[i - 1]
        ELSE Append(new[i - 1], s[i])
  IN new[Len(s)]

\* node by node of the frontier, edge by edge
Step(edges) ==
  LET order == InKeyOrder(edges)
      from(n) == FlattenSeq([j \in DOMAIN order |-> Neighbor(n, order[j])])
  IN Fresh(FlattenSeq([i \in DOMAIN frontier |-> from(frontier[i])]))

-----------------------------------------------------------------------------
LookupInit ==
  /\ question \in Questions
  /\ found = {}
  /\ hop = 0
  /\ seen = {question.from}
  /\ frontier = <<question.from>>
  /\ hits = <<>>

ResolveSymbol ==
  /\ hop = 0
  /\ found' = Resolve(question.needle, OfKind(question.rows, question.kind))
  /\ hop' = 1
  /\ UNCHANGED <<question, seen, frontier, hits>>

\* the loop ends at the depth asked for, or when a hop finds nothing new
Hop ==
  /\ hop \in 1..question.depth
  /\ frontier # <<>>
  /\ LET next == Step(Incident)
     IN /\ seen' = seen \cup Range(next)
        /\ hits' = hits \o [i \in DOMAIN next |-> [id |-> next[i], depth |-> hop]]
        /\ frontier' = next
  /\ hop' = hop + 1
  /\ UNCHANGED <<question, found>>

LookupNext == ResolveSymbol \/ Hop

LookupSpec == LookupInit /\ [][LookupNext]_lookupVars

-----------------------------------------------------------------------------
(* Properties *)

\* The ladder finds the symbol that a scan of the whole table would rank first
\* (prop_query_result_equivalence.rs), as long as the rows of the kind asked for fit
\* the candidate cap and names that Rust lowers alike SQLite lowers alike, too.
LookupAgrees ==
  LET S == OfKind(question.rows, question.kind) IN
  /\ hop > 0
  /\ Cardinality(S) <= LookupCap
  /\ \A s, t \in S :
       Lower[s.name] = Lower[t.name] => SqlLower[s.name] = SqlLower[t.name]
  => found = Scan(question.needle, S)

Adjacent(m, n) ==
  \E e \in question.edges :
    /\ ~e.missing
    /\ \/ Outbound /\ e.src = m /\ e.dst = n
       \/ Inbound /\ e.dst = m /\ e.src = n

\* symbols at most h hops away
Ball[h \in Nat] ==
  IF h = 0 THEN {question.from}
  ELSE Ball[h - 1] \cup {n \in Text : \E m \in Ball[h - 1] : Adjacent(m, n)}

\* A hop reads only the edges at its frontier and finds what reading them all would,
\* in the same order; a trace names every symbol within the hops made once, with its
\* distance.
TraceAgrees ==
  hop > 0 =>
    /\ Step(Incident) = Step(question.edges)
    /\ IsInjective(hits)
    /\ LET near == {p \in Text \X (1..(hop - 1)) : p[1] \in Ball[p[2]] \ Ball[p[2] - 1]}
       IN Range(hits) = {[id |-> p[1], depth |-> p[2]] : p \in near}
=============================================================================
