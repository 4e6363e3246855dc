--------------------------- MODULE PlannerProofs ----------------------------
(***************************************************************************)
(* Proofs about Planner for any files, contents and trees, and any cap on  *)
(* the fanout of a name.                                                   *)
(***************************************************************************)
EXTENDS Planner, FiniteSetTheorems, TLAPS

-----------------------------------------------------------------------------
(* What the resolvers make: each of them says of a symbol, what it leads to *)

Kinds == {"calls", "inherits", "implements", "routes_to", "reads", "writes"}
Confidences == {SameFile, CrossModule, OopUnique, OopAmbiguous, RouteExact, ConfigReads, SqlEdge}

\* the edges among which Resolve chooses
Proposed(S) == CallEdges(S) \cup OopEdges(S) \cup RouteEdges(S) \cup ReadEdges(S) \cup SqlEdges(S)

Callable(s) == s.kind \in {"function", "method", "route"}
Called(S, s, n) == {t \in S : t.name = n /\ t.id # s.id /\ (t.file = s.file \/ t.lang = s.lang)}
Elsewhere(T, s) == {t \in T : t.file # s.file}

Typed(s) == s.lang \in {"java", "csharp"} /\ s.kind \in TypeKind
Extended(S, s, n) == {t \in S : t.kind \in TypeKind /\ t.name = n /\ t.id # s.id}

Leads(S, r) == r \in Candidates(S) /\ r.kind = "route" /\ r.name # <<>>
Handlers(S, r) == {t \in Code(S) : r.name \in t.quoted /\ t.id # r.id}

Readers(S, k) == {s \in Code(S) : s.quoted \cap KeyForms(k.name) # {} /\ s.id # k.id}
KeysRead(S, s) == {k \in Candidates(S) : /\ IsConfigKey(k) /\ s \in Readers(S, k)
                                         /\ Cardinality(Readers(S, k)) <= FanoutCap}

Queries(S, s) == s \in Code(S) /\ s.verbs # {}
Tables(S, s) == {t \in Candidates(S) :
                   /\ t.lang = "sql" /\ t.kind \in {"class", "var"} /\ t.id # s.id
                   /\ Norm(t.name) \in {Norm(n) : n \in s.words \cup {s.name}}}
SqlKind(s) == IF "write" \in s.verbs THEN "writes" ELSE "reads"

LEMMA CallEdge ==
  ASSUME NEW S, NEW e
  PROVE  e \in CallEdges(S) <=>
           \E s \in S : Callable(s) /\ \E n \in s.calls : \E t \in Called(S, s, n) :
             \/ t.file = s.file /\ e = Edge(s, t, "calls", SameFile)
             \/ /\ t.file # s.file /\ e = Edge(s, t, "calls", CrossModule)
                /\ Cardinality(Elsewhere(Called(S, s, n), s)) <= FanoutCap
<1> DEFINE Same(s, n) == {t \in {t \in S : t.name = n /\ t.id # s.id} : t.file = s.file}
           Cross(s, n) == {t \in {t \in S : t.name = n /\ t.id # s.id} :
                             t.file # s.file /\ t.lang = s.lang}
           Of(s, n) == {Edge(s, t, "calls", SameFile) : t \in Same(s, n)}
                         \cup IF Cardinality(Cross(s, n)) <= FanoutCap
                              THEN {Edge(s, t, "calls", CrossModule) : t \in Cross(s, n)} ELSE {}
<1>1. CallEdges(S) = UNION {UNION {Of(s, n) : n \in s.calls} : s \in {s \in S : Callable(s)}}
  BY DEF CallEdges, Callable
<1>2. \A s, n : /\ Cross(s, n) = Elsewhere(Called(S, s, n), s)
                /\ Same(s, n) = {t \in Called(S, s, n) : t.file = s.file}
  BY DEF Called, Elsewhere
<1> HIDE DEF Cross, Same
<1>3. \A s, n : e \in Of(s, n) <=>
        \E t \in Called(S, s, n) :
          \/ t.file = s.file /\ e = Edge(s, t, "calls", SameFile)
          \/ /\ t.file # s.file /\ e = Edge(s, t, "calls", CrossModule)
             /\ Cardinality(Elsewhere(Called(S, s, n), s)) <= FanoutCap
  BY <1>2 DEF Elsewhere
<1> HIDE DEF Of
<1> QED BY <1>1, <1>3

LEMMA OopEdge ==
  ASSUME NEW S, NEW e
  PROVE  e \in OopEdges(S) <=>
           \E s \in S : Typed(s) /\ \E b \in s.bases : \E t \in Extended(S, s, b[1]) :
             e = Edge(s, t, BaseEdge(b[2], t),
                      IF Cardinality(Extended(S, s, b[1])) = 1 THEN OopUnique ELSE OopAmbiguous)
<1> DEFINE Of(s, b) == {Edge(s, t, BaseEdge(b[2], t),
                             IF Cardinality(Extended(S, s, b[1])) = 1 THEN OopUnique ELSE OopAmbiguous)
                          : t \in Extended(S, s, b[1])}
<1>1. OopEdges(S) = UNION {UNION {Of(s, b) : b \in s.bases} : s \in {s \in S : Typed(s)}}
  BY DEF OopEdges, Typed, Extended
<1>2. \A s, b : e \in Of(s, b) <=> \E t \in Extended(S, s, b[1]) :
        e = Edge(s, t, BaseEdge(b[2], t),
                 IF Cardinality(Extended(S, s, b[1])) = 1 THEN OopUnique ELSE OopAmbiguous)
  OBVIOUS
<1> HIDE DEF Of
<1>3. e \in OopEdges(S) <=> \E s \in S : Typed(s) /\ \E b \in s.bases : e \in Of(s, b)
  BY <1>1
<1> QED BY <1>2, <1>3

LEMMA RouteEdge ==
  ASSUME NEW S, NEW e
  PROVE  e \in RouteEdges(S) <=>
           \E r \in S : Leads(S, r) /\ \E t \in Handlers(S, r) : e = Edge(r, t, "routes_to", RouteExact)
BY DEF RouteEdges, Leads, Handlers, Candidates

LEMMA ReadEdge ==
  ASSUME NEW S, NEW e
  PROVE  e \in ReadEdges(S) <=>
           \E s \in S : \E k \in KeysRead(S, s) : e = Edge(s, k, "reads", ConfigReads)
<1> DEFINE Of(k) == IF Cardinality(Readers(S, k)) <= FanoutCap
                    THEN {Edge(s, k, "reads", ConfigReads) : s \in Readers(S, k)} ELSE {}
<1>1. ReadEdges(S) = UNION {Of(k) : k \in {k \in Candidates(S) : IsConfigKey(k)}}
  BY DEF ReadEdges, Readers
<1>2. \A k : e \in Of(k) <=> /\ Cardinality(Readers(S, k)) <= FanoutCap
                             /\ \E s \in Readers(S, k) : e = Edge(s, k, "reads", ConfigReads)
  OBVIOUS
<1>3. \A k : Readers(S, k) \subseteq S
  BY DEF Readers, Code, Candidates
<1> HIDE DEF Of
<1> QED BY <1>1, <1>2, <1>3 DEF KeysRead

LEMMA QueryEdge ==
  ASSUME NEW S, NEW e
  PROVE  e \in SqlEdges(S) <=>
           \E s \in S : Queries(S, s) /\ \E t \in Tables(S, s) : e = Edge(s, t, SqlKind(s), SqlEdge)
<1> DEFINE Of(s) == {Edge(s, t, SqlKind(s), SqlEdge) : t \in Tables(S, s)}
<1>1. SqlEdges(S) = UNION {Of(s) : s \in {s \in Code(S) : s.verbs # {}}}
  BY DEF SqlEdges, Tables, SqlKind
<1>2. Code(S) \subseteq S
  BY DEF Code, Candidates
<1> QED BY <1>1, <1>2 DEF Queries

\* Every edge is drawn from one symbol of the set to another, and is made by Edge.
LEMMA ProposedShape ==
  ASSUME NEW S, NEW e \in Proposed(S)
  PROVE  \E s, t \in S, k \in Kinds, n \in Confidences : e = Edge(s, t, k, n)
<1>1. CASE e \in CallEdges(S)
  <2>1. \A s, n : Called(S, s, n) \subseteq S
    BY DEF Called
  <2>2. PICK s \in S, t \in S :
          e = Edge(s, t, "calls", SameFile) \/ e = Edge(s, t, "calls", CrossModule)
    BY <1>1, <2>1, CallEdge
  <2> QED BY <2>2 DEF Kinds, Confidences
<1>2. CASE e \in OopEdges(S)
  <2>1. PICK s \in S : \E b \in s.bases : \E t \in Extended(S, s, b[1]) :
          \/ e = Edge(s, t, BaseEdge(b[2], t), OopUnique)
          \/ e = Edge(s, t, BaseEdge(b[2], t), OopAmbiguous)
    BY <1>2, OopEdge
  <2>2. PICK b \in s.bases : \E t \in Extended(S, s, b[1]) :
          \/ e = Edge(s, t, BaseEdge(b[2], t), OopUnique)
          \/ e = Edge(s, t, BaseEdge(b[2], t), OopAmbiguous)
    BY <2>1
  <2>3. PICK t \in Extended(S, s, b[1]) :
          \/ e = Edge(s, t, BaseEdge(b[2], t), OopUnique)
          \/ e = Edge(s, t, BaseEdge(b[2], t), OopAmbiguous)
    BY <2>2
  <2>4. t \in S /\ BaseEdge(b[2], t) \in Kinds
    BY DEF Extended, BaseEdge, Kinds
  <2> QED BY <2>3, <2>4 DEF Confidences
<1>3. CASE e \in RouteEdges(S)
  BY <1>3, RouteEdge DEF Handlers, Code, Candidates, Kinds, Confidences
<1>4. CASE e \in ReadEdges(S)
  BY <1>4, ReadEdge DEF KeysRead, Candidates, Kinds, Confidences
<1>5. CASE e \in SqlEdges(S)
  BY <1>5, QueryEdge DEF Tables, Candidates, SqlKind, Kinds, Confidences
<1> QED BY <1>1, <1>2, <1>3, <1>4, <1>5 DEF Proposed

LEMMA EdgeShape ==
  ASSUME NEW S, NEW e \in Resolve(S)
  PROVE  \E s, t \in S, k \in Kinds, n \in Int : e = Edge(s, t, k, n)
<1>1. e \in Proposed(S)
  BY DEF Resolve, Best, Proposed
<1>2. Confidences \subseteq Int
  BY DEF Confidences, SameFile, CrossModule, OopUnique, OopAmbiguous, RouteExact, ConfigReads, SqlEdge
<1> QED BY <1>1, <1>2, ProposedShape

\* One edge is kept for every symbol, what it leads to, and the kind.
LEMMA OneIsKept ==
  ASSUME NEW S, NEW e \in Proposed(S)
  PROVE  \E o \in Resolve(S) : Key(o) = Key(e)
<1> DEFINE T == {o \in Proposed(S) : Key(o) = Key(e)}
           Most(o) == \A f \in T : f.conf <= o.conf
<1>1. \A o \in T : o.conf \in {100, 90, 70, 65, 60, 50}
  BY ProposedShape DEF Edge, Confidences, SameFile, CrossModule, OopUnique, OopAmbiguous, RouteExact,
     ConfigReads, SqlEdge
<1>2. e \in T
  OBVIOUS
<1> HIDE DEF T
<1>3. \E o \in T : Most(o)
  <2>1. CASE \E o \in T : o.conf = 100
    BY <1>1, <2>1
  <2>2. CASE (\A o \in T : o.conf \notin {100}) /\ \E o \in T : o.conf = 90
    BY <1>1, <2>2
  <2>3. CASE (\A o \in T : o.conf \notin {100, 90}) /\ \E o \in T : o.conf = 70
    BY <1>1, <2>3
  <2>4. CASE (\A o \in T : o.conf \notin {100, 90, 70}) /\ \E o \in T : o.conf = 65
    BY <1>1, <2>4
  <2>5. CASE (\A o \in T : o.conf \notin {100, 90, 70, 65}) /\ \E o \in T : o.conf = 60
    BY <1>1, <2>5
  <2>6. CASE \A o \in T : o.conf \notin {100, 90, 70, 65, 60}
    BY <1>1, <1>2, <2>6
  <2> QED BY <2>1, <2>2, <2>3, <2>4, <2>5, <2>6
<1>4. PICK o \in T : Most(o)
  BY <1>3
<1>5. o \in Resolve(S)
  BY <1>4 DEF T, Resolve, Best, Proposed
<1> QED BY <1>4, <1>5 DEF T

\* Of the edges of one key one is left.
LEMMA OnePerKey ==
  ASSUME NEW S, NEW e \in Resolve(S), NEW o \in Resolve(S), Key(e) = Key(o)
  PROVE  e = o
<1>1. PICK s, t \in S, k \in Kinds, n \in Int : e = Edge(s, t, k, n)
  BY EdgeShape
<1>2. PICK u, v \in S, l \in Kinds, m \in Int : o = Edge(u, v, l, m)
  BY EdgeShape
<1>3. s.id = u.id /\ t.id = v.id /\ k = l
  BY <1>1, <1>2 DEF Edge, Key
<1>4. e.conf <= o.conf /\ o.conf <= e.conf
  BY DEF Resolve, Best
<1>5. n = m
  BY <1>1, <1>2, <1>4 DEF Edge
<1> QED BY <1>1, <1>2, <1>3, <1>5 DEF Edge

\* What the edges out of one symbol depend on: what it calls, extends, leads to, reads
\* and queries.
Identified(S) == \A s, o \in S : s.id = o.id => s = o
Out(E, s) == {e \in E : e.src = s.id}

Alike(X, Y, s) ==
  /\ Callable(s) => \A n \in s.calls : Called(X, s, n) = Called(Y, s, n)
  /\ Typed(s) => \A b \in s.bases : Extended(X, s, b[1]) = Extended(Y, s, b[1])
  /\ Leads({s}, s) => Handlers(X, s) = Handlers(Y, s)
  /\ KeysRead(X, s) = KeysRead(Y, s)
  /\ Queries({s}, s) => Tables(X, s) = Tables(Y, s)

LEMMA AlikeOneWay ==
  ASSUME NEW X, NEW Y, Identified(X), NEW s \in X, s \in Y, Alike(X, Y, s),
         NEW e \in Proposed(X), e.src = s.id
  PROVE  e \in Proposed(Y)
<1>1. \A u \in X : \A t, k, n : e = Edge(u, t, k, n) => u = s
  BY DEF Edge, Identified
<1>2. CASE e \in CallEdges(X)
  <2>1. PICK u \in X : Callable(u) /\ \E n \in u.calls : \E t \in Called(X, u, n) :
          \/ t.file = u.file /\ e = Edge(u, t, "calls", SameFile)
          \/ /\ t.file # u.file /\ e = Edge(u, t, "calls", CrossModule)
             /\ Cardinality(Elsewhere(Called(X, u, n), u)) <= FanoutCap
    BY <1>2, CallEdge
  <2>2. u = s
    BY <1>1, <2>1
  <2>3. e \in CallEdges(Y)
    BY <2>1, <2>2, CallEdge DEF Alike
  <2> QED BY <2>3 DEF Proposed
<1>3. CASE e \in OopEdges(X)
  <2>1. PICK u \in X : Typed(u) /\ \E b \in u.bases : \E t \in Extended(X, u, b[1]) :
          e = Edge(u, t, BaseEdge(b[2], t),
                   IF Cardinality(Extended(X, u, b[1])) = 1 THEN OopUnique ELSE OopAmbiguous)
    BY <1>3, OopEdge
  <2>2. u = s
    BY <1>1, <2>1
  <2>3. e \in OopEdges(Y)
    BY <2>1, <2>2, OopEdge DEF Alike
  <2> QED BY <2>3 DEF Proposed
<1>4. CASE e \in RouteEdges(X)
  <2>1. PICK u \in X : Leads(X, u) /\ \E t \in Handlers(X, u) : e = Edge(u, t, "routes_to", RouteExact)
    BY <1>4, RouteEdge
  <2>2. u = s
    BY <1>1, <2>1
  <2>3. Leads({s}, s) /\ Leads(Y, s)
    BY <2>1, <2>2 DEF Leads, Candidates
  <2>4. e \in RouteEdges(Y)
    BY <2>1, <2>2, <2>3, RouteEdge DEF Alike
  <2> QED BY <2>4 DEF Proposed
<1>5. CASE e \in ReadEdges(X)
  <2>1. PICK u \in X : \E k \in KeysRead(X, u) : e = Edge(u, k, "reads", ConfigReads)
    BY <1>5, ReadEdge
  <2>2. u = s
    BY <1>1, <2>1
  <2>3. e \in ReadEdges(Y)
    BY <2>1, <2>2, ReadEdge DEF Alike
  <2> QED BY <2>3 DEF Proposed
<1>6. CASE e \in SqlEdges(X)
  <2>1. PICK u \in X : Queries(X, u) /\ \E t \in Tables(X, u) : e = Edge(u, t, SqlKind(u), SqlEdge)
    BY <1>6, QueryEdge
  <2>2. u = s
    BY <1>1, <2>1
  <2>3. Queries({s}, s) /\ Queries(Y, s)
    BY <2>1, <2>2 DEF Queries, Code, Candidates
  <2>4. e \in SqlEdges(Y)
    BY <2>1, <2>2, <2>3, QueryEdge DEF Alike
  <2> QED BY <2>4 DEF Proposed
<1> QED BY <1>2, <1>3, <1>4, <1>5, <1>6 DEF Proposed

LEMMA AlikeResolve ==
  ASSUME NEW X, NEW Y, Identified(X), Identified(Y), NEW s \in X, s \in Y, Alike(X, Y, s)
  PROVE  Out(Resolve(X), s) = Out(Resolve(Y), s)
<1>1. Alike(Y, X, s)
  BY DEF Alike
<1>2. \A e : e.src = s.id => (e \in Proposed(X) <=> e \in Proposed(Y))
  BY <1>1, AlikeOneWay
<1>3. \A e, f : Key(f) = Key(e) => f.src = e.src
  BY DEF Key
<1>4. \A e : e.src = s.id => (e \in Best(Proposed(X)) <=> e \in Best(Proposed(Y)))
  BY <1>2, <1>3 DEF Best
<1> QED BY <1>4 DEF Out, Resolve, Proposed

-----------------------------------------------------------------------------
(* Symbols and the files they are of *)

LEMMA ParsedSymbol ==
  ASSUME NEW f \in File, NEW c \in Content, NEW s \in Parse(f, c)
  PROVE  s \in AllSymbols /\ s.file = f
<1>1. s.file = f
  BY DEF Parse, SymbolsOf
<1>2. s \in AllSymbols
  BY DEF AllSymbols
<1> QED BY <1>1, <1>2

\* the path is part of the identity
LEMMA IdNamesFile ==
  ASSUME NEW s \in AllSymbols, NEW o \in AllSymbols, s.id = o.id
  PROVE  s.file = o.file
<1>1. ASSUME NEW r \in AllSymbols PROVE r.id[1] = r.file
  <2>1. PICK f \in File, c \in Content : r \in Parse(f, c)
    BY <1>1 DEF AllSymbols
  <2> QED BY <2>1 DEF Parse, SymbolsOf
<1> QED BY <1>1

\* a reading of one file has every identity once
LEMMA IdInFile ==
  ASSUME NEW f \in File, NEW c \in Content, NEW s \in Parse(f, c), NEW o \in Parse(f, c),
         s.id = o.id
  PROVE  s = o
<1>1. PICK d \in Parsed[c].text :
        s = [id |-> <<f, d.name, d.body>>, file |-> f, lang |-> Lang[f], name |-> d.name,
             kind |-> d.kind, calls |-> d.calls, quoted |-> d.quoted, words |-> d.words,
             verbs |-> d.verbs, bases |-> d.bases]
  BY DEF Parse, SymbolsOf
<1>2. PICK e \in Parsed[c].text :
        o = [id |-> <<f, e.name, e.body>>, file |-> f, lang |-> Lang[f], name |-> e.name,
             kind |-> e.kind, calls |-> e.calls, quoted |-> e.quoted, words |-> e.words,
             verbs |-> e.verbs, bases |-> e.bases]
  BY DEF Parse, SymbolsOf
<1>3. d.name = e.name /\ d.body = e.body
  BY <1>1, <1>2
<1>4. d = e
  BY <1>3, PlannerAssumption
<1> QED BY <1>1, <1>2, <1>4

-----------------------------------------------------------------------------
(* How a text leads to what it refers to *)

LEMMA Itself ==
  ASSUME NEW n, n \in Seq(Range(n)), n # <<>>
  PROVE  Within(n, n)
<1>1. Len(n) \in Nat /\ Len(n) # 0
  OBVIOUS
<1>2. SubSeq(n, 1, Len(n)) = n
  OBVIOUS
<1>3. 1 \in 1..Len(n) /\ 1 + Len(n) - 1 = Len(n)
  BY <1>1
<1> QED BY <1>2, <1>3 DEF Within

LEMMA SymbolText ==
  ASSUME NEW s \in AllSymbols
  PROVE  /\ s.calls \subseteq s.words
         /\ \A b \in s.bases : b[1] \in s.words
         /\ \A n \in Mentions(s) : Within(n, n)
<1>1. PICK f \in File, c \in Content : s \in Parse(f, c)
  BY DEF AllSymbols
<1>2. PICK d \in Parsed[c].text :
        s = [id |-> <<f, d.name, d.body>>, file |-> f, lang |-> Lang[f], name |-> d.name,
             kind |-> d.kind, calls |-> d.calls, quoted |-> d.quoted, words |-> d.words,
             verbs |-> d.verbs, bases |-> d.bases]
  BY <1>1 DEF Parse, SymbolsOf
<1>3. /\ d.calls \cup {b[1] : b \in d.bases} \subseteq d.words
      /\ \A n \in d.quoted \cup d.words : n \in Seq(Range(n)) /\ n # <<>>
  BY PlannerAssumption
<1>4. s.calls = d.calls /\ s.bases = d.bases /\ s.words = d.words /\ s.quoted = d.quoted
  BY <1>2
<1>5. \A n \in Mentions(s) : Within(n, n)
  BY <1>3, <1>4, Itself DEF Mentions
<1> QED BY <1>3, <1>4, <1>5

\* Whoever quotes a key quotes it in the same form, and finds it.
LEMMA OneForm ==
  ASSUME Findable, NEW S \in SUBSET AllSymbols, NEW U \in SUBSET AllSymbols,
         NEW k \in AllSymbols, IsConfigKey(k),
         NEW s \in Code(S), NEW v \in s.quoted \cap KeyForms(k.name),
         NEW t \in Code(U), NEW w \in t.quoted \cap KeyForms(k.name)
  PROVE  v = w /\ \E n \in Mentions(k) \cup {k.name} : Within(v, n)
<1>1. s \in Code(AllSymbols) /\ t \in Code(AllSymbols)
  BY DEF Code, Candidates
<1>2. v \in FormsOf(k) /\ w \in FormsOf(k)
  BY <1>1 DEF FormsOf
<1> QED BY <1>2 DEF Findable

\* A table is named by a query as it is declared.
LEMMA OneSpelling ==
  ASSUME Findable, NEW S \in SUBSET AllSymbols, NEW s \in S, Queries({s}, s),
         NEW t \in AllSymbols, t.lang = "sql", NEW n \in s.words \cup {s.name},
         Norm(n) = Norm(t.name)
  PROVE  n = t.name /\ (n \in s.words => n = Norm(n))
<1>1. s \in Code(AllSymbols) /\ s.verbs # {}
  BY DEF Queries, Code, Candidates
<1> QED BY <1>1 DEF Findable

-----------------------------------------------------------------------------
(* A symbol whose file is not read again keeps its edges, and one whose file is    *)
(* read again finds all of its own                                              *)

Crowd(S, v) == {u \in S : v \in {u.name} \cup u.quoted}
After(S, N, C, D) == {t \in S : t.file \notin C \cup D} \cup N

\* Nothing s mentions changed, no edge of s leads to what changed or is deleted, and
\* no name of what is deleted was too common.
Bystander(S, N, C, D, s) ==
  /\ s \in S /\ s.file \notin C \cup D
  /\ \A t \in N \cup {t \in S : t.file \in C} :
       DestinationValues(t) \cap (Mentions(s) \cup {s.name}) = {}
  /\ \A e \in Out(Resolve(S), s) : \A t \in S : t.file \in C \cup D => e.dst # t.id
  /\ \A t \in S : t.file \in D =>
       \A v \in {t.name} \cup t.quoted : Cardinality(Crowd(S, v)) <= FanoutCap

LEMMA BystanderKeys ==
  ASSUME Findable, NEW S \in SUBSET AllSymbols, IsFiniteSet(S), NEW N \in SUBSET AllSymbols,
         NEW C, NEW D, NEW s, Bystander(S, N, C, D, s), s \in Code(S),
         NEW T, T = After(S, N, C, D)
  PROVE  KeysRead(S, s) = KeysRead(T, s)
<1>1. T \in SUBSET AllSymbols /\ FanoutCap \in Nat
  BY PlannerAssumption DEF After
<1>2. \A t \in N \cup {t \in S : t.file \in C} : \A v \in s.quoted : v \notin DestinationValues(t)
  BY DEF Bystander, Mentions
<1>3. \A t, v : v \in t.quoted => v \in DestinationValues(t)
  BY DEF DestinationValues
<1>4. ASSUME NEW k \in AllSymbols, IsConfigKey(k), NEW v \in s.quoted \cap KeyForms(k.name)
      PROVE  /\ k \in T \/ k \in S => k \in S /\ k.file \notin C
             /\ Readers(T, k) \subseteq Readers(S, k)
             /\ \/ Readers(S, k) \subseteq Readers(T, k)
                \/ Cardinality(Readers(S, k)) <= FanoutCap
  <2>1. v \in DestinationValues(k)
    BY <1>4 DEF DestinationValues
  <2>2. k \in T \/ k \in S => k \in S /\ k.file \notin C
    BY <1>2, <2>1 DEF After
  <2>3. \A t \in Readers(S, k) \cup Readers(T, k) : v \in t.quoted
    BY <1>1, <1>4, OneForm DEF Readers
  <2>4. \A t \in Readers(S, k) \cup Readers(T, k) : t \in N \/ (t \in S /\ t.file \in C) => FALSE
    BY <1>2, <1>3, <2>3
  <2>5. Readers(T, k) \subseteq Readers(S, k)
    BY <2>4 DEF Readers, After, Code, Candidates
  <2>6. CASE \E t \in Readers(S, k) : t.file \in D
    <3>1. PICK t \in Readers(S, k) : t.file \in D
      BY <2>6
    <3>2. t \in S /\ v \in t.quoted
      BY <2>3, <3>1 DEF Readers, Code, Candidates
    <3>3. Cardinality(Crowd(S, v)) <= FanoutCap
      BY <3>1, <3>2 DEF Bystander
    <3>4. Readers(S, k) \subseteq Crowd(S, v) /\ Crowd(S, v) \subseteq S
      BY <2>3 DEF Readers, Code, Candidates, Crowd
    <3>5. IsFiniteSet(Crowd(S, v))
      BY <3>4, FS_Subset
    <3>6. /\ Cardinality(Readers(S, k)) <= Cardinality(Crowd(S, v))
          /\ IsFiniteSet(Readers(S, k))
      BY <3>4, <3>5, FS_Subset
    <3>7. Cardinality(Readers(S, k)) \in Nat /\ Cardinality(Crowd(S, v)) \in Nat
      BY <3>5, <3>6, FS_CardinalityType
    <3>8. Cardinality(Readers(S, k)) <= FanoutCap
      BY <1>1, <3>3, <3>6, <3>7
    <3> QED BY <2>2, <2>5, <3>8
  <2>7. CASE \A t \in Readers(S, k) : t.file \notin D
    <3>1. Readers(S, k) \subseteq Readers(T, k)
      BY <2>4, <2>7 DEF Readers, After, Code, Candidates
    <3> QED BY <2>2, <2>5, <3>1
  <2> QED BY <2>6, <2>7
<1>5. ASSUME NEW k \in KeysRead(S, s)
      PROVE  k \in KeysRead(T, s)
  <2>1. k \in Candidates(S) /\ k \in S /\ IsConfigKey(k) /\ s \in Readers(S, k)
        /\ Cardinality(Readers(S, k)) <= FanoutCap
    BY <1>5 DEF KeysRead, Candidates
  <2>2. k \in AllSymbols
    BY <2>1
  <2>3. PICK v : v \in s.quoted \cap KeyForms(k.name)
    BY <2>1 DEF Readers
  <2>4. k.file \notin C /\ Readers(T, k) \subseteq Readers(S, k)
    BY <1>4, <2>1, <2>2, <2>3
  <2>5. k.file \notin D
    <3>1. Edge(s, k, "reads", ConfigReads) \in ReadEdges(S)
      BY <1>5, ReadEdge DEF Bystander
    <3>2. Edge(s, k, "reads", ConfigReads) \in Proposed(S)
      BY <3>1 DEF Proposed
    <3>3. PICK o \in Resolve(S) : Key(o) = Key(Edge(s, k, "reads", ConfigReads))
      BY <3>2, OneIsKept
    <3>4. o.src = s.id /\ o.dst = k.id
      BY <3>3 DEF Key, Edge
    <3> QED BY <2>1, <3>3, <3>4 DEF Bystander, Out
  <2>6. k \in Candidates(T)
    BY <2>1, <2>4, <2>5 DEF Candidates, After
  <2>7. s \in Readers(T, k)
    BY <2>1 DEF Readers, Code, Candidates, After, Bystander
  <2>8. IsFiniteSet(Readers(S, k)) /\ Readers(S, k) \subseteq S
    <3>1. Readers(S, k) \subseteq S
      BY DEF Readers, Code, Candidates
    <3> QED BY <3>1, FS_Subset
  <2>9. /\ IsFiniteSet(Readers(T, k))
        /\ Cardinality(Readers(T, k)) <= Cardinality(Readers(S, k))
    BY <2>4, <2>8, FS_Subset
  <2>10. Cardinality(Readers(T, k)) \in Nat /\ Cardinality(Readers(S, k)) \in Nat
    BY <2>8, <2>9, FS_CardinalityType
  <2>11. Cardinality(Readers(T, k)) <= FanoutCap
    BY <1>1, <2>1, <2>9, <2>10
  <2> QED BY <2>1, <2>6, <2>7, <2>11 DEF KeysRead
<1>6. ASSUME NEW k \in KeysRead(T, s)
      PROVE  k \in KeysRead(S, s)
  <2>1. k \in Candidates(T) /\ k \in T /\ IsConfigKey(k) /\ s \in Readers(T, k)
        /\ Cardinality(Readers(T, k)) <= FanoutCap
    BY <1>6 DEF KeysRead, Candidates
  <2>2. k \in AllSymbols
    BY <1>1, <2>1
  <2>3. PICK v : v \in s.quoted \cap KeyForms(k.name)
    BY <2>1 DEF Readers
  <2>4. /\ k \in S /\ Readers(T, k) \subseteq Readers(S, k)
        /\ \/ Readers(S, k) \subseteq Readers(T, k)
           \/ Cardinality(Readers(S, k)) <= FanoutCap
    BY <1>4, <2>1, <2>2, <2>3
  <2>5. k \in Candidates(S)
    BY <2>1, <2>4 DEF Candidates
  <2>6. Cardinality(Readers(S, k)) <= FanoutCap
    <3>1. CASE Readers(S, k) \subseteq Readers(T, k)
      <4>1. Readers(S, k) = Readers(T, k)
        BY <2>4, <3>1
      <4> QED BY <2>1, <4>1
    <3> QED BY <2>4, <3>1
  <2> QED BY <2>1, <2>4, <2>5, <2>6 DEF KeysRead
<1> QED BY <1>5, <1>6

LEMMA BystanderAlike ==
  ASSUME Findable, NEW S \in SUBSET AllSymbols, IsFiniteSet(S), NEW N \in SUBSET AllSymbols,
         NEW C, NEW D, NEW s, Bystander(S, N, C, D, s),
         NEW T, T = After(S, N, C, D)
  PROVE  Alike(S, T, s)
<1>1. s \in S /\ s \in AllSymbols /\ s.file \notin C \cup D
  BY DEF Bystander
<1>2. ASSUME NEW n \in Mentions(s) \cup {s.name}, NEW t \in N \cup {t \in S : t.file \in C}
      PROVE  t.name # n /\ n \notin t.quoted
  BY DEF Bystander, DestinationValues
<1>3. ASSUME NEW t \in S, t.file \in D, NEW k, NEW c, Edge(s, t, k, c) \in Proposed(S)
      PROVE  FALSE
  <2>1. PICK o \in Resolve(S) : Key(o) = Key(Edge(s, t, k, c))
    BY <1>3, OneIsKept
  <2>2. o.src = s.id /\ o.dst = t.id
    BY <2>1 DEF Key, Edge
  <2> QED BY <1>3, <2>1, <2>2 DEF Bystander, Out
<1>4. \A t : (t \in S /\ t \notin T => t.file \in C \/ t.file \in D)
             /\ (t \in T /\ t \notin S => t \in N)
  BY DEF After
<1>5. ASSUME Callable(s), NEW n \in s.calls
      PROVE  Called(S, s, n) = Called(T, s, n)
  <2>1. n \in Mentions(s)
    BY <1>1, SymbolText DEF Mentions
  <2>2. ASSUME NEW t \in Called(S, s, n), t.file \in D PROVE FALSE
    <3>1. t \in S /\ t.name = n /\ t.file # s.file
      BY <1>1, <2>2 DEF Called
    <3>2. Cardinality(Crowd(S, n)) <= FanoutCap
      BY <2>2, <3>1 DEF Bystander
    <3>3. Elsewhere(Called(S, s, n), s) \subseteq Crowd(S, n) /\ Crowd(S, n) \subseteq S
      BY DEF Elsewhere, Called, Crowd
    <3>4. IsFiniteSet(Crowd(S, n))
      BY <3>3, FS_Subset
    <3>5. /\ Cardinality(Elsewhere(Called(S, s, n), s)) <= Cardinality(Crowd(S, n))
          /\ IsFiniteSet(Elsewhere(Called(S, s, n), s))
      BY <3>3, <3>4, FS_Subset
    <3>6. /\ Cardinality(Elsewhere(Called(S, s, n), s)) \in Nat
          /\ Cardinality(Crowd(S, n)) \in Nat /\ FanoutCap \in Nat
      BY <3>4, <3>5, FS_CardinalityType, PlannerAssumption
    <3>7. Cardinality(Elsewhere(Called(S, s, n), s)) <= FanoutCap
      BY <3>2, <3>5, <3>6
    <3>8. PICK o : o = Edge(s, t, "calls", CrossModule)
      OBVIOUS
    <3>9. o \in CallEdges(S)
      BY <1>1, <1>5, <2>2, <3>1, <3>7, <3>8, CallEdge
    <3> QED BY <1>3, <2>2, <3>1, <3>8, <3>9 DEF Proposed
  <2>3. \A t \in Called(S, s, n) \cup Called(T, s, n) : t \in S /\ t \in T
    BY <1>2, <1>4, <2>1, <2>2 DEF Called
  <2> QED BY <2>3 DEF Called
<1>6. ASSUME Typed(s), NEW b \in s.bases
      PROVE  Extended(S, s, b[1]) = Extended(T, s, b[1])
  <2>1. b[1] \in Mentions(s)
    BY <1>1, SymbolText DEF Mentions
  <2>2. ASSUME NEW t \in Extended(S, s, b[1]), t.file \in D PROVE FALSE
    <3>1. PICK o : o = Edge(s, t, BaseEdge(b[2], t),
                            IF Cardinality(Extended(S, s, b[1])) = 1 THEN OopUnique ELSE OopAmbiguous)
      OBVIOUS
    <3>2. o \in OopEdges(S)
      BY <1>1, <1>6, <2>2, <3>1, OopEdge
    <3>3. t \in S
      BY DEF Extended
    <3> QED BY <1>3, <2>2, <3>1, <3>2, <3>3 DEF Proposed
  <2>3. \A t \in Extended(S, s, b[1]) \cup Extended(T, s, b[1]) : t \in S /\ t \in T
    BY <1>2, <1>4, <2>1, <2>2 DEF Extended
  <2> QED BY <2>3 DEF Extended
<1>7. ASSUME Leads({s}, s)
      PROVE  Handlers(S, s) = Handlers(T, s)
  <2>1. ASSUME NEW t \in Handlers(S, s), t.file \in D PROVE FALSE
    <3>1. Leads(S, s)
      BY <1>1, <1>7 DEF Leads, Candidates
    <3>2. Edge(s, t, "routes_to", RouteExact) \in RouteEdges(S)
      BY <1>1, <2>1, <3>1, RouteEdge
    <3>3. t \in S
      BY DEF Handlers, Code, Candidates
    <3> QED BY <1>3, <2>1, <3>2, <3>3 DEF Proposed
  <2>2. \A t \in Handlers(S, s) \cup Handlers(T, s) : t \in S /\ t \in T
    BY <1>2, <1>4, <2>1 DEF Handlers, Code, Candidates
  <2> QED BY <2>2 DEF Handlers, Code, Candidates
<1>8. KeysRead(S, s) = KeysRead(T, s)
  <2>1. CASE s \in Code(S)
    BY <2>1, BystanderKeys
  <2>2. CASE s \notin Code(S)
    <3>1. s \notin Code(T)
      BY <1>1, <2>2 DEF Code, Candidates
    <3> QED BY <2>2, <3>1 DEF KeysRead, Readers
  <2> QED BY <2>1, <2>2
<1>9. ASSUME Queries({s}, s)
      PROVE  Tables(S, s) = Tables(T, s)
  <2>1. ASSUME NEW t \in Tables(S, s), t.file \in D PROVE FALSE
    <3>1. Queries(S, s)
      BY <1>1, <1>9 DEF Queries, Code, Candidates
    <3>2. Edge(s, t, SqlKind(s), SqlEdge) \in SqlEdges(S)
      BY <1>1, <2>1, <3>1, QueryEdge
    <3>3. t \in S
      BY DEF Tables, Candidates
    <3> QED BY <1>3, <2>1, <3>2, <3>3 DEF Proposed
  <2>2. ASSUME NEW t \in Tables(S, s) \cup Tables(T, s)
        PROVE  t.name \in Mentions(s) \cup {s.name}
    <3>1. t \in AllSymbols /\ t.lang = "sql" /\ \E n \in s.words \cup {s.name} : Norm(n) = Norm(t.name)
      BY <2>2 DEF Tables, Candidates, After
    <3>2. PICK n \in s.words \cup {s.name} : Norm(n) = Norm(t.name)
      BY <3>1
    <3>3. n = t.name
      BY <1>1, <1>9, <3>1, <3>2, OneSpelling
    <3> QED BY <3>2, <3>3 DEF Mentions
  <2>3. \A t \in Tables(S, s) \cup Tables(T, s) : t \in S /\ t \in T
    BY <1>2, <1>4, <2>1, <2>2 DEF Tables, Candidates
  <2> QED BY <2>3 DEF Tables, Candidates
<1> QED BY <1>5, <1>6, <1>7, <1>8, <1>9 DEF Alike

\* The names and the literals that are looked up for a symbol.
Asked(s) ==
  {s.name} \cup s.calls \cup s.quoted
    \cup (IF s.verbs # {} THEN {Norm(n) : n \in s.words} ELSE {})
    \cup (IF Typed(s) THEN s.words ELSE {})
Finds(T, R, s) ==
  \A t \in T : \/ t.name \in Asked(s)
               \/ \E v \in s.quoted : \E n \in Mentions(t) \cup {t.name} : Within(v, n)
               => t \in R

LEMMA FinderAlike ==
  ASSUME Findable, NEW T \in SUBSET AllSymbols, NEW R \in SUBSET T, NEW s \in R, Finds(T, R, s)
  PROVE  Alike(R, T, s)
<1>1. s \in AllSymbols
  OBVIOUS
<1>2. \A t \in T : t.name \in Asked(s) => t \in R
  BY DEF Finds
<1>3. ASSUME NEW t \in T, NEW v \in s.quoted \cap t.quoted PROVE t \in R
  <2>1. v \in Mentions(t) /\ Within(v, v)
    BY SymbolText DEF Mentions
  <2> QED BY <2>1 DEF Finds
<1>4. ASSUME NEW n \in s.calls PROVE Called(R, s, n) = Called(T, s, n)
  BY <1>2 DEF Asked, Called
<1>5. ASSUME Typed(s), NEW b \in s.bases PROVE Extended(R, s, b[1]) = Extended(T, s, b[1])
  <2>1. b[1] \in Asked(s)
    BY <1>1, <1>5, SymbolText DEF Asked
  <2> QED BY <1>2, <2>1 DEF Extended
<1>6. ASSUME Leads({s}, s) PROVE Handlers(R, s) = Handlers(T, s)
  <2>1. ASSUME NEW t \in Handlers(T, s) PROVE t \in R
    <3>1. t \in T /\ t \in Code(AllSymbols) /\ s.name \in t.quoted
      BY DEF Handlers, Code, Candidates
    <3>2. s.name \in s.quoted
      BY <1>1, <1>6, <3>1 DEF Findable, Leads
    <3> QED BY <1>3, <3>1, <3>2
  <2> QED BY <2>1 DEF Handlers, Code, Candidates
<1>7. KeysRead(R, s) = KeysRead(T, s)
  <2>1. ASSUME NEW k \in T, IsConfigKey(k), s \in Readers(T, k)
        PROVE  k \in R /\ Readers(R, k) = Readers(T, k)
    <3>1. PICK v : v \in s.quoted \cap KeyForms(k.name)
      BY <2>1 DEF Readers
    <3>2. s \in Code(T) /\ k \in AllSymbols
      BY <2>1 DEF Readers
    <3>3. \E n \in Mentions(k) \cup {k.name} : Within(v, n)
      BY <2>1, <3>1, <3>2, OneForm
    <3>4. k \in R
      BY <3>1, <3>3 DEF Finds
    <3>5. ASSUME NEW t \in Readers(T, k) PROVE t \in R
      <4>1. t \in T /\ t \in Code(T) /\ \E w : w \in t.quoted \cap KeyForms(k.name)
        BY DEF Readers, Code, Candidates
      <4>2. v \in t.quoted
        BY <2>1, <3>1, <3>2, <4>1, OneForm
      <4> QED BY <1>3, <3>1, <4>1, <4>2
    <3>6. Readers(R, k) = Readers(T, k)
      BY <3>5 DEF Readers, Code, Candidates
    <3> QED BY <3>4, <3>6
  <2>2. \A k : s \in Readers(R, k) => s \in Readers(T, k)
    BY DEF Readers, Code, Candidates
  <2>3. Candidates(R) = Candidates(T) \cap R /\ Candidates(T) \subseteq T
    BY DEF Candidates
  <2>4. ASSUME NEW k PROVE k \in KeysRead(R, s) <=> k \in KeysRead(T, s)
    BY <2>1, <2>2, <2>3 DEF KeysRead
  <2> QED BY <2>4
<1>8. ASSUME Queries({s}, s) PROVE Tables(R, s) = Tables(T, s)
  <2>1. ASSUME NEW t \in Tables(T, s) PROVE t \in R
    <3>1. /\ t \in T /\ t \in AllSymbols /\ t.lang = "sql"
          /\ \E n \in s.words \cup {s.name} : Norm(n) = Norm(t.name)
      BY DEF Tables, Candidates
    <3>2. PICK n \in s.words \cup {s.name} : Norm(n) = Norm(t.name)
      BY <3>1
    <3>3. n = t.name /\ (n \in s.words => n = Norm(n))
      BY <1>1, <1>8, <3>1, <3>2, OneSpelling
    <3>4. t.name \in Asked(s)
      BY <1>8, <3>2, <3>3 DEF Asked, Queries
    <3> QED BY <1>2, <3>1, <3>4
  <2> QED BY <2>1 DEF Tables, Candidates
<1> QED BY <1>4, <1>5, <1>6, <1>7, <1>8 DEF Alike

-----------------------------------------------------------------------------
(* The inductive invariant: the agreement of the tables, what a plan holds,  *)
(* and what an edge is                                                       *)

EdgeRow == [src : IdsOf(AllSymbols), dst : IdsOf(AllSymbols), kind : Kinds, conf : Int,
            ambiguous : BOOLEAN, missing : BOOLEAN]

PlanTyped ==
  plan # Idle => /\ DOMAIN plan.changed \subseteq File
                 /\ \A f \in DOMAIN plan.changed : plan.changed[f] \in Content
                 /\ plan.deleted \subseteq File

Inv == TablesAgree /\ PlanTyped /\ edges \subseteq EdgeRow

LEMMA StoredSymbols ==
  ASSUME Inv
  PROVE  syms \subseteq AllSymbols
BY DEF Inv, TablesAgree, TypeOK, SymbolsFollowCache, AllSymbols

-----------------------------------------------------------------------------
(* One publication: what was parsed of the changed files, what the index had   *)
(* of them and of the deleted files, and what of that goes.  A file may be      *)
(* among the changed and the deleted: it was away at the first reading only.   *)

New(changed) == UNION {Parse(f, changed[f]) : f \in DOMAIN changed}
Old(F) == UNION {SymbolsIn(f) : f \in F}
Gone(changed, deleted) ==
  LET old == Old(DOMAIN changed \cup deleted)
  IN (IdsOf(old) \ IdsOf(New(changed)))
       \cup IdsOf({s \in old \cup New(changed) : s.file \in deleted})
Batch(changed, deleted) == EdgesOf(New(changed), DOMAIN changed, DOMAIN changed \cup deleted)
Dropped(changed, deleted) == {e \in edges : e.src \in IdsOf(Old(DOMAIN changed \cup deleted))}

LEMMA NewSymbol ==
  ASSUME NEW changed \in Changes, NEW s \in New(changed)
  PROVE  /\ s.file \in DOMAIN changed /\ s.file \in File /\ changed[s.file] \in Content
         /\ s \in Parse(s.file, changed[s.file]) /\ s \in AllSymbols
<1>1. PICK f \in DOMAIN changed : s \in Parse(f, changed[f])
  BY DEF New
<1>2. f \in File /\ changed[f] \in Content
  BY DEF Changes
<1> QED BY <1>1, <1>2, ParsedSymbol

LEMMA OldSymbol ==
  ASSUME NEW F, NEW s
  PROVE  s \in Old(F) <=> s \in syms /\ s.file \in F
BY DEF Old, SymbolsIn

\* What is left of the symbols, by file.
LEMMA SymbolsAfter ==
  ASSUME Inv, NEW changed \in Changes, NEW deleted \in SUBSET File, NEW s
  PROVE  s \in PublishSymbols(New(changed), Gone(changed, deleted))
           <=> \/ s \in syms /\ s.file \notin DOMAIN changed \cup deleted
               \/ s \in New(changed) /\ s.file \notin deleted
<1> DEFINE gone == Gone(changed, deleted)
<1>1. ASSUME s \in syms, s.file \notin DOMAIN changed \cup deleted
      PROVE  s.id \notin IdsOf(New(changed)) /\ s.id \notin gone
  <2>1. s \in AllSymbols
    BY <1>1, StoredSymbols
  <2>2. ASSUME NEW o \in New(changed) \cup Old(DOMAIN changed \cup deleted) PROVE o.id # s.id
    <3>1. o \in AllSymbols /\ o.file \in DOMAIN changed \cup deleted
      BY NewSymbol, OldSymbol, StoredSymbols
    <3> QED BY <1>1, <2>1, <3>1, IdNamesFile
  <2> QED BY <2>2 DEF Gone, IdsOf
<1>2. ASSUME s \in New(changed), s.file \notin deleted
      PROVE  s.id \notin gone
  <2>1. s \in AllSymbols /\ s.id \in IdsOf(New(changed))
    BY <1>2, NewSymbol DEF IdsOf
  <2>2. ASSUME NEW o \in Old(DOMAIN changed \cup deleted) \cup New(changed), o.file \in deleted
        PROVE  o.id # s.id
    <3>1. o \in AllSymbols
      BY NewSymbol, OldSymbol, StoredSymbols
    <3> QED BY <1>2, <2>1, <2>2, <3>1, IdNamesFile
  <2> QED BY <2>1, <2>2 DEF Gone, IdsOf
<1>3. ASSUME s \in syms, s.file \in DOMAIN changed \cup deleted, s.id \notin IdsOf(New(changed))
      PROVE  s.id \in gone
  <2>1. s.id \in IdsOf(Old(DOMAIN changed \cup deleted))
    BY <1>3, OldSymbol DEF IdsOf
  <2> QED BY <1>3, <2>1 DEF Gone
<1>4. ASSUME s \in New(changed), s.file \in deleted
      PROVE  s.id \in gone
  BY <1>4 DEF Gone, IdsOf
<1> HIDE DEF gone
<1>5. s \in PublishSymbols(New(changed), gone)
        <=> ((s \in syms /\ s.id \notin IdsOf(New(changed))) \/ s \in New(changed)) /\ s.id \notin gone
  BY DEF PublishSymbols
<1>6. s \in New(changed) => s.file \in DOMAIN changed
  BY NewSymbol
<1> QED BY <1>1, <1>2, <1>3, <1>4, <1>5, <1>6 DEF gone

\* An identity of the index before, or of what was parsed, is one of the index after or goes.
LEMMA IdsAfter ==
  ASSUME Inv, NEW changed \in Changes, NEW deleted \in SUBSET File,
         NEW s \in syms \cup New(changed)
  PROVE  \/ s.id \in IdsOf(PublishSymbols(New(changed), Gone(changed, deleted)))
         \/ s.id \in Gone(changed, deleted)
<1>1. CASE s \in New(changed) \/ s.id \notin IdsOf(New(changed))
  BY <1>1 DEF PublishSymbols, IdsOf
<1>2. CASE s.id \in IdsOf(New(changed))
  BY <1>2 DEF PublishSymbols, IdsOf
<1> QED BY <1>1, <1>2

\* An edge of the batch starts at a symbol that was parsed, and leads to one that was
\* parsed or that stays.
LEMMA BatchEdge ==
  ASSUME Inv, NEW changed \in Changes, NEW deleted \in SUBSET File,
         NEW e \in Batch(changed, deleted)
  PROVE  /\ e \in EdgeRow
         /\ \E s \in New(changed) : s.id = e.src
         /\ \E t \in syms \cup New(changed) : t.id = e.dst
<1> DEFINE new == New(changed)
           R == ResolverSymbols(new, DOMAIN changed \cup deleted)
<1>1. \A s \in R : s \in new \/ (s \in syms /\ s.file \notin DOMAIN changed)
  BY DEF ResolverSymbols, Named, Fts
<1>2. \A s \in R : s \in AllSymbols
  BY <1>1, NewSymbol, StoredSymbols
<1>3. e \in Resolve(R) /\ \E s \in R : s.id = e.src /\ s.file \in DOMAIN changed
  BY DEF EdgesOf, Batch
<1> HIDE DEF R, new
<1>4. PICK s \in R, t \in R, k \in Kinds, n \in Int : e = Edge(s, t, k, n)
  BY <1>3, EdgeShape
<1>5. e \in EdgeRow
  BY <1>2, <1>4 DEF Edge, EdgeRow, IdsOf, AmbiguousBelow
<1>6. e.dst = t.id
  BY <1>4 DEF Edge
<1> QED BY <1>1, <1>3, <1>5, <1>6 DEF new

\* The edges that are kept, before those into a deleted symbol are flagged.
Kept(up, dropped) == {e \in edges \ dropped : Key(e) \notin {Key(u) : u \in up}} \cup up
Flag(e, gone) == [e EXCEPT !.missing = @ \/ e.dst \in gone]

LEMMA FlagKeeps ==
  ASSUME NEW e \in EdgeRow, NEW gone
  PROVE  /\ Flag(e, gone) \in EdgeRow
         /\ Flag(e, gone).src = e.src /\ Flag(e, gone).dst = e.dst
         /\ Key(Flag(e, gone)) = Key(e)
         /\ e.missing \/ e.dst \in gone => Flag(e, gone).missing
<1>1. (e.missing \/ e.dst \in gone) \in BOOLEAN
  OBVIOUS
<1>2. Flag(e, gone) = [e EXCEPT !.missing = (e.missing \/ e.dst \in gone)]
  BY DEF Flag
<1>3. /\ Flag(e, gone) \in EdgeRow
      /\ Flag(e, gone).src = e.src /\ Flag(e, gone).dst = e.dst /\ Flag(e, gone).kind = e.kind
      /\ Flag(e, gone).missing = (e.missing \/ e.dst \in gone)
  BY <1>1, <1>2 DEF EdgeRow
<1> QED BY <1>3 DEF Key

\* After the publication of a batch every edge is still attached, and the only one of
\* its key.
LEMMA EdgesAfter ==
  ASSUME Inv, NEW changed \in Changes, NEW deleted \in SUBSET File,
         NEW up, up = Batch(changed, deleted),
         NEW dropped, dropped = Dropped(changed, deleted),
         NEW gone, gone = Gone(changed, deleted),
         NEW after, after = PublishSymbols(New(changed), gone)
  PROVE  /\ PublishEdges(up, dropped, gone) \subseteq EdgeRow
         /\ \A e, o \in PublishEdges(up, dropped, gone) : Key(e) = Key(o) => e = o
         /\ \A e \in PublishEdges(up, dropped, gone) :
              e.src \in IdsOf(after) /\ (e.dst \notin IdsOf(after) => e.missing)
<1>1. \A e \in up : /\ e \in EdgeRow
                    /\ \E s \in New(changed) : s.id = e.src
                    /\ \E t \in syms \cup New(changed) : t.id = e.dst
  BY BatchEdge
<1>2. Kept(up, dropped) \subseteq EdgeRow
  BY <1>1 DEF Kept, Inv
<1>3. PublishEdges(up, dropped, gone)
        = {Flag(e, gone) : e \in {e \in Kept(up, dropped) : e.src \notin gone}}
  BY DEF PublishEdges, Kept, Flag
<1>4. \A e \in Kept(up, dropped) :
        /\ Flag(e, gone) \in EdgeRow
        /\ Flag(e, gone).src = e.src /\ Flag(e, gone).dst = e.dst
        /\ Key(Flag(e, gone)) = Key(e)
        /\ e.missing \/ e.dst \in gone => Flag(e, gone).missing
  <2> TAKE e \in Kept(up, dropped)
  <2>1. e \in EdgeRow
    BY <1>2
  <2> QED BY <2>1, FlagKeeps
<1>5. PublishEdges(up, dropped, gone) \subseteq EdgeRow
  BY <1>3, <1>4
<1>6. \A e, o \in Kept(up, dropped) : Key(e) = Key(o) => e = o
  <2>1. \A e, o \in up : Key(e) = Key(o) => e = o
    BY OnePerKey DEF EdgesOf, Batch
  <2>2. \A e, o \in edges : Key(e) = Key(o) => e = o
    BY DEF Inv, TablesAgree, TypeOK
  <2> QED BY <2>1, <2>2 DEF Kept
<1>7. ASSUME NEW a \in PublishEdges(up, dropped, gone), NEW b \in PublishEdges(up, dropped, gone),
             Key(a) = Key(b)
      PROVE  a = b
  <2>1. PICK e \in Kept(up, dropped) : a = Flag(e, gone)
    BY <1>3
  <2>2. PICK o \in Kept(up, dropped) : b = Flag(o, gone)
    BY <1>3
  <2>3. Key(e) = Key(o)
    BY <1>4, <1>7, <2>1, <2>2
  <2> QED BY <1>6, <2>1, <2>2, <2>3
<1>8. \A i : (\E s \in syms \cup New(changed) : s.id = i) => i \in IdsOf(after) \/ i \in gone
  BY IdsAfter
<1>9. ASSUME NEW e \in Kept(up, dropped), e.src \notin gone
      PROVE  /\ e.src \in IdsOf(after)
             /\ e.dst \notin IdsOf(after) => e.missing \/ e.dst \in gone
  <2>1. CASE e \in up
    BY <1>1, <1>8, <1>9, <2>1
  <2>2. CASE e \in edges
    <3>1. e.src \in IdsOf(syms) /\ (e.dst \notin IdsOf(syms) => e.missing)
      BY <2>2 DEF Inv, TablesAgree, EdgesAreAttached
    <3> QED BY <1>8, <1>9, <3>1 DEF IdsOf
  <2> QED BY <2>1, <2>2 DEF Kept
<1>10. ASSUME NEW a \in PublishEdges(up, dropped, gone)
       PROVE  a.src \in IdsOf(after) /\ (a.dst \notin IdsOf(after) => a.missing)
  <2>1. PICK e \in Kept(up, dropped) : a = Flag(e, gone) /\ e.src \notin gone
    BY <1>3
  <2> QED BY <1>4, <1>9, <2>1
<1> QED BY <1>5, <1>7, <1>10

\* A publication leaves the three tables in agreement.
LEMMA PublishKeeps ==
  ASSUME Inv, NEW changed \in Changes, NEW deleted \in SUBSET File,
         NEW up, up = Batch(changed, deleted),
         NEW dropped, dropped = Dropped(changed, deleted),
         NEW gone, gone = Gone(changed, deleted),
         cache' = PublishFiles(changed, deleted),
         syms' = PublishSymbols(New(changed), gone),
         edges' = PublishEdges(up, dropped, gone),
         UNCHANGED <<tree, touched, unseen>>, plan' = Idle, overtaken' \in BOOLEAN
  PROVE  Inv'
<1>1. /\ edges' \subseteq EdgeRow
      /\ \A e, o \in edges' : Key(e) = Key(o) => e = o
      /\ \A e \in edges' : e.src \in IdsOf(syms') /\ (e.dst \notin IdsOf(syms') => e.missing)
  <2>1. PICK after : after = PublishSymbols(New(changed), gone)
    OBVIOUS
  <2>2. /\ PublishEdges(up, dropped, gone) \subseteq EdgeRow
        /\ \A e, o \in PublishEdges(up, dropped, gone) : Key(e) = Key(o) => e = o
        /\ \A e \in PublishEdges(up, dropped, gone) :
             e.src \in IdsOf(after) /\ (e.dst \notin IdsOf(after) => e.missing)
    BY <2>1, EdgesAfter
  <2>3. syms' = after /\ edges' = PublishEdges(up, dropped, gone)
    BY <2>1
  <2> QED BY <2>2, <2>3
<1>2. \A s : s \in syms' <=> \/ s \in syms /\ s.file \notin DOMAIN changed \cup deleted
                             \/ s \in New(changed) /\ s.file \notin deleted
  BY SymbolsAfter
<1>3. \A r : r \in cache' <=> \/ r \in cache /\ r.file \notin DOMAIN changed \cup deleted
                              \/ \E f \in DOMAIN changed \ deleted : r = Row(f, changed[f])
  BY DEF PublishFiles
<1>4. \A f \in DOMAIN changed : f \in File /\ changed[f] \in Content
  BY DEF Changes
<1>5. /\ cache' \subseteq [file : File, content : Content]
      /\ \A r, o \in cache' : r.file = o.file => r = o
  BY <1>3, <1>4 DEF Row, Inv, TablesAgree, TypeOK
<1>6. \A s, o \in syms' : s.id = o.id => s = o
  <2> SUFFICES ASSUME NEW s \in syms', NEW o \in syms', s.id = o.id PROVE s = o
    OBVIOUS
  <2>1. s \in AllSymbols /\ o \in AllSymbols
    BY <1>2, NewSymbol, StoredSymbols
  <2>2. s.file = o.file
    BY <2>1, IdNamesFile
  <2>3. CASE s \in syms /\ o \in syms
    BY <2>3 DEF Inv, TablesAgree, TypeOK
  <2>4. CASE s \in New(changed) /\ o \in New(changed)
    <3>1. /\ s.file \in File /\ changed[s.file] \in Content
          /\ s \in Parse(s.file, changed[s.file]) /\ o \in Parse(s.file, changed[s.file])
      BY <2>2, <2>4, NewSymbol
    <3> QED BY <3>1, IdInFile
  <2> QED BY <1>2, <2>2, <2>3, <2>4, NewSymbol
<1>7. \A s : s \in syms' <=> \E r \in cache' : s \in Parse(r.file, r.content)
  <2>1. \A s : s \in syms <=> \E r \in cache : s \in Parse(r.file, r.content) /\ s.file = r.file
    BY ParsedSymbol DEF Inv, TablesAgree, TypeOK, SymbolsFollowCache
  <2>2. \A s : s \in New(changed) <=> \E f \in DOMAIN changed : s \in Parse(f, changed[f]) /\ s.file = f
    BY <1>4, ParsedSymbol DEF New
  <2>3. ASSUME NEW s \in syms' PROVE \E r \in cache' : s \in Parse(r.file, r.content)
    <3>1. CASE s \in syms /\ s.file \notin DOMAIN changed \cup deleted
      BY <1>3, <2>1, <3>1
    <3>2. CASE s \in New(changed) /\ s.file \notin deleted
      <4>1. PICK f \in DOMAIN changed : s \in Parse(f, changed[f]) /\ s.file = f
        BY <2>2, <3>2
      <4>2. Row(f, changed[f]) \in cache'
        BY <1>3, <3>2, <4>1
      <4> QED BY <4>1, <4>2 DEF Row
    <3> QED BY <1>2, <3>1, <3>2
  <2>4. ASSUME NEW s, NEW r \in cache', s \in Parse(r.file, r.content) PROVE s \in syms'
    <3>1. CASE r \in cache /\ r.file \notin DOMAIN changed \cup deleted
      <4>1. s.file = r.file
        BY <1>5, <2>4, ParsedSymbol
      <4> QED BY <1>2, <2>1, <2>4, <3>1, <4>1
    <3>2. CASE \E f \in DOMAIN changed \ deleted : r = Row(f, changed[f])
      <4>1. PICK f \in DOMAIN changed \ deleted : r = Row(f, changed[f])
        BY <3>2
      <4>2. s \in Parse(f, changed[f]) /\ s.file = f
        BY <1>4, <2>4, <4>1, ParsedSymbol DEF Row
      <4> QED BY <1>2, <2>2, <4>1, <4>2
    <3> QED BY <1>3, <3>1, <3>2
  <2> QED BY <2>3, <2>4
<1>8. SymbolsFollowCache'
  BY <1>7 DEF SymbolsFollowCache
<1>9. TypeOK'
  BY <1>1, <1>5, <1>6 DEF TypeOK, Inv, TablesAgree
<1>10. EdgesAreAttached'
  BY <1>1 DEF EdgesAreAttached
<1>11. PlanTyped'
  BY DEF PlanTyped
<1> QED BY <1>1, <1>8, <1>9, <1>10, <1>11 DEF Inv, TablesAgree

-----------------------------------------------------------------------------
(* What the cache says of the symbols                                          *)

LEMMA CachedSymbols ==
  ASSUME Inv, NEW f
  PROVE  /\ \A c : CachedAs(f, c) => f \in File /\ c \in Content /\ SymbolsIn(f) = Parse(f, c)
         /\ ~Cached(f) => SymbolsIn(f) = {}
         /\ Cached(f) => f \in File /\ \E c \in Content : CachedAs(f, c)
<1>1. \A r \in cache : r.file \in File /\ r.content \in Content
  BY DEF Inv, TablesAgree, TypeOK
<1>2. \A r, o \in cache : r.file = o.file => r = o
  BY DEF Inv, TablesAgree, TypeOK
<1>3. \A s : s \in syms <=> \E r \in cache : s \in Parse(r.file, r.content)
  BY DEF Inv, TablesAgree, SymbolsFollowCache
<1>4. \A r \in cache : \A s \in Parse(r.file, r.content) : s.file = r.file
  BY <1>1, ParsedSymbol
<1>5. ASSUME NEW c, CachedAs(f, c)
      PROVE  f \in File /\ c \in Content /\ SymbolsIn(f) = Parse(f, c)
  <2>1. PICK r \in cache : r = Row(f, c)
    BY <1>5 DEF CachedAs
  <2>2. r.file = f /\ r.content = c
    BY <2>1 DEF Row
  <2>3. \A s : s \in Parse(f, c) => s \in syms /\ s.file = f
    BY <1>3, <1>4, <2>1, <2>2
  <2>4. \A s : s \in syms /\ s.file = f => s \in Parse(f, c)
    BY <1>2, <1>3, <1>4, <2>1, <2>2
  <2> QED BY <1>1, <2>1, <2>2, <2>3, <2>4 DEF SymbolsIn
<1>6. ~Cached(f) => SymbolsIn(f) = {}
  BY <1>3, <1>4 DEF Cached, SymbolsIn
<1>7. ASSUME NEW r \in cache, r.file = f
      PROVE  f \in File /\ \E c \in Content : CachedAs(f, c)
  <2>1. r = Row(r.file, r.content)
    BY DEF Row, Inv, TablesAgree, TypeOK
  <2> QED BY <1>1, <1>7, <2>1 DEF CachedAs
<1> QED BY <1>5, <1>6, <1>7 DEF Cached

\* The index has finitely many symbols.
LEMMA FiniteSymbols ==
  ASSUME Inv
  PROVE  IsFiniteSet(syms)
<1>1. ASSUME NEW f \in File, NEW c \in Content PROVE IsFiniteSet(Parse(f, c))
  <2> DEFINE g == [s \in Parsed[c].text |->
                     [id |-> <<f, s.name, s.body>>, file |-> f, lang |-> Lang[f], name |-> s.name,
                      kind |-> s.kind, calls |-> s.calls, quoted |-> s.quoted, words |-> s.words,
                      verbs |-> s.verbs, bases |-> s.bases]]
  <2>1. IsFiniteSet(Parsed[c].text)
    BY PlannerAssumption
  <2>2. Parse(f, c) = {g[s] : s \in Parsed[c].text}
    BY DEF Parse, SymbolsOf
  <2>3. DOMAIN g = Parsed[c].text /\ g = [s \in Parsed[c].text |-> g[s]]
    OBVIOUS
  <2> HIDE DEF g
  <2>4. g \in Surjection(Parsed[c].text, {g[s] : s \in Parsed[c].text})
    BY <2>3 DEF Surjection
  <2> QED BY <2>1, <2>2, <2>4, FS_Surjection
<1>2. ASSUME NEW f \in File PROVE IsFiniteSet(SymbolsIn(f))
  <2>1. CASE Cached(f)
    BY <1>1, <2>1, CachedSymbols
  <2>2. CASE ~Cached(f)
    BY <2>2, CachedSymbols, FS_EmptySet
  <2> QED BY <2>1, <2>2
<1>3. PICK h : h = [f \in File |-> SymbolsIn(f)]
  OBVIOUS
<1>4. h \in Surjection(File, {h[f] : f \in File})
  BY <1>3 DEF Surjection
<1>5. IsFiniteSet({h[f] : f \in File})
  BY <1>4, FS_Surjection, PlannerAssumption
<1>6. \A T \in {h[f] : f \in File} : IsFiniteSet(T)
  BY <1>2, <1>3
<1>7. IsFiniteSet(UNION {h[f] : f \in File})
  BY <1>5, <1>6, FS_UNION
<1>8. \A s \in syms : s.file \in File
  BY StoredSymbols, ParsedSymbol DEF AllSymbols
<1>9. syms \subseteq UNION {h[f] : f \in File}
  BY <1>3, <1>8 DEF SymbolsIn
<1> QED BY <1>7, <1>9, FS_Subset

-----------------------------------------------------------------------------
(* A publication that leaves the graph of the symbols it leaves                *)

LEMMA TheLeft ==
  ASSUME Inv, NEW changed \in Changes, NEW deleted \in SUBSET File,
         DOMAIN changed \cap deleted = {},
         NEW new, new = New(changed),
         NEW T, T = PublishSymbols(new, Gone(changed, deleted)),
         NEW R, R = ResolverSymbols(new, DOMAIN changed \cup deleted)
  PROVE  /\ T \subseteq AllSymbols /\ R \subseteq T /\ new \subseteq R
         /\ \A s : s \in T <=> s \in new \/ (s \in syms /\ s.file \notin DOMAIN changed \cup deleted)
         /\ \A s \in T : s \in new <=> s.file \in DOMAIN changed
         /\ Identified(T)
<1>1. \A s \in new : /\ s.file \in DOMAIN changed /\ s.file \in File /\ changed[s.file] \in Content
                     /\ s \in Parse(s.file, changed[s.file]) /\ s \in AllSymbols
  BY NewSymbol
<1>2. \A s : s \in T <=> s \in new \/ (s \in syms /\ s.file \notin DOMAIN changed \cup deleted)
  BY <1>1, SymbolsAfter
<1>3. T \subseteq AllSymbols
  BY <1>1, <1>2, StoredSymbols
<1>4. R \subseteq T /\ new \subseteq R
  BY <1>2 DEF ResolverSymbols, Named, Fts
<1>5. ASSUME NEW s \in T, NEW o \in T, s.id = o.id PROVE s = o
  <2>1. s.file = o.file
    BY <1>3, <1>5, IdNamesFile
  <2>2. CASE s \in new
    <3>1. o \in new
      BY <1>1, <1>2, <2>1, <2>2
    <3> QED BY <1>1, <1>5, <2>1, <2>2, <3>1, IdInFile
  <2>3. CASE s \notin new
    <3>1. s \in syms /\ o \in syms
      BY <1>1, <1>2, <2>1, <2>3
    <3> QED BY <1>5, <3>1 DEF Inv, TablesAgree, TypeOK
  <2> QED BY <2>2, <2>3
<1> QED BY <1>1, <1>2, <1>3, <1>4, <1>5 DEF Identified

LEMMA FlagNothing ==
  ASSUME NEW S, NEW e \in Resolve(S), NEW gone, e.dst \notin gone
  PROVE  Flag(e, gone) = e
<1>1. PICK s \in S, t \in S, k \in Kinds, n \in Int : e = Edge(s, t, k, n)
  BY EdgeShape
<1>2. (e.missing \/ e.dst \in gone) = FALSE
  BY <1>1 DEF Edge
<1>3. Flag(e, gone) = [e EXCEPT !.missing = FALSE]
  BY <1>2 DEF Flag
<1> QED BY <1>1, <1>3 DEF Edge

LEMMA Republished ==
  ASSUME Inv, NEW changed \in Changes, NEW deleted \in SUBSET File,
         DOMAIN changed \cap deleted = {},
         NEW new, new = New(changed),
         NEW gone, gone = Gone(changed, deleted),
         NEW T, T = PublishSymbols(new, gone),
         NEW R, R = ResolverSymbols(new, DOMAIN changed \cup deleted),
         \A s \in syms : s.file \notin DOMAIN changed \cup deleted =>
            /\ Out(edges, s) = Out(Resolve(T), s)
            /\ \A e \in Out(edges, s) : e.dst \notin gone,
         \A s \in new : Out(Resolve(R), s) = Out(Resolve(T), s)
  PROVE  PublishEdges(Batch(changed, deleted), Dropped(changed, deleted), gone) = Resolve(T)
<1> DEFINE F == DOMAIN changed \cup deleted
           up == Batch(changed, deleted)
           dropped == Dropped(changed, deleted)
<1>1. /\ T \subseteq AllSymbols /\ R \subseteq T /\ new \subseteq R /\ Identified(T)
      /\ \A s : s \in T <=> s \in new \/ (s \in syms /\ s.file \notin F)
      /\ \A s \in T : s \in new <=> s.file \in DOMAIN changed
  BY TheLeft
<1>2. \A s, o \in AllSymbols : s.id = o.id => s.file = o.file
  BY IdNamesFile
<1>3. \A s \in T : s.id \notin gone
  BY DEF PublishSymbols
\* what the batch brings
<1>4. ASSUME NEW e PROVE e \in up <=> \E s \in new : e \in Out(Resolve(T), s)
  <2>1. e \in up <=> e \in Resolve(R) /\ \E s \in R : s.id = e.src /\ s.file \in DOMAIN changed
    BY DEF Batch, EdgesOf
  <2>2. (\E s \in R : s.id = e.src /\ s.file \in DOMAIN changed) <=> \E s \in new : s.id = e.src
    BY <1>1
  <2>3. \A s \in new : e \in Out(Resolve(R), s) <=> e \in Out(Resolve(T), s)
    OBVIOUS
  <2> QED BY <2>1, <2>2, <2>3 DEF Out
\* what it leaves
<1>5. ASSUME NEW e
      PROVE  e \in edges \ dropped <=> \E s \in syms : s.file \notin F /\ e \in Out(Resolve(T), s)
  <2>1. e \in edges => \E s \in syms : s.id = e.src
    BY DEF Inv, TablesAgree, EdgesAreAttached, IdsOf
  <2>2. \A s, o \in syms : s.id = o.id => s = o
    BY DEF Inv, TablesAgree, TypeOK
  <2>3. e \in dropped <=> e \in edges /\ \E s \in syms : s.file \in F /\ s.id = e.src
    BY OldSymbol DEF Dropped, IdsOf
  <2>4. e \in edges \ dropped <=> \E s \in syms : s.file \notin F /\ e \in edges /\ s.id = e.src
    BY <2>1, <2>2, <2>3
  <2>5. \A s \in syms : s.file \notin F => (e \in Out(edges, s) <=> e \in Out(Resolve(T), s))
    OBVIOUS
  <2> HIDE DEF F, dropped
  <2> QED BY <2>4, <2>5 DEF Out
<1>6. ASSUME NEW e PROVE e \in Resolve(T) <=> \E s \in T : e \in Out(Resolve(T), s)
  <2>1. e \in Resolve(T) => \E s \in T : s.id = e.src
    BY EdgeShape DEF Edge
  <2> QED BY <2>1 DEF Out
<1>7. up \cup (edges \ dropped) = Resolve(T)
  <2> HIDE DEF F, dropped, up
  <2> QED BY <1>1, <1>4, <1>5, <1>6
<1>8. ASSUME NEW e \in edges \ dropped PROVE Key(e) \notin {Key(u) : u \in up}
  <2>1. PICK s \in syms : s.file \notin F /\ e.src = s.id
    BY <1>5 DEF Out
  <2>2. s \in AllSymbols
    BY StoredSymbols
  <2>3. ASSUME NEW u \in up PROVE u.src # s.id
    <3>1. PICK o \in new : u.src = o.id
      BY <1>4 DEF Out
    <3>2. o \in AllSymbols /\ o.file \in DOMAIN changed
      BY <1>1
    <3> QED BY <1>2, <2>1, <2>2, <3>1, <3>2
  <2> HIDE DEF up
  <2> QED BY <2>1, <2>3 DEF Key
<1>9. Kept(up, dropped) = Resolve(T)
  <2> HIDE DEF up, dropped
  <2> QED BY <1>7, <1>8 DEF Kept
<1>10. ASSUME NEW e \in Resolve(T) PROVE e.src \notin gone /\ Flag(e, gone) = e
  <2>1. PICK s \in T, t \in T : e.src = s.id /\ e.dst = t.id
    BY EdgeShape DEF Edge
  <2> QED BY <1>3, <2>1, FlagNothing
<1>11. PublishEdges(up, dropped, gone)
        = {Flag(e, gone) : e \in {e \in Kept(up, dropped) : e.src \notin gone}}
  BY DEF PublishEdges, Kept, Flag
<1> HIDE DEF up, dropped
<1>12. PublishEdges(up, dropped, gone) = Resolve(T)
  BY <1>9, <1>10, <1>11
<1> QED BY <1>12 DEF up, dropped

-----------------------------------------------------------------------------
(* The graph after a plan                                                      *)

\* What is parsed finds what it refers to.
LEMMA BatchFinds ==
  ASSUME Inv, NEW changed \in Changes, NEW deleted \in SUBSET File,
         DOMAIN changed \cap deleted = {},
         NEW new, new = New(changed),
         NEW T, T = PublishSymbols(new, Gone(changed, deleted)),
         NEW R, R = ResolverSymbols(new, DOMAIN changed \cup deleted),
         NEW s \in new
  PROVE  Finds(T, R, s)
<1> DEFINE F == DOMAIN changed \cup deleted
           Oop(o) == o.kind \in TypeKind /\ o.lang \in {"java", "csharp"}
           Names(o) == {o.name} \cup o.calls \cup o.quoted
                         \cup (IF o.verbs # {} THEN {Norm(n) : n \in o.words} ELSE {})
                         \cup (IF Oop(o) THEN o.words ELSE {})
           Looked == Named(UNION {Names(o) : o \in new})
                       \cup UNION {Fts(v) : v \in UNION {o.quoted : o \in new}}
<1>1. R = {t \in Looked : t.file \notin F /\ t.id \notin IdsOf(new)} \cup new
  BY DEF ResolverSymbols
<1>2. \A t \in T : t \in new \/ (t \in syms /\ t.file \notin F)
  BY TheLeft
<1>3. Asked(s) \subseteq UNION {Names(o) : o \in new}
  <2>1. Asked(s) = Names(s)
    BY DEF Asked, Typed
  <2> QED BY <2>1
<1>4. ASSUME NEW t \in syms, t.file \notin F PROVE t.id \notin IdsOf(new)
  <2>1. t \in AllSymbols
    BY StoredSymbols
  <2>2. \A o \in new : o \in AllSymbols /\ o.file \in DOMAIN changed
    BY NewSymbol
  <2> QED BY <1>4, <2>1, <2>2, IdNamesFile DEF IdsOf
<1>5. \A t \in syms : t.name \in Asked(s) => t \in Looked
  BY <1>3 DEF Named
<1>6. ASSUME NEW t \in syms, NEW v \in s.quoted, \E n \in Mentions(t) \cup {t.name} : Within(v, n)
      PROVE  t \in Looked
  <2>1. t \in Fts(v)
    BY <1>6 DEF Fts
  <2> QED BY <2>1
<1> HIDE DEF Looked, F
<1> QED BY <1>1, <1>2, <1>4, <1>5, <1>6 DEF Finds

PlanCovers ==
  plan # Idle => /\ DOMAIN plan.changed \cap plan.deleted = {}
                 /\ plan.full => \A r \in cache : r.file \in DOMAIN plan.changed \cup plan.deleted

\* A full plan resolves all symbols there are.
LEMMA FullGraph ==
  ASSUME Inv, PlanCovers, PlanAndPublish, plan.full, ~overtaken'
  PROVE  edges' = Resolve(syms')
<1> DEFINE dep == Dependents \cap Present(tree)
<1>1. PICK changed, deleted :
        /\ changed = [f \in DOMAIN plan.changed \cup dep |->
                        IF f \in dep THEN tree[f] ELSE plan.changed[f]]
        /\ deleted = plan.deleted
  OBVIOUS
<1>2. /\ DOMAIN plan.changed \cap deleted = {} /\ dep \cap deleted = {}
      /\ \A r \in cache : r.file \in DOMAIN plan.changed \cup deleted
  BY <1>1 DEF PlanAndPublish, PlanCovers
<1>3. \A s \in syms : s.file \in DOMAIN plan.changed \cup deleted
  BY <1>2, ParsedSymbol DEF Inv, TablesAgree, TypeOK, SymbolsFollowCache
<1>4. Dependents \subseteq deleted
  BY <1>3 DEF Dependents, AffectedFiles, ReferenceFiles, Named, Fts
<1>5. dep = {}
  BY <1>2, <1>4
<1>6. DOMAIN changed = DOMAIN plan.changed /\ changed \in Changes /\ deleted \in SUBSET File
  <2>1. changed \in [DOMAIN plan.changed -> Content]
    BY <1>1, <1>5 DEF PlanAndPublish, Inv, PlanTyped
  <2> QED BY <1>1, <2>1 DEF PlanAndPublish, Inv, PlanTyped, Changes
<1>7. PICK new, gone, T, R :
        /\ new = New(changed) /\ gone = Gone(changed, deleted)
        /\ T = PublishSymbols(new, gone)
        /\ R = ResolverSymbols(new, DOMAIN changed \cup deleted)
  OBVIOUS
<1>8. /\ syms' = T
      /\ edges' = PublishEdges(Batch(changed, deleted), Dropped(changed, deleted), gone)
  BY <1>1, <1>7 DEF PlanAndPublish, New, Gone, Old, Batch, Dropped
<1>9. T = R
  BY <1>2, <1>3, <1>6, <1>7, TheLeft
<1>10. \A s \in syms : ~(s.file \notin DOMAIN changed \cup deleted)
  BY <1>3, <1>6
<1>11. \A s \in new : Out(Resolve(R), s) = Out(Resolve(T), s)
  BY <1>9
<1>12. DOMAIN changed \cap deleted = {}
  BY <1>2, <1>6
<1>13. PublishEdges(Batch(changed, deleted), Dropped(changed, deleted), gone) = Resolve(T)
  BY <1>6, <1>7, <1>10, <1>11, <1>12, Republished
<1> QED BY <1>8, <1>13

\* The planner finds everyone whom a change concerns.
LEMMA OthersAreBystanders ==
  ASSUME Inv, plan # Idle, edges = Resolve(syms), ~Crowded, NEW s \in syms,
         s.file \notin DOMAIN plan.changed \cup plan.deleted \cup Dependents
  PROVE  Bystander(syms, NewSymbols, DOMAIN plan.changed, plan.deleted, s)
<1>1. s \in AllSymbols
  BY StoredSymbols
<1>2. s.file \notin AffectedFiles(Trigger) /\ s.file \notin ReferenceFiles(OldSymbols \cup NewSymbols)
  BY DEF Dependents
<1>3. ASSUME NEW t \in NewSymbols \cup {t \in syms : t.file \in DOMAIN plan.changed},
             NEW v \in DestinationValues(t), v \in Mentions(s) \cup {s.name}
      PROVE  FALSE
  <2> DEFINE X == OldSymbols \cup NewSymbols
             V == UNION {DestinationValues(o) : o \in X}
             Y == Named(V) \cup UNION {Fts(w) : w \in V}
  <2>1. t \in X
    BY DEF OldSymbols, SymbolsIn
  <2>2. v \in V
    BY <2>1
  <2>3. CASE v = s.name
    <3>1. s \in Named(V)
      BY <2>2, <2>3 DEF Named
    <3>2. ReferencesAny(s, V)
      BY <2>2, <2>3 DEF ReferencesAny
    <3>3. s.file \in ReferenceFiles(X)
      BY <3>1, <3>2 DEF ReferenceFiles
    <3> QED BY <1>2, <3>3
  <2>4. CASE v \in Mentions(s)
    <3>1. Within(v, v)
      BY <1>1, <2>4, SymbolText
    <3>2. s \in Fts(v)
      BY <2>4, <3>1 DEF Fts
    <3>3. s \in Y
      BY <2>2, <3>2
    <3>4. ReferencesAny(s, V)
      BY <2>2, <2>4, <3>1 DEF ReferencesAny
    <3>5. s.file \in ReferenceFiles(X)
      BY <3>3, <3>4 DEF ReferenceFiles
    <3> QED BY <1>2, <3>5
  <2> QED BY <1>3, <2>3, <2>4
<1>4. ASSUME NEW e \in Out(Resolve(syms), s), NEW t \in syms,
             t.file \in DOMAIN plan.changed \cup plan.deleted, e.dst = t.id
      PROVE  FALSE
  <2>1. t \in OldSymbols \cup GoneSymbols
    BY <1>4 DEF OldSymbols, GoneSymbols, SymbolsIn
  <2>2. e.dst \in Trigger
    BY <1>4, <2>1 DEF Trigger, IdsOf
  <2>3. s.file \in AffectedFiles(Trigger)
    BY <2>2 DEF AffectedFiles, Out
  <2> QED BY <1>2, <2>3
<1>5. ASSUME NEW t \in syms, t.file \in plan.deleted, NEW v \in {t.name} \cup t.quoted
      PROVE  Cardinality(Crowd(syms, v)) <= FanoutCap
  <2>1. t \in GoneSymbols
    BY <1>5 DEF GoneSymbols, SymbolsIn
  <2>2. ~(Cardinality({u \in syms : v \in {u.name} \cup u.quoted}) > FanoutCap)
    BY <2>1 DEF Crowded
  <2>3. PICK S, U : S = syms /\ U = Crowd(syms, v)
    OBVIOUS
  <2>4. U \subseteq S /\ IsFiniteSet(S)
    BY <2>3, FiniteSymbols DEF Crowd
  <2>5. IsFiniteSet(U)
    BY <2>4, FS_Subset
  <2>6. Cardinality(U) \in Nat /\ FanoutCap \in Nat
    BY <2>5, FS_CardinalityType, PlannerAssumption
  <2>7. ~(Cardinality(U) > FanoutCap)
    BY <2>2, <2>3 DEF Crowd
  <2> QED BY <2>3, <2>6, <2>7
<1>6. \A t \in NewSymbols \cup {t \in syms : t.file \in DOMAIN plan.changed} :
        DestinationValues(t) \cap (Mentions(s) \cup {s.name}) = {}
  BY <1>3
<1>7. \A e \in Out(Resolve(syms), s) : \A t \in syms :
        t.file \in DOMAIN plan.changed \cup plan.deleted => e.dst # t.id
  BY <1>4
<1> QED BY <1>5, <1>6, <1>7 DEF Bystander

\* An incremental plan leaves the graph that all symbols would be resolved to, if there
\* was such a graph before and nothing overtakes the planner.
LEMMA IncrementalGraph ==
  ASSUME Findable, Inv, PlanCovers, PlanAndPublish, ~plan.full, edges = Resolve(syms), ~overtaken'
  PROVE  edges' = Resolve(syms')
<1> DEFINE dep == Dependents \cap Present(tree)
           C == DOMAIN plan.changed
<1>1. PICK changed, deleted :
        /\ changed = [f \in C \cup dep |-> IF f \in dep THEN tree[f] ELSE plan.changed[f]]
        /\ deleted = plan.deleted
  OBVIOUS
<1>2. /\ plan # Idle /\ dep \cap deleted = {} /\ ~Crowded
      /\ \A f \in dep : CachedAs(f, tree[f])
      /\ \A f \in Dependents \ deleted : tree[f] # Absent
  BY <1>1 DEF PlanAndPublish
<1>3. C \cap deleted = {} /\ C \cap dep = {}
  BY <1>1, <1>2 DEF PlanCovers, Dependents
<1>4. Dependents \subseteq dep \cup deleted
  <2>1. \A s \in syms : s.file \in File
    BY StoredSymbols, ParsedSymbol DEF AllSymbols
  <2>2. Dependents \subseteq File
    BY <2>1 DEF Dependents, AffectedFiles, ReferenceFiles, Named, Fts
  <2> QED BY <1>2, <2>2 DEF Present
<1>5. /\ DOMAIN changed = C \cup dep /\ DOMAIN changed \cap deleted = {}
      /\ changed \in Changes /\ deleted \in SUBSET File
  <2>1. C \subseteq File /\ (\A f \in C : plan.changed[f] \in Content) /\ deleted \subseteq File
    BY <1>1, <1>2 DEF Inv, PlanTyped
  <2>2. \A f \in dep : f \in File /\ tree[f] \in Content
    BY <1>2, CachedSymbols
  <2>3. changed \in [C \cup dep -> Content]
    BY <1>1, <2>1, <2>2
  <2> QED BY <1>1, <1>2, <1>3, <2>1, <2>2, <2>3 DEF Changes
<1>6. PICK S, N, new, gone, T, R :
        /\ S = syms /\ N = NewSymbols
        /\ new = New(changed) /\ gone = Gone(changed, deleted)
        /\ T = PublishSymbols(new, gone)
        /\ R = ResolverSymbols(new, DOMAIN changed \cup deleted)
  OBVIOUS
<1>7. /\ syms' = T
      /\ edges' = PublishEdges(Batch(changed, deleted), Dropped(changed, deleted), gone)
  BY <1>1, <1>6 DEF PlanAndPublish, New, Gone, Old, Batch, Dropped
<1>8. /\ T \in SUBSET AllSymbols /\ R \in SUBSET T /\ new \subseteq R /\ Identified(T)
      /\ \A s : s \in T <=> s \in new \/ (s \in S /\ s.file \notin DOMAIN changed \cup deleted)
  BY <1>5, <1>6, TheLeft
<1>9. S \in SUBSET AllSymbols /\ IsFiniteSet(S) /\ Identified(S)
  BY <1>6, StoredSymbols, FiniteSymbols DEF Inv, TablesAgree, TypeOK, Identified
\* what is parsed anew, and the dependents as they are
<1>10. \A s : s \in new <=> s \in N \/ (s \in S /\ s.file \in dep)
  <2>1. \A s : s \in new <=> (\E f \in C : s \in Parse(f, plan.changed[f]))
                             \/ (\E f \in dep : s \in Parse(f, tree[f]))
    BY <1>1, <1>3, <1>5, <1>6 DEF New
  <2>2. \A s : s \in N <=> \E f \in C : s \in Parse(f, plan.changed[f])
    BY <1>6 DEF NewSymbols
  <2>3. \A f \in dep : Parse(f, tree[f]) = SymbolsIn(f)
    BY <1>2, CachedSymbols
  <2>4. \A s : (\E f \in dep : s \in Parse(f, tree[f])) <=> s \in S /\ s.file \in dep
    BY <1>6, <2>3 DEF SymbolsIn
  <2> HIDE DEF dep, C
  <2> QED BY <2>1, <2>2, <2>4
<1>11. N \in SUBSET AllSymbols /\ \A s \in N : s.file \in C
  <2>1. \A f \in C : f \in File /\ plan.changed[f] \in Content
    BY <1>2 DEF Inv, PlanTyped
  <2> QED BY <1>6, <2>1, ParsedSymbol DEF NewSymbols
<1>12. T = After(S, N, C, deleted)
  BY <1>2, <1>3, <1>5, <1>8, <1>10 DEF After
\* who is not parsed
<1>13. ASSUME NEW s \in syms, s.file \notin DOMAIN changed \cup deleted
       PROVE  /\ Out(edges, s) = Out(Resolve(T), s)
              /\ \A e \in Out(edges, s) : e.dst \notin gone
  <2>1. Bystander(S, N, C, deleted, s)
    BY <1>1, <1>2, <1>4, <1>5, <1>6, <1>13, OthersAreBystanders
  <2>2. PICK c : c = C
    OBVIOUS
  <2>3. Alike(S, T, s)
    BY <1>9, <1>11, <1>12, <2>1, <2>2, BystanderAlike
  <2>4. s \in S /\ s \in T
    BY <1>6, <1>8, <1>13
  <2>5. Out(Resolve(S), s) = Out(Resolve(T), s)
    BY <1>8, <1>9, <2>3, <2>4, AlikeResolve
  <2>6. ASSUME NEW i \in gone PROVE \E t \in S : t.file \in C \cup deleted /\ t.id = i
    <3>1. PICK t : /\ t.id = i
                   /\ \/ t \in Old(DOMAIN changed \cup deleted) /\ i \notin IdsOf(new)
                      \/ t \in Old(DOMAIN changed \cup deleted) \cup new /\ t.file \in deleted
      BY <1>6, <2>6 DEF Gone, IdsOf
    <3>2. t \in Old(DOMAIN changed \cup deleted) <=> t \in S /\ t.file \in DOMAIN changed \cup deleted
      BY <1>6, OldSymbol
    <3>3. t \in new => t.file \in DOMAIN changed /\ t.id \in IdsOf(new)
      BY <1>5, <1>6, NewSymbol DEF IdsOf
    <3> QED BY <1>5, <1>10, <3>1, <3>2, <3>3
  <2>7. \A e \in Out(Resolve(S), s) : \A t \in S : t.file \in C \cup deleted => e.dst # t.id
    BY <2>1 DEF Bystander
  <2> QED BY <1>6, <2>5, <2>6, <2>7
<1>14. ASSUME NEW s \in new PROVE Out(Resolve(R), s) = Out(Resolve(T), s)
  <2>1. Finds(T, R, s)
    BY <1>5, <1>6, BatchFinds
  <2>2. s \in R /\ s \in T
    BY <1>8
  <2>3. Alike(R, T, s)
    BY <1>8, <2>1, <2>2, FinderAlike
  <2>4. Identified(R)
    BY <1>8 DEF Identified
  <2> QED BY <1>8, <2>2, <2>3, <2>4, AlikeResolve
<1>15. PublishEdges(Batch(changed, deleted), Dropped(changed, deleted), gone) = Resolve(T)
  BY <1>5, <1>6, <1>13, <1>14, Republished
<1> QED BY <1>7, <1>15

-----------------------------------------------------------------------------
(* The steps *)

\* What PlanAndPublish writes is one such publication, of the files that were read
\* first and of those found at the second reading.
LEMMA PlanIsOnePublication ==
  ASSUME Inv, PlanAndPublish
  PROVE  \E changed \in Changes, deleted \in SUBSET File :
           /\ cache' = PublishFiles(changed, deleted)
           /\ syms' = PublishSymbols(New(changed), Gone(changed, deleted))
           /\ edges' = PublishEdges(Batch(changed, deleted), Dropped(changed, deleted),
                                    Gone(changed, deleted))
           /\ overtaken' \in BOOLEAN
<1> DEFINE dep == Dependents \cap Present(tree)
           changed == [f \in DOMAIN plan.changed \cup dep |->
                         IF f \in dep THEN tree[f] ELSE plan.changed[f]]
<1>1. /\ DOMAIN plan.changed \subseteq File
      /\ \A f \in DOMAIN plan.changed : plan.changed[f] \in Content
      /\ plan.deleted \subseteq File
  BY DEF PlanAndPublish, Inv, PlanTyped
<1>2. tree \in [File -> Content \cup {Absent}]
  BY PlannerAssumption DEF Inv, TablesAgree, TypeOK
<1>3. \A f \in dep : f \in File /\ tree[f] \in Content
  BY <1>2 DEF Present
<1>4. changed \in Changes
  <2>1. changed \in [DOMAIN plan.changed \cup dep -> Content]
    BY <1>1, <1>3
  <2> QED BY <1>1, <1>3, <2>1 DEF Changes
<1>5. DOMAIN changed = DOMAIN plan.changed \cup dep
  OBVIOUS
<1>6. /\ cache' = PublishFiles(changed, plan.deleted)
      /\ syms' = PublishSymbols(New(changed), Gone(changed, plan.deleted))
      /\ edges' = PublishEdges(Batch(changed, plan.deleted), Dropped(changed, plan.deleted),
                               Gone(changed, plan.deleted))
  BY DEF PlanAndPublish, New, Gone, Old, Batch, Dropped
<1>7. overtaken' \in BOOLEAN
  BY DEF PlanAndPublish, Inv, TablesAgree, TypeOK
<1> QED BY <1>1, <1>4, <1>6, <1>7

LEMMA InvInit == Init => Inv
<1> SUFFICES ASSUME Init PROVE Inv
  OBVIOUS
<1>1. Present(tree) \subseteq File
  BY DEF Present
<1>2. TypeOK
  BY <1>1 DEF Init, TypeOK
<1> QED BY <1>2 DEF Init, Inv, TablesAgree, EdgesAreAttached, SymbolsFollowCache, PlanTyped

\* A step that leaves the index alone keeps what was said of it.
LEMMA IndexStays ==
  ASSUME Inv, UNCHANGED index, PlanTyped', tree' \in Trees, touched' \subseteq File,
         plan' = Idle \/ (plan'.full \in BOOLEAN /\ plan'.deleted \subseteq File),
         unseen' \subseteq File, overtaken' \in BOOLEAN
  PROVE  Inv'
<1>1. cache' = cache /\ syms' = syms /\ edges' = edges
  BY DEF index
<1>2. TypeOK'
  BY <1>1 DEF Inv, TablesAgree, TypeOK
<1>3. EdgesAreAttached' /\ SymbolsFollowCache'
  BY <1>1 DEF Inv, TablesAgree, EdgesAreAttached, SymbolsFollowCache, IdsOf
<1> QED BY <1>1, <1>2, <1>3 DEF Inv, TablesAgree

LEMMA InvStep ==
  ASSUME Inv, [Next]_vars
  PROVE  Inv'
<1> USE DEF Inv
<1>1. /\ tree \in Trees /\ touched \subseteq File /\ unseen \subseteq File
      /\ plan = Idle \/ (plan.full \in BOOLEAN /\ plan.deleted \subseteq File)
      /\ overtaken \in BOOLEAN
  BY DEF TablesAgree, TypeOK
<1>2. \A t : Altered(t) \subseteq File
  BY DEF Altered
<1>3. tree \in [File -> Content \cup {Absent}]
  BY <1>1, PlannerAssumption
<1>4. ASSUME NEW t \in Trees, NEW reported \in BOOLEAN, Change(t, reported) PROVE Inv'
  BY <1>1, <1>2, <1>4, IndexStays DEF Change, index, PlanTyped
<1>5. ASSUME NEW t \in Trees, Rename(t) PROVE Inv'
  BY <1>1, <1>2, <1>5, IndexStays DEF Rename, index, PlanTyped
<1>6. ASSUME NEW full \in BOOLEAN, NEW paths \in SUBSET File, Read(full, paths),
             touched' \subseteq File
      PROVE  Inv'
  <2> DEFINE here == paths \cap Present(tree)
             changed == {f \in here : full \/ ~Unchanged(f)}
  <2>1. plan' = [full |-> full, changed |-> [f \in changed |-> tree[f]],
                 deleted |-> {f \in paths \ here : Cached(f)}]
    BY <1>6 DEF Read
  <2>2. \A f \in changed : f \in File /\ tree[f] \in Content
    BY <1>3 DEF Present
  <2> HIDE DEF changed, here
  <2>3. plan'.full \in BOOLEAN /\ plan'.deleted \subseteq File
    BY <2>1
  <2>4. PlanTyped'
    BY <2>1, <2>2, <2>3 DEF PlanTyped
  <2>5. UNCHANGED <<tree, index, overtaken>> /\ unseen' \subseteq File
    BY <1>1, <1>6 DEF Read
  <2> QED BY <1>1, <1>6, <2>3, <2>4, <2>5, IndexStays
<1>7. CASE ReadTouched
  <2>1. Read(FALSE, touched) /\ touched' \subseteq File
    BY <1>7 DEF ReadTouched
  <2> QED BY <1>1, <1>6, <2>1
<1>8. ASSUME NEW full \in BOOLEAN, ReadAll(full) PROVE Inv'
  <2>1. Read(full, File) /\ touched' \subseteq File
    BY <1>1, <1>8 DEF ReadAll
  <2> QED BY <1>6, <2>1
<1>9. CASE PlanAndPublish
  <2>1. PICK changed \in Changes, deleted \in SUBSET File :
          /\ cache' = PublishFiles(changed, deleted)
          /\ syms' = PublishSymbols(New(changed), Gone(changed, deleted))
          /\ edges' = PublishEdges(Batch(changed, deleted), Dropped(changed, deleted),
                                   Gone(changed, deleted))
          /\ overtaken' \in BOOLEAN
    BY <1>9, PlanIsOnePublication
  <2>2. PICK up, dropped, gone : /\ up = Batch(changed, deleted)
                                 /\ dropped = Dropped(changed, deleted)
                                 /\ gone = Gone(changed, deleted)
    OBVIOUS
  <2>3. UNCHANGED <<tree, touched, unseen>> /\ plan' = Idle
    BY <1>9 DEF PlanAndPublish
  <2> QED BY <2>1, <2>2, <2>3, PublishKeeps
<1>10. CASE PlanFails
  <2>1. DOMAIN plan.changed \subseteq File /\ plan.deleted \subseteq File
    BY <1>10 DEF PlanFails, PlanTyped
  <2>2. /\ UNCHANGED <<tree, touched, index, overtaken>> /\ plan' = Idle
        /\ unseen' \subseteq File
    BY <1>1, <1>10, <2>1 DEF PlanFails
  <2>3. PlanTyped'
    BY <2>2 DEF PlanTyped
  <2> QED BY <1>1, <2>2, <2>3, IndexStays
<1>11. CASE UNCHANGED vars
  <2>1. UNCHANGED <<tree, touched, plan, unseen, overtaken>> /\ UNCHANGED index
    BY <1>11 DEF vars, index
  <2>2. PlanTyped'
    BY <2>1 DEF PlanTyped
  <2> QED BY <1>1, <2>1, <2>2, IndexStays
<1> QED BY <1>4, <1>5, <1>7, <1>8, <1>9, <1>10, <1>11 DEF Next

\* A symbol is in the index exactly when its file is cached with it, an edge starts at
\* a symbol of the index and says when it leads nowhere, and no key is used twice:
\* for every history of edits, reports and plans, whatever changes between the two
\* readings of a plan (build_batch of planner.rs, publish_batch of publish.rs).
THEOREM TablesAlwaysAgree == Spec => []TablesAgree
<1>1. Inv => TablesAgree
  BY DEF Inv
<1> QED BY <1>1, InvInit, InvStep, PTL DEF Spec

-----------------------------------------------------------------------------
(* The invariant behind EqualsRebuild: of a file nobody has to hear about again the   *)
(* cache, or what was read of it, is as in the tree, and the graph is the one the    *)
(* symbols are resolved to                                                      *)

CachedAsIs(f) == IF tree[f] = Absent THEN ~Cached(f) ELSE CachedAs(f, tree[f])

Fresh ==
  \A f \in File \ (touched \cup unseen) :
    IF plan # Idle /\ f \in DOMAIN plan.changed THEN plan.changed[f] = tree[f]
    ELSE IF plan # Idle /\ f \in plan.deleted THEN tree[f] = Absent
    ELSE CachedAsIs(f)

GraphFollows == ~overtaken => edges = Resolve(syms)

Complete == Inv /\ Fresh /\ PlanCovers /\ GraphFollows

LEMMA CompleteInit == Init => Complete
<1> SUFFICES ASSUME Init PROVE Complete
  OBVIOUS
<1>1. Fresh
  BY DEF Init, Fresh, CachedAsIs, Cached, Present
<1>2. Resolve({}) = {}
  BY EdgeShape
<1> QED BY <1>1, <1>2, InvInit DEF Complete, Init, PlanCovers, GraphFollows

LEMMA ReadIsFresh ==
  ASSUME Complete, NEW full \in BOOLEAN, NEW paths \in SUBSET File, Read(full, paths),
         touched' \cup paths = touched \cup paths,
         touched \subseteq touched' \cup paths,
         full => paths = File
  PROVE  Fresh' /\ PlanCovers' /\ GraphFollows'
<1> DEFINE here == paths \cap Present(tree)
           changed == {f \in here : full \/ ~Unchanged(f)}
<1>1. /\ plan' = [full |-> full, changed |-> [f \in changed |-> tree[f]],
                  deleted |-> {f \in paths \ here : Cached(f)}]
      /\ plan = Idle /\ unseen' = unseen \ paths
      /\ tree' = tree /\ cache' = cache /\ syms' = syms /\ edges' = edges /\ overtaken' = overtaken
  BY DEF Read, index
<1>2. /\ plan'.full = full
      /\ DOMAIN plan'.changed = changed /\ \A f \in changed : plan'.changed[f] = tree[f]
      /\ plan'.deleted = {f \in paths \ here : Cached(f)}
  BY <1>1
<1>3. \A f : CachedAsIs(f)' <=> CachedAsIs(f)
  BY <1>1 DEF CachedAsIs, Cached, CachedAs
<1>4. ASSUME NEW f \in File, f \notin touched' \cup unseen', f \in paths, f \notin changed,
             f \notin plan'.deleted
      PROVE  CachedAsIs(f)
  <2>1. CASE f \in here
    BY <1>4, <2>1 DEF Unchanged, CachedAsIs, Present
  <2>2. CASE f \notin here
    BY <1>2, <1>4, <2>2 DEF CachedAsIs, Present
  <2> QED BY <2>1, <2>2
<1>5. ASSUME NEW f \in File, f \notin touched' \cup unseen', f \notin paths
      PROVE  CachedAsIs(f)
  <2>1. f \notin touched \cup unseen
    BY <1>1, <1>5
  <2> QED BY <1>1, <2>1 DEF Complete, Fresh
<1>6. \A f \in plan'.deleted : tree[f] = Absent
  BY <1>2 DEF Present
<1>7. plan' # Idle
  <2>1. tree \in [File -> Content \cup {Absent}]
    BY PlannerAssumption DEF Complete, Inv, TablesAgree, TypeOK
  <2>2. \A f \in changed : f \in File /\ tree[f] \in Content
    BY <2>1 DEF Present
  <2> HIDE DEF changed
  <2>3. [f \in changed |-> tree[f]] \in [changed -> Content] /\ changed \in SUBSET File
    BY <2>2
  <2>4. [f \in changed |-> tree[f]] \in Changes
    BY <2>3 DEF Changes
  <2> QED BY <1>1, <2>4, PlannerAssumption
<1>8. Fresh'
  <2> SUFFICES ASSUME NEW f \in File \ (touched' \cup unseen')
               PROVE  IF plan' # Idle /\ f \in DOMAIN plan'.changed
                      THEN plan'.changed[f] = tree'[f]
                      ELSE IF plan' # Idle /\ f \in plan'.deleted THEN tree'[f] = Absent
                      ELSE CachedAsIs(f)'
    BY DEF Fresh
  <2> HIDE DEF changed, here
  <2> QED BY <1>1, <1>2, <1>3, <1>4, <1>5, <1>6, <1>7
<1>9. PlanCovers'
  <2>1. DOMAIN plan'.changed \cap plan'.deleted = {}
    BY <1>2
  <2>2. ASSUME full, NEW r \in cache PROVE r.file \in DOMAIN plan'.changed \cup plan'.deleted
    BY <1>2, <2>2 DEF Cached, Complete, Inv, TablesAgree, TypeOK
  <2> QED BY <1>1, <1>2, <2>1, <2>2 DEF PlanCovers
<1>10. GraphFollows'
  BY <1>1 DEF Complete, GraphFollows
<1> QED BY <1>8, <1>9, <1>10

\* What is published is what was read, of the files that were read first, and what is
\* there, of those that were read again.
LEMMA PublishIsFresh ==
  ASSUME Complete, PlanAndPublish
  PROVE  Fresh'
<1> DEFINE dep == Dependents \cap Present(tree)
<1>1. PICK changed, deleted :
        /\ changed = [f \in DOMAIN plan.changed \cup dep |->
                        IF f \in dep THEN tree[f] ELSE plan.changed[f]]
        /\ deleted = plan.deleted
  OBVIOUS
<1>2. /\ plan # Idle /\ plan' = Idle /\ tree' = tree /\ touched' = touched /\ unseen' = unseen
      /\ cache' = PublishFiles(changed, deleted)
  BY <1>1 DEF PlanAndPublish
<1>3. DOMAIN changed = DOMAIN plan.changed \cup dep
  BY <1>1
<1>4. ASSUME NEW f \in File \ (touched \cup unseen)
      PROVE  CachedAsIs(f)'
  <2>1. IF f \in DOMAIN plan.changed THEN plan.changed[f] = tree[f]
        ELSE IF f \in deleted THEN tree[f] = Absent
        ELSE CachedAsIs(f)
    BY <1>1, <1>2 DEF Complete, Fresh
  <2>2. DOMAIN plan.changed \cap deleted = {} /\ \A g \in DOMAIN plan.changed : plan.changed[g] # Absent
    BY <1>1, <1>2, PlannerAssumption DEF Complete, PlanCovers, Inv, PlanTyped
  <2>3. \A g, c : CachedAs(g, c)' <=> \/ CachedAs(g, c) /\ g \notin DOMAIN changed \cup deleted
                                      \/ g \in DOMAIN changed \ deleted /\ c = changed[g]
    BY <1>2 DEF CachedAs, PublishFiles, Row
  <2>4. Cached(f)' <=> \/ Cached(f) /\ f \notin DOMAIN changed \cup deleted
                       \/ f \in DOMAIN changed \ deleted
    <3>1. \A r : r \in cache' <=> \/ r \in cache /\ r.file \notin DOMAIN changed \cup deleted
                                  \/ \E g \in DOMAIN changed \ deleted : r = Row(g, changed[g])
      BY <1>2 DEF PublishFiles
    <3>2. \A g, c : Row(g, c).file = g
      BY DEF Row
    <3>3. Cached(f)' <=> \E r \in cache' : r.file = f
      BY DEF Cached
    <3> QED BY <3>1, <3>2, <3>3 DEF Cached
  <2>5. f \in dep => tree[f] # Absent /\ changed[f] = tree[f]
    BY <1>1, <1>3 DEF Present
  <2>6. f \in DOMAIN plan.changed /\ f \notin dep => changed[f] = plan.changed[f]
    BY <1>1, <1>3
  <2> HIDE DEF dep
  <2> QED BY <1>2, <1>3, <2>1, <2>2, <2>3, <2>4, <2>5, <2>6 DEF CachedAsIs
<1> QED BY <1>2, <1>4 DEF Fresh

\* A step that leaves the index alone and reports what it changes.
LEMMA OthersAreFresh ==
  ASSUME Complete, UNCHANGED <<index, overtaken>>,
         \A f \in File \ (touched' \cup unseen') :
           f \notin touched \cup unseen /\ tree'[f] = tree[f],
         \/ plan' = plan
         \/ /\ plan' = Idle /\ plan # Idle
            /\ DOMAIN plan.changed \cup plan.deleted \subseteq unseen'
  PROVE  Fresh' /\ PlanCovers' /\ GraphFollows'
<1>1. cache' = cache /\ syms' = syms /\ edges' = edges /\ overtaken' = overtaken
  BY DEF index
<1>2. \A f \in File \ (touched' \cup unseen') : CachedAsIs(f)' <=> CachedAsIs(f)
  BY <1>1 DEF CachedAsIs, Cached, CachedAs
<1>3. Fresh'
  BY <1>2 DEF Complete, Fresh
<1>4. PlanCovers' /\ GraphFollows'
  BY <1>1 DEF Complete, PlanCovers, GraphFollows
<1> QED BY <1>3, <1>4

LEMMA CompleteStep ==
  ASSUME Findable, Complete, [Next]_vars
  PROVE  Complete'
<1>1. Inv'
  BY InvStep DEF Complete
<1>2. touched \subseteq File /\ unseen \subseteq File
  BY DEF Complete, Inv, TablesAgree, TypeOK
<1>3. ASSUME NEW t \in Trees, NEW reported \in BOOLEAN, Change(t, reported) PROVE Complete'
  <2>1. \A f \in File : f \notin Altered(t) => t[f] = tree[f]
    BY DEF Altered
  <2> QED BY <1>1, <1>3, <2>1, OthersAreFresh DEF Change, Complete
<1>4. ASSUME NEW t \in Trees, Rename(t) PROVE Complete'
  <2>1. \A f \in File : f \notin Altered(t) => t[f] = tree[f]
    BY DEF Altered
  <2> QED BY <1>1, <1>4, <2>1, OthersAreFresh DEF Rename, Complete
<1>5. CASE ReadTouched
  <2>1. Read(FALSE, touched) /\ touched' = {}
    BY <1>5 DEF ReadTouched
  <2>2. PICK paths : paths = touched
    OBVIOUS
  <2> QED BY <1>1, <1>2, <2>1, <2>2, ReadIsFresh DEF Complete
<1>6. ASSUME NEW full \in BOOLEAN, ReadAll(full) PROVE Complete'
  BY <1>1, <1>6, ReadIsFresh DEF ReadAll, Complete
<1>7. CASE PlanAndPublish
  <2>1. Fresh'
    BY <1>7, PublishIsFresh
  <2>2. PlanCovers'
    BY <1>7 DEF PlanAndPublish, PlanCovers
  <2>3. GraphFollows'
    <3>1. SUFFICES ASSUME ~overtaken' PROVE edges' = Resolve(syms')
      BY DEF GraphFollows
    <3>2. CASE plan.full
      BY <1>7, <3>1, <3>2, FullGraph DEF Complete
    <3>3. CASE ~plan.full
      <4>1. ~overtaken
        BY <1>7, <3>1, <3>3 DEF PlanAndPublish
      <4> QED BY <1>7, <3>1, <3>3, <4>1, IncrementalGraph DEF Complete, GraphFollows
    <3> QED BY <3>2, <3>3
  <2> QED BY <1>1, <2>1, <2>2, <2>3 DEF Complete
<1>8. CASE PlanFails
  <2>1. /\ UNCHANGED <<tree, touched, index, overtaken>> /\ plan # Idle /\ plan' = Idle
        /\ unseen' = unseen \cup DOMAIN plan.changed \cup plan.deleted
    BY <1>8 DEF PlanFails
  <2> QED BY <1>1, <2>1, OthersAreFresh DEF Complete
<1>9. CASE UNCHANGED vars
  <2>1. UNCHANGED <<tree, touched, plan, index, unseen, overtaken>>
    BY <1>9 DEF vars, index
  <2> QED BY <1>1, <2>1, OthersAreFresh DEF Complete
<1> QED BY <1>3, <1>4, <1>5, <1>6, <1>7, <1>8, <1>9 DEF Next

\* When nothing is left to hear about, the index is what a rebuild would leave.
LEMMA CompleteEqualsRebuild ==
  ASSUME Complete
  PROVE  EqualsRebuild
<1> SUFFICES ASSUME plan = Idle, touched = {}, unseen = {}, ~overtaken
             PROVE  Differing(Stored, Rebuild(tree)) = {}
  BY DEF EqualsRebuild
<1>1. \A f \in File : CachedAsIs(f)
  BY DEF Complete, Fresh
<1>2. cache \subseteq [file : File, content : Content]
      /\ (\A r, o \in cache : r.file = o.file => r = o)
      /\ syms = UNION {Parse(r.file, r.content) : r \in cache}
      /\ edges = Resolve(syms)
  BY DEF Complete, Inv, TablesAgree, TypeOK, SymbolsFollowCache, GraphFollows
<1>3. cache = {Row(f, tree[f]) : f \in Present(tree)}
  <2>1. ASSUME NEW f \in Present(tree) PROVE Row(f, tree[f]) \in cache
    BY <1>1 DEF CachedAsIs, CachedAs, Present
  <2>2. ASSUME NEW r \in cache PROVE r.file \in Present(tree) /\ r = Row(r.file, tree[r.file])
    <3>1. r.file \in File /\ Cached(r.file)
      BY <1>2 DEF Cached
    <3>2. tree[r.file] # Absent /\ Row(r.file, tree[r.file]) \in cache
      BY <1>1, <3>1 DEF CachedAsIs, CachedAs
    <3> QED BY <1>2, <3>1, <3>2 DEF Present, Row
  <2> QED BY <2>1, <2>2
<1>4. syms = UNION {Parse(f, tree[f]) : f \in Present(tree)}
  <2>1. \A f, c : Row(f, c).file = f /\ Row(f, c).content = c
    BY DEF Row
  <2>2. \A s : (\E r \in cache : s \in Parse(r.file, r.content))
              <=> \E f \in Present(tree) : s \in Parse(f, tree[f])
    BY <1>3, <2>1
  <2>3. \A s : s \in syms <=> \E r \in cache : s \in Parse(r.file, r.content)
    BY <1>2
  <2> QED BY <2>2, <2>3
<1>5. \A c \in Categories : Stored[c] = Rebuild(tree)[c]
  BY <1>2, <1>3, <1>4 DEF Categories, Stored, Rebuild
<1> QED BY <1>5 DEF Differing

\* "digest(incremental) == digest(clean_rebuild)"
\* (prop_incremental_equals_clean_rebuild.rs:4), for contents that are Findable and
\* every history of edits, renames, deletions, reports that come or are missed, plans
\* that succeed or fail: once every change has been planned, the cache, the symbols and
\* the edges are those of a rebuild, with the code's own exceptions (plan, build_batch and
\* bounded_resolver_symbols of planner.rs).
THEOREM IncrementalEqualsRebuild == Findable => (Spec => []EqualsRebuild)
<1> SUFFICES ASSUME Findable PROVE Spec => []EqualsRebuild
  OBVIOUS
<1>1. Init => Complete
  BY CompleteInit
<1>2. Complete /\ [Next]_vars => Complete'
  BY CompleteStep
<1>3. Complete => EqualsRebuild
  BY CompleteEqualsRebuild
<1> QED BY <1>1, <1>2, <1>3, PTL DEF Spec
=============================================================================
