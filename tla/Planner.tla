------------------------------ MODULE Planner ------------------------------
(***************************************************************************)
(* Incremental indexing: the source tree, the index, and ChangePlanner,      *)
(* which turns the paths a watcher reports into one publication              *)
(* (crates/cognis-indexer/src/planner.rs, pipeline.rs; the index: publish.rs, *)
(* digest.rs of cognis-store).                                              *)
(*                                                                         *)
(* A plan reads the tree at two instants: the files it was asked about, and  *)
(* later the files of the symbols that depend on what changed.  Edits go on  *)
(* in between.  One process writes; IndexStore models several.               *)
(***************************************************************************)
EXTENDS Resolver

CONSTANTS
  File,
  Lang,         \* the language of each file
  Content,      \* what a file may hold
  Parsed,       \* [status, blank, text] of each content, text the symbols in it
  Trees,        \* the trees considered: functions from files to Content or Absent
  Absent, Idle,
  MaxPending    \* bound: changed files that were not read yet

\* what may be read of some files
Changes == UNION {[F -> Content] : F \in SUBSET File}

\* Of the declarations of a file that have one identity, text has the last: the map by
\* id and the upsert keep no other (bounded_resolver_symbols, upsert_symbols).  What is
\* called, and the bases, are identifiers of the text; an empty literal is no literal
\* (call_site_re, bases, string_literal_re, all_string_literals).
ASSUME PlannerAssumption ==
  /\ IsFiniteSet(File) /\ FanoutCap \in Nat
  /\ Idle \notin [full : BOOLEAN, changed : Changes, deleted : SUBSET File]
  /\ Trees \subseteq [File -> Content \cup {Absent}]
  /\ Absent \notin Content
  /\ \A c \in Content :
       /\ IsFiniteSet(Parsed[c].text)
       /\ \A s, o \in Parsed[c].text : s.name = o.name /\ s.body = o.body => s = o
       /\ \A s \in Parsed[c].text :
            /\ s.calls \cup {b[1] : b \in s.bases} \subseteq s.words
            /\ \A n \in s.quoted \cup s.words : n \in Seq(Range(n)) /\ n # <<>>

VARIABLES
  tree,     \* the source tree
  touched,  \* paths reported and not yet planned
  plan,     \* Idle, or what the planner has read
  cache,    \* rows of table file: path, content, parse status
  syms,     \* rows of table symbol (and of its text index)
  edges,    \* rows of table edge
  unseen,   \* history: files changed without a report since they were read, or whose plan failed
  overtaken \* history: the graph may lag behind until everything is parsed anew

vars == <<tree, touched, plan, cache, syms, edges, unseen, overtaken>>
index == <<cache, syms, edges>>

Present(t) == {f \in File : t[f] # Absent}

\* parse_file: the symbols of a file. Its path, the name and a hash of the body,
\* comments aside, are their identity (make_symbol_id)
SymbolsOf ==
  [f \in File |-> [c \in Content |->
     {[id |-> <<f, s.name, s.body>>, file |-> f, lang |-> Lang[f], name |-> s.name, kind |-> s.kind,
       calls |-> s.calls, quoted |-> s.quoted, words |-> s.words, verbs |-> s.verbs,
       bases |-> s.bases] : s \in Parsed[c].text}]]
Parse(f, c) == SymbolsOf[f][c]

Row(f, c) == [file |-> f, content |-> c]

\* what a rebuild from nothing leaves
Rebuild(t) ==
  LET S == UNION {Parse(f, t[f]) : f \in Present(t)}
  IN [cache |-> {Row(f, t[f]) : f \in Present(t)}, syms |-> S, edges |-> Resolve(S)]

Init ==
  /\ tree \in Trees
  /\ touched = {} /\ plan = Idle
  /\ cache = {} /\ syms = {} /\ edges = {}
  /\ unseen = Present(tree) /\ overtaken = FALSE

\* types, and the primary keys of the tables
TypeOK ==
  /\ tree \in Trees
  /\ touched \subseteq File
  /\ plan = Idle \/ (plan.full \in BOOLEAN /\ plan.deleted \subseteq File)
  /\ cache \subseteq [file : File, content : Content]
  /\ \A r, o \in cache : r.file = o.file => r = o
  /\ \A s, o \in syms : s.id = o.id => s = o
  /\ \A e, o \in edges : Key(e) = Key(o) => e = o
  /\ unseen \subseteq File
  /\ overtaken \in BOOLEAN

-----------------------------------------------------------------------------
(* queries *)

SymbolsIn(f) == {s \in syms : s.file = f}
Cached(f) == \E r \in cache : r.file = f
CachedAs(f, c) == Row(f, c) \in cache

IdsOf(S) == {s.id : s \in S}

\* fts_search for a phrase: it occurs in a name, or in the text
Within(v, n) == \E i \in 1..Len(n) : i + Len(v) - 1 <= Len(n)
                                     /\ SubSeq(n, i, i + Len(v) - 1) = v
Mentions(s) == s.quoted \cup s.words
Fts(v) == {s \in syms : \E n \in Mentions(s) \cup {s.name} : Within(v, n)}

\* symbols_by_names
Named(N) == {s \in syms : s.name \in N}

-----------------------------------------------------------------------------
(* what a change can affect *)

\* symbol_destination_values: by what a symbol is referred to
DestinationValues(s) ==
  {s.name} \cup s.quoted
    \cup (IF IsConfigKey(s) THEN KeyForms(s.name) ELSE {})
    \cup (IF s.kind = "route" \/ s.lang = "sql" THEN {Norm(s.name)} ELSE {})

\* symbol_references_any
ReferencesAny(s, V) ==
  \E v \in V : \/ \E n \in Mentions(s) : Within(v, n)
               \/ Norm(s.name) = Norm(v)

\* add_affected_dependents: the files with edges into what changed
AffectedFiles(trigger) ==
  {s.file : s \in {s \in syms : \E e \in edges : e.src = s.id /\ e.dst \in trigger}}

\* Mutant of ReferenceFiles: only edges lead to dependents.
ReferenceFilesNone(S) == {}

\* add_reference_dependents: the files that mention what changed
ReferenceFiles(S) ==
  LET V == UNION {DestinationValues(s) : s \in S}
      C == Named(V) \cup UNION {Fts(v) : v \in V}
  IN {s.file : s \in {s \in C : ReferencesAny(s, V)}}

-----------------------------------------------------------------------------
(* the batch *)

\* collect_references and bounded_resolver_symbols: the changed symbols are
\* resolved together with what they mention, by name or in the text index
ResolverSymbols(new, excluded) ==
  LET Oop(s) == s.kind \in TypeKind /\ s.lang \in {"java", "csharp"}
      N == UNION {{s.name} \cup s.calls \cup s.quoted
                    \cup (IF s.verbs # {} THEN {Norm(n) : n \in s.words} ELSE {})
                    \cup (IF Oop(s) THEN s.words ELSE {}) : s \in new}
      C == Named(N) \cup UNION {Fts(v) : v \in UNION {s.quoted : s \in new}}
  IN {s \in C : s.file \notin excluded /\ s.id \notin IdsOf(new)} \cup new

\* build_batch: of the edges found those that start in a changed file
EdgesOf(new, owned, excluded) ==
  LET R == ResolverSymbols(new, excluded)
  IN {e \in Resolve(R) : \E s \in R : s.id = e.src /\ s.file \in owned}

\* upsert_file_rows, then delete_file_rows: of a path in both nothing is left
PublishFiles(changed, deleted) ==
  {r \in cache : r.file \notin DOMAIN changed \cup deleted}
    \cup {Row(f, changed[f]) : f \in DOMAIN changed \ deleted}

\* upsert_symbols, then delete_symbols
PublishSymbols(new, gone) ==
  {s \in {o \in syms : o.id \notin IdsOf(new)} \cup new : s.id \notin gone}

\* Mutant of PublishEdges: edges into a deleted symbol stay as they are.
PublishEdgesUnflagged(up, dropped, gone) ==
  {e \in {e \in edges \ dropped : Key(e) \notin {Key(u) : u \in up}} \cup up : e.src \notin gone}

\* upsert_edges, delete_edges, then delete_symbols: the edges out of a deleted
\* symbol go, the edges into it are flagged
PublishEdges(up, dropped, gone) ==
  LET kept == {e \in edges \ dropped : Key(e) \notin {Key(u) : u \in up}} \cup up
  IN {[e EXCEPT !.missing = @ \/ e.dst \in gone] : e \in {e \in kept : e.src \notin gone}}

-----------------------------------------------------------------------------
(* the tree changes: the transitions of cognis-testgen *)

Altered(t) == {f \in File : tree[f] # t[f]}

\* an edit, a new file, a deletion, a file emptied or made unreadable; with a
\* report unless it is missed
Change(t, reported) ==
  /\ Cardinality(touched \cup unseen) < MaxPending
  /\ Cardinality(Altered(t)) = 1
  /\ tree' = t
  /\ IF reported
     THEN touched' = touched \cup Altered(t) /\ UNCHANGED unseen
     ELSE unseen' = unseen \cup Altered(t) /\ UNCHANGED touched
  /\ UNCHANGED <<plan, index, overtaken>>

\* both paths are reported
Rename(t) ==
  /\ Cardinality(touched \cup unseen) < MaxPending
  /\ \E f, g \in Altered(t) :
       /\ tree[f] # Absent /\ tree[g] = Absent /\ Lang[f] = Lang[g]
       /\ t = [tree EXCEPT ![f] = Absent, ![g] = tree[f]]
  /\ tree' = t
  /\ touched' = touched \cup Altered(t)
  /\ UNCHANGED <<plan, index, unseen, overtaken>>

-----------------------------------------------------------------------------
(* the planner *)

\* a cached file is left alone if it parsed well and its symbols are there, or it
\* has none by right
Unchanged(f) ==
  /\ CachedAs(f, tree[f])
  /\ Parsed[tree[f]].status = "ok"
  /\ SymbolsIn(f) # {} \/ Parsed[tree[f]].blank

\* the first reading, of the files asked about
Read(full, paths) ==
  /\ plan = Idle
  /\ LET here == paths \cap Present(tree)
         changed == {f \in here : full \/ ~Unchanged(f)}
     IN plan' = [full |-> full,
                 changed |-> [f \in changed |-> tree[f]],
                 deleted |-> {f \in paths \ here : Cached(f)}]
  /\ unseen' = unseen \ paths
  /\ UNCHANGED <<tree, index, overtaken>>

\* index_batch, remove_file: the paths that were reported
ReadTouched ==
  /\ touched # {}
  /\ Read(FALSE, touched)
  /\ touched' = {}

\* index_repo: the whole tree, and what the cache still has of files
\* that are gone; in full, what did not change as well
ReadAll(full) ==
  /\ Read(full, File)
  /\ UNCHANGED touched

\* the symbols the planner knows to have changed
OldSymbols == UNION {SymbolsIn(f) : f \in DOMAIN plan.changed}
NewSymbols == UNION {Parse(f, plan.changed[f]) : f \in DOMAIN plan.changed}
GoneSymbols == UNION {SymbolsIn(f) : f \in plan.deleted}
Trigger == IdsOf(OldSymbols \cup NewSymbols \cup GoneSymbols)

\* the second reading finds these files; of a deleted file's symbols only the
\* edges are followed, not the mentions
Dependents ==
  (AffectedFiles(Trigger) \cup ReferenceFiles(OldSymbols \cup NewSymbols))
    \ DOMAIN plan.changed

\* more symbols than the cap allows share something with a deleted one: without it
\* they may be few enough, and nobody looks at them
Crowded ==
  \E s \in GoneSymbols : \E v \in {s.name} \cup s.quoted :
    Cardinality({t \in syms : v \in {t.name} \cup t.quoted}) > FanoutCap

\* the dependents are parsed as they are now, and everything is published
PlanAndPublish ==
  /\ plan # Idle
  /\ LET dep     == Dependents \cap Present(tree)
         changed == [f \in DOMAIN plan.changed \cup dep |->
                       IF f \in dep THEN tree[f] ELSE plan.changed[f]]
         owned   == DOMAIN changed
         new     == UNION {Parse(f, changed[f]) : f \in owned}
         old     == UNION {SymbolsIn(f) : f \in owned \cup plan.deleted}
         gone    == (IdsOf(old) \ IdsOf(new)) \cup IdsOf({s \in old \cup new : s.file \in plan.deleted})
         up      == EdgesOf(new, owned, owned \cup plan.deleted)
         dropped == {e \in edges : e.src \in IdsOf(old)}
     IN /\ cache' = PublishFiles(changed, plan.deleted)
        /\ syms' = PublishSymbols(new, gone)
        /\ edges' = PublishEdges(up, dropped, gone)
        /\ overtaken' = \/ dep \cap plan.deleted # {}
                        \/ /\ ~plan.full
                           /\ \/ overtaken \/ Crowded
                              \/ \E f \in dep : ~CachedAs(f, tree[f])
                              \/ \E f \in Dependents \ plan.deleted : tree[f] = Absent
  /\ plan' = Idle
  /\ UNCHANGED <<tree, touched, unseen>>

\* a dependent vanishes between the admission check and the reading: no batch
PlanFails ==
  /\ plan # Idle
  /\ \E f \in Dependents : tree[f] = Absent
  /\ unseen' = unseen \cup DOMAIN plan.changed \cup plan.deleted
  /\ plan' = Idle
  /\ UNCHANGED <<tree, touched, index, overtaken>>

-----------------------------------------------------------------------------
Next ==
  \/ \E t \in Trees, reported \in BOOLEAN : Change(t, reported)
  \/ \E t \in Trees : Rename(t)
  \/ ReadTouched
  \/ \E full \in BOOLEAN : ReadAll(full)
  \/ PlanAndPublish
  \/ PlanFails

Spec == Init /\ [][Next]_vars

-----------------------------------------------------------------------------
(* Properties *)

\* database_digest, diff: the categories in which two databases differ
Categories == {"cache", "syms", "edges"}
Differing(d, e) == {c \in Categories : d[c] # e[c]}

Stored == [cache |-> cache, syms |-> syms, edges |-> edges]

\* What the contents must be like for the text of a symbol to lead the planner to all
\* it refers to: a query names tables as they are declared, and in the one spelling
\* that is asked for; a configuration key is quoted in one form, one that its own text
\* has; a route that is handled quotes itself.
AllSymbols == UNION {UNION {Parse(f, c) : c \in Content} : f \in File}
FormsOf(k) == {v \in KeyForms(k.name) : \E s \in Code(AllSymbols) : v \in s.quoted}
Findable ==
  /\ \A s \in Code(AllSymbols), t \in AllSymbols : s.verbs # {} /\ t.lang = "sql" =>
       \A n \in s.words \cup {s.name} :
         Norm(n) = Norm(t.name) => n = t.name /\ (n \in s.words => n = Norm(n))
  /\ \A k \in {k \in AllSymbols : IsConfigKey(k)} : \A v, w \in FormsOf(k) :
       v = w /\ \E n \in Mentions(k) \cup {k.name} : Within(v, n)
  /\ \A r \in AllSymbols, s \in Code(AllSymbols) :
       r.kind = "route" /\ r.name \in s.quoted => r.name \in r.quoted

\* "digest(incremental) == digest(clean_rebuild)"
\* (prop_incremental_equals_clean_rebuild.rs:4): when every report has been
\* planned and no change went unreported, the index is what a rebuild from
\* nothing would make of the tree.  Two exceptions are the code's own: a
\* dependent that was edited, deleted or created anew when it was read again (what
\* depends on it is not looked for, and its report may find it cached), and a file
\* deleted whose names were too common to have edges.  It takes contents that are
\* Findable.
EqualsRebuild ==
  plan = Idle /\ touched = {} /\ unseen = {} /\ ~overtaken
    => Differing(Stored, Rebuild(tree)) = {}

\* Whatever happens between the readings: an edge starts at a symbol of the index,
\* and an edge that leads nowhere says so.
EdgesAreAttached ==
  \A e \in edges : e.src \in IdsOf(syms) /\ (e.dst \notin IdsOf(syms) => e.missing)

\* A symbol is in the index exactly when the file that declares it is cached with
\* it, whatever was read when: a file that was away at the first reading and back
\* at the second included.
SymbolsFollowCache ==
  syms = UNION {Parse(r.file, r.content) : r \in cache}

\* The three tables agree in every state between two publications, and no key of
\* theirs is used twice.
TablesAgree == TypeOK /\ EdgesAreAttached /\ SymbolsFollowCache
=============================================================================
