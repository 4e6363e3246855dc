----------------------------- MODULE MCServing -----------------------------
(***************************************************************************)
(* Instances of what one owner process does besides owning and indexing:   *)
(* it queues the observations of its file watcher, answers tool calls from *)
(* pinned generations, diffuses hits over the code graph, looks symbols up *)
(* and estimates their growth.  The five share no state, so one run        *)
(* explores them side by side: a behaviour is one of them, chosen at the   *)
(* start.                                                                  *)
(***************************************************************************)
EXTENDS WatcherQueue, ToolCalls, Push, Lookup, Complexity

CONSTANTS p1, p2, p3, p4, create, modify, delete   \* paths and kinds of observation

VARIABLE part   \* which of the five this behaviour is

servingVars == <<part, queueVars, callVars, pushVars, lookupVars, analysisVars>>

-----------------------------------------------------------------------------
(* Tool calls: three symbols, three contents of the index, a change of all    *)
(* files or of none; the second worker diffuses, the first does the rest      *)

Abc == <<"a", "b", "c">>

SomeContents == {
  [syms |-> {"a", "b", "c"}, edges |-> {<<"a", "b">>, <<"b", "c">>}],
  [syms |-> {"a", "b"}, edges |-> {<<"a", "c">>}],
  [syms |-> {"b", "c"}, edges |-> {<<"b", "a">>}] }

AllOrNothing == {{}, Symbol}

Asks ==
  [w \in Worker |->
     IF w = "w2" THEN {"diffuse_context", "retrieve_context_capsule"}
     ELSE {"discover_symbols", "dependency_trace",
           "symbol_lookup", "trace_blast_radius", Resource}]

\* bound: only the two that build and use the resident graph, each in its way, run at the
\* same time. The others share with a call under way no more than these two, nothing, or the
\* model, which a call looks at once
Overlapping == {"diffuse_context", "trace_blast_radius"}
OverlapsBounded ==
  \A w, v \in Worker :
    v # w /\ call'[w].pc # "idle" /\ call'[v].pc # "idle" => call'[w].tool \in Overlapping

-----------------------------------------------------------------------------
(* Searches: graphs with a flagged, a self, a parallel, a weightless and a    *)
(* dangling edge, and up to two layers of hits, one outside of the graph      *)

Row(u, v, w, missing) == [src |-> u, dst |-> v, w |-> w, missing |-> missing]
H(n, s) == [node |-> n, score |-> s]

RowSets == {
  <<>>,
  <<Row(1, 2, 1, FALSE), Row(2, 3, 1, FALSE)>>,
  <<Row(1, 2, 1, FALSE), Row(2, 1, 1, FALSE), Row(3, 3, 1, FALSE)>>,
  <<Row(1, 2, 2, FALSE), Row(1, 3, 1, TRUE), Row(4, 2, 1, FALSE), Row(3, 4, 0, FALSE)>>,
  <<Row(1, 2, 1, FALSE), Row(1, 3, 1, FALSE), Row(1, 4, 3, FALSE)>>,
  <<Row(1, 2, 1, FALSE), Row(2, 3, 2, FALSE), Row(3, 4, 1, FALSE), Row(4, 1, 1, FALSE),
    Row(5, 1, 1, FALSE)>> }

Layers ==
  {<<>>} \cup {<<H(n, 1)>> : n \in 1..5} \cup {<<H(m, 3), H(n, 1)>> : m, n \in 1..5}
    \cup {<<H(3, 5), H(m, 3), H(n, 1)>> : m, n \in {1, 2, 4}}

\* what the other parts rest on
NoSearch == [rows |-> <<>>, layers |-> <<>>]

SomeSearches ==
  {NoSearch} \cup
  {[rows |-> r, layers |-> <<l, m>>] : r \in RowSets, l \in Layers, m \in {<<>>, <<H(2, 7), H(4, 3)>>}}

-----------------------------------------------------------------------------
(* Lookups: "x" and "X" stand for letters that are not ASCII *)

Words == <<"", "A", "XB", "a", "b", "x", "xB", "xb">>
Texts == {Words[i] : i \in DOMAIN Words}
WordOrder == [t \in Texts |-> CHOOSE i \in DOMAIN Words : Words[i] = t]
Lowercase == [t \in Texts |-> CASE t = "A" -> "a" [] t \in {"XB", "xB"} -> "xb" [] OTHER -> t]
AsciiLowercase == [t \in Texts |-> CASE t = "A" -> "a" [] t = "xB" -> "xb" [] OTHER -> t]
Substrings == {<<t, t>> : t \in Texts} \cup {<<"", t>> : t \in Texts}
                \cup {<<"x", "xb">>, <<"b", "xb">>}

Tables ==
  {{[id |-> "A", qname |-> q[1], name |-> n[1], kind |-> "f"],
    [id |-> "a", qname |-> q[2], name |-> n[2], kind |-> "f"],
    [id |-> "xb", qname |-> q[3], name |-> n[3], kind |-> "m"]} :
     q \in [1..3 -> {"XB", "b", "a"}], n \in [1..3 -> {"A", "a", "XB", "xB"}]}

Edge(s, d, k, m) == [src |-> s, dst |-> d, kind |-> k, missing |-> m]
Some == {Edge("a", "b", 1, FALSE), Edge("b", "a", 1, FALSE), Edge("b", "xb", 1, FALSE),
         Edge("A", "xb", 1, FALSE), Edge("a", "A", 1, TRUE), Edge("a", "A", 2, FALSE),
         Edge("xb", "xb", 1, FALSE), Edge("x", "b", 1, FALSE)}

SomeQuestions ==
  {[rows |-> r, edges |-> {}, needle |-> n, kind |-> k,
    from |-> "a", direction |-> "out", depth |-> 0] :
     r \in Tables, n \in {"", "a", "XB", "b", "xb"}, k \in {AnyKind, "f"}}
  \cup
  {[rows |-> {}, edges |-> e, needle |-> "", kind |-> AnyKind,
    from |-> "a", direction |-> d, depth |-> 3] :
     e \in SUBSET Some, d \in {"out", "in", "both"}}

-----------------------------------------------------------------------------
(* Analyses: three functions that do nothing, query in a loop or outside of   *)
(* one, or call each other and themselves, twice, in loops and with less      *)

Loop(b, body) == [kind |-> "loop", bound |-> b, callee |-> Nobody, shrinks |-> "no", body |-> body]
Call(f, s, body) == [kind |-> "call", bound |-> "none", callee |-> f, shrinks |-> s, body |-> body]
Plain(f) == Call(f, "no", <<>>)
Uses(k, body) == [kind |-> k, bound |-> "none", callee |-> Nobody, shrinks |-> "no", body |-> body]

Bodies ==
  {<<>>,
   <<Loop("log", <<>>), Uses("query", <<>>)>>,
   <<Loop("linear", <<Uses("query", <<>>), Uses("push", <<Uses("scan", <<>>)>>)>>)>>,
   <<Loop("constant", <<Loop("linear", <<Uses("sort", <<>>), Uses("clone", <<>>)>>)>>)>>}
  \cup {<<Plain(f)>> : f \in Function}
  \cup {<<Loop("linear", <<Loop("sqrt", <<>>), Plain(f)>>)>> : f \in Function}
  \cup {<<Plain(f), Loop("sqrt", <<Loop("log", <<Call(f, "halving", <<>>)>>)>>)>> : f \in {1, 3}}
  \cup {<<Call(f, "halving", <<Call(3, "decrement", <<>>)>>), Plain(3)>> : f \in {1, 2}}

Idlers == [f \in Function |-> [body |-> <<>>, memo |-> FALSE]]

SomePrograms ==
  {[f \in Function |-> [body |-> b[f], memo |-> f = m]] : b \in [Function -> Bodies], m \in {0, 2}}

-----------------------------------------------------------------------------
\* what the other parts rest on while one runs
CallsRest == db = CHOOSE v \in {Index(c) : c \in Contents} : Asked \in v.syms
SearchRests == search = NoSearch
QuestionRests == question = [rows |-> {}, edges |-> {}, needle |-> "", kind |-> AnyKind,
                             from |-> "a", direction |-> "out", depth |-> 3]

AnalysisRests == program = Idlers

ServingInit ==
  /\ QueueInit
  /\ \/ /\ part = "queue" /\ CallsRest /\ SearchRests /\ QuestionRests /\ AnalysisRests
        /\ CallsInit /\ PushInit /\ LookupInit /\ AnalysisInit
     \/ /\ part = "calls" /\ SearchRests /\ QuestionRests /\ AnalysisRests
        /\ PushInit /\ LookupInit /\ AnalysisInit /\ CallsInit
     \/ /\ part = "search" /\ CallsRest /\ QuestionRests /\ AnalysisRests
        /\ CallsInit /\ LookupInit /\ AnalysisInit /\ PushInit
     \/ /\ part = "lookup" /\ CallsRest /\ SearchRests /\ AnalysisRests
        /\ CallsInit /\ PushInit /\ AnalysisInit /\ LookupInit
     \/ /\ part = "analysis" /\ CallsRest /\ SearchRests /\ QuestionRests
        /\ CallsInit /\ PushInit /\ LookupInit /\ AnalysisInit

ServingNext ==
  /\ \/ part = "queue" /\ QueueNext /\ UNCHANGED <<callVars, pushVars, lookupVars, analysisVars>>
     \/ part = "calls" /\ CallsNext /\ OverlapsBounded
          /\ UNCHANGED <<queueVars, pushVars, lookupVars, analysisVars>>
     \/ part = "search" /\ PushNext /\ UNCHANGED <<queueVars, callVars, lookupVars, analysisVars>>
     \/ part = "lookup" /\ LookupNext /\ UNCHANGED <<queueVars, callVars, pushVars, analysisVars>>
     \/ part = "analysis" /\ Propagate /\ UNCHANGED <<queueVars, callVars, pushVars, lookupVars>>
  /\ UNCHANGED part

ServingSpec == ServingInit /\ [][ServingNext]_servingVars

-----------------------------------------------------------------------------
(* A property that is costly, looked at in the behaviours of its part *)

\* Every report of growth is worth what the calls it was made from are, and blames one.
EveryAnalysisIsSound == part = "analysis" => AnalysisIsSound
=============================================================================
