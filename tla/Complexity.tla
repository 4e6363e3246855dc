----------------------------- MODULE Complexity -----------------------------
(***************************************************************************)
(* The growth of functions and of what they call                           *)
(* (crates/cognis-core/src/complexity.rs,                                  *)
(* crates/cognis-indexer/src/complexity.rs): a walk over the syntax tree   *)
(* of each function, Tarjan's components of the call graph, and their      *)
(* growth from callees to callers, one component a step.                   *)
(*                                                                         *)
(* A syntax tree is a sequence of nodes: loops, with the bound their text  *)
(* was given, and calls, with what is nested in them.  A call of map,      *)
(* filter or the like is a loop, a scan, sort, clone, push or query a call *)
(* of an intrinsic.  Branches count for other measures only.  Every        *)
(* function has a name of its own, every call of one is an edge, edges     *)
(* come in the order of what they call and record no depth of their own.   *)
(***************************************************************************)
EXTENDS Naturals, Sequences, FiniteSets, SequencesExt, FiniteSetsExt

Digraphs == INSTANCE Graphs

CONSTANTS
  Function,  \* 1..n, the symbols in row order
  Programs   \* inputs: functions from Function to [body, memo]

Nobody == 0
ASSUME ComplexityAssumption == IsFiniteSet(Function) /\ Nobody \notin Function

VARIABLES
  program,  \* the input
  ast,      \* the summary of each function by itself
  sccs,     \* the components, in the order in which they are found
  solved,   \* how many of them are done
  time, space,  \* propagated_time, propagated_space
  blame,    \* dominant_callee
  loopIo    \* transitive_io: the function that queries

analysisVars == <<program, ast, sccs, solved, time, space, blame, loopIo>>

-----------------------------------------------------------------------------
(* ComplexityClass; factorial growth is never inferred *)

Saturated(n) == IF n > 255 THEN 255 ELSE n

Growing(kind, deg, log) == [kind |-> kind, deg |-> deg, log |-> log]
Constant == Growing("constant", 0, 0)
LogN == Growing("log", 0, 1)
SqrtN == Growing("sqrt", 1, 0)
Polynomial(deg) == IF deg = 0 THEN Constant ELSE Growing("poly", deg, 0)
Linear == Polynomial(1)
NLogN == Growing("poly", 1, 1)
Exponential(base) == Growing("exp", base, 0)

\* effective_degree, in twentieths
EffectiveDegree(c) ==
  CASE c.kind = "constant" -> 0
    [] c.kind = "log"      -> 5 * c.log
    [] c.kind = "sqrt"     -> 10
    [] c.kind = "poly"     -> 20 * c.deg + 5 * c.log
    [] c.kind = "exp"      -> 160 + 2 * c.deg

SeqMax(a, b) == IF EffectiveDegree(a) >= EffectiveDegree(b) THEN a ELSE b

\* nest_mul; a root counts as a whole degree next to anything but another root
NestMul(a, b) ==
  LET exp == {c \in {a, b} : c.kind = "exp"}
  IN IF a = Constant THEN b
     ELSE IF b = Constant THEN a
     ELSE IF exp = {a, b} THEN Exponential(Saturated(a.deg * b.deg))
     ELSE IF exp # {} THEN CHOOSE c \in exp : TRUE
     ELSE IF {a, b} = {SqrtN} THEN Linear
     ELSE Growing(IF a.kind = "log" /\ b.kind = "log" THEN "log" ELSE "poly",
                  Saturated(a.deg + b.deg), Saturated(a.log + b.log))

-----------------------------------------------------------------------------
(* AstComplexityWalker *)

BoundClass(bound) ==
  CASE bound = "constant" -> Constant [] bound = "log" -> LogN
    [] bound = "sqrt" -> SqrtN [] bound = "linear" -> Linear

\* current_loop_depth, current_loop_multiplier
LoopDepth(loops) == Len(SelectSeq(loops, LAMBDA b : b # "constant"))
Multiplier(loops) == FoldLeft(LAMBDA c, b : NestMul(c, BoundClass(b)), Constant, loops)

NoSite == [depth |-> 0, count |-> 0, shrinks |-> "no"]
Unseen == [loops |-> <<>>, time |-> Constant, space |-> Constant, io |-> FALSE,
           sites |-> [f \in Function |-> NoSite]]

\* what an intrinsic costs, at this depth of loops
TimeFor(kind, loops) ==
  CASE kind = "scan" -> NestMul(Multiplier(loops), Linear)
    [] kind = "sort" -> NestMul(Multiplier(loops), NLogN)
    [] OTHER -> Constant
SpaceFor(kind, loops) ==
  IF LoopDepth(loops) = 0 THEN Constant
  ELSE CASE kind = "clone" -> NestMul(Multiplier(loops), Linear)
         [] kind = "push"  -> Multiplier(loops)
         [] OTHER -> Constant

\* Mutant of Merged: the depth is that of the first call
MergedFirst(site, loops, shrinks) ==
  [depth |-> IF site.count = 0 THEN LoopDepth(loops) ELSE site.depth,
   count |-> site.count + 1,
   shrinks |-> IF site.shrinks = "no" THEN shrinks ELSE site.shrinks]

\* one call site for each name: the deepest loop, the number of calls, and the first
\* reduction of the argument
Merged(site, loops, shrinks) ==
  [depth |-> Max({site.depth, LoopDepth(loops)}),
   count |-> site.count + 1,
   shrinks |-> IF site.shrinks = "no" THEN shrinks ELSE site.shrinks]

Called(w, n) ==
  [w EXCEPT
     !.time = SeqMax(@, TimeFor(n.kind, w.loops)),
     !.space = SeqMax(@, SpaceFor(n.kind, w.loops)),
     !.io = @ \/ (n.kind = "query" /\ LoopDepth(w.loops) > 0),
     !.sites = IF n.kind = "call"
               THEN [@ EXCEPT ![n.callee] = Merged(@, w.loops, n.shrinks)]
               ELSE @]

Entered(w, bound) ==
  LET loops == Append(w.loops, bound)
  IN [w EXCEPT !.loops = loops, !.time = SeqMax(@, Multiplier(loops))]

Left(w) == [w EXCEPT !.loops = Front(@)]

RECURSIVE Visit(_, _)
Visit(w, n) ==
  IF n.kind = "loop"
  THEN Left(FoldLeft(Visit, Entered(w, n.bound), n.body))
  ELSE FoldLeft(Visit, Called(w, n), n.body)

Summary(f) == FoldLeft(Visit, Unseen, program[f].body)

-----------------------------------------------------------------------------
(* the call graph and its components, callees first *)

Site(u, v) == ast[u].sites[v]
Calls(u, v) == Site(u, v).count > 0
Callees(u) == SetToSortSeq({v \in Function : Calls(u, v)}, <)

Unvisited == [next |-> 1, index |-> [f \in Function |-> 0], low |-> [f \in Function |-> 0],
          stack |-> <<>>, sccs |-> <<>>]

\* a component ends at the function it was entered by
Cut(s, u) ==
  LET i == CHOOSE j \in DOMAIN s.stack : s.stack[j] = u
  IN IF s.low[u] # s.index[u] THEN s
     ELSE [s EXCEPT !.stack = SubSeq(@, 1, i - 1),
                    !.sccs = Append(@, Reverse(SubSeq(s.stack, i, Len(s.stack))))]

\* strongconnect
RECURSIVE StrongConnect(_, _)
StrongConnect(s, u) ==
  LET entered == [s EXCEPT !.next = @ + 1, !.index[u] = s.next, !.low[u] = s.next,
                           !.stack = Append(@, u)]
      along(t, v) ==
        IF t.index[v] = 0
        THEN LET below == StrongConnect(t, v)
             IN [below EXCEPT !.low[u] = Min({@, below.low[v]})]
        ELSE IF Contains(t.stack, v) THEN [t EXCEPT !.low[u] = Min({@, t.index[v]})]
        ELSE t
  IN Cut(FoldLeft(along, entered, Callees(u)), u)

TarjanScc ==
  FoldLeft(LAMBDA s, u : IF s.index[u] = 0 THEN StrongConnect(s, u) ELSE s,
           Unvisited, SetToSortSeq(Function, <)).sccs

-----------------------------------------------------------------------------
(* analyze_workspace_complexity *)

\* the calls within a component, in the order in which they are looked at
CycleCalls(scc) ==
  SelectSeq(FlattenSeq([i \in DOMAIN scc |->
              [j \in DOMAIN Callees(scc[i]) |-> <<scc[i], Callees(scc[i])[j]>>]]),
            LAMBDA c : Contains(scc, c[2]))

Recursive(scc) == CycleCalls(scc) # <<>>

\* the first reduction that is one
Halves(scc) ==
  LET shrinking == SelectSeq(CycleCalls(scc), LAMBDA c : Site(c[1], c[2]).shrinks # "no")
  IN shrinking # <<>> /\ Site(Head(shrinking)[1], Head(shrinking)[2]).shrinks = "halving"

\* the Master Theorem over a component
RecurrenceTime(scc) ==
  LET calls == CycleCalls(scc)
      branches == FoldLeft(LAMBDA n, c : n + Site(c[1], c[2]).count, 0, calls)
      looped == \E i \in DOMAIN calls : Site(calls[i][1], calls[i][2]).depth > 0
      memo == \E u \in Range(scc) : program[u].memo
      local == FoldLeft(LAMBDA c, u : SeqMax(c, ast[u].time), Constant, scc)
  IN IF ~memo /\ (branches >= 2 \/ looped)
     THEN IF Halves(scc) THEN SeqMax(NLogN, local)
          ELSE Exponential(Min({8, Max({2, branches})}))
     ELSE NestMul(IF Halves(scc) THEN LogN ELSE Linear, local)

BaseTime(scc) == IF Recursive(scc) THEN RecurrenceTime(scc) ELSE Constant
BaseSpace(scc) ==
  IF ~Recursive(scc) THEN Constant ELSE IF Halves(scc) THEN LogN ELSE Linear

\* symbol_has_direct_io: a query anywhere in the body
RECURSIVE Queries(_)
Queries(n) == n.kind = "query" \/ \E i \in DOMAIN n.body : Queries(n.body[i])
DirectIo(f) == \E i \in DOMAIN program[f].body : Queries(program[f].body[i])

\* a call inside of a loop multiplies
Induced(u, v) == NestMul(Polynomial(Site(u, v).depth), time[v])

\* the I/O of a callee counts when it is called in a loop
LiftedIo(u, v) ==
  IF Site(u, v).depth = 0 THEN Nobody
  ELSE IF loopIo[v] # Nobody THEN loopIo[v]
  ELSE IF DirectIo(v) THEN v ELSE Nobody

\* one callee after the other; blame goes to the one that last raised the time, or to
\* the first that is at least quadratic
Weighed(u, own, v) ==
  LET induced == Induced(u, v)
      more == \/ EffectiveDegree(induced) > EffectiveDegree(own.time)
              \/ EffectiveDegree(induced) >= 40 /\ own.blame = Nobody
  IN [time |-> IF more THEN SeqMax(own.time, induced) ELSE own.time,
      space |-> SeqMax(own.space, space[v]),
      blame |-> IF more THEN v ELSE own.blame,
      io |-> IF own.io = Nobody THEN LiftedIo(u, v) ELSE own.io]

OwnTime(u, scc) == SeqMax(BaseTime(scc), ast[u].time)

Propagated(u, scc) ==
  FoldLeft(LAMBDA own, v : Weighed(u, own, v),
           [time |-> OwnTime(u, scc),
            space |-> SeqMax(BaseSpace(scc), ast[u].space),
            blame |-> Nobody,
            io |-> IF ast[u].io THEN u ELSE Nobody],
           SelectSeq(Callees(u), LAMBDA v : ~Contains(scc, v)))

AnalysisInit ==
  /\ program \in Programs
  /\ ast = [f \in Function |-> Summary(f)]
  /\ sccs = TarjanScc
  /\ solved = 0
  /\ time = [f \in Function |-> Constant] /\ space = time
  /\ blame = [f \in Function |-> Nobody] /\ loopIo = blame

\* the next component, callees outside of it being done
Propagate ==
  /\ solved < Len(sccs)
  /\ solved' = solved + 1
  /\ LET scc == sccs[solved + 1]
         new == [u \in Range(scc) |-> Propagated(u, scc)]
         over(old, field(_)) == [f \in Function |-> IF f \in Range(scc) THEN field(f) ELSE old[f]]
     IN /\ time' = over(time, LAMBDA f : new[f].time)
        /\ space' = over(space, LAMBDA f : new[f].space)
        /\ blame' = over(blame, LAMBDA f : new[f].blame)
        /\ loopIo' = over(loopIo, LAMBDA f : new[f].io)
  /\ UNCHANGED <<program, ast, sccs>>

AnalysisSpec == AnalysisInit /\ [][Propagate]_analysisVars

-----------------------------------------------------------------------------
(* What it is measured against *)

\* every call under its loops
RECURSIVE CallsUnder(_, _)
CallsUnder(loops, n) ==
  LET inner == IF n.kind = "loop" THEN Append(loops, n.bound) ELSE loops
  IN (IF n.kind = "call" THEN {[loops |-> loops, callee |-> n.callee]} ELSE {})
     \cup UNION {CallsUnder(inner, n.body[i]) : i \in DOMAIN n.body}

CallsOf(f) == UNION {CallsUnder(<<>>, program[f].body[i]) : i \in DOMAIN program[f].body}

Deepest(u, v) == Max({LoopDepth(c.loops) : c \in {d \in CallsOf(u) : d.callee = v}})

Edges == {e \in Function \X Function : \E c \in CallsOf(e[1]) : c.callee = e[2]}
Leads == Digraphs!ConnectionsIn([node |-> Function, edge |-> Edges])
Together(u, v) == Leads[u, v] /\ Leads[v, u]

Done == UNION {Range(sccs[i]) : i \in 1..solved}

\* The components are the classes of functions that reach each other, each function
\* is in one, and a function is done after all it calls (tarjan_scc: "reverse
\* topological order: leaves first").
ComponentsInOrder ==
  /\ \A f \in Function : Cardinality({i \in DOMAIN sccs : Contains(sccs[i], f)}) = 1
  /\ \A i \in DOMAIN sccs : \A u \in Range(sccs[i]) :
       /\ Range(sccs[i]) = {v \in Function : Together(u, v)}
       /\ \A e \in Edges : e[1] = u => \E j \in 1..i : Contains(sccs[j], e[2])

\* No function is reported to be cheaper than a call it makes, with what the loops
\* around that call multiply, unless the call is recursive; nor to need less space.
CostsAreCarried ==
  \A u \in Done : \A c \in CallsOf(u) :
    ~Together(u, c.callee) =>
      /\ EffectiveDegree(time[u]) >= EffectiveDegree(NestMul(Multiplier(c.loops), time[c.callee]))
      /\ EffectiveDegree(space[u]) >= EffectiveDegree(space[c.callee])

\* A function whose callee is blamed calls it, and what is beyond its own body and
\* recursion is what the callee costs at the deepest of those calls; I/O in loops is
\* charged to a function that does some.
BlameIsDeserved ==
  \A u \in Done :
    LET scc == CHOOSE s \in Range(sccs) : Contains(s, u)
        own == EffectiveDegree(OwnTime(u, scc))
    IN /\ blame[u] = Nobody => EffectiveDegree(time[u]) = own
       /\ blame[u] # Nobody =>
            /\ <<u, blame[u]>> \in Edges /\ ~Together(u, blame[u])
            /\ EffectiveDegree(time[u]) =
                 Max({own, EffectiveDegree(NestMul(Polynomial(Deepest(u, blame[u])), time[blame[u]]))})
       /\ loopIo[u] # Nobody =>
            /\ DirectIo(loopIo[u])
            /\ Leads[u, loopIo[u]]

AnalysisIsSound == ComponentsInOrder /\ CostsAreCarried /\ BlameIsDeserved
=============================================================================
