---------------------------- MODULE WatcherQueue ----------------------------
(***************************************************************************)
(* The bounded, latest-wins queue between the owner's file watcher and its *)
(* planner (crates/cognis-owner/src/queue.rs).  offer and take each run    *)
(* under the queue's mutex.  Nothing in the owner calls take yet, so no    *)
(* fairness is stated: what is specified is what a taker may rely on.      *)
(***************************************************************************)
EXTENDS Naturals, FiniteSets

CONSTANTS
  Path,   \* paths under the watched root
  Kind,   \* ObservationKind: create, modify, delete
  Cap     \* owner.watcher_queue_max

ASSUME QueueAssumption == Cap \in Nat

VARIABLES
  map,         \* the queued observations, by path
  overflowed,  \* the queue has collapsed into one Reconcile
  plan,        \* the PlanRequest last taken
  latest       \* history: the last observation of each path since the last take

queueVars == <<map, overflowed, plan, latest>>

-----------------------------------------------------------------------------
Nothing == [paths |-> {}, reconcile |-> FALSE]
Reconcile == [paths |-> {}, reconcile |-> TRUE]
Touched(paths) == [paths |-> paths, reconcile |-> FALSE]

\* maps from finitely many paths to the kind observed
Observations == UNION {[S -> Kind] : S \in {T \in SUBSET Path : IsFiniteSet(T)}}
Empty == [p \in {} |-> Kind]
Insert(m, p, k) == [q \in DOMAIN m \cup {p} |-> IF q = p THEN k ELSE m[q]]

QueueTypeOK ==
  /\ map \in Observations
  /\ Cardinality(DOMAIN map) <= Cap
  /\ overflowed \in BOOLEAN
  /\ plan \in [paths : SUBSET Path, reconcile : BOOLEAN]
  /\ latest \in Observations

QueueInit ==
  /\ map = Empty
  /\ overflowed = FALSE
  /\ plan = Nothing
  /\ latest = Empty

-----------------------------------------------------------------------------
Full == Cap = 0 \/ Cardinality(DOMAIN map) >= Cap

\* Mutant of Replaces: a repeated path counts as a new one
ReplacesNever(p) == FALSE

Replaces(p) == p \in DOMAIN map

\* a reconcile is pending already
OfferAbsorbed ==
  /\ overflowed
  /\ UNCHANGED <<map, overflowed>>

\* a repeated path replaces its observation, a new one that fits is added
OfferQueued(p, k) ==
  /\ ~overflowed
  /\ Replaces(p) \/ ~Full
  /\ map' = Insert(map, p, k)
  /\ UNCHANGED overflowed

\* Mutant of Collapsed: the queue is cleared and nobody is told
CollapsedSilently == FALSE

Collapsed == TRUE

\* a new path that does not fit collapses the queue
OfferOverflows(p) ==
  /\ ~overflowed
  /\ ~Replaces(p) /\ Full
  /\ map' = Empty
  /\ overflowed' = Collapsed

Offer(p, k) ==
  /\ OfferAbsorbed \/ OfferQueued(p, k) \/ OfferOverflows(p)
  /\ latest' = Insert(latest, p, k)
  /\ UNCHANGED plan

Take ==
  /\ \/ overflowed /\ plan' = Reconcile
     \/ ~overflowed /\ map # Empty /\ plan' = Touched(DOMAIN map)
     \/ ~overflowed /\ map = Empty /\ plan' = Nothing
  /\ map' = Empty
  /\ overflowed' = FALSE
  /\ latest' = Empty

QueueNext ==
  \/ \E p \in Path, k \in Kind : Offer(p, k)
  \/ Take

QueueSpec == QueueInit /\ [][QueueNext]_queueVars

-----------------------------------------------------------------------------
(* Properties *)

Exact ==
  IF overflowed THEN Cardinality(DOMAIN latest) > Cap ELSE map = latest

\* However offers and takes interleave, the queue never holds more than the cap, is
\* exactly the last observation of every path since the last take, and has collapsed
\* only if these paths are more than the cap (Requirements 18.1 to 18.3 of
\* prop_watcher_queue.rs).
KeepsTheLatest == QueueTypeOK /\ Exact

\* What is taken covers every path observed since the last take.
TakeCovers ==
  [][Take => plan'.reconcile \/ plan'.paths = DOMAIN latest]_queueVars
=============================================================================
