----------------------------- MODULE ModelSlot -----------------------------
(***************************************************************************)
(* The lazy, single-flight holder of the embedding model                   *)
(* (crates/cognis-embed/src/lifecycle.rs), shared by the threads of a      *)
(* process that embed queries or symbols and by the housekeeping that      *)
(* evicts an idle model.  Every critical section of the slot's mutex is    *)
(* one action; the factory runs outside of the mutex; a waiter sleeps on   *)
(* the condition variable and takes the mutex again when notified.         *)
(*                                                                         *)
(* Two clocks matter only through "has it elapsed": the failure cooldown   *)
(* and the idle interval since last_used.                                  *)
(***************************************************************************)
EXTENDS Integers, FiniteSets

CONSTANTS
  Thread,         \* threads that demand the model
  FactoryPanics   \* environment: the factory may panic, which ends the thread

ASSUME SlotAssumption ==
  /\ IsFiniteSet(Thread)
  /\ FactoryPanics \in BOOLEAN

VARIABLES
  slot,           \* SlotState
  cooling,        \* Failed: the cooldown has not elapsed
  idle,           \* Ready: the idle interval since last_used has elapsed
  inFlightCount,  \* Ready: in_flight_count
  at,             \* where each thread is
  owed            \* history: how the load a thread slept through ended, until the
                  \* cooldown or the idle interval elapses

slotVars == <<slot, cooling, idle, inFlightCount, at, owed>>

-----------------------------------------------------------------------------
Between == {"demand", "notified", "again"}
CallerPhases == Between \cup {"out", "loading", "waiting", "holding", "panicked"}

At(l) == {t \in Thread : at[t] = l}

SlotTypeOK ==
  /\ slot \in {"empty", "loading", "ready", "failed"}
  /\ cooling \in BOOLEAN
  /\ idle \in BOOLEAN
  /\ inFlightCount \in 0..Cardinality(Thread)
  /\ at \in [Thread -> CallerPhases]
  /\ owed \in [Thread -> {"nothing", "ok", "err"}]

\* empty(), or from_optional with a model the eager policy has built
SlotInit ==
  /\ slot \in {"empty", "ready"}
  /\ cooling = FALSE
  /\ idle = FALSE
  /\ inFlightCount = 0
  /\ at = [t \in Thread |-> "out"]
  /\ owed = [t \in Thread |-> "nothing"]

Becomes(t, l) == at' = [at EXCEPT ![t] = l]

-----------------------------------------------------------------------------
(* try_borrow, borrow_or_load *)

\* the Ready arm of both: one more borrow, used just now
Borrow(t) ==
  /\ slot = "ready"
  /\ inFlightCount' = inFlightCount + 1
  /\ idle' = FALSE
  /\ Becomes(t, "holding")
  /\ owed' = [owed EXCEPT ![t] = "nothing"]
  /\ UNCHANGED <<slot, cooling>>

\* callers ask for a resident model first and demand a load otherwise
TryBorrow(t) ==
  /\ at[t] = "out"
  /\ \/ Borrow(t)
     \/ /\ slot # "ready"
        /\ Becomes(t, "demand")
        /\ UNCHANGED <<slot, cooling, idle, inFlightCount, owed>>

BorrowReady(t) ==
  /\ at[t] \in {"demand", "again"}
  /\ Borrow(t)

\* Mutant of CooledDown: the window is not looked at
CooledDownAlways == TRUE

CooledDown == ~cooling

\* DemandError::Cooldown
Refuse(t) ==
  /\ at[t] \in {"demand", "again"}
  /\ slot = "failed" /\ ~CooledDown
  /\ Becomes(t, "out")
  /\ owed' = [owed EXCEPT ![t] = "nothing"]
  /\ UNCHANGED <<slot, cooling, idle, inFlightCount>>

\* the cooldown is over: Empty, and around the loop again
Reset(t) ==
  /\ at[t] \in {"demand", "again"}
  /\ slot = "failed" /\ CooledDown
  /\ slot' = "empty"
  /\ cooling' = FALSE
  /\ UNCHANGED <<idle, inFlightCount, at, owed>>

\* Mutant of Unclaimed: a load in progress is no obstacle
UnclaimedOrLoading == slot \in {"empty", "loading"}

Unclaimed == slot = "empty"

\* Empty is claimed in the critical section that saw it
ClaimLoad(t) ==
  /\ at[t] \in {"demand", "again"}
  /\ Unclaimed
  /\ slot' = "loading"
  /\ Becomes(t, "loading")
  /\ owed' = [owed EXCEPT ![t] = "nothing"]
  /\ UNCHANGED <<cooling, idle, inFlightCount>>

\* sleep until the load is over
Wait(t) ==
  /\ at[t] \in {"demand", "again"}
  /\ slot = "loading"
  /\ Becomes(t, "waiting")
  /\ UNCHANGED <<slot, cooling, idle, inFlightCount, owed>>

\* wait_while: notified, the mutex taken again; another load puts back to sleep
Wake(t) ==
  /\ at[t] = "notified"
  /\ Becomes(t, IF slot = "loading" THEN "waiting" ELSE "again")
  /\ UNCHANGED <<slot, cooling, idle, inFlightCount, owed>>

-----------------------------------------------------------------------------
(* run_factory_and_borrow *)

\* Mutant of Woken: notify_one
WokenOne == {t \in At("waiting") : t = CHOOSE u \in At("waiting") : TRUE}

\* notify_all
Woken == At("waiting")

\* the outcome is published and everybody asleep is notified
Publish(t, l, outcome) ==
  /\ at[t] = "loading"
  /\ at' = [u \in Thread |-> IF u = t THEN l ELSE IF u \in Woken THEN "notified" ELSE at[u]]
  /\ owed' = [u \in Thread |-> IF u \in At("waiting") THEN outcome ELSE owed[u]]

LoadOk(t) ==
  /\ Publish(t, "holding", "ok")
  /\ slot' = "ready"
  /\ inFlightCount' = 1
  /\ idle' = FALSE
  /\ UNCHANGED cooling

LoadFails(t) ==
  /\ Publish(t, "out", "err")
  /\ slot' = "failed"
  /\ cooling' = TRUE
  /\ UNCHANGED <<idle, inFlightCount>>

\* the thread unwinds before the slot is touched
LoadPanics(t) ==
  /\ FactoryPanics
  /\ at[t] = "loading"
  /\ Becomes(t, "panicked")
  /\ UNCHANGED <<slot, cooling, idle, inFlightCount, owed>>

-----------------------------------------------------------------------------
(* release_borrow, try_idle_evict, time *)

\* Mutant of Returned: the count is not lowered
ReturnedNever == inFlightCount

\* saturating_sub(1)
Returned == IF inFlightCount > 0 THEN inFlightCount - 1 ELSE 0

\* the ModelBorrow is dropped; only a Ready slot is touched
Release(t) ==
  /\ at[t] = "holding"
  /\ Becomes(t, "out")
  /\ IF slot = "ready" THEN inFlightCount' = Returned /\ idle' = FALSE
                       ELSE UNCHANGED <<inFlightCount, idle>>
  /\ UNCHANGED <<slot, cooling, owed>>

\* Mutant of Evictable: borrows are not counted
EvictableWhenIdle == slot = "ready" /\ idle

Evictable == slot = "ready" /\ inFlightCount = 0 /\ idle

\* try_idle_evict, by the pipeline after a batch or by the owner
Evict ==
  /\ Evictable
  /\ slot' = "empty"
  /\ UNCHANGED <<cooling, idle, inFlightCount, at, owed>>

\* until_instant is reached; whoever wakes up now may load again
CooldownElapses ==
  /\ slot = "failed" /\ cooling
  /\ cooling' = FALSE
  /\ owed' = [t \in Thread |-> "nothing"]
  /\ UNCHANGED <<slot, idle, inFlightCount, at>>

\* the model has not been used for the idle interval; it may be evicted now
IdleElapses ==
  /\ slot = "ready" /\ ~idle
  /\ idle' = TRUE
  /\ owed' = [t \in Thread |-> "nothing"]
  /\ UNCHANGED <<slot, cooling, inFlightCount, at>>

-----------------------------------------------------------------------------
\* a thread that demands the model goes on until it has it or an error
Demand(t) ==
  \/ BorrowReady(t) \/ Refuse(t) \/ Reset(t) \/ ClaimLoad(t) \/ Wait(t) \/ Wake(t)
  \/ LoadOk(t) \/ LoadFails(t) \/ LoadPanics(t)

SlotNext ==
  \/ \E t \in Thread : TryBorrow(t) \/ Demand(t) \/ Release(t)
  \/ Evict \/ CooldownElapses \/ IdleElapses

SlotSpec == SlotInit /\ [][SlotNext]_slotVars

\* Threads that are inside borrow_or_load are scheduled, and the factory returns
\* or panics.  Nothing obliges a caller to come, to drop its borrow or to evict.
FairSlotSpec == SlotSpec /\ \A t \in Thread : WF_slotVars(Demand(t))

-----------------------------------------------------------------------------
(* Properties *)

\* in_flight_count is the number of live borrows, and there are none unless the
\* slot is Ready: a model somebody holds is neither evicted nor replaced by a
\* second one ("Eviction is refused while in_flight_count > 0", lifecycle.rs:24-26).
BorrowsCounted ==
  IF slot = "ready" THEN inFlightCount = Cardinality(At("holding")) ELSE At("holding") = {}

\* At most one thread runs the factory, and only while the slot says so: the
\* process never builds a second model next to one that is loading or borrowed.
SingleFlight ==
  /\ \A t, u \in At("loading") : t = u
  /\ At("loading") # {} => slot = "loading"

\* Nobody sleeps on the condition variable once the load is over.
NoLostWakeup == At("waiting") # {} => slot = "loading"

\* There is one model at a time, resident or loading: nobody loads a second one,
\* nobody keeps one that was evicted, and whoever waits for a load is woken
\* (lifecycle.rs:16-26).
OneModel == BorrowsCounted /\ SingleFlight /\ NoLostWakeup

\* A thread that slept through a load returns with that load's outcome, and never
\* runs the factory itself ("all waiters observe the same Ok / Err",
\* lifecycle.rs:19-20), unless the cooldown or the idle interval has elapsed
\* before it takes the mutex again.
SameOutcome ==
  [][\A t \in Thread : at[t] = "again" /\ owed[t] # "nothing" /\ at'[t] # "again" =>
       at'[t] = IF owed[t] = "ok" THEN "holding" ELSE "out"]_slotVars

Back(t) == at[t] \in {"out", "holding", "panicked"}

\* Unless windows elapse again and again or a factory panics, every demand comes
\* back, with the model or with an error.
DemandReturns ==
  \/ []<><<CooldownElapses \/ IdleElapses>>_slotVars
  \/ \A t \in Thread : at[t] = "demand" ~> Back(t) \/ At("panicked") # {}
=============================================================================
