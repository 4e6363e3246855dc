---------------------------- MODULE Generations ----------------------------
(***************************************************************************)
(* What the store promises about its committed generations (the contract   *)
(* of IndexPublisher::publish in crates/cognis-store/src/publish.rs and    *)
(* migrations/002_generation_and_cache.sql), whoever publishes and however *)
(* vectors are computed: the source generation counts the publications,    *)
(* and the semantic generation catches up with it in the very step that    *)
(* leaves no vector pending, and in no other.                              *)
(***************************************************************************)
EXTENDS Integers

CONSTANT Item   \* what may await a vector

VARIABLES source, semantic, pending

genVars == <<source, semantic, pending>>

Init == source = 0 /\ semantic = 0 /\ pending = {}

CatchUp == semantic' = IF pending' = {} THEN source' ELSE semantic

\* one batch commits; it may leave anything pending
Commit ==
  /\ source' = source + 1
  /\ pending' \in SUBSET Item
  /\ CatchUp

\* one pending item gets its vector, or is given up
Settle ==
  /\ \E i \in pending : pending' = pending \ {i}
  /\ CatchUp
  /\ UNCHANGED source

Spec == Init /\ [][Commit \/ Settle]_genVars
=============================================================================
