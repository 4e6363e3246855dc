------------------------------ MODULE MCOwner ------------------------------
(* Instances of Owner for TLC. *)
EXTENDS Owner

CONSTANT m1

\* the sessions share a model; a leftover endpoint file may name another
OneModel == [s \in Session |-> m1]
=============================================================================
