---------------------------- MODULE MCIndexStore ----------------------------
(* Instances of IndexStore for TLC. *)
EXTENDS IndexStore, TLC

CONSTANTS c1, c2, c3   \* versions of a file; c2 differs from c1 in a comment only
CONSTANTS bodyA, bodyB \* hashes of the bodies
CONSTANTS small, large \* models of the default width and of another one
CONSTANT  other        \* a second model of the default width

MCBodyOf == [c \in Content |-> IF c = c3 THEN bodyB ELSE bodyA]
MCDimOf == [m \in Model |-> IF m = large THEN 2 ELSE 1]

MCFileSymmetry == Permutations(File)
=============================================================================
