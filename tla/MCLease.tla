------------------------------ MODULE MCLease ------------------------------
\* Small instances of Lease for TLC: two or three processes; a window of one tick
\* where records should lapse at any moment, of three where a record has to age
\* without lapsing; two nonces where a process should come back after a release.
EXTENDS Lease, TLC

Symmetry == Permutations(Proc)
=============================================================================
