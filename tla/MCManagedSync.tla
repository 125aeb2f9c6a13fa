--------------------------- MODULE MCManagedSync ---------------------------
(* Instances of ManagedSync for TLC. *)
EXTENDS ManagedSync, TLC

\* Peers and requests in flight are interchangeable.
SyncSymmetry == Permutations(Peers) \cup Permutations(Polls)
=============================================================================
