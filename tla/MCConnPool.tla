----------------------------- MODULE MCConnPool -----------------------------
(* Small instances of ConnPool for TLC. *)
EXTENDS ConnPool, TLC

\* Callers run the same code, so they may be permuted.
CallerSymmetry == Permutations(Callers)
=============================================================================
