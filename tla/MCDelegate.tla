----------------------------- MODULE MCDelegate -----------------------------
(***************************************************************************)
(* Delegate for TLC: threads and handlers are interchangeable.             *)
(***************************************************************************)
EXTENDS Delegate, TLC

Symmetry == Permutations(Threads) \cup Permutations(Handlers)
=============================================================================
