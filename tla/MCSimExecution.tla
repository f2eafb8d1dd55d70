--------------------------- MODULE MCSimExecution ---------------------------
(***************************************************************************)
(* SimExecution for TLC: the order ids are interchangeable.                *)
(***************************************************************************)
EXTENDS SimExecution, TLC

Symmetry == Permutations(OrderIds)
=============================================================================
