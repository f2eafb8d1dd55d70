----------------------------- MODULE MCOrderFlow -----------------------------
(***************************************************************************)
(* OrderFlow for TLC: the order ids are interchangeable, and no step is    *)
(* explored from a state with more than MaxInFlight messages of the broker *)
(* on their way.                                                           *)
(***************************************************************************)
EXTENDS OrderFlow, FiniteSetsExt, TLC

CONSTANT MaxInFlight

InFlight(o) == Len(news[o]) + Len(fills[o]) - seen[o]

Symmetry == Permutations(OrderIds)
FewInFlight == MapThenSumSet(InFlight, OrderIds) <= MaxInFlight
=============================================================================
