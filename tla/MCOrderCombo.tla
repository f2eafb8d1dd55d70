---------------------------- MODULE MCOrderCombo ----------------------------
(***************************************************************************)
(* OrderCombo for TLC: a first combo closes a position and opens another   *)
(* one, a second combo closes what is left of the first.                   *)
(***************************************************************************)
EXTENDS OrderCombo, TLC

CONSTANTS c1, c2, p1, p2, l1, l2, l3

Leg(c, p, kind) ==
  [combo |-> c, position |-> p, kind |-> kind, side |-> "Buy", quan |-> 1]

AllLegs == l1 :> Leg(c1, p1, "leg_close") @@ l2 :> Leg(c1, p2, "leg_add")
           @@ l3 :> Leg(c2, p1, "leg_close")

MCLegOf == [l \in Legs |-> AllLegs[l]]
MCHeld == p1 :> 2 @@ p2 :> 0
MCQuotes == {[bid |-> 1, ask |-> 3], [bid |-> 2, ask |-> 3]}
OneQuote == {[bid |-> 2, ask |-> 2]}
=============================================================================
