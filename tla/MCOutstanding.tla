--------------------------- MODULE MCOutstanding ---------------------------
(***************************************************************************)
(* Two round trips of Outstanding for TLC, of two units each, entered at 2 *)
(* with a stop at 2; quotes below, at, above, and without a price.         *)
(***************************************************************************)
EXTENDS Outstanding

MCTrips == 1 .. 2
MCSlots == 1 .. 2
MCBases == {2}
MCStops == {2}
MCPrices == 0 .. 3
MCSizes == {2}
=============================================================================
