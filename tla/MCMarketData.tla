---------------------------- MODULE MCMarketData ----------------------------
(***************************************************************************)
(* Two watches of one instrument and one of another, for TLC.              *)
(***************************************************************************)
EXTENDS MarketData

CONSTANTS w1, w2, w3, s1, s2

MCSymbolOf == [w \in {w1, w2, w3} |-> IF w = w3 THEN s2 ELSE s1]
=============================================================================
