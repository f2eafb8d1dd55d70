----------------------------- MODULE TradeLedger -----------------------------
(***************************************************************************)
(* What a trading position promises, without orders in flight, messages or *)
(* a row that changes sides: a ledger of trades.  Every execution of an    *)
(* order changes the signed quantity held by its size and the cash by its  *)
(* value, once, and an order whose quantity is not reached never trades    *)
(* beyond it.                                                              *)
(*                                                                         *)
(* OrderFlow implements this module.                                       *)
(***************************************************************************)
EXTENDS Integers

CONSTANTS OrderIds,        \* Identifiers of the orders of the position
          Prices,          \* The prices trades are made at
          Multiplier       \* Instrument multiplier

VARIABLES ordered,         \* [OrderIds -> [side, quan]]; quan 0: no such order
          traded,          \* [OrderIds -> Nat], the quantity traded so far
          net,             \* Signed quantity held
          cash             \* Money received less money paid

vars == <<ordered, traded, net, cash>>

Sign(side) == IF side = "Buy" THEN 1 ELSE -1

Init ==
  /\ ordered = [o \in OrderIds |-> [side |-> "Buy", quan |-> 0]]
  /\ traded = [o \in OrderIds |-> 0]
  /\ net = 0
  /\ cash = 0

\* An order is created, once.
Accept(o, side, quan) ==
  /\ ordered[o].quan = 0
  /\ quan \in Nat \ {0}
  /\ ordered' = [ordered EXCEPT ![o] = [side |-> side, quan |-> quan]]
  /\ UNCHANGED <<traded, net, cash>>

\* n units of an order trade at a price.  A complete order may be overfilled.
Trade(o, n, price) ==
  /\ ordered[o].quan > 0
  /\ n \in Nat \ {0}
  /\ traded[o] < ordered[o].quan => traded[o] + n <= ordered[o].quan
  /\ traded' = [traded EXCEPT ![o] = @ + n]
  /\ net' = net + Sign(ordered[o].side) * n
  /\ cash' = cash - Sign(ordered[o].side) * (n * price * Multiplier)
  /\ UNCHANGED ordered

\* Any quantity may be ordered and traded: it is read off the next state, so
\* that a step can be evaluated without enumerating Nat.
Next ==
  \E o \in OrderIds :
    \/ \E side \in {"Buy", "Sell"}, quan \in {ordered'[o].quan} : Accept(o, side, quan)
    \/ \E price \in Prices, n \in {traded'[o] - traded[o]} : Trade(o, n, price)

Spec == Init /\ [][Next]_vars
=============================================================================
