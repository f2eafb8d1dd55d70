----------------------------- MODULE PositionRow -----------------------------
(***************************************************************************)
(* The row of a Position (lib/TFTrading/Position.h) and what an execution, *)
(* an order and a cancellation do to it.                                   *)
(*                                                                         *)
(* Money is counted in integers.  The code divides the constructed value   *)
(* by the active quantity to get an average cost, which a double rounds,   *)
(* and multiplies it by the executed quantity; here the average is rounded *)
(* down to a whole unit of price.  The rounding is coarser than that of a  *)
(* double, but it is made at the same place, and what it leaves stays in   *)
(* the constructed value, as in the code, when the position becomes flat.  *)
(***************************************************************************)
EXTENDS Integers

CONSTANT Multiplier        \* Instrument multiplier (m_dblMultiplier)

ASSUME MultiplierAssumption == Multiplier \in Nat \ {0}

PositionSides == {"Unknown", "Buy", "Sell"}

PositionRows ==
  [sidePending : PositionSides, pending : Nat,
   sideActive : PositionSides, active : Nat,
   constructed : Int, realized : Int, commission : Int]

EmptyRow ==
  [sidePending |-> "Unknown", pending |-> 0, sideActive |-> "Unknown",
   active |-> 0, constructed |-> 0, realized |-> 0, commission |-> 0]

\* The first pending order decides the pending side, the next ones do not
\* change it.
\* (Mutant: the order's quantity replaces what was pending.)
SetPending(row, side, quan) ==
  [row EXCEPT !.sidePending = IF row.pending = 0 THEN side ELSE @,
              !.pending = quan]

AddPending(row, side, quan) ==
  [row EXCEPT !.sidePending = IF row.pending = 0 THEN side ELSE @,
              !.pending = @ + quan]

\* Quantity that an execution or a cancellation takes out of pending.
ReleasePending(row, quan) ==
  [row EXCEPT !.pending = @ - quan,
              !.sidePending = IF row.pending = quan THEN "Unknown" ELSE @]

\* Value of quan units, positive for a purchase and negative for a sale.
Value(side, quan, price) ==
  IF side = "Buy" THEN quan * price * Multiplier ELSE - (quan * price * Multiplier)

\* Increase, or open, a position on the side of the execution.
Extend(row, side, quan, price) ==
  [row EXCEPT !.sideActive = side,
              !.active = @ + quan,
              !.constructed = @ + Value(side, quan, price)]

\* Average cost of one active unit, rounded.
\* (Mutant: the multiplier is forgotten.)
AverageUnscaled(row) == row.constructed \div row.active
AverageCost(row) == row.constructed \div (row.active * Multiplier)

\* Constructed value that quan of the active units take with them.
CostOf(row, quan) == quan * AverageCost(row) * Multiplier

\* Decrease a position by an execution on the other side, by at most what is
\* active: the difference to the cost is realized.
Reduce(row, side, quan, price) ==
  [row EXCEPT !.realized = @ - Value(side, quan, price) - CostOf(row, quan),
              !.active = @ - quan,
              !.constructed = @ - CostOf(row, quan),
              !.sideActive = IF row.active = quan THEN "Unknown" ELSE @]

\* Mutant: an execution larger than the position only closes it.
UpdateRowValuesOneStep(row, side, quan, price) ==
  IF row.sideActive \in {"Unknown", side} THEN Extend(row, side, quan, price)
  ELSE IF quan <= row.active THEN Reduce(row, side, quan, price)
  ELSE Reduce(row, side, row.active, price)

\* UpdateRowValues: an execution larger than the position it opposes closes
\* the position first and opens one on the other side with the rest.
UpdateRowValues(row, side, quan, price) ==
  IF row.sideActive \in {"Unknown", side} THEN Extend(row, side, quan, price)
  ELSE IF quan <= row.active THEN Reduce(row, side, quan, price)
  ELSE Extend(Reduce(row, side, row.active, price), side, quan - row.active, price)

\* Signed quantity held, and money received less money paid so far: what is
\* realized less what the open units cost.
Net(row) == IF row.sideActive = "Sell" THEN - row.active ELSE row.active
Cash(row) == row.realized - row.constructed
=============================================================================
