------------------------------ MODULE OrderFlow ------------------------------
(***************************************************************************)
(* The life of a position's orders: Position, OrderManager and Order       *)
(* (lib/TFTrading), the portfolio the position reports to, and a broker    *)
(* reached through Interactive Brokers' TWS (lib/TFInteractiveBrokers).    *)
(*                                                                         *)
(* Calls are synchronous: one action is a call of Position's or of TWS's   *)
(* interface with every delegate it fires.  The broker acts by itself and  *)
(* its messages travel to the program: executions in one channel per       *)
(* order, states of the order in another, so an execution may arrive after *)
(* the cancellation it preceded.                                           *)
(*                                                                         *)
(* OrderManager runs without a database session here (m_pSession null).    *)
(***************************************************************************)
EXTENDS Orders, PositionRow, Sequences, FiniteSets

CONSTANTS OrderIds,        \* Identifiers of the orders of the position
          Quantities,      \* Quantities the strategy orders
          Prices,          \* Prices the broker executes at
          LateFills,       \* May an execution come after a later state?
          MaxOverfill      \* Units the broker may execute beyond an order

ASSUME ConstantsAssumption ==
  /\ Quantities \subseteq Nat \ {0}
  /\ Prices \subseteq Nat
  /\ LateFills \in BOOLEAN
  /\ MaxOverfill \in Nat

VARIABLES orders,          \* [OrderIds -> OrderRow]; quantity 0: not constructed
          open,            \* Position: m_vOpenOrders, as a set of ids
          row,             \* Position: m_row
          portfolio,       \* Portfolio: m_row, realized and commission
          brk,             \* Broker: what it did with each order
          fills,           \* Broker: the executions it made of each order
          seen,            \* How many of them the program was told of
          news             \* States of the order on their way to the program

programVars == <<orders, open, row, portfolio>>
brokerVars == <<brk, fills, news>>
vars == <<orders, open, row, portfolio, brk, fills, seen, news>>

BrokerStates == {"none", "working", "filled", "cancelled", "rejected"}
BrokerOrders == [state : BrokerStates, done : Nat, cancelReq : BOOLEAN]

\* cum is the quantity of the order executed with this execution included.
Fills == [size : Nat \ {0}, price : Prices, cum : Nat]

\* after: the executions the broker made before it sent the message.
Messages ==
  [kind : {"openOrder", "orderStatus"}, cancelled : BOOLEAN,
   total : Int, after : Nat]

Unpriced == -1             \* Commission not known yet (1e308 or more)

TypeOK ==
  /\ orders \in [OrderIds -> OrderRow]
  /\ open \subseteq OrderIds
  /\ row \in PositionRows
  /\ portfolio \in [realized : Int, commission : Int]
  /\ brk \in [OrderIds -> BrokerOrders]
  /\ fills \in [OrderIds -> Seq(Fills)]
  /\ seen \in [OrderIds -> Nat]
  /\ news \in [OrderIds -> Seq(Messages)]

Init ==
  /\ orders = [o \in OrderIds |-> NewOrder("Buy", 0)]
  /\ open = {}
  /\ row = EmptyRow
  /\ portfolio = [realized |-> 0, commission |-> 0]
  /\ brk = [o \in OrderIds |-> [state |-> "none", done |-> 0, cancelReq |-> FALSE]]
  /\ fills = [o \in OrderIds |-> <<>>]
  /\ seen = [o \in OrderIds |-> 0]
  /\ news = [o \in OrderIds |-> <<>>]

Constructed(o) == orders[o].quan > 0
Placed(o) == brk[o].state # "none"
-----------------------------------------------------------------------------
(* Calls of the strategy. *)

\* OrderManager finds an unused id, Position registers the order as open.
ConstructOrder(o, side, quan) ==
  /\ ~ Constructed(o)
  /\ orders' = [orders EXCEPT ![o] = NewOrder(side, quan)]
  /\ open' = open \cup {o}
  /\ UNCHANGED <<row, portfolio, brk, fills, seen, news>>

\* The order's quantity becomes pending, the broker gets the order.
PlaceOrder(o) ==
  /\ Constructed(o)
  /\ MaySend(orders[o])
  /\ row' = AddPending(row, orders[o].side, orders[o].quan)
  /\ orders' = [orders EXCEPT ![o] = SetSendingToProvider(@)]
  /\ brk' = [brk EXCEPT ![o].state = "working"]
  /\ UNCHANGED <<open, portfolio, fills, seen, news>>

\* A market order for the whole of what is active, on the other side.
ClosePosition(o) ==
  /\ ~ Constructed(o)
  /\ row.active # 0
  /\ row.sideActive # "Unknown"
  /\ LET side == IF row.sideActive = "Buy" THEN "Sell" ELSE "Buy"
     IN  /\ row' = AddPending(row, side, row.active)
         /\ orders' = [orders EXCEPT ![o] =
                         SetSendingToProvider(NewOrder(side, row.active))]
  /\ open' = open \cup {o}
  /\ brk' = [brk EXCEPT ![o].state = "working"]
  /\ UNCHANGED <<portfolio, fills, seen, news>>

\* Only an order still open is looked for, and only one that was placed has a
\* provider to send the request to.
CancelOrder(o) ==
  /\ o \in open
  /\ Placed(o)
  /\ brk' = [brk EXCEPT ![o].cancelReq = TRUE]
  /\ UNCHANGED <<orders, open, row, portfolio, fills, seen, news>>
-----------------------------------------------------------------------------
(* The broker, as its callbacks in IBTWS.cpp show it.  A fill is followed by *)
(* an openOrder with the commission of the order so far (one unit of money   *)
(* per unit traded); a cancellation by an openOrder and an orderStatus,      *)
(* which both say so.                                                        *)

OpenOrder(o, cancelled, done, after) ==
  [kind |-> "openOrder", cancelled |-> cancelled,
   total |-> IF done = 0 THEN Unpriced ELSE done, after |-> after]
OrderStatus(after) ==
  [kind |-> "orderStatus", cancelled |-> TRUE, total |-> Unpriced, after |-> after]

Execute(o, size, price) ==
  /\ fills' = [fills EXCEPT ![o] =
                 Append(@, [size |-> size, price |-> price, cum |-> brk[o].done + size])]
  /\ news' = [news EXCEPT ![o] =
                Append(@, OpenOrder(o, FALSE, brk[o].done + size, Len(fills[o]) + 1))]

\* A cancellation does not stop an execution already made at the exchange:
\* the rest of a cancelled order may still be filled, and reported, later.
BrokerFill(o) ==
  /\ brk[o].state \in (IF LateFills THEN {"working", "cancelled"} ELSE {"working"})
  /\ \E size \in 1 .. (orders[o].quan - brk[o].done), price \in Prices :
       /\ Execute(o, size, price)
       /\ brk' = [brk EXCEPT ![o].done = @ + size,
                             ![o].state = IF /\ @ = "working"
                                             /\ brk[o].done + size = orders[o].quan
                                          THEN "filled" ELSE @]
  /\ UNCHANGED <<programVars, seen>>

\* "Yes this has happened": more is executed than was ordered.
BrokerOverfill(o) ==
  /\ brk[o].state = "filled"
  /\ \E size \in 1 .. (orders[o].quan + MaxOverfill - brk[o].done), price \in Prices :
       /\ Execute(o, size, price)
       /\ brk' = [brk EXCEPT ![o].done = @ + size]
  /\ UNCHANGED <<programVars, seen>>

\* A cancellation, asked for by the program or decided by the broker.
BrokerCancel(o) ==
  /\ brk[o].state = "working"
  /\ brk' = [brk EXCEPT ![o].state = "cancelled"]
  /\ news' = [news EXCEPT ![o] =
                @ \o <<OpenOrder(o, TRUE, brk[o].done, Len(fills[o])),
                       OrderStatus(Len(fills[o]))>>]
  /\ UNCHANGED <<programVars, fills, seen>>

\* TWS::error prints the rejection and tells OrderManager nothing.
BrokerReject(o) ==
  /\ brk[o].state = "working"
  /\ fills[o] = <<>>
  /\ brk' = [brk EXCEPT ![o].state = "rejected"]
  /\ UNCHANGED <<programVars, fills, seen, news>>
-----------------------------------------------------------------------------
(* What the program does with the messages. *)

\* Portfolio::HandleExecution and HandleCommission: the position's value before
\* and after.  (Mutant: what the position had is not taken off.)
PortfolioExecutionTotal(p, old, new) == [p EXCEPT !.realized = @ + new]
PortfolioExecution(p, old, new) == [p EXCEPT !.realized = @ - old + new]
PortfolioCommission(p, old, new) == [p EXCEPT !.commission = @ - old + new]

\* TWS::execDetails -> OrderManager::ReportExecution -> Order::ReportExecution
\* -> Position::HandleExecution -> Portfolio::HandleExecution.  The row of the
\* position changes in any case.  When the order is not open any more
\* HandleExecution throws, OrderManager swallows the exception, and the
\* portfolio is not told.
DeliverExecution(o) ==
  /\ seen[o] < Len(fills[o])
  /\ LET exec == fills[o][seen[o] + 1]
         now  == ReportExecution(orders[o], exec.size)
         done == UpdateRowValues(row, orders[o].side, exec.size, exec.price)
     IN  /\ ExecutionFits(orders[o], exec.size)
         /\ orders' = [orders EXCEPT ![o] = now]
         /\ \/ /\ o \in open
               /\ row' = ReleasePending(done, exec.size)
               /\ open' = IF IsComplete(now) THEN open \ {o} ELSE open
               /\ portfolio' = 
                     PortfolioExecution(portfolio, row.realized, done.realized)
            \/ /\ o \notin open
               /\ row' = done
               /\ UNCHANGED <<open, portfolio>>
  /\ seen' = [seen EXCEPT ![o] = @ + 1]
  /\ UNCHANGED brokerVars

\* The checks of HandleCancellation: the order is open, and its remaining
\* quantity is pending ("problems" otherwise, which OrderManager swallows).
\* (Mutants: the order is not looked for; the last pending order is refused.)
ReleasableAgain(o) == row.pending >= orders[o].remaining
ReleasableExceptLast(o) == o \in open /\ row.pending > orders[o].remaining
Releasable(o) == o \in open /\ row.pending >= orders[o].remaining

\* TWS::openOrder reports the commission, when it is known, and then the
\* cancellation; TWS::orderStatus the cancellation only.
\* OrderManager::ReportCancellation -> Order::MarkAsCancelled
\* -> Position::HandleCancellation, which closes an order that is open.
\* A message may come again (stay at the head).
DeliverNews(o, again) ==
  /\ news[o] # <<>>
  /\ LET msg    == Head(news[o])
         charge == IF msg.total = Unpriced THEN 0
                   ELSE IncrementalCommission(orders[o], msg.total)
         priced == IF msg.total = Unpriced THEN orders[o]
                   ELSE SetCommission(orders[o], msg.total)
         paid   == [row EXCEPT !.commission = @ + charge]
     IN  /\ LateFills \/ msg.after <= seen[o]
         /\ portfolio' = PortfolioCommission(portfolio, 0, charge)
         /\ orders' = [orders EXCEPT ![o] =
                         IF msg.cancelled THEN MarkAsCancelled(priced) ELSE priced]
         /\ \/ /\ msg.cancelled /\ Releasable(o)
               /\ row' = ReleasePending(paid, orders[o].remaining)
               /\ open' = open \ {o}
            \/ /\ ~ (msg.cancelled /\ Releasable(o))
               /\ row' = paid
               /\ UNCHANGED open
  /\ news' = IF again THEN news ELSE [news EXCEPT ![o] = Tail(@)]
  /\ UNCHANGED <<brk, fills, seen>>
-----------------------------------------------------------------------------
Strategy(o) ==
  \/ \E side \in Sides, quan \in Quantities : ConstructOrder(o, side, quan)
  \/ PlaceOrder(o)
  \/ ClosePosition(o)
  \/ CancelOrder(o)

Broker(o) ==
  BrokerFill(o) \/ BrokerOverfill(o) \/ BrokerCancel(o) \/ BrokerReject(o)

Deliver(o) == DeliverExecution(o) \/ \E again \in BOOLEAN : DeliverNews(o, again)

Next == \E o \in OrderIds : Strategy(o) \/ Broker(o) \/ Deliver(o)

Spec == Init /\ [][Next]_vars
-----------------------------------------------------------------------------
(* Safety. *)

\* The executions of an order the program was told of.
Told(o) == {fills[o][i] : i \in 1 .. seen[o]}
ToldQuantity(o) == IF seen[o] = 0 THEN 0 ELSE fills[o][seen[o]].cum

\* Order's book-keeping: it has filled what it was told of, and what remains
\* is the rest of its quantity, or nothing when it was overfilled.
QuantityConserved ==
  \A o \in OrderIds :
    /\ orders[o].filled = ToldQuantity(o)
    /\ orders[o].remaining = IF orders[o].filled < orders[o].quan
                              THEN orders[o].quan - orders[o].filled ELSE 0

\* The units still to come from the orders that are placed and open.
PendingUnits ==
  UNION {{o} \X (1 .. orders[o].remaining) : o \in {p \in open : Placed(p)}}

\* Position's pending quantity is what its placed and open orders have left:
\* whatever mixture of partial fills, cancellations, repeated cancellations
\* and late fills came, each unit was released exactly once, and the
\* unsigned counter never wraps.
PendingIsOpenRemaining == row.pending = Cardinality(PendingUnits)

\* An order leaves m_vOpenOrders only when nothing more can be filled or
\* the broker has cancelled it, so what is dropped is never live.
ClosedOrdersAreOver ==
  \A o \in OrderIds :
    Constructed(o) /\ o \notin open => brk[o].state \in {"filled", "cancelled"}

\* Order's status tells the outcome, whatever the order of its executions,
\* overfills and cancellations: it is Filled only when nothing remains, and
\* when nothing remains it is Filled, unless the broker cancelled the order
\* and executed the rest of it all the same.
FilledMeansComplete ==
  \A o \in OrderIds : Constructed(o) =>
    /\ orders[o].status = "Filled" => orders[o].remaining = 0
    /\ orders[o].remaining = 0 =>
         orders[o].status = "Filled" \/ brk[o].state = "cancelled"

\* A position has a side exactly while it is not flat ("problems" is printed
\* otherwise), and its profits and losses are realized when it becomes flat:
\* what the rounded average leaves in the constructed value, to be carried
\* into the next round trip, is less than one unit of price for each unit
\* closed, whatever earlier round trips have left.
FlatIsRealized ==
  [][/\ row'.active = 0 <=> row'.sideActive = "Unknown"
     /\ row.active > 0 /\ row'.active = 0 =>
          row'.constructed \in 0 .. row.active * Multiplier - 1]_vars

\* What the order itself says: it was complete, or reported as cancelled.
CancelStatuses == {"Cancelled", "CancelledWithPartialFill", "FillingDuringCancel"}
WasOver(o) == orders[o].remaining = 0 \/ orders[o].status \in CancelStatuses

\* The portfolio realizes what its position realizes, step by step, with one
\* exception: an execution of an order that was complete before, or that was
\* reported as cancelled, counts in the position only.  An order that is
\* still wanted is never lost from the open ones, whatever came before.
PortfolioFollowsPosition ==
  [][portfolio'.realized - portfolio.realized = row'.realized - row.realized
     \/ \E o \in OrderIds : seen'[o] > seen[o] /\ WasOver(o)]_vars

\* What the orders were charged, one unit of money by one.
ChargedUnits == UNION {{o} \X (1 .. orders[o].commission) : o \in OrderIds}

\* The commission of the position and of the portfolio is the commission of
\* the orders: increments derived from the totals the broker repeats count
\* each charge once, and none is below zero.
CommissionIsCharged ==
  /\ \A o \in OrderIds : orders[o].commission >= 0
  /\ row.commission = Cardinality(ChargedUnits)
  /\ portfolio.commission = row.commission
-----------------------------------------------------------------------------
(* The position is a ledger of trades. *)

Ledger == INSTANCE TradeLedger WITH
  ordered <- [o \in OrderIds |-> [side |-> orders[o].side, quan |-> orders[o].quan]],
  traded <- [o \in OrderIds |-> orders[o].filled],
  net <- Net(row),
  cash <- Cash(row)

\* Every step of the program is a step of the ledger: an execution counts
\* once, at its size and price, with its side, whether it opens, extends,
\* reduces, closes or turns the position, late or not; nothing else moves
\* the quantity held or the money.
ImplementsLedger == Ledger!Spec
-----------------------------------------------------------------------------
(* Liveness.  Messages sent arrive, and the broker answers a request to       *)
(* cancel, unless it has filled or rejected the order before.                *)

Fairness ==
  \A o \in OrderIds :
    /\ WF_vars(DeliverExecution(o))
    /\ WF_vars(DeliverNews(o, FALSE))
    /\ WF_vars(brk[o].cancelReq /\ BrokerCancel(o))

FairSpec == Spec /\ Fairness

\* An order the strategy asked to cancel ends, one way or the other: it leaves
\* the open orders, unless the broker rejected it.
CancelEnds ==
  \A o \in OrderIds :
    brk[o].cancelReq ~> (o \notin open \/ brk[o].state = "rejected")

\* What the broker executed of the orders of one side.
Executed(side) ==
  UNION {{o} \X (1 .. brk[o].done) : o \in {p \in OrderIds : orders[p].side = side}}

\* In the end, however late the executions came, the position holds what the
\* broker executed, each order has filled what was executed of it, and the
\* commission of all of it is charged.
ExecutionsArrive ==
  <>[](/\ \A o \in OrderIds : orders[o].filled = brk[o].done
       /\ Net(row) = Cardinality(Executed("Buy")) - Cardinality(Executed("Sell"))
       /\ row.commission = Cardinality(Executed("Buy")) + Cardinality(Executed("Sell")))
=============================================================================
