----------------------------- MODULE OrderCombo -----------------------------
(***************************************************************************)
(* Orders on several positions that count as one: OrderCombo with its legs *)
(* (lib/TFTrading/Order_Combo.cpp), and the MonitorOrder of each leg,      *)
(* which keeps a limit order near the market (MonitorOrder.cpp).           *)
(*                                                                         *)
(* A leg places at most one order, so orders go by the name of their leg.  *)
(* Tick comes from a timer; the broker's executions and cancellations      *)
(* arrive in between, and executions after the cancellation too            *)
(* (Position.cpp:534).  A combo stays alive after it is done (its owner's  *)
(* choice), so that late reports find their monitor.                       *)
(*                                                                         *)
(* Prices are counted in ticks of one size (PriceInterval is 1), where     *)
(* NormalizePrice rounds a half up.                                        *)
(***************************************************************************)
EXTENDS Orders

CONSTANTS Combos,          \* Orders of several legs
          Positions,       \* Positions the legs trade
          Legs,            \* Legs of the combos
          LegOf,           \* [Legs -> combo, position, kind, side and quan]
          Held,            \* [Positions -> Nat], bought before the combos
          Quotes,          \* Pairs of bid and ask that an instrument shows
          Periods,         \* c_nAdjustmentPeriods
          MaxMoves         \* Bound on the changes of a quote

Kinds == {"leg_add", "leg_close"}

ASSUME OrderComboAssumption ==
  /\ LegOf \in [Legs -> [combo : Combos, position : Positions,
                         kind : Kinds, side : Sides, quan : Nat \ {0}]]
  /\ Held \in [Positions -> Nat]
  /\ Periods \in Nat \ {0}
  /\ MaxMoves \in Nat
  /\ Quotes \subseteq [bid : Nat \ {0}, ask : Nat]
  /\ \A l, k \in Legs : LegOf[l].combo = LegOf[k].combo
                        /\ LegOf[l].position = LegOf[k].position => l = k

VARIABLES combo,           \* OrderCombo: m_state, and the callback it has
          leg,             \* OrderCombo_TrackLeg: state
          mon,             \* MonitorOrder: m_state, m_CountDownToAdjustment
          orders,          \* The order of each leg; None: none
          position,        \* Position: units active (signed) and pending
          broker,          \* What the broker did with each order
          quote,           \* The last quote of each position's watch
          moves,           \* How often a quote has changed
          strayed          \* History: what orders sold of each position that
                           \* the owner was no longer waiting for

vars == <<combo, leg, mon, orders, position, broker, quote, moves, strayed>>
market == <<quote, moves>>

ComboStates == {"bare", "loading", "monitoring", "cancel", "done"}
LegStates == {"none", "leg_add", "leg_close", "active", "done"}
MonitorStates == {"NoPosition", "Available", "Active", "ManualCancel", "Filled", "Cancelled"}
BrokerStates == {"none", "working", "filled", "cancelled", "rejected"}

NoOrder == NewOrder("Buy", 0)
NoQuote == [bid |-> 0, ask |-> 0]

TypeOK ==
  /\ combo \in [Combos -> [state : ComboStates, callback : {"none", "submit", "cancel"}]]
  /\ leg \in [Legs -> LegStates]
  /\ mon \in [Legs -> [state : MonitorStates, countdown : 0 .. Periods]]
  /\ orders \in [Legs -> OrderRow]
  /\ position \in [Positions -> [active : Int, pending : Nat]]
  /\ broker \in [Legs -> [state : BrokerStates, price : Nat, done : Nat,
                          asked : BOOLEAN, told : BOOLEAN]]
  /\ quote \in [Positions -> Quotes \cup {NoQuote}]
  /\ moves \in 0 .. MaxMoves
  /\ strayed \in [Positions -> Nat]

Init ==
  /\ combo = [c \in Combos |-> [state |-> "bare", callback |-> "none"]]
  /\ leg = [l \in Legs |-> "none"]
  /\ mon = [l \in Legs |-> [state |-> "NoPosition", countdown |-> 0]]
  /\ orders = [l \in Legs |-> NoOrder]
  /\ position = [p \in Positions |-> [active |-> Held[p], pending |-> 0]]
  /\ broker = [l \in Legs |-> [state |-> "none", price |-> 0, done |-> 0,
                               asked |-> FALSE, told |-> FALSE]]
  /\ quote \in [Positions -> Quotes \cup {NoQuote}]
  /\ moves = 0
  /\ strayed = [p \in Positions |-> 0]

LegsOf(c) == {l \in Legs : LegOf[l].combo = c /\ leg[l] # "none"}
PositionOf(l) == position[LegOf[l].position]
QuoteOf(l) == quote[LegOf[l].position]
-----------------------------------------------------------------------------
(* MonitorOrder. *)

IsActive(m) == m.state = "Active"

Midpoint(q) == (q.bid + q.ask + 1) \div 2

\* AddLeg orders what it was told, ClosePosition the units that are active,
\* on the other side.
Quantity(l) ==
  IF LegOf[l].kind = "leg_add" THEN LegOf[l].quan
  ELSE IF PositionOf(l).active < 0 THEN - PositionOf(l).active
  ELSE PositionOf(l).active
Side(l) ==
  IF LegOf[l].kind = "leg_add" THEN LegOf[l].side
  ELSE IF PositionOf(l).active > 0 THEN "Sell" ELSE "Buy"

\* Without a quote, or with nothing to close, no order is placed.
MayPlace(l) == Quantity(l) > 0 /\ Midpoint(QuoteOf(l)) > 0

\* UpdateOrder: one tick towards the other side of the market.
\* (Mutant: a buyer goes after the bid.)
AdjustedToBid(order, price, q) ==
  IF order.side = "Buy" THEN IF q.bid > price THEN price + 1 ELSE price
  ELSE IF q.bid < price THEN price - 1 ELSE price
Adjusted(order, price, q) ==
  IF order.side = "Buy" THEN IF q.ask > price THEN price + 1 ELSE price
  ELSE IF q.bid < price THEN price - 1 ELSE price

\* The countdown of UpdateOrder; without a steady spread it waits a tick.
\* (Mutant: it is not set up again.)
CountedOnce(m, spreadOk) == m.countdown - 1
Counted(m, spreadOk) ==
  IF m.countdown > 1 THEN m.countdown - 1
  ELSE IF spreadOk THEN Periods ELSE 1

\* Whether a Tick adjusts the price.
Adjusts(m, spreadOk) == IsActive(m) /\ m.countdown = 1 /\ spreadOk

\* MonitorOrder::Tick
TickMonitor(m, spreadOk) ==
  CASE m.state = "Active" -> [m EXCEPT !.countdown = Counted(m, spreadOk)]
    [] m.state \in {"Cancelled", "Filled"} -> [m EXCEPT !.state = "Available"]
    [] OTHER -> m

\* (Mutant: the first execution ends the order.)
FilledByFirst(m, order) == IF IsActive(m) THEN [m EXCEPT !.state = "Filled"] ELSE m
\* HandleOrderFilled, when nothing remains: a monitor that is cancelling its
\* order does not notice, and stays as it is.
HandleOrderFilled(m, order) ==
  IF IsActive(m) /\ order.remaining = 0 THEN [m EXCEPT !.state = "Filled"] ELSE m

HandleOrderCancelled(m) ==
  IF m.state \in {"Active", "ManualCancel"} THEN [m EXCEPT !.state = "Cancelled"] ELSE m
-----------------------------------------------------------------------------
(* OrderCombo. *)

\* AddLeg and CloseLeg: the monitor gets its position.  The owner of the
\* combos trades a position again when the combo that traded it is done.
\* (A combo without legs calls its callback when it is submitted, and stays
\* as it is.)
Free(p, c) ==
  \A k \in Legs : LegOf[k].position = p /\ LegOf[k].combo # c /\ leg[k] # "none" =>
    combo[LegOf[k].combo].state = "done"

AddLeg(l) ==
  LET c == LegOf[l].combo
  IN  /\ combo[c].state \in {"bare", "loading"}
      /\ leg[l] = "none"
      /\ Free(LegOf[l].position, c)
      /\ combo' = [combo EXCEPT ![c].state = "loading"]
      /\ leg' = [leg EXCEPT ![l] = LegOf[l].kind]
      /\ mon' = [mon EXCEPT ![l].state = "Available"]
      /\ UNCHANGED <<orders, position, broker, market, strayed>>

\* With all its legs, Submit of the combo, of its legs, PlaceOrder or ClosePosition of their
\* monitors, and PlaceOrder of the positions.
Submit(c) ==
  /\ combo[c].state = "loading"
  /\ \A l \in Legs : LegOf[l].combo = c => leg[l] # "none"
  /\ combo' = [combo EXCEPT ![c] = [state |-> "monitoring", callback |-> "submit"]]
  /\ leg' = [l \in Legs |-> IF l \in LegsOf(c) THEN "active" ELSE leg[l]]
  /\ LET placed == {l \in LegsOf(c) : MayPlace(l)}
     IN  /\ mon' = [l \in Legs |-> IF l \in placed
                      THEN [state |-> "Active", countdown |-> Periods] ELSE mon[l]]
         /\ orders' = [l \in Legs |-> IF l \in placed
                         THEN SetSendingToProvider(NewOrder(Side(l), Quantity(l)))
                         ELSE orders[l]]
         /\ broker' = [l \in Legs |-> IF l \in placed
                         THEN [broker[l] EXCEPT !.state = "working",
                                                !.price = Midpoint(QuoteOf(l))]
                         ELSE broker[l]]
         /\ position' = [p \in Positions |->
              [position[p] EXCEPT !.pending =
                 IF \E l \in placed : LegOf[l].position = p
                 THEN @ + Quantity(CHOOSE l \in placed : LegOf[l].position = p) ELSE @]]
  /\ UNCHANGED <<market, strayed>>

\* A leg is done when its monitor is not active: the order is over, or was
\* never placed, or is being cancelled.  (Mutant: one leg is enough.)
SomeLegDone(c, m) == \E l \in LegsOf(c) : ~ IsActive(m[l])
AllLegsDone(c, m) == \A l \in LegsOf(c) : ~ IsActive(m[l])

\* Tick of the combo, of its legs and of their monitors; the spread of the
\* positions in ok is steady.
Tick(c, ok) ==
  /\ combo[c].state \in {"monitoring", "cancel"}
  /\ LET steady(l) == LegOf[l].position \in ok
         m == [l \in Legs |-> IF l \in LegsOf(c) THEN TickMonitor(mon[l], steady(l))
                                                ELSE mon[l]]
         moved == {l \in LegsOf(c) : Adjusts(mon[l], steady(l))}
     IN  /\ mon' = m
         /\ leg' = [l \in Legs |-> IF l \in LegsOf(c) /\ ~ IsActive(m[l])
                                    THEN "done" ELSE leg[l]]
         /\ broker' = [l \in Legs |-> IF l \in moved /\ broker[l].state = "working"
                         THEN [broker[l] EXCEPT !.price = Adjusted(orders[l], @, QuoteOf(l))]
                         ELSE broker[l]]
         /\ combo' = IF AllLegsDone(c, m) THEN [combo EXCEPT ![c].state = "done"] ELSE combo
  /\ UNCHANGED <<orders, position, market, strayed>>

\* Cancel of the combo, and CancelOrder of the monitors: an order still open
\* in its position is cancelled at the broker.
Cancel(c) ==
  /\ combo[c].state = "monitoring"
  /\ combo' = [combo EXCEPT ![c] = [state |-> "cancel", callback |-> "cancel"]]
  /\ LET asked == {l \in LegsOf(c) : IsActive(mon[l])}
     IN  /\ mon' = [l \in Legs |-> IF l \in asked
                      THEN [mon[l] EXCEPT !.state = "ManualCancel"] ELSE mon[l]]
         /\ broker' = [l \in Legs |-> IF l \in asked
                         THEN [broker[l] EXCEPT !.asked = TRUE] ELSE broker[l]]
  /\ UNCHANGED <<leg, orders, position, market, strayed>>
-----------------------------------------------------------------------------
(* The market and the broker. *)

MoveQuote(p) ==
  /\ moves < MaxMoves
  /\ \E q \in Quotes \ {quote[p]} : quote' = [quote EXCEPT ![p] = q]
  /\ moves' = moves + 1
  /\ UNCHANGED <<combo, leg, mon, orders, position, broker, strayed>>

\* A cancellation does not stop an execution already made at the exchange.
BrokerFill(l) ==
  /\ broker[l].state \in {"working", "cancelled"}
  /\ \E size \in 1 .. (orders[l].quan - broker[l].done) :
       broker' = [broker EXCEPT ![l].done = @ + size,
                    ![l].state = IF /\ @ = "working"
                                    /\ broker[l].done + size = orders[l].quan
                                 THEN "filled" ELSE @]
  /\ UNCHANGED <<combo, leg, mon, orders, position, market, strayed>>

\* A cancellation that was asked for, or one of the exchange.
BrokerCancel(l) ==
  /\ broker[l].state = "working"
  /\ broker' = [broker EXCEPT ![l].state = "cancelled"]
  /\ UNCHANGED <<combo, leg, mon, orders, position, market, strayed>>

\* A rejection is printed, and no order hears of it.
BrokerReject(l) ==
  /\ broker[l].state = "working" /\ broker[l].done = 0
  /\ broker' = [broker EXCEPT ![l].state = "rejected"]
  /\ UNCHANGED <<combo, leg, mon, orders, position, market, strayed>>

Marketable(l) ==
  IF orders[l].side = "Buy" THEN broker[l].price >= QuoteOf(l).ask
                            ELSE broker[l].price <= QuoteOf(l).bid

\* The owner counts on nothing more of an order whose combo is done, and whose
\* cancellation was asked for, or reported.
Stray(l) ==
  combo[LegOf[l].combo].state = "done" /\ (broker[l].asked \/ broker[l].told)

\* Order::ReportExecution: OnOrderFilled to the monitor, OnExecution to the
\* position; an order that was cancelled is no longer one of its open orders.
DeliverExecution(l) ==
  /\ \E size \in 1 .. (broker[l].done - orders[l].filled) :
       LET now == ReportExecution(orders[l], size)
           p == LegOf[l].position
       IN  /\ orders' = [orders EXCEPT ![l] = now]
           /\ mon' = [mon EXCEPT ![l] = HandleOrderFilled(@, now)]
           /\ position' = [position EXCEPT ![p] =
                [active |-> IF now.side = "Buy" THEN @.active + size ELSE @.active - size,
                 pending |-> IF broker[l].told THEN @.pending ELSE @.pending - size]]
           /\ strayed' = [strayed EXCEPT ![p] =
                IF Stray(l) /\ now.side = "Sell" THEN @ + size ELSE @]
  /\ UNCHANGED <<combo, leg, broker, market>>

\* Order::MarkAsCancelled: OnOrderCancelled to the position and to the monitor.
DeliverCancellation(l) ==
  /\ broker[l].state = "cancelled" /\ ~ broker[l].told
  /\ orders' = [orders EXCEPT ![l] = MarkAsCancelled(@)]
  /\ mon' = [mon EXCEPT ![l] = HandleOrderCancelled(@)]
  /\ position' = [position EXCEPT ![LegOf[l].position].pending = @ - orders[l].remaining]
  /\ broker' = [broker EXCEPT ![l].told = TRUE]
  /\ UNCHANGED <<combo, leg, market, strayed>>
-----------------------------------------------------------------------------
Owner == \/ \E l \in Legs : AddLeg(l)
         \/ \E c \in Combos : Submit(c) \/ Cancel(c)

Clock == \E c \in Combos, ok \in SUBSET Positions : Tick(c, ok)

Broker == \E l \in Legs : BrokerFill(l) \/ BrokerCancel(l) \/ BrokerReject(l)

Deliver == \E l \in Legs : DeliverExecution(l) \/ DeliverCancellation(l)

Next == Owner \/ Clock \/ Broker \/ Deliver \/ \E p \in Positions : MoveQuote(p)

Spec == Init /\ [][Next]_vars

\* The timer goes on, and a spread is steady again and again; messages arrive;
\* the broker executes an order that reaches the market, and cancels when asked.
Fairness ==
  /\ \A c \in Combos : WF_vars(Tick(c, Positions))
  /\ \A l \in Legs :
       /\ WF_vars(DeliverExecution(l)) /\ WF_vars(DeliverCancellation(l))
       /\ WF_vars(Marketable(l) /\ BrokerFill(l))
       /\ WF_vars(broker[l].asked /\ BrokerCancel(l))

FairSpec == Spec /\ Fairness
-----------------------------------------------------------------------------
(* Properties. *)

\* The program was told that the order of the leg ended.  (A leg that placed
\* none has nothing remaining.)
Ended(l) == orders[l].remaining = 0 \/ broker[l].told

\* A combo is done only when every order of its legs was reported filled or
\* cancelled, or was never placed; when the combo was cancelled, at least the
\* cancellation of the order is on its way.  Its owner may trade the positions
\* again, while orders were filled in part, cancelled by the exchange, or
\* filled and cancelled at once.
DoneMeansOver ==
  \A l \in Legs :
    LET c == combo[LegOf[l].combo]
    IN  c.state = "done" => Ended(l) \/ (c.callback = "cancel" /\ broker[l].asked)

\* Legs that close a position, one combo after the other, oversell it by no
\* more than what was sold behind the owner's back: by orders whose combo was
\* done, and that were being cancelled, or reported cancelled.
NeverOversold == \A p \in Positions : position[p].active + strayed[p] >= 0

\* A combo that was submitted is done in the end: the price goes to the
\* market until the order fills.  A rejected order is waited for.
ComboEnds ==
  \A c \in Combos :
    combo[c].state = "monitoring" ~>
      \/ combo[c].state = "done"
      \/ \E l \in LegsOf(c) : broker[l].state = "rejected"
=============================================================================
