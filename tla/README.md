# Verification of trade-frame

TLA+ models of the parts of trade-frame that decide what happens to an order, and
of those that feed strategies with data: the orders, positions and portfolios of
`lib/TFTrading`, the state machines that trade for a strategy (monitored orders,
combos of them, round trips), the simulated market and the playback of
`lib/TFSimulation`, the delegates, the heap and the network connection of
`lib/OUCommon`, the subscriptions of `lib/TFIQFeed`, and the brokers and servers
as the program sees them. TLC checks the models on small instances;
TLAPS proves the central invariants for every value of the constants.

Paths below are relative to `src/`, without `src/`.

## 1. The system

trade-frame is a C++ library for trading applications, and the applications.
A strategy creates orders through a position; the position hands them to a
provider (Interactive Brokers, Alpaca, Phemex, or the simulator); the provider
reports executions, commissions, cancellations and errors, which pass through
the `OrderManager` to the order, from the order to the position, and from the
position to its portfolio.

    strategy -> Position -> OrderManager -> Provider -> broker or simulator
                   ^             |             |
    Portfolio <----+-- Order <---+-------------+   (reports, through Delegates)

| Component | State | Operations | Correct when |
|---|---|---|---|
| `Order` | row: side, quantities ordered, remaining and filled, status, commission | send, execution, commission, cancellation | filled is the sum of the executions, remaining the rest, the status says how it ended |
| `OrderManager` | open and completed orders by id, next id | construct, place, cancel, report an execution, a commission, a cancellation, an error | each report reaches its order, whether it is open or completed |
| `Position` | row: active and pending side and quantity, constructed value, realized profit, commission; open and closed orders | construct, place, close, cancel; handle executions, commissions and cancellations; quotes | quantity, cost and profit are those of the executions, each counted once; pending is what the open orders have left |
| `Portfolio` | row: realized and unrealized profit, commission; positions and sub-portfolios | handle a change of a position or of a sub-portfolio | its sums are those of its parts |
| `PortfolioManager` | portfolios and positions by id and name, a database session | construct, load, update | what is loaded is what was saved; nothing half constructed stays |
| Interactive Brokers (`IBTWS.cpp`) | symbols, contracts, an order reader | place, cancel; callbacks `openOrder`, `orderStatus`, `execDetails`, `error` | every callback is translated to a report |
| `OrderExecution` (`SimulateOrderExecution.cpp`) | delay queue, cancellation queue, market queue, books of asks, bids and stops, a map of the orders' places | submit, cancel, a quote | delays, price and time priority; each order is in one place; each executes up to its quantity |
| `SimulationInterface`, `SimulationProvider` | the symbols and their `OrderExecution`, the merge of the recorded series | place, cancel, run, stop | requests and replies reach the right instrument and order |
| `MonitorOrder` | a state, an order, a count of ticks | place, cancel, close, tick; the order filled or cancelled | exactly one order is live while it monitors; it ends |
| `OrderCombo` | legs with a monitor each | add and close a leg, submit, tick, cancel | done when every leg is done |
| `OrdersOutstanding` | round trips that wait for their entry to fill, and those that wait for an exit, by price; a phase of closing all | add, quote, entry filled or cancelled, exit filled or cancelled, close all | no unit is closed twice, and none forgotten |
| `Watch`, `ProviderInterface` | counts of watches, handlers by symbol | start and stop a watch; connect and disconnect | data flows for exactly what somebody watches, while connected |
| `Network`, IQFeed's `Provider` | the state of the connection, a timer, outstanding reads and sends, the tables of the exchange | connect, time out, disconnect, read; commands that start and stop a symbol | a connection is made or given up, a disconnection ends |
| `Delegate` (`OUCommon`) | a master list and a dispatched list of handlers, two counters, two spin locks | dispatch, add, remove, destroy | no list changes under an iterator; changes take effect |
| `MergeDatedDatums`, `SimulationProvider` | a heap of series, a state, a thread | add, run, stop | data in order of time, none lost; a stop stops it |
| Option combos (`TFOptionCombos`) | legs, trackers | open, roll, close | a rolled leg is closed and opened once |

Interaction is by direct, synchronous calls and by delegates. In the live system
the provider's thread reads the broker's socket and runs `OrderManager`'s
reports, while the strategy's thread constructs, places and cancels; in the
simulator the thread that merges the data runs everything, and a strategy is
called back from within a quote and calls the market again.

What makes the behaviour hard:

* **order of messages.** An execution may arrive after the report of a cancellation,
  of an order or of its rest (`Position.cpp:534` says so), a
  cancellation is reported by two callbacks, and every callback may repeat;
* **counters** that are unsigned (`row.quanPending`, `dwQuanRemaining`) and are
  released on several paths;
* **reversal and overfill.** One execution may close a position and open the
  other side, and a broker may execute more than was ordered;
* **callbacks.** Handlers add and remove handlers and orders while a list is
  iterated;
* **delay.** The simulated market acts on queues that a quote ripens, and a
  cancellation or a change may wait in one while the order moves in another;
* **threads.** Delegates are called, changed and destroyed by several threads;
* **races with the broker.** A monitor moves its limit price, a round trip cancels its
  exit, and a strategy closes everything, while the orders fill;
* **connections** that time out when they succeed, or end while watches are counted;
* **swallowed exceptions.** `OrderManager` catches what a handler throws, after
  some of the state has changed.

`PROJECT.json` lists these as hazards, at their lines.

## 2. Modules

| Module | Models | Used by |
|---|---|---|
| `Orders` | `Order.cpp`: the row of an order and its transitions, as operators | `OrderFlow`, `SimExecution`, `OrderCombo` |
| `PositionRow` | `Position.h` and `Position::UpdateRowValues`: the row of a position and what orders, executions and cancellations do to it | `OrderFlow` |
| `OrderFlow` | `Position`, `OrderManager`, the portfolio of the position, IBTWS's callbacks, and an external broker | `MCOrderFlow`, `OrderFlowProofs` |
| `TradeLedger` | abstract: a position as a ledger of trades | refined by `OrderFlow` |
| `SimExecution` | `OrderExecution` and the way from a strategy to it | `MCSimExecution`, `SimExecutionProofs` |
| `BrokerContract` | abstract: what the program expects of whoever executes its orders | refined by `SimExecution` |
| `Delegate` | `Delegate.h` and `SpinLock.h` | `MCDelegate`, `DelegateProofs` |
| `OrderCombo` | `Order_Combo.cpp` and the `MonitorOrder` of each leg | `MCOrderCombo`, `OrderComboProofs` |
| `Outstanding` | `OrdersOutstanding.cpp`, both classes | `MCOutstanding`, `OutstandingProofs` |
| `MarketData` | `Watch.cpp`, the handlers of `ProviderInterface.h`, IQFeed's `Provider.cpp`, `Network.h` | `MCMarketData`, `MarketDataProofs` |
| `MergeRun` | `SimulationProvider::Run`, `Merge`, `Stop`, `MergeDatedDatums.cpp`, `MinHeap.h` | `MCMergeRun`, `MergeRunProofs` |
| `SharedLemmas` | lemmas: what the operators of `Orders` do to a row; the sum of natural numbers over a finite set, as a set of units; the least number of a set | the modules of proofs |
| `OrderFlowProofs`, `SimExecutionProofs`, `DelegateProofs`, `OrderComboProofs`, `MarketDataProofs`, `OutstandingProofs`, `MergeRunProofs` | theorems and their proofs: an inductive invariant of each component, and what follows from it | |

`MCOrderFlow`, `MCSimExecution` and `MCDelegate` add the symmetry of the ids for
TLC, and `MCOrderFlow` the constraint `FewInFlight`: TLC goes no further from a state with more
than `MaxInFlight` messages on their way. `MCOrderCombo`, `MCOutstanding`, `MCMarketData` and
`MCMergeRun` define the legs, prices, watches and recordings of an instance.

Every definition that models code is listed under `map` in `PROJECT.json` with its
lines. Definitions that have "Mutant" in their comment are wrong on purpose: put in
the place of the definition after them, each makes the property fail that
`PROJECT.json` names, which shows that the property depends on that code.

### OrderFlow

State: `orders` are the rows (`Order::m_row`; quantity 0: not constructed), `open`
is `Position::m_vOpenOrders`, `row` is `Position::m_row`, `portfolio` the realized
profit and commission of `Portfolio::m_row`. `brk`, `fills`, `seen` and `news` are
outside of the program: what the broker did, its executions and how many of them
have arrived, and the messages on their way.

| Action | Code |
|---|---|
| `ConstructOrder` | `Position::ConstructOrder` -> `OrderManager::ConstructOrder`: registered as open |
| `PlaceOrder` | `Position::PlaceOrder` -> `OrderManager::PlaceOrder` -> `Order::SetSendingToProvider` |
| `ClosePosition` | `Position::ClosePosition`: a market order for what is active |
| `CancelOrder` | `Position::CancelOrder` -> `OrderManager::CancelOrder` -> the provider |
| `BrokerFill`, `BrokerOverfill`, `BrokerCancel`, `BrokerReject` | external |
| `DeliverExecution` | `TWS::execDetails` -> `OrderManager::ReportExecution` -> `Order::ReportExecution` -> `Position::HandleExecution` -> `Portfolio::HandleExecution` |
| `DeliverNews` | `TWS::openOrder` and `TWS::orderStatus` -> `ReportCommission`, `ReportCancellation` -> order -> position -> portfolio |

A call is one action with every delegate it fires, because the calls are
synchronous. Executions travel in one channel per order and states in another, so
they overtake each other when `LateFills` is TRUE; the broker then also executes what is left
of an order that it has cancelled. States may be delivered twice. What the broker executes
beyond an order (up to `MaxOverfill` units) comes in pieces of any size.

Abstractions:

* money is counted in integers. As the code does, `UpdateRowValues` divides the constructed
  value by the active quantity, multiplies the average by the quantity executed, and does not
  reset the constructed value when the position becomes flat. The average, a double in the
  code, is rounded down to a whole unit of price: this is coarser than a double, but made at the
  same place, so that a residue stays in the constructed value and goes into the next trade;
* the commission of the broker is one unit of money a unit, reported as a total;
* the assertions (`assert`) are taken to be compiled in, and are guards: of an action whose
  caller is expected to keep them (`MaySend`), and of `DeliverExecution` (`ExecutionFits`: an
  execution is not larger than what the order has left, unless it has nothing left). A broker
  that reports more in one piece stops the program, and nothing is said of what follows;
* no database session is open (`m_pSession` is null), so orders stay in memory;
* quotes, watches and unrealized profit are left out.

### SimExecution

State: `orders` are the rows, `track` is `m_mapOrderState`, `delay` and `cancels` are the two
delay queues, `book` the market queue, the multimaps of asks and bids in their order, and
the stops. `stage` is the queue a quote is at. `failed` says that an assertion failed, after
which the program has stopped. `kind`, `price`, `age` and `asked` are the orders'
attributes; an age counts the ticks of the clock since the submission, up to `MaxAge`.
`mixed` is history, which no action reads: a change has taken the entry of another order out
of a book.

| Action | Code |
|---|---|
| `PlaceOrder`, `CancelOrder` | `SimulationInterface::PlaceOrder`, `CancelOrder` -> `OrderExecution::SubmitOrder`, `CancelOrder` |
| `ChangeOrder` | `MonitorOrder::UpdateOrder`, to an order of this market |
| `NewQuote` | `ProcessOrderQueues` begins |
| `ProcessCancelQueue`, `ProcessDelayQueue` | one turn of the loop of the function with this name, with the callbacks it makes, or its end |
| `ProcessOrders` | `ProcessMarketOrders`, or else `ProcessLimitOrders`, and the end of the quote |
| `Tick` | the clock, between quotes |

A strategy is called back from within a quote and may place and cancel orders there: `PlaceOrder`
and `CancelOrder` happen at any stage, the other calls between quotes. The prices and sizes of
a quote are chosen at `ProcessOrders`, where the code first reads them. Stop orders are
accepted, kept in their book and never executed, as in the code.

An order may be cancelled at any time, also while it is delayed: when the cancellation is
processed before the order has left its queue, the assertion at line 599 fails, in the model as
in the code. A change shows in the order's row at once, which the books share, and the order
enters the delay queue again with the time of its first submission, any number of orders
resting. `DelayOne` does with the old entry what `SimulateOrderExecution.cpp:411-440` does: it
takes the front of the asks, or of the bids when there are no asks (`OldBook`), whichever order
that belongs to (`OldIs`), after the assertion on its side (`OldFits`).

### Delegate

State: the two lists, the two atomic counters, the holders of the two spin locks, and
for each thread where it is (`pc`) and its iterators (`stack`), since a handler may
dispatch again. Each access to an atomic is a step of its own; the lists are only
accessed under a lock or while the count holds it. `Ask` is the call of `Add` or `Remove`,
which then waits for the lock of the updates with all the others; which of the two it is, and
its handler, is chosen when it has the lock. Threads interleave as if memory
were sequentially consistent. `SpinLock::wait` takes the lock and gives it back: one
step, enabled when the lock is free. A delegate is not called from outside when its
destruction has begun, and does not destroy itself from its own handler. `skipped` is history:
since the last copy, a change was left although nobody will come for it, because the second
test found a dispatch (`Recheck`), or because a handler threw out of the last dispatch (`Throw`).

### OrderCombo

State: `combo` and `leg` are the states of `OrderCombo` and its `TrackLeg`s, `mon` the state
and countdown of each leg's `MonitorOrder`, `orders` the rows of the orders (a leg places at
most one), `position` the units active and pending of each position, `quote` the last quote
of its watch. `broker` is outside: what was done with each order, and what was told. `strayed` is
history: the units that orders sold of a position when their combo was done and their
cancellation asked for or reported.

| Action | Code |
|---|---|
| `AddLeg` | `OrderCombo::AddLeg`, `CloseLeg` |
| `Submit` | `OrderCombo::Submit` -> `TrackLeg::Submit` -> `MonitorOrder::PlaceOrder`, `ClosePosition` -> `Position::PlaceOrder`: without a quote or a quantity no order is placed |
| `Tick` | `OrderCombo::Tick` -> `TrackLeg::Tick` -> `MonitorOrder::Tick` -> `UpdateOrder` |
| `Cancel` | `OrderCombo::Cancel` -> `MonitorOrder::CancelOrder` |
| `DeliverExecution`, `DeliverCancellation` | the order's delegates -> `MonitorOrder::HandleOrderFilled`, `HandleOrderCancelled`, and the position |
| `MoveQuote`, `BrokerFill`, `BrokerCancel`, `BrokerReject` | external |

Prices are counted in ticks. Two positions of a combo share nothing, so a tick of several
legs is one action. Executions and the report of a cancellation arrive in any order, and the
broker may execute what is left of an order after it was told cancelled: the position then
counts the execution, and its pending quantity, which the cancellation released, stays. The
owner submits a combo on a position when the one before it has
called back; it keeps a combo that is done alive, since the monitors listen to the orders.

### Outstanding

State: `trips` holds each `structRoundTrip` with the container it is in
(`m_mapEntryOrdersFilling`, `m_mapOrdersToMatch`, `m_vCompletedRoundTrips`), `cac` is
`m_stateCancelAndClose`, `entry` and `exits` are what the broker did with the orders,
`closed` counts the units that exits have traded.

| Action | Code |
|---|---|
| `Enter` | `CancelAllButNEntryOrders` and `AddOrderFilling`, as strategies call them |
| `HandleQuote` | `CheckBaseOrder`, `CancelAndCloseInProgress` and the loop over the trips, of `Longs` when `side` is Buy, of `Shorts` when it is Sell |
| `CancelAllMatchingOrders`, `CancelAndCloseAllOrders` | the functions with these names |
| `DeliverEntry` | `HandleBaseOrderFilled`, `HandleBaseOrderCancelled` |
| `DeliverExit` | `HandleMatchingOrderFilled`, `HandleMatchingOrderCancelled` |
| `GetOld` | the half minute of an entry and the hour of a trip, at any time |
| `FillEntry`, `EndEntry`, `FillExit`, `CancelExit`, `FillLoose`, `SettleLoose` | external: the broker |

An entry has any quantity and fills a unit at a time, before and after it was cancelled; an
exit is for one unit, as in the code. The report of a cancellation may overtake executions.
After it the handlers are removed and the slot of an exit is used again; `loose` counts the
exits of a trip that were told cancelled and may trade yet, and `strayed`, which is history,
those that did.

### MarketData

State: `net`, `attempt`, `timers`, `reading`, `sending` and `up` are the connection (`Network.h`):
`reading` is `m_lReadProgress`, `sending` that `m_cntActiveSends` is above zero, `ending` that
`OnNetDisconnecting` has been called and posts itself until both are over. `lookup`
is `SymbolLookup`, whose end makes the provider `connected`; `symbol` is what IQFeed's
symbol believes to watch and what the server sends; `count` and `watching` are those of each
`Watch`.

| Action | Code |
|---|---|
| `StartWatch`, `StopWatch` | `Watch::StartWatch`, `EnableWatch`, `StopWatch`, `DisableWatch` -> `AddQuoteHandler`, `AddTradeHandler`, `Remove...` -> IQFeed's `StartQuoteWatch` ... -> `UpdateQuoteTradeWatch` -> `Network::Send` |
| `Connect`, `OnTimeOut`, `OnConnectDone`, `OnReadDone`, `OnNetDisconnecting` | the functions of `Network` with these names, and `Provider::Connect` |
| `OnNetworkLineBuffer` | a line of the server that is answered with a command |
| `OnSendDone` | `OnSendDoneCommon`, of the last command under way |
| `LookupDone` | `IQFeed`'s lookup -> `Provider::OnIQFeedConnected` -> `ProviderInterface::ConnectionComplete` -> `Watch::HandleConnected` |
| `Disconnect` | `Provider::Disconnect` -> `Watch::HandleDisconnecting`, `Network::Disconnect` |
| `Answer`, `Drop` | external: the server |

Whoever changes the state of a symbol while the network is connected sends a command
(`Commands`), `Disconnect` among them. The shutdown of a socket may throw when the other end was
lost before (`Network.h:394`): `OnNetDisconnecting` is then never called, and the network
stays DISCONNECTING (`ShutdownThrew`).

A handler is one step, although the owner's thread and the thread of the lookup may run
two of them at once. A success that is queued when the time-out has closed the socket, and
a `Connect` while the network is not disconnected, end the program (`failed`).

### MergeRun

State: `recorded` are the series; `thread` and `added` say where
`SimulationProvider::Merge` is; `request` and `state` are those of `MergeDatedDatums`; `heap`
and `active` are `CMinHeap`'s vector and count; `next` is the datum each carrier holds; `clock`
is the simulated time; `at` is the carrier that a sift moves. `ProcessRoot` is one turn of the
loop in `MergeDatedDatums::Run`, with `ProcessDatum` and then the swap of `ArchiveRoot`;
`SiftUp` and `SiftDown` are one turn of the loops in `MinHeap.h`. `Stop` may come at any
moment, between the turns of a sift as well.

## 3. Runs

Bounds are named in the `.cfg` files. Cycles through every branch need few orders:
two orders on two sides build, reduce, close and turn a position; a quantity of two
gives partial fills. The exact bounds:

| Run | Bounds | Shows |
|---|---|---|
| `OrderFlowLate` | 2 orders of 2 units, or closing what is active; prices 1 and 2, multiplier 2; executions before and after the report of a cancellation; at most 3 messages on their way | `PendingIsOpenRemaining`, `ClosedOrdersAreOver`, `FlatIsRealized`, `PortfolioFollowsPosition`, `CommissionIsCharged`, `ImplementsLedger`, the type invariant |
| `OrderFlowLive` | 1 order of 1 to 3 units and up to 2 more, prices 1 and 2, multiplier 2, late executions; fairness | `QuantityConserved`, `FilledMeansComplete`, `CancelEnds`, `ExecutionsArrive` |
| `SimMarket` | 2 market or limit orders of 2 units, prices 1 and 2, quotes of 0 to 2 units, delay of 1 tick, 2 requests to cancel queued at most; no changes | `PriceTimePriority`, the type invariant |
| `SimLive` | 2 market, limit or stop orders of 2 units, prices 1 and 2, quotes of 0 or 1 unit, no delay, 1 request or change queued at most; limit orders are changed; fairness | `OrdersInPlace`, `NothingElseFails`, `DelayRespected`, `ImplementsBroker`, `CancelsEnd`, `MarketOrdersEnd` |
| `SimMoved` | 2 limit orders of 1 unit, changed while both rest | finding: a changed order is in the book twice |
| `Combo` | a combo that closes 2 units of a position and opens another one, and a combo that closes the first position again; late executions; one quote that appears | `DoneMeansOver`, `NeverOversold`, the type invariant |
| `ComboLive` | the first of these combos, quotes that move, a countdown of 2 ticks; fairness | `ComboEnds` |
| `Outstanding` | 2 round trips of 2 units, long or short, 2 exits at a time for each, entered at 2 with a stop at 2, quotes of 0 to 3; at most 1 exit told cancelled that may trade, and 1 unit that such exits traded; fairness | `NeverOverclosed`, `ForgottenIsGivenUp`, `CloseEnds`, the type invariant |
| `MarketData` | 3 watches of 2 symbols, 2 starts each, 3 connections; fairness | `FeedFollowsWatches`, `ConnectionStays`, `NetworkSettles`, the type invariant |
| `MergeRun` | 5 series of up to 2 datums at times 1 to 3 | `MergedInOrder`, `AllDelivered`, the type invariant |
| `DelegateThreads` | 2 threads, 2 handlers, dispatches nested twice, exceptions, destruction; fairness | `CopyExcludesDispatch`, `ListIsStable`, `EndedAfterDispatch`, `NothingElseIsLost`, `LocksAreObtained`, the type invariant |
| `DelegateLost` | 2 threads, no nesting | finding: a change is not dispatched and no longer counted |

Deadlock is checked except where the system may stop: when all orders have ended,
after a failed assertion, after the delegate's destruction, when the combos or the run
are over. The bounds are enough for the hazards: two orders at rest are what it takes for a
change to take the wrong entry; an order of two units fills in part before and after it is
cancelled; two legs and a second combo on a position of the first are what it takes to trade a
position twice; two trips give a phase of closing something to wait for, two exits a trip a
second one beside one that is being cancelled, and two units an entry that is cancelled with
a fill and can still trade; two watches of a symbol and one of another tell the first and the
last of a symbol from others, and a third connection meets the timer of the first; five
series are the smallest heap in which a node below the root has two leaves, and one when a
series has been archived; two threads that nest are what it takes for the two locks to be held
by different threads while a handler asks for one.

### What the properties say

* `PendingIsOpenRemaining`: the pending quantity of the position is the sum of what its
  placed open orders have left. Three paths release pending quantity (execution,
  overfill, cancellation) and the messages may repeat and overtake each other.
* `ClosedOrdersAreOver`: an order is dropped from the open ones only when the broker has
  filled or cancelled it (and may then execute the rest all the same, late). Rejected orders
  stay open for ever: TWS's errors are printed and not reported.
* `FlatIsRealized`: when an execution makes the position flat, its profits and losses are
  realized. `UpdateRowValues` does not reset the constructed value; the property bounds what a
  closing execution leaves of it by the rounding of this one average (less than one unit
  of price for each unit closed), whatever residues the round trips before have left.
* `PortfolioFollowsPosition`: a step changes the portfolio's realized profit as it does the
  position's, unless it delivers an execution of an order that was complete, or reported as
  cancelled, before (`WasOver`): then the position's row changes, the handler throws
  (`Position.cpp:536`), and the portfolio is not told. Steps after such an execution, and
  executions of an order that is being cancelled, are not excluded.
* `CommissionIsCharged`: increments taken from repeated totals count each charge once.
* `QuantityConserved`: an order's filled and remaining quantity are those of the executions it
  was told of, also above its quantity.
* `FilledMeansComplete`: a Filled order has nothing left, and one that has nothing left is
  Filled, unless the broker cancelled it and executed the rest all the same; it may then be
  CancelledWithPartialFill for good (`Order.cpp:133-136`).
* `ImplementsLedger`: each step of the whole program is at most one trade of the
  ledger, with the size, price and side of the execution, or nothing.
* `OrdersInPlace`: the four containers and the map of the simulated market agree, until a change
  takes out the entry of another order.
* `NothingElseFails`: which ways there are to fail an assertion: an order that is cancelled in its
  delay, a change whose removal meets an order of the other side, and what follows a change
  that took another order's entry.
* `OneVersion`: an order is in a book at most once. It is violated (`SimMoved`).
* `ImplementsBroker`: each order of the simulated market executes up to its quantity
  and ends once, until a change takes out the entry of another order.
* `DelayRespected`: no order executes, and no cancellation takes effect, before the delay is over
  since it was submitted, or asked for. It does not say so of a changed price, which
  keeps the time of the order's submission and is at the market at the next quote.
* `PriceTimePriority`: the limit order that executes is at the front of its book, and no entry
  is better priced, nor as well priced and older. The part about age is said where no prices
  change: a changed order is inserted as if it were new, with the age of its submission.
* `CancelsEnd`, `MarketOrdersEnd`, `CancelEnds`: what must happen in the end.
* `ExecutionsArrive`: in the end every execution is in the order, its price in the cash of
  the position, and its charge in the commission, those after a cancellation too.
* `DoneMeansOver`: when a combo is done, each order of its legs was told filled or cancelled, or
  was never placed; of a combo that was cancelled, at least a cancellation was asked
  for. A monitor leaves Active only in a handler of its order, or by `Cancel`.
* `NeverOversold`: what is active in a position and what strayed (sold by orders of combos that
  were done, after their cancellation was asked for or told) is never below zero: legs of one
  combo and of the next that close the same position do not sell the same units twice but
  by such an execution, which the code cannot help.
* `ComboEnds`: the price of an order reaches the market in the end, and the combo is done.
* `NeverOverclosed`: exits in the market and units that exits have closed are never more than the
  one unit of an entry that traded, and the units of exits that traded although they were told
  cancelled (`strayed`): each of these closes a unit again.
* `ForgottenIsGivenUp`: what a trip still holds when it leaves the containers is known. One that
  was completed holds the units beyond the first, for which the code places no exit; one whose
  entry was cancelled holds what this entry traded before or after the report, which
  nobody closes.
* `CloseEnds`: closing everything ends. It waits for ever for a rejected entry, and for a
  closing order that the exchange cancels; both are excluded.
* `FeedFollowsWatches`: while the connection works, the server sends data of exactly the
  symbols somebody watches.
* `ConnectionStays`: a connection that was made ends only by a `Disconnect` of the owner, whatever
  timers and answers of earlier attempts are still to come; and it is over for the owner only
  when no read and no command is outstanding.
* `NetworkSettles`: a connection is made or given up, and a disconnection ends, unless the
  shutdown of the socket threw.
* `MergedInOrder`, `AllDelivered`: whatever the shape of the heap, time does not go back and
  no datum is lost.
* `CopyExcludesDispatch`, `ListIsStable`, `EndedAfterDispatch`: nobody changes or ends
  the list somebody iterates. `EndedAfterDispatch` is about the iterators only: the end of
  operator(), after the count is given back, is not covered.
* `ChangesAreDispatched`: when nobody uses the delegate, what is dispatched is what
  was added and not removed. It is violated (`DelegateLost`).
* `NothingElseIsLost`: it holds but for the two ways in which the code leaves a change (`skipped`).
* `LocksAreObtained`: a thread that comes for one of the two locks, in operator(), in `Add` or
  `Remove`, from outside or from a handler that holds up other dispatches, gets it.

### Fairness

* `OrderFlow`: messages that were sent arrive (the socket is a reliable stream and the
  provider's thread reads it), and the broker answers a request to cancel an order
  that is still working. Nothing is assumed of the strategy, or that orders fill.
* `SimExecution`: quotes come and the thread that merges the data takes each through its
  stages (weak fairness). The clock goes on between quotes, and again and again a quote has
  some size on both sides (strong fairness, since a strategy may place orders without end
  while the quote is at a stage). When the data ends, so does the simulation.
* `Delegate`: a thread in operator(), Add or Remove goes on (weak fairness), and an
  exchange on a spin lock that is free again and again succeeds (strong fairness).
  Nothing is assumed of handlers.

* `OrderCombo`: the timer ticks, and the spread of a position is steady again and again;
  reports arrive, the broker answers cancellations and executes an order whose price
  reaches the other side of the market. Nothing is assumed of the quotes.
* `Outstanding`: quotes go on while everything is being closed, reports arrive, the broker
  executes market orders and answers requests to cancel.
* `MarketData`: the thread of the network runs its completions, timers end, what is sent is
  written or fails, a read of a socket that was shut down returns, the lookup
  answers. Nothing is assumed of the server: an attempt to connect may have no answer.

### Findings

They are runs that TLC ends with a counterexample to what a comment says.

* **A change of a delegate is lost** (`DelegateLost`). `VectorReplace` clears the count
  of changes also when its second test finds a dispatch and it copies nothing
  (`Delegate.h:214`).
* **A change takes another order out** (`SimMoved`). The search for the old version of a changed
  order (`SimulateOrderExecution.cpp:421`, 432) compares the order's id with itself and removes
  the front of the asks, or of the bids when there are no asks: the changed order is then in the
  book twice, and another one in none.

### Divergences without a run of their own

* **Cancelling in the delay.** `SimulateOrderExecution.cpp:517` doubts that a cancellation can
  meet its order in the delay queue. Cancellations are processed before delayed orders, so
  an order that is placed and cancelled between two quotes is in no book yet when both are
  ripe, and the assertion at line 599 fails. `NothingElseFails` lists it (`EarlyCancel`).
* **Commission per fill.** `SimulateOrderExecution.cpp:112` passes the commission of one fill
  where `Order::SetCommission` takes the total (`Order.cpp:190`).
* **A cancellation reported twice** reaches the branch that `Order.cpp:214` calls not
  reachable, and hides that the order was partly filled.
* **Pending on one side.** `Position.h:110` says that pending orders are on one side, and the
  check for it is commented out (`Position.cpp:295`).
* **Waiting for dispatches.** `Delegate.h:119` waits "for dispatch to finish", and operator()
  gives its count back before it is done (line 136, then 147 to 151).
* **Cancelling once.** `OrdersOutstanding.cpp:247` says to cancel an exit "only do once, so look
  at status": the status changes only with a closing order, so every quote cancels again.
* **A limit exit that stays.** A trip whose closing order was cancelled stays `Closing`
  (line 248), and the limit order it places later is never cancelled.
* **Reconnecting.** `IQFeed.h:119` looks the tables up when they are empty, and only the end
  of the lookup makes the provider connected: a second connection is never complete.
* **Stopping early.** `MergeDatedDatums.cpp:75` overwrites a stop that came before the run, after
  `SimulationProvider.cpp:248` has printed that it stops; `m_pMerge` is not reset, so that a
  second `Run` says that the simulation is in progress.

## 4. Proofs

tlapm checks `SharedLemmas` and the modules of proofs with Z3, Zenon and LS4.

**OrderFlow**, for any finite or infinite set of orders, quantities and prices, any
multiplier above zero, with late executions or not, and any overfill. Assumptions:
`ConstantsAssumption`, `MultiplierAssumption`. The proof is by the invariant

    IInv == TypeOK /\ (\A o : BrokerInv(o) /\ OrderInv(o)) /\ PendingInv /\ RowOK(row)

`TypeOK` alone is not inductive: `row.pending` and `remaining` are natural numbers that
messages decrease, and stay natural only because

* `BrokerInv`: the executions of an order add up (`cum`), and exceed its quantity only
  after it was filled;
* `OrderInv`: the order has filled what it was told of, what remains is the rest, and only
  orders that ended are not open;
* `PendingInv`: pending is the number of units that the placed open orders have left.
  Pending is stated as the cardinality of a set of units, not as a sum, so that it can
  be proved without induction over the orders; `SharedLemmas` has the lemmas that
  one step needs (an order is added, reduced, dropped);
* `RowOK`: the active side is unknown exactly when nothing is active.

One lemma per action (`PlaceOrderStep`, `DeliverExecutionStep`, ...) shows that it
preserves `IInv`; `StepInv` combines them. From it follow `TypeCorrect`,
`QuantityIsConserved`, `PendingIsReleasedOnce`, `DroppedOrdersAreOver`, and `Refinement`:
`Spec => ImplementsLedger`, where `UpdateRowValuesTrades` is the lemma that an execution
that extends, reduces, closes or turns the position changes quantity and cash by
exactly one trade.

Four results about money and status stand on it:

* `ClosingRealizes`: of all steps only a delivered execution changes what is active, and one that
  closes leaves the rest of one division in the constructed value (`Residue`, `CostOfFacts`),
  whatever was in it before;
* `StatusTells`, by `SInv`, which adds `StatusInv`: a status of cancellation means that the broker
  cancelled, and an order that left the open ones was complete or told cancelled. An execution
  that leaves nothing of an order that the broker did not cancel makes it Filled, and no
  repeated report changes that; one that the broker executed after its own cancellation may
  stay CancelledWithPartialFill, which the theorem allows;
* `PortfolioFollows`: by `StatusInv`, an execution that the position counts without telling the
  portfolio is one of an order that was over before, and every other step changes both alike or
  none (`StrategyNeutral`, `BrokerNeutral`, `NewsNeutral`);
* `CommissionIsCountedOnce`, by `CInv`, which adds `PricedInv` (the totals on their way are known
  or natural, and an order that was not placed was charged nothing) and `ChargeInv` (the
  commission is the number of units of money charged, counted as the pending quantity is): a
  total that comes again adds nothing.

**Delegate**, for any finite set of threads, any handlers and any bounds. The invariant
says that the count of dispatches is the number of iterators in use, that each lock's
holder is where it holds it, and that a thread between the second test and the end of
the copy excludes every iterator that has begun. From it follow `CountsIterators`,
`TypeCorrect`, `CopiesAlone`, `ListsAreStable` and `ListsOutliveIterators`.

`ChangesArrive` says that a change is dispatched when the delegate is at rest, or was skipped in
one of the two ways that `skipped` records; it holds for any number of threads, nested dispatches
and handlers that throw. `UpdateInv`: who tests and copies holds the lock of the updates.
`ChangeInv`: a change that is not dispatched is counted, and somebody comes for it
(`Coming`): a dispatch, whose end looks at the count, or a thread on its way to the copy.

**SimExecution**, for any finite set of orders, any quantities, prices, sizes of quotes and
delay, under `SimConstantsAssumption` alone: orders are cancelled and changed at any time, any
number of them resting. The invariant has three layers:

    AllInv == BaseInv /\ (mixed \/ IInv) /\ InTime

* `BaseInv` holds whatever happens, also after a change has taken out the entry of another order:
  types; `PlacedInv`, only orders that were placed wait or execute; `StandsInv`, an entry of a
  book belongs there and its order has waited for the delay; `SortedInv`, the books are sorted
  by price;
* `IInv` holds until then: `OrderInv`, what each order has filled and has left, and where
  `m_mapOrderState` says it is; `BooksInv`, an entry of a book is of an active order, which has
  one entry only; `DelayInv`, `CancelsInv`, what may stand in the queues: a changed order may
  wait there again while it rests, has ended, or has been cancelled, and a cancellation may be
  of an order that is still delayed;
* `InTime`: where no prices change nothing is mixed, and `PriorityInv` holds: `LinesInv`, entries
  of one price are in order of age; `WaitInv` and `YoungerInv`, the delay queue is sorted by
  age, and those who wait are not older than those who rest.

There is a lemma for each action (`PlaceOrderKeeps`, ..., `ProcessOrdersKeeps`), and `LeavesKeeps`
and `EntersKeeps` for what all of them do: an entry leaves a book or enters one. `MixedSteps` says
that only a change mixes the books, and not where limits stay. From `BaseInv` follow
`TypeCorrect` and `DelayHolds`; from it and `IInv`, `InPlaceHolds`, `NothingElse` (the three ways
to fail an assertion) and, with `Steps` (what a step may do to an order), `Refinement`:
`Spec => ImplementsBroker`; from `SortedInv` and `PriorityInv`, `PriorityHolds`.

**OrderCombo**, for any sets of combos, legs and positions, any quotes and any countdown, under
`OrderComboAssumption`. Four invariants, of which the first is inductive on its own and the
others lean on it:

* `TrackInv`, leg by leg: a monitor that is not Active has no order, or one whose end it was told
  of; when its combo was cancelled, one whose cancellation was asked for. A monitor leaves
  Active only in a handler of its order or by `Cancel`, and `Tick` calls back only when all have
  left. From it follows `DoneCombosAreOver`;
* `Apart`: of two legs that trade a position, one belongs to a combo that is done;
* `LongInv`, when legs are added only to buy (`LongOnly`): what is active and what strayed
  (`Unstrayed`) is never below zero, and a selling order of a combo that is not done (`Awaited`)
  has no more left than that. It is placed for what is active (`ClosePosition`), and by `Apart`
  nothing else trades the position while its combo works but orders of combos that are
  done: those sell on account of `strayed`. From it follows `NeverSellsTooMuch`, whose
  assumption is `LongOnly`: the theorem says nothing of combos that sell options short;
* `PendingInv`: the units pending of a position are those that its orders have left until they
  are told cancelled (`Live`), as the
  cardinality of a set of units, with the lemmas of `SharedLemmas`. From it follows
  `TypeCorrect`, in which pending is never below zero.

**MarketData**, for any sets of watches and symbols and any bounds, under
`MarketDataAssumption`. `FeedFollowsWatches` says nothing of a symbol while the connection is
down, but what is done then decides what is sent later. The invariant adds

* `NothingSent`: before the lookup of the tables has ended, no watch has handlers and no
  command was given, so that the first connection starts from nothing;
* `LookupIsConnected`, `ConnectedIsSettled`: while the tables are looked up the network stays
  connected, and once connected no attempt is under way, which rules out a second lookup;
* `WatchingIsCounted`, `CountedIsWatching`: while the connection works, the watches that have
  handlers are those that are counted;
* `SymbolsFollowHandlers`: a symbol with handlers is in the state Both, one without in None.

`StartKeeps`, `StopKeeps`, `LookupKeeps`, `DisconnectKeeps`, `DropKeeps` and `ConnectionKeeps`
are one lemma per action or group of actions that leaves the watches alone, and `CommandsCount`
says that a command is under way after it was sent. From the invariant follow `TypeCorrect`,
`FeedFollows` and `ConnectionLasts`: only `Disconnect` leaves the state CONNECTED, since
an attempt that was made has no answer left and a timer acts only on an attempt, and only
the turn of `OnNetDisconnecting` that finds nothing outstanding ends it for the owner.

**Outstanding**, for any sets of trips, slots, prices and stops, long or short, under
`OutstandingAssumption`. Nothing in the code counts the exits of a trip; the invariant says
that the program knows at most one all the same:

* `OrdersInv`, container by container: no exit is known of a trip that waits to enter or
  that left; of a trip to be matched none is (`Empty`), or the one that the trip names
  (`Alone`), working, or ended and not yet told. The closed units are the one that this exit
  filled, and those that exits traded after their cancellation was told (`strayed`);
* `EntryInv`: what the broker did with the entry of a trip in each container; a dropped one is
  cancelled, one to be matched is filled;
* `StateInv`: the states of a trip in each container.

An exit is placed only for a trip that names none (`ExitsAfterAre`), a request to cancel
changes no state (`AskedIsAlone`), and an end that is told belongs to the exit that is named
(`KnownExit`). From it follow `TypeCorrect`, `NeverClosesTwice` and `ForgottenTripsGiveUp`. They
hold whatever the order of the reports, and count what is traded after a report against it:
the code forgets an exit, or an entry, with the report of its cancellation, and what it trades
afterwards belongs to nobody.

**MergeRun**, for any number of series and any recordings in order of time, under
`MergeAssumption`. The invariant is that of a heap between two turns of a loop:

* `Distinct`, `Content`: no carrier is in the heap twice, and the active part of it holds
  exactly the carriers that were added and have a datum left. A swap keeps both, so a
  run that ends has sent everything (`PlaysAll`);
* `Ordered`: a parent is not later than its children, but for the one carrier that rises or
  sinks; then its own parent is not later than its children. `SiftUpKeeps` and `SiftDownKeeps`
  show that a turn moves the exception one level, or ends with a heap;
* `Phase`: where the thread is.

That the root of a heap is the earliest (`RootIsEarliest`) is a statement about every path
up the tree. It follows without induction from the least node that would be earlier than the root
(`LeastOf`), whose parent would be one as well. With it each datum that is sent is not
later than any still to come (`PlaysInOrder`).

**Model-checked only**: all liveness (the prover has no ENABLED), which is `CancelEnds`,
`ExecutionsArrive`, `CancelsEnd`, `MarketOrdersEnd`, `ComboEnds`, `CloseEnds`, `NetworkSettles` and
`LocksAreObtained`. Every invariant, action property and refinement that a passing run checks is
also the statement of a theorem, under the hypotheses given above.

## 5. Not modelled, and the plan

Left out for good: the messages of market data providers, indicators, charts, user
interfaces, applications, database schemas (protocols of other parties, numerics,
presentation); `CrossThreadMerge` (unfinished in the source); time series; account and
instrument registries. They are most of the repository's lines.

Left out of the components that are modelled:

* threads inside of a handler: `MonitorOrder::UpdateOrder` reads `m_pOrder` while the
  broker's thread may reset it (`MonitorOrder.cpp:279`), `OrdersOutstanding` is called by the
  thread of the quotes and by the broker's, `Watch::EnableWatch` by the owner and the lookup;
* a market without a bid: `MonitorOrder.cpp:346` then lowers a price without end;
* starting a watch while the network disconnects (`Watch.cpp:155`): the symbol's state then
  says that it is watched, and no command follows the next connection;
* reading the data files of a simulation, and watches that start while it adds series.

In the order in which they come next:

1. The tree of portfolios (`Portfolio.cpp`): sums over positions and sub-portfolios that
   are added after they traded.
2. `OrderManager` with a database session: a restart loads an order that no position
   listens to; `PortfolioManager`: construction that fails half way.
3. Option combos: rolling a leg, on top of `OrderCombo`.
