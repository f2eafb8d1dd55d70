---------------------------- MODULE SimExecution ----------------------------
(***************************************************************************)
(* The simulated market of one instrument: OrderExecution                  *)
(* (lib/TFSimulation/SimulateOrderExecution.cpp), reached through          *)
(* SimulationInterface, and the orders it executes (lib/TFTrading).        *)
(*                                                                         *)
(* Everything runs on the thread that merges the recorded data.  A quote   *)
(* passes through the queues in stages, and a turn of each loop is a step, *)
(* with its callbacks into OrderManager and Order.  From a callback the    *)
(* strategy may place and cancel orders between two such steps.            *)
(*                                                                         *)
(* A failed assertion stops the program.                                   *)
(***************************************************************************)
EXTENDS Orders, Sequences, SequencesExt, FiniteSets

CONSTANTS OrderIds,        \* Identifiers of the orders of the instrument
          Kinds,           \* Order types in use, of "Market", "Limit", "Stop"
          Quantities,      \* Quantities the strategy orders
          Prices,          \* Prices of limits and quotes
          Sizes,           \* Sizes of the quotes
          Delay,           \* m_dtQueueDelay, in ticks
          MaxAge,          \* Bound on ages, beyond the delay
          MaxQueued,       \* Bound on the length of each delay queue
          Changes          \* May the price of a limit order be changed?

ASSUME SimConstantsAssumption ==
  /\ IsFiniteSet(OrderIds)
  /\ Kinds \subseteq {"Market", "Limit", "Stop"}
  /\ Quantities \subseteq Nat \ {0}
  /\ Prices \subseteq Nat \ {0}
  /\ Sizes \subseteq Nat
  /\ Delay \in Nat /\ MaxQueued \in Nat
  /\ MaxAge \in Nat /\ MaxAge > Delay
  /\ Changes \in BOOLEAN

VARIABLES kind,            \* Order type, "None" before the order is placed
          price,           \* dblPrice1 of the order
          age,             \* Ticks since the order was submitted
          asked,           \* The strategy has asked to cancel the order
          orders,          \* The rows of the orders
          track,           \* m_mapOrderState
          delay,           \* m_lOrderDelay
          cancels,         \* m_lCancelDelay
          book,            \* m_lOrderMarket, the multimaps of asks and bids in
                           \* their order, and the two of stops as one
          stage,           \* The queue that the quote is at, or "idle"
          failed,          \* An assertion has failed
          mixed            \* History, not in the code: a change has taken the
                           \* entry of another order out of a book

attributes == <<kind, price, age, asked>>
vars == <<kind, price, age, asked, orders, track, delay, cancels, book, stage, failed,
          mixed>>

Ages == 0 .. MaxAge
Older(n) == IF n = MaxAge THEN n ELSE n + 1

Tracked == {"Unknown", "Delay", "Active", "Archive"}
Books == {"market", "asks", "bids", "stops"}
Entries == [order : OrderIds, price : {0} \cup Prices]
Cancellations == [order : OrderIds, age : Ages]
Quotes == [bid : Prices, ask : Prices, bidSize : Sizes, askSize : Sizes]

TypeOK ==
  /\ kind \in [OrderIds -> {"None"} \cup Kinds]
  /\ price \in [OrderIds -> {0} \cup Prices]
  /\ age \in [OrderIds -> Ages]
  /\ asked \in [OrderIds -> BOOLEAN]
  /\ orders \in [OrderIds -> OrderRow]
  /\ track \in [OrderIds -> Tracked]
  /\ delay \in Seq(OrderIds)
  /\ cancels \in Seq(Cancellations)
  /\ book \in [Books -> Seq(Entries)]
  /\ stage \in {"idle", "cancels", "delays", "orders"}
  /\ failed \in BOOLEAN /\ mixed \in BOOLEAN

Init ==
  /\ kind = [o \in OrderIds |-> "None"]
  /\ price = [o \in OrderIds |-> 0]
  /\ age = [o \in OrderIds |-> 0]
  /\ asked = [o \in OrderIds |-> FALSE]
  /\ orders = [o \in OrderIds |-> NewOrder("Buy", 0)]
  /\ track = [o \in OrderIds |-> "Unknown"]
  /\ delay = <<>> /\ cancels = <<>>
  /\ book = [b \in Books |-> <<>>]
  /\ stage = "idle" /\ failed = FALSE /\ mixed = FALSE
-----------------------------------------------------------------------------
(* Calls of the strategy and the clock. *)

\* OrderManager::PlaceOrder: the order is sent, and queued by SubmitOrder.
PlaceOrder(o, side, k, quan, limit) ==
  /\ kind[o] = "None"
  /\ kind' = [kind EXCEPT ![o] = k]
  /\ price' = [price EXCEPT ![o] = IF k = "Market" THEN 0 ELSE limit]
  /\ orders' = [orders EXCEPT ![o] = SetSendingToProvider(NewOrder(side, quan))]
  /\ delay' = Append(delay, o)
  /\ track' = [track EXCEPT ![o] = "Delay"]
  /\ UNCHANGED <<age, asked, cancels, book, stage, failed, mixed>>

\* MonitorOrder moves the price of its order towards the market, unless it has
\* asked to cancel it, and places it again: the row of the order, which the
\* books share, has the new price at once, the books not before the order
\* leaves the queue.  It keeps the time it was submitted.
ChangeOrder(o, limit) ==
  /\ Changes /\ stage = "idle" /\ Len(delay) < MaxQueued
  /\ kind[o] = "Limit" /\ ~ asked[o]
  /\ orders[o].remaining > 0
  /\ IF orders[o].side = "Buy" THEN limit > price[o] ELSE limit < price[o]
  /\ price' = [price EXCEPT ![o] = limit]
  /\ delay' = Append(delay, o)
  /\ UNCHANGED <<kind, age, asked, orders, track, cancels, book, stage, failed, mixed>>

\* The position cancels an order that is open, also one that is still delayed.
CancelOrder(o) ==
  /\ Len(cancels) < MaxQueued
  /\ track[o] \in {"Delay", "Active"}
  /\ asked' = [asked EXCEPT ![o] = TRUE]
  /\ cancels' = Append(cancels, [order |-> o, age |-> 0])
  /\ UNCHANGED <<kind, price, age, orders, track, delay, book, stage, failed, mixed>>

\* Time passes with the data of other instruments, or without any.
Tick ==
  /\ stage = "idle"
  /\ age' = [o \in OrderIds |-> IF kind[o] = "None" THEN age[o] ELSE Older(age[o])]
  /\ cancels' = [i \in DOMAIN cancels |-> [cancels[i] EXCEPT !.age = Older(@)]]
  /\ UNCHANGED <<kind, price, asked, orders, track, delay, book, stage, failed, mixed>>
-----------------------------------------------------------------------------
(* ProcessOrderQueues: the steps of a quote. *)

NewQuote ==
  /\ stage = "idle" /\ stage' = "cancels"
  /\ UNCHANGED <<attributes, orders, track, delay, cancels, book, failed, mixed>>

\* The delay is over when the quote is later than the submission and the delay.
\* (Mutant: when it is as late.)
RipeAtOnce(n) == n >= Delay
Ripe(n) == n > Delay

\* Asserts that the order was active.
MigrateActiveToArchive(o) ==
  IF track[o] = "Active"
  THEN track' = [track EXCEPT ![o] = "Archive"] /\ UNCHANGED failed
  ELSE failed' = TRUE /\ UNCHANGED track

\* The book of an order.
BookOf(o) ==
  CASE kind[o] = "Market" -> "market"
    [] kind[o] = "Stop" -> "stops"
    [] OTHER -> IF orders[o].side = "Sell" THEN "asks" ELSE "bids"

\* The cancelled order leaves its book and ends.
\* (Mutant: it does not leave.)
EndOnly(b, o) ==
  /\ orders' = [orders EXCEPT ![o] = MarkAsCancelled(@)]
  /\ MigrateActiveToArchive(o) /\ UNCHANGED book
EraseAndEnd(b, o) ==
  /\ orders' = [orders EXCEPT ![o] = MarkAsCancelled(@)]
  /\ book' = [book EXCEPT ![b] = RemoveFirstMatch(@, LAMBDA e : e.order = o)]
  /\ MigrateActiveToArchive(o)

InBook(b, o) == \E i \in DOMAIN book[b] : book[b][i].order = o

\* A cancellation finds its order in its book, or the order has ended before.
\* (Mutant: it looks at the front only, and any other order counts as ended.)
CancelFront(o) ==
  IF book[BookOf(o)] # <<>> /\ Head(book[BookOf(o)]).order = o THEN EraseAndEnd(BookOf(o), o)
  ELSE UNCHANGED <<orders, track, book, failed>>
CancelOne(o) ==
  IF InBook(BookOf(o), o) THEN EraseAndEnd(BookOf(o), o)
  ELSE failed' = (track[o] # "Archive") /\ UNCHANGED <<orders, track, book>>

ProcessCancelQueue ==
  /\ stage = "cancels"
  /\ IF cancels # <<>> /\ Ripe(Head(cancels).age)
     THEN CancelOne(Head(cancels).order) /\ cancels' = Tail(cancels) /\ UNCHANGED stage
     ELSE stage' = "delays" /\ UNCHANGED <<orders, track, cancels, book, failed>>
  /\ UNCHANGED <<attributes, delay, mixed>>

\* Lowest ask and highest bid at the front, the first come among equals.
\* (Mutant: the last come.)
BehindEquals(b, e, f) == IF b = "asks" THEN e.price <= f.price
                         ELSE b = "bids" /\ e.price >= f.price
Precedes(b, e, f) == IF b = "asks" THEN e.price < f.price
                     ELSE b = "bids" /\ e.price > f.price
Insert(entries, b, e) ==
  LET i == SelectInSeq(entries, LAMBDA f : Precedes(b, e, f))
  IN  IF i = 0 THEN Append(entries, e) ELSE InsertAt(entries, i, e)

\* A change takes out the first ask, or the first bid when there are no asks,
\* whose side must be the order's: the loops that look for the old entry
\* compare the id of the order with itself.
OldBook == IF book["asks"] # <<>> THEN "asks" ELSE "bids"
OldFits(o) == book[OldBook] = <<>> \/ BookOf(o) = OldBook
WithoutOld == [book EXCEPT ![OldBook] = IF @ = <<>> THEN @ ELSE Tail(@)]
OldIs(o) == book[OldBook] # <<>> /\ Head(book[OldBook]).order = o

Entry(o) == [order |-> o, price |-> price[o]]

\* One order leaves the delay queue, new or changed, or ended meanwhile.
\* (Mutant: one that has ended is put in its book.)
ReviveOne(o) ==
  /\ track' = [track EXCEPT ![o] = "Active"]
  /\ book' = [book EXCEPT ![BookOf(o)] = Insert(@, BookOf(o), Entry(o))]
  /\ UNCHANGED <<failed, mixed>>
DelayOne(o) ==
  CASE track[o] = "Archive" -> UNCHANGED <<track, book, failed, mixed>>
    [] track[o] = "Active" ->
         IF OldFits(o)
         THEN /\ book' = [WithoutOld EXCEPT ![BookOf(o)] = Insert(@, BookOf(o), Entry(o))]
              /\ mixed' = (mixed \/ ~ OldIs(o))
              /\ UNCHANGED <<track, failed>>
         ELSE failed' = TRUE /\ UNCHANGED <<track, book, mixed>>
    [] OTHER ->
         /\ track' = [track EXCEPT ![o] = "Active"]
         /\ book' = [book EXCEPT ![BookOf(o)] = Insert(@, BookOf(o), Entry(o))]
         /\ UNCHANGED <<failed, mixed>>

ProcessDelayQueue ==
  /\ stage = "delays"
  /\ IF delay # <<>> /\ Ripe(age[Head(delay)])
     THEN DelayOne(Head(delay)) /\ delay' = Tail(delay) /\ UNCHANGED stage
     ELSE stage' = "orders" /\ UNCHANGED <<track, delay, book, failed, mixed>>
  /\ UNCHANGED <<attributes, orders, cancels>>

\* What a quote of some size executes of what is left of an order.
\* (Mutant: all of its size.)
WholeSize(left, available) == available
Applied(left, available) == IF left <= available THEN left ELSE available

\* An execution ends the order.  (Mutants: none does; each does.)
NeverDone(left, size) == FALSE
AlwaysDone(left, size) == TRUE
Done(left, size) == size = left

\* The row of an order after an execution, which is charged for by itself, one
\* unit of money a unit.
Filled(o, size) ==
  LET row == ReportExecution(orders[o], size)
  IN  IF size = 0 THEN row ELSE SetCommission(row, size)

\* The order at the front of a book executes against the size of the quote, and
\* leaves the book when nothing remains.
FillFirst(b, available) ==
  LET o    == Head(book[b]).order
      left == orders[o].remaining
      size == Applied(left, available)
  IN  IF left = 0 THEN failed' = TRUE /\ UNCHANGED <<orders, track, book>>
      ELSE /\ orders' = [orders EXCEPT ![o] = Filled(o, size)]
           /\ IF Done(left, size)
              THEN MigrateActiveToArchive(o) /\ book' = [book EXCEPT ![b] = Tail(@)]
              ELSE UNCHANGED <<track, book, failed>>

\* A market order is executed before any limit order, even against no size; a
\* limit order when the quote reaches its limit with some size, asks first.
AskReached(q) ==
  book["asks"] # <<>> /\ q.bid >= Head(book["asks"]).price /\ q.bidSize > 0
BidReached(q) ==
  book["bids"] # <<>> /\ q.ask <= Head(book["bids"]).price /\ q.askSize > 0

ProcessMarketOrders(q) ==
  LET side == orders[Head(book["market"]).order].side
  IN  FillFirst("market", IF side = "Buy" THEN q.askSize ELSE q.bidSize)

ProcessLimitOrders(q) ==
  IF AskReached(q) THEN FillFirst("asks", q.bidSize)
  ELSE IF BidReached(q) THEN FillFirst("bids", q.askSize)
  ELSE UNCHANGED <<orders, track, book, failed>>

\* The quote ends.  Its prices and sizes are read only here.
ProcessOrders(q) ==
  /\ stage = "orders" /\ stage' = "idle"
  /\ IF book["market"] # <<>> THEN ProcessMarketOrders(q) ELSE ProcessLimitOrders(q)
  /\ UNCHANGED <<attributes, delay, cancels, mixed>>
-----------------------------------------------------------------------------
Strategy(o) ==
  \/ \E side \in Sides, k \in Kinds, quan \in Quantities, limit \in Prices :
       PlaceOrder(o, side, k, quan, limit)
  \/ \E limit \in Prices : ChangeOrder(o, limit)
  \/ CancelOrder(o)

Next ==
  /\ ~ failed
  /\ \/ \E o \in OrderIds : Strategy(o)
     \/ Tick
     \/ NewQuote
     \/ ProcessCancelQueue
     \/ ProcessDelayQueue
     \/ \E q \in Quotes : ProcessOrders(q)

Spec == Init /\ [][Next]_vars
-----------------------------------------------------------------------------
(* Safety. *)

\* The cancellation at hand is of an order that is still delayed.
EarlyCancel == stage = "cancels" /\ cancels # <<>> /\ track[Head(cancels).order] = "Delay"

\* The change at hand is of an order on the other side than the entry it takes
\* out.
WrongSide == stage = "delays" /\ delay # <<>> /\ ~ OldFits(Head(delay))

\* The assertions fail in three cases only: an order is cancelled before its
\* delay is over; an order is changed while the entry that the change takes
\* out is on the other side; or an earlier change has taken out the entry of
\* another order.  Otherwise a cancellation finds its order in a book or
\* ended, an order in a book has something left, and one that ends was active.
NothingElseFails == [][failed' => EarlyCancel \/ WrongSide \/ mixed]_vars

\* The places of an order in the books.
Where(o) == UNION {{b} \X {i \in DOMAIN book[b] : book[b][i].order = o} : b \in Books}

\* m_mapOrderState agrees with the queues and books, until a change takes out
\* the entry of another order: an order that is delayed is in the delay queue
\* only, an active one in exactly one place in the books with something left,
\* and one that has ended is nowhere.
InPlace(o) ==
  CASE track[o] = "Unknown" -> Where(o) = {} /\ ~ Contains(delay, o)
    [] track[o] = "Delay" -> Where(o) = {} /\ Contains(delay, o)
    [] track[o] = "Active" -> Cardinality(Where(o)) = 1 /\ orders[o].remaining > 0
    [] OTHER -> Where(o) = {} /\ (orders[o].remaining = 0 \/ asked[o])

OrdersInPlace == mixed \/ \A o \in OrderIds : InPlace(o)

\* "A change order is occuring, so remove old version": an order is in the
\* books once at most.
OneVersion == \A o \in OrderIds : Cardinality(Where(o)) <= 1

Executed(o) == orders'[o].filled # orders[o].filled
Cancelled(o) ==
  orders'[o].status \in {"Cancelled", "CancelledWithPartialFill"}
    /\ orders[o].status \notin {"Cancelled", "CancelledWithPartialFill"}

\* An execution is of an order that was submitted, and a cancellation one that
\* was asked for, longer ago than the simulated delay, whatever is placed,
\* changed and cancelled from callbacks.  The new price of an order is not
\* delayed by itself: the order keeps the time of its submission.
DelayRespected ==
  [][\A o \in OrderIds :
       /\ Executed(o) => age[o] > Delay
       /\ Cancelled(o) => \E i \in DOMAIN cancels :
                            cancels[i].order = o /\ cancels[i].age > Delay]_vars

\* Price and time priority: the limit order that executes is at the front of
\* its book; no entry of the book is better priced, nor, while no prices are
\* changed, as well priced and older.
AtLeastAsGood(b, e, f) == IF b = "asks" THEN e.price <= f.price ELSE e.price >= f.price

PriceTimePriority ==
  [][\A o \in OrderIds : Executed(o) /\ kind[o] = "Limit" =>
       \E e \in {book[BookOf(o)][1]} :
         /\ e.order = o
         /\ \A i \in DOMAIN book[BookOf(o)] : LET f == book[BookOf(o)][i] IN
              /\ AtLeastAsGood(BookOf(o), e, f)
              /\ ~ Changes /\ f.price = e.price => age[o] >= age[f.order]]_vars
-----------------------------------------------------------------------------
(* The simulated market is a broker. *)

BrokerState(o) ==
  CASE track[o] = "Unknown" -> "none"
    [] track[o] \in {"Delay", "Active"} -> "working"
    [] OTHER -> IF orders[o].remaining = 0 THEN "filled" ELSE "cancelled"

Broker == INSTANCE BrokerContract WITH
  state <- [o \in OrderIds |-> BrokerState(o)],
  quan <- [o \in OrderIds |-> orders[o].quan],
  done <- [o \in OrderIds |-> orders[o].filled],
  asked <- asked

\* Every order by itself is executed up to its quantity and ends by that or by
\* a cancellation that was asked for; nothing happens to it afterwards, until
\* a change takes out the entry of another order.
ImplementsBroker == Broker!Init /\ [][mixed \/ Broker!Next]_(Broker!vars)
-----------------------------------------------------------------------------
(* Liveness: the data goes on, and has quotes with size on both sides. *)

Fairness ==
  /\ WF_vars(~ failed /\ NewQuote)
  /\ WF_vars(~ failed /\ ProcessCancelQueue)
  /\ WF_vars(~ failed /\ ProcessDelayQueue)
  /\ SF_vars(~ failed /\ Tick)
  /\ SF_vars(~ failed /\ \E q \in Quotes :
               q.bidSize > 0 /\ q.askSize > 0 /\ ProcessOrders(q))

FairSpec == Spec /\ Fairness

\* A cancellation that was asked for ends the order, or comes too late, unless
\* the program stops at an assertion.
CancelsEnd == \A o \in OrderIds : asked[o] ~> track[o] = "Archive" \/ failed

\* A market order is executed in full, whatever is placed beside it, unless it is
\* cancelled or the program stops at an assertion.
MarketOrdersEnd ==
  \A o \in OrderIds :
    kind[o] = "Market" ~> orders[o].remaining = 0 \/ asked[o] \/ failed
=============================================================================
