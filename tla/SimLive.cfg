\* The data goes on; orders are placed and cancelled at any time, and the prices
\* of limit orders change.
SPECIFICATION FairSpec
CONSTANTS
  OrderIds = {o1, o2}
  Kinds = {"Market", "Limit", "Stop"}
  Quantities = {2}
  Prices = {1, 2}
  Sizes = {0, 1}
  Delay = 0
  MaxAge = 1
  MaxQueued = 1
  Changes = TRUE
INVARIANTS
  OrdersInPlace
PROPERTIES
  NothingElseFails
  DelayRespected
  ImplementsBroker
  CancelsEnd
  MarketOrdersEnd
\* An assertion may fail, and the program stops.
CHECK_DEADLOCK FALSE
