\* Executions may arrive after the cancellation of their order.
SPECIFICATION Spec
CONSTANTS
  OrderIds = {o1, o2}
  Quantities = {2}
  Prices = {1, 2}
  Multiplier = 2
  LateFills = TRUE
  MaxOverfill = 0
  MaxInFlight = 3
SYMMETRY Symmetry
CONSTRAINT FewInFlight
INVARIANTS
  TypeOK
  PendingIsOpenRemaining
  ClosedOrdersAreOver
  CommissionIsCharged
PROPERTIES
  FlatIsRealized
  PortfolioFollowsPosition
  ImplementsLedger
\* The orders all end.
CHECK_DEADLOCK FALSE
