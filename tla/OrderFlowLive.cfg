\* One order, filled in parts, cancelled, executed late and above its quantity;
\* every message arrives, and the broker answers.
SPECIFICATION FairSpec
CONSTANTS
  OrderIds = {o1}
  Quantities = {1, 2, 3}
  Prices = {1, 2}
  Multiplier = 2
  LateFills = TRUE
  MaxOverfill = 2
  MaxInFlight = 20
INVARIANTS
  QuantityConserved
  FilledMeansComplete
PROPERTIES
  CancelEnds
  ExecutionsArrive
\* The order ends.
CHECK_DEADLOCK FALSE
