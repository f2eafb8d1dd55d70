\* Orders are placed and cancelled at any time, and not changed.
SPECIFICATION Spec
CONSTANTS
  OrderIds = {o1, o2}
  Kinds = {"Market", "Limit"}
  Quantities = {2}
  Prices = {1, 2}
  Sizes = {0, 1, 2}
  Delay = 1
  MaxAge = 3
  MaxQueued = 2
  Changes = FALSE
SYMMETRY Symmetry
INVARIANTS
  TypeOK
PROPERTIES
  PriceTimePriority
\* An assertion may fail, and the program stops.
CHECK_DEADLOCK FALSE
