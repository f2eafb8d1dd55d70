\* The price of an order changes while another order rests.
SPECIFICATION Spec
CONSTANTS
  OrderIds = {o1, o2}
  Kinds = {"Limit"}
  Quantities = {1}
  Prices = {1, 2}
  Sizes = {0, 1}
  Delay = 0
  MaxAge = 1
  MaxQueued = 2
  Changes = TRUE
INVARIANTS
  OneVersion
\* An assertion may fail, and the program stops.
CHECK_DEADLOCK FALSE
