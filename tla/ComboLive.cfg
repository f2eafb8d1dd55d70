\* A roll: the timer goes on, and the market executes what reaches it.
SPECIFICATION FairSpec
CONSTANTS
  c1 = c1
  c2 = c2
  p1 = p1
  p2 = p2
  l1 = l1
  l2 = l2
  l3 = l3
  Combos = {c1}
  Positions = {p1, p2}
  Legs = {l1, l2}
  LegOf <- MCLegOf
  Held <- MCHeld
  Quotes <- MCQuotes
  Periods = 2
  MaxMoves = 1
PROPERTIES
  ComboEnds
\* The combos all end.
CHECK_DEADLOCK FALSE
