\* A position is closed, and closed again after a roll.
SPECIFICATION Spec
CONSTANTS
  c1 = c1
  c2 = c2
  p1 = p1
  p2 = p2
  l1 = l1
  l2 = l2
  l3 = l3
  Combos = {c1, c2}
  Positions = {p1, p2}
  Legs = {l1, l2, l3}
  LegOf <- MCLegOf
  Held <- MCHeld
  Quotes <- OneQuote
  Periods = 1
  MaxMoves = 1
INVARIANTS
  TypeOK
  DoneMeansOver
  NeverOversold
\* The combos all end.
CHECK_DEADLOCK FALSE
