\* Two round trips of two units; the second entry cancels the first if it still
\* waits.
SPECIFICATION FairSpec
CONSTANTS
  Trips <- MCTrips
  Slots <- MCSlots
  Bases <- MCBases
  Stops <- MCStops
  Prices <- MCPrices
  Sizes <- MCSizes
  Keep = 0
  MaxLoose = 1
  MaxStray = 1
INVARIANTS
  TypeOK
  NeverOverclosed
  ForgottenIsGivenUp
PROPERTIES
  CloseEnds
