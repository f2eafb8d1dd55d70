\* Two watches share a symbol; a second connection follows the first.
\* After a failed assertion the program stops.
SPECIFICATION FairSpec
CONSTANTS
  w1 = w1
  w2 = w2
  w3 = w3
  s1 = s1
  s2 = s2
  Symbols = {s1, s2}
  Watches = {w1, w2, w3}
  SymbolOf <- MCSymbolOf
  MaxConnects = 3
  MaxStarts = 2
INVARIANTS
  TypeOK
  FeedFollowsWatches
PROPERTIES
  ConnectionStays
  NetworkSettles
CHECK_DEADLOCK FALSE
