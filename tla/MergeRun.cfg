\* Five series: a heap of three levels, with and without a single leaf.
SPECIFICATION Spec
CONSTANTS
  SeriesCount = 5
  MaxTime = 3
  Recordings <- MCRecordings
INVARIANTS
  TypeOK
  MergedInOrder
  AllDelivered
\* The program is over when the run has ended.
CHECK_DEADLOCK FALSE
