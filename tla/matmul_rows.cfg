SPECIFICATION FairSpec
CONSTANTS
  MaxThreads = 4
  MaxRows = 6
INVARIANTS RowsComputed NoStragglers
PROPERTIES Returns
CHECK_DEADLOCK FALSE
