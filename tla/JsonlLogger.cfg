\* Three callers for two slots of a sink that may fail or hang: one waits while
\* two records are in flight.
SPECIFICATION FairSpec
CONSTANTS
  Records = {r1, r2, r3}
  Capacity = 2
  NoRecord = NoRecord
CHECK_DEADLOCK FALSE
INVARIANTS SendIsSafe CleanCloseKeepsAll
PROPERTIES ImplementsBoundedSink LogReturns CloseReturns
