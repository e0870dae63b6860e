\* Two users to an aggregator; tests restarted, resets, a quit at any time.
SPECIFICATION FairSpec
CONSTANTS
  Users = {u1, u2}
  Share = 2
  ChanCap = 1
  Resets = TRUE
  MaxAggs = 2
  MaxReports = 2
\* After a quit nothing is left to do.
CHECK_DEADLOCK FALSE
INVARIANTS TypeOK Conservation RefsExact
PROPERTIES AggregatorsEnd ReportsArrive StopReturnsWhileRead
