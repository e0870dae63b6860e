\* A quit message while the load test is being stopped.
SPECIFICATION FairSpec
CONSTANTS
  Users = {u1}
  Share = 1
  ChanCap = 1
  Resets = FALSE
  MaxAggs = 1
  MaxReports = 2
\* After a quit nothing is left to do.
CHECK_DEADLOCK FALSE
PROPERTY StopReturns
