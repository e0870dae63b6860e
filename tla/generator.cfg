\* Two classes of users, one goroutine that stops beside the driver; users, handlers and
\* goroutines go on.
SPECIFICATION FairSpec
CONSTANTS
  Classes = {a, b}
  Users = {u1, u2}
  Stoppers = {s}
  Driver = driver
  Share = 2
  MaxCount = 1
  MaxCalls = 4
  MaxAggs = 2
\* Nobody has to call.
CHECK_DEADLOCK FALSE
INVARIANTS ReferencesShared StopCleansUp StoppedOnce
PROPERTIES CallsReturn StopEndsStart
