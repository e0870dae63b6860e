\* A Stop beside a Start.
SPECIFICATION Spec
CONSTANTS
  Classes = {a}
  Users = {u1}
  Stoppers = {s}
  Driver = driver
  Share = 1
  MaxCount = 1
  MaxCalls = 2
  MaxAggs = 1
CHECK_DEADLOCK FALSE
INVARIANT AbandonedWhenStopped
