\* Every order of requests, merges, sends and resets.
SPECIFICATION Spec
CONSTANTS
  Aggs = {a1, a2}
  Requests <- MCRequests
  Second = 2
  MaxClock = 2
  MaxAdds = 3
SYMMETRY Symmetry
INVARIANTS EntriesExact ErrorsExact ReportExact
