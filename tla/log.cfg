\* The ring wraps around more than twice, sends fail, the worker quits.
SPECIFICATION FairSpec
CONSTANTS
  MaxLines = 3
  MaxBatch = 2
  MaxTotal = 8
\* Every line has been written, and the worker has quit.
CHECK_DEADLOCK FALSE
INVARIANTS LinesAreLatest ReportedIsDelivered IndInv
PROPERTY LinesArrive
