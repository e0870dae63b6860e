\* Three nested sets, every choice of tags, outcomes and stops.
SPECIFICATION FairTaskSpec
CONSTANTS
  Graces = {TRUE, FALSE}
  Catches = {TRUE, FALSE}
  MaxErrors = 2
  Tasks <- MCTasks
  Random <- MCRandom
  Root = "root"
  Runs <- MCRuns
  Scheduled = {"a"}
  MaxQueue = 1
\* A user ends.
CHECK_DEADLOCK FALSE
INVARIANTS GraceKept AtMostOneTaskAfterStop ErrorsReportedOnce NothingLeftOpen FilterExact
PROPERTIES ImplementsUserLife UserStops
