\* Every mode, fair scheduling, another goroutine stopping the manager.
SPECIFICATION FairSpec
CONSTANTS
  Modes = {"LocustCompatible", "Never", "Always"}
  Driver = driver
  Stoppers = {stopper}
  MaxCount = 2
  MaxSpawns = 3
  MaxCalls = 4
  None = none
INVARIANTS TokenConservation CapRespected AddNeverEvicts NeverBackfills IndInv
PROPERTIES ImplementsPool CallsReturn CapacityMaintained
