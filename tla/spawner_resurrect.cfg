\* A Cap that overlaps a Stop restarts the manager.
SPECIFICATION Spec
CONSTANTS
  Modes = {"Never"}
  Driver = driver
  Stoppers = {stopper}
  MaxCount = 1
  MaxSpawns = 2
  MaxCalls = 3
  None = none
INVARIANT NoResurrection
