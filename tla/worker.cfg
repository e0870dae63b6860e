\* Everything that can happen to a worker, with quits from three goroutines at once.
SPECIFICATION FairSpec
CONSTANTS
  Kinds = {"ack", "spawn", "stop", "quit", "reconnect", "garbage"}
  ExtCalls = {"quit", "stop"}
  Expiry = TRUE
  MaxMsgs = 3
  MaxExt = 1
  MaxTime = 2
  MaxUsers = 1
\* The master may stay silent for ever, and Join ends.
CHECK_DEADLOCK FALSE
INVARIANTS TypeOK SpawnsInOrder StateTellsTruth
PROPERTIES JoinReturnsOrHeldUp QuitCancels
