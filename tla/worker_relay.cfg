\* Spawns and stops in any order; the cycle may be stuck.
SPECIFICATION LoopSpec
CONSTANTS
  Kinds = {"ack", "spawn", "stop"}
  ExtCalls = {"quit"}
  Expiry = FALSE
  MaxMsgs = 4
  MaxExt = 1
  MaxTime = 3
  MaxUsers = 1
\* The master may stay silent for ever, and Join ends.
CHECK_DEADLOCK FALSE
PROPERTIES MessageLoopNeverBlocked NoSpawnForgotten
