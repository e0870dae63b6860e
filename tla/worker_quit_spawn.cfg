\* A spawn received while the program quits.
SPECIFICATION FairSpec
CONSTANTS
  Kinds = {"ack", "spawn"}
  ExtCalls = {"quit"}
  Expiry = FALSE
  MaxMsgs = 2
  MaxExt = 1
  MaxTime = 1
  MaxUsers = 1
\* The master may stay silent for ever, and Join ends.
CHECK_DEADLOCK FALSE
PROPERTY JoinReturns
