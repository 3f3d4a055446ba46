SPECIFICATION Spec
CONSTANTS
  Keys <- Two
  Values <- Bits
  MaxTxns = 3
  MaxFaults = 2
  MaxCrashes = 2
  MaxCompactions = 1
INVARIANT EitherVersion
PROPERTY Durable
CHECK_DEADLOCK FALSE
