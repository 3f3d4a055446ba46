CONSTANTS
  a = a
  b = b
  w = w
  Client <- ThreeClients
  MaxConns = 2
  MaxSessions = 3
  Deployments <- Managed
SPECIFICATION FairSpec
INVARIANTS
  ReplicaInStep
  LockInStep
  ExactlyOnce
  AppliedBeforeReturn
  BridgesFollow
  NoTriggerOverlooked
  AnsweredOnce
PROPERTIES
  CurCfgAdvances
  VsctlReturns
  ConfigReaches
CHECK_DEADLOCK FALSE
