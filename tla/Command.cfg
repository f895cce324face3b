CONSTANTS
  Bits = 3
  MaxPort = 2
  Bad = Bad
  Other = Other
  None = None
  Remote = 3
  Loopback <- MCLoopback
  Pushes <- MCPushes
  Targets <- MCTargets
  Flows <- MCFlows
SPECIFICATION Spec
\* The command returns.
CHECK_DEADLOCK FALSE
INVARIANTS
  ClientsClosed
  RejectedOnce
  SuccessVerified
  ExportFaithful
PROPERTIES
  CommandEnds
