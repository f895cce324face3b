CONSTANTS
  Conns = {k1}
SPECIFICATION FairSpec
\* Serve returns, and every handler with it.
CHECK_DEADLOCK FALSE
INVARIANTS
  ServeJoins
  HalfCloseKept
PROPERTIES
  RevocationReaches
  HandshakeBounded
  RelayCompletes
  ServeEnds
