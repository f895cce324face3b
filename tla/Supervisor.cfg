CONSTANTS
  Tunnels = {t1, t2, t3, t4}
  MinBackoff = 0
  MaxBackoff = 5
  None = None
SPECIFICATION Spec
\* Run returns once ctx is done; nothing happens after that.
CHECK_DEADLOCK FALSE
INVARIANTS
  SInv
  OneTunnel
  FailClosed
PROPERTIES
  BackoffGrows
