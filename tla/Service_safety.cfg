CONSTANTS
  Calls = {c1, c2}
  Tunnels <- MCTunnels
  Targets <- MCTargets
  Domains = {}
  Allow <- MCAllow
  MinBackoff = 1
  MaxBackoff = 1
  None = None
  t1 = t1
  t2 = t2
  ip1 = ip1
  ip2 = ip2
SPECIFICATION Spec
SYMMETRY Symmetry
\* The service stops once Run and every request have returned.
CHECK_DEADLOCK FALSE
INVARIANTS
  NoTrafficWhenDown
  OneGeneration
  StoppedClean
PROPERTIES
  BackendSpec
  SupervisorSpec
