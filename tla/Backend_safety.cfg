CONSTANTS
  Calls = {c1, c2}
  Tunnels <- MCTunnels
  Targets <- MCTargets
  Domains <- MCDomains
  Allow <- MCAllow
  None = None
  t1 = t1
  t2 = t2
  ip1 = ip1
  ip2 = ip2
  name = name
SPECIFICATION Spec
SYMMETRY Symmetry
INVARIANTS
  IInv
  RevokedOnReturn
  Authorised
  NoRawLeak
PROPERTIES
  AbsSpec
