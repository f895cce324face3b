CONSTANTS
  Calls = {c1, c2}
  Tunnels = {t1}
  Targets = {ip1}
  Domains = {}
  Allow <- RaceAllow
  MinBackoff = 1
  MaxBackoff = 1
  None = None
  t1 = t1
  t2 = t2
  ip1 = ip1
  ip2 = ip2
SPECIFICATION FairSpec
\* The service stops once Run and every request have returned.
CHECK_DEADLOCK FALSE
PROPERTIES
  StaleDialsFail
  CloseCompletes
  Terminates
  LostConnsRemoved
