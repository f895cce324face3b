CONSTANTS
  h = h
  a = a
  x = x
  y = y
  z = z
  Names <- MCNames
  Host = h
  Addrs <- MCAddrs
  Unicast <- MCUnicast
  Allows <- MCAllows
  Messages <- MCMessages
  Servers <- MCServers
  Invalid = Invalid
  None = None
  MaxDepth = 8
  MaxIps = 2
SPECIFICATION Spec
INVARIANTS
  TCPHasTime
CHECK_DEADLOCK FALSE
