SPECIFICATION Spec
CONSTANTS
  Conn = {c1, c2, c3}
  TheIp = ip
  Ip <- MCIp
  PeerIp <- MCPeerIp
  MaxConcurrent = 2
  MinInterval = 1
  MaxTime = 2
INVARIANT TestsPerIp
