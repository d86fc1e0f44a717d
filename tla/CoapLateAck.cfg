\* One POST, acknowledged while the thread acts on the last expired timeout.
SPECIFICATION Spec
CONSTANTS
  main = main
  button = button
  server = server
  other = other
  Clients = {main}
  Peers = {server}
  Remote = server
  IdSpace = 4
  PeerIds = {2}
  RequestKinds = {}
  InitialTimeouts = {1}
  MaxRetransmit = 1
  ClockHalf = 1000
  MaxPosts = 1
  MaxDatagrams = 1
  MaxLate = 1
PROPERTIES
  EagainMeansUnacknowledged
\* The system stops when every POST is made and answered and no datagram is left to arrive.
CHECK_DEADLOCK FALSE
