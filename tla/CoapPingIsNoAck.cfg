\* One POST and a peer that pings with the POST's message id.
SPECIFICATION Spec
CONSTANTS
  main = main
  button = button
  server = server
  other = other
  Clients = {main}
  Peers = {server}
  Remote = server
  IdSpace = 4
  PeerIds = {1}
  RequestKinds = {}
  InitialTimeouts = {1}
  MaxRetransmit = 1
  ClockHalf = 1000
  MaxPosts = 1
  MaxDatagrams = 2
  MaxLate = 1
PROPERTIES
  OnlyAcknowledgementsStopRetransmission
\* The system stops when every POST is made and answered and no datagram is left to arrive.
CHECK_DEADLOCK FALSE
