\* One POST, no answer, the schedule of the code's four retransmissions.
SPECIFICATION FairSpec
CONSTANTS
  main = main
  button = button
  server = server
  other = other
  Clients = {main}
  Peers = {server}
  Remote = server
  IdSpace = 4
  PeerIds = {2}
  RequestKinds = {}
  InitialTimeouts = {1}
  MaxRetransmit = 4
  ClockHalf = 1000
  MaxPosts = 1
  MaxDatagrams = 0
  MaxLate = 1
PROPERTIES
  PostCompletes
\* The system stops when every POST is made and answered and no datagram is left to arrive.
CHECK_DEADLOCK FALSE
