\* Two POSTs at once, and a peer whose own ids start at the id of one of them.
SPECIFICATION Spec
CONSTANTS
  main = main
  button = button
  server = server
  other = other
  Clients = {main, button}
  Peers = {server}
  Remote = server
  IdSpace = 4
  PeerIds = {2}
  RequestKinds = {}
  InitialTimeouts = {1}
  MaxRetransmit = 1
  ClockHalf = 1000
  MaxPosts = 2
  MaxDatagrams = 2
  MaxLate = 1
INVARIANTS
  ResponseAnswersPost
\* The system stops when every POST is made and answered and no datagram is left to arrive.
CHECK_DEADLOCK FALSE
