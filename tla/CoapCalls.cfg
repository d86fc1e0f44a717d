\* Two threads make two POSTs and one answer arrives; the clock wraps between their
\* deadlines, and the receiver may stop.
SPECIFICATION FairSpec
CONSTANTS
  main = main
  button = button
  server = server
  Clients = {main, button}
  Peers = {server}
  Remote = server
  IdSpace = 4
  PeerIds = {2}
  RequestKinds = {}
  InitialTimeouts = {1}
  MaxRetransmit = 1
  ClockHalf = 3
  MaxPosts = 2
  MaxDatagrams = 1
  MaxLate = 1
PROPERTIES
  ImplementsExchange
  PostSettles
\* The system stops when every POST is made and answered and no datagram is left to arrive.
CHECK_DEADLOCK FALSE
