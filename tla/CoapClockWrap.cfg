\* Two threads post, nothing is answered, and the clock wraps between their deadlines.
SPECIFICATION Spec
CONSTANTS
  main = main
  button = button
  server = server
  other = other
  Clients = {main, button}
  Peers = {server}
  Remote = server
  IdSpace = 4
  PeerIds = {3}
  RequestKinds = {}
  InitialTimeouts = {1, 2}
  MaxRetransmit = 1
  ClockHalf = 4
  MaxPosts = 2
  MaxDatagrams = 0
  MaxLate = 1
INVARIANT EarliestFirst
\* The system stops when every POST is made and answered.
CHECK_DEADLOCK FALSE
