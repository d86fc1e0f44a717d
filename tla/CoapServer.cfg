\* One POST while the peer and a stranger send pings and requests of every kind and type,
\* and every allocation may fail.
SPECIFICATION Spec
CONSTANTS
  main = main
  button = button
  server = server
  other = other
  Clients = {main}
  Peers = {server, other}
  Remote = server
  IdSpace = 4
  PeerIds = {1, 3}
  RequestKinds = {"POST_message", "POST_unknown", "GET_message"}
  InitialTimeouts = {1}
  MaxRetransmit = 1
  ClockHalf = 1000
  MaxPosts = 1
  MaxDatagrams = 2
  MaxLate = 1
PROPERTIES
  ConAnswered
  NoReplyStorm
\* The system stops when every POST is made and answered and no datagram is left to arrive.
CHECK_DEADLOCK FALSE
