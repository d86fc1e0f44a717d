\* Two threads post at the same time or one after the other; the peer answers in every
\* way, replies are lost, late, duplicated and reordered, and the peer may use the
\* message id of the second POST for a message of its own.
SPECIFICATION Spec
CONSTANTS
  main = main
  button = button
  server = server
  other = other
  Clients = {main, button}
  Peers = {server}
  Remote = server
  IdSpace = 4
  PeerIds = {2}
  RequestKinds = {}
  InitialTimeouts = {1, 2}
  MaxRetransmit = 1
  ClockHalf = 4
  MaxPosts = 2
  MaxDatagrams = 2
  MaxLate = 1
SYMMETRY ClientSymmetry
INVARIANTS
  TypeOK
  CallsOwned
  BuffersOwned
  RetransmitsDuePacket
  GetNeverBlocks
  EarliestUnlessWrapped
  MisdeliveryNeedsCollision
PROPERTIES
  AcknowledgedStays
  RetransmissionSchedule
\* The system stops when every POST is made and answered and no datagram is left to arrive.
CHECK_DEADLOCK FALSE
