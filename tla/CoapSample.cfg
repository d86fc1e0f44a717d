\* Two threads make two requests while the client receives two datagrams.
SPECIFICATION FairSpec
CONSTANTS
  main = main
  other = other
  Callers = {main, other}
  TokenSpace = 2
  MaxRequests = 2
  MaxDatagrams = 2
INVARIANTS
  TypeOK
  ConnectedIsServed
PROPERTIES
  RequestAsBuilt
  PrintedWasReceived
  LeavesForCause
  FailureEndsThread
\* Once the thread has ended the client stays as it is.
CHECK_DEADLOCK FALSE
