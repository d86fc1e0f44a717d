\* The same application: the shortest way to the interrupt's division by zero.
SPECIFICATION Spec
CONSTANTS
  Grants <- SomeGrants
  MaxSamples = 5
  Pauses = TRUE
INVARIANT AnyGrantRuns
\* The device stops when it faulted.
CHECK_DEADLOCK FALSE
