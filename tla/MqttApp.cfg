\* The MQTT application: two samples, two messages, payloads around the size of the buffer.
SPECIFICATION FairAppSpec
CONSTANTS
  Grants <- SomeGrants
  Lengths <- SomeLengths
  MaxSamples = 2
  Pauses = FALSE
  PayloadBuffer = 2
  MaxPublished = 2
INVARIANTS
  AppTypeOK
  ConnectedIsSession
  StreamInStep
  EverySampleCounted
PROPERTIES
  UploadsAreDue
  LostConnectionEndsThread
  StrandedOnlyWithoutSession
  LossFailsTest
  EndsOrBlocks
  ImplementsLink
  ImplementsTest
\* The device stops when its threads returned, or faulted.
CHECK_DEADLOCK FALSE
