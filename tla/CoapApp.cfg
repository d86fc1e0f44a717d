\* The CoAP application: three samples, every kind of grant, and a button that is pressed
\* before and after the endpoint is started.
SPECIFICATION FairAppSpec
CONSTANTS
  Granted <- SomeAnswers
  Grants <- SomeGrants
  MaxSamples = 3
  Pauses = TRUE
  MaxRetransmit = 1
  TEST_DATA_SIZE = 10
  IndexStep = 5
INVARIANTS
  AppTypeOK
  EverySampleCounted
  IntervalAsGranted
PROPERTIES
  UploadsAreDue
  CountedWasAnswered
  EndsOrWaitsForAnswer
\* The device stops when it faulted.
CHECK_DEADLOCK FALSE
