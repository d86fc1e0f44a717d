----------------------------- MODULE MCMqttApp ------------------------------
(* Values of the constants for the run of MqttApp.                         *)
EXTENDS MqttApp

\* Less than a minute, one and two minutes.
SomeGrants == {-1, 60, 120}

\* No payload, one that comes in up to two pieces, one too long for the buffer.
SomeLengths == {0, 2, 3}
=============================================================================
