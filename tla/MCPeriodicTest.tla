--------------------------- MODULE MCPeriodicTest ---------------------------
(* Values of the constants for the runs of PeriodicTest.                   *)
EXTENDS PeriodicTest

\* Switched off, less than a minute, one minute and a bit, five minutes.
SomeGrants == {-1, 30, 60, 119, 300}
=============================================================================
