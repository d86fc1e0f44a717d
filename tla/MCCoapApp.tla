----------------------------- MODULE MCCoapApp ------------------------------
(* Values of the constants for the run of CoapApp.                         *)
EXTENDS CoapApp

\* Two seconds of active time.
ActiveTime == [unit |-> 0, value |-> 1]

\* Switched off, half a minute, a minute and a half, and two minutes; two minutes
\* without an active time, and an answer without a TAU.
SomeAnswers ==
  {[parsed |-> TRUE, tau |-> t, active_time |-> ActiveTime] :
     t \in {[unit |-> 7, value |-> 0], [unit |-> 3, value |-> 15],
            [unit |-> 4, value |-> 3], [unit |-> 5, value |-> 2], Missing}}
  \cup {[parsed |-> TRUE, tau |-> [unit |-> 5, value |-> 2], active_time |-> Missing]}

\* Up to a quarter of an hour.
SomeGrants == -1 .. 900
=============================================================================
