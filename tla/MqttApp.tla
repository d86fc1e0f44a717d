------------------------------ MODULE MqttApp -------------------------------
(***************************************************************************)
(* The application of mqtt/src/main.c: main gets the granted TAU, starts   *)
(* the MQTT thread, waits for `connected` and then runs the periodic test  *)
(* over the MQTT session; the button handler publishes at any time.        *)
(* The session is MqttSession's, the test PeriodicTest's.                  *)
(***************************************************************************)
EXTENDS MqttSession, PeriodicTest

\* This main goes straight from run_periodic to run_periodic.
ASSUME NoPauseAssumption == Pauses = FALSE

VARIABLE err  \* main's err: lte_lc_psm_get failed

vars == <<sessionVars, periodicVars, err>>

\* A fault of either thread or of the interrupt stops the device.
DeviceRuns == main # "fault" /\ thread # "crashed"

\* actual_tau is 10 until the network's value replaces it.
AppInit ==
  /\ SessionInit
  /\ PeriodicInit
  /\ actual_tau = 10
  /\ err = FALSE

\* main asks for the granted TAU and starts the thread.  An error does not say that
\* actual_tau was left alone: the active time may be missing from the answer.
GetTau ==
  /\ main = "start"
  /\ main' = "waiting"
  /\ \/ actual_tau' \in Grants /\ err' \in BOOLEAN
     \/ UNCHANGED actual_tau /\ err' = TRUE
  /\ UNCHANGED <<timer, minutes, transmit, transmit_finished, sample_cnt, due,
                 uploads, ticked, sessionVars>>

\* Mutant of EnterLoop: the seconds are not converted.
EnterLoopInSeconds ==
  /\ main = "waiting"
  /\ connected
  /\ timer' = TRUE
  /\ main' = IF err THEN "failed" ELSE "loop"
  /\ UNCHANGED <<actual_tau, minutes, transmit, transmit_finished, sample_cnt, due,
                 uploads, ticked, err, sessionVars>>

\* main finds the client connected.  It starts the timer before it looks at err.
EnterLoop ==
  /\ main = "waiting"
  /\ connected
  /\ timer' = TRUE
  /\ actual_tau' = InMinutes(actual_tau)
  /\ main' = IF err THEN "failed" ELSE "loop"
  /\ UNCHANGED <<minutes, transmit, transmit_finished, sample_cnt, due,
                 uploads, ticked, err, sessionVars>>

\* run_periodic's upload is one mqtt_data_publish.
Publish ==
  \/ UploadDone /\ PublishAccepted
  \/ UploadFails /\ (PublishRefused \/ PublishBreaks)

\* The button handler publishes one byte; all it changes is a connection that breaks.
Button == PublishBreaks /\ UNCHANGED periodicVars

\* What the main thread does besides publishing.
MainStep ==
  /\ DeviceRuns
  /\ \/ GetTau
     \/ EnterLoop
     \/ MainLoop /\ UNCHANGED <<sessionVars, err>>

MainPublishes == DeviceRuns /\ Publish /\ UNCHANGED err

ButtonPublishes == DeviceRuns /\ Button /\ UNCHANGED err

MqttThread ==
  DeviceRuns /\ main # "start" /\ Thread /\ UNCHANGED <<periodicVars, err>>

TimerInterrupt == DeviceRuns /\ Minute /\ UNCHANGED <<sessionVars, err>>

AppNext ==
  MainStep \/ MainPublishes \/ ButtonPublishes \/ MqttThread \/ TimerInterrupt

AppSpec == AppInit /\ [][AppNext]_vars

(***************************************************************************)
(* The scheduler runs threads that are ready, poll returns by the keepalive*)
(* timeout at the latest, and the hardware timer goes on.  Publishing over *)
(* a live connection may block for good; without one it is refused at once.*)
(***************************************************************************)
FairAppSpec ==
  /\ AppSpec
  /\ WF_vars(MainStep)
  /\ WF_vars(MainPublishes /\ session # "up")
  /\ WF_vars(MqttThread)
  /\ WF_vars(TimerInterrupt)

-----------------------------------------------------------------------------
(* Properties.                                                             *)

\* The session's and the test's variables have their types, and the samples are
\* counted as they are in PeriodicTest, when uploads end as the session lets them.
AppTypeOK == SessionTypeOK /\ TypeOK /\ err \in BOOLEAN

\* A connection that is lost ends the thread, also if another thread lost it or
\* the message was only half read (mqtt_module.c:383-410).
LostConnectionEndsThread ==
  session = "down" ~> thread \in {"ended", "crashed"} \/ main = "fault"

\* main waits forever (mqtt/src/main.c:352) only if there is no session in the
\* end: the broker never accepts it, or it is lost again.
StrandedOnlyWithoutSession ==
  <>[](main = "waiting") => <>[](session # "up")

\* Once the connection is lost main does not go on as if it were there: the
\* publication under way or the next one, on the next trigger, is refused and
\* ends the test with an error (mqtt/src/main.c:266-270).
LossFailsTest ==
  session = "down" /\ main \in {"loop", "upload"}
    ~> main \in {"failed", "fault"} \/ thread = "crashed"

\* The test ends, unless the MQTT thread or a TAU of zero faults the device, main waits for
\* a session that never comes, or a publication never returns while its connection lives: no
\* trigger, no message that arrives and no loss in another thread stops main for good
\* (mqtt/src/main.c:240, 256-293, 352).
EndsOrBlocks ==
  \/ <>(main \in {"finished", "failed"} \/ ~DeviceRuns)
  \/ <>[](main = "waiting")
  \/ <>[](main = "upload" /\ session = "up")

-----------------------------------------------------------------------------
(* The session as its users see it.                                        *)

\* What `connected` tells main; the library knows whether it may still become true.
LinkOf ==
  CASE connected                         -> "up"
    [] ~connected /\ session = "none"    -> "idle"
    [] ~connected /\ session = "tcp"     -> "dialing"
    [] OTHER                             -> "lost"

Link == INSTANCE MqttLink WITH link <- LinkOf, delivered <- uploads

(***************************************************************************)
(* The thread, the publishers and the handler, in whichever thread it      *)
(* runs, make up one connection: `connected` does not flicker, does not    *)
(* come back, and every publication main counts went over it               *)
(* (mqtt_module.c:170, 179, 361-419; mqtt/src/main.c:266-272).             *)
(***************************************************************************)
ImplementsLink == Link!Spec

-----------------------------------------------------------------------------
(* The test as PeriodicTest has it.                                        *)

\* There main is still on its way to the loop while it waits, and never gives up there: a
\* main that returned with an error is one that begins no iteration.
TestMain ==
  CASE main = "waiting"        -> "start"
    [] main = "failed" /\ err  -> "loop"
    [] OTHER                   -> main

\* There is no TAU before the timer runs.
TestTau == IF main \in {"start", "waiting"} THEN 0 ELSE actual_tau

Test == INSTANCE PeriodicTest WITH main <- TestMain, actual_tau <- TestTau

(***************************************************************************)
(* Whatever main waits for, whether or not it got a TAU, and whoever loses *)
(* the connection, the application runs the periodic test that the CoAP    *)
(* application runs: the session only decides which uploads fail           *)
(* (mqtt/src/main.c:240-293, 345-380).                                     *)
(***************************************************************************)
ImplementsTest == Test!Spec

-----------------------------------------------------------------------------
(* What the refinement needs besides the session's invariant.              *)

\* Only a thread that has not connected, or could not, has no connection.
DialedOrDone ==
  /\ thread = "start" => session = "none"
  /\ session = "none" => thread \in {"start", "ended", "crashed"}

=============================================================================
