---------------------------- MODULE PeriodicTest ----------------------------
(***************************************************************************)
(* The periodic test of coap_telenor/src/main.c: the main thread uploads   *)
(* one sample per interval the network grants, a timer interrupt that      *)
(* fires every minute tells it when, and the two share `transmit`.         *)
(*                                                                         *)
(* The interrupt comes between any two steps of the main thread, and any   *)
(* number of times while coap_endpoint_post blocks, which it does until    *)
(* the POST is answered or given up.  CoapApp composes the test with the   *)
(* rest of that application; mqtt/src/main.c runs the same test over       *)
(* another transport, and MqttApp uses the actions of this module too.     *)
(***************************************************************************)
EXTENDS Integers

CONSTANTS
  Grants,      \* what the network may grant as periodic TAU, in seconds; -1: switched off
  MaxSamples,  \* MAX_SAMPLES, 5 in the code
  Pauses       \* TRUE where main sleeps once more after run_periodic, as the CoAP one does

ASSUME PeriodicAssumption ==
  /\ Grants \subseteq Nat \cup {-1}
  /\ MaxSamples \in Nat \ {0}
  /\ Pauses \in BOOLEAN

VARIABLES
  main,               \* where the main thread is
  timer,              \* whether app_timer was started
  actual_tau,         \* seconds, and minutes once the timer runs
  minutes,            \* the interrupt's count, modulo actual_tau
  transmit,           \* an upload is due
  transmit_finished,  \* it was made
  sample_cnt,
  due,                \* history: the interrupt has set transmit since the last upload began
  uploads,            \* history: samples uploaded
  ticked              \* history: a minute has passed since main last looked at transmit

mainVars == <<main, transmit_finished, sample_cnt, uploads>>
timerVars == <<timer, actual_tau, minutes>>
periodicVars == <<mainVars, timerVars, transmit, due, ticked>>

\* "start" is the way to the main loop, on which only the MQTT application is
\* ever "waiting"; "sleep" and "pause" are the sleeps of
\* run_periodic and of main.  Both ways to return leave the timer running.
MainStates ==
  {"start", "waiting", "loop", "upload", "sleep", "pause",
   "finished", "failed", "fault"}

Running == main # "fault"

PeriodicInit ==
  /\ main = "start"
  /\ timer = FALSE
  /\ minutes = 0
  /\ transmit = FALSE
  /\ transmit_finished = FALSE
  /\ sample_cnt = 1
  /\ due = FALSE
  /\ uploads = 0
  /\ ticked = FALSE

\* actual_tau is a static without initialiser.
Init == PeriodicInit /\ actual_tau = 0

-----------------------------------------------------------------------------
(* The interrupt.                                                          *)

\* Mutant of Due: the remainder is compared with the wrong number.
RemainderIsTau(m) == m % actual_tau = actual_tau

\* The test in app_timer_handler, of the count it has just incremented.
Due(m) == m % actual_tau = 0

(***************************************************************************)
(* A minute passes.  Dividing by an actual_tau of 0 faults: Zephyr has the *)
(* processor trap divisions by zero.  A sleep of one second spans the end  *)
(* of one minute at most, and so do the two of an iteration.               *)
(***************************************************************************)
Minute ==
  /\ Running
  /\ timer
  /\ main \in {"sleep", "pause"} => ~ticked
  /\ ticked' = TRUE
  /\ IF actual_tau = 0
     THEN /\ main' = "fault"
          /\ UNCHANGED <<minutes, transmit, due>>
     ELSE /\ minutes' = (minutes + 1) % actual_tau
          /\ IF Due(minutes + 1)
             THEN transmit' = TRUE /\ due' = TRUE
             ELSE UNCHANGED <<transmit, due>>
          /\ UNCHANGED main
  /\ UNCHANGED <<transmit_finished, sample_cnt, uploads, timer, actual_tau>>

-----------------------------------------------------------------------------
(* The main thread.                                                        *)

\* actual_tau / 60; C rounds to 0.
InMinutes(s) == IF s < 0 THEN 0 ELSE s \div 60

\* main up to its loop.  lte_lc_psm_get may fail, which leaves actual_tau alone
\* and which this main does not look at.
Start ==
  /\ main = "start"
  /\ main' = "loop"
  /\ timer' = TRUE
  /\ \E granted \in Grants \cup {actual_tau} : actual_tau' = InMinutes(granted)
  /\ UNCHANGED <<minutes, transmit, transmit_finished, sample_cnt, due, uploads, ticked>>

\* run_periodic finds nothing to transmit and sleeps.
NothingToDo ==
  /\ main = "loop"
  /\ ~transmit
  /\ main' = "sleep"
  /\ ticked' = FALSE
  /\ UNCHANGED <<transmit_finished, sample_cnt, uploads, timerVars, transmit, due>>

\* run_periodic calls coap_endpoint_post.
BeginUpload ==
  /\ main = "loop"
  /\ transmit
  /\ main' = "upload"
  /\ due' = FALSE
  /\ UNCHANGED <<transmit_finished, sample_cnt, uploads, timerVars, transmit, ticked>>

\* coap_endpoint_post returns COAP_RESPONSE_CODE_CREATED.
UploadDone ==
  /\ main = "upload"
  /\ main' = "sleep"
  /\ transmit_finished' = TRUE
  /\ uploads' = uploads + 1
  /\ ticked' = FALSE
  /\ UNCHANGED <<sample_cnt, timerVars, transmit, due>>

\* It returns anything else: the test ends.
UploadFails ==
  /\ main = "upload"
  /\ main' = "failed"
  /\ UNCHANGED <<transmit_finished, sample_cnt, uploads, timerVars, transmit, due, ticked>>

\* Mutant of EndTransmission: the trigger is not taken back.
KeepTransmit ==
  /\ UNCHANGED transmit
  /\ transmit_finished' = FALSE

EndTransmission ==
  /\ transmit' = FALSE
  /\ transmit_finished' = FALSE

\* Mutant of Transmitted: any transmission phase is over after the sleep.
TransmitOnly == transmit

\* The test after the sleep of run_periodic.
Transmitted == transmit /\ transmit_finished

\* Mutant of LastSample: one sample too many.
PastLastSample == sample_cnt > MaxSamples

LastSample == sample_cnt >= MaxSamples

\* The rest of run_periodic, after its sleep.
EndSleep ==
  /\ main = "sleep"
  /\ IF Transmitted
     THEN /\ EndTransmission
          /\ sample_cnt' = IF LastSample THEN sample_cnt ELSE sample_cnt + 1
     ELSE UNCHANGED <<transmit, transmit_finished, sample_cnt>>
  /\ main' = IF Transmitted /\ LastSample THEN "finished"
             ELSE IF Pauses THEN "pause" ELSE "loop"
  /\ UNCHANGED <<uploads, timerVars, due, ticked>>

\* main's own sleep ends.
EndPause ==
  /\ main = "pause"
  /\ main' = "loop"
  /\ UNCHANGED <<transmit_finished, sample_cnt, uploads, timerVars, transmit, due, ticked>>

\* What main does by itself, uploads aside.
MainLoop == NothingToDo \/ BeginUpload \/ EndSleep \/ EndPause

Next == Start \/ MainLoop \/ UploadDone \/ UploadFails \/ Minute

Spec == Init /\ [][Next]_periodicVars

-----------------------------------------------------------------------------
(* Properties.                                                             *)

TypeOK ==
  /\ main \in MainStates
  /\ timer \in BOOLEAN
  /\ actual_tau \in Int
  /\ minutes \in Nat
  /\ transmit \in BOOLEAN
  /\ transmit_finished \in BOOLEAN
  /\ sample_cnt \in 1 .. MaxSamples
  /\ due \in BOOLEAN
  /\ uploads \in 0 .. MaxSamples
  /\ ticked \in BOOLEAN

\* The test ends without an error after exactly MAX_SAMPLES uploads, and
\* sample_cnt, whose first value is 1, never runs ahead of or behind them:
\* run_periodic counts a sample one sleep after it was uploaded (main.c:258-269).
EverySampleCounted ==
  uploads = IF main = "finished" THEN MaxSamples
            ELSE IF transmit_finished THEN sample_cnt ELSE sample_cnt - 1

\* An upload begins only for a trigger that came since the last one began
\* (main.c:222, 243): no sample is sent twice for one interval.
UploadsAreDue == [][main # "upload" /\ main' = "upload" => due]_periodicVars

(***************************************************************************)
(* main.c:319 and 327: "The network can provide other PSM values. So we    *)
(* fetch the actual values of the network", "Converting TAU to minutes".   *)
(* Whatever the network provides, the test runs with it.                   *)
(***************************************************************************)
AnyGrantRuns == main # "fault"

-----------------------------------------------------------------------------
(* The inductive invariant.                                                *)

\* Where the two flags can be set, and that a pending trigger is news.
Phases ==
  /\ main = "upload" => transmit /\ ~transmit_finished
  /\ transmit_finished => main = "sleep" /\ transmit
  /\ transmit /\ ~transmit_finished => due \/ main \in {"upload", "failed"}
  /\ main = "finished" => sample_cnt = MaxSamples

\* The timer runs with minutes, and nothing is triggered before it runs or with
\* a TAU that will fault.
TriggersNeedTau ==
  /\ main \in {"start", "waiting"} => ~timer
  /\ timer => actual_tau \in Nat
  /\ transmit \/ main = "finished" => timer /\ actual_tau # 0

IInv == TypeOK /\ EverySampleCounted /\ Phases /\ TriggersNeedTau

=============================================================================
