------------------------- MODULE PeriodicTestProofs -------------------------
(***************************************************************************)
(* Proofs about PeriodicTest, for every set of grants and number of        *)
(* samples.  IInv relates the flags to where the main thread is: without   *)
(* Phases nothing says that a pending trigger is a new one, and without    *)
(* TriggersNeedTau a device that finished its test could still fault.      *)
(***************************************************************************)
EXTENDS PeriodicTest, TLAPS

USE DEF MainStates

\* The granted seconds make a number of minutes (main.c:328).
LEMMA MinutesAreNatural ==
  ASSUME NEW s \in Int
  PROVE  InMinutes(s) \in Nat
  BY DEF InMinutes

\* The static variables of main.c and run_periodic satisfy the invariant, with
\* any initial actual_tau.
LEMMA InitHolds ==
  ASSUME PeriodicInit, actual_tau \in Int
  PROVE  IInv
<1>1. 1 \in 1 .. MaxSamples /\ 0 \in 0 .. MaxSamples
  BY PeriodicAssumption
<1>2. TypeOK
  BY <1>1 DEF PeriodicInit, TypeOK
<1>3. EverySampleCounted /\ Phases /\ TriggersNeedTau
  BY DEF PeriodicInit, EverySampleCounted, Phases, TriggersNeedTau
<1> QED BY <1>2, <1>3 DEF IInv

\* The timer interrupt keeps the invariant (main.c:216).
LEMMA MinuteStep ==
  ASSUME IInv, Minute
  PROVE  IInv'
<1> USE DEF IInv, TypeOK
<1>1. CASE actual_tau = 0
  <2>1. main' = "fault" /\ main # "finished" /\ ~transmit_finished /\ ~transmit
    BY <1>1 DEF Minute, Phases, TriggersNeedTau
  <2>2. UNCHANGED <<timer, actual_tau, minutes, transmit, transmit_finished,
                    sample_cnt, due, uploads>> /\ ticked' = TRUE
    BY <1>1 DEF Minute
  <2>3. TypeOK'
    BY <2>1, <2>2
  <2>4. EverySampleCounted'
    BY <2>1, <2>2 DEF EverySampleCounted
  <2>5. Phases' /\ TriggersNeedTau'
    BY <2>1, <2>2 DEF Phases, TriggersNeedTau
  <2> QED BY <2>3, <2>4, <2>5
<1>2. CASE actual_tau # 0
  <2>1. timer /\ main \notin {"start", "waiting"}
    BY DEF Minute, TriggersNeedTau
  <2>2. /\ UNCHANGED <<main, timer, actual_tau, transmit_finished, sample_cnt, uploads>>
        /\ ticked' = TRUE
        /\ minutes' = (minutes + 1) % actual_tau
        /\ (transmit' = TRUE /\ due' = TRUE) \/ UNCHANGED <<transmit, due>>
    BY <1>2 DEF Minute
  <2>3. minutes' \in Nat
    BY <1>2, <2>1, <2>2 DEF TriggersNeedTau
  <2>4. TypeOK'
    BY <2>2, <2>3
  <2>5. EverySampleCounted'
    BY <2>2 DEF EverySampleCounted
  <2>6. Phases'
    BY <2>2 DEF Phases
  <2>7. TriggersNeedTau'
    BY <1>2, <2>1, <2>2 DEF TriggersNeedTau
  <2> QED BY <2>4, <2>5, <2>6, <2>7
<1> QED BY <1>1, <1>2

\* So do the steps of the main thread in its loop (main.c:239-273, 338-347).
LEMMA MainLoopStep ==
  ASSUME IInv, MainLoop
  PROVE  IInv'
<1> USE DEF IInv, TypeOK, timerVars
<1>1. CASE NothingToDo
  BY <1>1 DEF NothingToDo, EverySampleCounted, Phases, TriggersNeedTau
<1>2. CASE BeginUpload
  BY <1>2 DEF BeginUpload, EverySampleCounted, Phases, TriggersNeedTau
<1>3. CASE EndSleep
  <2>0. MaxSamples \in Nat /\ sample_cnt \in Nat /\ sample_cnt <= MaxSamples
    BY PeriodicAssumption
  <2>1. CASE Transmitted /\ LastSample
    <3>1. sample_cnt = MaxSamples
      BY <2>0, <2>1 DEF LastSample
    <3>2. /\ main' = "finished" /\ transmit' = FALSE /\ transmit_finished' = FALSE
          /\ UNCHANGED <<sample_cnt, uploads, timer, actual_tau, minutes, due, ticked>>
      BY <1>3, <2>1 DEF EndSleep, EndTransmission
    <3>3. uploads = sample_cnt /\ timer /\ actual_tau # 0
      BY <1>3, <2>1 DEF EndSleep, Transmitted, EverySampleCounted, TriggersNeedTau
    <3>4. EverySampleCounted'
      BY <3>1, <3>2, <3>3 DEF EverySampleCounted
    <3> QED
      BY <3>1, <3>2, <3>3, <3>4 DEF Phases, TriggersNeedTau
  <2>2. CASE Transmitted /\ ~LastSample
    <3>1. sample_cnt + 1 \in 1 .. MaxSamples
      BY <2>0, <2>2 DEF LastSample
    <3>2. /\ main' \in {"pause", "loop"} /\ sample_cnt' = sample_cnt + 1
          /\ transmit' = FALSE /\ transmit_finished' = FALSE
          /\ UNCHANGED <<uploads, timer, actual_tau, minutes, due, ticked>>
      BY <1>3, <2>2 DEF EndSleep, EndTransmission
    <3>3. uploads' = sample_cnt' - 1
      BY <1>3, <2>0, <2>2, <3>2 DEF EndSleep, Transmitted, EverySampleCounted
    <3>4. EverySampleCounted'
      BY <3>2, <3>3 DEF EverySampleCounted
    <3>5. timer /\ actual_tau # 0 /\ uploads = sample_cnt
      BY <1>3, <2>2 DEF EndSleep, Transmitted, EverySampleCounted, TriggersNeedTau
    <3>6. Phases' /\ TriggersNeedTau'
      BY <3>2, <3>5 DEF Phases, TriggersNeedTau
    <3> QED
      BY <3>1, <3>2, <3>4, <3>6
  <2>3. CASE ~Transmitted
    BY <1>3, <2>3 DEF EndSleep, Transmitted, EverySampleCounted, Phases, TriggersNeedTau
  <2> QED BY <2>1, <2>2, <2>3
<1>4. CASE EndPause
  BY <1>4 DEF EndPause, EverySampleCounted, Phases, TriggersNeedTau
<1> QED BY <1>1, <1>2, <1>3, <1>4 DEF MainLoop

\* So does the end of an upload, with or without success (main.c:248-253).
LEMMA UploadStep ==
  ASSUME IInv, UploadDone \/ UploadFails
  PROVE  IInv'
<1> USE DEF IInv, TypeOK, timerVars
<1>1. CASE UploadDone
  <2>1. /\ main = "upload" /\ main' = "sleep" /\ transmit_finished' = TRUE
        /\ uploads' = uploads + 1 /\ ticked' = FALSE
        /\ UNCHANGED <<sample_cnt, timer, actual_tau, minutes, transmit, due>>
    BY <1>1 DEF UploadDone
  <2>2. uploads = sample_cnt - 1 /\ transmit
    BY <2>1 DEF EverySampleCounted, Phases
  <2>3. uploads' = sample_cnt /\ sample_cnt \in 0 .. MaxSamples
    BY <2>1, <2>2, PeriodicAssumption
  <2>4. EverySampleCounted' /\ uploads' \in 0 .. MaxSamples
    BY <2>1, <2>3 DEF EverySampleCounted
  <2> QED
    BY <2>1, <2>2, <2>4 DEF Phases, TriggersNeedTau
<1>2. CASE UploadFails
  BY <1>2 DEF UploadFails, EverySampleCounted, Phases, TriggersNeedTau
<1> QED BY <1>1, <1>2

\* So does main's way to its loop (main.c:298-336).
LEMMA StartStep ==
  ASSUME IInv, Start
  PROVE  IInv'
<1>1. PICK granted \in Grants \cup {actual_tau} : actual_tau' = InMinutes(granted)
  BY DEF Start
<1>2. actual_tau' \in Nat
  BY <1>1, MinutesAreNatural, PeriodicAssumption DEF IInv, TypeOK
<1> QED
  BY <1>2 DEF Start, IInv, TypeOK, EverySampleCounted, Phases, TriggersNeedTau

\* The inductive invariant holds: the flags are set only where the main thread
\* expects them, and the samples are counted right.
THEOREM Invariant == Spec => []IInv
<1>1. Init => IInv
  BY InitHolds DEF Init
<1>2. IInv /\ [Next]_periodicVars => IInv'
  <2> SUFFICES ASSUME IInv, [Next]_periodicVars PROVE IInv'
    OBVIOUS
  <2>1. CASE Next
    BY <2>1, MinuteStep, MainLoopStep, UploadStep, StartStep DEF Next
  <2>2. CASE UNCHANGED periodicVars
    BY <2>2 DEF periodicVars, mainVars, timerVars, IInv, TypeOK,
       EverySampleCounted, Phases, TriggersNeedTau
  <2> QED BY <2>1, <2>2
<1> QED BY <1>1, <1>2, PTL DEF Spec

\* The static variables keep their types; sample_cnt stays within MAX_SAMPLES.
THEOREM TypeCorrect == Spec => []TypeOK
<1>1. IInv => TypeOK
  BY DEF IInv
<1> QED BY <1>1, Invariant, PTL

\* Whatever the interrupt does, the test counts every sample it uploaded once and
\* ends without an error after exactly MAX_SAMPLES of them (main.c:258-269).
THEOREM SamplesAreCounted == Spec => []EverySampleCounted
<1>1. IInv => EverySampleCounted
  BY DEF IInv
<1> QED BY <1>1, Invariant, PTL

\* What the test does once main is in its loop.
LoopStep == MainLoop \/ UploadDone \/ UploadFails \/ Minute

\* A step of the loop that begins an upload finds a trigger that is news.
LEMMA UploadsInLoop ==
  ASSUME IInv, LoopStep, main # "upload", main' = "upload"
  PROVE  due
<1>1. CASE BeginUpload
  BY <1>1 DEF BeginUpload, IInv, TypeOK, Phases
<1>2. CASE ~BeginUpload
  BY <1>2 DEF LoopStep, MainLoop, NothingToDo, UploadDone, UploadFails, EndSleep,
     EndPause, Minute
<1> QED BY <1>1, <1>2

\* No sample is uploaded twice for one trigger (main.c:222, 243).
THEOREM EveryUploadIsDue == Spec => UploadsAreDue
<1>1. IInv /\ [Next]_periodicVars => [main # "upload" /\ main' = "upload" => due]_periodicVars
  BY UploadsInLoop DEF Next, LoopStep, Start
<1> QED BY <1>1, Invariant, PTL DEF Spec, UploadsAreDue

-----------------------------------------------------------------------------
(* The division by zero.                                                   *)

\* The device faulted because the timer counts modulo a TAU of 0 minutes.
FaultIsZeroTau == main = "fault" => timer /\ actual_tau = 0

\* Nothing but the interrupt faults, and a device that faulted stays as it is
\* (main.c:222).
LEMMA FaultStep ==
  ASSUME IInv, FaultIsZeroTau, LoopStep
  PROVE  FaultIsZeroTau'
<1>1. main # "fault"
  BY DEF LoopStep, MainLoop, NothingToDo, BeginUpload, UploadDone, UploadFails, EndSleep,
     EndPause, Minute, Running
<1>2. CASE Minute
  BY <1>1, <1>2 DEF Minute, FaultIsZeroTau
<1>3. CASE ~Minute
  BY <1>3 DEF LoopStep, MainLoop, NothingToDo, BeginUpload, UploadDone, UploadFails,
     EndSleep, EndPause, FaultIsZeroTau
<1> QED BY <1>2, <1>3

\* Whatever the network grants, main asks for in time and the interrupt does, the only way
\* to fault is a TAU of less than a minute (main.c:222, 328).
THEOREM OnlyZeroTauFaults == Spec => [](~AnyGrantRuns => timer /\ actual_tau = 0)
<1>1. Init => FaultIsZeroTau
  BY DEF Init, PeriodicInit, FaultIsZeroTau
<1>2. IInv /\ FaultIsZeroTau /\ [Next]_periodicVars => FaultIsZeroTau'
  <2> SUFFICES ASSUME IInv, FaultIsZeroTau, [Next]_periodicVars PROVE FaultIsZeroTau'
    OBVIOUS
  <2>1. CASE LoopStep
    BY <2>1, FaultStep
  <2>2. CASE Start
    BY <2>2 DEF Start, FaultIsZeroTau
  <2>3. CASE UNCHANGED periodicVars
    BY <2>3 DEF periodicVars, mainVars, timerVars, FaultIsZeroTau
  <2> QED BY <2>1, <2>2, <2>3 DEF Next, LoopStep
<1>3. FaultIsZeroTau => (~AnyGrantRuns => timer /\ actual_tau = 0)
  BY DEF FaultIsZeroTau, AnyGrantRuns
<1> QED BY <1>1, <1>2, <1>3, Invariant, PTL DEF Spec

=============================================================================
