--------------------------- MODULE MqttAppProofs ----------------------------
(***************************************************************************)
(* Proofs about MqttApp, for every payload length, buffer size, grant and  *)
(* number of samples.  The session's invariant is independent of the       *)
(* periodic test; the test's invariant is that of PeriodicTest, whose      *)
(* lemmas are used for the steps the two applications share.               *)
(***************************************************************************)
EXTENDS MqttApp, PeriodicTestProofs

USE DEF ThreadStates, MainStates

\* A call of the library that loses or refuses to close the connection keeps
\* the flag in agreement with the session (mqtt_module.c:175-180).
LEMMA DisconnectAgrees ==
  ASSUME SessionTypeOK, ConnectedIsSession, Disconnected \/ mqtt_disconnect
  PROVE  /\ session' \in {"none", "tcp", "down"}
         /\ connected' = FALSE
         /\ ConnectedIsSession'
         /\ session \in {"up", "down"} => session' = "down"
         /\ session' = IF Disconnected \/ session = "up" THEN "down" ELSE session
  BY DEF SessionTypeOK, ConnectedIsSession, Disconnected, mqtt_disconnect

\* The thread keeps the session's invariant (mqtt_module.c:361-419).
LEMMA ThreadKeepsSession ==
  ASSUME SessionInv, Thread
  PROVE  SessionInv'
<1> USE DEF SessionInv, payloadVars
<1>0. SocketEvents \subseteq SUBSET {"POLLIN", "POLLERR", "POLLNVAL"}
  BY DEF SocketEvents
<1>1. CASE Connect
  BY <1>1 DEF Connect, SessionTypeOK, ConnectedIsSession, StreamInStep, ReadingNeedsSession
<1>2. CASE PollFails
  BY <1>2 DEF PollFails, SessionTypeOK, ConnectedIsSession, StreamInStep, ReadingNeedsSession
<1>3. CASE PollReturns
  BY <1>0, <1>3
  DEF PollReturns, SessionTypeOK, ConnectedIsSession, StreamInStep, ReadingNeedsSession
<1>4. CASE LiveFails
  BY <1>4, DisconnectAgrees DEF LiveFails, SessionTypeOK, StreamInStep, ReadingNeedsSession
<1>5. CASE PollIdle \/ InputOther
  <2>1. /\ thread = "polled" /\ thread' \in {"leaving", "polling"}
        /\ UNCHANGED <<connected, session, revents, length, left, remaining, published>>
    BY <1>5 DEF PollIdle, InputOther, Input, EndOfLoop
  <2> QED
    BY <2>1 DEF SessionTypeOK, ConnectedIsSession, StreamInStep, ReadingNeedsSession
<1>6. CASE InputFails
  BY <1>6, DisconnectAgrees
  DEF InputFails, Input, SessionTypeOK, StreamInStep, ReadingNeedsSession
<1>7. CASE InputConnack
  BY <1>7
  DEF InputConnack, Input, ConnackAccepted, SubscribeFails, Disconnected, EndOfLoop,
      SessionTypeOK, ConnectedIsSession, StreamInStep, ReadingNeedsSession
<1>8. ASSUME NEW n \in Lengths, InputPublish(n)
      PROVE  SessionInv'
  <2>1. n \in Nat /\ published + 1 \in 0 .. MaxPublished
    BY <1>8, SessionAssumption DEF InputPublish, SessionTypeOK
  <2>2. CASE ~FitsBuffer(n)
    <3>1. PayloadFails /\ session = "up"
      BY <1>8, <2>2 DEF InputPublish
    <3>2. session' = "down" /\ ConnectedIsSession' /\ connected' = FALSE
      BY <3>1, DisconnectAgrees DEF PayloadFails
    <3>3. thread' \in {"leaving", "polling"}
      BY <3>1 DEF PayloadFails
    <3> QED
      BY <1>8, <2>1, <3>2, <3>3
      DEF InputPublish, Input, SessionTypeOK, StreamInStep, ReadingNeedsSession
  <2>3. CASE FitsBuffer(n)
    BY <1>8, <2>1, <2>3
    DEF InputPublish, Input, FitsBuffer, EndOfLoop,
        SessionTypeOK, ConnectedIsSession, StreamInStep, ReadingNeedsSession
  <2> QED BY <2>2, <2>3
<1>9. ASSUME NEW n \in 1 .. left, ReadSome(n)
      PROVE  SessionInv'
  <2>1. left' \in Nat /\ remaining' = left'
    BY <1>9 DEF ReadSome, SessionTypeOK, StreamInStep
  <2> QED
    BY <1>9, <2>1
    DEF ReadSome, EndOfLoop, SessionTypeOK, ConnectedIsSession, StreamInStep, ReadingNeedsSession
<1>10. CASE ReadAgain
  BY <1>10 DEF ReadAgain, SessionTypeOK, ConnectedIsSession, StreamInStep, ReadingNeedsSession
<1>11. CASE thread \in {"reading", "waiting"} /\ PayloadFails /\ UNCHANGED payloadVars
            /\ revents' \in SUBSET {"POLLIN", "POLLERR", "POLLNVAL"}
  <2>1. session' = "down" /\ ConnectedIsSession' /\ connected' = FALSE
    BY <1>11, DisconnectAgrees DEF PayloadFails, ReadingNeedsSession
  <2>2. thread' \in {"leaving", "polling"}
    BY <1>11 DEF PayloadFails
  <2> QED
    BY <1>11, <2>1, <2>2 DEF SessionTypeOK, StreamInStep, ReadingNeedsSession
<1>12. CASE ReadFails
  BY <1>11, <1>12 DEF ReadFails, SessionTypeOK
<1>13. CASE WaitEnds
  <2>1. CASE PayloadFails
    BY <1>0, <1>11, <1>13, <2>1 DEF WaitEnds
  <2>2. CASE thread' = "reading" /\ UNCHANGED <<session, connected>>
    BY <1>0, <1>13, <2>2
    DEF WaitEnds, SessionTypeOK, ConnectedIsSession, StreamInStep, ReadingNeedsSession
  <2> QED BY <1>13, <2>1, <2>2 DEF WaitEnds
<1>14. CASE Leave
  BY <1>14, DisconnectAgrees DEF Leave, SessionTypeOK, StreamInStep, ReadingNeedsSession
<1> QED
  BY <1>1, <1>2, <1>3, <1>4, <1>5, <1>6, <1>7, <1>8, <1>9, <1>10, <1>12, <1>13, <1>14
  DEF Thread

\* So does a publisher whose write fails, whatever the thread is doing.
LEMMA PublisherKeepsSession ==
  ASSUME SessionInv, PublishBreaks
  PROVE  SessionInv'
  BY DisconnectAgrees
  DEF PublishBreaks, payloadVars, SessionInv, SessionTypeOK, StreamInStep, ReadingNeedsSession

\* The session's invariant in every step of the application.
LEMMA SessionStep ==
  ASSUME SessionInv, [AppNext]_vars
  PROVE  SessionInv'
<1>1. CASE UNCHANGED sessionVars
  BY <1>1 DEF sessionVars, SessionInv, SessionTypeOK, ConnectedIsSession, StreamInStep,
     ReadingNeedsSession
<1>2. CASE MainStep
  BY <1>1, <1>2 DEF MainStep, GetTau, EnterLoop, sessionVars
<1>3. CASE MainPublishes
  BY <1>1, <1>3, PublisherKeepsSession
  DEF MainPublishes, Publish, PublishAccepted, PublishRefused
<1>4. CASE ButtonPublishes
  BY <1>4, PublisherKeepsSession DEF ButtonPublishes, Button
<1>5. CASE MqttThread
  BY <1>5, ThreadKeepsSession DEF MqttThread
<1>6. CASE TimerInterrupt
  BY <1>1, <1>6 DEF TimerInterrupt, sessionVars
<1>7. CASE UNCHANGED vars
  BY <1>1, <1>7 DEF vars
<1> QED BY <1>2, <1>3, <1>4, <1>5, <1>6, <1>7 DEF AppNext

\* The session's invariant holds in the application, for every interleaving of
\* the MQTT thread, the publishers and the timer.
THEOREM SessionInvariant == AppSpec => []SessionInv
<1>1. AppInit => SessionInv
  <2>1. 0 \in 0 .. MaxPublished
    BY SessionAssumption
  <2>2. SessionInit => SessionTypeOK
    <3> SUFFICES ASSUME SessionInit PROVE SessionTypeOK
      OBVIOUS
    <3>1. thread \in ThreadStates /\ connected \in BOOLEAN
          /\ session \in {"none", "tcp", "up", "down"}
      BY DEF SessionInit
    <3>2. revents \in SUBSET {"POLLIN", "POLLERR", "POLLNVAL"}
      BY DEF SessionInit
    <3>3. length \in Nat /\ left \in Nat /\ remaining \in Nat
          /\ published \in 0 .. MaxPublished
      BY <2>1 DEF SessionInit
    <3> QED BY <3>1, <3>2, <3>3 DEF SessionTypeOK
  <2>3. SessionInit => ConnectedIsSession /\ StreamInStep /\ ReadingNeedsSession
    BY DEF SessionInit, ConnectedIsSession, StreamInStep, ReadingNeedsSession
  <2> QED
    BY <2>2, <2>3 DEF AppInit, SessionInv
<1>2. SessionInv /\ [AppNext]_vars => SessionInv'
  BY SessionStep
<1> QED BY <1>1, <1>2, PTL DEF AppSpec

\* `connected` is true exactly while there is an accepted session, whoever loses
\* it (mqtt_module.c:170, 179).
THEOREM ConnectedAgrees == AppSpec => []ConnectedIsSession
<1>1. SessionInv => ConnectedIsSession
  BY DEF SessionInv
<1> QED BY <1>1, SessionInvariant, PTL

\* No byte of a message is left in the stream when the thread polls again, and no
\* message is read past the end of payload_buf (mqtt_module.c:117-154).
THEOREM StreamStaysInStep == AppSpec => []StreamInStep
<1>1. SessionInv => StreamInStep
  BY DEF SessionInv
<1> QED BY <1>1, SessionInvariant, PTL

\* The periodic test keeps its invariant in every step of the application: the
\* steps it shares with the CoAP application by PeriodicTest's lemmas, main's
\* way to the loop by the two cases here (mqtt/src/main.c:342-365).
LEMMA TestStep ==
  ASSUME IInv, [AppNext]_vars
  PROVE  IInv'
<1>1. CASE UNCHANGED periodicVars
  BY <1>1 DEF periodicVars, mainVars, timerVars, IInv, TypeOK, EverySampleCounted,
     Phases, TriggersNeedTau
<1>2. CASE MainLoop
  BY <1>2, MainLoopStep
<1>3. CASE UploadDone \/ UploadFails
  BY <1>3, UploadStep
<1>4. CASE Minute
  BY <1>4, MinuteStep
<1>5. CASE GetTau
  <2>1. actual_tau' \in Int
    <3>1. Grants \subseteq Int
      BY PeriodicAssumption
    <3> QED BY <1>5, <3>1 DEF GetTau, IInv, TypeOK
  <2>2. /\ main = "start" /\ main' = "waiting"
        /\ UNCHANGED <<timer, minutes, transmit, transmit_finished, sample_cnt,
                       due, uploads, ticked>>
    BY <1>5 DEF GetTau
  <2>3. TypeOK'
    BY <2>1, <2>2 DEF IInv, TypeOK
  <2> QED
    BY <2>2, <2>3 DEF IInv, TypeOK, EverySampleCounted, Phases, TriggersNeedTau
<1>6. CASE EnterLoop
  <2>1. actual_tau' \in Nat
    BY <1>6, MinutesAreNatural DEF EnterLoop, IInv, TypeOK
  <2>2. /\ main = "waiting" /\ main' \in {"failed", "loop"} /\ timer' = TRUE
        /\ UNCHANGED <<minutes, transmit, transmit_finished, sample_cnt,
                       due, uploads, ticked>>
    BY <1>6 DEF EnterLoop
  <2>3. TypeOK'
    BY <2>1, <2>2 DEF IInv, TypeOK
  <2> QED
    BY <2>1, <2>2, <2>3 DEF IInv, TypeOK, EverySampleCounted, Phases, TriggersNeedTau
<1>7. CASE UNCHANGED vars
  BY <1>1, <1>7 DEF vars
<1> QED
  BY <1>1, <1>2, <1>3, <1>4, <1>5, <1>6, <1>7
  DEF AppNext, MainStep, MainPublishes, Publish, ButtonPublishes, Button, MqttThread,
      TimerInterrupt

\* The samples are counted right over MQTT too, whatever the session does to the
\* uploads: IInv has EverySampleCounted as a part (mqtt/src/main.c:257-293).
THEOREM TestInvariant == AppSpec => []IInv
<1>1. AppInit => IInv
  BY InitHolds DEF AppInit
<1>2. IInv /\ [AppNext]_vars => IInv'
  BY TestStep
<1> QED BY <1>1, <1>2, PTL DEF AppSpec

\* Over MQTT, too, the test counts every sample it uploaded once and ends after exactly
\* MAX_SAMPLES of them, or with an error (mqtt/src/main.c:277-290).
THEOREM MqttSamplesAreCounted == AppSpec => []EverySampleCounted
<1>1. IInv => EverySampleCounted
  BY DEF IInv
<1> QED BY <1>1, TestInvariant, PTL

\* The steps of the application that concern the test: those of its loop, and main's way there.
LEMMA StepOfTheTest ==
  ASSUME [AppNext]_vars
  PROVE  LoopStep \/ GetTau \/ EnterLoop \/ UNCHANGED periodicVars
  BY DEF AppNext, MainStep, MainPublishes, Publish, ButtonPublishes, Button, MqttThread,
     TimerInterrupt, LoopStep, vars

\* main's way to its loop begins no upload.
LEMMA UploadsStep ==
  ASSUME IInv, [AppNext]_vars
  PROVE  [main # "upload" /\ main' = "upload" => due]_periodicVars
<1>1. CASE LoopStep
  BY <1>1, UploadsInLoop
<1>2. CASE GetTau \/ EnterLoop
  BY <1>2 DEF GetTau, EnterLoop
<1> QED BY <1>1, <1>2, StepOfTheTest

\* No sample is published twice for one trigger, whatever the session does meanwhile
\* (mqtt/src/main.c:240, 261).
THEOREM MqttUploadsAreDue == AppSpec => UploadsAreDue
<1>1. IInv /\ [AppNext]_vars => [main # "upload" /\ main' = "upload" => due]_periodicVars
  BY UploadsStep
<1> QED BY <1>1, TestInvariant, PTL DEF AppSpec, UploadsAreDue

\* Unless lte_lc_psm_get failed, the timer counts the minutes of a grant; main looks at the
\* error only after it started the timer.
TauIsGranted ==
  /\ main = "waiting" /\ ~err => actual_tau \in Grants
  /\ timer /\ ~err => \E g \in Grants : actual_tau = InMinutes(g)

\* Nothing but main's way to its loop touches the TAU (mqtt/src/main.c:345, 358).
LEMMA TauStep ==
  ASSUME IInv, TauIsGranted, [AppNext]_vars
  PROVE  TauIsGranted'
<1>1. CASE GetTau
  <2>1. main = "start" /\ main' = "waiting" /\ timer' = timer
        /\ (err' \/ actual_tau' \in Grants)
    BY <1>1 DEF GetTau
  <2> QED BY <2>1 DEF TauIsGranted, IInv, TriggersNeedTau
<1>2. CASE EnterLoop
  BY <1>2 DEF EnterLoop, TauIsGranted
<1>3. CASE LoopStep /\ UNCHANGED err
  <2>1. UNCHANGED <<timer, actual_tau>> /\ main' # "waiting"
    BY <1>3 DEF LoopStep, MainLoop, NothingToDo, BeginUpload, UploadDone, UploadFails,
       EndSleep, EndPause, Minute, timerVars, IInv, TriggersNeedTau
  <2> QED BY <1>3, <2>1 DEF TauIsGranted
<1>4. CASE UNCHANGED <<periodicVars, err>>
  BY <1>4 DEF periodicVars, mainVars, timerVars, TauIsGranted
<1>5. GetTau \/ EnterLoop \/ UNCHANGED err
  BY DEF AppNext, MainStep, MainPublishes, ButtonPublishes, MqttThread, TimerInterrupt, vars
<1> QED BY <1>1, <1>2, <1>3, <1>4, <1>5, StepOfTheTest

(***************************************************************************)
(* If the network grants whole minutes, nothing but a failed               *)
(* lte_lc_psm_get makes the interrupt divide by zero: its error is looked  *)
(* at only after the timer was started (mqtt/src/main.c:240, 358-365).     *)
(***************************************************************************)
THEOREM OnlyFailedGetFaults ==
  ASSUME \A g \in Grants : g >= 60
  PROVE  AppSpec => [](~err => AnyGrantRuns)
<1>1. AppInit => FaultIsZeroTau /\ TauIsGranted
  BY DEF AppInit, PeriodicInit, FaultIsZeroTau, TauIsGranted
<1>2. IInv /\ FaultIsZeroTau /\ [AppNext]_vars => FaultIsZeroTau'
  <2> SUFFICES ASSUME IInv, FaultIsZeroTau, [AppNext]_vars PROVE FaultIsZeroTau'
    OBVIOUS
  <2>1. CASE GetTau \/ EnterLoop
    BY <2>1 DEF GetTau, EnterLoop, FaultIsZeroTau
  <2>2. CASE UNCHANGED periodicVars
    BY <2>2 DEF periodicVars, mainVars, timerVars, FaultIsZeroTau
  <2> QED BY <2>1, <2>2, StepOfTheTest, FaultStep
<1>3. IInv /\ TauIsGranted /\ [AppNext]_vars => TauIsGranted'
  BY TauStep
<1>4. ASSUME NEW g \in Grants  PROVE InMinutes(g) # 0
  <2>1. g \in Int /\ g >= 60
    BY <1>4, PeriodicAssumption
  <2> QED BY <2>1 DEF InMinutes
<1>5. FaultIsZeroTau /\ TauIsGranted => (~err => AnyGrantRuns)
  BY <1>4 DEF FaultIsZeroTau, TauIsGranted, AnyGrantRuns
<1> QED BY <1>1, <1>2, <1>3, <1>5, TestInvariant, PTL DEF AppSpec

\* Every variable of the application keeps its type.
THEOREM AppTypeCorrect == AppSpec => []AppTypeOK
<1> DEFINE ErrOK == err \in BOOLEAN
<1>1. AppInit => ErrOK
  BY DEF AppInit
<1>2. ErrOK /\ [AppNext]_vars => ErrOK'
  BY DEF AppNext, MainStep, GetTau, EnterLoop, MainPublishes, ButtonPublishes, MqttThread,
     TimerInterrupt, vars
<1>3. SessionInv /\ IInv /\ ErrOK => AppTypeOK
  BY DEF SessionInv, IInv, AppTypeOK
<1> HIDE DEF ErrOK
<1> QED BY <1>1, <1>2, <1>3, SessionInvariant, TestInvariant, PTL DEF AppSpec

-----------------------------------------------------------------------------
(* The refinement of MqttLink.                                             *)

\* A step of the link, by the session and the flag before and after it.
LEMMA LinkMoves ==
  ASSUME ConnectedIsSession, ConnectedIsSession', SessionTypeOK, UNCHANGED uploads,
         \/ UNCHANGED session
         \/ session = "none" /\ session' = "tcp"
         \/ session = "tcp" /\ session' = "up"
         \/ session # "none" /\ session' = "down"
  PROVE  Link!Next \/ UNCHANGED <<LinkOf, uploads>>
<1>. USE DEF ConnectedIsSession, LinkOf, Link!Next, Link!Become
<1>1. CASE UNCHANGED session
  BY <1>1
<1>2. CASE session = "none" /\ session' = "tcp"
  BY <1>2 DEF Link!Dial
<1>3. CASE session = "tcp" /\ session' = "up"
  BY <1>3 DEF Link!Accept
<1>4. CASE session # "none" /\ session' = "down"
  BY <1>4 DEF Link!Lose, SessionTypeOK
<1>. QED  BY <1>1, <1>2, <1>3, <1>4

\* The MQTT thread makes a connection, loses it, or leaves it as it is.
LEMMA ThreadMovesLink ==
  ASSUME SessionInv, DialedOrDone, Thread
  PROVE  /\ DialedOrDone'
         /\ \/ UNCHANGED session
            \/ session = "none" /\ session' = "tcp"
            \/ session = "tcp" /\ session' = "up"
            \/ session # "none" /\ session' = "down"
<1>. USE DEF SessionInv, DialedOrDone
<1>1. CASE Connect
  BY <1>1 DEF Connect
<1>2. CASE thread \notin {"start", "ended", "crashed"} /\ thread' # "start"
           /\ (Disconnected \/ mqtt_disconnect \/ UNCHANGED session)
  BY <1>2 DEF Disconnected, mqtt_disconnect
<1>3. CASE PollFails \/ PollReturns \/ LiveFails \/ PollIdle \/ Leave
  BY <1>2, <1>3 DEF PollFails, PollReturns, LiveFails, PollIdle, Leave, EndOfLoop
<1>4. CASE InputFails \/ InputOther
  BY <1>2, <1>4 DEF InputFails, InputOther, Input, EndOfLoop
<1>5. CASE InputConnack
  BY <1>5 DEF InputConnack, Input, ConnackAccepted, SubscribeFails, Disconnected, EndOfLoop
<1>6. ASSUME NEW n \in Lengths, InputPublish(n)
      PROVE  /\ thread = "polled" /\ thread' # "start"
             /\ mqtt_disconnect \/ UNCHANGED session
  BY <1>6 DEF InputPublish, Input, PayloadFails, EndOfLoop
<1>7. ASSUME NEW n \in 1 .. left, ReadSome(n)
      PROVE  thread = "reading" /\ thread' # "start" /\ UNCHANGED session
  BY <1>7 DEF ReadSome, EndOfLoop
<1>8. CASE ReadAgain \/ ReadFails \/ WaitEnds
  BY <1>2, <1>8 DEF ReadAgain, ReadFails, WaitEnds, PayloadFails
<1>. QED  BY <1>1, <1>2, <1>3, <1>4, <1>5, <1>6, <1>7, <1>8 DEF Thread

\* Every step of the application is a step of the link, or none of its.
LEMMA LinkStep ==
  ASSUME SessionInv, IInv, DialedOrDone, [AppNext]_vars
  PROVE  DialedOrDone' /\ (Link!Next \/ UNCHANGED <<LinkOf, uploads>>)
<1>1. ConnectedIsSession /\ ConnectedIsSession' /\ SessionTypeOK
  BY SessionStep DEF SessionInv
<1>2. ASSUME UNCHANGED <<session, thread, uploads>>
      PROVE  DialedOrDone' /\ (Link!Next \/ UNCHANGED <<LinkOf, uploads>>)
  BY <1>1, <1>2, LinkMoves DEF DialedOrDone
<1>3. CASE MainStep
  BY <1>2, <1>3
  DEF MainStep, GetTau, EnterLoop, sessionVars, MainLoop, NothingToDo, BeginUpload, EndSleep,
      EndPause
<1>4. CASE MainPublishes
  <2>1. CASE UploadDone /\ PublishAccepted
    <3>1. /\ session = "up" /\ uploads' = uploads + 1
          /\ UNCHANGED <<session, connected, thread>>
      BY <2>1 DEF UploadDone, PublishAccepted, sessionVars
    <3>2. LinkOf = "up" /\ LinkOf' = "up"
      BY <1>1, <3>1 DEF LinkOf, ConnectedIsSession
    <3>. QED  BY <3>1, <3>2 DEF DialedOrDone, Link!Next, Link!Deliver
  <2>2. CASE UploadFails /\ PublishRefused
    BY <1>2, <2>2 DEF UploadFails, PublishRefused, sessionVars
  <2>3. CASE UploadFails /\ PublishBreaks
    <3>1. session = "up" /\ session' = "down" /\ UNCHANGED <<thread, uploads>>
      BY <2>3 DEF UploadFails, PublishBreaks, Disconnected
    <3>. QED  BY <1>1, <3>1, LinkMoves DEF DialedOrDone
  <2>. QED  BY <1>4, <2>1, <2>2, <2>3 DEF MainPublishes, Publish
<1>5. CASE ButtonPublishes
  <2>1. session = "up" /\ session' = "down" /\ UNCHANGED <<thread, uploads>>
    BY <1>5 DEF ButtonPublishes, Button, PublishBreaks, Disconnected, periodicVars, mainVars
  <2>. QED  BY <1>1, <2>1, LinkMoves DEF DialedOrDone
<1>6. CASE MqttThread
  <2>1. UNCHANGED uploads
    BY <1>6 DEF MqttThread, periodicVars, mainVars
  <2>. QED  BY <1>1, <1>6, <2>1, ThreadMovesLink, LinkMoves DEF MqttThread
<1>7. CASE TimerInterrupt \/ UNCHANGED vars
  BY <1>2, <1>7
  DEF TimerInterrupt, Minute, vars, sessionVars, periodicVars, mainVars
<1>. QED  BY <1>3, <1>4, <1>5, <1>6, <1>7 DEF AppNext

(***************************************************************************)
(* Whatever the broker, the publishers and the thread do, there is one     *)
(* connection, and what main counts went over it (mqtt_module.c:170, 179;  *)
(* mqtt/src/main.c:266-272).                                               *)
(***************************************************************************)
THEOREM OneConnection == AppSpec => ImplementsLink
<1>. DEFINE shown == <<LinkOf, uploads>>
<1>1. AppInit => Link!Init /\ DialedOrDone
  BY DEF AppInit, SessionInit, PeriodicInit, Link!Init, LinkOf, DialedOrDone
<1>2. SessionInv /\ IInv /\ DialedOrDone /\ [AppNext]_vars
        => DialedOrDone' /\ [Link!Next]_shown
  BY LinkStep
<1>. HIDE DEF shown
<1>. QED
  BY <1>1, <1>2, SessionInvariant, TestInvariant, PTL
  DEF AppSpec, ImplementsLink, Link!Spec, Link!linkVars, shown

-----------------------------------------------------------------------------
(* The refinement of PeriodicTest.                                         *)

\* main runs its loop only without an error, and up to the loop actual_tau is what the
\* network granted or its initial value (mqtt/src/main.c:36, 345, 362).
BeforeLoop ==
  /\ main \in {"loop", "upload", "sleep", "pause"} => ~err
  /\ main \in {"start", "waiting"} => actual_tau \in Grants \cup {10}

\* Every step keeps it.
LEMMA BeforeLoopStep ==
  ASSUME BeforeLoop, [AppNext]_vars
  PROVE  BeforeLoop'
<1>1. CASE GetTau \/ EnterLoop
  BY <1>1 DEF GetTau, EnterLoop, BeforeLoop
<1>2. CASE LoopStep /\ UNCHANGED err
  BY <1>2 DEF LoopStep, MainLoop, NothingToDo, BeginUpload, UploadDone, UploadFails,
     EndSleep, EndPause, Minute, timerVars, BeforeLoop
<1>3. CASE UNCHANGED <<periodicVars, err>>
  BY <1>3 DEF periodicVars, mainVars, timerVars, BeforeLoop
<1>4. GetTau \/ EnterLoop \/ UNCHANGED err
  BY DEF AppNext, MainStep, MainPublishes, ButtonPublishes, MqttThread, TimerInterrupt, vars
<1> QED BY <1>1, <1>2, <1>3, <1>4, StepOfTheTest

\* main's way to its loop is the test's start: ten seconds, the value without a grant, are
\* no minutes either.
LEMMA EnterLoopIsStart ==
  ASSUME BeforeLoop, EnterLoop
  PROVE  Test!Start
<1>1. /\ TestMain = "start" /\ TestMain' = "loop"
      /\ TestTau = 0 /\ TestTau' = InMinutes(actual_tau)
  BY DEF EnterLoop, TestMain, TestTau
<1>2. InMinutes(10) = Test!InMinutes(0) /\ InMinutes(actual_tau) = Test!InMinutes(actual_tau)
  BY DEF InMinutes, Test!InMinutes
<1>3. actual_tau \in Grants \cup {10}
  BY DEF EnterLoop, BeforeLoop
<1>4. \E granted \in Grants \cup {TestTau} : TestTau' = Test!InMinutes(granted)
  BY <1>1, <1>2, <1>3
<1> QED BY <1>1, <1>4 DEF EnterLoop, Test!Start

\* The steps of main's loop, and the ends of uploads, are the test's own.
LEMMA MainLoopIsTheTests ==
  ASSUME IInv, BeforeLoop, MainLoop \/ UploadDone \/ UploadFails, UNCHANGED err
  PROVE  Test!MainLoop \/ Test!UploadDone \/ Test!UploadFails
<1>1. /\ main \in {"loop", "upload", "sleep", "pause"} /\ ~err
      /\ main' \in {"loop", "upload", "sleep", "pause", "finished", "failed"}
      /\ UNCHANGED timerVars
  BY DEF MainLoop, NothingToDo, BeginUpload, UploadDone, UploadFails, EndSleep, EndPause,
     BeforeLoop
<1>2. TestMain = main /\ TestMain' = main' /\ TestTau = actual_tau /\ TestTau' = actual_tau'
  BY <1>1 DEF TestMain, TestTau
<1>3. UNCHANGED Test!timerVars
  BY <1>1, <1>2 DEF timerVars, Test!timerVars
<1>4. CASE NothingToDo
  BY <1>2, <1>3, <1>4 DEF NothingToDo, Test!NothingToDo, Test!MainLoop
<1>5. CASE BeginUpload
  BY <1>2, <1>3, <1>5 DEF BeginUpload, Test!BeginUpload, Test!MainLoop
<1>6. CASE EndSleep
  BY <1>2, <1>3, <1>6
  DEF EndSleep, Transmitted, EndTransmission, LastSample, Test!EndSleep, Test!Transmitted,
      Test!EndTransmission, Test!LastSample, Test!MainLoop
<1>7. CASE EndPause
  BY <1>2, <1>3, <1>7 DEF EndPause, Test!EndPause, Test!MainLoop
<1>8. CASE UploadDone
  BY <1>2, <1>3, <1>8 DEF UploadDone, Test!UploadDone
<1>9. CASE UploadFails
  BY <1>2, <1>3, <1>9 DEF UploadFails, Test!UploadFails
<1> QED BY <1>4, <1>5, <1>6, <1>7, <1>8, <1>9 DEF MainLoop

\* The interrupt is the test's, also when it finds a main that returned.
LEMMA MinuteIsTheTests ==
  ASSUME IInv, Minute, UNCHANGED err
  PROVE  Test!Minute
<1>1. main \notin {"start", "waiting"} /\ main # "fault" /\ timer
  BY DEF Minute, Running, IInv, TriggersNeedTau
<1>2. main' = main \/ main' = "fault"
  BY DEF Minute
<1>3. /\ TestMain = (IF main = "failed" /\ err THEN "loop" ELSE main)
      /\ TestMain' = (IF main' = "fault" THEN "fault" ELSE TestMain)
      /\ TestTau = actual_tau /\ TestTau' = actual_tau'
  BY <1>1, <1>2 DEF TestMain, TestTau
<1>4. Test!Running /\ (TestMain \in {"sleep", "pause"} => ~ticked)
  BY <1>1, <1>3 DEF Minute, Test!Running
<1>5. CASE actual_tau = 0
  BY <1>3, <1>4, <1>5 DEF Minute, Test!Minute
<1>6. CASE actual_tau # 0
  BY <1>1, <1>3, <1>4, <1>6 DEF Minute, Due, Test!Minute, Test!Due
<1> QED BY <1>5, <1>6

(***************************************************************************)
(* Whatever the session, the waiting loop and lte_lc_psm_get do, the MQTT  *)
(* application is an implementation of the periodic test of the CoAP one   *)
(* (mqtt/src/main.c:234-293, 345-380).                                     *)
(***************************************************************************)
THEOREM MqttImplementsTest == AppSpec => ImplementsTest
<1>1. AppInit => Test!Init /\ BeforeLoop
  BY DEF AppInit, PeriodicInit, Test!Init, Test!PeriodicInit, TestMain, TestTau, BeforeLoop
<1>2. IInv /\ BeforeLoop /\ [AppNext]_vars => BeforeLoop' /\ [Test!Next]_(Test!periodicVars)
  <2> SUFFICES ASSUME IInv, BeforeLoop, [AppNext]_vars
               PROVE  [Test!Next]_(Test!periodicVars)
    BY BeforeLoopStep
  <2>1. GetTau \/ EnterLoop \/ UNCHANGED err
    BY DEF AppNext, MainStep, MainPublishes, ButtonPublishes, MqttThread, TimerInterrupt, vars
  <2>2. CASE GetTau
    BY <2>2 DEF GetTau, TestMain, TestTau, Test!periodicVars, Test!mainVars, Test!timerVars
  <2>3. CASE EnterLoop
    BY <2>3, EnterLoopIsStart DEF Test!Next
  <2>4. CASE LoopStep /\ UNCHANGED err
    BY <2>4, MainLoopIsTheTests, MinuteIsTheTests DEF LoopStep, Test!Next
  <2>5. CASE UNCHANGED <<periodicVars, err>>
    BY <2>5 DEF periodicVars, mainVars, timerVars, TestMain, TestTau, Test!periodicVars,
       Test!mainVars, Test!timerVars
  <2> QED BY <2>1, <2>2, <2>3, <2>4, <2>5, StepOfTheTest
<1> QED BY <1>1, <1>2, TestInvariant, PTL DEF AppSpec, ImplementsTest, Test!Spec
=============================================================================
