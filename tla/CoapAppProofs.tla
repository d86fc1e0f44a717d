--------------------------- MODULE CoapAppProofs ----------------------------
(***************************************************************************)
(* Proofs about CoapApp, for every set of PSM answers, payload size and    *)
(* number of retransmissions.  The application implements PeriodicTest, so *)
(* what is proved of the test holds of the application; what relates the   *)
(* test to the endpoint needs AppInv, which says what an endpoint that was *)
(* not started leaves a call in, and whose response a call holds.          *)
(***************************************************************************)
EXTENDS CoapApp, PeriodicTestProofs

USE DEF AppClients

-----------------------------------------------------------------------------
(* The application runs the periodic test.                                 *)

\* Every step of the application is one of the test, or does not concern it.
LEMMA StepIsOfTheTest ==
  ASSUME [AppNext]_vars
  PROVE  [Next]_periodicVars
<1>1. CASE StartEndpoint \/ SetAddress \/ message_post
  BY <1>1 DEF StartEndpoint, SetAddress, message_post
<1>2. CASE StartTest
  BY <1>2 DEF StartTest, Next
<1>3. CASE RunPeriodic
  BY <1>3 DEF RunPeriodic, MainLoop, Next
<1>4. CASE UploadReturns
  BY <1>4 DEF UploadReturns, Next
<1>5. CASE Button1 \/ Button1Returns \/ Button2
  BY <1>5 DEF Button1, Button1Returns, Button2
<1>6. ASSUME NEW c \in AppClients, Serve(c) PROVE [Next]_periodicVars
  BY <1>6 DEF Serve
<1>7. CASE TimerInterrupt
  BY <1>7 DEF TimerInterrupt, Next
<1>8. CASE UNCHANGED vars
  BY <1>8 DEF vars
<1> QED
  BY <1>1, <1>2, <1>3, <1>4, <1>5, <1>6, <1>7, <1>8 DEF AppNext, Main

\* The application implements the test, with uploads that are POSTs (main.c:248).
THEOREM ImplementsPeriodicTest == AppSpec => Spec
<1>1. AppInit => Init
  BY DEF AppInit
<1> QED BY <1>1, StepIsOfTheTest, PTL DEF AppSpec, Spec

\* Its invariant holds of the application.
LEMMA TestInvariant == AppSpec => []IInv
  BY ImplementsPeriodicTest, Invariant, PTL

\* Every sample is counted once, with the button's POSTs and an endpoint that may be
\* missing around the test (main.c:258-269).
THEOREM AppSamplesAreCounted == AppSpec => []EverySampleCounted
  BY ImplementsPeriodicTest, SamplesAreCounted, PTL

\* No sample is posted twice for one trigger (main.c:222, 243).
THEOREM AppUploadsAreDue == AppSpec => UploadsAreDue
  BY ImplementsPeriodicTest, EveryUploadIsDue, PTL

-----------------------------------------------------------------------------
(* The calls of CoapExchange.                                              *)

\* A step of client c's call keeps the types.
LEMMA ExchangeTyped ==
  ASSUME TypeInv, NEW c \in AppClients, E!Step(c)
  PROVE  exchange' \in [AppClients -> [stage : E!Stages, sends : 0 .. MaxRetransmit + 1,
                                      result : Results]]
<1> DEFINE Entries == [stage : E!Stages, sends : 0 .. MaxRetransmit + 1, result : Results]
<1>0. /\ 0 \in 0 .. MaxRetransmit + 1 /\ 1 \in 0 .. MaxRetransmit + 1
      /\ MaxRetransmit \in Nat
  BY AppAssumption
<1>1. exchange \in [AppClients -> Entries] /\ exchange[c] \in Entries
  BY DEF TypeInv
<1>2. ASSUME NEW from, NEW to \in E!Stages, NEW n \in 0 .. MaxRetransmit + 1,
             NEW r \in Results, E!Move(c, from, to, n, r)
      PROVE  exchange' \in [AppClients -> Entries]
  BY <1>1, <1>2 DEF E!Move
<1>3. CASE E!Call(c) \/ E!Refuse(c) \/ E!OutOfMemory(c) \/ E!GiveUp(c) \/ E!Send(c)
  BY <1>0, <1>2, <1>3 DEF E!Call, E!Refuse, E!OutOfMemory, E!GiveUp, E!Send, E!Finish,
     E!Stages, Results
<1>4. CASE E!Respond(c) \/ E!Cancel(c)
  BY <1>0, <1>2, <1>4 DEF E!Respond, E!Cancel, E!Finish, E!Stages, Results
<1>5. CASE E!Resend(c)
  <2>1. exchange[c].sends \in 0 .. MaxRetransmit + 1
    BY <1>1
  <2>2. exchange[c].sends + 1 \in 0 .. MaxRetransmit + 1
    BY <1>0, <1>5, <2>1 DEF E!Resend
  <2> QED
    BY <1>2, <1>5, <2>2 DEF E!Resend, E!Stages, Results
<1>6. CASE E!Acknowledge(c) \/ E!Return(c)
  <2>1. /\ exchange[c].sends \in 0 .. MaxRetransmit + 1
        /\ exchange[c].result \in Results
    BY <1>1
  <2> QED
    BY <1>0, <1>2, <1>6, <2>1 DEF E!Acknowledge, E!Return, E!Stages, Results
<1> QED
  BY <1>3, <1>4, <1>5, <1>6 DEF E!Step

\* Nobody else moves.
LEMMA OthersStay ==
  ASSUME TypeInv, NEW c \in AppClients, E!Step(c), NEW d \in AppClients, d # c
  PROVE  exchange'[d] = exchange[d]
  BY DEF TypeInv, E!Step, E!Call, E!Refuse, E!Send, E!Resend, E!Acknowledge, E!Respond,
     E!Cancel, E!GiveUp, E!OutOfMemory, E!Return, E!Finish, E!Move

\* A new POST is queued, or refused, and holds no response.
LEMMA PostQueues ==
  ASSUME TypeInv, ResponsesAreFresh, NEW c \in AppClients, Post(c)
  PROVE  /\ E!Step(c)
         /\ exchange'[c].stage \in {"idle", "queued"}
         /\ exchange'[c].result \in {"none", "ENOMEM"}
         /\ exchange' \in [AppClients -> [stage : E!Stages, sends : 0 .. MaxRetransmit + 1,
                                          result : Results]]
         /\ unaddressed' \subseteq AppClients /\ answered' \subseteq AppClients
         /\ ResponsesAreFresh'
<1>1. /\ E!Step(c)
      /\ exchange'[c].stage \in {"idle", "queued"}
      /\ exchange'[c].result \in {"none", "ENOMEM"}
  BY DEF Post, TypeInv, E!Step, E!Call, E!Refuse, E!Move
<1>2. unaddressed' \subseteq AppClients /\ answered' \subseteq AppClients
  BY DEF Post, TypeInv
<1>3. ResponsesAreFresh'
  <2> SUFFICES ASSUME NEW d \in AppClients, exchange'[d].result = "ok"
               PROVE  d \in answered' \ unaddressed'
    BY DEF ResponsesAreFresh
  <2>1. d # c
    BY <1>1
  <2>2. d \in answered \ unaddressed
    BY <1>1, <2>1, OthersStay DEF ResponsesAreFresh
  <2> QED BY <2>1, <2>2 DEF Post
<1> QED BY <1>1, <1>2, <1>3, ExchangeTyped

\* What the threads do for a call is a step of it, and does not make it idle; a call that
\* comes to hold a response was answered just then.
LEMMA ServeSteps ==
  ASSUME TypeInv, NEW c \in AppClients, Serve(c)
  PROVE  /\ E!Step(c)
         /\ exchange[c].stage # "idle"
         /\ exchange'[c].result = "ok" => c \in answered' \ unaddressed
         /\ answered \subseteq answered' /\ answered' \subseteq AppClients
<1>1. exchange \in [AppClients -> [stage : E!Stages, sends : 0 .. MaxRetransmit + 1,
                                  result : Results]]
  BY DEF TypeInv
<1>2. CASE c \notin unaddressed /\ E!Respond(c) /\ answered' = answered \cup {c}
  BY <1>1, <1>2 DEF TypeInv, E!Step, E!Respond, E!Finish, E!Move
<1>3. CASE /\ E!Send(c) \/ E!OutOfMemory(c) \/ E!Resend(c) \/ E!GiveUp(c)
              \/ E!Acknowledge(c) \/ E!Cancel(c)
           /\ UNCHANGED answered
  BY <1>1, <1>3 DEF TypeInv, E!Step, E!Send, E!Resend, E!Acknowledge, E!Cancel, E!GiveUp,
     E!OutOfMemory, E!Finish, E!Move
<1> QED BY <1>2, <1>3 DEF Serve

-----------------------------------------------------------------------------
(* The TAU.                                                                *)

\* The table of T3412 gives what the comment over setup_psm documents (main.c:191-202,
\* lte_helpers.c:65), in whole minutes.
LEMMA TableIsDocumented ==
  ASSUME NEW t \in Timers
  PROVE  InMinutes(Seconds(t3412_lookup, t)) = DocumentedMinutes(t)
<1>1. t.unit \in 0 .. 7 /\ t.value \in 0 .. 31
  BY DEF Timers
<1>2. CASE t.unit = 7
  BY <1>2 DEF InMinutes, Seconds, t3412_lookup, DocumentedMinutes
<1>3. CASE t.unit # 7
  <2>1. t.unit \in 0 .. 6
    BY <1>1, <1>3
  <2>2. /\ t3412_lookup[t.unit] = DocumentedUnit[t.unit]
        /\ t3412_lookup[t.unit] \in Nat \ {0}
    BY <2>1 DEF t3412_lookup, DocumentedUnit, Minutes, Hours
  <2>3. t3412_lookup[t.unit] * t.value \in Nat
    BY <1>1, <2>2
  <2>4. Seconds(t3412_lookup, t) = t3412_lookup[t.unit] * t.value
    BY <2>2 DEF Seconds
  <2> QED
    BY <1>3, <2>2, <2>3, <2>4 DEF InMinutes, DocumentedMinutes, Minutes
<1> QED BY <1>2, <1>3

-----------------------------------------------------------------------------
(* The inductive invariant of the application.                             *)

\* AppInv holds before main starts.
LEMMA AppInitHolds ==
  ASSUME AppInit
  PROVE  AppInv
<1>1. /\ 0 \in 0 .. TEST_DATA_SIZE + IndexStep /\ 0 <= TEST_DATA_SIZE
      /\ 0 \in 0 .. MaxRetransmit + 1
  BY AppAssumption
<1>2. exchange = [c \in AppClients |-> [stage |-> "idle", sends |-> 0, result |-> "none"]]
  BY DEF AppInit, E!Init
<1>3. TypeInv
  <2>1. exchange \in [AppClients -> [stage : E!Stages, sends : 0 .. MaxRetransmit + 1,
                                     result : Results]]
    BY <1>1, <1>2 DEF E!Stages, Results
  <2> QED BY <1>1, <2>1 DEF AppInit, TypeInv
<1> QED
  BY <1>2, <1>3 DEF AppInit, Init, PeriodicInit, AppInv, NobodyThere,
     ResponsesAreFresh, TauUntouched, IntervalAsGranted

\* So it does while the endpoint is started, with or without success, and when its address is
\* set (main.c:80-95).
LEMMA InitEndpointStep ==
  ASSUME AppInv, StartEndpoint \/ SetAddress
  PROVE  AppInv'
<1>1. /\ endpoint' \in {"NULL", "up"} /\ addressed' \in BOOLEAN
      /\ endpoint # "none" => endpoint = "up" /\ endpoint' = "up"
      /\ UNCHANGED <<main, timer, actual_tau>>
      /\ UNCHANGED <<exchange, unaddressed, answered, test_index, grant>>
  BY DEF StartEndpoint, SetAddress, periodicVars, mainVars, timerVars, callVars, AppInv, TypeInv
<1> QED
  BY <1>1 DEF AppInv, TypeInv, Idle, NobodyThere, ResponsesAreFresh, TauUntouched,
     IntervalAsGranted

\* When message_post faults the device, the calls stay what they are (main.c:66).
LEMMA MessagePostStep ==
  ASSUME AppInv, message_post
  PROVE  AppInv'
<1>1. /\ endpoint' = "fault"
      /\ UNCHANGED <<main, timer, actual_tau>>
      /\ UNCHANGED <<addressed, exchange, unaddressed, answered, test_index, grant>>
  BY DEF message_post, periodicVars, mainVars, timerVars, callVars
<1> QED
  BY <1>1 DEF AppInv, TypeInv, Idle, NobodyThere, ResponsesAreFresh, TauUntouched,
     IntervalAsGranted

\* After the network was asked for its TAU (main.c:321, 328).
LEMMA StartTestStep ==
  ASSUME AppInv, StartTest
  PROVE  AppInv'
<1>1. /\ main = "start" /\ main' = "loop"
      /\ UNCHANGED <<endpoint, addressed, exchange, unaddressed, answered, test_index>>
      /\ grant' \in Granted \cup {NoGrant}
      /\ actual_tau' = InMinutes(at_callback_handler(grant',
                          [tau |-> actual_tau, active_time |-> 0]).tau)
  BY DEF StartTest, Start, callVars
<1>2. actual_tau = 0
  BY <1>1 DEF AppInv, TauUntouched
<1>3. IntervalAsGranted'
  <2>1. CASE TauRead(grant')
    <3>1. grant' \in Granted
      BY <1>1, <2>1 DEF TauRead, NoGrant
    <3>2. grant'.tau \in Timers
      BY <2>1, <3>1, AppAssumption DEF Answers, TauRead
    <3>3. actual_tau' = InMinutes(Seconds(t3412_lookup, grant'.tau))
      BY <1>1, <2>1 DEF at_callback_handler
    <3> QED BY <2>1, <3>2, <3>3, TableIsDocumented DEF IntervalAsGranted
  <2>2. CASE ~TauRead(grant')
    <3>1. actual_tau' = InMinutes(0)
      BY <1>1, <1>2, <2>2 DEF at_callback_handler
    <3> QED BY <2>2, <3>1 DEF IntervalAsGranted, InMinutes
  <2> QED BY <2>1, <2>2
<1> QED
  BY <1>1, <1>3 DEF AppInv, TypeInv, Idle, NobodyThere, ResponsesAreFresh, TauUntouched

\* After a step of main's loop (main.c:239, 338); a POST may begin.
LEMMA RunPeriodicStep ==
  ASSUME AppInv, RunPeriodic
  PROVE  AppInv'
<1>1. /\ main \notin {"start"} /\ main' \notin {"start"}
      /\ UNCHANGED <<timer, actual_tau, endpoint, addressed, test_index, grant>>
  BY DEF RunPeriodic, BeginUpload, NothingToDo, EndSleep, EndPause, timerVars, appVars
<1>2. CASE UNCHANGED appVars
  BY <1>1, <1>2 DEF appVars, callVars, AppInv, TypeInv, Idle, NobodyThere,
     ResponsesAreFresh, TauUntouched, IntervalAsGranted
<1>3. CASE Post("main")
  <2>1. TypeInv /\ ResponsesAreFresh
    BY DEF AppInv
  <2>2. /\ E!Step("main")
        /\ exchange'["main"].stage \in {"idle", "queued"}
        /\ exchange'["main"].result \in {"none", "ENOMEM"}
        /\ exchange' \in [AppClients -> [stage : E!Stages, sends : 0 .. MaxRetransmit + 1,
                                         result : Results]]
        /\ unaddressed' \subseteq AppClients /\ answered' \subseteq AppClients
        /\ ResponsesAreFresh'
    BY <1>3, <2>1, PostQueues
  <2>3. exchange'["button"] = exchange["button"]
    BY <2>1, <2>2, OthersStay
  <2> QED
    BY <1>1, <2>1, <2>2, <2>3 DEF AppInv, TypeInv, Idle, NobodyThere, TauUntouched,
       IntervalAsGranted
<1> QED BY <1>2, <1>3 DEF RunPeriodic

\* A call that returns keeps its result.
LEMMA ReturnKeepsResult ==
  ASSUME AppInv, NEW c \in AppClients, E!Return(c), UNCHANGED <<unaddressed, answered>>
  PROVE  /\ exchange' \in [AppClients -> [stage : E!Stages, sends : 0 .. MaxRetransmit + 1,
                                         result : Results]]
         /\ exchange[c].stage = "done" /\ exchange'[c].stage = "idle"
         /\ endpoint \notin {"none", "NULL"}
         /\ ResponsesAreFresh'
<1>1. TypeInv /\ E!Step(c)
  BY DEF AppInv, E!Step
<1>2. /\ exchange[c].stage = "done" /\ exchange'[c].stage = "idle"
      /\ exchange'[c].result = exchange[c].result
  BY <1>1 DEF TypeInv, E!Return, E!Move
<1>3. endpoint \notin {"none", "NULL"}
  BY <1>2 DEF AppInv, NobodyThere
<1>4. \A d \in AppClients : exchange'[d].result = exchange[d].result
  BY <1>1, <1>2, OthersStay
<1> QED BY <1>1, <1>2, <1>3, <1>4, ExchangeTyped DEF AppInv, ResponsesAreFresh

\* After main's POST returned (main.c:248-253).
LEMMA UploadReturnsStep ==
  ASSUME AppInv, UploadReturns
  PROVE  AppInv'
<1>1. /\ main = "upload" /\ main' # "start"
      /\ UNCHANGED <<timer, actual_tau, endpoint, addressed, unaddressed, answered,
                     test_index, grant>>
  BY DEF UploadReturns, UploadDone, UploadFails, timerVars
<1>2. CASE UNCHANGED exchange
  BY <1>1, <1>2 DEF AppInv, TypeInv, Idle, NobodyThere, ResponsesAreFresh, TauUntouched,
     IntervalAsGranted
<1>3. CASE E!Return("main")
  <2>1. /\ endpoint \notin {"none", "NULL"}
        /\ ResponsesAreFresh'
        /\ exchange' \in [AppClients -> [stage : E!Stages, sends : 0 .. MaxRetransmit + 1,
                                         result : Results]]
    BY <1>1, <1>3, ReturnKeepsResult
  <2>2. exchange'["button"] = exchange["button"]
    BY <1>3, OthersStay DEF AppInv, E!Step
  <2> QED
    BY <1>1, <2>1, <2>2 DEF AppInv, TypeInv, Idle, NobodyThere, TauUntouched,
       IntervalAsGranted
<1> QED BY <1>2, <1>3 DEF UploadReturns, Returns

\* After the button handler posted, or began again (main.c:118-131).
LEMMA Button1Step ==
  ASSUME AppInv, Button1
  PROVE  AppInv'
<1>1. UNCHANGED <<main, timer, actual_tau, endpoint, addressed, grant>>
  BY DEF Button1, periodicVars, mainVars, timerVars
<1>2. CASE test_index <= TEST_DATA_SIZE
  <2>1. Post("button") /\ UNCHANGED test_index /\ TypeInv /\ ResponsesAreFresh
    BY <1>2 DEF Button1, AppInv
  <2>2. /\ E!Step("button")
        /\ exchange'["button"].stage \in {"idle", "queued"}
        /\ exchange'["button"].result \in {"none", "ENOMEM"}
        /\ exchange' \in [AppClients -> [stage : E!Stages, sends : 0 .. MaxRetransmit + 1,
                                         result : Results]]
        /\ unaddressed' \subseteq AppClients /\ answered' \subseteq AppClients
        /\ ResponsesAreFresh'
    BY <2>1, PostQueues
  <2>3. exchange'["main"] = exchange["main"]
    BY <2>1, <2>2, OthersStay
  <2> QED
    BY <1>1, <1>2, <2>1, <2>2, <2>3 DEF AppInv, TypeInv, Idle, NobodyThere, TauUntouched,
       IntervalAsGranted
<1>3. CASE ~(test_index <= TEST_DATA_SIZE)
  <2>1. test_index' = 0 /\ UNCHANGED <<exchange, unaddressed, answered>>
    BY <1>3 DEF Button1, callVars
  <2>2. 0 \in 0 .. TEST_DATA_SIZE + IndexStep /\ 0 <= TEST_DATA_SIZE
    BY AppAssumption
  <2> QED
    BY <1>1, <2>1, <2>2 DEF AppInv, TypeInv, Idle, NobodyThere, ResponsesAreFresh,
       TauUntouched, IntervalAsGranted
<1> QED BY <1>2, <1>3

\* After its POST returned (main.c:122-127): the next size stays within testData.
LEMMA Button1ReturnsStep ==
  ASSUME AppInv, Button1Returns
  PROVE  AppInv'
<1>1. /\ UNCHANGED <<main, timer, actual_tau, endpoint, addressed, unaddressed, answered,
                     grant>>
      /\ test_index' \in {test_index, test_index + IndexStep}
      /\ E!Return("button")
  BY DEF Button1Returns, periodicVars, mainVars, timerVars
<1>2. /\ exchange' \in [AppClients -> [stage : E!Stages, sends : 0 .. MaxRetransmit + 1,
                                       result : Results]]
      /\ exchange["button"].stage = "done" /\ exchange'["button"].stage = "idle"
      /\ endpoint \notin {"none", "NULL"}
      /\ ResponsesAreFresh'
  BY <1>1, ReturnKeepsResult
<1>3. test_index' \in 0 .. TEST_DATA_SIZE + IndexStep
  BY <1>1, <1>2, AppAssumption DEF AppInv, TypeInv, Idle
<1> QED
  BY <1>1, <1>2, <1>3 DEF AppInv, TypeInv, Idle, NobodyThere, TauUntouched,
     IntervalAsGranted

\* After button 2 (main.c:132).
LEMMA Button2Step ==
  ASSUME AppInv, Button2
  PROVE  AppInv'
<1>1. /\ UNCHANGED <<main, timer, actual_tau, endpoint, addressed, unaddressed, answered,
                     grant>>
      /\ exchange' = exchange /\ test_index' = 0
      /\ 0 \in 0 .. TEST_DATA_SIZE + IndexStep /\ 0 <= TEST_DATA_SIZE
  BY AppAssumption DEF Button2, periodicVars, mainVars, timerVars, callVars
<1> QED
  BY <1>1 DEF AppInv, TypeInv, Idle, NobodyThere, ResponsesAreFresh, TauUntouched,
     IntervalAsGranted

\* After the endpoint's threads did something for a client (coap.c:293-347).
LEMMA ServeStep ==
  ASSUME AppInv, NEW c \in AppClients, Serve(c)
  PROVE  AppInv'
<1>1. /\ endpoint = "up"
      /\ UNCHANGED <<main, timer, actual_tau, endpoint, addressed, unaddressed, test_index,
                     grant>>
  BY DEF Serve, periodicVars, mainVars, timerVars
<1>2. /\ TypeInv /\ E!Step(c) /\ exchange[c].stage # "idle"
      /\ exchange'[c].result = "ok" => c \in answered' \ unaddressed
      /\ answered \subseteq answered' /\ answered' \subseteq AppClients
  BY ServeSteps DEF AppInv
<1>3. exchange' \in [AppClients -> [stage : E!Stages, sends : 0 .. MaxRetransmit + 1,
                                   result : Results]]
  BY <1>2, ExchangeTyped
<1>4. \A d \in AppClients : d # c => exchange'[d] = exchange[d]
  BY <1>2, OthersStay
<1>5. ~Idle("button")' => test_index' <= TEST_DATA_SIZE
  BY <1>1, <1>2, <1>4 DEF TypeInv, Idle
<1>6. ResponsesAreFresh'
  BY <1>1, <1>2, <1>4 DEF AppInv, ResponsesAreFresh
<1> QED
  BY <1>1, <1>2, <1>3, <1>5, <1>6 DEF AppInv, TypeInv, NobodyThere, TauUntouched,
     IntervalAsGranted

\* After a minute (main.c:216).
LEMMA TimerInterruptStep ==
  ASSUME AppInv, TimerInterrupt
  PROVE  AppInv'
<1>1. /\ UNCHANGED <<timer, actual_tau, endpoint, addressed, exchange, unaddressed, answered,
                     test_index, grant>>
      /\ timer
      /\ main' = main \/ main' = "fault"
  BY DEF TimerInterrupt, Minute, appVars, callVars
<1> QED
  BY <1>1 DEF AppInv, TypeInv, Idle, NobodyThere, ResponsesAreFresh, TauUntouched,
     IntervalAsGranted

\* The inductive invariant of the application: without an endpoint, no call gets
\* further than the queue, and a response belongs to the call that returns it.
THEOREM AppInvariant == AppSpec => []AppInv
<1>1. AppInit => AppInv
  BY AppInitHolds
<1>2. AppInv /\ [AppNext]_vars => AppInv'
  <2> SUFFICES ASSUME AppInv, [AppNext]_vars PROVE AppInv'
    OBVIOUS
  <2>1. CASE Main
    BY <2>1, InitEndpointStep, StartTestStep, RunPeriodicStep, UploadReturnsStep DEF Main
  <2>2. CASE Button1 \/ Button1Returns \/ Button2
    BY <2>2, Button1Step, Button1ReturnsStep, Button2Step
  <2>3. CASE \E c \in AppClients : Serve(c)
    BY <2>3, ServeStep
  <2>4. CASE message_post \/ TimerInterrupt
    BY <2>4, MessagePostStep, TimerInterruptStep
  <2>5. CASE UNCHANGED vars
    BY <2>5 DEF vars, appVars, callVars, periodicVars, mainVars, timerVars, AppInv, TypeInv,
       Idle, NobodyThere, ResponsesAreFresh, TauUntouched, IntervalAsGranted
  <2> QED BY <2>1, <2>2, <2>3, <2>4, <2>5 DEF AppNext
<1> QED BY <1>1, <1>2, PTL DEF AppSpec

\* The variables have their types, and no POST of the button reads past testData
\* (main.c:121).
THEOREM AppTypeCorrect == AppSpec => []AppTypeOK
<1>1. AppInv /\ IInv => AppTypeOK
  BY DEF AppInv, TypeInv, IInv, AppTypeOK
<1> QED BY <1>1, AppInvariant, TestInvariant, PTL

(***************************************************************************)
(* What main and the button handler count was addressed to the server and  *)
(* handed a response in the very call they count, whatever the endpoint,   *)
(* the other caller and the order of main's start (main.c:86, 94, 123,     *)
(* 249, 303).                                                              *)
(***************************************************************************)
THEOREM NothingCountedInVain == AppSpec => CountedWasAnswered
<1> DEFINE Step == /\ uploads' # uploads => "main" \in answered \ unaddressed
                   /\ test_index' > test_index => "button" \in answered \ unaddressed
<1>1. AppInv /\ [AppNext]_vars => Step
  <2> SUFFICES ASSUME AppInv, [AppNext]_vars PROVE Step
    OBVIOUS
  <2>1. test_index \in Nat /\ ~ (0 > test_index) /\ ~ (test_index > test_index)
    BY AppAssumption DEF AppInv, TypeInv
  <2>2. CASE UploadReturns
    <3>1. /\ test_index' = test_index
          /\ uploads' # uploads => exchange["main"].result = "ok"
      BY <2>2 DEF UploadReturns, UploadFails, Created
    <3>2. exchange["main"].result = "ok" => "main" \in answered \ unaddressed
      BY DEF AppInv, ResponsesAreFresh, AppClients
    <3>3. ~ (test_index' > test_index)
      BY <2>1, <3>1
    <3> QED BY <3>1, <3>2, <3>3
  <2>3. CASE Button1Returns
    <3>1. /\ uploads' = uploads
          /\ test_index' # test_index => exchange["button"].result = "ok"
      BY <2>3 DEF Button1Returns, Created, periodicVars, mainVars
    <3>2. exchange["button"].result = "ok" => "button" \in answered \ unaddressed
      BY DEF AppInv, ResponsesAreFresh, AppClients
    <3>3. test_index' > test_index => test_index' # test_index
      BY <2>1
    <3> QED BY <3>1, <3>2, <3>3
  <2>4. CASE Button1 \/ Button2
    <3>1. uploads' = uploads /\ test_index' \in {test_index, 0}
      BY <2>4 DEF Button1, Button2, periodicVars, mainVars
    <3> QED BY <2>1, <3>1
  <2>5. CASE StartEndpoint \/ SetAddress \/ StartTest \/ RunPeriodic \/ message_post
             \/ TimerInterrupt \/ (\E c \in AppClients : Serve(c)) \/ UNCHANGED vars
    <3>1. uploads' = uploads /\ test_index' = test_index
      BY <2>5 DEF StartEndpoint, SetAddress, StartTest, Start, RunPeriodic, BeginUpload,
         NothingToDo, EndSleep, EndPause, message_post, TimerInterrupt, Minute, Serve, vars,
         appVars, periodicVars, mainVars
    <3> QED BY <2>1, <3>1
  <2> QED BY <2>2, <2>3, <2>4, <2>5 DEF AppNext, Main
<1> HIDE DEF Step
<1>2. AppInv /\ [AppNext]_vars => [Step]_vars
  BY <1>1
<1>3. AppSpec => [][Step]_vars
  BY <1>2, AppInvariant, PTL DEF AppSpec
<1> QED BY <1>3 DEF CountedWasAnswered, Step

\* The interrupt counts the interval that was granted, in the documented units
\* (main.c:191-202, 328; lte_helpers.c:65).
THEOREM GrantIsKept == AppSpec => []IntervalAsGranted
<1>1. AppInv => IntervalAsGranted
  BY DEF AppInv
<1> QED BY <1>1, AppInvariant, PTL

(***************************************************************************)
(* What a network must grant for the device to run: a TAU of a whole       *)
(* minute or more, in the units of main.c:191-202, in an answer that       *)
(* lte_lc_psm_get can read.  Then the interrupt never divides by zero,     *)
(* whatever the endpoint, main and the button do (main.c:222, 321, 328).   *)
(***************************************************************************)
THEOREM GrantOfAMinuteRuns ==
  AppSpec => [](TauRead(grant) /\ DocumentedMinutes(grant.tau) # 0 => AnyGrantRuns)
<1>1. AppInv /\ (~AnyGrantRuns => timer /\ actual_tau = 0)
        => (TauRead(grant) /\ DocumentedMinutes(grant.tau) # 0 => AnyGrantRuns)
  BY DEF AppInv, IntervalAsGranted
<1> QED BY <1>1, AppInvariant, ImplementsPeriodicTest, OnlyZeroTauFaults, PTL

-----------------------------------------------------------------------------
(* main's calls.                                                           *)

\* main calls coap_endpoint_post from its uploads only, and its call is over when it does.
OneCallOfMain == main \notin {"upload", "fault"} => Idle("main")

\* The button's call never ends or delays main's, and a call that main left is over: its next
\* upload finds coap_endpoint_post free to take it (main.c:122, 248; coap.c:421).
THEOREM MainHasOneCall == AppSpec => []OneCallOfMain
<1>1. AppInit => OneCallOfMain
  BY DEF AppInit, E!Init, OneCallOfMain, Idle
<1>2. AppInv /\ OneCallOfMain /\ [AppNext]_vars => OneCallOfMain'
  <2> SUFFICES ASSUME AppInv, OneCallOfMain, [AppNext]_vars PROVE OneCallOfMain'
    OBVIOUS
  <2> USE DEF OneCallOfMain, Idle
  <2>0. TypeInv
    BY DEF AppInv
  <2>1. CASE StartEndpoint \/ SetAddress \/ StartTest \/ message_post
    BY <2>1 DEF StartEndpoint, SetAddress, StartTest, Start, message_post, periodicVars,
       mainVars, callVars
  <2>2. CASE RunPeriodic
    BY <2>2 DEF RunPeriodic, BeginUpload, NothingToDo, EndSleep, EndPause, appVars,
       callVars
  <2>3. CASE UploadReturns
    BY <2>0, <2>3 DEF UploadReturns, Returns, TypeInv, E!Return, E!Move
  <2>4. CASE Button1 \/ Button1Returns \/ Button2
    <3>1. exchange'["main"] = exchange["main"]
      BY <2>0, <2>4, OthersStay
      DEF Button1, Post, Button1Returns, Button2, E!Step, callVars
    <3>2. main' = main
      BY <2>4 DEF Button1, Button1Returns, Button2, periodicVars, mainVars
    <3> QED BY <3>1, <3>2
  <2>5. ASSUME NEW c \in AppClients, Serve(c)  PROVE OneCallOfMain'
    <3>1. main' = main /\ E!Step(c) /\ exchange[c].stage # "idle"
      BY <2>0, <2>5, ServeSteps DEF Serve, periodicVars, mainVars
    <3>2. CASE c = "main"
      BY <2>5, <3>1, <3>2 DEF Serve, DeviceRuns, Running
    <3>3. CASE c # "main"
      BY <2>0, <3>1, <3>3, OthersStay
    <3> QED BY <3>2, <3>3
  <2>6. CASE TimerInterrupt
    BY <2>6 DEF TimerInterrupt, Minute, appVars, callVars
  <2>7. CASE UNCHANGED vars
    BY <2>7 DEF vars, appVars, callVars, periodicVars, mainVars
  <2> QED BY <2>1, <2>2, <2>3, <2>4, <2>5, <2>6, <2>7 DEF AppNext, Main
<1> QED BY <1>1, <1>2, AppInvariant, PTL DEF AppSpec

=============================================================================
