------------------------------ MODULE CoapApp -------------------------------
(***************************************************************************)
(* The application of coap_telenor/src/main.c: main connects, starts the   *)
(* endpoint and runs the periodic test of PeriodicTest over it, and the    *)
(* button handler posts as well.  Both post through coap_endpoint_post,    *)
(* which is here what it promises, CoapExchange.                           *)
(*                                                                         *)
(* The buttons work before the endpoint does.  A press before or during    *)
(* init_endpoint queues its POST for a thread that may not be there yet,   *)
(* to an address that is not set yet and from which nothing ever answers.  *)
(***************************************************************************)
EXTENDS PeriodicTest, LteHelpers

CONSTANTS
  Granted,         \* the answers the network may give for the PSM values
  MaxRetransmit,   \* as in CoapExchange
  TEST_DATA_SIZE,  \* 1439 in the code
  IndexStep        \* the step of test_index, 10 in the code

\* This main sleeps between two run_periodic.
ASSUME AppAssumption ==
  /\ Pauses = TRUE
  /\ Granted \subseteq Answers
  /\ {Seconds(t3412_lookup, a.tau) : a \in {g \in Granted : TauRead(g)}} \subseteq Grants
  /\ MaxRetransmit \in Nat
  /\ TEST_DATA_SIZE \in Nat
  /\ IndexStep \in Nat \ {0}

VARIABLES
  endpoint,    \* what coap_endpoint_init made of `coap`: nothing yet, NULL, or an endpoint;
               \* "fault" when that has faulted the device
  addressed,   \* whether remote_addr is set
  exchange,    \* per client: its call, as in CoapExchange
  unaddressed, \* clients whose call was made before remote_addr was set
  test_index,  \* the button's
  grant,       \* history: the answer actual_tau was made from
  answered     \* history: clients whose last call was given a response while it ran

callVars == <<exchange, unaddressed, answered>>
appVars == <<endpoint, addressed, callVars, test_index, grant>>
vars == <<periodicVars, appVars>>

AppClients == {"main", "button"}

E == INSTANCE CoapExchange WITH Clients <- AppClients

\* lte_lc_psm_get fails without an answer.
NoGrant == [parsed |-> FALSE, tau |-> Missing, active_time |-> Missing]

AppInit ==
  /\ Init
  /\ endpoint = "none"
  /\ addressed = FALSE
  /\ E!Init
  /\ unaddressed = {}
  /\ answered = {}
  /\ test_index = 0
  /\ grant = NoGrant

DeviceRuns == Running /\ endpoint # "fault"

-----------------------------------------------------------------------------
(* coap_endpoint_post.                                                     *)

Idle(c) == exchange[c].stage = "idle"

\* Client c's call takes the address remote_addr holds now.
Post(c) ==
  /\ E!Call(c) \/ E!Refuse(c)
  /\ unaddressed' = IF addressed THEN unaddressed \ {c} ELSE unaddressed \cup {c}
  /\ answered' = answered \ {c}

\* The call is over and returns a result.
Returns(c) ==
  \/ E!Return(c)
  \/ Idle(c) /\ UNCHANGED exchange

\* Mutant of Created: the result is not looked at.
AnyResult(c) == TRUE

\* The result may be COAP_RESPONSE_CODE_CREATED: a response came.
Created(c) == exchange[c].result = "ok"

\* What the endpoint's threads do for client c, also with what was queued before they were
\* started: the FIFO is there before the endpoint is, and keeps what was put into it.
Serve(c) ==
  /\ DeviceRuns
  /\ endpoint = "up"
  /\ \/ /\ \/ E!Send(c) \/ E!OutOfMemory(c) \/ E!Resend(c) \/ E!GiveUp(c)
           \/ c \notin unaddressed /\ (E!Acknowledge(c) \/ E!Cancel(c))
        /\ UNCHANGED answered
     \/ c \notin unaddressed /\ E!Respond(c) /\ answered' = answered \cup {c}
  /\ UNCHANGED <<periodicVars, endpoint, addressed, unaddressed, test_index, grant>>

\* The server POSTs to the device, and message_post cannot allocate its copy.
message_post ==
  /\ DeviceRuns
  /\ endpoint = "up"
  /\ endpoint' = "fault"
  /\ UNCHANGED <<periodicVars, addressed, callVars, test_index, grant>>

-----------------------------------------------------------------------------
(* The button handler.                                                     *)

\* Button 1: a POST of test_index bytes, or the next round.
Button1 ==
  /\ DeviceRuns
  /\ Idle("button")
  /\ IF test_index <= TEST_DATA_SIZE
     THEN Post("button") /\ UNCHANGED test_index
     ELSE test_index' = 0 /\ UNCHANGED callVars
  /\ UNCHANGED <<periodicVars, endpoint, addressed, grant>>

\* Its POST returns.
Button1Returns ==
  /\ DeviceRuns
  /\ E!Return("button")
  /\ \/ Created("button") /\ test_index' = test_index + IndexStep
     \/ UNCHANGED test_index
  /\ UNCHANGED <<periodicVars, endpoint, addressed, unaddressed, answered, grant>>

\* Button 2, which waits while the handler is still busy with button 1.
Button2 ==
  /\ DeviceRuns
  /\ Idle("button")
  /\ test_index' = 0
  /\ UNCHANGED <<periodicVars, endpoint, addressed, callVars, grant>>

-----------------------------------------------------------------------------
(* main.                                                                   *)

\* init_endpoint, once the modem is connected: coap_endpoint_init starts the endpoint's
\* threads, which serve what was queued, or fails ...
StartEndpoint ==
  /\ main = "start"
  /\ endpoint = "none"
  /\ endpoint' \in {"up", "NULL"}
  /\ UNCHANGED <<periodicVars, addressed, callVars, test_index, grant>>

\* ... and only then main gets to set remote_addr.  After a failure it never does.
SetAddress ==
  /\ main = "start"
  /\ endpoint = "up"
  /\ ~addressed
  /\ addressed' = TRUE
  /\ UNCHANGED <<periodicVars, endpoint, callVars, test_index, grant>>

\* lte_lc_psm_get decodes an answer into actual_tau, or fails; the timer starts.
\* The value of curr_active, on the stack, is only logged.
StartTest ==
  /\ Start
  /\ addressed \/ endpoint = "NULL"
  /\ grant' \in Granted \cup {NoGrant}
  /\ LET old == [tau |-> actual_tau, active_time |-> 0]
     IN  actual_tau' = InMinutes(at_callback_handler(grant', old).tau)
  /\ UNCHANGED <<endpoint, addressed, callVars, test_index>>

\* main's loop; the upload is one POST.
RunPeriodic ==
  \/ BeginUpload /\ Post("main") /\ UNCHANGED <<endpoint, addressed, test_index, grant>>
  \/ (NothingToDo \/ EndSleep \/ EndPause) /\ UNCHANGED appVars

\* The POST returns COAP_RESPONSE_CODE_CREATED, or something else.
UploadReturns ==
  /\ Returns("main")
  /\ \/ Created("main") /\ UploadDone
     \/ UploadFails
  /\ UNCHANGED <<endpoint, addressed, unaddressed, answered, test_index, grant>>

Main ==
  /\ DeviceRuns
  /\ StartEndpoint \/ SetAddress \/ StartTest \/ RunPeriodic \/ UploadReturns

TimerInterrupt == DeviceRuns /\ Minute /\ UNCHANGED appVars

AppNext ==
  \/ Main
  \/ Button1 \/ Button1Returns \/ Button2
  \/ \E c \in AppClients : Serve(c)
  \/ message_post
  \/ TimerInterrupt

AppSpec == AppInit /\ [][AppNext]_vars

(***************************************************************************)
(* The modem connects; threads that are ready run; the endpoint takes what *)
(* was queued, and its calls return once they have a result (PostSettles   *)
(* of CoapEndpoint); the hardware timer goes on.  Nothing ends a call that *)
(* was sent: a late thread takes its timeout for K_FOREVER, and a lost     *)
(* response leaves it acknowledged for good.                               *)
(***************************************************************************)
FairAppSpec ==
  /\ AppSpec
  /\ WF_vars(Main)
  /\ WF_vars(TimerInterrupt)
  /\ \A c \in AppClients : WF_vars(Serve(c) /\ exchange[c].stage = "queued")
  /\ WF_vars(Button1Returns)

-----------------------------------------------------------------------------
(* Properties.                                                             *)

Results == {"none", "ok", "EAGAIN", "ECANCELED", "ENOMEM"}

\* The variables have their types; in particular no POST of the button reads past
\* the end of testData.
AppTypeOK ==
  /\ TypeOK
  /\ endpoint \in {"none", "NULL", "up", "fault"}
  /\ addressed \in BOOLEAN
  /\ exchange \in [AppClients -> [stage : E!Stages, sends : 0 .. MaxRetransmit + 1,
                                  result : Results]]
  /\ unaddressed \subseteq AppClients
  /\ answered \subseteq AppClients
  /\ test_index \in 0 .. TEST_DATA_SIZE + IndexStep
  /\ ~Idle("button") => test_index <= TEST_DATA_SIZE
  /\ grant \in Granted \cup {NoGrant}

(***************************************************************************)
(* Whatever main counts as a sample and the button handler as a step of    *)
(* its sweep was answered: that very call was addressed to the server and  *)
(* was handed a response while it ran.  No call is counted that was        *)
(* refused, timed out, was queued for an endpoint that did not start or    *)
(* made before remote_addr was set, nor for the response of an earlier one *)
(* (main.c:86, 94, 123, 249, 303).                                         *)
(***************************************************************************)
CountedWasAnswered ==
  [][ /\ uploads' # uploads => "main" \in answered \ unaddressed
      /\ test_index' > test_index => "button" \in answered \ unaddressed ]_vars

\* The interrupt asks for an upload at the interval that the network granted, in
\* whole minutes, as the units are documented (main.c:191-202, 328;
\* lte_helpers.c:57-66, 120).
IntervalAsGranted ==
  timer => actual_tau = IF TauRead(grant) THEN DocumentedMinutes(grant.tau) ELSE 0

\* The test ends, with or without success or because the device faulted; or its upload
\* never returns, and then the endpoint is missing or the request was sent: no upload is
\* forgotten in between, and none waits because of the button's POST (main.c:86, 248;
\* coap.c:421).
EndsOrWaitsForAnswer ==
  \/ <>(main \in {"finished", "failed"} \/ ~DeviceRuns)
  \/ <>[](/\ main = "upload"
          /\ endpoint = "NULL" \/ exchange["main"].stage \in {"unacked", "acked"})

-----------------------------------------------------------------------------
(* The inductive invariant.                                                *)

\* The types, but for what PeriodicTest knows.
TypeInv ==
  /\ endpoint \in {"none", "NULL", "up", "fault"}
  /\ addressed \in BOOLEAN
  /\ exchange \in [AppClients -> [stage : E!Stages, sends : 0 .. MaxRetransmit + 1,
                                  result : Results]]
  /\ unaddressed \subseteq AppClients
  /\ answered \subseteq AppClients
  /\ test_index \in 0 .. TEST_DATA_SIZE + IndexStep
  /\ ~Idle("button") => test_index <= TEST_DATA_SIZE
  /\ grant \in Granted \cup {NoGrant}

\* A POST that no endpoint took is queued, or was refused; it has no response.
NobodyThere ==
  endpoint \in {"none", "NULL"} =>
    \A c \in AppClients : /\ exchange[c].stage \in {"idle", "queued"}
                          /\ exchange[c].result \in {"none", "ENOMEM"}

\* actual_tau has its initial value until main fetches the network's.
TauUntouched == main = "start" => ~timer /\ actual_tau = 0

\* A client that holds a response was given it in its last call, which had an address.
ResponsesAreFresh ==
  \A c \in AppClients : exchange[c].result = "ok" => c \in answered \ unaddressed

AppInv == TypeInv /\ NobodyThere /\ ResponsesAreFresh /\ TauUntouched /\ IntervalAsGranted

=============================================================================
