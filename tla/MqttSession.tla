---------------------------- MODULE MqttSession -----------------------------
(***************************************************************************)
(* The MQTT connection of mqtt/src/mqtt_module/mqtt_module.c: the thread   *)
(* that polls the socket, the handler of the client library's events, the  *)
(* `connected` flag other threads look at, the payload that is read while  *)
(* the handler runs, and mqtt_data_publish.                                *)
(*                                                                         *)
(* The thread is cooperative (priority -1): others run while it is in poll,*)
(* in the poll of publish_get_payload, or waits for the client's mutex, so *)
(* one action runs from one of them to the next.  The library is external; *)
(* a call of it is atomic.  It runs the handler in the context of whoever  *)
(* called it, so a publisher whose write fails takes the connection down,  *)
(* from its own thread.                                                    *)
(***************************************************************************)
EXTENDS Integers

CONSTANTS
  PayloadBuffer,  \* CONFIG_MQTT_PAYLOAD_BUFFER_SIZE
  Lengths,        \* payload lengths the broker sends
  MaxPublished    \* bound: messages the broker publishes in a behavior

ASSUME SessionAssumption ==
  /\ PayloadBuffer \in Nat
  /\ Lengths \subseteq Nat
  /\ MaxPublished \in Nat

VARIABLES
  thread,     \* where mqtt_thread is
  connected,
  session,    \* the library: no connection, CONNECT sent, CONNACK accepted, socket closed
  revents,    \* fds.revents, written by both polls
  length,     \* the length of the message that is being read
  left,       \* publish_get_payload: end - buf
  remaining,  \* the library: bytes of this message still in the stream
  published   \* messages the broker has published so far

sessionVars ==
  <<thread, connected, session, revents, length, left, remaining, published>>
payloadVars == <<length, left, remaining, published>>

\* "polled" is the loop's body after poll, "reading" the loop of
\* publish_get_payload, "waiting" the poll in it, "leaving" the end of
\* mqtt_thread, "crashed" a fault.
ThreadStates ==
  {"start", "polling", "polled", "reading", "waiting", "leaving", "ended", "crashed"}

SessionInit ==
  /\ thread = "start"
  /\ connected = FALSE
  /\ session = "none"
  /\ revents = {}
  /\ length = 0
  /\ left = 0
  /\ remaining = 0
  /\ published = 0

-----------------------------------------------------------------------------
(* The library, as this module uses it.                                    *)

\* What poll finds on the socket.
SocketEvents ==
  IF session = "down" THEN {{"POLLNVAL"}} ELSE SUBSET {"POLLIN", "POLLERR"}

\* The library closes the socket and reports MQTT_EVT_DISCONNECT.
Disconnected == session' = "down" /\ connected' = FALSE

\* mqtt_disconnect: refused unless CONNACK was accepted, and otherwise the
\* socket is closed, whether or not the packet could be written.
mqtt_disconnect ==
  IF session = "up" THEN Disconnected ELSE UNCHANGED <<session, connected>>

-----------------------------------------------------------------------------
(* The thread.                                                             *)

(***************************************************************************)
(* client_init and mqtt_connect.  client->user_name and client->password   *)
(* point at locals of client_init that are gone when mqtt_connect reads    *)
(* them: CONNECT carries something else or cannot be built, or the read    *)
(* faults.  Without a broker's address mqtt_connect fails, and the thread  *)
(* returns.                                                                *)
(***************************************************************************)
Connect ==
  /\ thread = "start"
  /\ \/ thread' = "polling" /\ session' = "tcp"
     \/ thread' \in {"ended", "crashed"} /\ UNCHANGED session
  /\ UNCHANGED <<connected, revents, payloadVars>>

\* poll fails.
PollFails ==
  /\ thread = "polling"
  /\ thread' = "leaving"
  /\ UNCHANGED <<connected, session, revents, payloadVars>>

\* poll returns, with or without events.  mqtt_live and mqtt_input take the
\* client's mutex, which a publisher may hold.
PollReturns ==
  /\ thread = "polling"
  /\ thread' = "polled"
  /\ revents' \in SocketEvents
  /\ UNCHANGED <<connected, session, payloadVars>>

\* mqtt_live fails: without an accepted CONNACK it may not ping; with one, the
\* ping could not be written and the connection is gone.
LiveFails ==
  /\ thread = "polled"
  /\ thread' = "leaving"
  /\ mqtt_disconnect
  /\ UNCHANGED <<revents, payloadVars>>

\* Mutant of Broken: the thread does not look for POLLNVAL.
ErrorOnly(ev) == "POLLERR" \in ev

\* The tests at the end of the loop.
Broken(ev) == ev \cap {"POLLERR", "POLLNVAL"} # {}

\* The end of the loop's body.
EndOfLoop == thread' = IF Broken(revents) THEN "leaving" ELSE "polling"

\* Nothing to read: a timeout, or an error only.
PollIdle ==
  /\ thread = "polled"
  /\ "POLLIN" \notin revents
  /\ EndOfLoop
  /\ UNCHANGED <<connected, session, revents, payloadVars>>

\* There is something to read, and mqtt_live was content.
Input == thread = "polled" /\ "POLLIN" \in revents /\ UNCHANGED revents

\* mqtt_input fails: the broker closed the connection, or what it sent is not MQTT.
InputFails ==
  /\ Input
  /\ thread' = "leaving"
  /\ Disconnected
  /\ UNCHANGED payloadVars

\* Mutant of ConnackAccepted: the flag is not set.
AcceptedUnnoticed == session' = "up" /\ UNCHANGED connected

ConnackAccepted == session' = "up" /\ connected' = TRUE

\* Mutant of SubscribeFails: connected is set after subscribe().
SubscribeFirst == session' = "down" /\ connected' = TRUE

\* MQTT_EVT_CONNACK with result 0: connected = true, then subscribe(), whose
\* write may fail; the library then reports MQTT_EVT_DISCONNECT from inside it.
SubscribeFails == Disconnected

InputConnack ==
  /\ Input
  /\ session = "tcp"
  /\ ConnackAccepted \/ SubscribeFails
  /\ EndOfLoop
  /\ UNCHANGED payloadVars

\* MQTT_EVT_CONNACK with an error, MQTT_EVT_PUBACK, MQTT_EVT_SUBACK and the
\* default case log and change nothing.
InputOther ==
  /\ Input
  /\ session \in {"tcp", "up"}
  /\ EndOfLoop
  /\ UNCHANGED <<connected, session, payloadVars>>

-----------------------------------------------------------------------------
(* publish_get_payload, called by the handler of MQTT_EVT_PUBLISH.         *)

\* length > sizeof(payload_buf) is -EMSGSIZE.
FitsBuffer(n) == n <= PayloadBuffer

\* Mutant of PayloadFails: the handler only logs the failure.
PayloadGivenUp ==
  /\ UNCHANGED <<session, connected>>
  /\ thread' = "polling"

\* It fails: the handler disconnects.  mqtt_input may notice and fail, or
\* the tests of revents may.
PayloadFails ==
  /\ mqtt_disconnect
  /\ \/ thread' = "leaving"
     \/ thread' = "polling" /\ ~Broken(revents')

\* MQTT_EVT_PUBLISH of a message with a payload of n bytes.
InputPublish(n) ==
  /\ Input
  /\ session = "up"
  /\ published < MaxPublished
  /\ published' = published + 1
  /\ length' = n
  /\ remaining' = n
  /\ left' = n
  /\ IF ~FitsBuffer(n)
     THEN PayloadFails
     ELSE /\ IF n = 0 THEN EndOfLoop ELSE thread' = "reading"
          /\ UNCHANGED <<session, connected>>

\* mqtt_read_publish_payload returns n bytes, at most the end - buf it was asked for.
ReadSome(n) ==
  /\ thread = "reading"
  /\ session = "up"
  /\ left' = left - n
  /\ remaining' = remaining - n
  /\ IF left' = 0 THEN EndOfLoop ELSE thread' = "reading"
  /\ UNCHANGED <<session, connected, revents, length, published>>

\* It returns -EAGAIN: wait for more.
ReadAgain ==
  /\ thread = "reading"
  /\ session = "up"
  /\ thread' = "waiting"
  /\ UNCHANGED <<session, connected, revents, payloadVars>>

\* It returns 0 or another error.
ReadFails ==
  /\ thread = "reading"
  /\ UNCHANGED revents
  /\ PayloadFails
  /\ UNCHANGED payloadVars

\* The poll in the loop returns.  It writes the revents the thread's own loop
\* looks at afterwards; a poll that fails does as one that finds nothing.
WaitEnds ==
  /\ thread = "waiting"
  /\ \/ /\ revents' \in SocketEvents
        /\ "POLLIN" \in revents'
        /\ thread' = "reading"
        /\ UNCHANGED <<session, connected>>
     \/ /\ revents' \in SocketEvents
        /\ "POLLIN" \notin revents'
        /\ PayloadFails
  /\ UNCHANGED payloadVars

\* mqtt_thread leaves its loop, disconnects and returns.
Leave ==
  /\ thread = "leaving"
  /\ thread' = "ended"
  /\ mqtt_disconnect
  /\ UNCHANGED <<revents, payloadVars>>

Thread ==
  \/ Connect \/ PollFails \/ PollReturns \/ LiveFails \/ PollIdle
  \/ InputFails \/ InputConnack \/ InputOther
  \/ \E n \in Lengths : InputPublish(n)
  \/ \E n \in 1 .. left : ReadSome(n)
  \/ ReadAgain \/ ReadFails \/ WaitEnds \/ Leave

-----------------------------------------------------------------------------
(* mqtt_data_publish, called by the main thread and the button handler.    *)

\* Mutant of PublishAccepted: mqtt_data_publish drops the library's error.
ErrorDropped == UNCHANGED sessionVars

\* The library takes the message and writes it.
PublishAccepted == session = "up" /\ UNCHANGED sessionVars

\* It refuses it: there is no session, or the random message id is 0.
PublishRefused == UNCHANGED sessionVars

\* The write fails.
PublishBreaks ==
  /\ session = "up"
  /\ Disconnected
  /\ UNCHANGED <<thread, revents, payloadVars>>

-----------------------------------------------------------------------------
(* Properties.                                                             *)

SessionTypeOK ==
  /\ thread \in ThreadStates
  /\ connected \in BOOLEAN
  /\ session \in {"none", "tcp", "up", "down"}
  /\ revents \in SUBSET {"POLLIN", "POLLERR", "POLLNVAL"}
  /\ length \in Nat
  /\ left \in Nat
  /\ remaining \in Nat
  /\ published \in 0 .. MaxPublished

\* `connected` (mqtt_module.c:170, 179) says what the library knows: it is true
\* exactly while there is an accepted session, whoever lost it and in the
\* middle of whatever.
ConnectedIsSession == connected <=> session = "up"

(***************************************************************************)
(* The stream is in step: while publish_get_payload runs, it waits for     *)
(* exactly the bytes of this message that are still to come, and they fit  *)
(* its buffer; when the thread polls again, nothing of a message is left   *)
(* in the stream, or the connection was given up (mqtt_module.c:117-154,   *)
(* 187-199).                                                               *)
(***************************************************************************)
StreamInStep ==
  /\ thread \in {"reading", "waiting"} =>
       remaining = left /\ left > 0 /\ length <= PayloadBuffer
  /\ thread \in {"polling", "polled"} => remaining = 0 \/ session = "down"

\* A message is read only in a session, which may be lost meanwhile, and
\* there is neither a session nor a message before the thread connects.
ReadingNeedsSession ==
  /\ thread = "start" => remaining = 0 /\ session = "none"
  /\ thread \in {"reading", "waiting"} => session \in {"up", "down"}

\* The inductive invariant.
SessionInv ==
  SessionTypeOK /\ ConnectedIsSession /\ StreamInStep /\ ReadingNeedsSession

=============================================================================
