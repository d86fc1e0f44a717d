----------------------------- MODULE CoapSample -----------------------------
(***************************************************************************)
(* The deprecated CoAP sample, deprecated/coap_nordic: a thread that       *)
(* connects a socket and prints the responses it receives, and any number  *)
(* of threads that call client_get_send and client_post_send.              *)
(*                                                                         *)
(* All of them use one buffer, coap_buf, and one counter, next_token, and  *)
(* nothing orders their accesses: the thread is preemptible.  A step of a  *)
(* caller is one access of a shared variable; a step of the thread runs    *)
(* from one place where callers can come in between to the next.           *)
(***************************************************************************)
EXTENDS Integers

CONSTANTS
  Callers,      \* the threads that send requests
  TokenSpace,   \* number of tokens (2^16 in the code)
  MaxRequests,  \* bound: requests begun in a behavior
  MaxDatagrams  \* bound: datagrams received in a behavior

ASSUME SampleAssumption ==
  /\ TokenSpace \in Nat \ {0}
  /\ MaxRequests \in Nat
  /\ MaxDatagrams \in Nat
  /\ "thread" \notin Callers

VARIABLES
  thread,      \* where coap_thread is
  connected,   \* the flag coap_connected returns
  socket,      \* what sock stands for
  broken,      \* the socket reports an error from now on
  next_token,
  coap_buf,    \* what the buffer holds: the head of a packet and what follows it
  call,        \* per caller: how far its call is
  requests,    \* number of requests begun
  asked,       \* history: tokens of the requests on the wire
  received,    \* history: the datagrams recv has returned so far and the last of them
  disturbed,   \* history: who had the buffer or the counter changed under him
  effect       \* history: what the last step sent or printed

sockVars == <<connected, socket, broken>>
callVars == <<next_token, call, requests, asked>>
vars == <<thread, sockVars, coap_buf, callVars, received, disturbed, effect>>

\* In its loop the thread is about to call wait, recv, coap_packet_parse, or to
\* look at the token; "failed" never got there, "ended" left it, "fault" took the
\* device with it.
Serving == {"wait", "recv", "parse", "check"}
ThreadStates == {"unstarted", "starting", "closing", "failed", "ended", "fault"} \cup Serving

-----------------------------------------------------------------------------
(* Packets.                                                                *)

Tokens == 0 .. TokenSpace - 1

\* A token of `len` bytes; `tok` are its first two, if it has as many.
Head == [code : {"GET", "PUT", "REPLY", "MALFORMED"}, len : {0, 2, 4}, tok : Tokens]

\* The resource a request names, or what a reply carries: a payload that fits the 16 bytes
\* it is printed from, or one that does not or is missing.
Replied == {"fits", "unfit"}
Body == {"down", "up"} \cup Replied
Content == [head : Head, body : Body]

\* The buffer is zero at first: no packet, and none that parses.
Zeros == [head |-> [code |-> "MALFORMED", len |-> 0, tok |-> 0], body |-> "unfit"]

Resource(method) == IF method = "GET" THEN "down" ELSE "up"

RequestOf(method, token) ==
  [head |-> [code |-> method, len |-> 2, tok |-> token], body |-> Resource(method)]

RepliesWith(len, token) ==
  {[head |-> [code |-> "REPLY", len |-> len, tok |-> token], body |-> b] : b \in Replied}

\* What may arrive: replies to what was asked, at any time, and replies with other tokens;
\* and a datagram that is no CoAP packet.
Datagrams ==
  UNION (  {RepliesWith(2, t) : t \in asked} \cup {RepliesWith(4, t) : t \in Tokens}
             \cup {RepliesWith(0, 0), {Zeros}} )

Init ==
  /\ thread = "unstarted"
  /\ connected = FALSE
  /\ socket = "none"
  /\ broken = FALSE
  /\ next_token = 0
  /\ coap_buf = Zeros
  /\ call = [c \in Callers |-> [at |-> "idle", method |-> "GET", tok |-> 0]]
  /\ requests = 0
  /\ asked = {}
  /\ received = [number |-> 0, last |-> Zeros]
  /\ disturbed = {}
  /\ effect = {}

-----------------------------------------------------------------------------
(* Who is disturbed by whom.                                               *)

\* Those who are between their first and their last use of the buffer.
Busy ==
  {c \in Callers : call[c].at # "idle"}
    \cup (IF thread \in {"parse", "check"} THEN {"thread"} ELSE {})

\* a writes the buffer.
Disturb(a) == disturbed' = disturbed \cup (Busy \ {a})

-----------------------------------------------------------------------------
(* client_get_send and client_post_send.                                   *)

AtStep(c, from, to) ==
  /\ call[c].at = from
  /\ call' = [call EXCEPT ![c].at = to]

callerKeeps == <<thread, sockVars, received>>

\* next_token++ loads the counter ...
Load(c, method) ==
  /\ call[c].at = "idle"
  /\ requests < MaxRequests
  /\ requests' = requests + 1
  /\ call' = [call EXCEPT ![c] = [at |-> "loaded", method |-> method, tok |-> next_token]]
  /\ disturbed' = disturbed \ {c}
  /\ effect' = {}
  /\ UNCHANGED <<callerKeeps, next_token, coap_buf, asked>>

\* Mutants of Increment: the counter stands still, or does not wrap.
NoIncrement(t) == t
NoWrap(t) == t + 1

Increment(t) == (t + 1) % TokenSpace

\* ... and stores it.
Store(c) ==
  /\ AtStep(c, "loaded", "stored")
  /\ next_token' = Increment(call[c].tok)
  /\ disturbed' = disturbed \cup (Busy \ {c, "thread"})
  /\ effect' = {}
  /\ UNCHANGED <<callerKeeps, coap_buf, requests, asked>>

\* coap_packet_init copies next_token into the head of the packet.
WriteHead(c) ==
  /\ AtStep(c, "stored", "headed")
  /\ coap_buf' = [coap_buf EXCEPT !.head = RequestOf(call[c].method, next_token).head]
  /\ Disturb(c)
  /\ effect' = {}
  /\ UNCHANGED <<callerKeeps, next_token, requests, asked>>

\* coap_packet_append_option.
WritePath(c) ==
  /\ AtStep(c, "headed", "encoded")
  /\ coap_buf' = [coap_buf EXCEPT !.body = Resource(call[c].method)]
  /\ Disturb(c)
  /\ effect' = {}
  /\ UNCHANGED <<callerKeeps, next_token, requests, asked>>

\* send takes what the buffer holds now.
Send(c) ==
  /\ AtStep(c, "encoded", "idle")
  /\ socket = "open"
  /\ effect' = {[what |-> "sent", by |-> c, packet |-> coap_buf]}
  /\ asked' = asked \cup {coap_buf.head.tok}
  /\ disturbed' = disturbed \ {c}
  /\ UNCHANGED <<callerKeeps, next_token, coap_buf, requests>>

\* send fails, as it does without a socket; the call returns -errno.
SendFails(c) ==
  /\ AtStep(c, "encoded", "idle")
  /\ effect' = {}
  /\ disturbed' = disturbed \ {c}
  /\ UNCHANGED <<callerKeeps, next_token, coap_buf, requests, asked>>

-----------------------------------------------------------------------------
(* coap_thread.                                                            *)

\* main starts the thread.  Its loop that waits for the connection tests the address
\* of coap_connected, which is never NULL, and so ends at once.
coap_start_thread ==
  /\ thread = "unstarted"
  /\ thread' = "starting"
  /\ effect' = {}
  /\ UNCHANGED <<sockVars, coap_buf, callVars, received, disturbed>>

\* server_resolve or socket fails, or connect does, which leaves the socket open.
StartFails ==
  /\ thread = "starting"
  /\ thread' = "failed"
  /\ socket' \in {"none", "open"}
  /\ effect' = {}
  /\ UNCHANGED <<connected, broken, coap_buf, callVars, received, disturbed>>

Connect ==
  /\ thread = "starting"
  /\ thread' = "wait"
  /\ socket' = "open"
  /\ connected' = TRUE
  /\ effect' = {}
  /\ UNCHANGED <<broken, coap_buf, callVars, received, disturbed>>

\* The socket fails, now or on the next use.
Break ==
  /\ thread # "fault"
  /\ socket = "open"
  /\ ~broken
  /\ broken' = TRUE
  /\ effect' = {}
  /\ UNCHANGED <<thread, connected, socket, coap_buf, callVars, received, disturbed>>

\* What poll may return; a broken socket shows an error, whatever else it shows.
PollResults ==
  IF broken
  THEN {[ret |-> -1, revents |-> {}]}
         \cup {[ret |-> 1, revents |-> {flag} \cup more] :
                 flag \in {"POLLERR", "POLLNVAL"}, more \in SUBSET {"POLLIN"}}
  ELSE {[ret |-> 0, revents |-> {}], [ret |-> 1, revents |-> {}],
        [ret |-> 1, revents |-> {"POLLIN"}]}

\* Mutant of wait: a socket error counts as no data.
WaitIgnoresErrors(poll) == IF poll.revents = {"POLLIN"} THEN "data" ELSE "EAGAIN"

\* wait: errors come before data.
wait(poll) ==
  IF poll.ret < 0 \/ poll.revents \cap {"POLLERR", "POLLNVAL"} # {} THEN "error"
  ELSE IF "POLLIN" \in poll.revents THEN "data"
  ELSE "EAGAIN"

\* Mutant of Leave: the flag is left as it is.
LeaveConnected == thread' = "closing" /\ UNCHANGED connected

\* Out of the loop.
Leave ==
  /\ thread' = "closing"
  /\ connected' = FALSE

Wait ==
  /\ thread = "wait"
  /\ \E poll \in PollResults :
       CASE wait(poll) = "data"   -> thread' = "recv" /\ UNCHANGED connected
         [] wait(poll) = "EAGAIN" -> UNCHANGED <<thread, connected>>
         [] OTHER                 -> Leave
  /\ effect' = {}
  /\ UNCHANGED <<socket, broken, coap_buf, callVars, received, disturbed>>

\* Mutants of NothingReceived: the thread goes on to what is in the buffer, or leaves.
HandleNothing == thread' = "parse" /\ UNCHANGED connected
LeaveEmpty == Leave

NothingReceived == thread' = "wait" /\ UNCHANGED connected

\* recv returns EAGAIN, or an empty datagram.
RecvNothing ==
  /\ thread = "recv"
  /\ ~broken
  /\ NothingReceived
  /\ effect' = {}
  /\ UNCHANGED <<socket, broken, coap_buf, callVars, received, disturbed>>

RecvFails ==
  /\ thread = "recv"
  /\ broken
  /\ Leave
  /\ effect' = {}
  /\ UNCHANGED <<socket, broken, coap_buf, callVars, received, disturbed>>

\* recv overwrites the buffer, whoever is using it.
Recv(d) ==
  /\ thread = "recv"
  /\ ~broken
  /\ received.number < MaxDatagrams
  /\ thread' = "parse"
  /\ coap_buf' = d
  /\ received' = [number |-> received.number + 1, last |-> d]
  /\ disturbed' = (disturbed \cup Busy) \ {"thread"}
  /\ effect' = {}
  /\ UNCHANGED <<sockVars, callVars>>

\* coap_packet_parse finds a packet in what the buffer holds now.
Parse ==
  /\ thread = "parse"
  /\ coap_buf.head.code # "MALFORMED"
  /\ thread' = "check"
  /\ effect' = {}
  /\ UNCHANGED <<sockVars, coap_buf, callVars, received, disturbed>>

\* It finds none, or half of one and half of another: the thread leaves the loop.
ParseFails ==
  /\ thread = "parse"
  /\ coap_buf.head.code = "MALFORMED" \/ "thread" \in disturbed
  /\ Leave
  /\ effect' = {}
  /\ UNCHANGED <<socket, broken, coap_buf, callVars, received, disturbed>>

\* The test of the token: `&&`, so that every token of two bytes passes.  Fewer
\* than two leave the bytes that are compared uninitialised.
MayReject(h) == h.len # 2 /\ (h.len = 0 \/ h.tok # next_token)
MayAccept(h) == h.len # 4 \/ h.tok = next_token

\* The response is printed, by way of temp_buf.  What follows the payload in the buffer,
\* up to a zero byte, is printed with it.
PrintResponse ==
  /\ effect' = {[what |-> "printed", by |-> "thread", packet |-> coap_buf]}
  /\ thread' = "wait"

\* snprintf takes the larger of the payload's length and the 16 bytes of temp_buf for its
\* bound, and the address of a payload that may not be there: it may fault.
Overrun ==
  /\ coap_buf.body # "fits" \/ "thread" \in disturbed
  /\ effect' = {}
  /\ thread' = "fault"

Accept == PrintResponse \/ Overrun

\* The rest of client_handle_get_response, which reads the buffer once more.
Check ==
  /\ thread = "check"
  /\ \/ MayAccept(coap_buf.head) /\ Accept
     \/ MayReject(coap_buf.head) /\ effect' = {} /\ thread' = "wait"
  /\ disturbed' = disturbed \ {"thread"}
  /\ UNCHANGED <<sockVars, coap_buf, callVars, received>>

\* close, and the thread ends.
Close ==
  /\ thread = "closing"
  /\ thread' = "ended"
  /\ socket' = "closed"
  /\ effect' = {}
  /\ UNCHANGED <<connected, broken, coap_buf, callVars, received, disturbed>>

-----------------------------------------------------------------------------
Caller(c) ==
  /\ thread # "fault"
  /\ \/ \E method \in {"GET", "PUT"} : Load(c, method)
     \/ Store(c)
     \/ WriteHead(c)
     \/ WritePath(c)
     \/ Send(c)
     \/ SendFails(c)

\* What the thread does once it has started.
Thread ==
  \/ Connect
  \/ StartFails
  \/ Wait
  \/ RecvNothing
  \/ RecvFails
  \/ \E d \in Datagrams : Recv(d)
  \/ Parse
  \/ ParseFails
  \/ Check
  \/ Close

Next == (\E c \in Callers : Caller(c)) \/ coap_start_thread \/ Thread \/ Break

Spec == Init /\ [][Next]_vars

\* The scheduler runs a thread that is ready; poll with a broken socket returns.
FairSpec == Spec /\ WF_vars(Thread)

-----------------------------------------------------------------------------
(* Properties.                                                             *)

CallStates == {"idle", "loaded", "stored", "headed", "encoded"}

TypeOK ==
  /\ thread \in ThreadStates
  /\ connected \in BOOLEAN
  /\ socket \in {"none", "open", "closed"}
  /\ broken \in BOOLEAN
  /\ next_token \in Tokens
  /\ coap_buf \in Content
  /\ call \in [Callers -> [at : CallStates, method : {"GET", "PUT"}, tok : Tokens]]
  /\ requests \in 0 .. MaxRequests
  /\ asked \subseteq Tokens
  /\ received \in [number : 0 .. MaxDatagrams, last : Content]
  /\ disturbed \subseteq Callers \cup {"thread"}
  /\ effect \subseteq [what : {"sent", "printed"}, by : Callers \cup {"thread"},
                       packet : Content]

\* coap_connected tells the truth on each of the ways out of the loop: while the device
\* runs it is true exactly while the thread serves an open socket, and a thread that left
\* the loop leaves no socket behind (coap_module.c:275, 287, 298, 311, 316).
ConnectedIsServed ==
  /\ thread # "fault" => (connected <=> thread \in Serving)
  /\ thread \in Serving => socket = "open"
  /\ thread = "ended" => socket = "closed"

\* A request goes out as its caller built it, with the token the caller counted up
\* to, unless the buffer or the counter was written by somebody else during the call
\* (coap_module.c:142-161, 291).
RequestAsBuilt ==
  [][ \A e \in effect' :
        e.what = "sent" /\ e.by \notin disturbed
          => e.packet = RequestOf(call[e.by].method, (call[e.by].tok + 1) % TokenSpace) ]_vars

\* A response is printed from the datagram that was received last, whatever its payload,
\* unless a caller wrote the buffer after recv; in particular it is not printed from what
\* an earlier datagram or a request left there, though a payload that no zero byte ends
\* may be followed by it (coap_module.c:291-308, 128-131).
PrintedWasReceived ==
  [][ \A e \in effect' :
        e.what = "printed" /\ "thread" \notin disturbed => e.packet = received.last ]_vars

\* Only a socket error, a datagram that is no CoAP packet, or a disturbed buffer ends
\* the client, and only a response without a payload or with more than temp_buf holds
\* faults it: not a timeout, an empty datagram or a token it does not know
\* (coap_module.c:128, 281-313).
LeavesForCause ==
  [][ (thread \in Serving /\ thread' \notin Serving)
        => \/ "thread" \in disturbed
           \/ thread' = "closing" /\ (broken \/ received.last.head.code = "MALFORMED")
           \/ thread' = "fault" /\ received.last.body # "fits" ]_vars

\* A socket that fails ends the thread, unless a response it still handles faults the
\* device; it does not poll it forever (coap_module.c:227-235, 286-299).
FailureEndsThread == broken /\ thread \in Serving ~> thread \in {"ended", "fault"}

-----------------------------------------------------------------------------
(* The inductive invariant.                                                *)

\* What a caller that was not disturbed knows of the counter and the buffer.
CallInv ==
  \A c \in Callers : c \notin disturbed =>
    /\ call[c].at \in {"stored", "headed", "encoded"} =>
         next_token = (call[c].tok + 1) % TokenSpace
    /\ call[c].at \in {"headed", "encoded"} =>
         coap_buf.head = RequestOf(call[c].method, next_token).head
    /\ call[c].at = "encoded" =>
         coap_buf.body = Resource(call[c].method)

\* What a thread that was not disturbed knows of the buffer.
ThreadInv ==
  thread \in {"parse", "check"} /\ "thread" \notin disturbed => coap_buf = received.last

IInv == TypeOK /\ ConnectedIsServed /\ CallInv /\ ThreadInv

=============================================================================
