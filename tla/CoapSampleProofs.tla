-------------------------- MODULE CoapSampleProofs --------------------------
(***************************************************************************)
(* Proofs about CoapSample, for any set of callers, any number of tokens   *)
(* and all bounds.  A caller or a thread that was not disturbed since its  *)
(* first use of the buffer still finds there what it put there: CallInv    *)
(* and ThreadInv say so, and make the two properties of what is sent and   *)
(* printed inductive.                                                      *)
(***************************************************************************)
EXTENDS CoapSample, TLAPS

USE DEF ThreadStates, Serving, CallStates

\* Counting up stays within the tokens (coap_module.c:142).
LEMMA IncrementIsToken ==
  ASSUME NEW t \in Tokens
  PROVE  Increment(t) \in Tokens
  BY SampleAssumption DEF Tokens, Increment

\* A request is a packet, and so is whatever may arrive.
LEMMA PacketsAreContent ==
  ASSUME TypeOK
  PROVE  /\ \A m \in {"GET", "PUT"}, t \in Tokens :
              /\ RequestOf(m, t) \in Content
              /\ RequestOf(m, t).head \in Head
              /\ Resource(m) \in Body
         /\ Datagrams \subseteq Content
         /\ Zeros \in Content
<1>1. 0 \in Tokens
  BY SampleAssumption DEF Tokens
<1>2. Zeros \in Content
  BY <1>1 DEF Zeros, Content, Head, Body, Replied
<1>3. ASSUME NEW len \in {0, 2, 4}, NEW t \in Tokens PROVE RepliesWith(len, t) \subseteq Content
  BY DEF RepliesWith, Content, Head, Body
<1>4. Datagrams \subseteq Content
  <2> SUFFICES ASSUME NEW d \in Datagrams PROVE d \in Content
    OBVIOUS
  <2>1. CASE d \in RepliesWith(0, 0) \cup {Zeros}
    BY <1>1, <1>2, <1>3, <2>1
  <2>2. CASE \E len \in {2, 4}, t \in Tokens : d \in RepliesWith(len, t)
    BY <1>3, <2>2
  <2>3. asked \subseteq Tokens
    BY DEF TypeOK
  <2>4. PICK R \in {RepliesWith(2, t) : t \in asked} \cup {RepliesWith(4, t) : t \in Tokens}
                      \cup {RepliesWith(0, 0), {Zeros}} : d \in R
    BY DEF Datagrams
  <2> QED BY <2>1, <2>2, <2>3, <2>4
<1> QED
  BY <1>2, <1>4 DEF RequestOf, Resource, Content, Head, Body

-----------------------------------------------------------------------------
(* Type correctness.                                                       *)

\* A step of a caller keeps the types (coap_module.c:136-205).
LEMMA CallerTypes ==
  ASSUME TypeOK, NEW c \in Callers, Caller(c)
  PROVE  TypeOK'
<1> USE DEF TypeOK, callerKeeps, sockVars
<1>0. Callers \cap {"thread"} = {} /\ Busy \subseteq Callers \cup {"thread"}
  BY SampleAssumption DEF Busy
<1>1. ASSUME NEW m \in {"GET", "PUT"}, Load(c, m) PROVE TypeOK'
  <2>1. requests' \in 0 .. MaxRequests
    BY <1>1, SampleAssumption DEF Load
  <2> QED BY <1>1, <2>1 DEF Load
<1>2. CASE Store(c)
  <2>1. call[c].tok \in Tokens
    OBVIOUS
  <2>2. next_token' \in Tokens
    BY <1>2, <2>1, IncrementIsToken DEF Store
  <2> QED BY <1>0, <1>2, <2>2 DEF Store, AtStep
<1>3. CASE WriteHead(c)
  <2>1. RequestOf(call[c].method, next_token).head \in Head
    BY PacketsAreContent
  <2> QED BY <1>0, <1>3, <2>1 DEF WriteHead, AtStep, Disturb, Content
<1>4. CASE WritePath(c)
  <2>1. Resource(call[c].method) \in Body
    BY PacketsAreContent
  <2> QED BY <1>0, <1>4, <2>1 DEF WritePath, AtStep, Disturb, Content
<1>5. CASE Send(c)
  BY <1>5 DEF Send, AtStep, Content, Head
<1>6. CASE SendFails(c)
  BY <1>6 DEF SendFails, AtStep
<1> QED BY <1>1, <1>2, <1>3, <1>4, <1>5, <1>6 DEF Caller

\* So does a step of the thread (coap_module.c:248-317).
LEMMA ThreadTypes ==
  ASSUME TypeOK, coap_start_thread \/ Thread \/ Break
  PROVE  TypeOK'
<1> USE DEF TypeOK, callVars, sockVars
<1>1. CASE coap_start_thread \/ Break \/ Connect \/ StartFails \/ Close
  BY <1>1 DEF coap_start_thread, Break, Connect, StartFails, Close
<1>2. CASE Wait
  BY <1>2 DEF Wait, Leave
<1>3. CASE RecvNothing \/ RecvFails \/ Parse \/ ParseFails
  BY <1>3 DEF RecvNothing, NothingReceived, RecvFails, Parse, ParseFails, Leave
<1>4. ASSUME NEW d \in Datagrams, Recv(d) PROVE TypeOK'
  <2>1. d \in Content
    BY PacketsAreContent
  <2>2. Busy \subseteq Callers \cup {"thread"}
    BY DEF Busy
  <2>3. received' \in [number : 0 .. MaxDatagrams, last : Content]
    BY <1>4, <2>1, SampleAssumption DEF Recv
  <2> QED BY <1>4, <2>1, <2>2, <2>3 DEF Recv
<1>5. CASE Check
  BY <1>5 DEF Check, Accept, PrintResponse, Overrun
<1> QED BY <1>1, <1>2, <1>3, <1>4, <1>5 DEF Thread

-----------------------------------------------------------------------------
(* The invariant.                                                          *)

\* Whoever writes the buffer or the counter disturbs the callers that are using
\* them, and finds what he wrote himself (coap_module.c:142-161).
LEMMA CallerKeepsCalls ==
  ASSUME IInv, NEW c \in Callers, Caller(c)
  PROVE  CallInv'
<1> USE DEF IInv, callerKeeps, AtStep
<1> SUFFICES ASSUME NEW d \in Callers, d \notin disturbed'
             PROVE  /\ call'[d].at \in {"stored", "headed", "encoded"} =>
                         next_token' = (call'[d].tok + 1) % TokenSpace
                    /\ call'[d].at \in {"headed", "encoded"} =>
                         coap_buf'.head = RequestOf(call'[d].method, next_token').head
                    /\ call'[d].at = "encoded" =>
                         coap_buf'.body = Resource(call'[d].method)
  BY DEF CallInv
<1>1. CASE d # c
  <2>1. call'[d] = call[d]
    BY <1>1 DEF TypeOK, Caller, Load, Store, WriteHead, WritePath, Send, SendFails
  <2>2. CASE Store(c) \/ WriteHead(c) \/ WritePath(c)
    <3>1. d \notin Busy
      BY <1>1, <2>2, SampleAssumption DEF Store, WriteHead, WritePath, Disturb
    <3>2. call[d].at = "idle"
      BY <3>1 DEF Busy
    <3> QED BY <2>1, <3>2
  <2>3. CASE (\E m \in {"GET", "PUT"} : Load(c, m)) \/ Send(c) \/ SendFails(c)
    BY <1>1, <2>1, <2>3 DEF Load, Send, SendFails, CallInv
  <2> QED BY <2>2, <2>3 DEF Caller
<1>2. CASE d = c
  <2>1. CASE (\E m \in {"GET", "PUT"} : Load(c, m)) \/ Send(c) \/ SendFails(c)
    <3>1. call'[c].at \in {"loaded", "idle"}
      BY <2>1 DEF TypeOK, Load, Send, SendFails
    <3> QED BY <1>2, <3>1
  <2>2. CASE Store(c)
    <3>1. call'[c].at = "stored" /\ call'[c].tok = call[c].tok
      BY <2>2 DEF TypeOK, Store
    <3>2. next_token' = (call[c].tok + 1) % TokenSpace
      BY <2>2 DEF Store, Increment
    <3> QED BY <1>2, <3>1, <3>2
  <2>3. CASE WriteHead(c)
    <3>1. /\ call'[c].at = "headed" /\ call'[c].tok = call[c].tok
          /\ call'[c].method = call[c].method
      BY <2>3 DEF TypeOK, WriteHead
    <3>2. /\ next_token' = next_token /\ call[c].at = "stored" /\ c \notin disturbed
          /\ coap_buf'.head = RequestOf(call[c].method, next_token).head
      BY <1>2, <2>3 DEF WriteHead, Disturb, TypeOK, Content
    <3>3. next_token = (call[c].tok + 1) % TokenSpace
      BY <3>2 DEF CallInv
    <3> QED BY <1>2, <3>1, <3>2, <3>3
  <2>4. CASE WritePath(c)
    <3>1. /\ call'[c].at = "encoded" /\ call'[c].tok = call[c].tok
          /\ call'[c].method = call[c].method
      BY <2>4 DEF TypeOK, WritePath
    <3>2. /\ next_token' = next_token /\ call[c].at = "headed" /\ c \notin disturbed
          /\ coap_buf'.head = coap_buf.head
          /\ coap_buf'.body = Resource(call[c].method)
      BY <1>2, <2>4 DEF WritePath, Disturb, TypeOK, Content
    <3>3. /\ next_token = (call[c].tok + 1) % TokenSpace
          /\ coap_buf.head = RequestOf(call[c].method, next_token).head
      BY <3>2 DEF CallInv
    <3> QED BY <1>2, <3>1, <3>2, <3>3
  <2> QED BY <2>1, <2>2, <2>3, <2>4 DEF Caller
<1> QED BY <1>1, <1>2

\* A caller leaves the thread where it is, and disturbs it if it writes what the
\* thread is reading (coap_module.c:301-308).
LEMMA CallerStep ==
  ASSUME IInv, NEW c \in Callers, Caller(c)
  PROVE  IInv'
<1> USE DEF callerKeeps, sockVars, AtStep
<1>0. c # "thread"
  BY SampleAssumption
<1>1. TypeOK'
  BY CallerTypes DEF IInv
<1>2. ConnectedIsServed'
  BY DEF IInv, Caller, Load, Store, WriteHead, WritePath, Send, SendFails, ConnectedIsServed
<1>3. ThreadInv'
  <2>1. UNCHANGED <<thread, received>>
    BY DEF Caller, Load, Store, WriteHead, WritePath, Send, SendFails
  <2>2. CASE WriteHead(c) \/ WritePath(c)
    BY <1>0, <2>1, <2>2 DEF WriteHead, WritePath, Disturb, Busy, ThreadInv
  <2>3. CASE ~(WriteHead(c) \/ WritePath(c))
    <3>1. UNCHANGED coap_buf /\ ("thread" \in disturbed => "thread" \in disturbed')
      BY <1>0, <2>3 DEF Caller, Load, Store, Send, SendFails
    <3> QED BY <2>1, <3>1 DEF IInv, ThreadInv
  <2> QED BY <2>2, <2>3
<1> QED BY <1>1, <1>2, <1>3, CallerKeepsCalls DEF IInv

\* The thread sets and clears the flag with its loop, and its recv disturbs every
\* caller that has begun (coap_module.c:261-317).
LEMMA ThreadStep ==
  ASSUME IInv, coap_start_thread \/ Thread \/ Break
  PROVE  IInv'
<1> USE DEF callVars, sockVars
<1>1. TypeOK'
  BY ThreadTypes DEF IInv
<1>2. CASE coap_start_thread \/ Break \/ Connect \/ StartFails \/ Close
  BY <1>1, <1>2 DEF IInv, coap_start_thread, Break, Connect, StartFails, Close,
     ConnectedIsServed, CallInv, ThreadInv
<1>3. CASE Wait
  BY <1>1, <1>3 DEF IInv, Wait, Leave, ConnectedIsServed, CallInv, ThreadInv
<1>4. CASE RecvNothing \/ RecvFails \/ Parse \/ ParseFails
  BY <1>1, <1>4 DEF IInv, RecvNothing, NothingReceived, RecvFails, Parse, ParseFails,
     Leave, ConnectedIsServed, CallInv, ThreadInv
<1>5. ASSUME NEW d \in Datagrams, Recv(d) PROVE IInv'
  <2>1. ConnectedIsServed'
    BY <1>5 DEF IInv, Recv, ConnectedIsServed
  <2>2. ThreadInv'
    BY <1>5 DEF IInv, TypeOK, Recv, ThreadInv
  <2>3. ASSUME NEW c \in Callers, c \notin disturbed' PROVE call'[c].at = "idle"
    BY <1>5, <2>3, SampleAssumption DEF Recv, Busy
  <2>4. CallInv'
    BY <2>3 DEF CallInv
  <2> QED BY <1>1, <2>1, <2>2, <2>4 DEF IInv
<1>6. CASE Check
  <2>1. /\ thread = "check" /\ thread' \in {"wait", "fault"}
        /\ disturbed' = disturbed \ {"thread"}
        /\ UNCHANGED <<connected, socket, coap_buf, next_token, call>>
    BY <1>6 DEF Check, Accept, PrintResponse, Overrun
  <2>2. \A c \in Callers : c \notin disturbed' => c \notin disturbed
    BY <2>1, SampleAssumption
  <2> QED BY <1>1, <2>1, <2>2 DEF IInv, ConnectedIsServed, CallInv, ThreadInv
<1> QED BY <1>2, <1>3, <1>4, <1>5, <1>6 DEF Thread

\* The inductive invariant holds.
THEOREM Invariant == Spec => []IInv
<1>1. Init => IInv
  <2> SUFFICES ASSUME Init PROVE IInv
    OBVIOUS
  <2>1. 0 \in Tokens /\ 0 \in 0 .. MaxRequests /\ 0 \in 0 .. MaxDatagrams
    BY SampleAssumption DEF Tokens
  <2>2. Zeros \in Content
    BY <2>1 DEF Zeros, Content, Head, Body, Replied
  <2>3. TypeOK
    BY <2>1, <2>2 DEF Init, TypeOK
  <2> QED
    BY <2>3 DEF Init, IInv, ConnectedIsServed, CallInv, ThreadInv
<1>2. IInv /\ [Next]_vars => IInv'
  <2> SUFFICES ASSUME IInv, [Next]_vars PROVE IInv'
    OBVIOUS
  <2>1. CASE Next
    BY <2>1, CallerStep, ThreadStep DEF Next
  <2>2. CASE UNCHANGED vars
    BY <2>2 DEF vars, sockVars, callVars, IInv, TypeOK, ConnectedIsServed, CallInv, ThreadInv
  <2> QED BY <2>1, <2>2
<1> QED BY <1>1, <1>2, PTL DEF Spec

-----------------------------------------------------------------------------
(* The properties.                                                         *)

\* Every variable keeps its type.
THEOREM TypeCorrect == Spec => []TypeOK
<1>1. IInv => TypeOK
  BY DEF IInv
<1> QED BY <1>1, Invariant, PTL

\* coap_connected tells the truth, whatever way the thread leaves its loop
\* (coap_module.c:275, 287, 298, 311, 316).
THEOREM ConnectedTellsTheTruth == Spec => []ConnectedIsServed
<1>1. IInv => ConnectedIsServed
  BY DEF IInv
<1> QED BY <1>1, Invariant, PTL

\* A caller that nobody disturbed sends the request it built, with its own token
\* (coap_module.c:142-161, 291).
THEOREM UndisturbedRequests == Spec => RequestAsBuilt
<1>1. ASSUME IInv, Next, NEW e \in effect', e.what = "sent", e.by \notin disturbed
      PROVE  e.packet = RequestOf(call[e.by].method, (call[e.by].tok + 1) % TokenSpace)
  <2>1. PICK c \in Callers : Send(c)
    BY <1>1 DEF Next, Caller, Load, Store, WriteHead, WritePath, SendFails, Thread,
       coap_start_thread, Break, Connect, StartFails, Wait, RecvNothing, RecvFails, Recv,
       Parse, ParseFails, Check, Accept, PrintResponse, Overrun, Close
  <2>2. e.by = c /\ e.packet = coap_buf /\ call[c].at = "encoded"
    BY <1>1, <2>1 DEF Send, AtStep
  <2>3. /\ next_token = (call[c].tok + 1) % TokenSpace
        /\ coap_buf.head = RequestOf(call[c].method, next_token).head
        /\ coap_buf.body = Resource(call[c].method)
    BY <1>1, <2>2 DEF IInv, CallInv
  <2>4. coap_buf = [head |-> coap_buf.head, body |-> coap_buf.body]
    BY <1>1 DEF IInv, TypeOK, Content
  <2> QED BY <2>2, <2>3, <2>4 DEF RequestOf
<1>2. IInv /\ [Next]_vars =>
        [ \A e \in effect' :
            e.what = "sent" /\ e.by \notin disturbed
              => e.packet = RequestOf(call[e.by].method, (call[e.by].tok + 1) % TokenSpace) ]_vars
  BY <1>1
<1> QED BY <1>2, Invariant, PTL DEF Spec, RequestAsBuilt

\* What the thread prints, if nobody disturbed it, is the datagram it has just
\* received (coap_module.c:291-308, 130).
THEOREM UndisturbedResponses == Spec => PrintedWasReceived
<1>1. ASSUME IInv, Next, NEW e \in effect', e.what = "printed", "thread" \notin disturbed
      PROVE  e.packet = received.last
  <2>1. Check /\ e.packet = coap_buf
    BY <1>1 DEF Next, Caller, Load, Store, WriteHead, WritePath, Send, SendFails, Thread,
       coap_start_thread, Break, Connect, StartFails, Wait, RecvNothing, RecvFails, Recv,
       Parse, ParseFails, Check, Accept, PrintResponse, Overrun, Close
  <2> QED BY <1>1, <2>1 DEF Check, PrintResponse, IInv, ThreadInv
<1>2. IInv /\ [Next]_vars =>
        [ \A e \in effect' :
            e.what = "printed" /\ "thread" \notin disturbed => e.packet = received.last ]_vars
  BY <1>1
<1> QED BY <1>2, Invariant, PTL DEF Spec, PrintedWasReceived

\* The thread leaves its loop only for a socket error, a datagram that is no CoAP
\* packet, or a buffer a caller wrote into (coap_module.c:281-313).
THEOREM LeavesOnlyForCause == Spec => LeavesForCause
<1>1. ASSUME IInv, Next, thread \in Serving, thread' \notin Serving
      PROVE  \/ "thread" \in disturbed
             \/ thread' = "closing" /\ (broken \/ received.last.head.code = "MALFORMED")
             \/ thread' = "fault" /\ received.last.body # "fits"
  <2>1. CASE Wait
    <3>1. PICK poll \in PollResults : wait(poll) \notin {"data", "EAGAIN"}
      BY <1>1, <2>1 DEF Wait
    <3>2. ~broken => FALSE
      BY <3>1 DEF PollResults, wait
    <3> QED BY <1>1, <2>1, <3>2 DEF Wait, Leave
  <2>2. CASE RecvFails
    BY <2>2 DEF RecvFails, Leave
  <2>3. CASE ParseFails
    BY <1>1, <2>3 DEF ParseFails, Leave, IInv, ThreadInv
  <2>4. CASE Check
    BY <1>1, <2>4 DEF Check, Accept, PrintResponse, Overrun, IInv, ThreadInv
  <2>5. CASE ~(Wait \/ RecvFails \/ ParseFails \/ Check)
    BY <1>1, <2>5 DEF Next, Caller, Load, Store, WriteHead, WritePath, Send, SendFails,
       callerKeeps, Thread, coap_start_thread, Break, Connect, StartFails, RecvNothing,
       NothingReceived, Recv, Parse, Close
  <2> QED BY <2>1, <2>2, <2>3, <2>4, <2>5
<1>2. IInv /\ [Next]_vars =>
        [ (thread \in Serving /\ thread' \notin Serving)
            => \/ "thread" \in disturbed
               \/ thread' = "closing" /\ (broken \/ received.last.head.code = "MALFORMED")
               \/ thread' = "fault" /\ received.last.body # "fits" ]_vars
  BY <1>1
<1> QED BY <1>2, Invariant, PTL DEF Spec, LeavesForCause

=============================================================================
