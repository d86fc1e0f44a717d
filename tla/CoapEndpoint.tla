---------------------------- MODULE CoapEndpoint ----------------------------
(***************************************************************************)
(* The CoAP endpoint of coap_telenor/src/coap.c: the application threads   *)
(* that block in coap_endpoint_post, the transmit/receive thread with its  *)
(* array of inflight packets and its retransmission timer, the receiver    *)
(* thread, the two FIFOs between them, and a peer behind a network that    *)
(* loses, delays, reorders and duplicates.                                 *)
(*                                                                         *)
(* The heap is shared with allocations of every size, by this code and by  *)
(* libraries: each k_calloc and k_realloc may fail at any time.            *)
(*                                                                         *)
(* Both endpoint threads are cooperative (priority -1) and give up the CPU *)
(* only where they block, and only the transmit/receive thread touches the *)
(* inflight array, so one action runs from one blocking call to the next.  *)
(*                                                                         *)
(* coap_endpoint_post_async is the only producer of tx_fifo and queues     *)
(* Confirmable requests only: the branches of transmit_packet and of       *)
(* receive_packet for other outgoing packets cannot run and are left out.  *)
(***************************************************************************)
EXTENDS Integers, Sequences, FiniteSets

CONSTANTS
  Clients,          \* threads that call coap_endpoint_post: main and the button's work queue
  Peers,            \* addresses that send datagrams to the device
  Remote,           \* remote_addr, the peer every POST goes to
  IdSpace,          \* number of CoAP message ids (2^16 in the code)
  PeerIds,          \* the message ids the peers pick for their own messages
  RequestKinds,     \* the requests the peers send
  InitialTimeouts,  \* the first timeouts a packet may draw (10 s plus up to 1 s of jitter)
  MaxRetransmit,    \* max_retransmission_count, 4 in the code
  ClockHalf,        \* 2^31 in the code: deadlines are signed numbers of 32 bits
  MaxPosts,         \* bound: POSTs made in a behavior
  MaxDatagrams,     \* bound: datagrams that arrive in a behavior
  MaxLate           \* bound: ticks by which the thread may run behind a deadline

\* RequestKinds are told apart by what coap_handle_request does with them.
AllRequestKinds == {"POST_message", "POST_unknown", "GET_message"}

ASSUME ConstantsAssumption ==
  /\ Remote \in Peers
  /\ IdSpace \in Nat \ {0}
  /\ PeerIds \subseteq 0 .. IdSpace - 1
  /\ RequestKinds \subseteq AllRequestKinds
  /\ InitialTimeouts \subseteq Nat \ {0}
  /\ MaxRetransmit \in Nat
  /\ ClockHalf \in Nat \ {0}
  /\ MaxPosts \in Nat
  /\ MaxDatagrams \in Nat
  /\ MaxLate \in Nat

VARIABLES
  frame,      \* per client, the post_handler_data in the stack frame of coap_endpoint_post
  posts,      \* number of POSTs made so far; the POST's number is its token
  data,       \* POSTs whose packet buffer is allocated
  tx_fifo,    \* packet_tx_data_items from the clients to the transmit/receive thread
  rx_fifo,    \* parsed packets from the receiver to the transmit/receive thread
  inflight,   \* ep->inflight_packets
  pc,         \* where the transmit/receive thread is
  events,     \* the FIFOs k_poll reported as ready and that are still to be served
  next,       \* index of the packet `retransmission` points to, 0 for NULL
  wake,       \* when k_poll gives up, K_FOREVER if never
  receiver,   \* the receiver thread
  now,        \* k_uptime_get_32
  sent,       \* POSTs handed to sendto at least once
  arrivals,   \* datagrams received so far
  out         \* packets the last step handed to sendto in answer to a received packet

vars == <<frame, posts, data, tx_fifo, rx_fifo, inflight, pc, events, next,
          wake, receiver, now, sent, arrivals, out>>

K_FOREVER == -1

-----------------------------------------------------------------------------
(* Packets.                                                                *)

PostIds == 1 .. MaxPosts
NoToken == 0

\* Mutant of IdOf: every header is built with the same id.
SameId(k) == 0

\* coap_next_id numbers the POSTs, coap_next_token gives each its own token.
IdOf(k) == k % IdSpace

ErrorCodes == {"NOT_FOUND", "NOT_ALLOWED", "BAD_REQUEST", "INTERNAL_ERROR"}

Packet == [addr : Peers, type : {"CON", "NON", "ACK", "RST"},
           code : AllRequestKinds \cup {"EMPTY", "RESPONSE"},
           id : 0 .. IdSpace - 1, tok : 0 .. MaxPosts]

Reply == [addr : Peers, type : {"NON", "ACK", "RST"},
          code : ErrorCodes \cup {"EMPTY", "CREATED"},
          id : 0 .. IdSpace - 1, tok : 0 .. MaxPosts]

is_request(p) == p.code \in AllRequestKinds
is_response(p) == p.code = "RESPONSE"

\* coap_endpoint_respond: piggybacked on the acknowledgement unless the request was NON.
coap_endpoint_respond(p, code) ==
  [addr |-> p.addr, type |-> IF p.type = "NON" THEN "NON" ELSE "ACK",
   code |-> code, id |-> p.id, tok |-> p.tok]

EmptyReply(p, type) ==
  [addr |-> p.addr, type |-> type, code |-> "EMPTY", id |-> p.id, tok |-> NoToken]

\* Mutant of coap_endpoint_acknowledge: the test of the type is the wrong way round.
AcknowledgeNonOnly(p) ==
  IF p.type = "CON" THEN {} ELSE {EmptyReply(p, "ACK")}

\* coap_endpoint_acknowledge, called by post_handler: only a CON is acknowledged.
coap_endpoint_acknowledge(p) ==
  IF p.type = "CON" THEN {EmptyReply(p, "ACK")} ELSE {}

(***************************************************************************)
(* What may arrive: any reply to a POST that was sent, at any time and any *)
(* number of times (so replies are lost, late, duplicated and reordered),  *)
(* and the peers' own pings and requests, of whatever type: is_request     *)
(* looks at the code only.  A separate response carries an id of the       *)
(* peer's.                                                                 *)
(***************************************************************************)
Replies ==
  {[addr |-> a, type |-> "ACK", code |-> "RESPONSE", id |-> IdOf(k), tok |-> k] :
     a \in Peers, k \in sent}
  \cup {[addr |-> a, type |-> t, code |-> "EMPTY", id |-> IdOf(k), tok |-> NoToken] :
     a \in Peers, t \in {"ACK", "RST"}, k \in sent}
  \cup {[addr |-> a, type |-> t, code |-> "RESPONSE", id |-> i, tok |-> k] :
     a \in Peers, t \in {"CON", "NON"}, i \in PeerIds, k \in sent}

PeerMessages ==
  {[addr |-> a, type |-> "CON", code |-> "EMPTY", id |-> i, tok |-> NoToken] :
     a \in Peers, i \in PeerIds}
  \cup {[addr |-> a, type |-> t, code |-> m, id |-> i, tok |-> NoToken] :
     a \in Peers, t \in {"CON", "NON", "ACK", "RST"}, m \in RequestKinds, i \in PeerIds}

-----------------------------------------------------------------------------
(* The inflight array.                                                     *)

Inflight == [post : PostIds, client : Clients, retransmit : BOOLEAN,
             count : 0 .. MaxRetransmit, timeout : Nat, deadline : Nat]

\* Mutants of free_inflight_packet: it returns before it shortens the array, or
\* shortens the array and does not fill the hole.
FreeNothing(i) == UNCHANGED inflight
FreeLast(i) == inflight' = [j \in 1 .. Len(inflight) - 1 |-> inflight[j]]

\* free_inflight_packet moves the last entry into the hole.
free_inflight_packet(i) ==
  inflight' = [j \in 1 .. Len(inflight) - 1 |->
                 IF j = i THEN inflight[Len(inflight)] ELSE inflight[j]]

\* Mutant of Pending: next_retransmission does not look at `retransmit`.
AllInflight == DOMAIN inflight

\* The packets next_retransmission looks at: those not acknowledged yet.
Pending == {i \in DOMAIN inflight : inflight[i].retransmit}

\* How often a signed clock has wrapped around by the time t, and what an s32_t holds of t.
Epoch(t) == (t + ClockHalf) \div (2 * ClockHalf)
Signed(t) == t - 2 * ClockHalf * Epoch(t)

\* Mutant of Before: the comparison is the wrong way round.
After(d, e) == Signed(d) > Signed(e)

\* The comparison of two deadlines.
Before(d, e) == Signed(d) < Signed(e)

\* next_retransmission: the first of the pending packets whose deadline no other one's is
\* before, or NULL.
next_retransmission(n) ==
  \/ n = 0 /\ Pending = {}
  \/ /\ n \in Pending
     /\ \A j \in Pending :
          /\ ~ Before(inflight[j].deadline, inflight[n].deadline)
          /\ j < n => Before(inflight[n].deadline, inflight[j].deadline)

\* The test of get_inflight_packet: same address, and same id or same token.
Matches(e, p) == p.addr = Remote /\ (p.id = IdOf(e.post) \/ p.tok = e.post)

\* get_inflight_packet finds the first entry that matches.
get_inflight_packet(i, p) ==
  /\ Matches(inflight[i], p)
  /\ \A j \in 1 .. i - 1 : ~ Matches(inflight[j], p)

NoMatch(p) == \A i \in DOMAIN inflight : ~ Matches(inflight[i], p)

\* post_handler(c, err, response): store the result in c's frame and give its semaphore.
post_handler(c, err, tok) ==
  frame' = [frame EXCEPT ![c] = [post |-> @.post, sem |-> 1, err |-> err, tok |-> tok]]

-----------------------------------------------------------------------------
(* The start.                                                              *)

Running == pc # "fault"

Init ==
  /\ frame = [c \in Clients |-> [post |-> 0, sem |-> 0, err |-> "none", tok |-> NoToken]]
  /\ posts = 0
  /\ data = {}
  /\ tx_fifo = << >>
  /\ rx_fifo = << >>
  /\ inflight = << >>
  /\ pc = "loop"
  /\ events = {}
  /\ next = 0
  /\ wake = K_FOREVER
  /\ receiver \in {"receiving", "returned"}
  /\ now = 0
  /\ sent = {}
  /\ arrivals = 0
  /\ out = {}

-----------------------------------------------------------------------------
(* The clients: coap_endpoint_post and coap_endpoint_post_async.           *)

Post(c) ==
  /\ Running
  /\ frame[c].post = 0
  /\ posts < MaxPosts
  /\ posts' = posts + 1
  /\ data' = data \cup {posts + 1}
  /\ tx_fifo' = Append(tx_fifo, [post |-> posts + 1, client |-> c])
  /\ frame' = [frame EXCEPT ![c] =
                 [post |-> posts + 1, sem |-> 0, err |-> "none", tok |-> NoToken]]
  /\ out' = {}
  /\ UNCHANGED <<rx_fifo, inflight, pc, events, next, wake, receiver, now, sent, arrivals>>

\* Either allocation of coap_endpoint_post_async fails: the call returns at once.
PostNoMemory(c) ==
  /\ Running
  /\ frame[c].post = 0
  /\ posts < MaxPosts
  /\ frame' = [frame EXCEPT ![c] = [post |-> 0, sem |-> 0, err |-> "ENOMEM", tok |-> NoToken]]
  /\ out' = {}
  /\ UNCHANGED <<posts, data, tx_fifo, rx_fifo, inflight, pc, events, next, wake,
                 receiver, now, sent, arrivals>>

\* k_sem_take succeeds: coap_endpoint_post returns and its frame is gone.
Return(c) ==
  /\ Running
  /\ frame[c].post # 0
  /\ frame[c].sem = 1
  /\ frame' = [frame EXCEPT ![c] = [post |-> 0, sem |-> 0, err |-> @.err, tok |-> @.tok]]
  /\ out' = {}
  /\ UNCHANGED <<posts, data, tx_fifo, rx_fifo, inflight, pc, events, next, wake,
                 receiver, now, sent, arrivals>>

-----------------------------------------------------------------------------
(* The transmit/receive thread: txrx_thread.                               *)

\* The head of the loop picks the packet to retransmit and how long to poll.
Loop ==
  /\ pc = "loop"
  /\ \E n \in 0 .. Len(inflight) :
       /\ next_retransmission(n)
       /\ next' = n
       /\ LET timeout == IF n = 0 THEN K_FOREVER ELSE inflight[n].deadline - now
          IN  wake' = IF timeout = K_FOREVER THEN K_FOREVER
                      ELSE now + (IF timeout < 0 THEN 0 ELSE timeout)
  /\ pc' = "poll"
  /\ out' = {}
  /\ UNCHANGED <<frame, posts, data, tx_fifo, rx_fifo, inflight, events, receiver,
                 now, sent, arrivals>>

\* k_poll returns 0 and marks FIFOs that hold data.
PollReady ==
  /\ pc = "poll"
  /\ \E ready \in SUBSET {"tx", "rx"} :
       /\ ready # {}
       /\ "tx" \in ready => tx_fifo # << >>
       /\ "rx" \in ready => rx_fifo # << >>
       /\ events' = events \cup ready
  /\ pc' = "serve"
  /\ out' = {}
  /\ UNCHANGED <<frame, posts, data, tx_fifo, rx_fifo, inflight, next, wake, receiver,
                 now, sent, arrivals>>

\* k_poll returns -EAGAIN; packets may still arrive before the thread acts on it.
PollExpire ==
  /\ pc = "poll"
  /\ wake # K_FOREVER /\ now >= wake
  /\ tx_fifo = << >> /\ rx_fifo = << >>
  /\ pc' = "expired"
  /\ out' = {}
  /\ UNCHANGED <<frame, posts, data, tx_fifo, rx_fifo, inflight, events, next, wake,
                 receiver, now, sent, arrivals>>

\* Mutant of Postponed: the doubled timeout counts from now.
PostponedFromNow(e) == [e EXCEPT !.count = e.count + 1, !.timeout = 2 * e.timeout,
                                 !.deadline = now + 2 * e.timeout]

\* The timeout doubles and counts from the old deadline, not from now.
Postponed(e) == [e EXCEPT !.count = e.count + 1, !.timeout = 2 * e.timeout,
                          !.deadline = e.deadline + 2 * e.timeout]

\* Mutants of MayResend: the limit is off by one, either way.
MayResendOnceMore(e) == e.count <= MaxRetransmit
MayResendOnceLess(e) == e.count + 1 < MaxRetransmit

\* The test of max_retransmission_count in retransmit_packet.
MayResend(e) == e.count < MaxRetransmit

\* retransmit_packet: send once more and double the timeout ...
Resend ==
  /\ pc = "expired"
  /\ MayResend(inflight[next])
  /\ inflight' = [inflight EXCEPT ![next] = Postponed(@)]
  /\ sent' = sent \cup {inflight[next].post}
  /\ pc' = "loop"
  /\ out' = {}
  /\ UNCHANGED <<frame, posts, data, tx_fifo, rx_fifo, events, next, wake, receiver,
                 now, arrivals>>

\* ... or report -EAGAIN and forget the packet after the last one.
GiveUp ==
  /\ pc = "expired"
  /\ ~ MayResend(inflight[next])
  /\ post_handler(inflight[next].client, "EAGAIN", NoToken)
  /\ free_inflight_packet(next)
  /\ data' = data \ {inflight[next].post}
  /\ pc' = "loop"
  /\ out' = {}
  /\ UNCHANGED <<posts, tx_fifo, rx_fifo, events, next, wake, receiver, now, sent, arrivals>>

\* Mutant of NotReady: the state of the event is not set back.
StaysReady(fifo) == UNCHANGED events

\* events[i].state = K_POLL_STATE_NOT_READY.
NotReady(fifo) == events' = events \ {fifo}

\* The thread takes the packet k_poll announced from tx_fifo.
TakeTx ==
  /\ pc = "serve" /\ "tx" \in events
  /\ tx_fifo # << >>
  /\ tx_fifo' = Tail(tx_fifo)
  /\ NotReady("tx")
  /\ pc' = IF "rx" \in events THEN "serve" ELSE "loop"
  /\ out' = {}
  /\ UNCHANGED <<posts, rx_fifo, next, wake, receiver, now, arrivals>>

\* transmit_packet: new_inflight_packet takes over the packet, sendto sends it.
Transmit ==
  /\ TakeTx
  /\ \E t \in InitialTimeouts :
       inflight' = Append(inflight,
                     [post |-> Head(tx_fifo).post, client |-> Head(tx_fifo).client,
                      retransmit |-> TRUE, count |-> 0, timeout |-> t, deadline |-> now + t])
  /\ sent' = sent \cup {Head(tx_fifo).post}
  /\ UNCHANGED <<frame, data>>

\* transmit_packet: new_inflight_packet finds no memory for the longer array.
TransmitNoMemory ==
  /\ TakeTx
  /\ post_handler(Head(tx_fifo).client, "ENOMEM", NoToken)
  /\ data' = data \ {Head(tx_fifo).post}
  /\ UNCHANGED <<inflight, sent>>

-----------------------------------------------------------------------------
(* receive_packet, one action per way through it.                          *)

\* The thread takes the packet k_poll announced from rx_fifo.
TakeRx ==
  /\ pc = "serve" /\ "tx" \notin events /\ "rx" \in events
  /\ rx_fifo # << >>
  /\ rx_fifo' = Tail(rx_fifo)
  /\ NotReady("rx")
  /\ UNCHANGED <<posts, tx_fifo, next, wake, receiver, now, sent, arrivals>>

\* A request whose handler message_post answers 2.01; its copy of the payload is not
\* checked for NULL, so the device faults when the allocation fails.
ReceivePost ==
  /\ TakeRx
  /\ Head(rx_fifo).code = "POST_message"
  /\ \/ pc' = "loop" /\ out' = {coap_endpoint_respond(Head(rx_fifo), "CREATED")}
     \/ pc' = "fault" /\ out' = {}
  /\ UNCHANGED <<frame, data, inflight>>

\* A request coap_handle_request refuses. The error that picks the code is the inner `err`,
\* read before it is initialised: any code response_code_for_error returns may be sent.
ReceiveBadRequest ==
  /\ TakeRx
  /\ is_request(Head(rx_fifo)) /\ Head(rx_fifo).code # "POST_message"
  /\ \E code \in ErrorCodes : out' = {coap_endpoint_respond(Head(rx_fifo), code)}
  /\ pc' = "loop"
  /\ UNCHANGED <<frame, data, inflight>>

ReceiveReset ==
  /\ TakeRx
  /\ ~ is_request(Head(rx_fifo)) /\ Head(rx_fifo).type = "RST"
  /\ \E i \in DOMAIN inflight :
       /\ get_inflight_packet(i, Head(rx_fifo))
       /\ post_handler(inflight[i].client, "ECANCELED", NoToken)
       /\ free_inflight_packet(i)
       /\ data' = data \ {inflight[i].post}
  /\ pc' = "loop"
  /\ out' = {}

ReceiveResponse ==
  /\ TakeRx
  /\ is_response(Head(rx_fifo)) /\ Head(rx_fifo).type # "RST"
  /\ \E i \in DOMAIN inflight :
       /\ get_inflight_packet(i, Head(rx_fifo))
       /\ post_handler(inflight[i].client, "ok", Head(rx_fifo).tok)
       /\ free_inflight_packet(i)
       /\ data' = data \ {inflight[i].post}
  /\ pc' = "loop"
  /\ out' = coap_endpoint_acknowledge(Head(rx_fifo))

\* Anything else that matches is taken for an empty acknowledgement.
ReceiveAck ==
  /\ TakeRx
  /\ Head(rx_fifo).code = "EMPTY" /\ Head(rx_fifo).type # "RST"
  /\ \E i \in DOMAIN inflight :
       /\ get_inflight_packet(i, Head(rx_fifo))
       /\ inflight' = [inflight EXCEPT ![i].retransmit = FALSE]
  /\ pc' = "loop"
  /\ out' = {}
  /\ UNCHANGED <<frame, data>>

\* Mutant of Rejection: whatever does not match is answered with a reset.
RejectAll(p) == {EmptyReply(p, "RST")}

\* The end of receive_packet: a CON is answered with a reset, anything else is dropped.
Rejection(p) == IF p.type = "CON" THEN {EmptyReply(p, "RST")} ELSE {}

\* No inflight packet matches.
ReceiveUnmatched ==
  /\ TakeRx
  /\ ~ is_request(Head(rx_fifo)) /\ NoMatch(Head(rx_fifo))
  /\ pc' = "loop"
  /\ out' = Rejection(Head(rx_fifo))
  /\ UNCHANGED <<frame, data, inflight>>

-----------------------------------------------------------------------------
(* The receiver thread: recv_thread.                                       *)

\* A datagram is parsed and queued; if the block for the next one cannot be had, the thread
\* returns.  (A datagram that does not parse gives its block back and changes nothing.)
Receive(p) ==
  /\ Running
  /\ receiver = "receiving"
  /\ arrivals < MaxDatagrams
  /\ arrivals' = arrivals + 1
  /\ rx_fifo' = Append(rx_fifo, p)
  /\ receiver' \in {"receiving", "returned"}
  /\ out' = {}
  /\ UNCHANGED <<frame, posts, data, tx_fifo, inflight, pc, events, next, wake, now, sent>>

\* recvfrom fails, or the allocation after a datagram that did not parse: the thread returns.
ReceiverReturns ==
  /\ Running
  /\ receiver = "receiving"
  /\ receiver' = "returned"
  /\ out' = {}
  /\ UNCHANGED <<frame, posts, data, tx_fifo, rx_fifo, inflight, pc, events, next, wake,
                 now, sent, arrivals>>

\* Time passes; it is read only while some packet waits for its acknowledgement.  The
\* thread runs MaxLate after the deadline it chose at the latest.
Tick ==
  /\ Running
  /\ Pending # {}
  /\ \A n \in Pending : next_retransmission(n) => now < inflight[n].deadline + MaxLate
  /\ now' = now + 1
  /\ out' = {}
  /\ UNCHANGED <<frame, posts, data, tx_fifo, rx_fifo, inflight, pc, events, next, wake,
                 receiver, sent, arrivals>>

-----------------------------------------------------------------------------
Serve ==
  \/ Transmit
  \/ TransmitNoMemory
  \/ ReceivePost
  \/ ReceiveBadRequest
  \/ ReceiveReset
  \/ ReceiveResponse
  \/ ReceiveAck
  \/ ReceiveUnmatched

TxRx ==
  \/ Loop
  \/ PollReady
  \/ PollExpire
  \/ Resend
  \/ GiveUp
  \/ Serve

Next ==
  \/ \E c \in Clients : Post(c) \/ PostNoMemory(c) \/ Return(c)
  \/ TxRx
  \/ \E p \in Replies \cup PeerMessages : Receive(p)
  \/ ReceiverReturns
  \/ Tick

Spec == Init /\ [][Next]_vars

(***************************************************************************)
(* Fairness: the endpoint's threads have the highest priority and are      *)
(* never kept from running for good, time passes, and a client whose       *)
(* semaphore was given runs when they wait.  Nothing makes a client post,  *)
(* a datagram arrive or the socket fail.                                   *)
(***************************************************************************)
Fairness ==
  /\ WF_vars(TxRx)
  /\ WF_vars(Tick)
  /\ \A c \in Clients : WF_vars(Return(c))

FairSpec == Spec /\ Fairness

-----------------------------------------------------------------------------
(* Type correctness.                                                       *)

Results == {"none", "ok", "EAGAIN", "ECANCELED", "ENOMEM"}

TypeOK ==
  /\ frame \in [Clients -> [post : 0 .. MaxPosts, sem : 0 .. 1, err : Results,
                            tok : 0 .. MaxPosts]]
  /\ posts \in 0 .. MaxPosts
  /\ data \subseteq PostIds
  /\ tx_fifo \in Seq([post : PostIds, client : Clients])
  /\ rx_fifo \in Seq(Packet)
  /\ inflight \in Seq(Inflight)
  /\ pc \in {"loop", "poll", "expired", "serve", "fault"}
  /\ events \subseteq {"tx", "rx"}
  /\ next \in Nat
  /\ wake \in Nat \cup {K_FOREVER}
  /\ receiver \in {"receiving", "returned"}
  /\ now \in Nat
  /\ sent \subseteq PostIds
  /\ arrivals \in 0 .. MaxDatagrams
  /\ out \subseteq Reply

-----------------------------------------------------------------------------
(* Safety.                                                                 *)

\* Client c's call is running and its semaphore has not been given yet.
Waiting(c) == frame[c].post # 0 /\ frame[c].sem = 0

\* The call that registered the handler of a queued or inflight packet is still waiting for it.
Live(h) == Waiting(h.client) /\ frame[h.client].post = h.post

(***************************************************************************)
(* post_handler writes into the stack frame of the call it was registered  *)
(* for.  Every handler the endpoint still holds belongs to a call that is  *)
(* still waiting, so it never writes a dead frame and never gives a        *)
(* semaphore twice; and every waiting call is held by the endpoint, so it  *)
(* is never forgotten (coap.c:122, coap.c:403, coap.c:421).                *)
(***************************************************************************)
CallsOwned ==
  /\ \A i \in DOMAIN tx_fifo : Live(tx_fifo[i])
  /\ \A i \in DOMAIN inflight : Live(inflight[i])
  /\ \A c \in Clients :
       Waiting(c) => \/ \E i \in DOMAIN tx_fifo : tx_fifo[i].client = c
                     \/ \E i \in DOMAIN inflight : inflight[i].client = c

(***************************************************************************)
(* Exactly the packets that are queued or inflight own a packet buffer,    *)
(* and each is held once: no buffer leaks, none is used after k_free or    *)
(* freed twice, whichever entry free_inflight_packet moves (coap.c:122).   *)
(***************************************************************************)
BuffersOwned ==
  /\ data = {tx_fifo[i].post : i \in DOMAIN tx_fifo}
              \cup {inflight[i].post : i \in DOMAIN inflight}
  /\ \A i, j \in DOMAIN tx_fifo : tx_fifo[i].post = tx_fifo[j].post => i = j
  /\ \A i, j \in DOMAIN inflight : inflight[i].post = inflight[j].post => i = j
  /\ \A i \in DOMAIN tx_fifo, j \in DOMAIN inflight : tx_fifo[i].post # inflight[j].post

(***************************************************************************)
(* `retransmission` points into the array across k_poll.  When the thread  *)
(* uses it, it points at a packet that still waits for its acknowledgement *)
(* and is due: retransmit_packet never runs on NULL, on a moved entry, on  *)
(* an acknowledged packet or before the deadline (coap.c:317, coap.c:324). *)
(***************************************************************************)
RetransmitsDuePacket ==
  /\ pc = "poll" /\ wake # K_FOREVER =>
       next \in DOMAIN inflight /\ inflight[next].retransmit
  /\ pc = "expired" =>
       /\ next \in DOMAIN inflight
       /\ inflight[next].retransmit
       /\ now >= inflight[next].deadline

\* k_fifo_get(..., K_FOREVER) in txrx_thread never blocks on an empty FIFO, which would
\* leave the other FIFO and every deadline unattended (coap.c:329, coap.c:336).
GetNeverBlocks ==
  pc = "serve" =>
    /\ events # {}
    /\ "tx" \in events => tx_fifo # << >>
    /\ "rx" \in events => rx_fifo # << >>

(***************************************************************************)
(* The packet whose deadline the thread polls for is the one with the      *)
(* earliest deadline, as long as the clock does not wrap around between    *)
(* two deadlines; then a later one may come first (coap.c:138).  How long  *)
(* k_poll sleeps for it is another matter: see SleepsThroughDeadline.      *)
(***************************************************************************)
EarliestUnlessWrapped ==
  pc = "poll" /\ next # 0 =>
    /\ next \in Pending
    /\ \A j \in Pending :
         \/ inflight[next].deadline <= inflight[j].deadline
         \/ Epoch(inflight[next].deadline) # Epoch(inflight[j].deadline)

\* The response a POST returns carries the POST's own token, unless the peer has picked the
\* POST's message id for a message of its own, or another POST that was sent is a multiple
\* of IdSpace away (coap.c:159, coap.c:171).
MisdeliveryNeedsCollision ==
  \A c \in Clients :
    (frame[c].err = "ok" /\ frame[c].tok # frame[c].post /\ frame[c].sem = 1)
      => \/ IdOf(frame[c].post) \in PeerIds
         \/ \E k \in sent : k # frame[c].post /\ k % IdSpace = frame[c].post % IdSpace

\* The thread took a packet from rx_fifo in this step.
Consumes == rx_fifo # << >> /\ rx_fifo' = Tail(rx_fifo)

(***************************************************************************)
(* A Confirmable request or response is answered by exactly one            *)
(* acknowledgement or reset with its id, or the peer would send it again   *)
(* and again; so is a ping unless its id matches an inflight packet        *)
(* (coap.c:240).                                                           *)
(***************************************************************************)
ConAnswered ==
  [][ Consumes =>
        LET p == Head(rx_fifo)
        IN  (p.type = "CON" /\ (p.code # "EMPTY" \/ NoMatch(p)) /\ pc' # "fault")
              => \E r \in out' : /\ out' = {r}
                                 /\ r.type \in {"ACK", "RST"}
                                 /\ r.id = p.id /\ r.addr = p.addr ]_vars

(***************************************************************************)
(* An acknowledgement or a reset that is no request, and a Non-confirmable *)
(* response, is never answered, matched or not, and a Non-confirmable      *)
(* request draws Non-confirmable packets only.  Everything this endpoint   *)
(* sends in answer is of those kinds, so two of them never keep each other *)
(* busy for good.  A request typed ACK or RST is answered: is_request does *)
(* not look at the type (coap.c:148, 282, 503, 546).                       *)
(***************************************************************************)
NoReplyStorm ==
  [][ Consumes =>
        LET p == Head(rx_fifo)
        IN  /\ p.type # "CON" /\ ~ is_request(p) => out' = {}
            /\ p.type = "NON" => \A r \in out' : r.type = "NON" ]_vars

(***************************************************************************)
(* Once a POST is acknowledged it is never sent again and never reported   *)
(* as unacknowledged; it keeps its place in the array until an answer      *)
(* arrives (coap.c:138, coap.c:272).                                       *)
(***************************************************************************)
AcknowledgedStays ==
  [][ \A i \in DOMAIN inflight :
        ~ inflight[i].retransmit =>
           \/ \E j \in DOMAIN inflight' : inflight'[j] = inflight[i]
           \/ frame'[inflight[i].client].err \in {"ok", "ECANCELED"} ]_vars

\* The k-th retransmission waits Backoff[k] times as long as the first transmission.
Backoff[k \in 0 .. MaxRetransmit] == IF k = 0 THEN 1 ELSE 2 * Backoff[k - 1]

\* Packet e was first sent at `start` with the timeout t, and since then its deadline was put
\* off by 2t, 4t, ... once for every retransmission.
Scheduled(e, start, t) ==
  /\ e.timeout = t * Backoff[e.count]
  /\ e.deadline = start + (2 * Backoff[e.count] - 1) * t

(***************************************************************************)
(* The retransmissions of a POST keep to the schedule that its first       *)
(* transmission set up, however late the thread serves them, wherever      *)
(* free_inflight_packet moves the entry and whoever else posts; and        *)
(* -EAGAIN is reported after the last timeout of that schedule and never   *)
(* before (coap.c:114, 127, 211-216).                                      *)
(***************************************************************************)
RetransmissionSchedule ==
  [][ /\ \A j \in DOMAIN inflight' :
           \/ /\ \A i \in DOMAIN inflight : inflight[i].post # inflight'[j].post
              /\ \E t \in InitialTimeouts : Scheduled(inflight'[j], now, t)
           \/ \E i \in DOMAIN inflight, start \in 0 .. now, t \in InitialTimeouts :
                /\ inflight[i].post = inflight'[j].post
                /\ Scheduled(inflight[i], start, t)
                /\ Scheduled(inflight'[j], start, t)
      /\ \A c \in Clients :
           (Waiting(c) /\ frame'[c].sem = 1 /\ frame'[c].err = "EAGAIN") =>
              \E i \in DOMAIN inflight, start \in 0 .. now, t \in InitialTimeouts :
                /\ inflight[i].client = c
                /\ Scheduled(inflight[i], start, t)
                /\ now >= start + (2 * Backoff[MaxRetransmit] - 1) * t ]_vars

-----------------------------------------------------------------------------
(* The inductive invariant: the properties above and what makes them so.   *)

\* Outside the service of a poll no event is pending.
EventsServed == pc # "serve" => events = {}

\* The timer of k_poll was set for the packet `retransmission` points to.
TimerCoversDeadline ==
  pc = "poll" /\ wake # K_FOREVER => inflight[next].deadline <= wake

\* The calls that are running are different POSTs, and the next one is new.
PostsDistinct ==
  /\ \A c \in Clients : frame[c].post <= posts
  /\ \A c, d \in Clients : frame[c].post # 0 /\ frame[c].post = frame[d].post => c = d

IInv ==
  /\ TypeOK
  /\ CallsOwned
  /\ BuffersOwned
  /\ PostsDistinct
  /\ RetransmitsDuePacket
  /\ TimerCoversDeadline
  /\ EarliestUnlessWrapped
  /\ GetNeverBlocks
  /\ EventsServed

\* What waits in rx_fifo is a reply to a POST that was sent, or a message of a peer's own.
FromNetwork == \A i \in DOMAIN rx_fifo : rx_fifo[i] \in Replies \cup PeerMessages

-----------------------------------------------------------------------------
(* Liveness.                                                               *)

Acknowledged(c) == \E i \in DOMAIN inflight : inflight[i].client = c /\ ~ inflight[i].retransmit

\* k_poll was given a deadline one tick in the past, which is K_FOREVER.
SleepsThroughDeadline == pc = "poll" /\ wake = K_FOREVER /\ Pending # {}

(***************************************************************************)
(* Every POST ends, with a response or an error, unless the peer has       *)
(* acknowledged it (then it waits for the response without a limit), the   *)
(* thread took an expired deadline for K_FOREVER, or the device faulted    *)
(* (coap.c:297, coap.c:421).                                               *)
(***************************************************************************)
PostSettles ==
  \A c \in Clients :
    Waiting(c) ~> (~ Waiting(c) \/ Acknowledged(c) \/ SleepsThroughDeadline \/ pc = "fault")

-----------------------------------------------------------------------------
(* What the comments of the repository say, and the code does not do.      *)

\* coap.h:15: -EAGAIN if an acknowledgement was never received: a POST nobody acknowledges ends.
PostCompletes == \A c \in Clients : Waiting(c) ~> ~ Waiting(c)

\* coap.c:133: next_retransmission returns the inflight packet with the earliest deadline.
EarliestFirst ==
  pc = "poll" /\ next # 0 =>
    \A j \in Pending : inflight[next].deadline <= inflight[j].deadline

\* coap.h:11, 20: the handler is called when a response (to this POST) is received.
ResponseAnswersPost ==
  \A c \in Clients : frame[c].err = "ok" /\ frame[c].sem = 1 => frame[c].tok = frame[c].post

\* coap.c:269: what stops the retransmission is an empty acknowledgement.
OnlyAcknowledgementsStopRetransmission ==
  [][ \A i \in DOMAIN inflight :
        (inflight[i].retransmit /\ i \in DOMAIN inflight' /\ inflight'[i].post = inflight[i].post
           /\ ~ inflight'[i].retransmit)
          => Head(rx_fifo).type = "ACK" ]_vars

\* coap.h:15: -EAGAIN if an acknowledgement was never received for a Confirmable message.
EagainMeansUnacknowledged ==
  [][ \A c \in Clients :
        (Waiting(c) /\ frame'[c].sem = 1 /\ frame'[c].err = "EAGAIN")
          => ~ \E i \in DOMAIN rx_fifo :
                 /\ rx_fifo[i].addr = Remote /\ rx_fifo[i].type = "ACK"
                 /\ ~ is_request(rx_fifo[i])
                 /\ rx_fifo[i].id = IdOf(frame[c].post) ]_vars
=============================================================================
