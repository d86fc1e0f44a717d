------------------------- MODULE CoapAnswersProofs --------------------------
(***************************************************************************)
(* What CoapEndpoint answers to what it receives, for every set of peers,  *)
(* kinds of requests and message ids, and whose answer a POST returns.     *)
(* These need to know what can wait in rx_fifo (FromNetwork): that a reply *)
(* belongs to a POST that was sent, and that requests are CON or NON.      *)
(***************************************************************************)
EXTENDS CoapEndpointProofs

-----------------------------------------------------------------------------
(* What waits in rx_fifo.                                                  *)

\* POSTs stay sent, so whatever could arrive before can arrive later.
LEMMA RepliesGrow ==
  ASSUME sent \subseteq sent'
  PROVE  Replies \cup PeerMessages \subseteq Replies' \cup PeerMessages'
<1>1. Replies \subseteq Replies'
  BY DEF Replies
<1>2. PeerMessages' = PeerMessages
  BY DEF PeerMessages
<1> QED BY <1>1, <1>2

\* A step that takes a packet of the peer's.
ReceiveStep ==
  \/ ReceivePost \/ ReceiveBadRequest \/ ReceiveReset
  \/ ReceiveResponse \/ ReceiveAck \/ ReceiveUnmatched

\* What a step does to rx_fifo and to the set of POSTs that were sent.
LEMMA FifoSteps ==
  ASSUME [Next]_vars
  PROVE  /\ \/ rx_fifo' = rx_fifo
            \/ TakeRx /\ ReceiveStep
            \/ \E p \in Replies \cup PeerMessages : rx_fifo' = Append(rx_fifo, p)
         /\ sent \subseteq sent'
<1>1. CASE \E c \in Clients : Post(c) \/ PostNoMemory(c) \/ Return(c)
  BY <1>1 DEF Post, PostNoMemory, Return
<1>2. CASE Loop \/ PollReady \/ PollExpire \/ Resend \/ GiveUp
  BY <1>2 DEF Loop, PollReady, PollExpire, Resend, GiveUp
<1>3. CASE Transmit \/ TransmitNoMemory
  BY <1>3 DEF Transmit, TransmitNoMemory, TakeTx
<1>4. CASE ReceiveStep
  BY <1>4 DEF ReceiveStep, ReceivePost, ReceiveBadRequest, ReceiveReset, ReceiveResponse,
     ReceiveAck, ReceiveUnmatched, TakeRx
<1>5. CASE \E p \in Replies \cup PeerMessages : Receive(p)
  BY <1>5 DEF Receive
<1>6. CASE ReceiverReturns \/ Tick \/ UNCHANGED vars
  BY <1>6 DEF ReceiverReturns, Tick, vars
<1> QED
  BY <1>1, <1>2, <1>3, <1>4, <1>5, <1>6 DEF Next, TxRx, Serve, ReceiveStep

\* What is in rx_fifo came from the network, and stays what it was.
LEMMA FromNetworkStep ==
  ASSUME TypeOK, FromNetwork, [Next]_vars
  PROVE  FromNetwork'
<1>1. sent \subseteq sent'
  BY FifoSteps
<1>2. Replies \cup PeerMessages \subseteq Replies' \cup PeerMessages'
  BY <1>1, RepliesGrow
<1>3. rx_fifo \in Seq(Packet)
  BY DEF TypeOK
<1>4. CASE rx_fifo' = rx_fifo
  BY <1>2, <1>4 DEF FromNetwork
<1>5. CASE TakeRx
  <2>1. rx_fifo # << >> /\ rx_fifo' = Tail(rx_fifo)
    BY <1>5 DEF TakeRx
  <2>2. \A i \in DOMAIN rx_fifo' : i + 1 \in DOMAIN rx_fifo /\ rx_fifo'[i] = rx_fifo[i + 1]
    BY <1>3, <2>1, TailFacts
  <2> QED BY <1>2, <2>2 DEF FromNetwork
<1>6. ASSUME NEW p \in Replies \cup PeerMessages, rx_fifo' = Append(rx_fifo, p)
      PROVE  FromNetwork'
  <2>1. p \in Packet
    BY DatagramsArePackets
  <2>2. \A i \in DOMAIN rx_fifo' :
          (i \in DOMAIN rx_fifo /\ rx_fifo'[i] = rx_fifo[i]) \/ rx_fifo'[i] = p
    BY <1>3, <1>6, <2>1, AppendFacts
  <2> QED BY <1>2, <2>2 DEF FromNetwork
<1> QED BY <1>4, <1>5, <1>6, FifoSteps

\* Only replies to sent POSTs and the peers' own messages wait in rx_fifo.
THEOREM FifoInvariant == Spec => []FromNetwork
<1>1. Init => FromNetwork
  BY DEF Init, FromNetwork
<1>2. IInv /\ FromNetwork /\ [Next]_vars => FromNetwork'
  BY FromNetworkStep DEF IInv
<1> QED BY <1>1, <1>2, Invariant, PTL DEF Spec

\* The packet the thread takes came from the network.
LEMMA HeadFromNetwork ==
  ASSUME TypeOK, FromNetwork, rx_fifo # << >>
  PROVE  Head(rx_fifo) \in Replies \cup PeerMessages /\ Head(rx_fifo) \in Packet
<1>1. rx_fifo \in Seq(Packet)
  BY DEF TypeOK
<1>2. Head(rx_fifo) = rx_fifo[1] /\ 1 \in DOMAIN rx_fifo /\ Head(rx_fifo) \in Packet
  BY <1>1, TailFacts
<1> QED BY <1>2 DEF FromNetwork

-----------------------------------------------------------------------------
(* What is answered.                                                       *)

\* A step after which rx_fifo is its own tail is one of receive_packet.
LEMMA ConsumesReceives ==
  ASSUME TypeOK, [Next]_vars, Consumes
  PROVE  TakeRx /\ ReceiveStep
<1>1. rx_fifo \in Seq(Packet) /\ rx_fifo # << >> /\ rx_fifo' = Tail(rx_fifo)
  BY DEF TypeOK, Consumes
<1>2. DOMAIN rx_fifo' = 1 .. Len(rx_fifo) - 1 /\ Len(rx_fifo) \in Nat \ {0}
  BY <1>1, TailFacts
<1>3. rx_fifo' # rx_fifo
  <2>1. Len(rx_fifo) \in DOMAIN rx_fifo /\ Len(rx_fifo) \notin DOMAIN rx_fifo'
    BY <1>1, <1>2
  <2> QED BY <2>1
<1>4. ASSUME NEW p \in Replies \cup PeerMessages PROVE rx_fifo' # Append(rx_fifo, p)
  <2>1. p \in Packet
    BY DatagramsArePackets
  <2>2. Len(rx_fifo) + 1 \in DOMAIN Append(rx_fifo, p)
    BY <1>1, <1>2, <2>1, AppendFacts
  <2>3. Len(rx_fifo) + 1 \notin DOMAIN rx_fifo'
    BY <1>2
  <2> QED BY <2>2, <2>3
<1> QED BY <1>3, <1>4, FifoSteps

\* A response to a CON acknowledges it; a response to a NON is a NON.
LEMMA ResponseTypes ==
  ASSUME NEW p \in Packet, NEW code
  PROVE  LET r == coap_endpoint_respond(p, code)
         IN  /\ r.id = p.id /\ r.addr = p.addr
             /\ p.type = "NON" => r.type = "NON"
             /\ p.type # "NON" => r.type = "ACK"
  BY DEF coap_endpoint_respond

\* The single answer to a Confirmable packet.
AnsweredOnce(p) ==
  \E r \in out' : /\ out' = {r}
                  /\ r.type \in {"ACK", "RST"}
                  /\ r.id = p.id /\ r.addr = p.addr

\* Every Confirmable request or response, and every ping that matches no POST, draws
\* exactly one answer (coap.c:240).
THEOREM EveryConAnswered == Spec => ConAnswered
<1> DEFINE Obliged(p) == p.type = "CON" /\ (p.code # "EMPTY" \/ NoMatch(p)) /\ pc' # "fault"
<1>1. ASSUME TypeOK, FromNetwork, [Next]_vars, Consumes, Obliged(Head(rx_fifo))
      PROVE  AnsweredOnce(Head(rx_fifo))
  <2> DEFINE p == Head(rx_fifo)
  <2>1. TakeRx /\ ReceiveStep
    BY <1>1, ConsumesReceives
  <2>2. p \in Packet
    BY <1>1, HeadFromNetwork DEF Consumes
  <2>3. /\ p.type = "CON" /\ p.type # "NON" /\ p.type # "RST"
        /\ p.code # "EMPTY" \/ NoMatch(p)
        /\ pc' # "fault"
    BY <1>1
  <2>4. \A code : LET r == coap_endpoint_respond(p, code)
                  IN  r.id = p.id /\ r.addr = p.addr /\ r.type = "ACK"
    BY <2>2, <2>3, ResponseTypes
  <2>5. \A type : LET r == EmptyReply(p, type)
                  IN  r.id = p.id /\ r.addr = p.addr /\ r.type = type
    BY DEF EmptyReply
  <2> HIDE DEF p
  <2>6. CASE ReceivePost
    <3>1. out' = {coap_endpoint_respond(p, "CREATED")}
      BY <2>3, <2>6 DEF ReceivePost, p
    <3> QED BY <2>4, <3>1 DEF AnsweredOnce, p
  <2>7. CASE ReceiveBadRequest
    <3>1. PICK code \in ErrorCodes : out' = {coap_endpoint_respond(p, code)}
      BY <2>7 DEF ReceiveBadRequest, p
    <3> QED BY <2>4, <3>1 DEF AnsweredOnce, p
  <2>8. CASE ReceiveReset
    BY <2>3, <2>8 DEF ReceiveReset, p
  <2>9. CASE ReceiveResponse
    <3>1. out' = {EmptyReply(p, "ACK")}
      BY <2>3, <2>9 DEF ReceiveResponse, coap_endpoint_acknowledge, p
    <3> QED BY <2>5, <3>1 DEF AnsweredOnce, p
  <2>10. CASE ReceiveAck
    BY <2>3, <2>10 DEF ReceiveAck, get_inflight_packet, NoMatch, p
  <2>11. CASE ReceiveUnmatched
    <3>1. out' = {EmptyReply(p, "RST")}
      BY <2>3, <2>11 DEF ReceiveUnmatched, Rejection, p
    <3> QED BY <2>5, <3>1 DEF AnsweredOnce, p
  <2> QED
    BY <2>1, <2>6, <2>7, <2>8, <2>9, <2>10, <2>11 DEF ReceiveStep, p
<1>2. IInv /\ FromNetwork /\ [Next]_vars =>
        [ Consumes =>
            LET p == Head(rx_fifo)
            IN  (p.type = "CON" /\ (p.code # "EMPTY" \/ NoMatch(p)) /\ pc' # "fault")
                  => \E r \in out' : /\ out' = {r}
                                     /\ r.type \in {"ACK", "RST"}
                                     /\ r.id = p.id /\ r.addr = p.addr ]_vars
  BY <1>1 DEF IInv, AnsweredOnce
<1> QED BY <1>2, Invariant, FifoInvariant, PTL DEF Spec, ConAnswered

\* An acknowledgement, a reset or a Non-confirmable packet that is no request draws nothing,
\* whatever it matches, and a Non-confirmable request no acknowledgement and no reset: what
\* this endpoint sends in answer it would never answer (coap.c:148, 282, 503, 546).
THEOREM NoStormOfReplies == Spec => NoReplyStorm
<1>1. ASSUME TypeOK, FromNetwork, [Next]_vars, Consumes, NEW p, p = Head(rx_fifo)
      PROVE  /\ p.type # "CON" /\ ~ is_request(p) => out' = {}
             /\ p.type = "NON" => \A r \in out' : r.type = "NON"
  <2>1. TakeRx /\ ReceiveStep
    BY <1>1, ConsumesReceives
  <2>2. p \in Packet
    BY <1>1, HeadFromNetwork DEF Consumes
  <2>3. \A code : p.type = "NON" => coap_endpoint_respond(p, code).type = "NON"
    BY <2>2, ResponseTypes
  <2>4. CASE ReceivePost
    <3>1. is_request(p)
      BY <1>1, <2>4 DEF ReceivePost, is_request, AllRequestKinds
    <3>2. out' \subseteq {coap_endpoint_respond(p, "CREATED")}
      BY <1>1, <2>4 DEF ReceivePost
    <3> QED BY <2>3, <3>1, <3>2
  <2>5. CASE ReceiveBadRequest
    <3>1. is_request(p)
      BY <1>1, <2>5 DEF ReceiveBadRequest
    <3>2. PICK code \in ErrorCodes : out' = {coap_endpoint_respond(p, code)}
      BY <1>1, <2>5 DEF ReceiveBadRequest
    <3> QED BY <2>3, <3>1, <3>2
  <2>6. CASE ReceiveReset \/ ReceiveAck
    BY <2>6 DEF ReceiveReset, ReceiveAck
  <2>7. CASE ReceiveResponse \/ ReceiveUnmatched
    <3>1. p.type # "CON" => out' = {}
      BY <1>1, <2>7 DEF ReceiveResponse, ReceiveUnmatched, coap_endpoint_acknowledge, Rejection
    <3> QED BY <3>1
  <2> QED
    BY <2>1, <2>4, <2>5, <2>6, <2>7 DEF ReceiveStep
<1>2. IInv /\ FromNetwork /\ [Next]_vars =>
        [ Consumes =>
            LET p == Head(rx_fifo)
            IN  /\ p.type # "CON" /\ ~ is_request(p) => out' = {}
                /\ p.type = "NON" => \A r \in out' : r.type = "NON" ]_vars
  BY <1>1 DEF IInv
<1> QED BY <1>2, Invariant, FifoInvariant, PTL DEF Spec, NoReplyStorm

-----------------------------------------------------------------------------
(* Acknowledged POSTs.                                                     *)

\* An entry that is marked as acknowledged already does not change.
LEMMA MarkAgain ==
  ASSUME NEW e \in Inflight, ~ e.retransmit
  PROVE  [e EXCEPT !.retransmit = FALSE] = e
<1>1. e.retransmit = FALSE
  BY DEF Inflight
<1> QED BY <1>1 DEF Inflight

\* Entry i stays in the array, or its call is over with a response or a reset.
Stays(i) ==
  \/ \E j \in DOMAIN inflight' : inflight'[j] = inflight[i]
  \/ frame'[inflight[i].client].err \in {"ok", "ECANCELED"}

\* free_inflight_packet drops entry i only.
LEMMA OthersStayInflight ==
  ASSUME TypeOK, NEW i \in DOMAIN inflight, free_inflight_packet(i),
         NEW j \in DOMAIN inflight, j # i
  PROVE  Stays(j)
<1>1. inflight \in Seq(Inflight)
  BY DEF TypeOK
<1>2. inflight' = [k \in 1 .. Len(inflight) - 1 |->
                     IF k = i THEN inflight[Len(inflight)] ELSE inflight[k]]
  BY DEF free_inflight_packet
<1>3. \E m \in DOMAIN inflight' : inflight'[m] = inflight[j]
  BY <1>1, <1>2, FreeFacts
<1> QED BY <1>3 DEF Stays

\* What post_handler reports.
LEMMA HandlerReports ==
  ASSUME TypeOK, NEW c \in Clients, NEW err, NEW tok, post_handler(c, err, tok)
  PROVE  frame'[c].err = err /\ frame'[c].tok = tok /\ frame'[c].post = frame[c].post
<1>1. frame' = [frame EXCEPT ![c] = [post |-> frame[c].post, sem |-> 1, err |-> err, tok |-> tok]]
  BY DEF post_handler
<1>2. DOMAIN frame = Clients
  BY DEF TypeOK
<1> QED BY <1>1, <1>2

\* One step keeps an acknowledged entry.
LEMMA AcknowledgedStep ==
  ASSUME IInv, [Next]_vars, NEW i \in DOMAIN inflight, ~ inflight[i].retransmit
  PROVE  Stays(i)
<1>0. /\ TypeOK /\ RetransmitsDuePacket /\ inflight \in Seq(Inflight)
      /\ inflight[i] \in Inflight /\ inflight[i].client \in Clients
  BY EntryTypes DEF IInv, TypeOK
<1>1. CASE inflight' = inflight
  BY <1>1 DEF Stays
<1>2. CASE Resend
  <2>1. i # next /\ inflight' = [inflight EXCEPT ![next] = Postponed(@)]
    BY <1>0, <1>2 DEF Resend, RetransmitsDuePacket
  <2>2. i \in DOMAIN inflight' /\ inflight'[i] = inflight[i]
    BY <1>0, <2>1
  <2> QED BY <2>2 DEF Stays
<1>3. CASE GiveUp
  <2>1. i # next /\ next \in DOMAIN inflight /\ free_inflight_packet(next)
    BY <1>0, <1>3 DEF GiveUp, RetransmitsDuePacket
  <2> QED BY <1>0, <2>1, OthersStayInflight
<1>4. CASE Transmit
  <2>1. TypeOK' /\ inflight' \in Seq(Inflight)
    BY TypeStep DEF TypeOK
  <2>2. PICK e : inflight' = Append(inflight, e)
    BY <1>4 DEF Transmit
  <2>3. i \in DOMAIN inflight' /\ inflight'[i] = inflight[i]
    BY <1>0, <2>2
  <2> QED BY <2>3 DEF Stays
<1>5. CASE ReceiveReset \/ ReceiveResponse
  <2>1. PICK j \in DOMAIN inflight, err \in {"ok", "ECANCELED"}, tok \in {NoToken, Head(rx_fifo).tok} :
          /\ post_handler(inflight[j].client, err, tok)
          /\ free_inflight_packet(j)
    BY <1>5 DEF ReceiveReset, ReceiveResponse
  <2>2. CASE i = j
    <3>1. frame'[inflight[i].client].err = err
      BY <1>0, <2>1, <2>2, HandlerReports
    <3> QED BY <3>1 DEF Stays
  <2>3. CASE i # j
    BY <1>0, <2>1, <2>3, OthersStayInflight
  <2> QED BY <2>2, <2>3
<1>6. CASE ReceiveAck
  <2>1. PICK j \in DOMAIN inflight : inflight' = [inflight EXCEPT ![j].retransmit = FALSE]
    BY <1>6 DEF ReceiveAck
  <2>2. i \in DOMAIN inflight'
    BY <2>1
  <2>3. CASE i = j
    <3>1. inflight'[i] = [inflight[i] EXCEPT !.retransmit = FALSE]
      BY <2>1, <2>3
    <3>2. inflight'[i] = inflight[i]
      BY <1>0, <3>1, MarkAgain
    <3> QED BY <2>2, <3>2 DEF Stays
  <2>4. CASE i # j
    <3>1. inflight'[i] = inflight[i]
      BY <1>0, <2>1, <2>4
    <3> QED BY <2>2, <3>1 DEF Stays
  <2> QED BY <2>3, <2>4
<1>7. CASE \E c \in Clients : Post(c) \/ PostNoMemory(c) \/ Return(c)
  BY <1>1, <1>7 DEF Post, PostNoMemory, Return
<1>8. CASE Loop \/ PollReady \/ PollExpire \/ TransmitNoMemory \/ ReceivePost
             \/ ReceiveBadRequest \/ ReceiveUnmatched
  BY <1>1, <1>8 DEF Loop, PollReady, PollExpire, TransmitNoMemory, ReceivePost,
     ReceiveBadRequest, ReceiveUnmatched
<1>9. CASE \E p \in Replies \cup PeerMessages : Receive(p)
  BY <1>1, <1>9 DEF Receive
<1>10. CASE ReceiverReturns \/ Tick \/ UNCHANGED vars
  BY <1>1, <1>10 DEF ReceiverReturns, Tick, vars
<1> QED
  BY <1>2, <1>3, <1>4, <1>5, <1>6, <1>7, <1>8, <1>9, <1>10 DEF Next, TxRx, Serve

\* An acknowledged POST keeps its entry, unchanged, until a response or a reset ends its
\* call (coap.c:138, 272).
THEOREM AcknowledgedIsKept == Spec => AcknowledgedStays
<1>1. IInv /\ [Next]_vars =>
        [ \A i \in DOMAIN inflight :
            ~ inflight[i].retransmit =>
               \/ \E j \in DOMAIN inflight' : inflight'[j] = inflight[i]
               \/ frame'[inflight[i].client].err \in {"ok", "ECANCELED"} ]_vars
  BY AcknowledgedStep DEF Stays
<1> QED BY <1>1, Invariant, PTL DEF Spec, AcknowledgedStays

-----------------------------------------------------------------------------
(* Whose response a POST returns.                                          *)

\* Client c's call has been given a response with another token than its own.
Misdelivered(c) == frame[c].err = "ok" /\ frame[c].tok # frame[c].post /\ frame[c].sem = 1

\* The message id of POST `post` is also the peer's or of one of the `others`.
Collides(post, others) ==
  \/ IdOf(post) \in PeerIds
  \/ \E k \in others : k # post /\ k % IdSpace = post % IdSpace

\* A collision does not go away.
LEMMA CollisionStays ==
  ASSUME sent \subseteq sent', NEW post, Collides(post, sent)
  PROVE  Collides(post, sent')
  BY DEF Collides

\* A response that matches a POST by its id alone carries the id of another POST that
\* was sent, or one that the peer picked.
LEMMA MatchByIdCollides ==
  ASSUME NEW p \in Replies \cup PeerMessages, is_response(p), NEW e, Matches(e, p),
         p.tok # e.post
  PROVE  Collides(e.post, sent)
<1>1. p.id = IdOf(e.post)
  BY DEF Matches
<1>2. p \in Replies
  BY ConstantsAssumption DEF PeerMessages, is_response, AllRequestKinds
<1>3. (p.tok \in sent /\ p.id = IdOf(p.tok)) \/ p.id \in PeerIds
  BY <1>2 DEF Replies, is_response
<1> QED BY <1>1, <1>3 DEF Collides, IdOf

\* One step delivers a wrong response to a colliding POST only.
LEMMA MisdeliveryStep ==
  ASSUME IInv, FromNetwork, [Next]_vars, MisdeliveryNeedsCollision,
         NEW c \in Clients, Misdelivered(c)'
  PROVE  Collides(frame'[c].post, sent')
<1>0. TypeOK /\ CallsOwned /\ sent \subseteq sent'
  BY FifoSteps DEF IInv
<1>1. CASE frame'[c] = frame[c]
  <2>1. Misdelivered(c)
    BY <1>1 DEF Misdelivered
  <2>2. Collides(frame[c].post, sent)
    BY <2>1 DEF MisdeliveryNeedsCollision, Misdelivered, Collides
  <2> QED BY <1>0, <1>1, <2>2, CollisionStays
<1>2. CASE \E d \in Clients : Post(d) \/ PostNoMemory(d) \/ Return(d)
  <2>1. PICK d \in Clients : Post(d) \/ PostNoMemory(d) \/ Return(d)
    BY <1>2
  <2>2. frame'[d].sem = 0
    BY <1>0, <2>1 DEF Post, PostNoMemory, Return, TypeOK
  <2>3. c # d
    BY <2>2 DEF Misdelivered
  <2>4. frame'[c] = frame[c]
    BY <1>0, <2>1, <2>3 DEF Post, PostNoMemory, Return, TypeOK
  <2> QED BY <1>1, <2>4
<1>3. ASSUME NEW d \in Clients, NEW err, err # "ok", NEW tok, post_handler(d, err, tok)
      PROVE  Collides(frame'[c].post, sent')
  <2>1. c # d
    BY <1>0, <1>3, HandlerReports DEF Misdelivered
  <2> QED BY <1>0, <1>1, <1>3, <2>1, HandlerFacts
<1>4. CASE GiveUp \/ TransmitNoMemory \/ ReceiveReset
  <2>1. PICK d \in Clients, err \in {"EAGAIN", "ENOMEM", "ECANCELED"} : post_handler(d, err, NoToken)
    <3>1. CASE GiveUp
      BY <1>0, <3>1, EntryTypes DEF GiveUp, IInv, RetransmitsDuePacket
    <3>2. CASE TransmitNoMemory
      BY <1>0, <3>2, TakeTxFacts DEF TransmitNoMemory
    <3>3. CASE ReceiveReset
      BY <1>0, <3>3, EntryTypes DEF ReceiveReset
    <3> QED BY <1>4, <3>1, <3>2, <3>3
  <2> QED BY <1>3, <2>1
<1>5. CASE ReceiveResponse
  <2> DEFINE p == Head(rx_fifo)
  <2>1. PICK i \in DOMAIN inflight :
          /\ Matches(inflight[i], p)
          /\ post_handler(inflight[i].client, "ok", p.tok)
    BY <1>5 DEF ReceiveResponse, get_inflight_packet
  <2>2. p \in Replies \cup PeerMessages /\ is_response(p)
    BY <1>0, <1>5, HeadFromNetwork DEF ReceiveResponse, TakeRx
  <2>3. inflight[i].client \in Clients
    BY <1>0, EntryTypes
  <2> HIDE DEF p
  <2>4. CASE c = inflight[i].client
    <3>1. frame'[c].tok = p.tok /\ frame'[c].post = frame[c].post
      BY <1>0, <2>1, <2>3, <2>4, HandlerReports
    <3>2. frame[c].post = inflight[i].post
      BY <1>0, <2>4 DEF CallsOwned, Live
    <3>3. Collides(inflight[i].post, sent)
      BY <2>1, <2>2, <3>1, <3>2, MatchByIdCollides DEF Misdelivered
    <3> QED BY <1>0, <3>1, <3>2, <3>3, CollisionStays
  <2>5. CASE c # inflight[i].client
    BY <1>0, <1>1, <2>1, <2>3, <2>5, HandlerFacts
  <2> QED BY <2>4, <2>5
<1>6. CASE Loop \/ PollReady \/ PollExpire \/ Resend \/ Transmit \/ ReceivePost
             \/ ReceiveBadRequest \/ ReceiveUnmatched \/ ReceiveAck
  BY <1>1, <1>6 DEF Loop, PollReady, PollExpire, Resend, Transmit, ReceivePost,
     ReceiveBadRequest, ReceiveUnmatched, ReceiveAck
<1>7. CASE \E q \in Replies \cup PeerMessages : Receive(q)
  BY <1>1, <1>7 DEF Receive
<1>8. CASE ReceiverReturns \/ Tick \/ UNCHANGED vars
  BY <1>1, <1>8 DEF ReceiverReturns, Tick, vars
<1> QED
  BY <1>2, <1>4, <1>5, <1>6, <1>7, <1>8 DEF Next, TxRx, Serve

\* A POST returns another POST's response only if its message id is in use twice
\* (coap.c:159, 171).
THEOREM MisdeliveryIsCollision == Spec => []MisdeliveryNeedsCollision
<1>1. Init => MisdeliveryNeedsCollision
  BY DEF Init, MisdeliveryNeedsCollision
<1>2. IInv /\ FromNetwork /\ [Next]_vars /\ MisdeliveryNeedsCollision
        => MisdeliveryNeedsCollision'
  <2> SUFFICES ASSUME IInv, FromNetwork, [Next]_vars, MisdeliveryNeedsCollision,
                      NEW c \in Clients, Misdelivered(c)'
               PROVE  Collides(frame'[c].post, sent')
    BY DEF MisdeliveryNeedsCollision, Misdelivered, Collides
  <2> QED BY MisdeliveryStep
<1> QED BY <1>1, <1>2, Invariant, FifoInvariant, PTL DEF Spec

=============================================================================
