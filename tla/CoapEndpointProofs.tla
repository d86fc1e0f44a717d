------------------------- MODULE CoapEndpointProofs -------------------------
(***************************************************************************)
(* The invariants of CoapEndpoint hold for every set of clients and peers, *)
(* every number of retransmissions and every bound.  The inductive         *)
(* invariant IInv is proved in three parts: types, ownership of calls and  *)
(* buffers, and the validity of `retransmission` and of the poll events.   *)
(***************************************************************************)
EXTENDS CoapEndpoint, TLAPS

-----------------------------------------------------------------------------
(* Lemmas about sequences and packets.                                     *)

\* Message ids stay below the size of the id space.
LEMMA IdInRange == \A k \in Nat : IdOf(k) \in 0 .. IdSpace - 1
  BY ConstantsAssumption DEF IdOf

\* What is left of a FIFO whose head was taken.
LEMMA TailFacts ==
  ASSUME NEW S, NEW q \in Seq(S), q # << >>
  PROVE  /\ Head(q) \in S /\ Head(q) = q[1] /\ 1 \in DOMAIN q
         /\ Tail(q) \in Seq(S)
         /\ DOMAIN Tail(q) = 1 .. Len(q) - 1
         /\ \A i \in 1 .. Len(q) - 1 : Tail(q)[i] = q[i + 1] /\ i + 1 \in DOMAIN q
         /\ \A i \in DOMAIN q : i = 1 \/ (i - 1 \in 1 .. Len(q) - 1 /\ q[i] = Tail(q)[i - 1])
  OBVIOUS

\* What is queued behind the packets of a FIFO.
LEMMA AppendFacts ==
  ASSUME NEW S, NEW q \in Seq(S), NEW e \in S
  PROVE  /\ Append(q, e) \in Seq(S)
         /\ DOMAIN Append(q, e) = 1 .. Len(q) + 1
         /\ DOMAIN q = 1 .. Len(q) /\ Len(q) \in Nat
         /\ Append(q, e)[Len(q) + 1] = e
         /\ \A i \in DOMAIN q : Append(q, e)[i] = q[i] /\ i \in 1 .. Len(q) + 1 /\ i # Len(q) + 1
         /\ \A i \in 1 .. Len(q) + 1 : i \in DOMAIN q \/ i = Len(q) + 1
  OBVIOUS

\* free_inflight_packet keeps every other entry, once, and nothing else.
LEMMA FreeFacts ==
  ASSUME NEW S, NEW q \in Seq(S), NEW i \in DOMAIN q,
         NEW r, r = [j \in 1 .. Len(q) - 1 |-> IF j = i THEN q[Len(q)] ELSE q[j]]
  PROVE  /\ r \in Seq(S)
         /\ DOMAIN r = 1 .. Len(q) - 1
         /\ \A j \in DOMAIN r :
              \/ j = i /\ r[j] = q[Len(q)] /\ Len(q) \in DOMAIN q /\ Len(q) # i
              \/ j # i /\ r[j] = q[j] /\ j \in DOMAIN q /\ j # Len(q)
         /\ \A j \in DOMAIN q : j = i \/ \E m \in DOMAIN r : r[m] = q[j]
<1>1. Len(q) \in Nat \ {0} /\ DOMAIN q = 1 .. Len(q) /\ \A j \in 1 .. Len(q) : q[j] \in S
  OBVIOUS
<1>2. /\ DOMAIN r = 1 .. Len(q) - 1
      /\ \A j \in 1 .. Len(q) - 1 : r[j] = IF j = i THEN q[Len(q)] ELSE q[j]
  OBVIOUS
<1>3. r \in Seq(S)
  <2>1. r \in [1 .. Len(q) - 1 -> S] /\ Len(q) - 1 \in Nat
    <3>1. \A j \in 1 .. Len(q) - 1 : r[j] \in S
      BY <1>1, <1>2
    <3>. QED  BY <1>1, <3>1
  <2>. QED  BY <2>1
<1>4. ASSUME NEW j \in DOMAIN r
      PROVE  \/ j = i /\ r[j] = q[Len(q)] /\ Len(q) \in DOMAIN q /\ Len(q) # i
             \/ j # i /\ r[j] = q[j] /\ j \in DOMAIN q /\ j # Len(q)
  <2>1. j \in 1 .. Len(q) - 1 /\ j \in 1 .. Len(q) /\ j # Len(q)
    <3>1. j \in 1 .. Len(q) - 1
      BY <1>2
    <3>2. Len(q) \in Nat
      BY <1>1
    <3>. QED  BY <3>1, <3>2
  <2>2. CASE j = i
    BY <1>1, <1>2, <2>1, <2>2
  <2>3. CASE j # i
    BY <1>1, <1>2, <2>1, <2>3
  <2>. QED  BY <2>2, <2>3
<1>5. ASSUME NEW j \in DOMAIN q, j # i
      PROVE  \E m \in DOMAIN r : r[m] = q[j]
  <2>1. CASE j = Len(q)
    <3>1. i \in DOMAIN r /\ r[i] = q[j]
      BY <1>1, <1>2, <1>5, <2>1
    <3>. QED  BY <3>1
  <2>2. CASE j # Len(q)
    <3>1. j \in DOMAIN r /\ r[j] = q[j]
      BY <1>1, <1>2, <1>5, <2>2
    <3>. QED  BY <3>1
  <2>. QED  BY <2>1, <2>2
<1>. QED  BY <1>2, <1>3, <1>4, <1>5

\* Every datagram that can arrive parses to a packet.
LEMMA DatagramsArePackets ==
  ASSUME TypeOK
  PROVE  Replies \cup PeerMessages \subseteq Packet
<1>. USE ConstantsAssumption DEF NoToken
<1>1. \A k \in sent : IdOf(k) \in 0 .. IdSpace - 1 /\ k \in 0 .. MaxPosts
  BY IdInRange DEF TypeOK, PostIds
<1>2. Replies \subseteq Packet
  BY <1>1 DEF Replies, Packet
<1>3. ASSUME NEW a \in Peers, NEW t \in {"CON", "NON", "ACK", "RST"}, NEW i \in PeerIds,
             NEW m \in RequestKinds \cup {"EMPTY"}
      PROVE  [addr |-> a, type |-> t, code |-> m, id |-> i, tok |-> NoToken] \in Packet
  <2>1. i \in 0 .. IdSpace - 1 /\ 0 \in 0 .. MaxPosts
    OBVIOUS
  <2>2. m \in AllRequestKinds \cup {"EMPTY", "RESPONSE"}
    OBVIOUS
  <2>. QED  BY <2>1, <2>2 DEF Packet
<1>4. PeerMessages \subseteq Packet
  BY <1>3 DEF PeerMessages
<1>. QED  BY <1>2, <1>4

\* The replies the endpoint sends are well formed.
LEMMA AnswersAreReplies ==
  ASSUME NEW p \in Packet
  PROVE  /\ \A code \in ErrorCodes \cup {"CREATED"} : coap_endpoint_respond(p, code) \in Reply
         /\ \A type \in {"ACK", "RST"} : EmptyReply(p, type) \in Reply
         /\ coap_endpoint_acknowledge(p) \subseteq Reply
         /\ Rejection(p) \subseteq Reply
  BY ConstantsAssumption DEF Packet, Reply, ErrorCodes, coap_endpoint_respond, EmptyReply,
     coap_endpoint_acknowledge, Rejection, NoToken

\* Storing a result keeps the frames well formed.
LEMMA HandlerKeepsFrames ==
  ASSUME TypeOK, NEW c \in Clients, NEW err \in Results, NEW tok \in 0 .. MaxPosts,
         post_handler(c, err, tok)
  PROVE  frame' \in [Clients -> [post : 0 .. MaxPosts, sem : 0 .. 1, err : Results,
                                 tok : 0 .. MaxPosts]]
<1>. DEFINE Frame == [post : 0 .. MaxPosts, sem : 0 .. 1, err : Results, tok : 0 .. MaxPosts]
            f == [post |-> frame[c].post, sem |-> 1, err |-> err, tok |-> tok]
<1>1. frame \in [Clients -> Frame] /\ f \in Frame
  BY DEF TypeOK
<1>2. frame' = [frame EXCEPT ![c] = f]
  BY DEF post_handler
<1>. HIDE DEF Frame, f
<1>3. frame' \in [Clients -> Frame]
  BY <1>1, <1>2
<1>. QED  BY <1>3 DEF Frame

-----------------------------------------------------------------------------
(* Types.                                                                  *)

\* What is in a sequence is of its type.
LEMMA SeqElement ==
  ASSUME NEW S, NEW q \in Seq(S), NEW i \in DOMAIN q
  PROVE  q[i] \in S
  OBVIOUS

\* The fields of a queued packet.
LEMMA QueuedTypes ==
  ASSUME TypeOK, NEW i \in DOMAIN tx_fifo
  PROVE  tx_fifo[i].post \in PostIds /\ tx_fifo[i].client \in Clients
<1>1. tx_fifo \in Seq([post : PostIds, client : Clients])
  BY DEF TypeOK
<1>2. tx_fifo[i] \in [post : PostIds, client : Clients]
  BY <1>1, SeqElement
<1>. QED  BY <1>2

\* The fields of an inflight packet.
LEMMA EntryTypes ==
  ASSUME TypeOK, NEW i \in DOMAIN inflight
  PROVE  /\ inflight[i] \in Inflight
         /\ inflight[i].client \in Clients /\ inflight[i].post \in PostIds
         /\ inflight[i].deadline \in Nat
<1>1. inflight \in Seq(Inflight)
  BY DEF TypeOK
<1>2. inflight[i] \in Inflight
  BY <1>1
<1>. QED  BY <1>2 DEF Inflight

\* Doubling the timeout of a packet that may still be sent again.
LEMMA PostponedTypes ==
  ASSUME NEW e \in Inflight, e.count < MaxRetransmit
  PROVE  Postponed(e) \in Inflight
<1>. DEFINE e1 == [e EXCEPT !.count = e.count + 1]
            e2 == [e1 EXCEPT !.timeout = 2 * e.timeout]
            e3 == [e2 EXCEPT !.deadline = e.deadline + 2 * e.timeout]
<1>1. e.count + 1 \in 0 .. MaxRetransmit /\ e.timeout \in Nat /\ e.deadline \in Nat
  BY ConstantsAssumption DEF Inflight
<1>2. 2 * e.timeout \in Nat /\ e.deadline + 2 * e.timeout \in Nat
  BY <1>1
<1>3. e1 \in Inflight
  BY <1>1 DEF Inflight
<1>4. e2 \in Inflight
  <2>. HIDE DEF e1
  <2>. QED  BY <1>2, <1>3 DEF Inflight
<1>5. e3 \in Inflight
  <2>. HIDE DEF e2
  <2>. QED  BY <1>2, <1>4 DEF Inflight
<1>6. Postponed(e) = e3
  BY DEF Postponed
<1>. QED  BY <1>5, <1>6

\* The types of the inflight array when one entry leaves it.
LEMMA FreeKeepsTypes ==
  ASSUME TypeOK, NEW i \in DOMAIN inflight, free_inflight_packet(i)
  PROVE  inflight' \in Seq(Inflight)
<1>1. inflight \in Seq(Inflight)
  BY DEF TypeOK
<1>. QED  BY <1>1, FreeFacts DEF free_inflight_packet

\* The types of what the taking of a packet changes.
LEMMA TakeKeepsTypes ==
  ASSUME TypeOK, TakeTx \/ TakeRx
  PROVE  /\ tx_fifo' \in Seq([post : PostIds, client : Clients]) /\ rx_fifo' \in Seq(Packet)
         /\ TakeTx => Head(tx_fifo) \in [post : PostIds, client : Clients]
         /\ TakeRx => Head(rx_fifo) \in Packet
         /\ events' \subseteq {"tx", "rx"}
         /\ next' \in Nat /\ wake' \in Nat \cup {K_FOREVER}
         /\ receiver' \in {"receiving", "returned"}
         /\ now' \in Nat /\ posts' \in 0 .. MaxPosts /\ arrivals' \in 0 .. MaxDatagrams
<1>1. /\ tx_fifo \in Seq([post : PostIds, client : Clients]) /\ rx_fifo \in Seq(Packet)
      /\ events \subseteq {"tx", "rx"}
  BY DEF TypeOK
<1>2. CASE TakeTx
  <2>1. tx_fifo # << >> /\ tx_fifo' = Tail(tx_fifo) /\ rx_fifo' = rx_fifo
    BY <1>2 DEF TakeTx
  <2>2. /\ tx_fifo' \in Seq([post : PostIds, client : Clients])
        /\ Head(tx_fifo) \in [post : PostIds, client : Clients]
    BY <1>1, <2>1, TailFacts
  <2>3. ~ TakeRx
    BY <1>2 DEF TakeTx, TakeRx
  <2>. QED  BY <1>1, <1>2, <2>1, <2>2, <2>3 DEF TakeTx, NotReady, TypeOK
<1>3. CASE TakeRx
  <2>1. rx_fifo # << >> /\ rx_fifo' = Tail(rx_fifo) /\ tx_fifo' = tx_fifo
    BY <1>3 DEF TakeRx
  <2>2. rx_fifo' \in Seq(Packet) /\ Head(rx_fifo) \in Packet
    BY <1>1, <2>1, TailFacts
  <2>3. ~ TakeTx
    BY <1>3 DEF TakeTx, TakeRx
  <2>. QED  BY <1>1, <1>3, <2>1, <2>2, <2>3 DEF TakeRx, NotReady, TypeOK
<1>. QED  BY <1>2, <1>3

\* Every step keeps the types, because `retransmission` is valid when it is used.
LEMMA TypeStep ==
  ASSUME IInv, [Next]_vars
  PROVE  TypeOK'
<1>. USE ConstantsAssumption DEF PostIds, NoToken, K_FOREVER
<1>1. TypeOK /\ RetransmitsDuePacket
  BY DEF IInv
<1>2. ASSUME NEW c \in Clients, Post(c)  PROVE TypeOK'
  <2>1. posts + 1 \in PostIds
    BY <1>1, <1>2 DEF TypeOK, Post
  <2>2. tx_fifo' \in Seq([post : PostIds, client : Clients])
    BY <1>1, <1>2, <2>1, AppendFacts DEF TypeOK, Post
  <2>3. frame' \in [Clients -> [post : 0 .. MaxPosts, sem : 0 .. 1, err : Results,
                                tok : 0 .. MaxPosts]]
    BY <1>1, <1>2, <2>1 DEF TypeOK, Post, Results
  <2>. QED  BY <1>1, <1>2, <2>1, <2>2, <2>3 DEF TypeOK, Post
<1>3. ASSUME NEW c \in Clients, PostNoMemory(c)  PROVE TypeOK'
  <2>1. frame' \in [Clients -> [post : 0 .. MaxPosts, sem : 0 .. 1, err : Results,
                                tok : 0 .. MaxPosts]]
    BY <1>1, <1>3 DEF TypeOK, PostNoMemory, Results
  <2>. QED  BY <1>1, <1>3, <2>1 DEF TypeOK, PostNoMemory
<1>4. ASSUME NEW c \in Clients, Return(c)  PROVE TypeOK'
  <2>1. frame' \in [Clients -> [post : 0 .. MaxPosts, sem : 0 .. 1, err : Results,
                                tok : 0 .. MaxPosts]]
    BY <1>1, <1>4 DEF TypeOK, Return
  <2>. QED  BY <1>1, <1>4, <2>1 DEF TypeOK, Return
<1>5. CASE Loop
  <2>1. /\ inflight \in Seq(Inflight) /\ now \in Nat
        /\ \A n \in DOMAIN inflight : inflight[n].deadline \in Nat
    BY <1>1, EntryTypes DEF TypeOK
  <2>2. PICK n \in 0 .. Len(inflight) :
          /\ next' = n /\ next_retransmission(n)
          /\ LET timeout == IF n = 0 THEN K_FOREVER ELSE inflight[n].deadline - now
             IN  wake' = IF timeout = K_FOREVER THEN K_FOREVER
                         ELSE now + (IF timeout < 0 THEN 0 ELSE timeout)
    BY <1>5 DEF Loop
  <2>3. next' \in Nat
    BY <2>1, <2>2
  <2>4. wake' \in Nat \cup {K_FOREVER}
    <3>1. CASE n = 0
      BY <2>2, <3>1
    <3>2. CASE n # 0
      <4>1. inflight[n].deadline \in Nat
        BY <2>1, <3>2
      <4>. QED  BY <2>1, <2>2, <3>2, <4>1
    <3>. QED  BY <3>1, <3>2
  <2>. QED  BY <1>1, <1>5, <2>3, <2>4 DEF TypeOK, Loop
<1>6. CASE PollReady
  BY <1>1, <1>6 DEF TypeOK, PollReady
<1>7. CASE PollExpire
  BY <1>1, <1>7 DEF TypeOK, PollExpire
<1>8. CASE Resend
  <2>1. next \in DOMAIN inflight /\ inflight[next] \in Inflight /\ inflight \in Seq(Inflight)
    BY <1>1, <1>8 DEF TypeOK, Resend, RetransmitsDuePacket
  <2>2. Postponed(inflight[next]) \in Inflight
    BY <1>8, <2>1, PostponedTypes DEF Resend, MayResend
  <2>3. inflight' = [inflight EXCEPT ![next] = Postponed(inflight[next])]
    BY <1>8 DEF Resend
  <2>4. inflight' \in Seq(Inflight)
    BY <2>1, <2>2, <2>3
  <2>5. sent' \subseteq PostIds
    BY <1>1, <1>8, <2>1 DEF TypeOK, Resend, Inflight
  <2>. QED  BY <1>1, <1>8, <2>4, <2>5 DEF TypeOK, Resend
<1>9. CASE GiveUp
  <2>1. next \in DOMAIN inflight /\ inflight[next] \in Inflight
    BY <1>1, <1>9 DEF TypeOK, GiveUp, RetransmitsDuePacket
  <2>2. inflight' \in Seq(Inflight)
    BY <1>1, <1>9, <2>1, FreeKeepsTypes DEF GiveUp
  <2>3. frame' \in [Clients -> [post : 0 .. MaxPosts, sem : 0 .. 1, err : Results,
                                tok : 0 .. MaxPosts]]
    BY <1>1, <1>9, <2>1, HandlerKeepsFrames DEF GiveUp, Inflight, Results
  <2>. QED  BY <1>1, <1>9, <2>2, <2>3 DEF TypeOK, GiveUp
<1>10. CASE Transmit
  <2>1. Head(tx_fifo) \in [post : PostIds, client : Clients]
    BY <1>1, <1>10, TakeKeepsTypes DEF Transmit
  <2>2. PICK t \in InitialTimeouts :
          inflight' = Append(inflight,
                        [post |-> Head(tx_fifo).post, client |-> Head(tx_fifo).client,
                         retransmit |-> TRUE, count |-> 0, timeout |-> t, deadline |-> now + t])
    BY <1>10 DEF Transmit
  <2>3. inflight' \in Seq(Inflight)
    <3>. DEFINE e == [post |-> Head(tx_fifo).post, client |-> Head(tx_fifo).client,
                      retransmit |-> TRUE, count |-> 0, timeout |-> t, deadline |-> now + t]
    <3>1. e \in Inflight
      <4>1. Head(tx_fifo).post \in PostIds /\ Head(tx_fifo).client \in Clients
        BY <2>1
      <4>2. t \in Nat /\ now + t \in Nat /\ 0 \in 0 .. MaxRetransmit
        <5>1. now \in Nat
          BY <1>1 DEF TypeOK
        <5>. QED  BY <5>1
      <4>. HIDE DEF PostIds
      <4>. QED  BY <4>1, <4>2 DEF Inflight
    <3>. HIDE DEF e
    <3>2. inflight \in Seq(Inflight)
      BY <1>1 DEF TypeOK
    <3>3. Append(inflight, e) \in Seq(Inflight)
      BY <3>1, <3>2, AppendFacts
    <3>. QED  BY <2>2, <3>3 DEF e
  <2>. QED  BY <1>1, <1>10, <2>1, <2>3, TakeKeepsTypes DEF TypeOK, Transmit, TakeTx
<1>11. CASE TransmitNoMemory
  <2>1. Head(tx_fifo) \in [post : PostIds, client : Clients]
    BY <1>1, <1>11, TakeKeepsTypes DEF TransmitNoMemory
  <2>2. frame' \in [Clients -> [post : 0 .. MaxPosts, sem : 0 .. 1, err : Results,
                                tok : 0 .. MaxPosts]]
    BY <1>1, <1>11, <2>1, HandlerKeepsFrames DEF TransmitNoMemory, Results
  <2>. QED  BY <1>1, <1>11, <2>2, TakeKeepsTypes DEF TypeOK, TransmitNoMemory, TakeTx
<1>12. CASE ReceivePost
  <2>1. out' \subseteq Reply
    BY <1>1, <1>12, TakeKeepsTypes, AnswersAreReplies DEF ReceivePost
  <2>. QED  BY <1>1, <1>12, <2>1, TakeKeepsTypes DEF TypeOK, ReceivePost, TakeRx
<1>13. CASE ReceiveBadRequest
  <2>1. out' \subseteq Reply
    BY <1>1, <1>13, TakeKeepsTypes, AnswersAreReplies DEF ReceiveBadRequest
  <2>. QED  BY <1>1, <1>13, <2>1, TakeKeepsTypes DEF TypeOK, ReceiveBadRequest, TakeRx
<1>14. CASE ReceiveReset
  <2>1. PICK i \in DOMAIN inflight : /\ post_handler(inflight[i].client, "ECANCELED", NoToken)
                                     /\ free_inflight_packet(i)
                                     /\ data' = data \ {inflight[i].post}
    BY <1>14 DEF ReceiveReset
  <2>2. inflight' \in Seq(Inflight)
    BY <1>1, <2>1, FreeKeepsTypes
  <2>3. frame' \in [Clients -> [post : 0 .. MaxPosts, sem : 0 .. 1, err : Results,
                                tok : 0 .. MaxPosts]]
    <3>1. inflight[i].client \in Clients
      BY <1>1, EntryTypes
    <3>. QED  BY <1>1, <2>1, <3>1, HandlerKeepsFrames DEF Results
  <2>. QED  BY <1>1, <1>14, <2>1, <2>2, <2>3, TakeKeepsTypes DEF TypeOK, ReceiveReset, TakeRx
<1>15. CASE ReceiveResponse
  <2>1. PICK i \in DOMAIN inflight : /\ post_handler(inflight[i].client, "ok", Head(rx_fifo).tok)
                                     /\ free_inflight_packet(i)
                                     /\ data' = data \ {inflight[i].post}
    BY <1>15 DEF ReceiveResponse
  <2>2. inflight' \in Seq(Inflight)
    BY <1>1, <2>1, FreeKeepsTypes
  <2>3. Head(rx_fifo) \in Packet
    BY <1>1, <1>15, TakeKeepsTypes DEF ReceiveResponse
  <2>4. frame' \in [Clients -> [post : 0 .. MaxPosts, sem : 0 .. 1, err : Results,
                                tok : 0 .. MaxPosts]]
    <3>1. inflight[i].client \in Clients
      BY <1>1, EntryTypes
    <3>2. Head(rx_fifo).tok \in 0 .. MaxPosts
      BY <2>3 DEF Packet
    <3>. QED  BY <1>1, <2>1, <3>1, <3>2, HandlerKeepsFrames DEF Results
  <2>5. out' \subseteq Reply
    BY <1>15, <2>3, AnswersAreReplies DEF ReceiveResponse
  <2>. QED  BY <1>1, <1>15, <2>1, <2>2, <2>4, <2>5, TakeKeepsTypes
            DEF TypeOK, ReceiveResponse, TakeRx
<1>16. CASE ReceiveAck
  <2>1. PICK i \in DOMAIN inflight : inflight' = [inflight EXCEPT ![i].retransmit = FALSE]
    BY <1>16 DEF ReceiveAck
  <2>2. inflight \in Seq(Inflight) /\ inflight[i] \in Inflight
    BY <1>1, <2>1 DEF TypeOK
  <2>3. [inflight[i] EXCEPT !.retransmit = FALSE] \in Inflight
    BY <2>2 DEF Inflight
  <2>4. inflight' \in Seq(Inflight)
    BY <2>1, <2>2, <2>3
  <2>. QED  BY <1>1, <1>16, <2>4, TakeKeepsTypes DEF TypeOK, ReceiveAck, TakeRx
<1>17. CASE ReceiveUnmatched
  <2>1. out' \subseteq Reply
    BY <1>1, <1>17, TakeKeepsTypes, AnswersAreReplies DEF ReceiveUnmatched
  <2>. QED  BY <1>1, <1>17, <2>1, TakeKeepsTypes DEF TypeOK, ReceiveUnmatched, TakeRx
<1>18. ASSUME NEW p \in Replies \cup PeerMessages, Receive(p)  PROVE TypeOK'
  <2>1. rx_fifo' \in Seq(Packet)
    BY <1>1, <1>18, DatagramsArePackets, AppendFacts DEF TypeOK, Receive
  <2>. QED  BY <1>1, <1>18, <2>1 DEF TypeOK, Receive
<1>19. CASE ReceiverReturns
  BY <1>1, <1>19 DEF TypeOK, ReceiverReturns
<1>20. CASE Tick
  BY <1>1, <1>20 DEF TypeOK, Tick
<1>21. CASE UNCHANGED vars
  BY <1>1, <1>21 DEF TypeOK, vars
<1>. QED
  BY <1>2, <1>3, <1>4, <1>5, <1>6, <1>7, <1>8, <1>9, <1>10, <1>11, <1>12, <1>13, <1>14,
     <1>15, <1>16, <1>17, <1>18, <1>19, <1>20, <1>21 DEF Next, TxRx, Serve

-----------------------------------------------------------------------------
(* Ownership of calls and buffers.                                         *)

Ownership == CallsOwned /\ BuffersOwned /\ PostsDistinct

\* The packets that are held have different clients, because they have different POSTs.
LEMMA ClientsDiffer ==
  ASSUME Ownership
  PROVE  /\ \A i, j \in DOMAIN inflight : inflight[i].client = inflight[j].client => i = j
         /\ \A i, j \in DOMAIN tx_fifo : tx_fifo[i].client = tx_fifo[j].client => i = j
         /\ \A i \in DOMAIN tx_fifo, j \in DOMAIN inflight :
              tx_fifo[i].client # inflight[j].client
  BY DEF Ownership, CallsOwned, BuffersOwned, Live

\* post_handler marks one frame as done and leaves the others alone.
LEMMA HandlerFacts ==
  ASSUME TypeOK, NEW c \in Clients, NEW err, NEW tok, post_handler(c, err, tok)
  PROVE  /\ \A d \in Clients : frame'[d].post = frame[d].post
         /\ \A d \in Clients \ {c} : frame'[d] = frame[d]
         /\ frame'[c].sem = 1
<1>1. frame' = [frame EXCEPT ![c] = [post |-> frame[c].post, sem |-> 1, err |-> err, tok |-> tok]]
  BY DEF post_handler
<1>2. DOMAIN frame = Clients
  BY DEF TypeOK
<1>3. /\ frame'[c] = [post |-> frame[c].post, sem |-> 1, err |-> err, tok |-> tok]
      /\ \A d \in Clients \ {c} : frame'[d] = frame[d]
  BY <1>1, <1>2
<1>. QED  BY <1>3

\* Steps that change neither the calls nor who holds their packets.
LEMMA SameOwnership ==
  ASSUME Ownership, UNCHANGED <<frame, posts, data, tx_fifo>>,
         DOMAIN inflight' = DOMAIN inflight,
         \A i \in DOMAIN inflight : /\ inflight'[i].post = inflight[i].post
                                    /\ inflight'[i].client = inflight[i].client
  PROVE  Ownership'
<1>. USE DEF Ownership
<1>1. CallsOwned'
  BY DEF CallsOwned, Live, Waiting
<1>2. BuffersOwned'
  <2>1. {inflight'[i].post : i \in DOMAIN inflight'} = {inflight[i].post : i \in DOMAIN inflight}
    OBVIOUS
  <2>. QED  BY <2>1 DEF BuffersOwned
<1>3. PostsDistinct'
  BY DEF PostsDistinct
<1>. QED  BY <1>1, <1>2, <1>3

\* A call ends and its packet leaves the inflight array.
LEMMA FinishInflight ==
  ASSUME TypeOK, Ownership, NEW i \in DOMAIN inflight, NEW err, NEW tok,
         post_handler(inflight[i].client, err, tok), free_inflight_packet(i),
         data' = data \ {inflight[i].post}, UNCHANGED <<posts, tx_fifo>>
  PROVE  Ownership'
<1>. DEFINE c == inflight[i].client
<1>1. c \in Clients
  BY EntryTypes
<1>2. /\ \A d \in Clients : frame'[d].post = frame[d].post
      /\ \A d \in Clients \ {c} : frame'[d] = frame[d]
      /\ frame'[c].sem = 1
  BY <1>1, HandlerFacts
<1>3. /\ \A j \in DOMAIN inflight : inflight[j].client \in Clients
      /\ \A j \in DOMAIN inflight : j # i => inflight[j].client # c
      /\ \A j \in DOMAIN tx_fifo : tx_fifo[j].client # c
  BY ClientsDiffer, EntryTypes
<1>4. /\ \A j \in DOMAIN inflight' :
           \/ j = i /\ inflight'[j] = inflight[Len(inflight)]
                /\ Len(inflight) \in DOMAIN inflight /\ Len(inflight) # i
           \/ j # i /\ inflight'[j] = inflight[j] /\ j \in DOMAIN inflight /\ j # Len(inflight)
      /\ \A j \in DOMAIN inflight : j = i \/ \E m \in DOMAIN inflight' : inflight'[m] = inflight[j]
  <2>1. inflight \in Seq(Inflight)
    BY DEF TypeOK
  <2>. QED  BY <2>1, FreeFacts DEF free_inflight_packet
<1>5. \A j \in DOMAIN inflight' : \E m \in DOMAIN inflight \ {i} : inflight'[j] = inflight[m]
  BY <1>4
<1>6. \A j \in DOMAIN tx_fifo : tx_fifo[j].client \in Clients
  BY QueuedTypes
<1>. HIDE DEF c
<1>7. CallsOwned'
  <2>1. ASSUME NEW j \in DOMAIN tx_fifo'  PROVE Live(tx_fifo[j])'
    <3>1. j \in DOMAIN tx_fifo /\ Live(tx_fifo[j]) /\ tx_fifo' = tx_fifo
      BY <2>1 DEF Ownership, CallsOwned
    <3>. QED  BY <1>2, <1>3, <1>6, <3>1 DEF Live, Waiting
  <2>2. ASSUME NEW j \in DOMAIN inflight'  PROVE Live(inflight[j])'
    <3>1. PICK m \in DOMAIN inflight \ {i} : inflight'[j] = inflight[m]
      BY <1>5
    <3>2. Live(inflight[m])
      BY DEF Ownership, CallsOwned
    <3>. QED  BY <1>2, <1>3, <3>1, <3>2 DEF Live, Waiting
  <2>3. ASSUME NEW d \in Clients, Waiting(d)'
        PROVE  \/ \E j \in DOMAIN tx_fifo' : tx_fifo'[j].client = d
               \/ \E j \in DOMAIN inflight' : inflight'[j].client = d
    <3>1. d # c
      BY <1>2, <2>3 DEF Waiting
    <3>2. Waiting(d)
      BY <1>2, <2>3, <3>1 DEF Waiting
    <3>3. CASE \E j \in DOMAIN tx_fifo : tx_fifo[j].client = d
      BY <3>3
    <3>4. CASE \E j \in DOMAIN inflight : inflight[j].client = d
      <4>1. PICK j \in DOMAIN inflight : inflight[j].client = d
        BY <3>4
      <4>2. j # i
        BY <3>1, <4>1 DEF c
      <4>. QED  BY <1>4, <4>1, <4>2
    <3>. QED  BY <3>2, <3>3, <3>4 DEF Ownership, CallsOwned
  <2>. QED  BY <2>1, <2>2, <2>3 DEF CallsOwned
<1>8. BuffersOwned'
  <2>1. BuffersOwned
    BY DEF Ownership
  <2>2. {inflight'[j].post : j \in DOMAIN inflight'}
          = {inflight[j].post : j \in DOMAIN inflight} \ {inflight[i].post}
    <3>1. ASSUME NEW j \in DOMAIN inflight'
          PROVE  inflight'[j].post \in {inflight[m].post : m \in DOMAIN inflight} \ {inflight[i].post}
      BY <1>5, <2>1 DEF BuffersOwned
    <3>2. ASSUME NEW j \in DOMAIN inflight, inflight[j].post # inflight[i].post
          PROVE  \E m \in DOMAIN inflight' : inflight'[m].post = inflight[j].post
      BY <1>4, <3>2
    <3>. QED  BY <3>1, <3>2
  <2>3. data' = {tx_fifo'[j].post : j \in DOMAIN tx_fifo'}
                  \cup {inflight'[j].post : j \in DOMAIN inflight'}
    <3>. DEFINE queued == {tx_fifo[j].post : j \in DOMAIN tx_fifo}
                flying == {inflight[j].post : j \in DOMAIN inflight}
                ended  == inflight[i].post
    <3>1. data = queued \cup flying
      BY <2>1 DEF BuffersOwned
    <3>2. ended \notin queued
      BY <2>1 DEF BuffersOwned
    <3>3. {tx_fifo'[j].post : j \in DOMAIN tx_fifo'} = queued
      OBVIOUS
    <3>4. {inflight'[j].post : j \in DOMAIN inflight'} = flying \ {ended}
      BY <2>2
    <3>5. data' = data \ {ended}
      OBVIOUS
    <3>. HIDE DEF queued, flying, ended
    <3>. QED  BY <3>1, <3>2, <3>3, <3>4, <3>5
  <2>4. ASSUME NEW j \in DOMAIN inflight', NEW k \in DOMAIN inflight',
               inflight'[j].post = inflight'[k].post
        PROVE  j = k
    BY <1>4, <2>1, <2>4 DEF BuffersOwned
  <2>5. ASSUME NEW j \in DOMAIN tx_fifo', NEW k \in DOMAIN inflight'
        PROVE  tx_fifo'[j].post # inflight'[k].post
    BY <1>5, <2>1 DEF BuffersOwned
  <2>6. \A j, k \in DOMAIN tx_fifo' : tx_fifo'[j].post = tx_fifo'[k].post => j = k
    BY <2>1 DEF BuffersOwned
  <2>. QED  BY <2>3, <2>4, <2>5, <2>6 DEF BuffersOwned
<1>9. PostsDistinct'
  BY <1>2 DEF Ownership, PostsDistinct
<1>. QED  BY <1>7, <1>8, <1>9 DEF Ownership

\* A call starts or ends, or fails at once, without a packet: only c's frame changes.
LEMMA FrameOnly ==
  ASSUME TypeOK, Ownership, NEW c \in Clients, ~ Waiting(c), ~ Waiting(c)',
         \A d \in Clients \ {c} : frame'[d] = frame[d],
         frame'[c].post \in {0, frame[c].post},
         UNCHANGED <<posts, data, tx_fifo, inflight>>
  PROVE  Ownership'
<1>1. CallsOwned'
  <2>1. /\ \A i \in DOMAIN tx_fifo : tx_fifo[i].client \in Clients \ {c}
        /\ \A i \in DOMAIN inflight : inflight[i].client \in Clients \ {c}
    BY QueuedTypes, EntryTypes DEF Ownership, CallsOwned, Live
  <2>. QED  BY <2>1 DEF Ownership, CallsOwned, Live, Waiting
<1>2. BuffersOwned'
  BY DEF Ownership, BuffersOwned
<1>3. PostsDistinct'
  <2>1. posts \in Nat
    BY ConstantsAssumption DEF TypeOK
  <2>. QED  BY <2>1 DEF Ownership, PostsDistinct
<1>. QED  BY <1>1, <1>2, <1>3 DEF Ownership

\* coap_endpoint_post hands a new POST and its buffer to the endpoint.
LEMMA PostOwnership ==
  ASSUME TypeOK, Ownership, NEW c \in Clients, Post(c)
  PROVE  Ownership'
<1>. DEFINE item == [post |-> posts + 1, client |-> c]
<1>1. /\ \A d \in Clients \ {c} : frame'[d] = frame[d]
      /\ frame'[c].post = posts + 1 /\ frame'[c].sem = 0
      /\ frame[c].post = 0 /\ posts' = posts + 1 /\ posts \in Nat /\ posts + 1 \in PostIds
  <2>1. DOMAIN frame = Clients
    BY DEF TypeOK
  <2>. QED  BY <2>1, ConstantsAssumption DEF Post, TypeOK, PostIds
<1>2. /\ DOMAIN tx_fifo' = 1 .. Len(tx_fifo) + 1
      /\ tx_fifo'[Len(tx_fifo) + 1] = item
      /\ DOMAIN tx_fifo = 1 .. Len(tx_fifo) /\ Len(tx_fifo) \in Nat
      /\ \A i \in DOMAIN tx_fifo : /\ tx_fifo'[i] = tx_fifo[i] /\ i # Len(tx_fifo) + 1
                                   /\ i \in DOMAIN tx_fifo'
      /\ \A i \in DOMAIN tx_fifo' : i \in DOMAIN tx_fifo \/ i = Len(tx_fifo) + 1
  <2>1. tx_fifo \in Seq([post : PostIds, client : Clients]) /\ tx_fifo' = Append(tx_fifo, item)
    BY DEF TypeOK, Post
  <2>2. item \in [post : PostIds, client : Clients]
    BY <1>1
  <2>. HIDE DEF item
  <2>. QED  BY <2>1, <2>2, AppendFacts
<1>3. /\ \A i \in DOMAIN tx_fifo : /\ tx_fifo[i].client \in Clients \ {c}
                                   /\ tx_fifo[i].post # posts + 1
      /\ \A i \in DOMAIN inflight : /\ inflight[i].client \in Clients \ {c}
                                    /\ inflight[i].post # posts + 1
  <2>1. \A d \in Clients : frame[d].post # posts + 1
    <3>1. \A d \in Clients : frame[d].post \in Nat /\ frame[d].post <= posts
      BY DEF Ownership, PostsDistinct, TypeOK
    <3>. QED  BY <1>1, <3>1
  <2>2. ~ Waiting(c)
    BY <1>1 DEF Waiting
  <2>. QED  BY <2>1, <2>2, QueuedTypes, EntryTypes DEF Ownership, CallsOwned, Live
<1>4. inflight' = inflight /\ data' = data \cup {posts + 1}
  BY DEF Post
<1>5. CallsOwned'
  <2>1. ASSUME NEW i \in DOMAIN tx_fifo'  PROVE Live(tx_fifo[i])'
    BY <1>1, <1>2, <1>3 DEF Ownership, CallsOwned, Live, Waiting
  <2>2. ASSUME NEW i \in DOMAIN inflight'  PROVE Live(inflight[i])'
    BY <1>1, <1>3, <1>4 DEF Ownership, CallsOwned, Live, Waiting
  <2>3. ASSUME NEW d \in Clients, Waiting(d)'
        PROVE  \/ \E i \in DOMAIN tx_fifo' : tx_fifo'[i].client = d
               \/ \E i \in DOMAIN inflight' : inflight'[i].client = d
    <3>1. CASE d = c
      BY <1>2, <3>1
    <3>2. CASE d # c
      <4>1. Waiting(d)
        BY <1>1, <2>3, <3>2 DEF Waiting
      <4>. QED  BY <1>2, <1>4, <4>1 DEF Ownership, CallsOwned
    <3>. QED  BY <3>1, <3>2
  <2>. QED  BY <2>1, <2>2, <2>3 DEF CallsOwned
<1>6. BuffersOwned'
  <2>1. {tx_fifo'[i].post : i \in DOMAIN tx_fifo'}
          = {tx_fifo[i].post : i \in DOMAIN tx_fifo} \cup {posts + 1}
    BY <1>2
  <2>. QED  BY <1>2, <1>3, <1>4, <2>1 DEF Ownership, BuffersOwned
<1>7. PostsDistinct'
  <2>1. \A d \in Clients : frame[d].post \in Nat /\ frame[d].post <= posts
    BY DEF Ownership, PostsDistinct, TypeOK
  <2>. QED  BY <1>1, <2>1 DEF Ownership, PostsDistinct
<1>. QED  BY <1>5, <1>6, <1>7 DEF Ownership

\* The head of tx_fifo and what stays behind it.
LEMMA TakeTxFacts ==
  ASSUME TypeOK, TakeTx
  PROVE  /\ 1 \in DOMAIN tx_fifo /\ Head(tx_fifo) = tx_fifo[1]
         /\ tx_fifo[1].client \in Clients
         /\ \A i \in DOMAIN tx_fifo' : /\ i + 1 \in DOMAIN tx_fifo /\ i + 1 # 1
                                       /\ tx_fifo'[i] = tx_fifo[i + 1]
         /\ \A i \in DOMAIN tx_fifo : i = 1 \/ \E j \in DOMAIN tx_fifo' : tx_fifo'[j] = tx_fifo[i]
         /\ \A i, j \in DOMAIN tx_fifo' : i + 1 = j + 1 => i = j
<1>1. /\ tx_fifo \in Seq([post : PostIds, client : Clients])
      /\ tx_fifo # << >> /\ tx_fifo' = Tail(tx_fifo)
  BY DEF TypeOK, TakeTx
<1>2. 1 \in DOMAIN tx_fifo /\ Head(tx_fifo) = tx_fifo[1]
  BY <1>1, TailFacts
<1>3. /\ DOMAIN tx_fifo' = 1 .. Len(tx_fifo) - 1 /\ Len(tx_fifo) \in Nat
      /\ \A i \in 1 .. Len(tx_fifo) - 1 : tx_fifo'[i] = tx_fifo[i + 1] /\ i + 1 \in DOMAIN tx_fifo
  BY <1>1, TailFacts
<1>4. \A i \in DOMAIN tx_fifo :
        i = 1 \/ (i - 1 \in 1 .. Len(tx_fifo) - 1 /\ tx_fifo[i] = tx_fifo'[i - 1])
  BY <1>1, TailFacts
<1>5. \A i \in DOMAIN tx_fifo' : i \in Nat /\ i + 1 # 1
  BY <1>3
<1>. QED  BY <1>2, <1>3, <1>4, <1>5, QueuedTypes

\* transmit_packet moves the head of tx_fifo to the end of the inflight array.
LEMMA TransmitOwnership ==
  ASSUME TypeOK, Ownership, Transmit
  PROVE  Ownership'
<1>1. /\ TakeTx
      /\ UNCHANGED <<frame, posts, data>>
  BY DEF Transmit, TakeTx
<1>2. /\ DOMAIN inflight' = 1 .. Len(inflight) + 1
      /\ DOMAIN inflight = 1 .. Len(inflight) /\ Len(inflight) \in Nat
      /\ inflight'[Len(inflight) + 1].post = tx_fifo[1].post
      /\ inflight'[Len(inflight) + 1].client = tx_fifo[1].client
      /\ \A i \in DOMAIN inflight : /\ inflight'[i] = inflight[i] /\ i # Len(inflight) + 1
                                    /\ i \in DOMAIN inflight'
      /\ \A i \in DOMAIN inflight' : i \in DOMAIN inflight \/ i = Len(inflight) + 1
  <2>1. PICK t \in InitialTimeouts :
          inflight' = Append(inflight,
                        [post |-> Head(tx_fifo).post, client |-> Head(tx_fifo).client,
                         retransmit |-> TRUE, count |-> 0, timeout |-> t, deadline |-> now + t])
    BY DEF Transmit
  <2>. DEFINE e == [post |-> tx_fifo[1].post, client |-> tx_fifo[1].client,
                    retransmit |-> TRUE, count |-> 0, timeout |-> t, deadline |-> now + t]
  <2>2. inflight' = Append(inflight, e)
    BY <1>1, <2>1, TakeTxFacts
  <2>3. e \in {e} \cup Inflight /\ e.post = tx_fifo[1].post /\ e.client = tx_fifo[1].client
    OBVIOUS
  <2>. HIDE DEF e
  <2>4. inflight \in Seq({e} \cup Inflight)
    BY DEF TypeOK
  <2>. QED  BY <2>2, <2>3, <2>4, AppendFacts
<1>3. /\ 1 \in DOMAIN tx_fifo
      /\ \A i \in DOMAIN tx_fifo' : \E j \in DOMAIN tx_fifo \ {1} : tx_fifo'[i] = tx_fifo[j]
      /\ \A i \in DOMAIN tx_fifo : i = 1 \/ \E j \in DOMAIN tx_fifo' : tx_fifo'[j] = tx_fifo[i]
  BY <1>1, TakeTxFacts
<1>4. CallsOwned'
  <2>1. ASSUME NEW i \in DOMAIN tx_fifo'  PROVE Live(tx_fifo[i])'
    BY <1>1, <1>3 DEF Ownership, CallsOwned, Live, Waiting
  <2>2. ASSUME NEW i \in DOMAIN inflight'  PROVE Live(inflight[i])'
    <3>1. CASE i \in DOMAIN inflight
      BY <1>1, <1>2, <3>1 DEF Ownership, CallsOwned, Live, Waiting
    <3>2. CASE i = Len(inflight) + 1
      <4>1. Live(tx_fifo[1])
        BY <1>3 DEF Ownership, CallsOwned
      <4>. QED  BY <1>1, <1>2, <3>2, <4>1 DEF Live, Waiting
    <3>. QED  BY <1>2, <3>1, <3>2
  <2>3. ASSUME NEW d \in Clients, Waiting(d)'
        PROVE  \/ \E i \in DOMAIN tx_fifo' : tx_fifo'[i].client = d
               \/ \E i \in DOMAIN inflight' : inflight'[i].client = d
    <3>1. Waiting(d)
      BY <1>1, <2>3 DEF Waiting
    <3>2. CASE \E i \in DOMAIN tx_fifo : tx_fifo[i].client = d
      <4>1. PICK i \in DOMAIN tx_fifo : tx_fifo[i].client = d
        BY <3>2
      <4>2. CASE i = 1
        <5>1. Len(inflight) + 1 \in DOMAIN inflight'
          BY <1>2
        <5>. QED  BY <1>2, <4>1, <4>2, <5>1
      <4>3. CASE i # 1
        BY <1>3, <4>1, <4>3
      <4>. QED  BY <4>2, <4>3
    <3>3. CASE \E i \in DOMAIN inflight : inflight[i].client = d
      BY <1>2, <3>3
    <3>. QED  BY <3>1, <3>2, <3>3 DEF Ownership, CallsOwned
  <2>. QED  BY <2>1, <2>2, <2>3 DEF CallsOwned
<1>5. BuffersOwned'
  <2>1. BuffersOwned
    BY DEF Ownership
  <2>2. {tx_fifo[i].post : i \in DOMAIN tx_fifo}
          = {tx_fifo'[i].post : i \in DOMAIN tx_fifo'} \cup {tx_fifo[1].post}
    BY <1>3
  <2>3. {inflight'[i].post : i \in DOMAIN inflight'}
          = {inflight[i].post : i \in DOMAIN inflight} \cup {tx_fifo[1].post}
    <3>1. Len(inflight) + 1 \in DOMAIN inflight'
      BY <1>2
    <3>. QED  BY <1>2, <3>1
  <2>4. data' = {tx_fifo'[i].post : i \in DOMAIN tx_fifo'}
                  \cup {inflight'[i].post : i \in DOMAIN inflight'}
    BY <1>1, <2>1, <2>2, <2>3 DEF BuffersOwned
  <2>5. \A i, j \in DOMAIN tx_fifo' : tx_fifo'[i].post = tx_fifo'[j].post => i = j
    BY <1>1, <2>1, TakeTxFacts DEF BuffersOwned
  <2>6. \A i, j \in DOMAIN inflight' : inflight'[i].post = inflight'[j].post => i = j
    BY <1>2, <1>3, <2>1 DEF BuffersOwned
  <2>7. \A i \in DOMAIN tx_fifo', j \in DOMAIN inflight' : tx_fifo'[i].post # inflight'[j].post
    BY <1>2, <1>3, <2>1 DEF BuffersOwned
  <2>. QED  BY <2>4, <2>5, <2>6, <2>7 DEF BuffersOwned
<1>6. PostsDistinct'
  BY <1>1 DEF Ownership, PostsDistinct
<1>. QED  BY <1>4, <1>5, <1>6 DEF Ownership

\* transmit_packet without memory ends the call and frees its buffer.
LEMMA TransmitNoMemoryOwnership ==
  ASSUME TypeOK, Ownership, TransmitNoMemory
  PROVE  Ownership'
<1>. DEFINE c == tx_fifo[1].client
<1>1. /\ TakeTx
      /\ post_handler(c, "ENOMEM", NoToken)
      /\ data' = data \ {tx_fifo[1].post}
      /\ UNCHANGED <<posts, inflight>>
  <2>1. TakeTx
    BY DEF TransmitNoMemory
  <2>. QED  BY <2>1, TakeTxFacts DEF TransmitNoMemory, TakeTx
<1>2. /\ c \in Clients /\ 1 \in DOMAIN tx_fifo
      /\ \A i \in DOMAIN tx_fifo' : \E j \in DOMAIN tx_fifo \ {1} : tx_fifo'[i] = tx_fifo[j]
      /\ \A i \in DOMAIN tx_fifo : i = 1 \/ \E j \in DOMAIN tx_fifo' : tx_fifo'[j] = tx_fifo[i]
  BY <1>1, TakeTxFacts
<1>3. /\ \A d \in Clients : frame'[d].post = frame[d].post
      /\ \A d \in Clients \ {c} : frame'[d] = frame[d]
      /\ frame'[c].sem = 1
  BY <1>1, <1>2, HandlerFacts
<1>4. /\ \A i \in DOMAIN tx_fifo \ {1} : tx_fifo[i].client \in Clients \ {c}
      /\ \A i \in DOMAIN inflight : inflight[i].client \in Clients \ {c}
  BY <1>2, ClientsDiffer, QueuedTypes, EntryTypes
<1>5. CallsOwned'
  <2>1. ASSUME NEW i \in DOMAIN tx_fifo'  PROVE Live(tx_fifo[i])'
    BY <1>2, <1>3, <1>4 DEF Ownership, CallsOwned, Live, Waiting
  <2>2. ASSUME NEW i \in DOMAIN inflight'  PROVE Live(inflight[i])'
    BY <1>1, <1>3, <1>4 DEF Ownership, CallsOwned, Live, Waiting
  <2>3. ASSUME NEW d \in Clients, Waiting(d)'
        PROVE  \/ \E i \in DOMAIN tx_fifo' : tx_fifo'[i].client = d
               \/ \E i \in DOMAIN inflight' : inflight'[i].client = d
    <3>1. d # c /\ Waiting(d)
      BY <1>3, <2>3 DEF Waiting
    <3>2. CASE \E i \in DOMAIN tx_fifo : tx_fifo[i].client = d
      BY <1>2, <3>1, <3>2
    <3>3. CASE \E i \in DOMAIN inflight : inflight[i].client = d
      BY <1>1, <3>3
    <3>. QED  BY <3>1, <3>2, <3>3 DEF Ownership, CallsOwned
  <2>. QED  BY <2>1, <2>2, <2>3 DEF CallsOwned
<1>6. BuffersOwned'
  <2>1. BuffersOwned
    BY DEF Ownership
  <2>2. {tx_fifo'[i].post : i \in DOMAIN tx_fifo'}
          = {tx_fifo[i].post : i \in DOMAIN tx_fifo} \ {tx_fifo[1].post}
    <3>1. ASSUME NEW i \in DOMAIN tx_fifo'
          PROVE  tx_fifo'[i].post \in {tx_fifo[j].post : j \in DOMAIN tx_fifo} \ {tx_fifo[1].post}
      BY <1>2, <2>1 DEF BuffersOwned
    <3>2. ASSUME NEW i \in DOMAIN tx_fifo, tx_fifo[i].post # tx_fifo[1].post
          PROVE  \E j \in DOMAIN tx_fifo' : tx_fifo'[j].post = tx_fifo[i].post
      BY <1>2, <3>2
    <3>. QED  BY <3>1, <3>2
  <2>3. data' = {tx_fifo'[i].post : i \in DOMAIN tx_fifo'}
                  \cup {inflight'[i].post : i \in DOMAIN inflight'}
    BY <1>1, <1>2, <2>1, <2>2 DEF BuffersOwned
  <2>4. \A i, j \in DOMAIN tx_fifo' : tx_fifo'[i].post = tx_fifo'[j].post => i = j
    BY <1>1, <2>1, TakeTxFacts DEF BuffersOwned
  <2>. QED  BY <1>1, <1>2, <2>1, <2>3, <2>4 DEF BuffersOwned
<1>7. PostsDistinct'
  BY <1>1, <1>3 DEF Ownership, PostsDistinct
<1>. QED  BY <1>5, <1>6, <1>7 DEF Ownership

\* Every step keeps each call with exactly one holder and each buffer with its packet.
LEMMA OwnershipStep ==
  ASSUME IInv, [Next]_vars
  PROVE  Ownership'
<1>1. TypeOK /\ Ownership /\ RetransmitsDuePacket
  BY DEF IInv, Ownership
<1>2. ASSUME NEW c \in Clients, Post(c)  PROVE Ownership'
  BY <1>1, <1>2, PostOwnership
<1>3. ASSUME NEW c \in Clients, PostNoMemory(c) \/ Return(c)  PROVE Ownership'
  <2>1. DOMAIN frame = Clients
    BY <1>1 DEF TypeOK
  <2>2. /\ frame'[c].post = 0
        /\ \A d \in Clients \ {c} : frame'[d] = frame[d]
        /\ frame[c].post = 0 \/ frame[c].sem = 1
    BY <1>3, <2>1 DEF PostNoMemory, Return
  <2>3. UNCHANGED <<posts, data, tx_fifo, inflight>>
    BY <1>3 DEF PostNoMemory, Return
  <2>. QED  BY <1>1, <2>2, <2>3, FrameOnly DEF Waiting
<1>4. CASE Resend
  <2>1. next \in DOMAIN inflight /\ inflight[next] \in Inflight
    BY <1>1, <1>4, EntryTypes DEF Resend, RetransmitsDuePacket
  <2>2. /\ Postponed(inflight[next]).post = inflight[next].post
        /\ Postponed(inflight[next]).client = inflight[next].client
    BY <2>1 DEF Postponed, Inflight
  <2>3. inflight' = [inflight EXCEPT ![next] = Postponed(inflight[next])]
    BY <1>4 DEF Resend
  <2>4. /\ DOMAIN inflight' = DOMAIN inflight
        /\ \A i \in DOMAIN inflight : /\ inflight'[i].post = inflight[i].post
                                      /\ inflight'[i].client = inflight[i].client
    BY <2>1, <2>2, <2>3
  <2>. QED  BY <1>1, <1>4, <2>4, SameOwnership DEF Resend
<1>5. CASE GiveUp
  <2>1. next \in DOMAIN inflight
    BY <1>1, <1>5 DEF GiveUp, RetransmitsDuePacket
  <2>. QED  BY <1>1, <1>5, <2>1, FinishInflight DEF GiveUp
<1>6. CASE Transmit
  BY <1>1, <1>6, TransmitOwnership
<1>7. CASE TransmitNoMemory
  BY <1>1, <1>7, TransmitNoMemoryOwnership
<1>8. CASE ReceiveReset
  <2>1. UNCHANGED <<posts, tx_fifo>>
    BY <1>8 DEF ReceiveReset, TakeRx
  <2>. QED  BY <1>1, <1>8, <2>1, FinishInflight DEF ReceiveReset
<1>9. CASE ReceiveResponse
  <2>1. UNCHANGED <<posts, tx_fifo>>
    BY <1>9 DEF ReceiveResponse, TakeRx
  <2>. QED  BY <1>1, <1>9, <2>1, FinishInflight DEF ReceiveResponse
<1>10. CASE ReceiveAck
  <2>1. UNCHANGED <<frame, posts, data, tx_fifo>>
    BY <1>10 DEF ReceiveAck, TakeRx
  <2>2. PICK i \in DOMAIN inflight : inflight' = [inflight EXCEPT ![i].retransmit = FALSE]
    BY <1>10 DEF ReceiveAck
  <2>3. inflight[i] \in Inflight
    BY <1>1, EntryTypes
  <2>4. /\ DOMAIN inflight' = DOMAIN inflight
        /\ \A j \in DOMAIN inflight : /\ inflight'[j].post = inflight[j].post
                                      /\ inflight'[j].client = inflight[j].client
    BY <2>2, <2>3 DEF Inflight
  <2>. QED  BY <1>1, <2>1, <2>4, SameOwnership
<1>11. ASSUME UNCHANGED <<frame, posts, data, tx_fifo, inflight>>  PROVE Ownership'
  BY <1>1, <1>11, SameOwnership
<1>12. CASE ReceivePost \/ ReceiveBadRequest \/ ReceiveUnmatched
  BY <1>11, <1>12 DEF ReceivePost, ReceiveBadRequest, ReceiveUnmatched, TakeRx
<1>13. CASE Loop \/ PollReady \/ PollExpire \/ ReceiverReturns \/ Tick
  BY <1>11, <1>13 DEF Loop, PollReady, PollExpire, ReceiverReturns, Tick
<1>14. ASSUME NEW p, Receive(p)  PROVE Ownership'
  BY <1>11, <1>14 DEF Receive
<1>15. CASE UNCHANGED vars
  BY <1>11, <1>15 DEF vars
<1>. QED
  BY <1>2, <1>3, <1>4, <1>5, <1>6, <1>7, <1>8, <1>9, <1>10, <1>12, <1>13, <1>14, <1>15
     DEF Next, TxRx, Serve

-----------------------------------------------------------------------------
(* The pointer that survives k_poll, and the events k_poll reports.        *)

Thread == RetransmitsDuePacket /\ TimerCoversDeadline /\ GetNeverBlocks /\ EventsServed

\* Only the transmit/receive thread moves entries of the array, so what it found before
\* k_poll is still there, still unacknowledged and due when k_poll times out.
LEMMA ThreadStep ==
  ASSUME IInv, [Next]_vars
  PROVE  Thread'
<1>. USE DEF Thread, RetransmitsDuePacket, TimerCoversDeadline, GetNeverBlocks, EventsServed
<1>1. TypeOK /\ Thread
  BY DEF IInv
<1>2. /\ inflight \in Seq(Inflight) /\ now \in Nat
      /\ tx_fifo \in Seq([post : PostIds, client : Clients]) /\ rx_fifo \in Seq(Packet)
      /\ events \subseteq {"tx", "rx"}
  BY <1>1 DEF TypeOK
<1>3. ASSUME NEW c \in Clients, Post(c)  PROVE Thread'
  <2>1. UNCHANGED <<rx_fifo, inflight, pc, events, next, wake, now>>
    BY <1>3 DEF Post
  <2>2. tx_fifo' # << >>
    <3>1. tx_fifo' = Append(tx_fifo, [post |-> posts + 1, client |-> c])
      BY <1>3 DEF Post
    <3>. QED  BY <1>2, <3>1
  <2>. QED  BY <1>1, <2>1, <2>2
<1>4. ASSUME NEW p, Receive(p)  PROVE Thread'
  <2>1. UNCHANGED <<tx_fifo, inflight, pc, events, next, wake, now>>
    BY <1>4 DEF Receive
  <2>2. rx_fifo' # << >>
    <3>1. rx_fifo' = Append(rx_fifo, p)
      BY <1>4 DEF Receive
    <3>. QED  BY <1>2, <3>1
  <2>. QED  BY <1>1, <2>1, <2>2
<1>5. CASE Loop
  <2>1. PICK n \in 0 .. Len(inflight) :
          /\ next' = n /\ next_retransmission(n)
          /\ LET timeout == IF n = 0 THEN K_FOREVER ELSE inflight[n].deadline - now
             IN  wake' = IF timeout = K_FOREVER THEN K_FOREVER
                         ELSE now + (IF timeout < 0 THEN 0 ELSE timeout)
    BY <1>5 DEF Loop
  <2>2. pc' = "poll" /\ pc = "loop" /\ UNCHANGED <<inflight, events>>
    BY <1>5 DEF Loop
  <2>3. CASE n = 0
    BY <1>1, <2>1, <2>2, <2>3
  <2>4. CASE n # 0
    <3>1. n \in DOMAIN inflight /\ inflight[n].retransmit
      BY <2>1, <2>4 DEF next_retransmission, Pending
    <3>2. inflight[n].deadline \in Nat
      BY <1>1, <3>1, EntryTypes
    <3>3. wake' # K_FOREVER => inflight[n].deadline <= wake'
      BY <1>2, <2>1, <2>4, <3>2
    <3>. QED  BY <1>1, <2>1, <2>2, <3>1, <3>3
  <2>. QED  BY <2>3, <2>4
<1>6. CASE PollReady
  <2>1. PICK ready \in SUBSET {"tx", "rx"} :
          /\ ready # {} /\ ("tx" \in ready => tx_fifo # << >>)
          /\ ("rx" \in ready => rx_fifo # << >>) /\ events' = events \cup ready
    BY <1>6 DEF PollReady
  <2>2. pc = "poll" /\ pc' = "serve" /\ UNCHANGED <<tx_fifo, rx_fifo>>
    BY <1>6 DEF PollReady
  <2>. QED  BY <1>1, <2>1, <2>2
<1>7. CASE PollExpire
  <2>1. /\ pc = "poll" /\ pc' = "expired" /\ wake # K_FOREVER /\ now >= wake
        /\ UNCHANGED <<inflight, next, now, events>>
    BY <1>7 DEF PollExpire
  <2>2. next \in DOMAIN inflight /\ inflight[next].retransmit /\ inflight[next].deadline <= wake
    BY <1>1, <2>1
  <2>3. inflight[next].deadline \in Nat /\ wake \in Int
    BY <1>1, <2>2, EntryTypes DEF TypeOK, K_FOREVER
  <2>4. now >= inflight[next].deadline
    BY <1>2, <2>1, <2>2, <2>3
  <2>. QED  BY <1>1, <2>1, <2>2, <2>4
<1>8. CASE Resend \/ GiveUp
  BY <1>1, <1>8 DEF Resend, GiveUp
<1>9. CASE TakeTx
  <2>1. /\ pc = "serve" /\ UNCHANGED rx_fifo /\ events' = events \ {"tx"}
        /\ pc' = IF "rx" \in events THEN "serve" ELSE "loop"
    BY <1>9 DEF TakeTx, NotReady
  <2>. QED  BY <1>1, <1>2, <2>1
<1>10. ASSUME TakeRx, pc' \in {"loop", "fault"}  PROVE Thread'
  <2>1. "tx" \notin events /\ events' = events \ {"rx"}
    BY <1>10 DEF TakeRx, NotReady
  <2>. QED  BY <1>2, <1>10, <2>1
<1>11. ASSUME NEW c \in Clients, PostNoMemory(c) \/ Return(c)  PROVE Thread'
  BY <1>1, <1>11 DEF PostNoMemory, Return
<1>12. CASE Tick
  <2>1. now' = now + 1 /\ UNCHANGED <<tx_fifo, rx_fifo, inflight, pc, events, next, wake>>
    BY <1>12 DEF Tick
  <2>2. pc = "expired" => inflight[next].deadline \in Nat
    BY <1>1, EntryTypes
  <2>. QED  BY <1>1, <1>2, <2>1, <2>2
<1>13. CASE ReceiverReturns \/ UNCHANGED vars
  BY <1>1, <1>13 DEF ReceiverReturns, vars
<1>14. CASE Serve
  <2>1. TakeTx \/ (TakeRx /\ pc' \in {"loop", "fault"})
    BY <1>14 DEF Serve, Transmit, TransmitNoMemory, ReceivePost, ReceiveBadRequest,
       ReceiveReset, ReceiveResponse, ReceiveAck, ReceiveUnmatched
  <2>. QED  BY <1>9, <1>10, <2>1
<1>. QED
  BY <1>3, <1>4, <1>5, <1>6, <1>7, <1>8, <1>11, <1>12, <1>13, <1>14 DEF Next, TxRx

\* Between two wraps of the clock the signed numbers are ordered as the times are.
LEMMA SignedIsMonotone ==
  ASSUME NEW d \in Nat, NEW e \in Nat, Epoch(d) = Epoch(e), ~ Before(e, d)
  PROVE  d <= e
<1>1. 2 * ClockHalf * Epoch(d) \in Int
  BY ConstantsAssumption DEF Epoch
<1>2. ~ (e - 2 * ClockHalf * Epoch(d) < d - 2 * ClockHalf * Epoch(d))
  BY DEF Before, Signed
<1>. QED  BY <1>1, <1>2

\* The thread goes to sleep for the packet next_retransmission found, and nothing touches
\* the array while it sleeps (coap.c:138).
LEMMA EarliestStep ==
  ASSUME IInv, [Next]_vars
  PROVE  EarliestUnlessWrapped'
<1>. USE DEF IInv
<1>1. CASE Loop
  <2>1. PICK n \in 0 .. Len(inflight) : next' = n /\ next_retransmission(n)
    BY <1>1 DEF Loop
  <2>2. UNCHANGED inflight
    BY <1>1 DEF Loop
  <2>3. CASE n = 0
    BY <2>1, <2>3 DEF EarliestUnlessWrapped
  <2>4. CASE n # 0
    <3>1. n \in Pending /\ \A j \in Pending : ~ Before(inflight[j].deadline, inflight[n].deadline)
      BY <2>1, <2>4 DEF next_retransmission
    <3>2. \A j \in Pending : inflight[j].deadline \in Nat
      BY EntryTypes DEF Pending
    <3>3. ASSUME NEW j \in Pending
          PROVE  \/ inflight[n].deadline <= inflight[j].deadline
                 \/ Epoch(inflight[n].deadline) # Epoch(inflight[j].deadline)
      BY <3>1, <3>2, SignedIsMonotone
    <3>. QED  BY <2>1, <2>2, <3>1, <3>3 DEF EarliestUnlessWrapped, Pending
  <2>. QED  BY <2>3, <2>4
<1>2. CASE pc' # "poll"
  BY <1>2 DEF EarliestUnlessWrapped
<1>3. CASE ~ Loop /\ pc' = "poll"
  <2>1. UNCHANGED <<pc, next, inflight>>
    BY <1>3 DEF Next, Post, PostNoMemory, Return, TxRx, Serve, PollReady, PollExpire, Resend,
       GiveUp, Transmit, TransmitNoMemory, TakeTx, TakeRx, ReceivePost, ReceiveBadRequest,
       ReceiveReset, ReceiveResponse, ReceiveAck, ReceiveUnmatched, Receive, ReceiverReturns,
       Tick, vars
  <2>. QED  BY <1>3, <2>1 DEF EarliestUnlessWrapped, Pending
<1>. QED  BY <1>1, <1>2, <1>3

-----------------------------------------------------------------------------
(* The theorems.                                                           *)

LEMMA InitHolds ==
  ASSUME Init
  PROVE  IInv
<1>. USE ConstantsAssumption DEF Init
<1>1. TypeOK
  BY DEF TypeOK, Results, NoToken, K_FOREVER
<1>2. CallsOwned /\ BuffersOwned /\ PostsDistinct
  BY DEF CallsOwned, BuffersOwned, PostsDistinct, Live, Waiting
<1>3. /\ RetransmitsDuePacket /\ TimerCoversDeadline /\ EarliestUnlessWrapped
      /\ GetNeverBlocks /\ EventsServed
  BY DEF RetransmitsDuePacket, TimerCoversDeadline, EarliestUnlessWrapped, GetNeverBlocks,
     EventsServed
<1>. QED  BY <1>1, <1>2, <1>3 DEF IInv

\* The inductive invariant of the endpoint: types, ownership and the poll pointer.
THEOREM Invariant == Spec => []IInv
<1>1. Init => IInv
  BY InitHolds
<1>2. IInv /\ [Next]_vars => IInv'
  BY TypeStep, OwnershipStep, ThreadStep, EarliestStep DEF IInv, Ownership, Thread
<1>. QED  BY <1>1, <1>2, PTL DEF Spec

\* Every variable of the endpoint keeps its type, and no packet is sent more than
\* max_retransmission_count times again (coap.c:215).
THEOREM TypeCorrect == Spec => []TypeOK
<1>1. IInv => TypeOK
  BY DEF IInv
<1>. QED  BY <1>1, Invariant, PTL

\* Whoever posts, answers or fails in between: a handler never writes the frame of a call that
\* is over, and no call that waits is forgotten (coap.c:122, coap.c:403).
THEOREM CallsAreOwned == Spec => []CallsOwned
<1>1. IInv => CallsOwned
  BY DEF IInv
<1>. QED  BY <1>1, Invariant, PTL

\* No packet buffer leaks, is freed twice or is used after it was freed (coap.c:122).
THEOREM BuffersAreOwned == Spec => []BuffersOwned
<1>1. IInv => BuffersOwned
  BY DEF IInv
<1>. QED  BY <1>1, Invariant, PTL

\* retransmit_packet only ever runs on a packet of the array that waits for its
\* acknowledgement and is due (coap.c:324).
THEOREM RetransmissionIsDue == Spec => []RetransmitsDuePacket
<1>1. IInv => RetransmitsDuePacket
  BY DEF IInv
<1>. QED  BY <1>1, Invariant, PTL

\* The transmit/receive thread never blocks in k_fifo_get (coap.c:329, coap.c:336).
THEOREM FifoGetNeverBlocks == Spec => []GetNeverBlocks
<1>1. IInv => GetNeverBlocks
  BY DEF IInv
<1>. QED  BY <1>1, Invariant, PTL

\* The thread sleeps for the packet that is due first, unless the clock wraps around between
\* the deadlines (coap.c:138).
THEOREM EarliestIsPolled == Spec => []EarliestUnlessWrapped
<1>1. IInv => EarliestUnlessWrapped
  BY DEF IInv
<1>. QED  BY <1>1, Invariant, PTL

=============================================================================
