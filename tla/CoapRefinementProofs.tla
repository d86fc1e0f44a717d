------------------------ MODULE CoapRefinementProofs ------------------------
(***************************************************************************)
(* The endpoint implements the exchanges of CoapExchange, for every number *)
(* of clients, POSTs, datagrams and retransmissions.  A client's call is   *)
(* seen through the one place that holds it: its frame, the one packet of  *)
(* tx_fifo, or the one inflight entry that is its own (ClientsDiffer).     *)
(***************************************************************************)
EXTENDS CoapRefinement, CoapEndpointProofs

-----------------------------------------------------------------------------
(* Calls that wait have no result yet.                                     *)

NoResultYet == \A c \in Clients : Waiting(c) => frame[c].err = "none"

\* Only the end of a call stores a result in its frame.
LEMMA NoResultStep ==
  ASSUME IInv, NoResultYet, [Next]_vars
  PROVE  NoResultYet'
<1>0. TypeOK
  BY DEF IInv
<1>1. CASE UNCHANGED frame
  BY <1>1 DEF NoResultYet, Waiting
<1>2. ASSUME NEW c \in Clients, NEW f, frame' = [frame EXCEPT ![c] = f],
             f.post # 0 /\ f.sem = 0 => f.err = "none"
      PROVE  NoResultYet'
  <2>1. \A d \in Clients : frame'[d] = IF d = c THEN f ELSE frame[d]
    BY <1>0, <1>2 DEF TypeOK
  <2>. QED  BY <1>2, <2>1 DEF NoResultYet, Waiting
<1>3. ASSUME NEW c \in Clients, Post(c) \/ PostNoMemory(c) \/ Return(c) PROVE NoResultYet'
  BY <1>2, <1>3 DEF Post, PostNoMemory, Return
<1>4. ASSUME NEW c \in Clients, NEW err, NEW tok, post_handler(c, err, tok)
      PROVE  NoResultYet'
  <2>. DEFINE f == [post |-> frame[c].post, sem |-> 1, err |-> err, tok |-> tok]
  <2>1. frame' = [frame EXCEPT ![c] = f]
    BY <1>4 DEF post_handler
  <2>2. f.sem # 0
    OBVIOUS
  <2>. HIDE DEF f
  <2>. QED  BY <1>2, <2>1, <2>2
<1>5. CASE GiveUp
  BY <1>0, <1>4, <1>5, EntryTypes DEF GiveUp, IInv, RetransmitsDuePacket
<1>6. CASE TransmitNoMemory
  BY <1>0, <1>4, <1>6, TakeTxFacts DEF TransmitNoMemory
<1>7. CASE ReceiveReset
  BY <1>0, <1>4, <1>7, EntryTypes DEF ReceiveReset
<1>8. CASE ReceiveResponse
  BY <1>0, <1>4, <1>8, EntryTypes DEF ReceiveResponse
<1>9. CASE Loop \/ PollReady \/ PollExpire \/ Resend \/ Transmit \/ ReceivePost
             \/ ReceiveBadRequest \/ ReceiveUnmatched \/ ReceiveAck
  BY <1>1, <1>9 DEF Loop, PollReady, PollExpire, Resend, Transmit, ReceivePost,
     ReceiveBadRequest, ReceiveUnmatched, ReceiveAck
<1>10. CASE \E p \in Replies \cup PeerMessages : Receive(p)
  BY <1>1, <1>10 DEF Receive
<1>11. CASE ReceiverReturns \/ Tick \/ UNCHANGED vars
  BY <1>1, <1>11 DEF ReceiverReturns, Tick, vars
<1> QED
  BY <1>3, <1>5, <1>6, <1>7, <1>8, <1>9, <1>10, <1>11 DEF Next, TxRx, Serve

\* No call is handed its result before it ends.
LEMMA NoResultInvariant == Spec => []NoResultYet
<1>1. Init => NoResultYet
  BY DEF Init, NoResultYet
<1>. QED  BY <1>1, NoResultStep, Invariant, PTL DEF Spec

-----------------------------------------------------------------------------
(* The views of a call.                                                    *)

View(stage, sends, result) == [stage |-> stage, sends |-> sends, result |-> result]

EntryStage(e) == IF e.retransmit THEN "unacked" ELSE "acked"

\* What ExchangeOf shows of client c's call.
Views(c) ==
  /\ frame[c].post = 0 => ExchangeOf(c) = View("idle", 0, frame[c].err)
  /\ frame[c].post # 0 /\ ~ Waiting(c) => ExchangeOf(c) = View("done", 0, frame[c].err)
  /\ \A i \in DOMAIN tx_fifo :
       tx_fifo[i].client = c => Waiting(c) /\ ExchangeOf(c) = View("queued", 0, "none")
  /\ \A i \in DOMAIN inflight :
       inflight[i].client = c =>
         Waiting(c) /\ ExchangeOf(c) = View(EntryStage(inflight[i]), inflight[i].count + 1, "none")
  /\ Waiting(c) => \/ \E i \in DOMAIN tx_fifo : tx_fifo[i].client = c
                   \/ \E i \in DOMAIN inflight : inflight[i].client = c

LEMMA ViewsHold == Ownership /\ NoResultYet => \A c \in Clients : Views(c)
<1>. SUFFICES ASSUME Ownership, NoResultYet, NEW c \in Clients PROVE Views(c)
  OBVIOUS
<1>1. ASSUME frame[c].post = 0
      PROVE  ExchangeOf(c) = View("idle", 0, frame[c].err)
  <2>1. StageOf(c) = "idle"
    BY <1>1 DEF StageOf, Waiting
  <2>. QED  BY <1>1, <2>1 DEF ExchangeOf, View
<1>2. ASSUME frame[c].post # 0, ~ Waiting(c)
      PROVE  ExchangeOf(c) = View("done", 0, frame[c].err)
  <2>1. StageOf(c) = "done"
    BY <1>2 DEF StageOf
  <2>. QED  BY <2>1 DEF ExchangeOf, View
<1>3. ASSUME NEW i \in DOMAIN tx_fifo, tx_fifo[i].client = c
      PROVE  Waiting(c) /\ ExchangeOf(c) = View("queued", 0, "none")
  <2>1. Waiting(c) /\ frame[c].post # 0 /\ frame[c].err = "none"
    BY <1>3 DEF Ownership, CallsOwned, Live, Waiting, NoResultYet
  <2>2. Queued(c)
    BY <1>3 DEF Queued
  <2>3. StageOf(c) = "queued"
    BY <2>1, <2>2 DEF StageOf
  <2>. QED  BY <2>1, <2>3 DEF ExchangeOf, View
<1>4. ASSUME NEW i \in DOMAIN inflight, inflight[i].client = c
      PROVE  /\ Waiting(c)
             /\ ExchangeOf(c) = View(EntryStage(inflight[i]), inflight[i].count + 1, "none")
  <2>1. Waiting(c) /\ frame[c].post # 0 /\ frame[c].err = "none"
    BY <1>4 DEF Ownership, CallsOwned, Live, Waiting, NoResultYet
  <2>2. ~ Queued(c)
    BY <1>4, ClientsDiffer DEF Queued
  <2>3. EntryOf(c) = inflight[i]
    BY <1>4, ClientsDiffer DEF EntryOf
  <2>4. StageOf(c) = EntryStage(inflight[i])
    BY <2>1, <2>2, <2>3 DEF StageOf, EntryStage
  <2>5. EntryStage(inflight[i]) \in {"unacked", "acked"}
    BY DEF EntryStage
  <2>. QED  BY <2>1, <2>3, <2>4, <2>5 DEF ExchangeOf, View
<1>5. Waiting(c) => \/ \E i \in DOMAIN tx_fifo : tx_fifo[i].client = c
                    \/ \E i \in DOMAIN inflight : inflight[i].client = c
  BY DEF Ownership, CallsOwned
<1>. QED  BY <1>1, <1>2, <1>3, <1>4, <1>5 DEF Views

\* The views hold before and after every step.
Seen == \A c \in Clients : Views(c)

LEMMA SeenNext ==
  ASSUME IInv, NoResultYet, [Next]_vars
  PROVE  TypeOK /\ Ownership /\ Seen /\ Seen'
<1>1. Ownership' /\ NoResultYet'
  BY OwnershipStep, NoResultStep
<1>2. Ownership /\ NoResultYet => Seen
  BY ViewsHold DEF Seen
<1>3. (Ownership /\ NoResultYet => Seen)'
  BY ViewsHold, PTL DEF Seen
<1>. QED  BY <1>1, <1>2, <1>3 DEF IInv, Ownership

-----------------------------------------------------------------------------
(* What a step shows of the calls.                                         *)

\* The exchange of a call whose frame is left alone and whose packet stays where it is.
LEMMA Keeps ==
  ASSUME Seen, Seen', NEW S \in SUBSET Clients,
         \A d \in S : frame'[d] = frame[d],
         \A i \in DOMAIN tx_fifo : tx_fifo[i].client \in S =>
           \E j \in DOMAIN tx_fifo' : tx_fifo'[j].client = tx_fifo[i].client,
         \A i \in DOMAIN inflight : inflight[i].client \in S =>
           \E j \in DOMAIN inflight' : /\ inflight'[j].client = inflight[i].client
                                      /\ inflight'[j].retransmit = inflight[i].retransmit
                                      /\ inflight'[j].count = inflight[i].count
  PROVE  \A d \in S : ExchangeOf(d)' = ExchangeOf(d)
<1>. SUFFICES ASSUME NEW d \in S PROVE ExchangeOf(d)' = ExchangeOf(d)
  OBVIOUS
<1>1. Views(d) /\ Views(d)'
  BY DEF Seen
<1>2. CASE frame[d].post = 0
  BY <1>1, <1>2 DEF Views, View
<1>3. CASE frame[d].post # 0 /\ ~ Waiting(d)
  BY <1>1, <1>3 DEF Views, View, Waiting
<1>4. ASSUME NEW i \in DOMAIN tx_fifo, tx_fifo[i].client = d
      PROVE  ExchangeOf(d)' = ExchangeOf(d)
  <2>1. PICK j \in DOMAIN tx_fifo' : tx_fifo'[j].client = d
    BY <1>4
  <2>. QED  BY <1>1, <1>4, <2>1 DEF Views, View
<1>5. ASSUME NEW i \in DOMAIN inflight, inflight[i].client = d
      PROVE  ExchangeOf(d)' = ExchangeOf(d)
  <2>1. PICK j \in DOMAIN inflight' : /\ inflight'[j].client = d
                                      /\ inflight'[j].retransmit = inflight[i].retransmit
                                      /\ inflight'[j].count = inflight[i].count
    BY <1>5
  <2>2. ExchangeOf(d)' = View(EntryStage(inflight'[j]), inflight'[j].count + 1, "none")
    BY <1>1, <2>1 DEF Views, View, EntryStage
  <2>3. ExchangeOf(d) = View(EntryStage(inflight[i]), inflight[i].count + 1, "none")
    BY <1>1, <1>5 DEF Views
  <2>. QED  BY <2>1, <2>2, <2>3 DEF View, EntryStage
<1>6. Waiting(d) => \/ \E i \in DOMAIN tx_fifo : tx_fifo[i].client = d
                    \/ \E i \in DOMAIN inflight : inflight[i].client = d
  BY <1>1 DEF Views
<1>. QED  BY <1>2, <1>3, <1>4, <1>5, <1>6

\* One call changes its view and the others keep theirs: that is a move of its exchange.
LEMMA Moves ==
  ASSUME NEW c \in Clients, NEW from, NEW n, NEW r, NEW to, NEW sends, NEW result,
         ExchangeOf(c) = View(from, n, r),
         ExchangeOf(c)' = View(to, sends, result),
         \A d \in Clients \ {c} : ExchangeOf(d)' = ExchangeOf(d)
  PROVE  Exchange!Move(c, from, to, sends, result)
<1>. DEFINE shown == [d \in Clients |-> ExchangeOf(d)]
            moved == [stage |-> to, sends |-> sends, result |-> result]
<1>1. shown[c].stage = from
  BY DEF View
<1>2. shown' = [shown EXCEPT ![c] = moved]
  <2>1. \A d \in Clients : ExchangeOf(d)' = IF d = c THEN moved ELSE ExchangeOf(d)
    BY DEF View
  <2>. HIDE DEF moved
  <2>. QED  BY <2>1
<1>. QED  BY <1>1, <1>2 DEF Exchange!Move

\* Nobody's view changes.
LEMMA Stays ==
  ASSUME \A d \in Clients : ExchangeOf(d)' = ExchangeOf(d)
  PROVE  [c \in Clients |-> ExchangeOf(c)]' = [c \in Clients |-> ExchangeOf(c)]
  OBVIOUS

-----------------------------------------------------------------------------
(* One lemma per kind of step.                                             *)

\* post_handler shows its result in the frame it was registered for.
LEMMA HandlerShows ==
  ASSUME TypeOK, Seen', NEW c \in Clients, NEW err, NEW tok, post_handler(c, err, tok),
         frame[c].post # 0
  PROVE  /\ \A d \in Clients \ {c} : frame'[d] = frame[d]
         /\ ExchangeOf(c)' = View("done", 0, err)
<1>. DEFINE f == [post |-> frame[c].post, sem |-> 1, err |-> err, tok |-> tok]
<1>1. frame' = [frame EXCEPT ![c] = f] /\ DOMAIN frame = Clients
  BY DEF post_handler, TypeOK
<1>2. f.post # 0 /\ f.sem # 0 /\ f.err = err
  OBVIOUS
<1>. HIDE DEF f
<1>3. frame'[c] = f /\ \A d \in Clients \ {c} : frame'[d] = frame[d]
  BY <1>1
<1>4. Views(c)'
  BY DEF Seen
<1>. QED  BY <1>2, <1>3, <1>4 DEF Views, View, Waiting

\* A call starts.
LEMMA PostShows ==
  ASSUME TypeOK, Seen, Seen', NEW c \in Clients, Post(c)
  PROVE  Exchange!Call(c)
<1>. DEFINE e == [post |-> posts + 1, client |-> c]
<1>1. /\ tx_fifo \in Seq([post : PostIds, client : Clients])
      /\ e \in [post : PostIds, client : Clients]
  BY ConstantsAssumption DEF TypeOK, Post, PostIds
<1>2. tx_fifo' = Append(tx_fifo, e) /\ e.client = c
  BY DEF Post
<1>. HIDE DEF e
<1>3. /\ \A i \in DOMAIN tx_fifo : i \in DOMAIN tx_fifo' /\ tx_fifo'[i] = tx_fifo[i]
      /\ \E i \in DOMAIN tx_fifo' : tx_fifo'[i].client = c
  BY <1>1, <1>2, AppendFacts
<1>4. \A d \in Clients \ {c} : frame'[d] = frame[d]
  BY DEF Post, TypeOK
<1>5. \A d \in Clients \ {c} : ExchangeOf(d)' = ExchangeOf(d)
  BY <1>3, <1>4, Keeps DEF Post
<1>6. ExchangeOf(c) = View("idle", 0, frame[c].err)
  BY DEF Seen, Views, Post
<1>7. ExchangeOf(c)' = View("queued", 0, "none")
  BY <1>3 DEF Seen, Views, View
<1>. QED  BY <1>5, <1>6, <1>7, Moves DEF Exchange!Call

\* A call fails before it queues anything.
LEMMA RefusalShows ==
  ASSUME TypeOK, Seen, Seen', NEW c \in Clients, PostNoMemory(c)
  PROVE  Exchange!Refuse(c)
<1>1. \A d \in Clients \ {c} : frame'[d] = frame[d]
  BY DEF PostNoMemory, TypeOK
<1>2. \A d \in Clients \ {c} : ExchangeOf(d)' = ExchangeOf(d)
  BY <1>1, Keeps DEF PostNoMemory
<1>3. ExchangeOf(c) = View("idle", 0, frame[c].err)
  BY DEF Seen, Views, PostNoMemory
<1>4. frame'[c].post = 0 /\ frame'[c].err = "ENOMEM"
  BY DEF PostNoMemory, TypeOK
<1>5. ExchangeOf(c)' = View("idle", 0, "ENOMEM")
  BY <1>4 DEF Seen, Views, View
<1>. QED  BY <1>2, <1>3, <1>5, Moves DEF Exchange!Refuse

\* A call returns its result.
LEMMA ReturnShows ==
  ASSUME TypeOK, Seen, Seen', NEW c \in Clients, Return(c)
  PROVE  Exchange!Return(c)
<1>1. \A d \in Clients \ {c} : frame'[d] = frame[d]
  BY DEF Return, TypeOK
<1>2. \A d \in Clients \ {c} : ExchangeOf(d)' = ExchangeOf(d)
  BY <1>1, Keeps DEF Return
<1>3. ExchangeOf(c) = View("done", 0, frame[c].err)
  BY DEF Seen, Views, Return, Waiting
<1>4. frame'[c].post = 0 /\ frame'[c].err = frame[c].err
  BY DEF Return, TypeOK
<1>5. ExchangeOf(c)' = View("idle", 0, frame[c].err)
  BY <1>4 DEF Seen, Views, View
<1>6. Exchange!Move(c, "done", "idle", 0, frame[c].err)
  BY <1>2, <1>3, <1>5, Moves
<1>. QED  BY <1>3, <1>6 DEF Exchange!Return, View

\* The handler of an inflight packet ends its call.
LEMMA EndShows ==
  ASSUME TypeOK, Ownership, Seen, Seen', NEW i \in DOMAIN inflight, NEW err, NEW tok,
         post_handler(inflight[i].client, err, tok), free_inflight_packet(i), UNCHANGED tx_fifo
  PROVE  \E c \in Clients :
           /\ ExchangeOf(c) = View(EntryStage(inflight[i]), inflight[i].count + 1, "none")
           /\ Exchange!Finish(c, EntryStage(inflight[i]), err)
<1>1. PICK c \in Clients : c = inflight[i].client
  BY EntryTypes
<1>2. \A j \in DOMAIN inflight : j = i \/ \E m \in DOMAIN inflight' : inflight'[m] = inflight[j]
  <2>1. inflight \in Seq(Inflight)
    BY DEF TypeOK
  <2>. QED  BY <2>1, FreeFacts DEF free_inflight_packet
<1>3. /\ Waiting(c)
      /\ ExchangeOf(c) = View(EntryStage(inflight[i]), inflight[i].count + 1, "none")
  BY <1>1 DEF Seen, Views
<1>4. /\ \A d \in Clients \ {c} : frame'[d] = frame[d]
      /\ ExchangeOf(c)' = View("done", 0, err)
  BY <1>1, <1>3, HandlerShows DEF Waiting
<1>5. \A j \in DOMAIN inflight : inflight[j].client \in Clients \ {c} => j # i
  BY <1>1
<1>6. \A d \in Clients \ {c} : ExchangeOf(d)' = ExchangeOf(d)
  BY <1>2, <1>4, <1>5, Keeps
<1>7. Exchange!Move(c, EntryStage(inflight[i]), "done", 0, err)
  BY <1>1, <1>3, <1>4, <1>6, Moves
<1>. QED  BY <1>3, <1>7 DEF Exchange!Finish

\* A stage of the exchange that an inflight packet can be in.
LEMMA EntryStages ==
  ASSUME TypeOK, NEW i \in DOMAIN inflight
  PROVE  /\ EntryStage(inflight[i]) \in {"unacked", "acked"}
         /\ inflight[i].retransmit => EntryStage(inflight[i]) = "unacked"
         /\ ~ inflight[i].retransmit => EntryStage(inflight[i]) = "acked"
  BY DEF EntryStage

\* The thread gives a POST up only after it was sent as often as allowed.
LEMMA GiveUpShows ==
  ASSUME IInv, Ownership, Seen, Seen', GiveUp
  PROVE  \E c \in Clients : Exchange!GiveUp(c)
<1>1. TypeOK /\ next \in DOMAIN inflight /\ inflight[next].retransmit
  BY DEF IInv, RetransmitsDuePacket, GiveUp
<1>2. inflight[next].count = MaxRetransmit
  <2>1. inflight[next].count \in 0 .. MaxRetransmit
    BY <1>1, EntryTypes DEF Inflight
  <2>. QED  BY <2>1, ConstantsAssumption DEF GiveUp, MayResend
<1>3. \E c \in Clients : /\ ExchangeOf(c) = View("unacked", MaxRetransmit + 1, "none")
                         /\ Exchange!Finish(c, "unacked", "EAGAIN")
  BY <1>1, <1>2, EndShows, EntryStages DEF GiveUp
<1>. QED  BY <1>3 DEF Exchange!GiveUp, View

\* A matching reset or response ends the call of the packet it matches.
LEMMA AnswerShows ==
  ASSUME TypeOK, Ownership, Seen, Seen', ReceiveReset \/ ReceiveResponse
  PROVE  \E c \in Clients : Exchange!Cancel(c) \/ Exchange!Respond(c)
<1>1. CASE ReceiveReset
  <2>1. PICK i \in DOMAIN inflight : /\ post_handler(inflight[i].client, "ECANCELED", NoToken)
                                     /\ free_inflight_packet(i)
    BY <1>1 DEF ReceiveReset
  <2>2. UNCHANGED tx_fifo
    BY <1>1 DEF ReceiveReset, TakeRx
  <2>. QED  BY <2>1, <2>2, EndShows, EntryStages DEF Exchange!Cancel
<1>2. CASE ReceiveResponse
  <2>1. PICK i \in DOMAIN inflight : /\ post_handler(inflight[i].client, "ok", Head(rx_fifo).tok)
                                     /\ free_inflight_packet(i)
    BY <1>2 DEF ReceiveResponse
  <2>2. UNCHANGED tx_fifo
    BY <1>2 DEF ReceiveResponse, TakeRx
  <2>. QED  BY <2>1, <2>2, EndShows, EntryStages DEF Exchange!Respond
<1>. QED  BY <1>1, <1>2

\* A packet leaves tx_fifo: it is sent for the first time ...
LEMMA TransmitShows ==
  ASSUME TypeOK, Ownership, Seen, Seen', Transmit
  PROVE  \E c \in Clients : Exchange!Send(c)
<1>1. PICK c \in Clients : c = tx_fifo[1].client
  BY TakeTxFacts DEF Transmit
<1>2. /\ 1 \in DOMAIN tx_fifo /\ Head(tx_fifo) = tx_fifo[1]
      /\ \A i \in DOMAIN tx_fifo : i = 1 \/ \E j \in DOMAIN tx_fifo' : tx_fifo'[j] = tx_fifo[i]
  BY TakeTxFacts DEF Transmit
<1>3. /\ \A i \in DOMAIN inflight : i \in DOMAIN inflight' /\ inflight'[i] = inflight[i]
      /\ \E i \in DOMAIN inflight' : /\ inflight'[i].client = c /\ inflight'[i].count = 0
                                     /\ inflight'[i].retransmit = TRUE
  <2>1. PICK t \in InitialTimeouts :
          inflight' = Append(inflight,
                        [post |-> Head(tx_fifo).post, client |-> Head(tx_fifo).client,
                         retransmit |-> TRUE, count |-> 0, timeout |-> t, deadline |-> now + t])
    BY DEF Transmit
  <2>. DEFINE e == [post |-> Head(tx_fifo).post, client |-> Head(tx_fifo).client,
                    retransmit |-> TRUE, count |-> 0, timeout |-> t, deadline |-> now + t]
  <2>2. inflight' = Append(inflight, e)
    BY <2>1
  <2>3. e.client = c /\ e.count = 0 /\ e.retransmit = TRUE
    BY <1>1, <1>2
  <2>. HIDE DEF e
  <2>4. inflight \in Seq({e} \cup Inflight) /\ e \in {e} \cup Inflight
    BY DEF TypeOK
  <2>. QED  BY <2>2, <2>3, <2>4, AppendFacts
<1>4. \A i \in DOMAIN tx_fifo : tx_fifo[i].client \in Clients \ {c} => i # 1
  BY <1>1
<1>5. \A d \in Clients \ {c} : ExchangeOf(d)' = ExchangeOf(d)
  <2>1. UNCHANGED frame
    BY DEF Transmit
  <2>2. \A i \in DOMAIN tx_fifo : tx_fifo[i].client \in Clients \ {c} =>
          \E j \in DOMAIN tx_fifo' : tx_fifo'[j].client = tx_fifo[i].client
    BY <1>2, <1>4
  <2>. QED  BY <1>3, <2>1, <2>2, Keeps
<1>6. ExchangeOf(c) = View("queued", 0, "none")
  BY <1>1, <1>2 DEF Seen, Views
<1>7. ExchangeOf(c)' = View("unacked", 1, "none")
  <2>1. PICK i \in DOMAIN inflight' : /\ inflight'[i].client = c /\ inflight'[i].count = 0
                                     /\ inflight'[i].retransmit = TRUE
    BY <1>3
  <2>2. ExchangeOf(c)' = View(EntryStage(inflight'[i]), inflight'[i].count + 1, "none")
    BY <2>1 DEF Seen, Views, View, EntryStage
  <2>. QED  BY <2>1, <2>2 DEF EntryStage
<1>. QED  BY <1>5, <1>6, <1>7, Moves DEF Exchange!Send

\* ... or there is no memory for its inflight entry.
LEMMA NoMemoryShows ==
  ASSUME TypeOK, Ownership, Seen, Seen', TransmitNoMemory
  PROVE  \E c \in Clients : Exchange!OutOfMemory(c)
<1>1. PICK c \in Clients : c = tx_fifo[1].client
  BY TakeTxFacts DEF TransmitNoMemory
<1>2. /\ 1 \in DOMAIN tx_fifo /\ Head(tx_fifo) = tx_fifo[1]
      /\ \A i \in DOMAIN tx_fifo : i = 1 \/ \E j \in DOMAIN tx_fifo' : tx_fifo'[j] = tx_fifo[i]
  BY TakeTxFacts DEF TransmitNoMemory
<1>3. \A i \in DOMAIN tx_fifo : tx_fifo[i].client \in Clients \ {c} => i # 1
  BY <1>1
<1>4. Waiting(c) /\ ExchangeOf(c) = View("queued", 0, "none")
  BY <1>1, <1>2 DEF Seen, Views
<1>5. /\ \A d \in Clients \ {c} : frame'[d] = frame[d]
      /\ ExchangeOf(c)' = View("done", 0, "ENOMEM")
  BY <1>1, <1>2, <1>4, HandlerShows DEF TransmitNoMemory, Waiting
<1>6. \A d \in Clients \ {c} : ExchangeOf(d)' = ExchangeOf(d)
  BY <1>2, <1>3, <1>5, Keeps DEF TransmitNoMemory
<1>. QED  BY <1>4, <1>5, <1>6, Moves DEF Exchange!OutOfMemory, Exchange!Finish

\* One inflight entry is updated and stays where it is.
LEMMA UpdateShows ==
  ASSUME TypeOK, Ownership, Seen, Seen', NEW i \in DOMAIN inflight, NEW e,
         inflight' = [inflight EXCEPT ![i] = e], e.client = inflight[i].client,
         UNCHANGED <<frame, tx_fifo>>
  PROVE  \E c \in Clients :
           /\ ExchangeOf(c) = View(EntryStage(inflight[i]), inflight[i].count + 1, "none")
           /\ Exchange!Move(c, EntryStage(inflight[i]), EntryStage(e), e.count + 1, "none")
<1>1. PICK c \in Clients : c = inflight[i].client
  BY EntryTypes
<1>2. /\ DOMAIN inflight' = DOMAIN inflight /\ inflight'[i] = e
      /\ \A j \in DOMAIN inflight : j # i => inflight'[j] = inflight[j]
  BY DEF TypeOK
<1>3. \A j \in DOMAIN inflight : inflight[j].client \in Clients \ {c} => j # i
  BY <1>1
<1>4. \A d \in Clients \ {c} : ExchangeOf(d)' = ExchangeOf(d)
  BY <1>2, <1>3, Keeps
<1>5. ExchangeOf(c) = View(EntryStage(inflight[i]), inflight[i].count + 1, "none")
  BY <1>1 DEF Seen, Views
<1>6. ExchangeOf(c)' = View(EntryStage(e), e.count + 1, "none")
  BY <1>1, <1>2 DEF Seen, Views, View, EntryStage
<1>. QED  BY <1>4, <1>5, <1>6, Moves

\* A packet is sent again.
LEMMA ResendShows ==
  ASSUME IInv, Ownership, Seen, Seen', Resend
  PROVE  \E c \in Clients : Exchange!Resend(c)
<1>1. TypeOK /\ next \in DOMAIN inflight /\ inflight[next].retransmit
  BY DEF IInv, RetransmitsDuePacket, Resend
<1>2. /\ inflight[next] \in Inflight /\ inflight[next].count \in Nat
      /\ inflight[next].count + 1 <= MaxRetransmit
  <2>1. inflight[next] \in Inflight /\ inflight[next].count \in 0 .. MaxRetransmit
    BY <1>1, EntryTypes DEF Inflight
  <2>. QED  BY <2>1, ConstantsAssumption DEF Resend, MayResend
<1>3. PICK e : e = Postponed(inflight[next])
  OBVIOUS
<1>4. /\ e.client = inflight[next].client /\ e.retransmit = inflight[next].retransmit
      /\ e.count = inflight[next].count + 1
  BY <1>2, <1>3 DEF Postponed, Inflight
<1>5. inflight' = [inflight EXCEPT ![next] = e] /\ UNCHANGED <<frame, tx_fifo>>
  BY <1>3 DEF Resend
<1>6. PICK c \in Clients :
        /\ ExchangeOf(c) = View(EntryStage(inflight[next]), inflight[next].count + 1, "none")
        /\ Exchange!Move(c, EntryStage(inflight[next]), EntryStage(e), e.count + 1, "none")
  BY <1>1, <1>4, <1>5, UpdateShows
<1>7. EntryStage(inflight[next]) = "unacked" /\ EntryStage(e) = "unacked"
  BY <1>1, <1>4 DEF EntryStage
<1>. QED  BY <1>2, <1>4, <1>6, <1>7 DEF Exchange!Resend, View

\* An empty acknowledgement stops the retransmission of a packet, or changes nothing.
LEMMA AckShows ==
  ASSUME TypeOK, Ownership, Seen, Seen', ReceiveAck
  PROVE  \/ \E c \in Clients : Exchange!Acknowledge(c)
         \/ \A d \in Clients : ExchangeOf(d)' = ExchangeOf(d)
<1>1. PICK i \in DOMAIN inflight : inflight' = [inflight EXCEPT ![i].retransmit = FALSE]
  BY DEF ReceiveAck
<1>2. UNCHANGED <<frame, tx_fifo>>
  BY DEF ReceiveAck, TakeRx
<1>3. PICK e : e = [inflight[i] EXCEPT !.retransmit = FALSE]
  OBVIOUS
<1>4. inflight[i] \in Inflight
  BY <1>1, EntryTypes
<1>5. e.client = inflight[i].client /\ e.count = inflight[i].count /\ ~ e.retransmit
  BY <1>3, <1>4 DEF Inflight
<1>6. inflight' = [inflight EXCEPT ![i] = e]
  BY <1>1, <1>3
<1>7. CASE inflight[i].retransmit
  <2>1. PICK c \in Clients :
          /\ ExchangeOf(c) = View(EntryStage(inflight[i]), inflight[i].count + 1, "none")
          /\ Exchange!Move(c, EntryStage(inflight[i]), EntryStage(e), e.count + 1, "none")
    BY <1>1, <1>2, <1>5, <1>6, UpdateShows
  <2>2. EntryStage(inflight[i]) = "unacked" /\ EntryStage(e) = "acked"
    BY <1>5, <1>7 DEF EntryStage
  <2>. QED  BY <1>5, <2>1, <2>2 DEF Exchange!Acknowledge, View
<1>8. CASE ~ inflight[i].retransmit
  <2>1. /\ DOMAIN inflight' = DOMAIN inflight /\ inflight'[i] = e
        /\ \A j \in DOMAIN inflight : j # i => inflight'[j] = inflight[j]
    BY <1>1, <1>6 DEF TypeOK
  <2>2. e.retransmit = inflight[i].retransmit
    BY <1>3, <1>4, <1>8 DEF Inflight
  <2>. QED  BY <1>2, <1>5, <2>1, <2>2, Keeps
<1>. QED  BY <1>7, <1>8

-----------------------------------------------------------------------------
(* The refinement.                                                         *)

\* Every step of the endpoint is a step of one exchange, or of none.
LEMMA ExchangeStep ==
  ASSUME IInv, NoResultYet, [Next]_vars
  PROVE  \/ Exchange!Next
         \/ [c \in Clients |-> ExchangeOf(c)]' = [c \in Clients |-> ExchangeOf(c)]
<1>1. TypeOK /\ Ownership /\ Seen /\ Seen'
  BY SeenNext
<1>2. ASSUME UNCHANGED <<frame, tx_fifo, inflight>>
      PROVE  [c \in Clients |-> ExchangeOf(c)]' = [c \in Clients |-> ExchangeOf(c)]
  <2>1. \A d \in Clients : ExchangeOf(d)' = ExchangeOf(d)
    BY <1>1, <1>2, Keeps
  <2>. QED  BY <2>1, Stays
<1>3. ASSUME NEW c \in Clients, Post(c) \/ PostNoMemory(c) \/ Return(c)
      PROVE  Exchange!Next
  BY <1>1, <1>3, PostShows, RefusalShows, ReturnShows DEF Exchange!Next, Exchange!Step
<1>4. CASE Loop \/ PollReady \/ PollExpire
  BY <1>2, <1>4 DEF Loop, PollReady, PollExpire
<1>5. CASE Resend \/ GiveUp
  BY <1>1, <1>5, ResendShows, GiveUpShows DEF Exchange!Next, Exchange!Step
<1>6. CASE Transmit \/ TransmitNoMemory
  BY <1>1, <1>6, TransmitShows, NoMemoryShows DEF Exchange!Next, Exchange!Step
<1>7. CASE ReceivePost \/ ReceiveBadRequest \/ ReceiveUnmatched
  BY <1>2, <1>7 DEF ReceivePost, ReceiveBadRequest, ReceiveUnmatched, TakeRx
<1>8. CASE ReceiveReset \/ ReceiveResponse
  BY <1>1, <1>8, AnswerShows DEF Exchange!Next, Exchange!Step
<1>9. CASE ReceiveAck
  <2>1. CASE \E c \in Clients : Exchange!Acknowledge(c)
    BY <2>1 DEF Exchange!Next, Exchange!Step
  <2>2. CASE \A d \in Clients : ExchangeOf(d)' = ExchangeOf(d)
    BY <2>2, Stays
  <2>. QED  BY <1>1, <1>9, <2>1, <2>2, AckShows
<1>10. CASE \E p \in Replies \cup PeerMessages : Receive(p)
  BY <1>2, <1>10 DEF Receive
<1>11. CASE ReceiverReturns \/ Tick \/ UNCHANGED vars
  BY <1>2, <1>11 DEF ReceiverReturns, Tick, vars
<1>. QED
  BY <1>3, <1>4, <1>5, <1>6, <1>7, <1>8, <1>9, <1>10, <1>11 DEF Next, TxRx, Serve

(***************************************************************************)
(* For every number of calling threads, coap_endpoint_post keeps the       *)
(* promise of CoapExchange (coap.c:297, coap.c:421).                       *)
(***************************************************************************)
THEOREM EndpointImplementsExchange == Spec => ImplementsExchange
<1>. DEFINE shown == [c \in Clients |-> ExchangeOf(c)]
<1>1. Init => Exchange!Init
  <2>. SUFFICES ASSUME Init PROVE Exchange!Init
    OBVIOUS
  <2>1. \A c \in Clients : StageOf(c) = "idle"
    BY DEF Init, StageOf, Waiting
  <2>2. \A c \in Clients : ExchangeOf(c) = [stage |-> "idle", sends |-> 0, result |-> "none"]
    BY <2>1 DEF Init, ExchangeOf
  <2>. QED  BY <2>2 DEF Exchange!Init
<1>2. IInv /\ NoResultYet /\ [Next]_vars => [Exchange!Next]_shown
  BY ExchangeStep
<1>. HIDE DEF shown
<1>. QED
  BY <1>1, <1>2, Invariant, NoResultInvariant, PTL
  DEF Spec, ImplementsExchange, Exchange!Spec, shown
=============================================================================
