-------------------------- MODULE CoapLimitsProofs --------------------------
(***************************************************************************)
(* The limits of CoapEndpoint, for every value of the constants: the       *)
(* schedule of the retransmissions, how many buffers the POSTs hold, that   *)
(* the searches of the inflight array always have one outcome, and under   *)
(* which conditions what the comments of the repository promise does hold. *)
(***************************************************************************)
EXTENDS CoapAnswersProofs, WellFoundedInduction, FiniteSetTheorems

-----------------------------------------------------------------------------
(* The factors of the schedule.                                            *)

\* A set of numbers that is not empty has a least element: what takes the place of an
\* induction below.
LEMMA LeastNumber ==
  ASSUME NEW T \in SUBSET Nat, T # {}
  PROVE  \E n \in T : \A m \in T : n <= m
<1> DEFINE R == OpToRel(<, Nat)
<1>1. \A x, y \in Nat : x < y => <<x, y>> \in R
  BY DEF OpToRel
<1>2. IsWellFoundedOn(R, Nat)
  BY NatLessThanWellFounded
<1> HIDE DEF R
<1>3. \E x \in T : \A y \in T : ~ (<<y, x>> \in R)
  BY <1>2, WFMin
<1>4. PICK n \in T : \A m \in T : ~ (<<m, n>> \in R)
  BY <1>3
<1>5. ASSUME NEW m \in T  PROVE n <= m
  <2>1. m \in Nat /\ n \in Nat /\ ~ (m < n)
    BY <1>1, <1>4
  <2> QED BY <2>1
<1> QED BY <1>5

IsBackoff(f, n) == f = [k \in 0 .. n |-> IF k = 0 THEN 1 ELSE 2 * f[k - 1]]

\* The recursion of Backoff has a solution, however many retransmissions there are.
LEMMA BackoffExists == \A n \in Nat : \E f : IsBackoff(f, n)
<1> DEFINE Missing == {n \in Nat : ~ \E f : IsBackoff(f, n)}
<1>1. ASSUME Missing # {}  PROVE FALSE
  <2>1. PICK n \in Missing : \A m \in Missing : n <= m
    BY <1>1, LeastNumber
  <2>2. CASE n = 0
    <3> DEFINE f == [k \in 0 .. n |-> 1]
    <3>1. f = [k \in 0 .. n |-> IF k = 0 THEN 1 ELSE 2 * f[k - 1]]
      BY <2>2
    <3> QED BY <2>1, <3>1 DEF IsBackoff
  <2>3. CASE n # 0
    <3>1. n - 1 \in Nat /\ n - 1 \notin Missing
      BY <2>1, <2>3
    <3>2. PICK f : f = [k \in 0 .. n - 1 |-> IF k = 0 THEN 1 ELSE 2 * f[k - 1]]
      BY <3>1 DEF IsBackoff
    <3> DEFINE g == [k \in 0 .. n |-> IF k = 0 THEN 1 ELSE 2 * f[k - 1]]
    <3>3. \A k \in 0 .. n - 1 : g[k] = f[k]
      <4> TAKE k \in 0 .. n - 1
      <4>1. k \in 0 .. n /\ g[k] = IF k = 0 THEN 1 ELSE 2 * f[k - 1]
        BY <3>1
      <4>2. f[k] = IF k = 0 THEN 1 ELSE 2 * f[k - 1]
        BY <3>2
      <4> QED BY <4>1, <4>2
    <3>4. \A k \in 0 .. n : k # 0 => g[k - 1] = f[k - 1]
      <4> TAKE k \in 0 .. n
      <4> HAVE k # 0
      <4>1. k - 1 \in 0 .. n - 1
        BY <3>1
      <4> QED BY <3>3, <4>1
    <3>5. g = [k \in 0 .. n |-> IF k = 0 THEN 1 ELSE 2 * g[k - 1]]
      BY <3>4
    <3> QED BY <2>1, <3>5 DEF IsBackoff
  <2> QED BY <2>2, <2>3
<1> QED BY <1>1

\* Backoff doubles, from 1.
LEMMA BackoffDoubles ==
  /\ Backoff[0] = 1
  /\ \A k \in 0 .. MaxRetransmit :
       k # MaxRetransmit => k + 1 \in 0 .. MaxRetransmit /\ Backoff[k + 1] = 2 * Backoff[k]
<1>1. IsBackoff(Backoff, MaxRetransmit)
  BY BackoffExists, ConstantsAssumption DEF Backoff, IsBackoff
<1>2. \A k \in 0 .. MaxRetransmit : Backoff[k] = IF k = 0 THEN 1 ELSE 2 * Backoff[k - 1]
  BY <1>1 DEF IsBackoff
<1>3. 0 \in 0 .. MaxRetransmit /\ MaxRetransmit \in Nat
  BY ConstantsAssumption
<1> QED BY <1>2, <1>3

\* The factors are natural numbers.
LEMMA BackoffTypes == \A k \in 0 .. MaxRetransmit : Backoff[k] \in Nat \ {0}
<1> DEFINE Bad == {k \in 0 .. MaxRetransmit : Backoff[k] \notin Nat \ {0}}
<1>1. ASSUME Bad # {}  PROVE FALSE
  <2>1. PICK n \in Bad : \A m \in Bad : n <= m
    <3>1. Bad \in SUBSET Nat
      OBVIOUS
    <3> HIDE DEF Bad
    <3> QED BY <1>1, <3>1, LeastNumber
  <2>2. n # 0
    BY <2>1, BackoffDoubles
  <2>3. n - 1 \in 0 .. MaxRetransmit /\ n - 1 # MaxRetransmit /\ n - 1 \notin Bad
    BY <2>1, <2>2, ConstantsAssumption
  <2>4. Backoff[n] = 2 * Backoff[n - 1]
    BY <2>3, BackoffDoubles
  <2> QED BY <2>1, <2>3, <2>4
<1> QED BY <1>1

-----------------------------------------------------------------------------
(* What a step makes of the entries of the inflight array.                 *)

\* Entry e of the array before a step is entry f after it.
Becomes(e, f) ==
  \/ f = e
  \/ MayResend(e) /\ f = Postponed(e)
  \/ ReceiveAck /\ f = [e EXCEPT !.retransmit = FALSE]

\* Every entry was in the array before the step, or was sent for the first time in it.
LEMMA EntryHistory ==
  ASSUME IInv, [Next]_vars, NEW j \in DOMAIN inflight'
  PROVE  \/ /\ \A i \in DOMAIN inflight : inflight[i].post # inflight'[j].post
            /\ \E t \in InitialTimeouts :
                 inflight'[j] = [post |-> Head(tx_fifo).post, client |-> Head(tx_fifo).client,
                                 retransmit |-> TRUE, count |-> 0, timeout |-> t,
                                 deadline |-> now + t]
         \/ \E i \in DOMAIN inflight : Becomes(inflight[i], inflight'[j])
<1>0. /\ TypeOK /\ RetransmitsDuePacket /\ BuffersOwned
      /\ inflight \in Seq(Inflight) /\ Len(inflight) \in Nat
      /\ DOMAIN inflight = 1 .. Len(inflight)
  BY DEF IInv, TypeOK
<1>1. CASE inflight' = inflight
  BY <1>1 DEF Becomes
<1>2. CASE Resend
  <2>1. /\ next \in DOMAIN inflight /\ MayResend(inflight[next])
        /\ inflight' = [inflight EXCEPT ![next] = Postponed(inflight[next])]
    BY <1>0, <1>2 DEF Resend, RetransmitsDuePacket
  <2>2. j \in DOMAIN inflight /\ (j # next => inflight'[j] = inflight[j])
        /\ (j = next => inflight'[j] = Postponed(inflight[j]))
    BY <1>0, <2>1
  <2> QED BY <2>1, <2>2 DEF Becomes
<1>3. CASE \E i \in DOMAIN inflight : free_inflight_packet(i)
  <2>1. PICK i \in DOMAIN inflight :
          inflight' = [k \in 1 .. Len(inflight) - 1 |->
                         IF k = i THEN inflight[Len(inflight)] ELSE inflight[k]]
    BY <1>3 DEF free_inflight_packet
  <2>2. \E k \in DOMAIN inflight : inflight'[j] = inflight[k]
    BY <1>0, <2>1, FreeFacts
  <2> QED BY <2>2 DEF Becomes
<1>4. CASE Transmit
  <2>1. PICK t \in InitialTimeouts :
          inflight' = Append(inflight,
                        [post |-> Head(tx_fifo).post, client |-> Head(tx_fifo).client,
                         retransmit |-> TRUE, count |-> 0, timeout |-> t,
                         deadline |-> now + t])
    BY <1>4 DEF Transmit
  <2> DEFINE e == [post |-> Head(tx_fifo).post, client |-> Head(tx_fifo).client,
                   retransmit |-> TRUE, count |-> 0, timeout |-> t, deadline |-> now + t]
  <2>2. inflight' = Append(inflight, e)
    BY <2>1
  <2>3. e.post = Head(tx_fifo).post
    OBVIOUS
  <2>4. 1 \in DOMAIN tx_fifo /\ Head(tx_fifo) = tx_fifo[1]
    BY <1>0, <1>4, TakeTxFacts DEF Transmit
  <2>5. \A i \in DOMAIN inflight : inflight[i].post # e.post
    BY <1>0, <2>3, <2>4 DEF BuffersOwned
  <2> HIDE DEF e
  <2>6. CASE j = Len(inflight) + 1
    <3>1. inflight'[j] = e
      BY <1>0, <2>2, <2>6
    <3> QED BY <2>5, <3>1 DEF e
  <2>7. CASE j # Len(inflight) + 1
    <3>1. j \in DOMAIN inflight /\ inflight'[j] = inflight[j]
      BY <1>0, <2>2, <2>7
    <3> QED BY <3>1 DEF Becomes
  <2> QED BY <2>6, <2>7
<1>5. CASE ReceiveAck
  <2>1. PICK i \in DOMAIN inflight : inflight' = [inflight EXCEPT ![i].retransmit = FALSE]
    BY <1>5 DEF ReceiveAck
  <2>2. j \in DOMAIN inflight /\ (j # i => inflight'[j] = inflight[j])
        /\ (j = i => inflight'[j] = [inflight[j] EXCEPT !.retransmit = FALSE])
    BY <1>0, <2>1
  <2> QED BY <1>5, <2>2 DEF Becomes
<1>6. CASE GiveUp
  BY <1>0, <1>3, <1>6 DEF GiveUp, RetransmitsDuePacket
<1>7. CASE ReceiveReset \/ ReceiveResponse
  BY <1>3, <1>7 DEF ReceiveReset, ReceiveResponse
<1>8. CASE \E c \in Clients : Post(c) \/ PostNoMemory(c) \/ Return(c)
  BY <1>1, <1>8 DEF Post, PostNoMemory, Return
<1>9. CASE Loop \/ PollReady \/ PollExpire \/ TransmitNoMemory \/ ReceivePost
             \/ ReceiveBadRequest \/ ReceiveUnmatched
  BY <1>1, <1>9 DEF Loop, PollReady, PollExpire, TransmitNoMemory, ReceivePost,
     ReceiveBadRequest, ReceiveUnmatched
<1>10. CASE \E p \in Replies \cup PeerMessages : Receive(p)
  BY <1>1, <1>10 DEF Receive
<1>11. CASE ReceiverReturns \/ Tick \/ UNCHANGED vars
  BY <1>1, <1>11 DEF ReceiverReturns, Tick, vars
<1> QED
  BY <1>2, <1>4, <1>5, <1>6, <1>7, <1>8, <1>9, <1>10, <1>11 DEF Next, TxRx, Serve

-----------------------------------------------------------------------------
(* The schedule.                                                           *)

\* A packet that is sent once more keeps to its schedule.
LEMMA PostponedIsScheduled ==
  ASSUME NEW e \in Inflight, MayResend(e), NEW start \in Nat, NEW t \in Nat,
         Scheduled(e, start, t)
  PROVE  Scheduled(Postponed(e), start, t)
<1> DEFINE f == Postponed(e)
           b == Backoff[e.count]
<1>1. e.count \in 0 .. MaxRetransmit /\ e.count # MaxRetransmit
  BY ConstantsAssumption DEF Inflight, MayResend
<1>2. b \in Nat /\ Backoff[e.count + 1] = 2 * b
  BY <1>1, BackoffTypes, BackoffDoubles
<1>3. f.count = e.count + 1 /\ f.timeout = 2 * e.timeout
      /\ f.deadline = e.deadline + 2 * e.timeout
  BY DEF Postponed, Inflight
<1>4. e.timeout = t * b /\ e.deadline = start + (2 * b - 1) * t
  BY DEF Scheduled
<1> HIDE DEF f, b
<1>5. f.timeout = t * (2 * b)
  BY <1>2, <1>3, <1>4
<1>6. (2 * (2 * b) - 1) * t = (2 * b - 1) * t + 2 * (t * b)
  BY <1>2
<1>7. (2 * b - 1) * t \in Int /\ 2 * (t * b) \in Int
  BY <1>2
<1>8. f.deadline = start + (2 * (2 * b) - 1) * t
  BY <1>3, <1>4, <1>6, <1>7
<1>9. Scheduled(f, start, t)
  BY <1>2, <1>3, <1>5, <1>8 DEF Scheduled
<1> QED BY <1>9 DEF f

\* An entry keeps its post and its schedule from one state to the next.
LEMMA ScheduleIsKept ==
  ASSUME NEW e \in Inflight, NEW f, Becomes(e, f), NEW start \in Nat, NEW t \in Nat,
         Scheduled(e, start, t)
  PROVE  Scheduled(f, start, t) /\ f.post = e.post
<1>1. CASE f = e
  BY <1>1
<1>2. CASE MayResend(e) /\ f = Postponed(e)
  <2>1. f.post = e.post
    BY <1>2 DEF Postponed, Inflight
  <2> QED BY <1>2, <2>1, PostponedIsScheduled
<1>3. CASE f = [e EXCEPT !.retransmit = FALSE]
  BY <1>3 DEF Scheduled, Inflight
<1> QED BY <1>1, <1>2, <1>3 DEF Becomes

\* Every entry of the array is on a schedule that began at some time t or earlier.
OnSchedule ==
  \A i \in DOMAIN inflight : \E start \in 0 .. now, t \in InitialTimeouts :
    Scheduled(inflight[i], start, t)

\* What the first packet of a step's POST is scheduled for.
LEMMA FirstIsScheduled ==
  ASSUME NEW e, NEW start \in Nat, NEW t \in Nat,
         e.count = 0, e.timeout = t, e.deadline = start + t
  PROVE  Scheduled(e, start, t)
<1>1. Backoff[e.count] = 1
  BY BackoffDoubles
<1> QED BY <1>1 DEF Scheduled

\* Where the schedule of each entry comes from.
LEMMA ScheduleHistory ==
  ASSUME IInv, OnSchedule, [Next]_vars, NEW j \in DOMAIN inflight'
  PROVE  \/ /\ \A i \in DOMAIN inflight : inflight[i].post # inflight'[j].post
            /\ \E t \in InitialTimeouts : Scheduled(inflight'[j], now, t)
         \/ \E i \in DOMAIN inflight, start \in 0 .. now, t \in InitialTimeouts :
              /\ inflight[i].post = inflight'[j].post
              /\ Scheduled(inflight[i], start, t)
              /\ Scheduled(inflight'[j], start, t)
<1>1. now \in Nat /\ InitialTimeouts \subseteq Nat
  BY ConstantsAssumption DEF IInv, TypeOK
<1>2. CASE /\ \A i \in DOMAIN inflight : inflight[i].post # inflight'[j].post
           /\ \E t \in InitialTimeouts :
                inflight'[j] = [post |-> Head(tx_fifo).post, client |-> Head(tx_fifo).client,
                                retransmit |-> TRUE, count |-> 0, timeout |-> t,
                                deadline |-> now + t]
  <2>1. PICK t \in InitialTimeouts :
          inflight'[j] = [post |-> Head(tx_fifo).post, client |-> Head(tx_fifo).client,
                          retransmit |-> TRUE, count |-> 0, timeout |-> t,
                          deadline |-> now + t]
    BY <1>2
  <2>2. /\ inflight'[j].count = 0 /\ inflight'[j].timeout = t
        /\ inflight'[j].deadline = now + t /\ t \in Nat
    BY <1>1, <2>1
  <2>3. Scheduled(inflight'[j], now, t)
    BY <1>1, <2>2, FirstIsScheduled
  <2> QED BY <1>2, <2>3
<1>3. CASE \E i \in DOMAIN inflight : Becomes(inflight[i], inflight'[j])
  <2>1. PICK i \in DOMAIN inflight : Becomes(inflight[i], inflight'[j])
    BY <1>3
  <2>2. PICK start \in 0 .. now, t \in InitialTimeouts : Scheduled(inflight[i], start, t)
    BY <2>1 DEF OnSchedule
  <2>3. inflight[i] \in Inflight /\ start \in Nat /\ t \in Nat
    BY <1>1, <2>1, EntryTypes DEF IInv
  <2>4. Scheduled(inflight'[j], start, t) /\ inflight'[j].post = inflight[i].post
    BY <2>1, <2>2, <2>3, ScheduleIsKept
  <2> QED BY <2>2, <2>4
<1> QED BY <1>2, <1>3, EntryHistory

\* Time does not run backwards.
LEMMA TimePasses ==
  ASSUME TypeOK, [Next]_vars
  PROVE  now \in Nat /\ now' \in Nat /\ now <= now'
<1>1. now \in Nat
  BY DEF TypeOK
<1>2. CASE Tick
  BY <1>1, <1>2 DEF Tick
<1>3. CASE UNCHANGED now
  BY <1>1, <1>3
<1>4. CASE \E c \in Clients : Post(c) \/ PostNoMemory(c) \/ Return(c)
  BY <1>3, <1>4 DEF Post, PostNoMemory, Return
<1>5. CASE Loop \/ PollReady \/ PollExpire \/ Resend \/ GiveUp
  BY <1>3, <1>5 DEF Loop, PollReady, PollExpire, Resend, GiveUp
<1>6. CASE Serve
  BY <1>3, <1>6 DEF Serve, Transmit, TransmitNoMemory, TakeTx, ReceivePost, ReceiveBadRequest,
     ReceiveReset, ReceiveResponse, ReceiveAck, ReceiveUnmatched, TakeRx
<1>7. CASE (\E p \in Replies \cup PeerMessages : Receive(p)) \/ ReceiverReturns \/ UNCHANGED vars
  BY <1>3, <1>7 DEF Receive, ReceiverReturns, vars
<1> QED BY <1>2, <1>4, <1>5, <1>6, <1>7 DEF Next, TxRx

\* Every entry is on a schedule that began when it was sent first, no later than now.
THEOREM EveryEntryOnSchedule == Spec => []OnSchedule
<1>1. Init => OnSchedule
  BY DEF Init, OnSchedule
<1>2. IInv /\ OnSchedule /\ [Next]_vars => OnSchedule'
  <2> SUFFICES ASSUME IInv, OnSchedule, [Next]_vars, NEW j \in DOMAIN inflight'
               PROVE  \E start \in 0 .. now', t \in InitialTimeouts :
                        Scheduled(inflight'[j], start, t)
    BY DEF OnSchedule, Scheduled
  <2>1. now \in 0 .. now' /\ 0 .. now \subseteq 0 .. now'
    BY TimePasses DEF IInv
  <2> QED BY <2>1, ScheduleHistory
<1> QED BY <1>1, <1>2, Invariant, PTL DEF Spec

-----------------------------------------------------------------------------
(* How a call ends.                                                        *)

\* A waiting call ends in one of four ways, each for a packet of its own.
LEMMA CallEnds ==
  ASSUME IInv, [Next]_vars, NEW c \in Clients, Waiting(c), frame'[c].sem = 1
  PROVE  \/ GiveUp /\ inflight[next].client = c /\ frame'[c].err = "EAGAIN"
         \/ TransmitNoMemory /\ Head(tx_fifo).client = c /\ frame'[c].err = "ENOMEM"
         \/ ReceiveReset /\ frame'[c].err = "ECANCELED"
         \/ ReceiveResponse /\ frame'[c].err = "ok"
<1>0. TypeOK /\ frame[c].sem # 1 /\ frame[c].sem = 0 /\ frame[c].post # 0
  BY DEF IInv, Waiting
<1>1. frame'[c] # frame[c]
  BY <1>0
<1>2. ASSUME NEW d \in Clients, NEW err, NEW tok, post_handler(d, err, tok)
      PROVE  d = c /\ frame'[c].err = err
  BY <1>0, <1>1, <1>2, HandlerFacts, HandlerReports
<1>3. CASE GiveUp
  <2>1. next \in DOMAIN inflight /\ post_handler(inflight[next].client, "EAGAIN", NoToken)
    BY <1>3 DEF GiveUp, IInv, RetransmitsDuePacket
  <2>2. inflight[next].client \in Clients
    BY <1>0, <2>1, EntryTypes
  <2> QED BY <1>2, <1>3, <2>1, <2>2
<1>4. CASE TransmitNoMemory
  <2>1. Head(tx_fifo).client \in Clients /\ post_handler(Head(tx_fifo).client, "ENOMEM", NoToken)
    BY <1>0, <1>4, TakeTxFacts DEF TransmitNoMemory
  <2> QED BY <1>2, <1>4, <2>1
<1>5. CASE ReceiveReset
  <2>1. PICK i \in DOMAIN inflight : post_handler(inflight[i].client, "ECANCELED", NoToken)
    BY <1>5 DEF ReceiveReset
  <2>2. inflight[i].client \in Clients
    BY <1>0, EntryTypes
  <2> QED BY <1>2, <1>5, <2>1, <2>2
<1>6. CASE ReceiveResponse
  <2>1. PICK i \in DOMAIN inflight : post_handler(inflight[i].client, "ok", Head(rx_fifo).tok)
    BY <1>6 DEF ReceiveResponse
  <2>2. inflight[i].client \in Clients
    BY <1>0, EntryTypes
  <2> QED BY <1>2, <1>6, <2>1, <2>2
<1>7. CASE \E d \in Clients : Post(d) \/ PostNoMemory(d) \/ Return(d)
  <2>1. PICK d \in Clients : Post(d) \/ PostNoMemory(d) \/ Return(d)
    BY <1>7
  <2>2. d # c
    BY <1>0, <2>1 DEF Post, PostNoMemory, Return
  <2>3. frame'[c] = frame[c]
    BY <1>0, <2>1, <2>2 DEF Post, PostNoMemory, Return, TypeOK
  <2> QED BY <1>1, <2>3
<1>8. CASE UNCHANGED frame
  BY <1>1, <1>8
<1>9. CASE Loop \/ PollReady \/ PollExpire \/ Resend \/ Transmit \/ ReceivePost
             \/ ReceiveBadRequest \/ ReceiveUnmatched \/ ReceiveAck
  BY <1>8, <1>9 DEF Loop, PollReady, PollExpire, Resend, Transmit, ReceivePost,
     ReceiveBadRequest, ReceiveUnmatched, ReceiveAck
<1>10. CASE (\E q \in Replies \cup PeerMessages : Receive(q)) \/ ReceiverReturns \/ Tick
              \/ UNCHANGED vars
  BY <1>8, <1>10 DEF Receive, ReceiverReturns, Tick, vars
<1> QED
  BY <1>3, <1>4, <1>5, <1>6, <1>7, <1>9, <1>10 DEF Next, TxRx, Serve

\* A call is given up after the last timeout of the schedule.
LEMMA GivenUpAfterSchedule ==
  ASSUME IInv, OnSchedule, GiveUp
  PROVE  \E i \in DOMAIN inflight, start \in 0 .. now, t \in InitialTimeouts :
           /\ inflight[i].client = inflight[next].client
           /\ Scheduled(inflight[i], start, t)
           /\ now >= start + (2 * Backoff[MaxRetransmit] - 1) * t
<1>1. /\ next \in DOMAIN inflight /\ now >= inflight[next].deadline
      /\ ~ MayResend(inflight[next])
  BY DEF GiveUp, IInv, RetransmitsDuePacket
<1>2. inflight[next] \in Inflight
  BY <1>1, EntryTypes DEF IInv
<1>3. inflight[next].count = MaxRetransmit
  BY <1>1, <1>2, ConstantsAssumption DEF MayResend, Inflight
<1>4. PICK start \in 0 .. now, t \in InitialTimeouts : Scheduled(inflight[next], start, t)
  BY <1>1 DEF OnSchedule
<1>5. inflight[next].deadline = start + (2 * Backoff[MaxRetransmit] - 1) * t
  BY <1>3, <1>4 DEF Scheduled
<1> QED BY <1>1, <1>4, <1>5

\* Retransmissions keep to the schedule of the first transmission, and -EAGAIN is never
\* reported before its end (coap.c:114, 211, 215).
THEOREM ScheduleIsObserved == Spec => RetransmissionSchedule
<1> DEFINE Step ==
      /\ \A j \in DOMAIN inflight' :
           \/ /\ \A i \in DOMAIN inflight : inflight[i].post # inflight'[j].post
              /\ \E t \in InitialTimeouts : Scheduled(inflight'[j], now, t)
           \/ \E i \in DOMAIN inflight, start \in 0 .. now, t \in InitialTimeouts :
                /\ inflight[i].post = inflight'[j].post
                /\ Scheduled(inflight[i], start, t)
                /\ Scheduled(inflight'[j], start, t)
      /\ \A c \in Clients :
           (Waiting(c) /\ frame'[c].sem = 1 /\ frame'[c].err = "EAGAIN") =>
              \E i \in DOMAIN inflight, start \in 0 .. now, t \in InitialTimeouts :
                /\ inflight[i].client = c
                /\ Scheduled(inflight[i], start, t)
                /\ now >= start + (2 * Backoff[MaxRetransmit] - 1) * t
<1>1. IInv /\ OnSchedule /\ [Next]_vars => Step
  <2> SUFFICES ASSUME IInv, OnSchedule, [Next]_vars  PROVE Step
    OBVIOUS
  <2>1. ASSUME NEW c \in Clients, Waiting(c), frame'[c].sem = 1, frame'[c].err = "EAGAIN"
        PROVE  \E i \in DOMAIN inflight, start \in 0 .. now, t \in InitialTimeouts :
                 /\ inflight[i].client = c
                 /\ Scheduled(inflight[i], start, t)
                 /\ now >= start + (2 * Backoff[MaxRetransmit] - 1) * t
    <3>1. GiveUp /\ inflight[next].client = c
      BY <2>1, CallEnds
    <3> QED BY <3>1, GivenUpAfterSchedule
  <2> QED BY <2>1, ScheduleHistory
<1> HIDE DEF Step
<1>2. IInv /\ OnSchedule /\ [Next]_vars => [Step]_vars
  BY <1>1
<1>3. Spec => [][Step]_vars
  BY <1>2, Invariant, EveryEntryOnSchedule, PTL DEF Spec
<1> QED BY <1>3 DEF RetransmissionSchedule, Step

-----------------------------------------------------------------------------
(* Packet buffers.                                                         *)

Callers == {c \in Clients : Waiting(c)}

\* The packet of a waiting call is queued or inflight, and nobody else's is.
LEMMA CallsHoldBuffers ==
  ASSUME IInv
  PROVE  /\ \A c \in Callers : frame[c].post \in data
         /\ \A k \in data : \E c \in Callers : frame[c].post = k
<1>1. TypeOK /\ CallsOwned /\ BuffersOwned
  BY DEF IInv
<1>2. ASSUME NEW c \in Callers  PROVE frame[c].post \in data
  <2>1. CASE \E i \in DOMAIN tx_fifo : tx_fifo[i].client = c
    BY <1>1, <2>1 DEF CallsOwned, BuffersOwned, Live
  <2>2. CASE \E i \in DOMAIN inflight : inflight[i].client = c
    BY <1>1, <2>2 DEF CallsOwned, BuffersOwned, Live
  <2> QED BY <1>1, <2>1, <2>2 DEF CallsOwned, Callers
<1>3. ASSUME NEW k \in data  PROVE \E c \in Callers : frame[c].post = k
  <2>1. CASE \E i \in DOMAIN tx_fifo : tx_fifo[i].post = k
    BY <1>1, <2>1, QueuedTypes DEF CallsOwned, Live, Callers
  <2>2. CASE \E i \in DOMAIN inflight : inflight[i].post = k
    BY <1>1, <2>2, EntryTypes DEF CallsOwned, Live, Callers
  <2> QED BY <1>1, <2>1, <2>2 DEF BuffersOwned
<1> QED BY <1>2, <1>3

\* There are as many packet buffers as calls that wait.
LEMMA OneBufferPerCall ==
  ASSUME IInv
  PROVE  /\ IsFiniteSet(Callers)
         /\ Cardinality(Callers) = Cardinality(data) /\ Cardinality(data) \in Nat
<1> DEFINE caller == [k \in data |-> CHOOSE c \in Callers : frame[c].post = k]
<1>1. \A k \in data : caller[k] \in Callers /\ frame[caller[k]].post = k
  BY CallsHoldBuffers
<1>2. \A c \in Callers : c \in Clients /\ frame[c].post # 0 /\ frame[c].post \in data
  BY CallsHoldBuffers DEF Callers, Waiting
<1>3. \A c, d \in Callers : frame[c].post = frame[d].post => c = d
  BY <1>2 DEF IInv, PostsDistinct
<1>4. caller \in [data -> Callers]
  BY <1>1
<1>5. \A k, l \in data : caller[k] = caller[l] => k = l
  BY <1>1
<1>6. \A c \in Callers : \E k \in data : caller[k] = c
  BY <1>1, <1>2, <1>3
<1> HIDE DEF caller
<1>7. caller \in Bijection(data, Callers)
  BY <1>4, <1>5, <1>6 DEF Bijection, Injection, Surjection, IsInjective
<1>8. ExistsBijection(data, Callers)
  BY <1>7 DEF ExistsBijection
<1>9. IsFiniteSet(data)
  <2>1. data \in SUBSET (1 .. MaxPosts) /\ 1 \in Int /\ MaxPosts \in Int
    BY ConstantsAssumption DEF IInv, TypeOK, PostIds
  <2> QED BY <2>1, FS_Interval, FS_Subset
<1> QED BY <1>8, <1>9, FS_Bijection, FS_CardinalityType

\* However many POSTs are made, the endpoint holds one packet buffer for every call that waits
\* and none for a call that is over, so never more than there are threads that post: nothing
\* leaks on any of the ways a call ends, and the heap's load by POSTs is bounded (coap.c:123,
\* coap.c:185, coap.c:449).
THEOREM BuffersAreBounded ==
  ASSUME IsFiniteSet(Clients)
  PROVE  Spec => [](/\ Cardinality(data) = Cardinality(Callers)
                    /\ Cardinality(data) <= Cardinality(Clients))
<1>1. IInv => /\ Cardinality(data) = Cardinality(Callers)
              /\ Cardinality(data) <= Cardinality(Clients)
  <2>1. Callers \in SUBSET Clients
    BY DEF Callers
  <2>2. Cardinality(Callers) <= Cardinality(Clients)
    BY <2>1, FS_Subset
  <2> QED BY <2>2, OneBufferPerCall
<1> QED BY <1>1, Invariant, PTL

-----------------------------------------------------------------------------
(* The searches of the inflight array.                                     *)

\* A deadline in an s32_t is at least -2^31.
LEMMA SignedIsBounded == \A t \in Nat : Signed(t) \in Int /\ Signed(t) + ClockHalf \in Nat
<1> TAKE t \in Nat
<1> DEFINE a == t + ClockHalf
           b == 2 * ClockHalf
<1>1. a \in Nat /\ b \in Nat \ {0}
  BY ConstantsAssumption
<1> HIDE DEF a, b
<1>2. a \div b \in Int /\ b * (a \div b) <= a
  BY <1>1
<1> QED BY <1>1, <1>2, ConstantsAssumption DEF Signed, Epoch, a, b

\* The scan of next_retransmission ends with exactly one packet, or with NULL: however many
\* deadlines are equal and wherever the clock wraps.
LEMMA ScanHasOneResult ==
  ASSUME TypeOK
  PROVE  \E n \in 0 .. Len(inflight) :
           /\ next_retransmission(n)
           /\ \A m \in Nat : next_retransmission(m) => m = n
<1> DEFINE key(i) == Signed(inflight[i].deadline)
<1>1. /\ inflight \in Seq(Inflight) /\ Len(inflight) \in Nat
      /\ DOMAIN inflight = 1 .. Len(inflight)
  BY DEF TypeOK
<1>2. Pending \subseteq 1 .. Len(inflight)
  BY <1>1 DEF Pending
<1>3. \A i \in Pending : key(i) \in Int /\ key(i) + ClockHalf \in Nat
  BY <1>1, <1>2, EntryTypes, SignedIsBounded
<1>4. \A i, j \in Pending :
        Before(inflight[i].deadline, inflight[j].deadline) <=> key(i) < key(j)
  BY DEF Before
<1> HIDE DEF key
<1>5. CASE Pending = {}
  BY <1>1, <1>5 DEF next_retransmission
<1>6. CASE Pending # {}
  <2> DEFINE Keys == {key(i) + ClockHalf : i \in Pending}
  <2>1. Keys \in SUBSET Nat /\ Keys # {}
    BY <1>3, <1>6
  <2>2. PICK least \in Keys : \A k \in Keys : least <= k
    <3> HIDE DEF Keys
    <3> QED BY <2>1, LeastNumber
  <2> DEFINE First == {i \in Pending : key(i) + ClockHalf = least}
  <2>3. First \in SUBSET Nat /\ First # {}
    <3>1. \E i \in Pending : key(i) + ClockHalf = least
      BY <2>2
    <3>2. \A i \in Pending : i \in Nat
      BY <1>1, <1>2
    <3> QED BY <3>1, <3>2
  <2>4. PICK n \in First : \A i \in First : n <= i
    <3> HIDE DEF First
    <3> QED BY <2>3, LeastNumber
  <2>5. n \in Pending /\ n \in 1 .. Len(inflight) /\ key(n) + ClockHalf = least
    BY <1>2, <2>4
  <2>6. \A j \in Pending : key(n) <= key(j) /\ (j < n => key(n) < key(j))
    <3> TAKE j \in Pending
    <3>1. key(j) + ClockHalf \in Keys
      OBVIOUS
    <3>2. least <= key(j) + ClockHalf
      BY <2>2, <3>1
    <3>3. key(n) \in Int /\ key(j) \in Int /\ ClockHalf \in Nat /\ j \in Nat /\ n \in Nat
      BY <1>2, <1>3, <2>5, ConstantsAssumption
    <3>4. key(n) <= key(j)
      BY <2>5, <3>2, <3>3
    <3>5. j < n => key(j) # key(n)
      BY <2>4, <2>5, <3>3
    <3> QED BY <3>3, <3>4, <3>5
  <2>7. next_retransmission(n)
    BY <1>3, <1>4, <2>5, <2>6 DEF next_retransmission
  <2>8. ASSUME NEW m \in Nat, next_retransmission(m)  PROVE m = n
    <3>1. m \in Pending /\ \A j \in Pending : ~ (key(j) < key(m)) /\ (j < m => key(m) < key(j))
      BY <1>4, <1>6, <2>8 DEF next_retransmission
    <3>2. key(n) \in Int /\ key(m) \in Int /\ n \in Nat
      BY <1>3, <2>5, <3>1
    <3>3. ~ (n < m) /\ ~ (m < n)
      BY <2>5, <2>6, <3>1, <3>2
    <3> QED BY <3>2, <3>3
  <2> QED BY <2>5, <2>7, <2>8
<1> QED BY <1>5, <1>6

\* get_inflight_packet finds exactly one entry, or none matches.
LEMMA MatchHasOneResult ==
  ASSUME TypeOK, NEW p
  PROVE  /\ NoMatch(p) \/ \E i \in DOMAIN inflight : get_inflight_packet(i, p)
         /\ \A i, j \in DOMAIN inflight :
              get_inflight_packet(i, p) /\ get_inflight_packet(j, p) => i = j
         /\ ~ (NoMatch(p) /\ \E i \in DOMAIN inflight : get_inflight_packet(i, p))
<1> DEFINE Found == {i \in DOMAIN inflight : Matches(inflight[i], p)}
<1>1. DOMAIN inflight = 1 .. Len(inflight) /\ Len(inflight) \in Nat
  BY DEF TypeOK
<1>2. ASSUME ~ NoMatch(p)  PROVE \E i \in DOMAIN inflight : get_inflight_packet(i, p)
  <2>1. Found \in SUBSET Nat /\ Found # {}
    BY <1>1, <1>2 DEF NoMatch
  <2>2. PICK i \in Found : \A j \in Found : i <= j
    <3> HIDE DEF Found
    <3> QED BY <2>1, LeastNumber
  <2>3. \A j \in 1 .. i - 1 : j \in DOMAIN inflight /\ ~ (i <= j)
    BY <1>1, <2>2
  <2>4. \A j \in 1 .. i - 1 : ~ Matches(inflight[j], p)
    BY <2>2, <2>3
  <2> QED BY <2>2, <2>4 DEF get_inflight_packet
<1>3. ASSUME NEW i \in DOMAIN inflight, NEW j \in DOMAIN inflight,
             get_inflight_packet(i, p), get_inflight_packet(j, p)
      PROVE  i = j
  <2>1. i \notin 1 .. j - 1 /\ j \notin 1 .. i - 1
    BY <1>3 DEF get_inflight_packet
  <2> QED BY <1>1, <2>1
<1>4. ~ (NoMatch(p) /\ \E i \in DOMAIN inflight : get_inflight_packet(i, p))
  BY DEF NoMatch, get_inflight_packet
<1> QED BY <1>2, <1>3, <1>4

\* Whatever the array holds when the loop begins, next_retransmission has one result: the
\* thread is never without a packet to poll for, nor left to choose one (coap.c:134).
THEOREM LoopFindsOnePacket ==
  Spec => [](\E n \in 0 .. Len(inflight) :
               /\ next_retransmission(n)
               /\ \A m \in Nat : next_retransmission(m) => m = n)
<1> QED BY ScanHasOneResult, TypeCorrect, PTL

\* The ways through receive_packet, by the guards of the actions that model them.
WaysOf(p) ==
  LET found == \E i \in DOMAIN inflight : get_inflight_packet(i, p)
  IN  {w \in {"post"} : p.code = "POST_message"}
      \cup {w \in {"bad_request"} : is_request(p) /\ p.code # "POST_message"}
      \cup {w \in {"unmatched"} : ~ is_request(p) /\ NoMatch(p)}
      \cup {w \in {"reset"} : ~ is_request(p) /\ p.type = "RST" /\ found}
      \cup {w \in {"response"} : is_response(p) /\ p.type # "RST" /\ found}
      \cup {w \in {"acknowledgement"} : p.code = "EMPTY" /\ p.type # "RST" /\ found}

\* Every packet that waits in rx_fifo, whoever sent it, has exactly one way through
\* receive_packet: none is handled twice, and none stops the thread (coap.c:240).
THEOREM EveryPacketHasOneWay ==
  Spec => [](rx_fifo # << >> => \E w : WaysOf(Head(rx_fifo)) = {w})
<1>1. ASSUME TypeOK, rx_fifo # << >>
      PROVE  \E w : WaysOf(Head(rx_fifo)) = {w}
  <2>1. PICK p \in Packet : p = Head(rx_fifo)
    BY <1>1, TailFacts DEF TypeOK
  <2> DEFINE found == \E i \in DOMAIN inflight : get_inflight_packet(i, p)
  <2>2. found <=> ~ NoMatch(p)
    BY <1>1, MatchHasOneResult
  <2>3. p.code \in AllRequestKinds \cup {"EMPTY", "RESPONSE"}
    BY DEF Packet
  <2>4. WaysOf(p) =
          {w \in {"post"} : p.code = "POST_message"}
          \cup {w \in {"bad_request"} : is_request(p) /\ p.code # "POST_message"}
          \cup {w \in {"unmatched"} : ~ is_request(p) /\ NoMatch(p)}
          \cup {w \in {"reset"} : ~ is_request(p) /\ p.type = "RST" /\ found}
          \cup {w \in {"response"} : is_response(p) /\ p.type # "RST" /\ found}
          \cup {w \in {"acknowledgement"} : p.code = "EMPTY" /\ p.type # "RST" /\ found}
    BY DEF WaysOf
  <2> HIDE DEF found
  <2>5. CASE p.code = "POST_message"
    <3>1. is_request(p) /\ ~ is_response(p) /\ p.code # "EMPTY"
      BY <2>5 DEF is_request, is_response, AllRequestKinds
    <3>2. WaysOf(p) = {"post"}
      BY <2>4, <2>5, <3>1
    <3> QED BY <2>1, <3>2
  <2>6. CASE is_request(p) /\ p.code # "POST_message"
    <3>1. ~ is_response(p) /\ p.code # "EMPTY"
      BY <2>6 DEF is_request, is_response, AllRequestKinds
    <3>2. WaysOf(p) = {"bad_request"}
      BY <2>4, <2>6, <3>1
    <3> QED BY <2>1, <3>2
  <2>7. CASE ~ is_request(p)
    <3>1. p.code # "POST_message" /\ (is_response(p) <=> p.code # "EMPTY")
      BY <2>3, <2>7 DEF is_request, is_response, AllRequestKinds
    <3>2. CASE NoMatch(p)
      <4>1. WaysOf(p) = {"unmatched"}
        BY <2>2, <2>4, <2>7, <3>1, <3>2
      <4> QED BY <2>1, <4>1
    <3>3. CASE found /\ p.type = "RST"
      <4>1. WaysOf(p) = {"reset"}
        BY <2>2, <2>4, <2>7, <3>1, <3>3
      <4> QED BY <2>1, <4>1
    <3>4. CASE found /\ p.type # "RST" /\ is_response(p)
      <4>1. WaysOf(p) = {"response"}
        BY <2>2, <2>4, <2>7, <3>1, <3>4
      <4> QED BY <2>1, <4>1
    <3>5. CASE found /\ p.type # "RST" /\ p.code = "EMPTY"
      <4>1. WaysOf(p) = {"acknowledgement"}
        BY <2>2, <2>4, <2>7, <3>1, <3>5
      <4> QED BY <2>1, <4>1
    <3> QED BY <2>2, <3>1, <3>2, <3>3, <3>4, <3>5
  <2> QED BY <2>5, <2>6, <2>7
<1> QED BY <1>1, TypeCorrect, PTL

-----------------------------------------------------------------------------
(* Where the comments of the repository are right.                         *)

\* A POST that was sent was made, and only a call that is running has its semaphore given.
Made == /\ sent \subseteq 1 .. posts
        /\ \A c \in Clients : frame[c].sem = 1 => frame[c].post # 0

\* Every handler the endpoint holds belongs to a POST that was made.
LEMMA HeldWasMade ==
  ASSUME IInv
  PROVE  /\ \A i \in DOMAIN tx_fifo : tx_fifo[i].post \in 1 .. posts
         /\ \A i \in DOMAIN inflight : inflight[i].post \in 1 .. posts
<1>1. TypeOK /\ CallsOwned /\ PostsDistinct /\ posts \in Nat
  BY ConstantsAssumption DEF IInv, TypeOK
<1>2. \A c \in Clients : frame[c].post <= posts
  BY <1>1 DEF PostsDistinct
<1>3. \A i \in DOMAIN tx_fifo : tx_fifo[i].post \in 1 .. posts
  <2> TAKE i \in DOMAIN tx_fifo
  <2>1. tx_fifo[i].post \in Nat /\ tx_fifo[i].post >= 1 /\ tx_fifo[i].client \in Clients
    BY <1>1, QueuedTypes, ConstantsAssumption DEF PostIds
  <2>2. tx_fifo[i].post = frame[tx_fifo[i].client].post
    BY <1>1 DEF CallsOwned, Live
  <2> QED BY <1>1, <1>2, <2>1, <2>2
<1>4. \A i \in DOMAIN inflight : inflight[i].post \in 1 .. posts
  <2> TAKE i \in DOMAIN inflight
  <2>1. inflight[i].post \in Nat /\ inflight[i].post >= 1 /\ inflight[i].client \in Clients
    BY <1>1, EntryTypes, ConstantsAssumption DEF PostIds
  <2>2. inflight[i].post = frame[inflight[i].client].post
    BY <1>1 DEF CallsOwned, Live
  <2> QED BY <1>1, <1>2, <2>1, <2>2
<1> QED BY <1>3, <1>4

\* A POST enters the set of those that were sent from tx_fifo or the inflight array.
LEMMA SentStep ==
  ASSUME IInv, sent \subseteq 1 .. posts, [Next]_vars
  PROVE  sent' \subseteq 1 .. posts'
<1>0. TypeOK /\ posts \in Nat
  BY ConstantsAssumption DEF IInv, TypeOK
<1>1. CASE Resend
  <2>1. inflight[next].post \in 1 .. posts
    BY <1>1, HeldWasMade DEF Resend, IInv, RetransmitsDuePacket
  <2> QED BY <1>1, <2>1 DEF Resend
<1>2. CASE Transmit
  <2>1. Head(tx_fifo).post \in 1 .. posts
    BY <1>0, <1>2, TakeTxFacts, HeldWasMade DEF Transmit
  <2> QED BY <1>2, <2>1 DEF Transmit, TakeTx
<1>3. CASE \E c \in Clients : Post(c)
  <2>1. sent' = sent /\ posts' = posts + 1
    BY <1>3 DEF Post
  <2>2. 1 .. posts \subseteq 1 .. posts + 1
    BY <1>0
  <2> QED BY <2>1, <2>2
<1>4. CASE UNCHANGED <<sent, posts>>
  BY <1>4
<1>5. CASE (\E c \in Clients : PostNoMemory(c) \/ Return(c)) \/ GiveUp
  BY <1>4, <1>5 DEF PostNoMemory, Return, GiveUp
<1>6. CASE Loop \/ PollReady \/ PollExpire
  BY <1>4, <1>6 DEF Loop, PollReady, PollExpire
<1>7. CASE TransmitNoMemory \/ ReceivePost \/ ReceiveBadRequest \/ ReceiveReset
             \/ ReceiveResponse \/ ReceiveAck \/ ReceiveUnmatched
  BY <1>4, <1>7 DEF TransmitNoMemory, TakeTx, ReceivePost, ReceiveBadRequest, ReceiveReset,
     ReceiveResponse, ReceiveAck, ReceiveUnmatched, TakeRx
<1>8. CASE (\E p \in Replies \cup PeerMessages : Receive(p)) \/ ReceiverReturns \/ Tick
             \/ UNCHANGED vars
  BY <1>4, <1>8 DEF Receive, ReceiverReturns, Tick, vars
<1> QED
  BY <1>1, <1>2, <1>3, <1>5, <1>6, <1>7, <1>8 DEF Next, TxRx, Serve

\* Only a call that is running ends.
LEMMA DoneStep ==
  ASSUME IInv, \A d \in Clients : frame[d].sem = 1 => frame[d].post # 0, [Next]_vars,
         NEW c \in Clients, frame'[c].sem = 1
  PROVE  frame'[c].post # 0
<1>0. TypeOK /\ CallsOwned /\ frame[c].sem \in {0, 1}
  BY DEF IInv, TypeOK
<1>1. CASE frame'[c] = frame[c]
  BY <1>1
<1>2. ASSUME NEW d \in Clients, NEW err, NEW tok, post_handler(d, err, tok), Waiting(d)
      PROVE  frame'[c].post # 0
  BY <1>0, <1>1, <1>2, HandlerFacts DEF Waiting
<1>3. CASE GiveUp
  <2>1. next \in DOMAIN inflight /\ post_handler(inflight[next].client, "EAGAIN", NoToken)
    BY <1>3 DEF GiveUp, IInv, RetransmitsDuePacket
  <2> QED BY <1>0, <1>2, <2>1, EntryTypes DEF CallsOwned, Live
<1>4. CASE TransmitNoMemory
  <2>1. /\ 1 \in DOMAIN tx_fifo /\ Head(tx_fifo) = tx_fifo[1]
        /\ post_handler(Head(tx_fifo).client, "ENOMEM", NoToken)
    BY <1>0, <1>4, TakeTxFacts DEF TransmitNoMemory
  <2> QED BY <1>0, <1>2, <2>1, QueuedTypes DEF CallsOwned, Live
<1>5. CASE ReceiveReset \/ ReceiveResponse
  <2>1. PICK i \in DOMAIN inflight, err \in {"ECANCELED", "ok"}, tok \in {NoToken, Head(rx_fifo).tok} :
          post_handler(inflight[i].client, err, tok)
    BY <1>5 DEF ReceiveReset, ReceiveResponse
  <2> QED BY <1>0, <1>2, <2>1, EntryTypes DEF CallsOwned, Live
<1>6. CASE \E d \in Clients : Post(d) \/ PostNoMemory(d) \/ Return(d)
  <2>1. PICK d \in Clients : Post(d) \/ PostNoMemory(d) \/ Return(d)
    BY <1>6
  <2>2. frame'[d].sem = 0
    BY <1>0, <2>1 DEF Post, PostNoMemory, Return, TypeOK
  <2>3. c # d
    BY <2>2
  <2>4. frame'[c] = frame[c]
    BY <1>0, <2>1, <2>3 DEF Post, PostNoMemory, Return, TypeOK
  <2> QED BY <1>1, <2>4
<1>7. CASE Loop \/ PollReady \/ PollExpire \/ Resend \/ Transmit \/ ReceivePost
             \/ ReceiveBadRequest \/ ReceiveUnmatched \/ ReceiveAck
  BY <1>1, <1>7 DEF Loop, PollReady, PollExpire, Resend, Transmit, ReceivePost,
     ReceiveBadRequest, ReceiveUnmatched, ReceiveAck
<1>8. CASE (\E q \in Replies \cup PeerMessages : Receive(q)) \/ ReceiverReturns \/ Tick
             \/ UNCHANGED vars
  BY <1>1, <1>8 DEF Receive, ReceiverReturns, Tick, vars
<1> QED
  BY <1>3, <1>4, <1>5, <1>6, <1>7, <1>8 DEF Next, TxRx, Serve

\* Only POSTs that were made are sent, and only calls that are running end.
LEMMA MadeInvariant == Spec => []Made
<1>1. Init => Made
  BY DEF Init, Made
<1>2. IInv /\ Made /\ [Next]_vars => Made'
  BY SentStep, DoneStep DEF Made
<1> QED BY <1>1, <1>2, Invariant, PTL DEF Spec

\* Ids are told apart until the counter has gone through all of them once.
LEMMA IdsDiffer ==
  ASSUME NEW k \in 1 .. IdSpace, NEW l \in 1 .. IdSpace, k % IdSpace = l % IdSpace
  PROVE  k = l
<1>1. IdSpace \in Nat \ {0}
  BY ConstantsAssumption
<1>2. \A m \in 1 .. IdSpace : m # IdSpace => m % IdSpace = m
  BY <1>1
<1>3. IdSpace % IdSpace = 0
  BY <1>1
<1> QED BY <1>1, <1>2, <1>3

\* The ids of the POSTs that were made are not in use by a peer.
IdsApart == \A k \in 1 .. posts : IdOf(k) \notin PeerIds

\* Until 2^16 POSTs have been made, and while the peers do not use the ids of those that were,
\* the response a POST returns is its own, as coap.h:11 and 20 say (coap.c:159, 171).
THEOREM ResponsesAreOwn ==
  Spec => [](posts <= IdSpace /\ IdsApart => ResponseAnswersPost)
<1>1. ASSUME IInv, Made, MisdeliveryNeedsCollision, posts <= IdSpace, IdsApart,
             NEW c \in Clients, frame[c].err = "ok", frame[c].sem = 1
      PROVE  frame[c].tok = frame[c].post
  <2> SUFFICES ASSUME frame[c].tok # frame[c].post  PROVE FALSE
    OBVIOUS
  <2>1. posts \in Nat /\ IdSpace \in Nat /\ frame[c].post \in Nat /\ frame[c].post <= posts
    BY <1>1, ConstantsAssumption DEF IInv, TypeOK, PostsDistinct
  <2>2. frame[c].post \in 1 .. posts
    BY <1>1, <2>1 DEF Made
  <2>3. 1 .. posts \subseteq 1 .. IdSpace
    BY <1>1, <2>1
  <2>4. PICK k \in sent : k # frame[c].post /\ k % IdSpace = frame[c].post % IdSpace
    BY <1>1, <2>2 DEF MisdeliveryNeedsCollision, IdsApart
  <2> QED BY <1>1, <2>2, <2>3, <2>4, IdsDiffer DEF Made
<1>2. IInv /\ Made /\ MisdeliveryNeedsCollision
        => (posts <= IdSpace /\ IdsApart => ResponseAnswersPost)
  BY <1>1 DEF ResponseAnswersPost
<1> QED BY <1>2, Invariant, MadeInvariant, MisdeliveryIsCollision, PTL

\* What takes a POST's retransmission back: an empty packet that matches its entry.
LEMMA StopsByEmptyPacket ==
  ASSUME IInv, FromNetwork, [Next]_vars, NEW i \in DOMAIN inflight, inflight[i].retransmit,
         i \in DOMAIN inflight', inflight'[i].post = inflight[i].post,
         ~ inflight'[i].retransmit
  PROVE  /\ Head(rx_fifo) \in Replies \cup PeerMessages
         /\ Head(rx_fifo).code = "EMPTY" /\ Head(rx_fifo).type # "RST"
         /\ Matches(inflight[i], Head(rx_fifo))
<1>1. TypeOK /\ BuffersOwned /\ inflight \in Seq(Inflight)
  BY DEF IInv, TypeOK
<1>2. PICK k \in DOMAIN inflight : Becomes(inflight[k], inflight'[i])
  BY EntryHistory
<1>3. inflight[k] \in Inflight
  BY <1>1, EntryTypes
<1>4. inflight'[i].post = inflight[k].post
  BY <1>2, <1>3 DEF Becomes, Postponed, Inflight
<1>5. k = i
  BY <1>1, <1>4 DEF BuffersOwned
<1>6. inflight'[i] # inflight[i]
  OBVIOUS
<1>7. Postponed(inflight[i]).retransmit = inflight[i].retransmit
  BY <1>3, <1>5 DEF Postponed, Inflight
<1>8. ReceiveAck
  BY <1>2, <1>5, <1>6, <1>7 DEF Becomes
<1>9. PICK l \in DOMAIN inflight :
        /\ Matches(inflight[l], Head(rx_fifo))
        /\ inflight' = [inflight EXCEPT ![l].retransmit = FALSE]
  BY <1>8 DEF ReceiveAck, get_inflight_packet
<1>10. l = i
  BY <1>1, <1>6, <1>9
<1>11. Head(rx_fifo) \in Replies \cup PeerMessages
  BY <1>1, <1>8, HeadFromNetwork DEF ReceiveAck, TakeRx
<1> QED BY <1>8, <1>9, <1>10, <1>11 DEF ReceiveAck

\* As long as the peers do not use the POSTs' ids for messages of their own, only an
\* acknowledgement ends the retransmission of a POST that waits, as coap.c:269 says.
THEOREM OnlyAcknowledgementsStop ==
  ASSUME \A k \in PostIds : IdOf(k) \notin PeerIds
  PROVE  Spec => OnlyAcknowledgementsStopRetransmission
<1> DEFINE Step ==
      \A i \in DOMAIN inflight :
        (inflight[i].retransmit /\ i \in DOMAIN inflight' /\ inflight'[i].post = inflight[i].post
           /\ ~ inflight'[i].retransmit)
          => Head(rx_fifo).type = "ACK"
<1>1. IInv /\ FromNetwork /\ [Next]_vars => Step
  <2> SUFFICES ASSUME IInv, FromNetwork, [Next]_vars, NEW i \in DOMAIN inflight,
                      inflight[i].retransmit, i \in DOMAIN inflight',
                      inflight'[i].post = inflight[i].post, ~ inflight'[i].retransmit
               PROVE  Head(rx_fifo).type = "ACK"
    OBVIOUS
  <2> DEFINE p == Head(rx_fifo)
  <2>1. /\ p \in Replies \cup PeerMessages
        /\ p.code = "EMPTY" /\ p.type # "RST" /\ Matches(inflight[i], p)
    BY StopsByEmptyPacket
  <2>2. inflight[i].post \in PostIds /\ inflight[i].post # NoToken
    BY EntryTypes, ConstantsAssumption DEF IInv, PostIds, NoToken
  <2> HIDE DEF p
  <2>3. CASE p \in Replies
    <3>1. p.type = "ACK"
      BY <2>1, <2>3 DEF Replies
    <3> QED BY <3>1 DEF p
  <2>4. CASE p \in PeerMessages
    <3>1. p.tok = NoToken /\ p.id \in PeerIds
      BY <2>4 DEF PeerMessages
    <3>2. p.id = IdOf(inflight[i].post)
      BY <2>1, <2>2, <3>1 DEF Matches
    <3> QED BY <2>2, <3>1, <3>2
  <2> QED BY <2>1, <2>3, <2>4
<1> HIDE DEF Step
<1>2. IInv /\ FromNetwork /\ [Next]_vars => [Step]_vars
  BY <1>1
<1>3. Spec => [][Step]_vars
  BY <1>2, Invariant, FifoInvariant, PTL DEF Spec
<1> QED BY <1>3 DEF OnlyAcknowledgementsStopRetransmission, Step

\* The factors grow.
LEMMA BackoffGrows == \A k \in 0 .. MaxRetransmit : Backoff[k] <= Backoff[MaxRetransmit]
<1> DEFINE Bad == {d \in 0 .. MaxRetransmit :
                     ~ (Backoff[MaxRetransmit - d] <= Backoff[MaxRetransmit])}
<1>1. MaxRetransmit \in Nat
  BY ConstantsAssumption
<1>2. ASSUME Bad # {}  PROVE FALSE
  <2>1. PICK d \in Bad : \A m \in Bad : d <= m
    <3>1. Bad \in SUBSET Nat
      OBVIOUS
    <3> HIDE DEF Bad
    <3> QED BY <1>2, <3>1, LeastNumber
  <2>2. d # 0
    BY <1>1, <2>1, BackoffTypes
  <2> DEFINE k == MaxRetransmit - d
  <2>3. /\ k \in 0 .. MaxRetransmit /\ k # MaxRetransmit
        /\ k + 1 = MaxRetransmit - (d - 1) /\ k + 1 \in 0 .. MaxRetransmit
        /\ d - 1 \in 0 .. MaxRetransmit /\ ~ (d <= d - 1)
    BY <1>1, <2>1, <2>2
  <2>4. Backoff[k + 1] <= Backoff[MaxRetransmit]
    BY <2>1, <2>3
  <2>5. /\ Backoff[k + 1] = 2 * Backoff[k]
        /\ Backoff[k] \in Nat /\ Backoff[MaxRetransmit] \in Nat
    BY <1>1, <2>3, BackoffDoubles, BackoffTypes
  <2>6. Backoff[k] <= Backoff[MaxRetransmit]
    BY <2>4, <2>5
  <2> QED BY <2>1, <2>6
<1>3. ASSUME NEW k \in 0 .. MaxRetransmit  PROVE Backoff[k] <= Backoff[MaxRetransmit]
  <2>1. MaxRetransmit - k \in 0 .. MaxRetransmit /\ MaxRetransmit - (MaxRetransmit - k) = k
    BY <1>1
  <2> QED BY <1>2, <2>1
<1> QED BY <1>3

\* The clock, and every deadline that may still be set, is before the first wrap of an s32_t.
BeforeWrap ==
  \A t \in InitialTimeouts : now + (2 * Backoff[MaxRetransmit] - 1) * t < ClockHalf

\* For the first 24 days the thread sleeps for the packet with the earliest deadline, as
\* coap.c:133 says: until the clock and the schedules reach 2^31 milliseconds (coap.c:138).
THEOREM EarliestUntilWrap == Spec => [](BeforeWrap => EarliestFirst)
<1>1. ASSUME IInv, OnSchedule, BeforeWrap, NEW i \in DOMAIN inflight
      PROVE  Epoch(inflight[i].deadline) = 0
  <2>1. PICK start \in 0 .. now, t \in InitialTimeouts : Scheduled(inflight[i], start, t)
    BY <1>1 DEF OnSchedule
  <2> DEFINE b == Backoff[inflight[i].count]
             m == Backoff[MaxRetransmit]
  <2>2. /\ inflight[i].deadline \in Nat /\ inflight[i].count \in 0 .. MaxRetransmit
        /\ now \in Nat /\ t \in Nat
    BY <1>1, <2>1, EntryTypes, ConstantsAssumption DEF IInv, TypeOK, Inflight
  <2>3. b \in Nat \ {0} /\ m \in Nat \ {0} /\ b <= m
    BY <2>2, BackoffTypes, BackoffGrows, ConstantsAssumption
  <2>4. inflight[i].deadline = start + (2 * b - 1) * t /\ now + (2 * m - 1) * t < ClockHalf
    BY <1>1, <2>1 DEF Scheduled, BeforeWrap
  <2> HIDE DEF b, m
  <2>5. (2 * b - 1) * t <= (2 * m - 1) * t
    <3>1. 2 * m - 1 = (2 * b - 1) + 2 * (m - b)
      BY <2>3
    <3>2. m - b \in Nat
      BY <2>3
    <3>3. (m - b) * t >= 0
      BY <2>2, <3>2
    <3>4. (2 * m - 1) * t = (2 * b - 1) * t + 2 * ((m - b) * t)
      BY <2>2, <2>3
    <3>5. (2 * b - 1) * t \in Int /\ (2 * m - 1) * t \in Int /\ (m - b) * t \in Int
      BY <2>2, <2>3
    <3> QED BY <3>3, <3>4, <3>5
  <2>6. inflight[i].deadline < ClockHalf
    <3>1. (2 * b - 1) * t \in Int /\ (2 * m - 1) * t \in Int /\ ClockHalf \in Nat
      BY <2>2, <2>3, ConstantsAssumption
    <3> QED BY <2>1, <2>2, <2>4, <2>5, <3>1
  <2> QED BY <2>2, <2>6, ConstantsAssumption DEF Epoch
<1>2. IInv /\ OnSchedule => (BeforeWrap => EarliestFirst)
  BY <1>1 DEF IInv, EarliestUnlessWrapped, EarliestFirst, Pending
<1> QED BY <1>2, Invariant, EveryEntryOnSchedule, PTL

-----------------------------------------------------------------------------
(* The late acknowledgement.                                               *)

\* The receiver thread queues nothing between the timeout that woke the other thread and what
\* that thread does about it.
NothingComesLate == [][pc = "expired" => UNCHANGED rx_fifo]_vars

\* The thread believes that nothing was received before the timeout.
NothingReceived == pc = "expired" => rx_fifo = << >>

\* Only an expired k_poll, which found both FIFOs empty, leads to retransmit_packet.
LEMMA ExpiresEmpty ==
  ASSUME NothingReceived, [Next]_vars, [pc = "expired" => UNCHANGED rx_fifo]_vars
  PROVE  NothingReceived'
<1>1. CASE pc = "expired"
  BY <1>1 DEF NothingReceived, vars
<1>2. CASE pc # "expired"
  <2>1. CASE PollExpire
    BY <2>1 DEF PollExpire, NothingReceived
  <2>2. CASE Loop \/ PollReady \/ Resend \/ GiveUp
    BY <2>2 DEF Loop, PollReady, Resend, GiveUp, NothingReceived
  <2>3. CASE Serve
    BY <2>3 DEF Serve, Transmit, TransmitNoMemory, TakeTx, ReceivePost, ReceiveBadRequest,
       ReceiveReset, ReceiveResponse, ReceiveAck, ReceiveUnmatched, TakeRx, NothingReceived
  <2>4. CASE (\E c \in Clients : Post(c) \/ PostNoMemory(c) \/ Return(c))
             \/ (\E p \in Replies \cup PeerMessages : Receive(p)) \/ ReceiverReturns \/ Tick
             \/ UNCHANGED vars
    BY <1>2, <2>4 DEF Post, PostNoMemory, Return, Receive, ReceiverReturns, Tick, vars,
       NothingReceived
  <2> QED BY <2>1, <2>2, <2>3, <2>4 DEF Next, TxRx
<1> QED BY <1>1, <1>2

\* What coap.h:15 says of -EAGAIN is true but for the packets that the receiver thread queues
\* between the timeout and its handling (coap.c:216, 323): nothing older is overlooked.
THEOREM EagainIsTrueUnlessLate == Spec /\ NothingComesLate => EagainMeansUnacknowledged
<1> DEFINE Step ==
      \A c \in Clients :
        (Waiting(c) /\ frame'[c].sem = 1 /\ frame'[c].err = "EAGAIN")
          => ~ \E i \in DOMAIN rx_fifo :
                 /\ rx_fifo[i].addr = Remote /\ rx_fifo[i].type = "ACK"
                 /\ ~ is_request(rx_fifo[i])
                 /\ rx_fifo[i].id = IdOf(frame[c].post)
           Quiet == pc = "expired" => UNCHANGED rx_fifo
<1>1. Init => NothingReceived
  BY DEF Init, NothingReceived
<1>2. NothingReceived /\ [Next]_vars /\ [Quiet]_vars => NothingReceived'
  BY ExpiresEmpty
<1>3. IInv /\ NothingReceived /\ [Next]_vars => Step
  <2> SUFFICES ASSUME IInv, NothingReceived, [Next]_vars, NEW c \in Clients,
                      Waiting(c), frame'[c].sem = 1, frame'[c].err = "EAGAIN"
               PROVE  rx_fifo = << >>
    OBVIOUS
  <2>1. GiveUp
    BY CallEnds
  <2> QED BY <2>1 DEF GiveUp, NothingReceived
<1> HIDE DEF Step
<1>4. IInv /\ NothingReceived /\ [Next]_vars => [Step]_vars
  BY <1>3
<1>5. NothingComesLate => [][Quiet]_vars
  BY DEF NothingComesLate
<1> HIDE DEF Quiet
<1>6. Spec /\ NothingComesLate => [][Step]_vars
  BY <1>1, <1>2, <1>4, <1>5, Invariant, PTL DEF Spec
<1> QED BY <1>6 DEF EagainMeansUnacknowledged, Step

=============================================================================
