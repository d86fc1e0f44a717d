# Verification of dt_app

TLA+ models of the nRF9160 CoAP and MQTT test applications in `src/`, the TLC runs that check
them on small instances, and theorems about them that TLAPS proves for every value of the
constants.

## 1. The system

| Component | Source | State | Operations |
|---|---|---|---|
| CoAP calls | `coap_telenor/src/coap.c` 395-501 | `post_handler_data` in the caller's stack frame | `coap_endpoint_post`, `coap_endpoint_post_async`, `post_handler` |
| CoAP transmit/receive thread | `coap.c` 97-347 | the inflight array, `retransmission`, the poll events, two FIFOs | `transmit_packet`, `retransmit_packet`, `receive_packet` |
| CoAP receiver thread | `coap.c` 62-90 | one heap block | `recvfrom`, parse, queue |
| CoAP server side | `coap.c` 243-253, 503-580, `main.c` 60-77 | none | `message_post`, respond, acknowledge, reset |
| CoAP start | `coap.c` 355-392 | the endpoint, or NULL | `coap_endpoint_init` |
| CoAP test application | `coap_telenor/src/main.c` | `transmit`, `actual_tau`, `minutes`, `sample_cnt`, `test_index` | start, periodic test, timer interrupt, buttons |
| MQTT module | `mqtt/src/mqtt_module/mqtt_module.c` | `client`, `connected`, `fds`, buffers | MQTT thread, event handler, publish, payload read |
| MQTT test application | `mqtt/src/main.c` | as the CoAP application, `err` | start, periodic test, timer interrupt, buttons |
| Deprecated CoAP sample | `deprecated/coap_nordic` | `coap_buf`, `next_token`, `connected`, the socket | `client_get_send`, `client_post_send`, the thread that receives |
| Deprecated LTE helpers | `deprecated/lte_helpers.c` | none: two tables | how an answer of the modem becomes seconds |
| Deprecated sensor stub, build files | `deprecated/sensor_emulator.c`, `prj.conf`, Kconfig | none | none |

The main thread and the button's work queue call `coap_endpoint_post`. It allocates a packet,
puts it into `tx_fifo` and waits on a semaphore in its own stack frame. The transmit/receive
thread polls `tx_fifo` and `rx_fifo`; it sends the packet, keeps it in the inflight array, sends
it again with doubled timeouts, matches what the receiver thread queued in `rx_fifo` against the
array, and calls `post_handler`, which stores the result in the frame and gives the semaphore.
Both endpoint threads are cooperative (priority -1) and take turns only where they block; the
clients are preemptible and never touch the array.

In both applications `main` runs a periodic test that a timer interrupt triggers through the flag
`transmit`. `main` starts what it posts through after the buttons already work, and asks the modem
for the granted TAU, which sets the interval. In the MQTT one a thread of its own polls the socket; the
client library calls the event handler in the thread that called the library, so a publisher's
failing write clears `connected` from `main` or the button's work queue.

The deprecated sample is the CoAP application's predecessor: its thread receives into the same
buffer in which its callers build requests, and nothing orders the two.

Hard to test here: the pointer into the array that is kept across `k_poll`; handlers that write
into another thread's stack; entries that move while other calls are inflight; a timeout that
races an answer; late, lost, duplicated and reordered datagrams; message ids of two independent
number spaces; requests typed as acknowledgements; a heap of about four packets; a timeout that
happens to be `K_FOREVER`; a clock that wraps; a button pressed before anything is started; a
buffer with several users.
`PROJECT.json` lists each hazard at its line with the properties that watch it.

## 2. Modules

| Module | What it is |
|---|---|
| `CoapExchange` | abstract specification: what `coap_endpoint_post` promises its callers |
| `CoapEndpoint` | the endpoint: clients, both threads, FIFOs, allocations, clock, network and peer; its properties and inductive invariant |
| `CoapRefinement` | the refinement mapping from `CoapEndpoint` to `CoapExchange` |
| `PeriodicTest` | the periodic test and its timer interrupt, of both applications; its inductive invariant |
| `LteHelpers` | the tables that turn the network's timers into seconds |
| `CoapApp` | the CoAP application: `PeriodicTest` and the button over `CoapExchange`, with start and TAU |
| `MqttSession` | the MQTT thread, the event handler, the payload read, the publisher; its inductive invariant |
| `MqttLink` | abstract specification: what the MQTT module promises `main` and the button |
| `MqttApp` | the MQTT application: composition of `MqttSession` and `PeriodicTest`; the refinement mappings to `MqttLink` and to `PeriodicTest` by itself |
| `CoapSample` | the deprecated CoAP sample |
| `CoapEndpointProofs`, `CoapAnswersProofs`, `CoapLimitsProofs`, `CoapRefinementProofs`, `CoapAppProofs`, `PeriodicTestProofs`, `MqttAppProofs`, `CoapSampleProofs` | theorems about them, proved by TLAPS |
| `MC*` | the model values of the runs |

`CoapExchange` stands between the two CoAP models: the endpoint implements it, and the application
is built on it, so that neither needs the state of the other.

### CoapEndpoint

One action runs from one blocking call of its thread to the next.

| Variable | Code |
|---|---|
| `frame` | per client the `post_handler_data` of its call: POST number, semaphore, result |
| `data` | the POSTs whose packet buffer is allocated |
| `tx_fifo`, `rx_fifo` | the two FIFOs |
| `inflight` | `ep->inflight_packets[0 .. len-1]` |
| `pc`, `events`, `next`, `wake` | the loop of `txrx_thread`, `events[].state`, `retransmission`, the end of `k_poll`'s timeout |
| `receiver` | the receiver thread: running, or returned for want of memory or after a socket error |
| `now`, `sent`, `arrivals`, `out` | the clock; what was sent; how much arrived; what the last step handed to `sendto` in answer |

| Actions | Code |
|---|---|
| `Post`, `PostNoMemory`, `Return` | `coap_endpoint_post` up to `k_sem_take`; a failing allocation; its return |
| `Loop` | choice of the packet to send again and of the timeout |
| `PollReady`, `PollExpire` | `k_poll` returns 0 or `-EAGAIN`; datagrams may arrive before the thread acts on it |
| `Resend`, `GiveUp` | `retransmit_packet` |
| `Transmit`, `TransmitNoMemory` | `transmit_packet` |
| `ReceivePost`, `ReceiveBadRequest`, `ReceiveReset`, `ReceiveResponse`, `ReceiveAck`, `ReceiveUnmatched` | the ways through `receive_packet` |
| `Receive`, `ReceiverReturns` | `recv_thread`, which may return after a packet or while it waits for one |
| `Tick` | a millisecond passes |

What is abstracted. Packets are records of type, code, id and token; a POST's number is its
token and, modulo `IdSpace`, its message id. Options, payloads and encodings are left out:
`coap_packet_init`, `_parse` and `coap_handle_request` are library code. (`coap.c:81` parses the
whole buffer and not what was received; what it makes of the rest is the library's business, and
the model takes a datagram that parses for the packet it is.) The heap is one pool for packets,
queue items, the inflight array and payload copies; how full it is is not counted, and every
allocation may fail, whatever its size: `PostNoMemory`, `TransmitNoMemory`, the receiver's next
packet (`Receive` with `receiver' = "returned"`) and the copy in `message_post`, which is used
unchecked and so faults the device. The model thus has more failures than any heap size allows, and
no property depends on one. A failing `sendto` (`coap.c:516`, `538`, `574`) is only logged and is a
packet the network lost; `out` holds what was handed over. `k_poll` that returns `-EAGAIN` leaves
the events as they are. A time unit is a millisecond and the first
timeout is a few units. `now` and the deadlines never wrap in the model; the comparison of two
deadlines (`Before`) looks at them as the signed numbers the code compares, with `ClockHalf`
for 2^31, while their differences are small and the same either way. A negative timeout other
than -1 expires at once, as the kernel rounds it up to one tick. Tokens are all different (the
library's generator is outside the repository). The uninitialised `err` at `coap.c:246` is a free
choice of the response code.

The peer may answer a POST that was sent at any time, any number of times and in any order, with
piggybacked, separate, empty or reset messages, so replies are lost, late, duplicated and
reordered; and it sends requests and pings of its own with ids from `PeerIds`. A request may have any
of the four types, as `is_request` looks at the code only.

Fairness (`FairSpec`, used where a run asks for liveness): weak fairness of the transmit/receive
thread as a whole and of each client's return, since the endpoint's threads have the highest
priority and the clients are not kept from running for good; and of the clock. Nothing makes a
client post, a datagram arrive, the receiver return or an allocation fail.

### PeriodicTest

The variables are the statics of `main.c`, `app_timer_handler` and `run_periodic`, with `main` for
where the main thread is (`loop`, `upload`, the two sleeps) and three history variables: `due` (the
interrupt has asked for an upload since the last one began), `uploads`, `ticked`. `Minute` is the
interrupt; `NothingToDo`, `BeginUpload`, `UploadDone`, `UploadFails`, `EndSleep` are the ways
through `run_periodic`, `EndPause` is the sleep of CoAP's `main`, `Start` the way to its loop.
`minutes` is kept modulo `actual_tau`, which is all the code looks at. The interrupt comes between
any two steps and any number of times during an upload; the sleeps of an iteration, two seconds,
span the end of one minute at most. Division by zero is a fault that stops the device: the
processor traps it as Zephyr sets it up. Both files are modelled as they are built (`TEST_PERIODIC`
and `WITH_PSM`); `run_size_sweep` is not compiled. The module is the frame that `CoapApp` and
`MqttApp` fill in; alone it runs only to show the fault.

### CoapApp and LteHelpers

| Variable | Code |
|---|---|
| `endpoint` | `coap`: not set yet, NULL after a failed `coap_endpoint_init`, or an endpoint; "fault" when `message_post` faulted the device |
| `addressed` | whether `remote_addr` is set |
| `exchange` | the calls of `main` and of the button handler, as in `CoapExchange` |
| `unaddressed` | history: the callers whose call was made before `remote_addr` was set |
| `test_index` | the button's index into `testData` |
| `grant` | history: the answer `actual_tau` was made from |
| `answered` | history: the callers whose last call was handed a response while it ran |

`init_endpoint` is two steps, `StartEndpoint` (the endpoint's threads run from here) and `SetAddress`,
with presses possible in between. It fails or not, and `main` goes on (`main.c:86` only logs it, as it only asserts that
the modem connected with assertions compiled out, `main.c:154`). The buttons work from the start:
`Button1` posts what `test_index` says or begins a new round, `Button2` begins a new round, and
neither runs while the handler's thread waits in a POST. `StartTest` decodes what the network
granted, starts the timer and does not look at the error. `RunPeriodic` and `UploadReturns` are the
periodic test, whose upload is one POST. `Serve` is what the endpoint's threads do for one call, by
the actions of `CoapExchange`; a POST that was made before `remote_addr` was set gets no answer, as
there is nowhere it went. `message_post` is the server's POST whose copy cannot be allocated: the
device faults and nothing runs any more. What the endpoint does for other requests does not touch
the application.

`lte_lc_psm_get` is library code; the repository holds a copy of how it decodes an answer in
`lte_helpers.c`, and `LteHelpers` models that: the table lookup, the deactivated timer, the TAU
assigned before the active time is looked for. `DocumentedMinutes` is the interval by the comment at
`main.c:191-202`, against which the table is checked. The AT command itself and the parser are
external.

Fairness: `main`, the button's return and the timer go on; the endpoint takes a queued POST. No
call that was sent is assumed to end, because `CoapSleepForever` and a lost response show that it
may not.

### MqttSession and MqttApp

| Variable | Code |
|---|---|
| `thread` | `mqtt_thread`: in `poll`, in the loop of `publish_get_payload` or its poll, leaving, ended |
| `connected`, `revents` | the flag; `fds.revents`, which both polls write |
| `session` | the client library: no connection, CONNECT sent, CONNACK accepted, closed |
| `left`, `length`, `remaining` | `end - buf`, the message's length, and what of it is still in the stream |
| `err` | `main`'s `err` of `lte_lc_psm_get` |

One action of the thread runs from one place where it may wait to the next: `poll` and the client's
mutex, which a publisher may hold when the thread calls `mqtt_live` and `mqtt_input` (with the event
handler and, after it, the tests of `revents`). The library is external; a call of it is atomic, it
closes the socket on a failed write or read and reports `MQTT_EVT_DISCONNECT` in the thread that
called it. A closed socket shows `POLLNVAL` or fails the poll. The dangling credentials of
`client_init` make `Connect` choose among a session, a failure and a fault.
`MqttApp` joins this with `PeriodicTest`: an upload is one `mqtt_data_publish`, whose outcome
the session decides; the button may break the connection at any time; `main` waits for
`connected`, starts the timer and only then looks at `err`. `MqttLink` is what is left of it for
its users: one connection, shown by `connected`, that comes up once at most and never comes back,
and messages that are delivered only over it; the run checks that `MqttApp` implements it.
`ImplementsTest` says that the application is the periodic test as well: `main` of the test is still
on its way while this one waits, it has no TAU before the timer runs, and where this one gave up
after a failed `lte_lc_psm_get` it begins no iteration (the interrupt goes on).

Fairness: threads that are ready run, sleeps end, `poll` returns by the keepalive timeout, the
hardware timer goes on. Nothing makes an upload over a live connection return.

### CoapSample

| Variable | Code |
|---|---|
| `thread`, `socket`, `connected` | where `coap_thread` is, `sock`, the flag of `coap_connected` |
| `broken` | the socket reports an error from now on |
| `coap_buf`, `next_token` | the buffer, as the head of a packet and what follows it; the counter |
| `call` | per caller how far its call is, its method, and the value of the counter it loaded |
| `disturbed` | history: whose buffer or counter was written by somebody else since he began to use it |
| `received`, `asked`, `effect` | history: the last datagram, the tokens on the wire, what the last step sent or printed |

Here the threads are preemptible and share two variables without a lock, so a caller's step is one
access of one of them (`next_token++` is two) and the thread's step runs to the next place where a
caller can come in between. `main` tests the address of `coap_connected` (`main.c:65`), which is
never NULL; so calls may come before the connection, and fail. `disturbed` is what lets the
properties say which outcomes are the race's and which would be wrong without it. Requests before
the buffer is whole, mixed packets and the token test with `&&` are in the model. Of a payload only
whether it is there and fits `temp_buf` is kept: the bound of the `snprintf` at `coap_module.c:128` is the
larger of the two sizes where the smaller was needed, so a longer or missing payload either is printed
or faults the device (`Overrun`). `%s` reads to the next zero byte, so a short payload may be printed
with the rest of an earlier packet; the model does not tell such prints apart.

## 3. Runs

| Run | Question | Instance |
|---|---|---|
| `CoapSafety` | Are calls, buffers, the pointer, the choice of the packet and its schedule right under every interleaving? | 2 threads, 2 POSTs, 2 datagrams, 1 retransmission, 2 first timeouts, one id collision, a clock that wraps at 4 |
| `CoapServer` | Is every packet answered as its type and code demand, whatever allocation fails? | 1 POST, 2 datagrams of every kind from the peer and a stranger |
| `CoapCalls` | Does the endpoint keep the promise of `CoapExchange`, and does every call end? | 2 threads, 2 POSTs, 1 datagram, a clock that wraps at 3, a receiver that may stop |
| `CoapSleepForever` | violated: an unanswered POST ends | 1 POST, 4 retransmissions, no datagram |
| `CoapMisdelivery` | violated: a response answers the POST it is returned for | 2 POSTs, 2 datagrams, one id collision |
| `CoapPingIsNoAck` | violated: only an acknowledgement stops retransmission | 1 POST, 2 datagrams |
| `CoapLateAck` | violated: `-EAGAIN` means no acknowledgement arrived | 1 POST, 1 datagram |
| `CoapClockWrap` | violated: the packet with the earliest deadline is chosen | 2 POSTs, no datagram, a clock that wraps at 4 |
| `CoapApp` | Is no trigger used twice, every sample counted once and answered, the interval the granted one, and does the test end or wait for an answer? | 3 samples, 6 kinds of answer, 11 bytes of test data in steps of 5, a start that may fail, a fault at any time |
| `PeriodicTauFault` | violated: the test runs with any TAU the network grants | grants -1, 30, 60, 119 and 300 s, the code's 5 samples |
| `MqttApp` | Does `connected` tell the truth, does the stream stay in step, does a lost connection end thread and test, does the test end or block, do its users see one connection (`MqttLink`), and is it the test that the CoAP application runs? | 2 samples, 2 messages of 0, 2 or 3 bytes for a buffer of 2 |
| `CoapSample` | What may an undisturbed caller and an undisturbed thread rely on, and what ends the client? | 2 callers, 2 requests, 2 datagrams, 2 tokens |

The bounds. Two clients suffice for any two calls to meet in the array, in both orders, and for one
to post again after the other. One retransmission
passes both branches of `retransmit_packet`; `CoapSleepForever` uses the code's four. Two
datagrams make a duplicate, a reordering, or an acknowledgement and a response. `ClockHalf` is
small enough for two deadlines to lie on both sides of the wrap, and 1000 (out of reach) where
the wrap is not the subject. `MaxLate = 1` lets the thread miss a deadline by the one millisecond
that matters. Time stops `MaxLate` after the deadline the thread would choose, so that the
clock stays finite: it stands for the kernel waking the thread in time. `MaxDatagrams` also bounds
how long traffic may postpone a retransmission (`k_poll` reports expiry only when both FIFOs are
empty). Deadlock is not checked: the endpoint rests when all POSTs are made and answered, the test
ends, and a device that faulted or whose threads returned stops.

In `CoapApp` three samples pass both branches of the last-sample test and a repetition of the other;
the answers are a timer switched off, below a minute, between minutes and of whole minutes, an
answer without an active time and one without a TAU; the test data end between two steps of the
index. In `MqttApp` two samples pass both branches, and messages shorter than, as long as and longer
than the buffer, read in one or two pieces, pass all of `publish_get_payload`; a second message
shows whether the first left anything behind. In `CoapSample` two callers and the thread are all
kinds of disturbance, and two tokens make the counter wrap.

The violated runs are findings, quoted in `PROJECT.json`:

* `coap.c:319`: one millisecond late is the timeout -1, which is `K_FOREVER`.
* `coap.c:171`: matching by id *or* token hands a separate response to the wrong POST.
* `coap.c:271`: what reaches this line need not be an acknowledgement.
* `coap.c:323`: `-EAGAIN` although the acknowledgement is already in `rx_fifo`.
* `coap.c:138`: across the wrap of the clock the later of two deadlines counts as the earlier one,
  against the comment at `coap.c:133`.
* `coap_telenor/src/main.c:222`: a TAU below a minute, or none, is division by zero in the interrupt.

Seen on the way and left without a run: `mqtt/README.rst` describes a sample that echoes what it
receives, which this code has no call for; the MQTT `main` lights LED1 "to indicate that the
application is connected" after a check that may be stale; in the sample, the address of a
function tested for NULL (`deprecated/coap_nordic/src/main.c:65`) and the `&&` of the token test
(`coap_module.c:121`), of which no comment says what they should do; and
`lte_lc_psm_get_with_cb`, which ends without a return statement and which nothing calls.

## 4. Proofs

Every theorem holds for all values of the constants that the named ASSUME of its module allows
(`ConstantsAssumption`, `AppAssumption`, `PeriodicAssumption`, `SessionAssumption`,
`SampleAssumption`); nothing else is assumed.

**The endpoint.** `CoapEndpointProofs` proves `Spec => []IInv` and from it the state invariants of
`CoapSafety`, for all sets of clients and peers, any number of retransmissions and all bounds.
`CallsOwned` is not inductive: that the handler of one packet leaves the other calls alone needs
that different packets have different clients, which follows from `BuffersOwned` (different
packets are different POSTs) and `PostsDistinct` (running calls are different POSTs, and the
next one is new). `RetransmitsDuePacket` needs `TimerCoversDeadline` (the end of the poll's
timeout is not before the deadline it was computed from), and `GetNeverBlocks` needs
`EventsServed` (no event survives its service). `IInv` is their conjunction. The proof has three
step lemmas: `TypeStep`, `OwnershipStep` (with `FinishInflight` for the removal of an entry,
`TransmitOwnership` for the move from the FIFO to the array) and `ThreadStep`, each with one step
per action. `EarliestIsPolled` shows that the finding at `coap.c:138` is the only way for a later
deadline to be chosen.

**Its answers.** `CoapAnswersProofs` proves the action properties `ConAnswered`, `NoReplyStorm` and
`AcknowledgedStays`, and `MisdeliveryNeedsCollision`. The last one needs to know where a received
packet comes from: `FromNetwork` (what waits in `rx_fifo` is a reply to a POST that was sent, or a
message of a peer's own) is proved beside `IInv`.

**Its schedule, its buffers and its searches.** `CoapLimitsProofs` proves what needs arithmetic or
counting. `OnSchedule` (every inflight packet is where its first timeout and its number of
retransmissions say, from a start not later than now) is invariant, and gives
`RetransmissionSchedule` for any number of retransmissions. The factors `Backoff` are a recursive
function; where a proof would use induction, that it exists and doubles (`BackoffExists`), that it
grows, or that the scan of the array ends, it takes the least element of a set of counterexamples
instead (`LeastNumber`).
`BuffersAreBounded`: there are as many packet buffers as waiting calls, however many POSTs were made
(`OneBufferPerCall`, a bijection from `BuffersOwned`, `CallsOwned` and `PostsDistinct`), so POSTs
load the heap with one packet per posting thread at most and leak nothing. `LoopFindsOnePacket` and
`EveryPacketHasOneWay` show that the model's relations are the code's functions: the scan of
`next_retransmission` has exactly one result wherever the clock wraps, and every packet exactly one way
through `receive_packet`.

**The conditions of the findings.** For each violated safety property a theorem says when it does hold.
`ResponsesAreOwn`: until 2^16 POSTs have been made and while no peer uses the ids of those that were,
a POST returns its own response. `OnlyAcknowledgementsStop`: if peers never use a POST's id for a
message of their own. `EagainIsTrueUnlessLate`: if nothing is queued between the timeout and its
handling. `EarliestUntilWrap`: while the clock and the deadlines that may still be set are below
2^31. `OnlyZeroTauFaults`, `GrantOfAMinuteRuns`, `OnlyFailedGetFaults`: a readable answer that grants
a minute or more is enough for both applications to run; over MQTT, where every grant is long
enough, only a failed `lte_lc_psm_get` faults. (The condition of `CoapSleepForever` is a liveness
property, `PostSettles`, and stays with TLC.)

**The refinement.** `CoapRefinementProofs` proves `EndpointImplementsExchange`, that is
`Spec => ImplementsExchange`. A client's call is seen through the one place that holds it: its
frame, the packet of `tx_fifo` or the inflight entry that is its own. `ViewsHold` says what is seen
in each case; it needs `Ownership`, so that the place is unique, and `NoResultYet` (a call that waits
has no result). `Keeps` says that a call whose frame and packet are left alone is seen unchanged,
whatever else moves in the array. With them every action of the endpoint is a step of one client's
exchange or of none.

**The applications.** `PeriodicTestProofs` proves `EverySampleCounted` and `UploadsAreDue`, for any grants and number of samples. Its `IInv` adds `Phases` (an upload runs only with
`transmit` set and `transmit_finished` clear, and a pending trigger is one that no upload has
seen) and `TriggersNeedTau` (nothing is triggered with a TAU that will fault, so a finished test
cannot fault afterwards). `CoapAppProofs` first proves that the CoAP application implements the
periodic test (`AppSpec => Spec`), which carries these over, and then `AppInv`: without an endpoint
no call gets further than the queue (`NobodyThere`), and a call that holds a response was addressed and
was given it while it ran (`ResponsesAreFresh`), so main and the button count nothing that was refused,
timed out or belongs to an earlier call (`CountedWasAnswered`); and `actual_tau` stays untouched until it is decoded, so the interval is the
documented one for each of the 8 x 32 timers the network can send (`IntervalAsGranted`).
`MainHasOneCall` shows that `main`'s earlier call is over when it begins the next, so that no upload
of the model is held up by the model.
`MqttAppProofs` proves `ConnectedIsSession` and `StreamInStep` for every length and buffer size, from
`SessionInv`, which adds that a message is read only in a session that was accepted; it reuses
the step lemmas of `PeriodicTestProofs`, so that samples and uploads are right over MQTT too; and it
proves two refinements: the application implements `MqttLink` (`OneConnection`, with `DialedOrDone`
for where there can be no connection at all) and `PeriodicTest` (`MqttImplementsTest`, with
`BeforeLoop` for what `main` knows of its error and its TAU before the loop).

**The sample.** `CoapSampleProofs` proves what a caller or the thread may rely on while nobody else
writes the buffer or the counter: `IInv` says, for each place in a call, which part of the buffer is
the caller's. The thread's properties hold for payloads of any size, with the fault as the outcome
that `LeavesForCause` names.

Only model-checked: the liveness properties (`PostSettles`, `EndsOrWaitsForAnswer`,
`EndsOrBlocks`, `LostConnectionEndsThread`, `StrandedOnlyWithoutSession`, `LossFailsTest`,
`FailureEndsThread`), since fairness and ENABLED are outside the prover's reach. Every safety
property of the passing runs is proved.

## 5. Not modelled

* `deprecated/sensor_emulator.c`: returns random numbers; it keeps nothing and nothing calls it.
* `deprecated/lte_helpers.c`, the AT commands and their parser (external), and
  `lte_lc_psm_get_with_cb`, which nothing calls.
* The build files: priorities and options enter the models as their scheduling and as the
  choice of what is compiled.
* `run_size_sweep` of both applications: the preprocessor removes it.
* The modem, LEDs and logs: library code, or output without state.
* Payloads and their copies (but for the size of a response in the sample), encodings, options: no
  property here tells them apart.
* How full the heap is, and so which loads make an allocation fail.

The plan of the first version is carried out.
