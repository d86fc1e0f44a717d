---------------------------- MODULE CoapExchange ----------------------------
(***************************************************************************)
(* What coap_endpoint_post promises its callers: the exchanges of the      *)
(* calling threads are independent automata.  A call queues one request;   *)
(* the request is sent, sent again at most MaxRetransmit times while it is *)
(* unacknowledged and never once it is acknowledged; and the call ends     *)
(* exactly once, with one result that its stage allows.  There is no       *)
(* array, FIFO, timer, heap or network here.                               *)
(***************************************************************************)
EXTENDS Naturals

CONSTANTS
  Clients,        \* the threads that post
  MaxRetransmit   \* how often a request is sent again

VARIABLE exchange   \* per client: the stage of its call, how often it was sent, its result

Stages == {"idle", "queued", "unacked", "acked", "done"}

Init == exchange = [c \in Clients |-> [stage |-> "idle", sends |-> 0, result |-> "none"]]

\* Client c moves from stage `from` to stage `to`; nobody else moves.
Move(c, from, to, sends, result) ==
  /\ exchange[c].stage = from
  /\ exchange' = [exchange EXCEPT ![c] = [stage |-> to, sends |-> sends, result |-> result]]

Finish(c, from, result) == Move(c, from, "done", 0, result)

Call(c) == Move(c, "idle", "queued", 0, "none")

\* The call fails before anything is queued.
Refuse(c) == Move(c, "idle", "idle", 0, "ENOMEM")

Send(c) == Move(c, "queued", "unacked", 1, "none")

Resend(c) ==
  /\ exchange[c].sends <= MaxRetransmit
  /\ Move(c, "unacked", "unacked", exchange[c].sends + 1, "none")

Acknowledge(c) == Move(c, "unacked", "acked", exchange[c].sends, "none")

Respond(c) == \E from \in {"unacked", "acked"} : Finish(c, from, "ok")

Cancel(c) == \E from \in {"unacked", "acked"} : Finish(c, from, "ECANCELED")

\* Only a request that was sent as often as allowed and never acknowledged is given up.
GiveUp(c) ==
  /\ exchange[c].sends = MaxRetransmit + 1
  /\ Finish(c, "unacked", "EAGAIN")

OutOfMemory(c) == Finish(c, "queued", "ENOMEM")

Return(c) == Move(c, "done", "idle", 0, exchange[c].result)

Step(c) ==
  \/ Call(c) \/ Refuse(c) \/ Send(c) \/ Resend(c) \/ Acknowledge(c)
  \/ Respond(c) \/ Cancel(c) \/ GiveUp(c) \/ OutOfMemory(c) \/ Return(c)

Next == \E c \in Clients : Step(c)

Spec == Init /\ [][Next]_exchange
=============================================================================
