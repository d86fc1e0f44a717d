--------------------------- MODULE CoapRefinement ---------------------------
(* The endpoint of CoapEndpoint implements the exchanges of CoapExchange.  *)
EXTENDS CoapEndpoint

Queued(c) == \E i \in DOMAIN tx_fifo : tx_fifo[i].client = c

\* The inflight packet of client c's call.
EntryOf(c) == inflight[CHOOSE i \in DOMAIN inflight : inflight[i].client = c]

StageOf(c) ==
  CASE frame[c].post = 0                -> "idle"
    [] Waiting(c) /\ Queued(c)          -> "queued"
    [] Waiting(c) /\ ~ Queued(c)        ->
         IF EntryOf(c).retransmit THEN "unacked" ELSE "acked"
    [] OTHER                            -> "done"

ExchangeOf(c) ==
  LET stage == StageOf(c)
  IN  [stage  |-> stage,
       sends  |-> IF stage \in {"unacked", "acked"} THEN EntryOf(c).count + 1 ELSE 0,
       result |-> frame[c].err]

Exchange == INSTANCE CoapExchange WITH exchange <- [c \in Clients |-> ExchangeOf(c)]

(***************************************************************************)
(* coap_endpoint_post keeps its promise whatever the other client, the     *)
(* peer and the receiver do: every step of the endpoint is a step of one   *)
(* client's exchange, or of none (coap.c:297, coap.c:421).                 *)
(***************************************************************************)
ImplementsExchange == Exchange!Spec
=============================================================================
