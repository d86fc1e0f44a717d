---------------------------- MODULE MCCoapSample ----------------------------
(* A small instance of CoapSample for TLC. *)
EXTENDS CoapSample

CONSTANTS main, other  \* two threads that send requests
=============================================================================
