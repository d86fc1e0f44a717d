-------------------------- MODULE MCCoapRefinement --------------------------
(* Small instances of CoapRefinement for TLC. *)
EXTENDS CoapRefinement

CONSTANTS main, button,  \* the two threads of main.c that post
          server         \* the peer of main.c
=============================================================================
