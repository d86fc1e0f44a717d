--------------------------- MODULE MCCoapEndpoint ---------------------------
(* Small instances of CoapEndpoint for TLC. *)
EXTENDS CoapEndpoint, TLC

CONSTANTS main, button,  \* the two threads of main.c that post
          server, other  \* the peer of main.c, and somebody else

\* The two threads run the same code: exchanging them changes nothing.
ClientSymmetry == Permutations({main, button})
=============================================================================
