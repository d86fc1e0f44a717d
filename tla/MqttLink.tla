------------------------------ MODULE MqttLink -------------------------------
(***************************************************************************)
(* What the MQTT module promises main and the button handler: one          *)
(* connection in the lifetime of the device.  It comes up once at most and *)
(* never comes back, and a message counts as delivered only over a         *)
(* connection that is up.  There is no socket, event, payload or thread.   *)
(***************************************************************************)
EXTENDS Naturals

VARIABLES
  link,      \* what `connected` tells, and why
  delivered  \* messages that main counts as published

linkVars == <<link, delivered>>

Init == link = "idle" /\ delivered = 0

Become(from, to) == link \in from /\ link' = to /\ UNCHANGED delivered

Dial == Become({"idle"}, "dialing")

Accept == Become({"dialing"}, "up")

Lose == Become({"dialing", "up"}, "lost")

Deliver == link = "up" /\ delivered' = delivered + 1 /\ UNCHANGED link

Next == Dial \/ Accept \/ Lose \/ Deliver

Spec == Init /\ [][Next]_linkVars
=============================================================================
