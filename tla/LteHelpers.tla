----------------------------- MODULE LteHelpers -----------------------------
(***************************************************************************)
(* How deprecated/lte_helpers.c reads the PSM values of the network: two   *)
(* timers of eight bits, a unit of three and a number of five.  An answer  *)
(* to AT+CEREG? is what is left of it after the parser, which is external. *)
(***************************************************************************)
EXTENDS Integers

\* A timer as the network sends it: "10100101" is unit 5, value 5.
Timers == [unit : 0 .. 7, value : 0 .. 31]

\* The timer is not in the answer.
Missing == [unit |-> 8, value |-> 0]

Answers == [parsed : BOOLEAN, tau : Timers \cup {Missing}, active_time : Timers \cup {Missing}]

\* Mutant of t3412_lookup: the table of the other timer.
ActiveTimeUnits == [unit \in 0 .. 7 |-> <<2, 60, 600, 60, 60, 60, 60, 0>>[unit + 1]]

\* Seconds per unit of the periodic TAU; 0: the timer is switched off.
t3412_lookup ==
  [unit \in 0 .. 7 |-> <<600, 3600, 36000, 2, 30, 60, 1152000, 0>>[unit + 1]]

\* Seconds per unit of the active time.
t3324_lookup == [unit \in 0 .. 7 |-> <<2, 60, 600, 60, 60, 60, 60, 0>>[unit + 1]]

\* timer_unit ? timer_unit * timer_value : -1.
Seconds(lookup, timer) ==
  IF lookup[timer.unit] = 0 THEN -1 ELSE lookup[timer.unit] * timer.value

\* The answer parses and holds a TAU.
TauRead(answer) == answer.parsed /\ answer.tau # Missing

\* Both timers; anything less is an error.
Readable(answer) == TauRead(answer) /\ answer.active_time # Missing

\* The TAU is assigned before the active time is looked for: an error does not say
\* that it was left at `old`.
at_callback_handler(answer, old) ==
  [err |-> ~Readable(answer),
   tau |-> IF TauRead(answer) THEN Seconds(t3412_lookup, answer.tau) ELSE old.tau,
   active_time |-> IF Readable(answer) THEN Seconds(t3324_lookup, answer.active_time)
                   ELSE old.active_time]

-----------------------------------------------------------------------------
(* What coap_telenor/src/main.c:191-202 says of the units.                 *)

Minutes == 60
Hours == 60 * Minutes

DocumentedUnit ==
  [unit \in 0 .. 6 |->
     <<10 * Minutes, 1 * Hours, 10 * Hours, 2, 30, 1 * Minutes, 320 * Hours>>[unit + 1]]

\* The interval a timer stands for, in minutes; a deactivated one has none.
DocumentedMinutes(timer) ==
  IF timer.unit = 7 THEN 0 ELSE (DocumentedUnit[timer.unit] * timer.value) \div Minutes
=============================================================================
