------------------------------ MODULE MCRfkill ------------------------------
(* RfkillManager with a Bluetooth switch and a WLAN switch.                *)
EXTENDS RfkillManager

CONSTANTS bt, wlan, t1, t2

(* Each switch is unplugged, or plugged in and in one state of its own.    *)
MCInit ==
  /\ Init
  /\ ~kernel[wlan].soft
  /\ kernel[bt].present => kernel[bt].soft

MCSpec == MCInit /\ [][Next]_vars /\ Fairness

One(cond) == IF cond THEN 1 ELSE 0

Requests == {t \in Task : request[t] # NoEvent}

(* Changes of the switches and of the modem's facts mix freely as long as  *)
(* nothing is requested; with requests there is at most one.  This cuts no *)
(* callback off.  The tasks are used in their order.                       *)
Bound ==
  /\ changes + One(nm_client) + One(mm_client) <= IF Requests = {} THEN 3 ELSE 1
  /\ t2 \in Requests => t1 \in Requests

=============================================================================
