---------------------------- MODULE MCClipboard ----------------------------
(* ClipboardManager with two clients, a small and a large target.          *)
EXTENDS ClipboardManager

CONSTANTS c1, c2, small, large

FairSpec == Init /\ [][Next]_vars /\ Fairness

(* Bounds: three events at once; one client is always left, and c1 is the  *)
(* first to copy; owners save and offer both targets, c2 asks for one;     *)
(* another manager takes over early; nothing follows the daemon's end.     *)
Few ==
  /\ Len(events) <= 3
  /\ \A i \in DOMAIN events :
       /\ events[i].type = "SaveTargets" => events[i].targets \in {{}, Target}
       /\ events[i].type = "Targets" => events[i].targets = Target
       /\ events[i].type = "Request" => events[i].targets \notin {{}, Target} /\ events[i].from = c2
  /\ alive # {} /\ errors # "killed"
  /\ copied[c1] = 0 => copied[c2] = 0
  /\ managing \/ now <= 1

=============================================================================
