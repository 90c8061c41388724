------------------------------ MODULE KeyGrabs ------------------------------
(***************************************************************************)
(* The passive key grabs of the daemon on the root window                  *)
(* (plugins/common/csd_keygrab.c).  The daemon is one X client: plugins    *)
(* that grab the same key share one grab, and the first to ungrab it ends  *)
(* it.  Other applications grab keys, too, and keep them from the daemon.  *)
(***************************************************************************)
CONSTANTS
  Code,     \* keycodes with a state, whatever the modifiers to be ignored
  Key,      \* a key is the set of its keycodes
  Contested \* the keycodes that other applications may grab

ASSUME KeyAssumption == Key \subseteq (SUBSET Code) \ {{}}
ASSUME ContestedAssumption == Contested \subseteq Code

NoKey == {}

VARIABLES
  grabs, \* what is grabbed
  taken  \* what other applications have grabbed, with whatever modifiers

(* grab_key_unsafe, to grab and to ungrab: what another application has    *)
(* fails with an error, each keycode for itself.  Callers trap it and only *)
(* warn.                                                                   *)
Grabbed(held, k)   == held \cup (k \ taken)
Ungrabbed(held, k) == held \ k

(* Other applications grab what nobody has, and give it up.                *)
OthersGrab(c) ==
  /\ c \notin grabs \cup taken
  /\ taken' = taken \cup {c}
  /\ UNCHANGED grabs

OthersUngrab(c) ==
  /\ c \in taken
  /\ taken' = taken \ {c}
  /\ UNCHANGED grabs

=============================================================================
