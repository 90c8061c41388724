------------------------- MODULE MCPluginManager -------------------------
(* With init-load-priority 2: "early" gets a first-phase number from its   *)
(* GSettings key, which overrides the file's; "late" has none and gets the *)
(* default; "middle" has the file's number, the cut-off itself.            *)
EXTENDS PluginManager

CONSTANTS early, middle, late

MCFilePriority ==
  [p \in Plugin |-> CASE p = early -> 7 [] p = middle -> 2 [] OTHER -> 0]
MCSettingsPriority == [p \in Plugin |-> IF p = early THEN 1 ELSE 0]

(* All three plugins are followed through startup, "middle" always         *)
(* enabled, and from the main loop on only where it is not installed.      *)
TwoInMainLoop ==
  /\ setting[middle]
  /\ main \in {"loop", "out"} => middle \notin files

=============================================================================
