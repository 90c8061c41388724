--------------------------- MODULE LocatePointer ---------------------------
(***************************************************************************)
(* The helper that shows where the pointer is when Control is pressed and  *)
(* released (plugins/mouse/csd_locate-pointer.c), and the timeline that    *)
(* runs its animation (csd_timeline.c).  Progress is counted in intervals  *)
(* between two circles.                                                    *)
(***************************************************************************)
EXTENDS Integers

CONSTANTS
  Length, \* of the animation
  NoTimer

VARIABLES
  keyboard,   \* "free", or grabbed: "frozen" until the next XAllowEvents, or "thawed" until the next key
  pressed,    \* the key event that is yet to be handled, or "none"
  animations, \* the setting ctk-enable-animations
  composited, \* the screen is
  made,       \* data: it was located before
  running,    \* source_id of the timeline
  elapsed,    \* what has elapsed on its timer
  shown,      \* the window with the circles
  shaped,     \* the window is transparent
  drawn       \* data->progress

vars == <<keyboard, pressed, animations, composited, made, running, elapsed, shown, shaped, drawn>>

Init ==
  /\ keyboard = "free" /\ pressed = "none"
  /\ animations \in BOOLEAN /\ composited \in BOOLEAN
  /\ made = FALSE /\ running = FALSE /\ elapsed = NoTimer
  /\ shown = FALSE /\ shaped = FALSE
  /\ drawn = 0

-----------------------------------------------------------------------------
(* The passive grab of Control freezes the keyboard at each event.         *)
Press ==
  /\ keyboard \in {"free", "thawed"}
  /\ keyboard' = "frozen"
  /\ pressed' = "press"
  /\ UNCHANGED <<animations, composited, made, running, elapsed, shown, shaped, drawn>>

ReleaseOrOther ==
  /\ keyboard = "thawed"
  /\ keyboard' = "frozen"
  /\ pressed' \in {"release", "other"}
  /\ UNCHANGED <<animations, composited, made, running, elapsed, shown, shaped, drawn>>

(* timeline_frame_cb: without compositing, one circle at a time            *)
Frame(progress, from) ==
  IF composited THEN progress ELSE IF progress >= from + 1 THEN from + 1 ELSE from

(* csd_timeline_pause, _rewind: the timer starts anew.                     *)
Rewound == NoTimer

(* Mutant: the window is shown after the timeline was started, which ends  *)
(* at once without animations.                                             *)
LocateShowingLast ==
  /\ made' = TRUE
  /\ shaped' = ~composited
  /\ shown' = TRUE
  /\ running' = animations
  /\ elapsed' = IF animations THEN 0 ELSE Rewound
  /\ drawn' = IF animations THEN 0 ELSE Frame(Length, 0)

(* csd_locate_pointer, csd_timeline_start: without animations only the     *)
(* last frame is shown, and the window hidden again                        *)
Locate ==
  /\ made' = TRUE
  /\ shaped' = ~composited
  /\ shown' = animations
  /\ running' = animations
  /\ elapsed' = IF animations THEN 0 ELSE Rewound
  /\ drawn' = IF animations THEN 0 ELSE Frame(Length, 0)

(* event_filter: Control alone locates the pointer when it is released,    *)
(* any other key is replayed to the applications.                          *)
EventFilter ==
  /\ pressed # "none"
  /\ pressed' = "none"
  /\ keyboard' = IF pressed = "press" THEN "thawed" ELSE "free"
  /\ IF pressed = "release" THEN Locate ELSE UNCHANGED <<made, running, elapsed, shown, shaped, drawn>>
  /\ UNCHANGED <<animations, composited>>

(* csd_timeline_run_frame, some time after the last frame; timeline_       *)
(* finished_cb, when that was the last                                     *)
RunFrame ==
  /\ running
  /\ \E now \in elapsed + 1..elapsed + 2 :
       LET progress == IF now < Length THEN now ELSE Length
       IN /\ elapsed' = progress
          /\ drawn' = Frame(progress, drawn)
          /\ running' = (progress < Length)
          /\ shown' = (shown /\ progress < Length)
          /\ shaped' = (shaped \/ (progress = Length /\ ~composited))
  /\ UNCHANGED <<keyboard, pressed, animations, composited, made>>

(* composited_changed, once the pointer was located                        *)
CompositedChanged ==
  /\ composited' = ~composited
  /\ shaped' = (made /\ ~composited')
  /\ UNCHANGED <<keyboard, pressed, animations, made, running, elapsed, shown, drawn>>

ChangeAnimations ==
  /\ animations' = ~animations
  /\ UNCHANGED <<keyboard, pressed, composited, made, running, elapsed, shown, shaped, drawn>>

Next ==
  \/ Press \/ ReleaseOrOther \/ EventFilter \/ RunFrame
  \/ CompositedChanged \/ ChangeAnimations

Spec == Init /\ [][Next]_vars

-----------------------------------------------------------------------------
(* The circles go away again: the window is shown only while the timeline  *)
(* runs, which does not draw ahead of the time, and the keyboard is frozen *)
(* only while an event waits for the program, whatever is pressed and      *)
(* whenever animations and compositing are turned on and off.              *)
CirclesEnd ==
  /\ shown => running
  /\ running => drawn <= elapsed
  /\ keyboard = "frozen" => pressed # "none"

(* While the timeline runs both are numbers.                               *)
TimeIsCounted == running => elapsed \in Int /\ drawn \in Int

=============================================================================
