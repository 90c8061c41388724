-------------------------------- MODULE Xrdb --------------------------------
(***************************************************************************)
(* The xrdb plugin (plugins/xrdb/csd_xrdb-manager.c): whenever the theme   *)
(* changes its colors and a list of files are written to a new xrdb, which *)
(* merges them into the resources of the server.  The resources are        *)
(* represented by the theme of the colors and by the directory whose file  *)
(* of each name is merged last.                                            *)
(***************************************************************************)
EXTENDS SequencesExt

CONSTANTS
  MaxStarts, \* bound on the starts of the plugin
  MaxThemes  \* bound on the changes of the theme and of the user's files

VARIABLES
  on, begun, \* activated; starts so far
  widget,    \* widget is there, and the notification of the theme connected
  look,      \* the theme
  mine,      \* names of the files the user has in a directory of his own, or Unreadable
  restyled,  \* a change of the theme is yet to be signalled
  xrdbs,     \* input of the children that run, in the order they were started
  merged,    \* the resources: [look, mine, last: from each name of a file to a directory]
  crossed,   \* history: the last change was not applied, or by a child that failed or was not alone
  renewals   \* number of changes so far

vars == <<on, begun, widget, look, mine, restyled, xrdbs, merged, crossed, renewals>>

Name == {"General.ad", "Editor.ad", "Xaw.ad"}
Unreadable == {"?"}

(* Files of the system's directory: another one may be missing.            *)
System == {"General.ad", "Editor.ad"}

Init ==
  /\ on = FALSE /\ begun = 0 /\ widget = FALSE
  /\ look = 0
  /\ mine \in {{}, {"Editor.ad", "Xaw.ad"}, Unreadable}
  /\ restyled = FALSE /\ xrdbs = <<>>
  /\ merged = [look |-> 0, mine |-> {}, last |-> [n \in Name |-> "none"]]
  /\ crossed = TRUE /\ renewals = 0

-----------------------------------------------------------------------------
(* scan_ad_directory: the files of a directory, no two of the same name.   *)
(* Their order does not matter to what is merged last of a name.           *)
ScanAdDirectory(dir, names) == [dir |-> dir, names |-> names]

(* Mutant: the system's files are read after the user's.                   *)
ScanForFilesReversed(names) ==
  IF names = Unreadable THEN <<>>
  ELSE <<ScanAdDirectory("system", {"General.ad"}), ScanAdDirectory("user", names),
         ScanAdDirectory("system", System \ {"General.ad"})>>

(* scan_for_files: the general file, those of the system that the user has *)
(* none of the same name of, and the user's; nothing if a directory cannot *)
(* be read.                                                                *)
ScanForFiles(names) ==
  IF names = Unreadable THEN <<>>
  ELSE <<ScanAdDirectory("system", {"General.ad"}),
         ScanAdDirectory("system", System \ ({"General.ad"} \cup names)),
         ScanAdDirectory("user", names)>>

(* xrdb -merge: of what is defined twice the last counts, and what is not  *)
(* defined remains.                                                        *)
Merge(old, input) ==
  LET defining(n) == {i \in DOMAIN input.files : n \in input.files[i].names}
  IN [look |-> input.look,
      mine |-> input.mine,
      last |-> [n \in Name |-> IF defining(n) = {} THEN old.last[n]
                               ELSE input.files[Max(defining(n))].dir]]

(* csd_xrdb_manager_start: nothing is merged before the theme changes.     *)
Start ==
  /\ ~on /\ begun < MaxStarts
  /\ on' = TRUE
  /\ begun' = begun + 1
  /\ widget' = TRUE
  /\ UNCHANGED <<look, mine, restyled, xrdbs, merged, crossed, renewals>>

ChangeTheme ==
  /\ renewals < MaxThemes
  /\ renewals' = renewals + 1
  /\ look' = look + 1
  /\ restyled' = widget
  /\ crossed' = (crossed \/ ~widget)
  /\ UNCHANGED <<on, begun, widget, mine, xrdbs, merged>>

ChangeFiles ==
  /\ renewals < MaxThemes
  /\ renewals' = renewals + 1
  /\ mine' \in {{}, {"Editor.ad", "General.ad"}, Unreadable} \ {mine}
  /\ UNCHANGED <<on, begun, widget, look, restyled, xrdbs, merged, crossed>>

(* theme_changed, apply_settings, spawn_with_input: xrdb may be missing,   *)
(* and the one before may not have ended.                                  *)
ThemeChanged ==
  /\ restyled
  /\ restyled' = FALSE
  /\ \/ /\ xrdbs' = Append(xrdbs, [look |-> look, mine |-> mine, files |-> ScanForFiles(mine)])
        /\ crossed' = (xrdbs # <<>>)
     \/ UNCHANGED xrdbs /\ crossed' = TRUE
  /\ UNCHANGED <<on, begun, widget, look, mine, merged, renewals>>

(* A child is through, child_watch_cb: it may have failed.                 *)
ChildWatch(i) ==
  /\ i \in DOMAIN xrdbs
  /\ xrdbs' = RemoveAt(xrdbs, i)
  /\ \/ merged' = Merge(merged, xrdbs[i]) /\ UNCHANGED crossed
     \/ crossed' = TRUE /\ UNCHANGED merged
  /\ UNCHANGED <<on, begun, widget, look, mine, restyled, renewals>>

(* csd_xrdb_manager_stop: the children go on.                              *)
Stop ==
  /\ on
  /\ on' = FALSE
  /\ widget' = FALSE
  /\ restyled' = FALSE
  /\ crossed' = (crossed \/ restyled)
  /\ UNCHANGED <<begun, look, mine, xrdbs, merged, renewals>>

Next ==
  \/ Start \/ ChangeTheme \/ ChangeFiles \/ ThemeChanged \/ Stop
  \/ \E i \in 1..MaxThemes : ChildWatch(i)

Spec == Init /\ [][Next]_vars

-----------------------------------------------------------------------------
(* What the plugin holds.                                                  *)
Held == IF widget THEN {"widget"} ELSE {}

(* A stopped plugin holds no widget.                                       *)
LetGo == ~on => ~widget

(* Once all is quiet the resources are those of the theme, unless the xrdb *)
(* of its colors failed or ran beside another, which may end after it, or  *)
(* the plugin was not there; and of a file that both the system and the    *)
(* user have the user's counts, however the two directories change.        *)
ResourcesFollowTheme ==
  /\ xrdbs = <<>> /\ ~restyled /\ ~crossed => merged.look = look
  /\ \A n \in merged.mine \ Unreadable : merged.last[n] = "user"

(* What ResourcesFollowTheme rests on: unless something came between, the  *)
(* theme is that of the resources or of the only child, and the files of   *)
(* every child are those of its directories.                               *)
ChildrenBringTheme ==
  /\ ~crossed /\ ~restyled
       => \/ xrdbs = <<>> /\ merged.look = look
          \/ Len(xrdbs) = 1 /\ xrdbs[1].look = look
  /\ \A i \in DOMAIN xrdbs : xrdbs[i].files = ScanForFiles(xrdbs[i].mine)
  /\ \A n \in merged.mine \ Unreadable : merged.last[n] = "user"

(* What the user may have, and what is given to the children.              *)
Mine == (SUBSET Name) \cup {Unreadable}
ResourceTypes ==
  /\ look \in Nat /\ mine \in Mine
  /\ xrdbs \in Seq([look : Nat, mine : Mine, files : {ScanForFiles(m) : m \in Mine}])

=============================================================================
