----------------------------- MODULE MediaKeys -----------------------------
(***************************************************************************)
(* The shortcuts of the media-keys plugin                                  *)
(* (plugins/media-keys/csd_media-keys-manager.c): a table of keys that     *)
(* follows the settings, grabbed from an idle callback that the start      *)
(* queues and no stop removes.                                             *)
(***************************************************************************)
EXTENDS KeyGrabs, Naturals

CONSTANTS
  Entry,    \* of the table keys[]
  MaxStarts \* bound on the starts

ASSUME MediaKeysAssumption == MaxStarts \in Nat

VARIABLES
  wanted,   \* the settings
  unseen,   \* entries whose change is yet to be signalled
  on,       \* the plugin is activated
  idles,    \* starts that are queued
  screens,  \* length of the list of screens
  settings, \* the manager has its settings
  watches,  \* settings objects that call update_kbd_cb
  key,      \* keys[].key
  begun,    \* number of starts so far
  late      \* history: a queued start ran after a stop, or on top of another

mkvars == <<wanted, unseen, on, idles, screens, settings, watches, key, begun, late>>

MKInit ==
  /\ wanted \in [Entry -> Key \cup {NoKey}]
  /\ unseen = {}
  /\ on = FALSE
  /\ idles = 0
  /\ screens = 0
  /\ settings = FALSE
  /\ watches = 0
  /\ key = [e \in Entry |-> NoKey]
  /\ begun = 0
  /\ late = FALSE

(* The keys of a table of keys.                                            *)
KeysOf(table) == UNION {table[e] : e \in DOMAIN table}

-----------------------------------------------------------------------------
(* csd_media_keys_manager_start                                            *)
MKStart ==
  /\ ~on
  /\ begun < MaxStarts
  /\ on' = TRUE
  /\ begun' = begun + 1
  /\ idles' = idles + 1
  /\ UNCHANGED <<wanted, unseen, screens, settings, watches, key, late, grabs>>

(* start_media_keys_idle_cb, init_kbd: an entry without a valid shortcut   *)
(* is passed over.                                                         *)
MKStartIdle ==
  /\ idles > 0
  /\ idles' = idles - 1
  /\ settings' = TRUE
  /\ watches' = watches + 1
  /\ screens' = screens + 1
  /\ key' = [e \in Entry |-> IF wanted[e] # NoKey THEN wanted[e] ELSE key[e]]
  /\ grabs' = Grabbed(grabs, KeysOf(wanted))
  /\ late' = (late \/ ~on \/ screens > 0)
  /\ UNCHANGED <<wanted, unseen, on, begun>>

(* The user sets a shortcut.                                               *)
ChangeShortcut(e, k) ==
  /\ wanted[e] # k
  /\ wanted' = [wanted EXCEPT ![e] = k]
  /\ unseen' = IF watches > 0 THEN unseen \cup {e} ELSE unseen
  /\ UNCHANGED <<on, idles, screens, settings, watches, key, begun, late, grabs>>

(* Mutant: the old key is ungrabbed after the new one is grabbed.          *)
UpdateKbdUngrabbingLast(e) ==
  /\ watches > 0
  /\ e \in unseen
  /\ unseen' = unseen \ {e}
  /\ key' = [key EXCEPT ![e] = wanted[e]]
  /\ grabs' = IF screens > 0 THEN Ungrabbed(Grabbed(grabs, wanted[e]), key[e]) ELSE grabs
  /\ UNCHANGED <<wanted, on, idles, screens, settings, watches, begun, late>>

(* update_kbd_cb: the old key is ungrabbed and the new one grabbed, on the *)
(* screens of the list.  (Each settings object calls it, to the same end.) *)
UpdateKbd(e) ==
  /\ watches > 0
  /\ e \in unseen
  /\ unseen' = unseen \ {e}
  /\ key' = [key EXCEPT ![e] = wanted[e]]
  /\ grabs' = IF screens > 0 THEN Grabbed(Ungrabbed(grabs, key[e]), wanted[e]) ELSE grabs
  /\ UNCHANGED <<wanted, on, idles, screens, settings, watches, begun, late>>

(* Mutant: a stop before the start was run drops settings all the same.    *)
MKStopUnchecked ==
  /\ on
  /\ on' = FALSE
  /\ settings' = FALSE
  /\ watches' = watches - 1
  /\ unseen' = IF watches' = 0 THEN {} ELSE unseen
  /\ grabs' = IF screens > 0 THEN Ungrabbed(grabs, KeysOf(key)) ELSE grabs
  /\ key' = [e \in Entry |-> NoKey]
  /\ screens' = 0
  /\ UNCHANGED <<wanted, idles, begun, late>>

(* csd_media_keys_manager_stop                                             *)
MKStop ==
  /\ on
  /\ on' = FALSE
  /\ settings' = FALSE
  /\ watches' = IF settings THEN watches - 1 ELSE watches
  /\ unseen' = IF watches' = 0 THEN {} ELSE unseen
  /\ grabs' = IF screens > 0 THEN Ungrabbed(grabs, KeysOf(key)) ELSE grabs
  /\ key' = [e \in Entry |-> NoKey]
  /\ screens' = 0
  /\ UNCHANGED <<wanted, idles, begun, late>>

MKNext ==
  \/ MKStart \/ MKStartIdle \/ MKStop
  \/ \E e \in Entry, k \in Key \cup {NoKey} : ChangeShortcut(e, k)
  \/ \E e \in Entry : UpdateKbd(e)

=============================================================================
