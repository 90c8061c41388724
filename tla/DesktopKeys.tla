---------------------------- MODULE DesktopKeys ----------------------------
(***************************************************************************)
(* The media-keys and the keybindings plugins in one daemon: their grabs   *)
(* are those of one X client.                                              *)
(***************************************************************************)
EXTENDS MediaKeys, Keybindings

VARIABLE
  shared \* history: what was bound while it was bound twice, taken, or without a screen

vars == <<grabs, taken, mkvars, kbvars, shared>>

(* What is bound by more than one entry or path.                           *)
BoundTwice(table, b) ==
  LET Twice(f) == {c \in KeysOf(f) : \E x, y \in DOMAIN f : x # y /\ c \in f[x] \cap f[y]}
  IN Twice(table) \cup Twice(b) \cup (KeysOf(table) \cap KeysOf(b))

Init ==
  /\ grabs = {}
  /\ taken = {}
  /\ MKInit
  /\ KBInit
  /\ shared = {}

Next ==
  /\ \/ MKNext /\ UNCHANGED <<taken, kbvars>>
     \/ KBNext /\ UNCHANGED <<taken, mkvars>>
     \/ \E c \in Contested : (OthersGrab(c) \/ OthersUngrab(c)) /\ UNCHANGED <<mkvars, kbvars>>
  /\ shared' = shared \cup BoundTwice(key', binding')
                      \cup ((KeysOf(key') \cup KeysOf(binding')) \cap taken')
                      \cup (IF screens' = 0 THEN KeysOf(key') ELSE {})

Spec == Init /\ [][Next]_vars

-----------------------------------------------------------------------------
(* Sets of keycodes, no key with two owners, and counts that never go      *)
(* below zero: a stop gives up only what its own start made.               *)
TypeOK ==
  /\ grabs \in SUBSET Code /\ taken \in SUBSET Code /\ grabs \cap taken = {}
  /\ wanted \in [Entry -> SUBSET Code] /\ key \in [Entry -> SUBSET Code]
  /\ custom \in [Path -> SUBSET Code]
  /\ DOMAIN binding \subseteq Path /\ KeysOf(binding) \subseteq Code
  /\ unseen \in SUBSET Entry
  /\ idles \in Nat /\ screens \in Nat /\ watches \in Nat

(* No key is kept from the applications that is not bound to anything:     *)
(* whatever is grabbed is the key of an entry of the media-keys plugin or  *)
(* of a custom binding, however settings change while plugins start and    *)
(* stop, unless a start that was queued before a stop ran after it.        *)
GrabsAreBound == ~late => grabs \subseteq KeysOf(key) \cup KeysOf(binding)

(* A key that is bound is grabbed, unless some of it was bound twice: of   *)
(* two custom bindings neither is grabbed, and the two plugins, and the    *)
(* entries of one, ungrab what others grabbed.  Or unless another          *)
(* application had some of it while it was bound: the grab failed, and is  *)
(* not tried again when that application gives it up.  Or unless it was    *)
(* set while the plugin was stopped, which the settings of a start that    *)
(* ran late still tell: the next start does not grab it if it is unset by  *)
(* then.                                                                   *)
BoundIsGrabbed ==
  \A k \in (IF screens > 0 THEN {key[e] : e \in Entry} ELSE {}) \cup {binding[p] : p \in DOMAIN binding} :
    k \cap shared = {} => k \subseteq grabs

=============================================================================
