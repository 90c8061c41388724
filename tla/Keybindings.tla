---------------------------- MODULE Keybindings ----------------------------
(***************************************************************************)
(* The keybindings plugin (plugins/keybindings/csd_keybindings-manager.c): *)
(* custom bindings of keys to commands, all read and grabbed anew whenever *)
(* one of them changes.                                                    *)
(***************************************************************************)
EXTENDS KeyGrabs

CONSTANTS
  Path \* of a custom binding in dconf

VARIABLES
  custom,  \* the bindings in dconf
  changed, \* a change is yet to be signalled
  active,  \* the plugin is activated
  binding  \* binding_list, by the path: without the paths that have no key

kbvars == <<custom, changed, active, binding>>

(* bindings_clear                                                          *)
Cleared == [p \in {} |-> NoKey]

(* bindings_get_entries                                                    *)
GetEntries(c) == [p \in {q \in Path : c[q] # NoKey} |-> c[p]]

KBInit ==
  /\ custom \in [Path -> Key \cup {NoKey}]
  /\ changed = FALSE
  /\ active = FALSE
  /\ binding = Cleared

(* key_already_used: another binding has one of the keycodes               *)
KeyAlreadyUsed(b, p) == \E q \in DOMAIN b \ {p} : b[q] \cap b[p] # {}

(* binding_register_keys: what nobody else uses is grabbed.  (After the    *)
(* list was cleared no binding has a previous key.)                        *)
RegisterKeys(held, b) ==
  Grabbed(held, UNION {b[p] : p \in {q \in DOMAIN b : ~KeyAlreadyUsed(b, q)}})

(* binding_unregister_keys                                                 *)
UnregisterKeys(held, b) == Ungrabbed(held, UNION {b[p] : p \in DOMAIN b})

-----------------------------------------------------------------------------
(* csd_keybindings_manager_start                                           *)
KBStart ==
  /\ ~active
  /\ active' = TRUE
  /\ binding' = GetEntries(custom)
  /\ grabs' = RegisterKeys(grabs, GetEntries(custom))
  /\ UNCHANGED <<custom, changed>>

ChangeBinding(p, k) ==
  /\ custom[p] # k
  /\ custom' = [custom EXCEPT ![p] = k]
  /\ changed' = active
  /\ UNCHANGED <<active, binding, grabs>>

(* Mutant: the list is read before the keys of the old one are ungrabbed.  *)
BindingsCallbackReadingFirst ==
  /\ active /\ changed
  /\ changed' = FALSE
  /\ binding' = GetEntries(custom)
  /\ grabs' = RegisterKeys(UnregisterKeys(grabs, GetEntries(custom)), GetEntries(custom))
  /\ UNCHANGED <<custom, active>>

(* bindings_callback                                                       *)
BindingsCallback ==
  /\ active /\ changed
  /\ changed' = FALSE
  /\ binding' = GetEntries(custom)
  /\ grabs' = RegisterKeys(UnregisterKeys(grabs, binding), GetEntries(custom))
  /\ UNCHANGED <<custom, active>>

(* csd_keybindings_manager_stop                                            *)
KBStop ==
  /\ active
  /\ active' = FALSE
  /\ changed' = FALSE
  /\ grabs' = UnregisterKeys(grabs, binding)
  /\ binding' = Cleared
  /\ UNCHANGED custom

KBNext ==
  \/ KBStart \/ BindingsCallback \/ KBStop
  \/ \E p \in Path, k \in Key \cup {NoKey} : ChangeBinding(p, k)

=============================================================================
