---------------------------- MODULE MCSmartcard ----------------------------
(* SmartcardManager with two readers and two cards, one of them the login  *)
(* card.                                                                   *)
EXTENDS SmartcardManager

CONSTANTS s1, s2, login, other

(* The readers start in one of the states that differ by more than names.  *)
MCInit ==
  /\ Init
  /\ slots[s2].card # login
  /\ slots[s1].card = NoCard => slots[s2].card = NoCard

MCSpec == MCInit /\ [][Next]_vars /\ Fairness

(* Bounds: insertions in all, fewer when the plugin is activated again,    *)
(* and the messages that wait.  Two insertions into one slot let the       *)
(* worker skip a card.                                                     *)
FewInsertions ==
  /\ Len(pipe) <= 2
  /\ slots[s2].series <= 2
  /\ slots[s1].series + slots[s2].series <=
       CASE activations = 0 -> 2 [] activations = 1 -> 4 [] OTHER -> 3

=============================================================================
