--------------------------- MODULE MCConfirmation ---------------------------
(* Confirmation with two configurations.                                   *)
EXTENDS Confirmation

CONSTANTS c1, c2

=============================================================================
