--------------------------- MODULE MCCardBilling ----------------------------
(* Small instances of CardBilling for TLC. *)
EXTENDS CardBilling, TLC

CONSTANTS h1, h2, x1, x2
=============================================================================
