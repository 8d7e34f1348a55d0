---------------------------- MODULE MCMailOutbox ----------------------------
(* Small instances of MailOutbox for TLC. *)
EXTENDS MailOutbox, TLC

CONSTANTS m1, w1, w2
=============================================================================
