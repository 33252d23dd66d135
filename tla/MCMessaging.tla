---------------------------- MODULE MCMessaging ----------------------------
(* Small instances of Messaging for TLC. *)
EXTENDS Messaging

CONSTANTS p1, q1, r1
=============================================================================
