---------------------------- MODULE MCReadHandler ----------------------------
(* Instances of ReadHandler for TLC. *)
EXTENDS ReadHandler

PushedValues == 0..MaxPush
=============================================================================
