---------------------------- MODULE MCRefCounted ----------------------------
(* RefCounted with the two threads that share a message. *)
EXTENDS RefCounted, TLC

CONSTANTS client, handler
=============================================================================
