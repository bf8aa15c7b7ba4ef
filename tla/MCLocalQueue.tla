---------------------------- MODULE MCLocalQueue ----------------------------
(* LocalQueue on a small instance.                                         *)
EXTENDS LocalQueue
=============================================================================
