------------------------------ MODULE MCRilEvent ------------------------------
(* Instances of RilEvent for TLC. *)
EXTENDS RilEvent
=============================================================================
