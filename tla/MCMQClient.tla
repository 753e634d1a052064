------------------------------ MODULE MCMQClient ------------------------------
(* Small instances of MQClient. *)
EXTENDS MQClient
=============================================================================
