------------------------------ MODULE MCEchoRpc ------------------------------
(* A small instance of EchoRpc: two clients with their own texts. *)
EXTENDS EchoRpc, TLC

CONSTANTS c1, c2

Texts == {"hello", "world", "reply hello", "reply world", "other"}
Hellos == (c1 :> "hello") @@ (c2 :> "world")
Replies ==
  ("hello" :> "reply hello") @@ ("world" :> "reply world")
    @@ ("reply hello" :> "hello") @@ ("reply world" :> "world") @@ ("other" :> "other")
=============================================================================
