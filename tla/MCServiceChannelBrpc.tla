------------------------- MODULE MCServiceChannelBrpc -------------------------
(* Small instances of ServiceChannelBrpc. *)
EXTENDS ServiceChannelBrpc
=============================================================================
