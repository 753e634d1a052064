-------------------------------- MODULE Hosts --------------------------------
(***************************************************************************)
(* The addresses the parts of the system speak of: the store keeps them as *)
(* values of its keys, its events carry them, and a ServiceChannel has a   *)
(* channel to each.                                                        *)
(***************************************************************************)
CONSTANT Host    \* the host:port strings
=============================================================================
