--------------------------- MODULE MCServiceManager ---------------------------
(* Small instances of ServiceManager. *)
EXTENDS ServiceManager

\* A service with an instance, and a key without a slash, which names the
\* service above it.
Instances == {<<"service", "echo", "1">>, <<"service">>}
Services == {<<"service">>, <<"service", "echo">>}

Symmetry == Permutations(Host) \cup Permutations(Channel)
              \cup Permutations(Obj) \cup Permutations(Callback)
=============================================================================
