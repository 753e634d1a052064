------------------------------ MODULE MCDiscovery ------------------------------
(* Small instances of Discovery. *)
EXTENDS Discovery
Symmetry == Permutations(Key) \cup Permutations(Host) \cup Permutations(Lease)
              \cup Permutations(Channel)
=============================================================================
