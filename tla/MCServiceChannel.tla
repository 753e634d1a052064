--------------------------- MODULE MCServiceChannel ---------------------------
(* Small instances of ServiceChannel. *)
EXTENDS ServiceChannel

\* Threads, hosts and channels are interchangeable.
Symmetry == Permutations(Thread) \cup Permutations(Host)
              \cup Permutations(Channel)
=============================================================================
