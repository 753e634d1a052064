---------------------------- MODULE MCPersonStore ----------------------------
(* A small instance of PersonStore. *)
EXTENDS PersonStore

\* A name that fits the first buffer and one that does not; an age that does
\* not fit unsigned short; a time that is NULL and one that cannot be converted.
SomePeople ==
  {[name |-> 1, age |-> 7, time |-> "good"], [name |-> 2, age |-> 65544, time |-> "good"],
   [name |-> 1, age |-> 7, time |-> "null"], [name |-> 2, age |-> 65544, time |-> "bad"]}
=============================================================================
