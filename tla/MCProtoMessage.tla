--------------------------- MODULE MCProtoMessage ---------------------------
(* A small instance of ProtoMessage. *)
EXTENDS ProtoMessage

CONSTANTS t1, t2, bad, u1, u2

\* What an older or a later program writes: fields in both orders, an unknown
\* one, the same field twice, a text that is not UTF-8, an empty text that is
\* there, the end of a group, and bytes that are no field.
SomeWires ==
  {<< >>, <<UnknownField(u1), TextField(t1)>>, <<TextField(t1), TextField(t2)>>,
   <<UnknownField(u2), TextField(bad), TextField(t1)>>, <<TextField(Empty)>>,
   <<TextField(t1), EndGroup, TextField(t2)>>, <<TextField(t2), Broken, UnknownField(u2)>>}

Symmetry == Permutations(Obj) \cup Permutations(Str)
=============================================================================
