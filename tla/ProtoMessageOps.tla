--------------------------- MODULE ProtoMessageOps ---------------------------
(***************************************************************************)
(* The messages of example/brpc_test/main.proto as values, and what the    *)
(* code protoc generated for them (main.pb.cc, main.pb.h) computes.        *)
(* EchoRequest and EchoResponse have the same one field and the same code; *)
(* these operators are translated from EchoRequest's.                      *)
(*                                                                         *)
(* A message is its text and the fields it got from the wire and does not  *)
(* know.  The wire is a sequence of fields: the text, an unknown one, the  *)
(* tag that ends a group, or bytes that are no field at all.               *)
(***************************************************************************)
EXTENDS Naturals, SequencesExt

CONSTANTS
  Text,     \* strings that are not empty
  NotUtf8,  \* those of them that are not UTF-8
  Unknown   \* the fields a later version of the program may send

Empty == "empty"

ASSUME ProtoAssumption == NotUtf8 \subseteq Text /\ Empty \notin Text

Message == [text : Text \cup {Empty}, unknown : Seq(Unknown)]
TextField(t) == [kind |-> "text", val |-> t]
UnknownField(u) == [kind |-> "unknown", val |-> u]
Broken == [kind |-> "broken", val |-> Empty]
EndGroup == [kind |-> "end", val |-> Empty]

\* What a wire is made of.
Field ==
  {TextField(t) : t \in Text \cup {Empty}} \cup {UnknownField(u) : u \in Unknown}
    \cup {Broken, EndGroup}

\* The constructors without a source.
NewMessage == [text |-> Empty, unknown |-> << >>]

\* Clear().
Cleared(m) == NewMessage

\* Mutated form: a text that is not set overwrites.
MergedAlways(m, from) == [text |-> from.text, unknown |-> m.unknown \o from.unknown]

\* MergeImpl(): a text that is not empty replaces, unknown fields are added.
Merged(m, from) ==
  [text |-> IF from.text = Empty THEN m.text ELSE from.text,
   unknown |-> m.unknown \o from.unknown]

\* The copy constructor.
Copied(from) == Merged(NewMessage, from)

\* Mutated form: what the program does not know is dropped.
WireDropsUnknown(m) == IF m.text = Empty THEN << >> ELSE << TextField(m.text) >>

\* _InternalSerialize(): an empty text is not written; one that is not UTF-8 is
\* logged and written.
Wire(m) ==
  (IF m.text = Empty THEN << >> ELSE << TextField(m.text) >>)
    \o [n \in DOMAIN m.unknown |-> UnknownField(m.unknown[n])]

\* ByteSizeLong(), counted in fields.
ByteSize(m) == (IF m.text = Empty THEN 0 ELSE 1) + Len(m.unknown)

\* One turn of the loop of _InternalParse(): r has the message so far, whether
\* parsing goes on, and whether it failed.
ParseField(r, f) ==
  IF ~r.more THEN r
  ELSE CASE f.kind = "text" ->
              [r EXCEPT !.m.text = f.val, !.more = f.val \notin NotUtf8,
                        !.failed = f.val \in NotUtf8]
         [] f.kind = "unknown" -> [r EXCEPT !.m.unknown = Append(@, f.val)]
         [] f.kind = "end" -> [r EXCEPT !.more = FALSE, !.ended = TRUE]
         [] f.kind = "broken" -> [r EXCEPT !.more = FALSE, !.failed = TRUE]

\* _InternalParse() of a wire into a message: it adds to what the message has,
\* keeps what it read before it failed, and stops at the end of a group.
Parsed(m, w) ==
  FoldLeft(ParseField, [m |-> m, more |-> TRUE, failed |-> FALSE, ended |-> FALSE], w)

\* ParseFrom...(): the message is cleared first, and the wire must be used up.
ParsedFrom(m, w) == Parsed(Cleared(m), w)
ParsedOk(r) == ~r.failed /\ ~r.ended
=============================================================================
