----------------------------- MODULE ProtoMessage -----------------------------
(***************************************************************************)
(* Objects of class EchoResponse (main.pb.h, main.pb.cc of example/        *)
(* brpc_test), and who owns the strings their texts are in.                *)
(*                                                                         *)
(* An object points to the shared empty string (Default) or to a string of *)
(* its own on the heap, which release_message() hands to the program and   *)
(* set_allocated_message() takes from it.  No object lives on an arena:    *)
(* the repository uses none, so the branches for arenas are left out.      *)
(***************************************************************************)
EXTENDS ProtoMessageOps

CONSTANTS
  Obj,
  Str,        \* addresses of strings
  Default,    \* the address of the shared empty string
  Wires,      \* what the program parses
  MaxUnknown  \* bound on the unknown fields of an object

ASSUME ObjectsAssumption == Default \notin Str
ASSUME WiresAssumption == Wires \subseteq Seq(Field)

VARIABLES
  msg,  \* the objects that exist
  heap, \* the strings that are allocated, with what is in them
  held  \* the strings the program owns

objectVars == <<msg, heap, held>>

Live == DOMAIN msg

ObjectsInit ==
  /\ msg = [o \in {} |-> NewMessage]
  /\ heap = [s \in {} |-> Empty]
  /\ held = {}

\* What the object says.
Value(o) ==
  [text |-> IF msg[o].str = Default THEN Empty ELSE heap[msg[o].str],
   unknown |-> msg[o].unknown]

\* Writing to an object or a string, also a new one, and deleting one.
With(f, x, y) == [z \in DOMAIN f \cup {x} |-> IF z = x THEN y ELSE f[z]]
Without(f, x) == [z \in DOMAIN f \ {x} |-> f[z]]

Fresh == [str |-> Default, unknown |-> << >>]

\* The object comes to say v.  ArenaStringPtr::Set() and Mutable() (set) write
\* to a string of its own, and leave the shared one for a new one, whatever there
\* is to write; where neither is called the text is cleared or stays.
Says(o, v, set) ==
  /\ Len(v.unknown) <= MaxUnknown
  /\ \/ /\ msg[o].str # Default
        /\ heap' = With(heap, msg[o].str, v.text)
        /\ msg' = [msg EXCEPT ![o].unknown = v.unknown]
     \/ /\ msg[o].str = Default /\ ~set
        /\ msg' = [msg EXCEPT ![o].unknown = v.unknown]
        /\ UNCHANGED heap
     \/ /\ msg[o].str = Default /\ set
        /\ \E s \in Str \ DOMAIN heap :
             /\ heap' = With(heap, s, v.text)
             /\ msg' = [msg EXCEPT ![o] = [str |-> s, unknown |-> v.unknown]]
  /\ UNCHANGED held

-----------------------------------------------------------------------------

\* EchoResponse().
New(o) ==
  /\ o \notin Live
  /\ msg' = With(msg, o, Fresh)
  /\ UNCHANGED <<heap, held>>

\* Mutated form: the copy points to the string of the original.
NewCopyShares(o, p) ==
  /\ o \notin Live /\ p \in Live
  /\ msg' = With(msg, o, msg[p])
  /\ UNCHANGED <<heap, held>>

\* EchoResponse(from).
NewCopy(o, p) ==
  /\ o \notin Live /\ p \in Live
  /\ LET v == Copied(Value(p))
     IN  \/ /\ v.text = Empty
            /\ msg' = With(msg, o, [Fresh EXCEPT !.unknown = v.unknown])
            /\ UNCHANGED heap
         \/ /\ v.text # Empty
            /\ \E s \in Str \ DOMAIN heap :
                 /\ heap' = With(heap, s, v.text)
                 /\ msg' = With(msg, o, [str |-> s, unknown |-> v.unknown])
  /\ UNCHANGED held

\* EchoResponse(std::move(from)).
NewMoved(o, p) ==
  /\ o \notin Live /\ p \in Live
  /\ msg' = With([msg EXCEPT ![p] = Fresh], o, msg[p])
  /\ UNCHANGED <<heap, held>>

\* ~EchoResponse().
Delete(o) ==
  /\ o \in Live
  /\ heap' = Without(heap, msg[o].str)
  /\ msg' = Without(msg, o)
  /\ UNCHANGED held

\* Clear(), clear_message(), set_message(), also with an empty text, and a write
\* through mutable_message().
Clear(o) == o \in Live /\ Says(o, Cleared(Value(o)), FALSE)
ClearMessage(o) == o \in Live /\ Says(o, [Value(o) EXCEPT !.text = Empty], FALSE)
SetMessage(o, t) == o \in Live /\ Says(o, [Value(o) EXCEPT !.text = t], TRUE)

\* release_message(): the program gets the string, or null when the object has
\* none of its own.
ReleaseMessage(o) ==
  /\ o \in Live
  /\ held' = held \cup ({msg[o].str} \ {Default})
  /\ msg' = [msg EXCEPT ![o].str = Default]
  /\ UNCHANGED heap

\* set_allocated_message(s), and with null.
SetAllocatedMessage(o, s) ==
  /\ o \in Live /\ s \in held
  /\ heap' = Without(heap, msg[o].str)
  /\ msg' = [msg EXCEPT ![o].str = s]
  /\ held' = held \ {s}

SetAllocatedNull(o) ==
  /\ o \in Live
  /\ heap' = Without(heap, msg[o].str)
  /\ msg' = [msg EXCEPT ![o].str = Default]
  /\ UNCHANGED held

\* The program deletes a string it was given.
DeleteString(s) ==
  /\ s \in held
  /\ held' = held \ {s}
  /\ heap' = Without(heap, s)
  /\ UNCHANGED msg

\* MergeFrom(), of another object: MergeImpl() refuses its own.
MergeFrom(o, p) ==
  /\ o # p /\ {o, p} \subseteq Live
  /\ Says(o, Merged(Value(o), Value(p)), Value(p).text # Empty)

\* Mutated form: an object copied to itself is cleared first.
CopyFromUnchecked(o, p) ==
  /\ {o, p} \subseteq Live
  /\ Says(o, Merged(Cleared(Value(o)), IF o = p THEN NewMessage ELSE Value(p)),
          o # p /\ Value(p).text # Empty)

\* CopyFrom() and the assignment of a copy.
CopyFrom(o, p) ==
  /\ {o, p} \subseteq Live
  /\ IF o = p THEN UNCHANGED objectVars
              ELSE Says(o, Merged(Cleared(Value(o)), Value(p)), Value(p).text # Empty)

\* Swap(), InternalSwap().
Swap(o, p) ==
  /\ {o, p} \subseteq Live
  /\ msg' = [msg EXCEPT ![o] = msg[p], ![p] = msg[o]]
  /\ UNCHANGED <<heap, held>>

\* The assignment of an object that is moved: they are swapped.
MoveFrom(o, p) == Swap(o, p)

\* _InternalParse() comes to a text.
TakesText(w) ==
  \E n \in DOMAIN w : w[n].kind = "text" /\ \A i \in 1 .. n - 1 : w[i].kind = "unknown"

\* ParseFrom...(): what was read before it failed stays in the object.
ParseFrom(o, w) == o \in Live /\ Says(o, ParsedFrom(Value(o), w).m, TakesText(w))

ObjectsNext ==
  \/ \E o \in Obj :
       \/ New(o) \/ Delete(o) \/ Clear(o) \/ ClearMessage(o)
       \/ ReleaseMessage(o) \/ SetAllocatedNull(o)
  \/ \E o \in Obj, t \in Text \cup {Empty} : SetMessage(o, t)
  \/ \E o \in Obj, s \in Str : SetAllocatedMessage(o, s)
  \/ \E s \in Str : DeleteString(s)
  \/ \E o, p \in Obj :
       \/ NewCopy(o, p) \/ NewMoved(o, p) \/ MergeFrom(o, p) \/ CopyFrom(o, p)
       \/ Swap(o, p) \/ MoveFrom(o, p)
  \/ \E o \in Obj, w \in Wires : ParseFrom(o, w)

ObjectsSpec == ObjectsInit /\ [][ObjectsNext]_objectVars

-----------------------------------------------------------------------------
(* Properties *)

\* A string on the heap has one owner, an object or the program, until it is
\* deleted: none is deleted twice, written to by two, or lost (main.pb.cc:314-365,
\* 494-503, main.pb.h:507-540).
OneOwner ==
  /\ DOMAIN heap = held \cup ({msg[o].str : o \in Live} \ {Default})
  /\ \A o \in Live : msg[o].str \notin held
  /\ \A o, p \in Live : msg[o].str = msg[p].str => o = p \/ msg[o].str = Default

\* What an object says survives the wire, fields that the program does not know
\* included, and takes the bytes that were counted for it, unless its text is
\* not UTF-8: that is written, and refused by the reader
\* (main.pb.cc:381-461; 178-257).
ParsesBack ==
  \A o \in Live :
    LET v == Value(o)
        r == ParsedFrom(v, Wire(v))
    IN  /\ Len(Wire(v)) = ByteSize(v)
        /\ IF v.text \in NotUtf8 THEN ~ParsedOk(r) ELSE ParsedOk(r) /\ r.m = v

\* Two messages written one after the other are read as the merge of both
\* (main.pb.cc:381-442, 469-481; 178-239, 266-278).
ConcatenationMerges ==
  \A o, p \in Live :
    {Value(o).text, Value(p).text} \cap NotUtf8 = {} =>
      Parsed(NewMessage, Wire(Value(o)) \o Wire(Value(p))).m = Merged(Value(o), Value(p))

\* A copy says what the original says, which stays as it is, also when an object
\* is copied to itself (main.pb.cc:483-488).
CopyIsEqual ==
  [][\A o, p \in Obj :
       CopyFrom(o, p) => Value(o)' = Value(p) /\ Value(p)' = Value(p)]_objectVars

(* The invariants behind them *)

IsObject(m) == m = [str |-> m.str, unknown |-> m.unknown]

IInv ==
  /\ OneOwner
  /\ DOMAIN heap \subseteq Str
  /\ \A o \in Live : IsObject(msg[o])

\* What strings and objects hold is text and fields.
Typed ==
  /\ \A s \in DOMAIN heap : heap[s] \in Text \cup {Empty}
  /\ \A o \in Live : msg[o].unknown \in Seq(Unknown)
=============================================================================
