----------------------------- MODULE LoadBalancer -----------------------------
(***************************************************************************)
(* What a ServiceChannel promises to the callers of choose(), without the  *)
(* vector, the hash table and the counter: a set of members, and rounds in *)
(* which every member is handed out once before any is handed out again.   *)
(*                                                                         *)
(* The promise has one gap, which the code really has: after a member was  *)
(* dropped, one answer may be a member that is gone, or null, although     *)
(* there are members left (Misread).  It is one answer for any number of   *)
(* drops: an answer of either kind closes the gap.                         *)
(***************************************************************************)
EXTENDS Integers

CONSTANTS Backend, Client, None

VARIABLES
  members,   \* the backends in the rotation
  gone,      \* the backends that were dropped
  round,     \* the members this round has handed out
  dirty,     \* a member was dropped since the last answer
  answer     \* the last answer each client got

vars == <<members, gone, round, dirty, answer>>

Init ==
  /\ members = {}
  /\ gone = {}
  /\ round = {}
  /\ dirty = FALSE
  /\ answer = [t \in Client |-> None]

\* A backend joins; it is new.  The round starts afresh.
Add(c) ==
  /\ c \notin members \cup gone
  /\ members' = members \cup {c}
  /\ round' = {}
  /\ UNCHANGED <<gone, dirty, answer>>

\* A member leaves, for good.  The round starts afresh.
Drop(c) ==
  /\ c \in members
  /\ members' = members \ {c}
  /\ gone' = gone \cup {c}
  /\ round' = {}
  /\ dirty' = TRUE
  /\ UNCHANGED answer

\* There is no member to hand out.
Refuse(t) ==
  /\ members = {}
  /\ answer' = [answer EXCEPT ![t] = None]
  /\ UNCHANGED <<members, gone, round, dirty>>

\* A member this round has not handed out yet; the last one ends the round.
Serve(t, c) ==
  /\ c \in members \ round
  /\ answer' = [answer EXCEPT ![t] = c]
  /\ round' = IF round \cup {c} = members THEN {} ELSE round \cup {c}
  /\ dirty' = FALSE
  /\ UNCHANGED <<members, gone>>

\* The answer after a drop that is no member.
Misread(t, c) ==
  /\ dirty
  /\ members # {}
  /\ c \in gone \cup {None}
  /\ answer' = [answer EXCEPT ![t] = c]
  /\ dirty' = FALSE
  /\ UNCHANGED <<members, gone, round>>

Next ==
  \/ \E c \in Backend : Add(c) \/ Drop(c)
  \/ \E t \in Client : Refuse(t)
  \/ \E t \in Client, c \in Backend : Serve(t, c)
  \/ \E t \in Client, c \in Backend \cup {None} : Misread(t, c)

Spec == Init /\ [][Next]_vars
=============================================================================
