-------------------------- MODULE ServiceChannelOps --------------------------
(***************************************************************************)
(* One ServiceChannel object (example/etcd_test/channel.hpp) as a value,   *)
(* and the critical sections of its three methods as operators on that     *)
(* value.  Every critical section runs under the object's mutex _mt from   *)
(* its first access to its last and blocks on nothing, so it is one atomic *)
(* step of the machines that use it: ServiceChannel (one object, any       *)
(* threads), ServiceManager (one object per service) and Discovery.        *)
(*                                                                         *)
(* Three of the fields are the members of the class:                       *)
(*   array   _rotating_array, the vector the round robin runs over         *)
(*   hosts   _hosts; hosts[h] = NoChannel says that h is not a key         *)
(*   count   _rotation_count                                               *)
(* The field past is the storage after the end of the vector, slot by      *)
(* slot: what erase() left there and push_back() has not written over.     *)
(* choose() can read it (the counter may be past the end), and the build   *)
(* of the makefile (no optimisation) leaves a moved-from pointer null and  *)
(* the bytes of a destroyed one as they were.                              *)
(* The others are history, read by no operation:                           *)
(*   erased      the channels erase() took out of the array                *)
(*   start       the index at which the current round of choose() began    *)
(*   shrunk      a channel was erased since choose() last moved count      *)
(*   reappended  hosts that were appended while they were keys of hosts    *)
(***************************************************************************)
EXTENDS Hosts, Integers, SequencesExt

CONSTANTS
  Channel,    \* identities of brpc::Channel objects; each is used once
  NoChannel   \* the null Channelptr

ASSUME NoChannelAssumption == NoChannel \notin Channel

Table ==
  [array      : Seq(Channel),
   hosts      : [Host -> Channel \cup {NoChannel}],
   count      : Nat,
   past       : Seq(Channel \cup {NoChannel}),
   erased     : SUBSET Channel,
   start      : Nat,
   shrunk     : BOOLEAN,
   reappended : SUBSET Host]

\* The constructor.
NewTable ==
  [array |-> << >>, hosts |-> [h \in Host |-> NoChannel], count |-> 0,
   past |-> << >>, erased |-> {}, start |-> 0, shrunk |-> FALSE,
   reappended |-> {}]

-----------------------------------------------------------------------------
(* append(), the part under the lock *)

\* Mutated form: the channel gets a key and no slot.
PushBackKeyOnly(sc, host, ptr) == [sc EXCEPT !.hosts[host] = ptr]

\* push_back, then _hosts[host] = new_ptr: a channel that host already had is
\* no longer a value of _hosts but stays in _rotating_array.  push_back writes
\* over the first slot of past, or moves to new storage when there is none.
PushBack(sc, host, ptr) ==
  [array      |-> Append(sc.array, ptr),
   hosts      |-> [sc.hosts EXCEPT ![host] = ptr],
   count      |-> sc.count,
   past       |-> IF sc.past = << >> THEN << >> ELSE Tail(sc.past),
   erased     |-> sc.erased,
   start      |-> sc.count,
   shrunk     |-> sc.shrunk,
   reappended |-> IF sc.hosts[host] = NoChannel
                  THEN sc.reappended ELSE sc.reappended \cup {host}]

-----------------------------------------------------------------------------
(* remove() *)

\* The position of the first slot that holds c, counted from 1.
Position(sc, c) == SelectInSeq(sc.array, LAMBDA v : v = c)

\* Mutated form: whether the host is a key is not asked.
EraseUnfound(sc, host) ==
  [sc EXCEPT !.array = RemoveAt(@, Position(sc, sc.hosts[host])),
             !.hosts[host] = NoChannel, !.start = sc.count, !.shrunk = TRUE,
             !.erased = @ \cup {sc.hosts[host]}]

\* Mutated form: the vector is erased from, the hash table is not.
EraseKeepsKey(sc, host) ==
  IF sc.hosts[host] \notin Range(sc.array) THEN sc
  ELSE [sc EXCEPT !.array = RemoveFirst(@, sc.hosts[host]),
                  !.past = << sc.hosts[host] >> \o @,
                  !.erased = @ \cup {sc.hosts[host]},
                  !.start = sc.count, !.shrunk = TRUE]

\* Mutated form: the hash table is erased from, the vector is not.
EraseKeepsSlot(sc, host) ==
  [sc EXCEPT !.hosts[host] = NoChannel]

\* Mutated form: the slot after the host's is erased.
EraseNextSlot(sc, host) ==
  IF sc.hosts[host] \notin Range(sc.array) THEN sc
  ELSE LET i == (Position(sc, sc.hosts[host]) % Len(sc.array)) + 1
       IN  [sc EXCEPT !.array = RemoveAt(@, i), !.hosts[host] = NoChannel,
                      !.past = << sc.array[i] >> \o @,
                      !.erased = @ \cup {sc.array[i]},
                      !.start = sc.count, !.shrunk = TRUE]

\* Erases the first slot that holds the host's channel, then the key.  Nothing
\* changes when the host is not a key, nor when no slot holds its channel (the
\* branch that logs a program logic error).  The slots after the erased one
\* move down by one and leave the last slot null; the last slot itself is just
\* destroyed.  _rotation_count is not adjusted.
Erase(sc, host) ==
  LET c == sc.hosts[host]
      i == Position(sc, c)
  IN  IF c \notin Range(sc.array) THEN sc
      ELSE [array      |-> RemoveAt(sc.array, i),
            hosts      |-> [sc.hosts EXCEPT ![host] = NoChannel],
            count      |-> sc.count,
            past       |-> << IF i = Len(sc.array) THEN c ELSE NoChannel >>
                             \o sc.past,
            erased     |-> sc.erased \cup {c},
            start      |-> sc.count,
            shrunk     |-> TRUE,
            reappended |-> sc.reappended]

-----------------------------------------------------------------------------
(* choose() *)

InBounds(sc) == sc.count < Len(sc.array)

\* Mutated form: the counter is advanced before the slot is read.
ChosenAfterAdvance(sc) ==
  IF sc.array = << >> THEN NoChannel
  ELSE sc.array[((sc.count + 1) % Len(sc.array)) + 1]

\* What choose() returns: the null pointer for an empty array, otherwise the
\* slot the counter names, whether or not that slot is still in the vector.
Chosen(sc) ==
  IF sc.array = << >> THEN NoChannel
  ELSE IF InBounds(sc) THEN sc.array[sc.count + 1]
  ELSE sc.past[sc.count - Len(sc.array) + 1]

\* Mutated form: the counter is advanced without the modulo.
AdvanceUnbounded(sc) ==
  IF sc.array = << >> THEN sc
  ELSE [sc EXCEPT !.count = sc.count + 1, !.shrunk = FALSE,
                  !.start = IF InBounds(sc) THEN @ ELSE sc.count + 1]

\* Mutated form: the counter goes back to the first slot every time.
AdvanceResets(sc) ==
  IF sc.array = << >> THEN sc
  ELSE [sc EXCEPT !.count = 0, !.shrunk = FALSE,
                  !.start = IF InBounds(sc) THEN @ ELSE 0]

\* The object after choose(): an empty array leaves it alone, otherwise the
\* counter moves on modulo the present size.
Advance(sc) ==
  LET next == (sc.count + 1) % Len(sc.array)
  IN  IF sc.array = << >> THEN sc
      ELSE [array      |-> sc.array,
            hosts      |-> sc.hosts,
            count      |-> next,
            past       |-> sc.past,
            erased     |-> sc.erased,
            start      |-> IF InBounds(sc) THEN sc.start ELSE next,
            shrunk     |-> FALSE,
            reappended |-> sc.reappended]

-----------------------------------------------------------------------------
(* What the history says of the object. *)

\* The slots the current round has visited: from start up to count, around
\* the end of the array when count has wrapped.
InRound(sc, j) ==
  IF sc.start <= sc.count THEN sc.start <= j /\ j < sc.count
                          ELSE sc.start <= j \/ j < sc.count

\* The channels the current round has handed out.
Round(sc) ==
  {sc.array[j + 1] : j \in {i \in 0 .. Len(sc.array) - 1 : InRound(sc, i)}}

\* A host's channel in the hash table has a slot in the array: remove() never
\* takes the branch that logs a program logic error.
HostsHaveSlots(sc) ==
  \A h \in Host : sc.hosts[h] # NoChannel => sc.hosts[h] \in Range(sc.array)

\* Two hosts never share a channel: taking one out leaves the other's slot.
NoSharedChannel(sc) ==
  \A g, h \in Host :
    sc.hosts[g] = sc.hosts[h] /\ sc.hosts[g] # NoChannel => g = h

\* No channel has two slots, so that remove() takes a channel out altogether.
NoDoubleSlot(sc) == IsInjective(sc.array)

\* The counter names a slot unless a channel was erased since it last moved.
CounterStaleOnlyAfterErase(sc) ==
  sc.shrunk \/ sc.count = 0 \/ sc.count < Len(sc.array)

\* The slot the counter names lies in storage the vector has used: choose()
\* may read past the end, never past that.
CounterInStorage(sc) ==
  sc.count = 0 \/ sc.count < Len(sc.array) + Len(sc.past)

\* A round in progress lies within the array.
RoundInArray(sc) ==
  sc.start = sc.count \/ (sc.start < Len(sc.array) /\ sc.count < Len(sc.array))

\* What append(), remove() and choose() keep true of the vector, the storage
\* behind it and the counter, whatever the hash table says.
RotationConsistent(sc) ==
  /\ sc \in Table
  /\ NoDoubleSlot(sc)
  /\ Range(sc.array) \cap sc.erased = {}
  /\ Range(sc.past) \subseteq sc.erased \cup {NoChannel}
  /\ CounterStaleOnlyAfterErase(sc)
  /\ CounterInStorage(sc)
  /\ RoundInArray(sc)

\* What they keep true of one object.
Consistent(sc) ==
  /\ RotationConsistent(sc)
  /\ HostsHaveSlots(sc)
  /\ NoSharedChannel(sc)
=============================================================================
