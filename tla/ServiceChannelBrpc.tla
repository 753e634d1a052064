-------------------------- MODULE ServiceChannelBrpc --------------------------
(***************************************************************************)
(* The earlier thx::ServiceChannel of example/brpc_test/channel.hpp.  It   *)
(* differs from the one of module ServiceChannel in two places:            *)
(*   - append() builds every channel for 127.0.0.1:8080 and stores it      *)
(*     under the host it was called with; addr[c] is that host here;       *)
(*   - remove() compares the iterator it erased through with end().  The   *)
(*     standard leaves that iterator invalid; in the vectors of the build  *)
(*     it is a pointer to the erased slot, and equals end() exactly when   *)
(*     the slot was the last.                                              *)
(***************************************************************************)
EXTENDS ServiceChannel

\* remove(): the slot is erased as in Erase, but when it was the last one the
\* method takes the branch of the program logic error, and the key stays.
EraseThroughInvalid(table, host) ==
  LET new == Erase(table, host)
  IN  IF Position(table, table.hosts[host]) = Len(table.array)
      THEN [new EXCEPT !.hosts[host] = table.hosts[host]]
      ELSE new

RemoveHostBrpc(t, h) ==
  /\ Idle(t)
  /\ sc' = EraseThroughInvalid(sc, h)
  /\ UNCHANGED <<addr, new_ptr, arg, chosen>>

NextBrpc ==
  \E t \in Thread :
    \/ \E h \in Host, c \in Channel : AppendCreate(t, h, c)
    \/ \E h \in Host, c \in Channel : AppendFail(t, h, c)
    \/ AppendInsert(t)
    \/ \E h \in Host : RemoveHostBrpc(t, h)
    \/ Choose(t)

SpecBrpc == Init /\ [][NextBrpc]_vars

-----------------------------------------------------------------------------

\* A key without a slot is one whose channel remove() has erased: the branch
\* of the program logic error is taken for no other reason than the iterator,
\* at the removal itself or at a later one of the same key (channel.hpp:57-61).
StaleKeyWasErased ==
  \A h \in Host :
    sc.hosts[h] # NoChannel => sc.hosts[h] \in Range(sc.array) \cup sc.erased

\* The inductive invariant behind it: the rotation is as consistent as in
\* ServiceChannel, since only the hash table is left behind.
IInvBrpc ==
  /\ TypeOK
  /\ RotationConsistent(sc)
  /\ StaleKeyWasErased
  /\ PendingIsFresh
  /\ \A c \in Range(sc.array) \cup sc.erased : ~Unused(c)
  /\ \A t \in Thread : ~Idle(t) => arg[t] # NoHost
=============================================================================
