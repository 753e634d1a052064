------------------------ MODULE ServiceChannelProofs ------------------------
(***************************************************************************)
(* The safety of a ServiceChannel and of its earlier version for any       *)
(* number of threads, hosts and channels, and that both implement          *)
(* LoadBalancer.                                                           *)
(***************************************************************************)
EXTENDS ServiceChannelBrpc, ServiceChannelOpsProofs

-----------------------------------------------------------------------------
(* The inductive invariant *)

\* It holds initially.
LEMMA InitIInv == Init => IInv
<1>. SUFFICES ASSUME Init PROVE IInv
  OBVIOUS
<1>1. Consistent(sc)
  BY NewTableConsistent DEF Init
<1>2. sc.array = << >> /\ sc.erased = {} /\ Range(<< >>) = {}
  BY DEF Init, NewTable, Range
<1>3. TypeOK
  BY <1>1 DEF Init, TypeOK, Consistent, RotationConsistent
<1>4. KeyNamesItsHost
  BY DEF Init, NewTable, KeyNamesItsHost
<1>5. UnremovableOnlyIfReappended /\ PendingIsFresh
  BY <1>2 DEF Init, UnremovableOnlyIfReappended, PendingIsFresh, Idle
<1>6. \A t \in Thread : Idle(t)
  BY DEF Init, Idle
<1>. QED  BY <1>1, <1>2, <1>3, <1>4, <1>5, <1>6 DEF IInv

\* Building a channel, stored later or not, keeps it.
LEMMA AppendCreateIInv ==
  ASSUME IInv, NEW t \in Thread, NEW h \in Host, NEW c \in Channel,
         AppendCreate(t, h, c) \/ AppendFail(t, h, c)
  PROVE  IInv'
<1>1. Idle(t) /\ Unused(c) /\ addr' = [addr EXCEPT ![c] = h] /\ sc' = sc
  BY DEF AppendCreate, AppendFail
<1>2. \/ /\ new_ptr' = [new_ptr EXCEPT ![t] = c]
         /\ arg' = [arg EXCEPT ![t] = h]
      \/ new_ptr' = new_ptr /\ arg' = arg
  BY DEF AppendCreate, AppendFail
<1>3. TypeOK /\ TypeOK' /\ Consistent(sc) /\ Consistent(sc')
  BY <1>1 DEF IInv, TypeOK, AppendCreate, AppendFail
<1>4. c \notin Range(sc.array) \cup sc.erased
  BY <1>1 DEF IInv
<1>5. KeyNamesItsHost'
  BY <1>1, <1>3, <1>4, NoHostAssumption
  DEF IInv, KeyNamesItsHost, Consistent, RotationConsistent, HostsHaveSlots, TypeOK
<1>6. UnremovableOnlyIfReappended'
  BY <1>1, <1>3, <1>4 DEF IInv, UnremovableOnlyIfReappended, TypeOK
<1>7. (\A d \in Range(sc.array) \cup sc.erased : ~Unused(d))'
  BY <1>1, <1>3, <1>4 DEF IInv, Unused, TypeOK
<1>8. \A u \in Thread : new_ptr[u] # c
  BY <1>1, <1>3, NoChannelAssumption, NoHostAssumption
  DEF IInv, PendingIsFresh, Idle, Unused, TypeOK
<1>9. PendingIsFresh'
  <2>1. CASE new_ptr' = new_ptr /\ arg' = arg
    BY <1>1, <1>3, <1>8, <2>1 DEF IInv, PendingIsFresh, Idle, TypeOK
  <2>2. CASE /\ new_ptr' = [new_ptr EXCEPT ![t] = c]
             /\ arg' = [arg EXCEPT ![t] = h]
    BY <1>1, <1>3, <1>4, <1>8, <2>2 DEF IInv, PendingIsFresh, Idle, TypeOK
  <2>. QED  BY <1>2, <2>1, <2>2
<1>10. (\A u \in Thread : ~Idle(u) => arg[u] # NoHost)'
  BY <1>1, <1>2, <1>3, NoHostAssumption DEF IInv, Idle, TypeOK
<1>. QED  BY <1>3, <1>5, <1>6, <1>7, <1>9, <1>10 DEF IInv

\* Storing the channel keeps it.
LEMMA AppendInsertIInv ==
  ASSUME IInv, NEW t \in Thread, AppendInsert(t)
  PROVE  IInv'
<1>1. PICK c \in Channel, h \in Host :
        /\ c = new_ptr[t] /\ h = arg[t] /\ addr[c] = h
        /\ c \notin Range(sc.array) \cup sc.erased
  BY DEF IInv, TypeOK, PendingIsFresh, AppendInsert, Idle
<1>2. PICK new : new = PushBack(sc, h, c) /\ sc' = new
  BY <1>1 DEF AppendInsert
<1>3. /\ sc \in Table /\ Consistent(sc)
      /\ sc.hosts \in [Host -> Channel \cup {NoChannel}]
      /\ Range(sc.array) \subseteq Channel
  BY TableFields DEF IInv, Consistent, RotationConsistent
<1>4. /\ Consistent(new) /\ new \in Table
      /\ Range(new.array) = Range(sc.array) \cup {c}
      /\ new.hosts = [sc.hosts EXCEPT ![h] = c]
      /\ new.erased = sc.erased
      /\ new.reappended = IF sc.hosts[h] = NoChannel THEN sc.reappended
                          ELSE sc.reappended \cup {h}
  BY <1>1, <1>2, <1>3, PushBackProperties, PushBackConsistent DEF PushBack
<1>5. /\ new_ptr' = [new_ptr EXCEPT ![t] = NoChannel]
      /\ arg' = [arg EXCEPT ![t] = NoHost]
      /\ addr' = addr /\ chosen' = chosen
  BY DEF AppendInsert
<1>6. TypeOK /\ TypeOK'
  BY <1>2, <1>4, <1>5 DEF IInv, TypeOK
<1>7. KeyNamesItsHost'
  BY <1>1, <1>2, <1>3, <1>4, <1>5 DEF IInv, KeyNamesItsHost
<1>8. UnremovableOnlyIfReappended'
  BY <1>1, <1>2, <1>3, <1>4, <1>5, NoChannelAssumption
  DEF IInv, UnremovableOnlyIfReappended
<1>9. (\A d \in Range(sc.array) \cup sc.erased : ~Unused(d))'
  BY <1>1, <1>2, <1>4, <1>5, NoHostAssumption DEF IInv, Unused
<1>10. PendingIsFresh'
  BY <1>1, <1>2, <1>4, <1>5, <1>6 DEF IInv, PendingIsFresh, Idle, TypeOK
<1>11. (\A u \in Thread : ~Idle(u) => arg[u] # NoHost)'
  BY <1>5, <1>6 DEF IInv, Idle, TypeOK
<1>. QED  BY <1>2, <1>4, <1>6, <1>7, <1>8, <1>9, <1>10, <1>11 DEF IInv

\* remove() keeps it.
LEMMA RemoveHostIInv ==
  ASSUME IInv, NEW t \in Thread, NEW h \in Host, RemoveHost(t, h)
  PROVE  IInv'
<1>1. /\ Consistent(sc) /\ sc \in Table /\ NoDoubleSlot(sc)
      /\ sc.hosts \in [Host -> Channel \cup {NoChannel}]
      /\ Range(sc.array) \subseteq Channel
  BY TableFields DEF IInv, Consistent, RotationConsistent
<1>2. PICK new : new = Erase(sc, h) /\ sc' = new
  BY DEF RemoveHost
<1>3. UNCHANGED <<addr, new_ptr, arg, chosen>>
  BY DEF RemoveHost
<1>4. Consistent(new) /\ new \in Table
  BY <1>1, <1>2, EraseConsistent DEF Consistent, RotationConsistent
<1>5. TypeOK'
  BY <1>2, <1>3, <1>4 DEF IInv, TypeOK
<1>6. CASE sc.hosts[h] \notin Range(sc.array)
  <2>1. sc' = sc
    BY <1>2, <1>6, EraseNothing
  <2>. QED
    BY <1>3, <1>5, <2>1
    DEF IInv, KeyNamesItsHost, UnremovableOnlyIfReappended, PendingIsFresh,
        Idle, Unused
<1>7. CASE sc.hosts[h] \in Range(sc.array)
  <2>1. /\ Range(new.array) = Range(sc.array) \ {sc.hosts[h]}
        /\ new.hosts = [sc.hosts EXCEPT ![h] = NoChannel]
        /\ new.erased = sc.erased \cup {sc.hosts[h]}
        /\ new.reappended = sc.reappended
    BY <1>1, <1>2, <1>7, EraseProperties
  <2>2. KeyNamesItsHost'
    BY <1>1, <1>2, <1>3, <2>1 DEF IInv, KeyNamesItsHost
  <2>3. UnremovableOnlyIfReappended'
    BY <1>1, <1>2, <1>3, <2>1 DEF IInv, UnremovableOnlyIfReappended
  <2>4. PendingIsFresh'
    BY <1>2, <1>3, <1>7, <2>1 DEF IInv, PendingIsFresh, Idle
  <2>5. /\ (\A d \in Range(sc.array) \cup sc.erased : ~Unused(d))'
        /\ (\A u \in Thread : ~Idle(u) => arg[u] # NoHost)'
    BY <1>2, <1>3, <1>7, <2>1 DEF IInv, Idle, Unused
  <2>. QED  BY <1>2, <1>4, <1>5, <2>2, <2>3, <2>4, <2>5 DEF IInv
<1>. QED  BY <1>6, <1>7

\* choose() keeps it.
LEMMA ChooseIInv ==
  ASSUME IInv, NEW t \in Thread, Choose(t)
  PROVE  IInv'
<1>1. /\ sc' = Advance(sc)
      /\ chosen' = [chosen EXCEPT ![t] = Chosen(sc)]
      /\ UNCHANGED <<addr, new_ptr, arg>>
  BY DEF Choose
<1>2. Consistent(sc) /\ Consistent(sc') /\ sc \in Table /\ sc' \in Table
  BY <1>1, AdvanceConsistent DEF IInv, Consistent, RotationConsistent
<1>3. TypeOK'
  BY <1>1, <1>2, ChosenProperties DEF IInv, TypeOK, Consistent
<1>4. /\ sc'.array = sc.array /\ sc'.hosts = sc.hosts
      /\ sc'.erased = sc.erased /\ sc'.reappended = sc.reappended
  <2>1. CASE sc.array = << >>
    BY <1>1, <2>1, AdvanceNothing
  <2>2. CASE sc.array # << >>
    BY <1>1, <1>2, <2>2, AdvanceProperties
  <2>. QED  BY <2>1, <2>2
<1>. QED
  BY <1>1, <1>2, <1>3, <1>4
  DEF IInv, KeyNamesItsHost, UnremovableOnlyIfReappended, PendingIsFresh,
      Idle, Unused

\* So does a step that changes nothing.
LEMMA StutterIInv == IInv /\ UNCHANGED vars => IInv'
  BY DEF IInv, vars, TypeOK, KeyNamesItsHost, UnremovableOnlyIfReappended,
         PendingIsFresh, Idle, Unused

\* Every step keeps the inductive invariant.
LEMMA StepIInv == IInv /\ [Next]_vars => IInv'
<1>. SUFFICES ASSUME IInv, [Next]_vars PROVE IInv'
  OBVIOUS
<1>1. ASSUME NEW t \in Thread, NEW h \in Host, NEW c \in Channel,
             AppendCreate(t, h, c) \/ AppendFail(t, h, c)
      PROVE  IInv'
  BY <1>1, AppendCreateIInv
<1>2. ASSUME NEW t \in Thread, AppendInsert(t) PROVE IInv'
  BY <1>2, AppendInsertIInv
<1>3. ASSUME NEW t \in Thread, NEW h \in Host, RemoveHost(t, h) PROVE IInv'
  BY <1>3, RemoveHostIInv
<1>4. ASSUME NEW t \in Thread, Choose(t) PROVE IInv'
  BY <1>4, ChooseIInv
<1>5. CASE UNCHANGED vars
  BY <1>5, StutterIInv
<1>. QED  BY <1>1, <1>2, <1>3, <1>4, <1>5 DEF Next

\* The inductive invariant holds in every state of append(), remove() and
\* choose() called by any number of threads.
THEOREM Inductive == Spec => []IInv
<1>. QED  BY InitIInv, StepIInv, PTL DEF Spec

-----------------------------------------------------------------------------
(* Safety *)

\* The state has its type.
THEOREM TypeCorrect == Spec => []TypeOK
<1>1. IInv => TypeOK
  BY DEF IInv
<1>. QED  BY <1>1, Inductive, PTL

\* remove() never takes the branch that logs a program logic error
\* (channel.hpp:62-66).
THEOREM NoLogicError == Spec => []LogicErrorUnreachable
<1>1. IInv => LogicErrorUnreachable
  BY DEF IInv, Consistent, RotationConsistent, LogicErrorUnreachable
<1>. QED  BY <1>1, Inductive, PTL

\* A channel that remove() took out of the rotation is out of it for good.
THEOREM ErasedForGood == Spec => []ErasedIsGone
<1>1. IInv => ErasedIsGone
  BY DEF IInv, Consistent, RotationConsistent, ErasedIsGone
<1>. QED  BY <1>1, Inductive, PTL

\* The key of a channel is the host the channel was built for.
THEOREM KeysCorrect == Spec => []KeyNamesItsHost
<1>1. IInv => KeyNamesItsHost
  BY DEF IInv
<1>. QED  BY <1>1, Inductive, PTL

\* Only a second append() of a host leaves a channel remove() cannot reach.
THEOREM OrphansExplained == Spec => []UnremovableOnlyIfReappended
<1>1. IInv => UnremovableOnlyIfReappended
  BY DEF IInv
<1>. QED  BY <1>1, Inductive, PTL

\* choose() reads a slot of the vector, or one an erase() left behind it.
THEOREM ReadsOnlySlots == Spec => []ReadWithinStorage
<1>1. IInv => ReadWithinStorage
  BY DEF IInv, Consistent, RotationConsistent, ReadWithinStorage
<1>. QED  BY <1>1, Inductive, PTL

\* A channel built outside the lock is stored once and by its own thread.
THEOREM StoredOnce == Spec => []PendingIsFresh
<1>1. IInv => PendingIsFresh
  BY DEF IInv
<1>. QED  BY <1>1, Inductive, PTL

-----------------------------------------------------------------------------
(* The earlier version *)

\* Its remove() does to the rotation what remove() does, and leaves at most the
\* one key behind.
LEMMA EraseThroughInvalidProperties ==
  ASSUME NEW old \in Table, NoDoubleSlot(old), NEW h \in Host
  PROVE  LET new == EraseThroughInvalid(old, h)
             erase == Erase(old, h)
         IN  /\ new \in Table
             /\ \A g \in Host : new.hosts[g] \in {old.hosts[g], NoChannel}
             /\ new.array = erase.array /\ new.count = erase.count
             /\ new.past = erase.past /\ new.erased = erase.erased
             /\ new.start = erase.start /\ new.shrunk = erase.shrunk
             /\ new.reappended = erase.reappended
             /\ old.hosts[h] \notin Range(old.array) => new = old
<1>. DEFINE new == EraseThroughInvalid(old, h)
<1>1. PICK e : e = Erase(old, h)
  OBVIOUS
<1>2. PICK v : v = old.hosts[h]
  OBVIOUS
<1>3. /\ e \in Table
      /\ \A g \in Host : e.hosts[g] \in {old.hosts[g], NoChannel}
      /\ v \notin Range(old.array) => e = old
  <2>1. CASE v \notin Range(old.array)
    BY <1>1, <1>2, <2>1, EraseNothing
  <2>2. CASE v \in Range(old.array)
    <3>1. e \in Table /\ e.hosts = [old.hosts EXCEPT ![h] = NoChannel]
      BY <1>1, <1>2, <2>2, EraseProperties
    <3>. QED  BY <2>2, <3>1, TableFields
  <2>. QED  BY <2>1, <2>2
<1>4. /\ e.hosts \in [Host -> Channel \cup {NoChannel}]
      /\ old.hosts \in [Host -> Channel \cup {NoChannel}]
  BY <1>3, TableFields
<1>5. CASE Position(old, v) # Len(old.array)
  <2>1. new = e
    BY <1>1, <1>2, <1>5 DEF EraseThroughInvalid
  <2>. QED  BY <1>1, <1>2, <1>3, <2>1
<1>6. CASE Position(old, v) = Len(old.array)
  <2>1. PICK hosts \in [Host -> Channel \cup {NoChannel}] :
          hosts = [e.hosts EXCEPT ![h] = v]
    BY <1>2, <1>4
  <2>2. new = [e EXCEPT !.hosts = hosts]
    BY <1>1, <1>2, <1>6, <2>1 DEF EraseThroughInvalid
  <2>3. /\ new \in Table /\ new.hosts = hosts
        /\ new.array = e.array /\ new.count = e.count
        /\ new.past = e.past /\ new.erased = e.erased
        /\ new.start = e.start /\ new.shrunk = e.shrunk
        /\ new.reappended = e.reappended
    BY <1>3, <2>2 DEF Table
  <2>4. \A g \in Host : hosts[g] \in {old.hosts[g], NoChannel}
    BY <1>2, <1>3, <1>4, <2>1
  <2>5. ASSUME v \notin Range(old.array) PROVE new = old
    <3>1. hosts = old.hosts
      BY <1>2, <1>3, <1>4, <2>1, <2>5
    <3>. QED  BY <1>3, <2>2, <2>5, <3>1 DEF Table
  <2>. QED  BY <1>1, <1>2, <2>3, <2>4, <2>5
<1>. QED  BY <1>5, <1>6

\* What is consistent about the rotation does not depend on the hash table.
LEMMA RotationOfSameRotation ==
  ASSUME NEW old, RotationConsistent(old), NEW new \in Table,
         new.array = old.array, new.count = old.count, new.past = old.past,
         new.erased = old.erased, new.start = old.start,
         new.shrunk = old.shrunk
  PROVE  RotationConsistent(new)
  BY DEF RotationConsistent, NoDoubleSlot, CounterStaleOnlyAfterErase,
         CounterInStorage, RoundInArray

\* The invariant of the later version implies that of the earlier one.
LEMMA IInvIsStronger == IInv => IInvBrpc
  BY DEF IInv, IInvBrpc, Consistent, HostsHaveSlots, StaleKeyWasErased

\* Building a channel keeps it.
LEMMA AppendCreateIInvBrpc ==
  ASSUME IInvBrpc, NEW t \in Thread, NEW h \in Host, NEW c \in Channel,
         AppendCreate(t, h, c) \/ AppendFail(t, h, c)
  PROVE  IInvBrpc'
<1>1. /\ Idle(t) /\ Unused(c) /\ addr' = [addr EXCEPT ![c] = h]
      /\ sc' = sc /\ chosen' = chosen
      /\ \/ /\ new_ptr' = [new_ptr EXCEPT ![t] = c]
            /\ arg' = [arg EXCEPT ![t] = h]
         \/ new_ptr' = new_ptr /\ arg' = arg
  BY DEF AppendCreate, AppendFail
<1>2. TypeOK'
  BY <1>1 DEF IInvBrpc, TypeOK
<1>3. RotationConsistent(sc)' /\ StaleKeyWasErased'
  BY <1>1 DEF IInvBrpc, StaleKeyWasErased
<1>4. c \notin Range(sc.array) \cup sc.erased
  BY <1>1 DEF IInvBrpc
<1>5. (\A d \in Range(sc.array) \cup sc.erased : ~Unused(d))'
  BY <1>1, <1>4 DEF IInvBrpc, Unused, TypeOK
<1>6. \A u \in Thread : new_ptr[u] # c
  BY <1>1, NoChannelAssumption, NoHostAssumption
  DEF IInvBrpc, PendingIsFresh, Idle, Unused, TypeOK
<1>7. PendingIsFresh'
  <2>1. CASE new_ptr' = new_ptr /\ arg' = arg
    BY <1>1, <1>6, <2>1 DEF IInvBrpc, PendingIsFresh, Idle, TypeOK
  <2>2. CASE /\ new_ptr' = [new_ptr EXCEPT ![t] = c]
             /\ arg' = [arg EXCEPT ![t] = h]
    BY <1>1, <1>4, <1>6, <2>2 DEF IInvBrpc, PendingIsFresh, Idle, TypeOK
  <2>. QED  BY <1>1, <2>1, <2>2
<1>8. (\A u \in Thread : ~Idle(u) => arg[u] # NoHost)'
  BY <1>1, NoHostAssumption DEF IInvBrpc, Idle, TypeOK
<1>. QED  BY <1>2, <1>3, <1>5, <1>7, <1>8 DEF IInvBrpc

\* Storing the channel keeps it.
LEMMA AppendInsertIInvBrpc ==
  ASSUME IInvBrpc, NEW t \in Thread, AppendInsert(t)
  PROVE  IInvBrpc'
<1>1. PICK c \in Channel, h \in Host :
        /\ c = new_ptr[t] /\ h = arg[t] /\ addr[c] = h
        /\ c \notin Range(sc.array) \cup sc.erased
  BY DEF IInvBrpc, TypeOK, PendingIsFresh, AppendInsert, Idle
<1>2. PICK new : new = PushBack(sc, h, c) /\ sc' = new
  BY <1>1 DEF AppendInsert
<1>3. /\ sc \in Table
      /\ sc.hosts \in [Host -> Channel \cup {NoChannel}]
      /\ Range(sc.array) \subseteq Channel
  BY TableFields DEF IInvBrpc, TypeOK
<1>4. /\ RotationConsistent(new) /\ new \in Table
      /\ Range(new.array) = Range(sc.array) \cup {c}
      /\ new.hosts = [sc.hosts EXCEPT ![h] = c]
      /\ new.erased = sc.erased
  BY <1>1, <1>2, <1>3, PushBackProperties, PushBackRotation DEF IInvBrpc, PushBack
<1>5. /\ new_ptr' = [new_ptr EXCEPT ![t] = NoChannel]
      /\ arg' = [arg EXCEPT ![t] = NoHost]
      /\ addr' = addr /\ chosen' = chosen
  BY DEF AppendInsert
<1>6. TypeOK'
  BY <1>2, <1>4, <1>5 DEF IInvBrpc, TypeOK
<1>7. StaleKeyWasErased'
  BY <1>2, <1>3, <1>4 DEF IInvBrpc, StaleKeyWasErased
<1>8. (\A d \in Range(sc.array) \cup sc.erased : ~Unused(d))'
  BY <1>1, <1>2, <1>4, <1>5, NoHostAssumption DEF IInvBrpc, Unused
<1>9. PendingIsFresh'
  BY <1>1, <1>2, <1>4, <1>5 DEF IInvBrpc, PendingIsFresh, Idle, TypeOK
<1>10. (\A u \in Thread : ~Idle(u) => arg[u] # NoHost)'
  BY <1>5 DEF IInvBrpc, Idle, TypeOK
<1>. QED  BY <1>2, <1>4, <1>6, <1>7, <1>8, <1>9, <1>10 DEF IInvBrpc

\* The earlier remove() keeps it.
LEMMA RemoveHostIInvBrpc ==
  ASSUME IInvBrpc, NEW t \in Thread, NEW h \in Host, RemoveHostBrpc(t, h)
  PROVE  IInvBrpc'
<1>1. /\ RotationConsistent(sc) /\ sc \in Table /\ NoDoubleSlot(sc)
      /\ sc.hosts \in [Host -> Channel \cup {NoChannel}]
  BY TableFields DEF IInvBrpc, RotationConsistent
<1>2. PICK e : e = Erase(sc, h)
  OBVIOUS
<1>3. /\ sc' \in Table
      /\ \A g \in Host : sc'.hosts[g] \in {sc.hosts[g], NoChannel}
      /\ sc'.array = e.array /\ sc'.count = e.count
      /\ sc'.past = e.past /\ sc'.erased = e.erased
      /\ sc'.start = e.start /\ sc'.shrunk = e.shrunk
  BY <1>1, <1>2, EraseThroughInvalidProperties DEF RemoveHostBrpc
<1>4. UNCHANGED <<addr, new_ptr, arg, chosen>>
  BY DEF RemoveHostBrpc
<1>5. RotationConsistent(sc')
  BY <1>1, <1>2, <1>3, EraseRotation, RotationOfSameRotation
<1>6. Range(sc'.array) \cup sc'.erased = Range(sc.array) \cup sc.erased
  <2>1. CASE sc.hosts[h] \notin Range(sc.array)
    BY <1>2, <1>3, <2>1, EraseNothing
  <2>2. CASE sc.hosts[h] \in Range(sc.array)
    <3>1. /\ Range(e.array) = Range(sc.array) \ {sc.hosts[h]}
          /\ e.erased = sc.erased \cup {sc.hosts[h]}
      BY <1>1, <1>2, <2>2, EraseProperties
    <3>. QED  BY <1>3, <2>2, <3>1
  <2>. QED  BY <2>1, <2>2
<1>7. TypeOK'
  BY <1>3, <1>4 DEF IInvBrpc, TypeOK
<1>8. StaleKeyWasErased'
  BY <1>3, <1>6 DEF IInvBrpc, StaleKeyWasErased
<1>9. PendingIsFresh'
  BY <1>4, <1>6 DEF IInvBrpc, PendingIsFresh, Idle
<1>10. /\ (\A d \in Range(sc.array) \cup sc.erased : ~Unused(d))'
       /\ (\A u \in Thread : ~Idle(u) => arg[u] # NoHost)'
  BY <1>4, <1>6 DEF IInvBrpc, Unused, Idle
<1>. QED  BY <1>5, <1>7, <1>8, <1>9, <1>10 DEF IInvBrpc

\* choose() keeps it.
LEMMA ChooseIInvBrpc ==
  ASSUME IInvBrpc, NEW t \in Thread, Choose(t)
  PROVE  IInvBrpc'
<1>1. /\ sc' = Advance(sc)
      /\ chosen' = [chosen EXCEPT ![t] = Chosen(sc)]
      /\ UNCHANGED <<addr, new_ptr, arg>>
  BY DEF Choose
<1>2. /\ RotationConsistent(sc) /\ sc \in Table
      /\ RotationConsistent(sc') /\ sc' \in Table
  BY <1>1, AdvanceRotation DEF IInvBrpc, RotationConsistent
<1>3. TypeOK'
  BY <1>1, <1>2, ChosenProperties DEF IInvBrpc, TypeOK
<1>4. sc'.array = sc.array /\ sc'.hosts = sc.hosts /\ sc'.erased = sc.erased
  <2>1. CASE sc.array = << >>
    BY <1>1, <2>1, AdvanceNothing
  <2>2. CASE sc.array # << >>
    BY <1>1, <1>2, <2>2, AdvanceProperties
  <2>. QED  BY <2>1, <2>2
<1>. QED
  BY <1>1, <1>2, <1>3, <1>4
  DEF IInvBrpc, StaleKeyWasErased, PendingIsFresh, Idle, Unused

\* Every step of the earlier version keeps it.
LEMMA StepIInvBrpc == IInvBrpc /\ [NextBrpc]_vars => IInvBrpc'
<1>. SUFFICES ASSUME IInvBrpc, [NextBrpc]_vars PROVE IInvBrpc'
  OBVIOUS
<1>1. ASSUME NEW t \in Thread, NEW h \in Host, NEW c \in Channel,
             AppendCreate(t, h, c) \/ AppendFail(t, h, c)
      PROVE  IInvBrpc'
  BY <1>1, AppendCreateIInvBrpc
<1>2. ASSUME NEW t \in Thread, AppendInsert(t) PROVE IInvBrpc'
  BY <1>2, AppendInsertIInvBrpc
<1>3. ASSUME NEW t \in Thread, NEW h \in Host, RemoveHostBrpc(t, h)
      PROVE  IInvBrpc'
  BY <1>3, RemoveHostIInvBrpc
<1>4. ASSUME NEW t \in Thread, Choose(t) PROVE IInvBrpc'
  BY <1>4, ChooseIInvBrpc
<1>5. CASE UNCHANGED vars
  BY <1>5 DEF IInvBrpc, vars, TypeOK, StaleKeyWasErased, PendingIsFresh, Idle,
              Unused
<1>. QED  BY <1>1, <1>2, <1>3, <1>4, <1>5 DEF NextBrpc

LEMMA InductiveBrpc == SpecBrpc => []IInvBrpc
<1>1. Init => IInvBrpc
  BY InitIInv, IInvIsStronger
<1>. QED  BY <1>1, StepIInvBrpc, PTL DEF SpecBrpc

\* In the earlier version a key has no channel in the rotation only when
\* remove() erased that channel (brpc_test/channel.hpp:57-61).
THEOREM StaleKeysExplained == SpecBrpc => []StaleKeyWasErased
<1>1. IInvBrpc => StaleKeyWasErased
  BY DEF IInvBrpc
<1>. QED  BY <1>1, InductiveBrpc, PTL

-----------------------------------------------------------------------------
(* The refinement *)

\* A new object has no members, and no round.
LEMMA InitRefines == Init => LB!Init
<1>. SUFFICES ASSUME Init PROVE LB!Init
  OBVIOUS
<1>1. sc.array = << >> /\ sc.start = 0 /\ sc.count = 0 /\ Len(<< >>) = 0
  BY DEF Init, NewTable
<1>2. Range(sc.array) = {}
  BY <1>1 DEF Range
<1>3. Round(sc) = {}
  BY <1>1, FreshRound
<1>. QED  BY <1>2, <1>3 DEF Init, NewTable, LB!Init

\* After append() and remove() the round starts afresh.
LEMMA AfreshRefines ==
  ASSUME IInvBrpc, IInvBrpc', sc'.start = sc'.count
  PROVE  Round(sc') = {}
<1>1. sc' \in Table
  BY DEF IInvBrpc, TypeOK
<1>. QED  BY <1>1, TableFields, FreshRound

\* Building a channel is invisible.
LEMMA CreateRefines ==
  ASSUME NEW t \in Thread, NEW h \in Host, NEW c \in Channel,
         AppendCreate(t, h, c) \/ AppendFail(t, h, c)
  PROVE  UNCHANGED LB!vars
  BY DEF AppendCreate, AppendFail, LB!vars

\* Storing it adds a member.
LEMMA InsertRefines ==
  ASSUME IInvBrpc, IInvBrpc', NEW t \in Thread, AppendInsert(t)
  PROVE  \E c \in Channel : LB!Add(c)
<1>1. PICK c \in Channel, h \in Host :
        /\ c = new_ptr[t] /\ h = arg[t]
        /\ c \notin Range(sc.array) \cup sc.erased
  BY DEF IInvBrpc, TypeOK, PendingIsFresh, AppendInsert, Idle
<1>2. sc' = PushBack(sc, h, c) /\ chosen' = chosen
  BY <1>1 DEF AppendInsert
<1>3. Range(sc'.array) = Range(sc.array) \cup {c}
  BY <1>2, PushBackProperties DEF IInvBrpc, TypeOK
<1>4. /\ sc'.start = sc'.count /\ sc'.erased = sc.erased
      /\ sc'.shrunk = sc.shrunk
  BY <1>2 DEF PushBack
<1>5. Round(sc') = {}
  BY <1>4, AfreshRefines
<1>6. LB!Add(c)
  BY <1>1, <1>2, <1>3, <1>4, <1>5 DEF LB!Add
<1>. QED  BY <1>6

\* remove() drops a member or changes nothing, and so does the earlier one.
LEMMA RemoveRefines ==
  ASSUME IInvBrpc, IInvBrpc', NEW t \in Thread, NEW h \in Host,
         RemoveHost(t, h) \/ RemoveHostBrpc(t, h)
  PROVE  (\E c \in Channel : LB!Drop(c)) \/ UNCHANGED LB!vars
<1>1. /\ sc \in Table /\ NoDoubleSlot(sc)
      /\ Range(sc.array) \subseteq Channel
  BY TableFields DEF IInvBrpc, RotationConsistent
<1>2. /\ chosen' = chosen
      /\ sc' = Erase(sc, h) \/ sc' = EraseThroughInvalid(sc, h)
  BY DEF RemoveHost, RemoveHostBrpc
<1>3. CASE sc.hosts[h] \notin Range(sc.array)
  <2>1. sc' = sc
    BY <1>1, <1>2, <1>3, EraseNothing, EraseThroughInvalidProperties
  <2>. QED  BY <1>2, <2>1 DEF LB!vars
<1>4. CASE sc.hosts[h] \in Range(sc.array)
  <2>1. PICK c \in Channel : c = sc.hosts[h]
    BY <1>1, <1>4
  <2>2. /\ Range(sc'.array) = Range(sc.array) \ {c}
        /\ sc'.start = sc'.count /\ sc'.erased = sc.erased \cup {c}
        /\ sc'.shrunk = TRUE
    <3>1. PICK e : e = Erase(sc, h)
      OBVIOUS
    <3>2. /\ Range(e.array) = Range(sc.array) \ {sc.hosts[h]}
          /\ e.start = sc.count /\ e.count = sc.count
          /\ e.erased = sc.erased \cup {sc.hosts[h]}
          /\ e.shrunk = TRUE
      BY <1>1, <1>4, <3>1, EraseProperties
    <3>3. /\ sc'.array = e.array /\ sc'.erased = e.erased
          /\ sc'.start = e.start /\ sc'.count = e.count
          /\ sc'.shrunk = e.shrunk
      BY <1>1, <1>2, <3>1, EraseThroughInvalidProperties
    <3>. QED  BY <2>1, <3>2, <3>3
  <2>3. Round(sc') = {}
    BY <2>2, AfreshRefines
  <2>4. LB!Drop(c)
    BY <1>2, <1>4, <2>1, <2>2, <2>3 DEF LB!Drop
  <2>. QED  BY <2>4
<1>. QED  BY <1>3, <1>4

\* choose() refuses, serves the round, or misreads once after a drop.
LEMMA ChooseRefines ==
  ASSUME IInvBrpc, IInvBrpc', NEW t \in Thread, Choose(t)
  PROVE  \/ LB!Refuse(t)
         \/ \E c \in Channel : LB!Serve(t, c)
         \/ \E c \in Channel \cup {NoChannel} : LB!Misread(t, c)
<1>1. /\ RotationConsistent(sc) /\ sc \in Table
      /\ Range(sc.array) \subseteq Channel /\ sc.erased \subseteq Channel
      /\ sc.array \in Seq(Channel) /\ sc.start \in Nat /\ Len(sc.array) \in Nat
  BY TableFields DEF IInvBrpc, RotationConsistent
<1>2. sc' = Advance(sc) /\ chosen' = [chosen EXCEPT ![t] = Chosen(sc)]
  BY DEF Choose
<1>3. CASE sc.array = << >>
  <2>1. Range(sc.array) = {}
    BY <1>3 DEF Range
  <2>2. sc' = sc
    BY <1>2, <1>3, AdvanceNothing
  <2>3. Chosen(sc) = NoChannel
    BY <1>3 DEF Chosen
  <2>. QED  BY <1>2, <2>1, <2>2, <2>3 DEF LB!Refuse
<1>4. CASE sc.array # << >> /\ InBounds(sc)
  <2>1. PICK c \in Channel : c = Chosen(sc) /\ c \in Range(sc.array) \ Round(sc)
    BY <1>1, <1>4, RoundStep DEF RotationConsistent
  <2>2. Round(sc') = IF Round(sc) \cup {c} = Range(sc.array)
                     THEN {} ELSE Round(sc) \cup {c}
    BY <1>1, <1>2, <1>4, <2>1, RoundStep DEF RotationConsistent
  <2>3. sc'.array = sc.array /\ sc'.erased = sc.erased /\ sc'.shrunk = FALSE
    BY <1>1, <1>2, <1>4, AdvanceProperties
  <2>4. LB!Serve(t, c)
    BY <1>2, <2>1, <2>2, <2>3 DEF LB!Serve
  <2>. QED  BY <2>4
<1>5. CASE sc.array # << >> /\ ~InBounds(sc)
  <2>1. PICK c : c = Chosen(sc)
    OBVIOUS
  <2>2. sc.shrunk /\ c \in sc.erased \cup {NoChannel}
    BY <1>1, <1>5, <2>1, ChosenProperties DEF RotationConsistent
  <2>3. /\ sc'.array = sc.array /\ sc'.erased = sc.erased
        /\ sc'.shrunk = FALSE /\ sc'.start = sc'.count
    BY <1>1, <1>2, <1>5, AdvanceProperties
  <2>4. Round(sc') = {}
    BY <2>3, AfreshRefines
  <2>5. Round(sc) = {}
    <3>1. sc.start = sc.count
      BY <1>1, <1>5 DEF RotationConsistent, RoundInArray, InBounds
    <3>. QED  BY <1>1, <3>1, FreshRound
  <2>6. Range(sc.array) # {}
    <3>1. 1 \in DOMAIN sc.array
      BY <1>1, <1>5, EmptySeq, LenProperties
    <3>. QED  BY <3>1 DEF Range
  <2>7. LB!Misread(t, c)
    BY <1>2, <2>1, <2>2, <2>3, <2>4, <2>5, <2>6 DEF LB!Misread
  <2>. QED  BY <1>1, <2>2, <2>7
<1>. QED  BY <1>3, <1>4, <1>5

\* Every step of the object is a step of the round-robin promise, or none, in
\* both versions.
LEMMA StepRefines ==
  ASSUME IInvBrpc, IInvBrpc', [Next]_vars \/ [NextBrpc]_vars
  PROVE  [LB!Next]_(LB!vars)
<1>1. ASSUME NEW t \in Thread, NEW h \in Host, NEW c \in Channel,
             AppendCreate(t, h, c) \/ AppendFail(t, h, c)
      PROVE  [LB!Next]_(LB!vars)
  BY <1>1, CreateRefines
<1>2. ASSUME NEW t \in Thread, AppendInsert(t) PROVE [LB!Next]_(LB!vars)
  BY <1>2, InsertRefines DEF LB!Next
<1>3. ASSUME NEW t \in Thread, NEW h \in Host,
             RemoveHost(t, h) \/ RemoveHostBrpc(t, h)
      PROVE  [LB!Next]_(LB!vars)
  BY <1>3, RemoveRefines DEF LB!Next
<1>4. ASSUME NEW t \in Thread, Choose(t) PROVE [LB!Next]_(LB!vars)
  BY <1>4, ChooseRefines DEF LB!Next
<1>5. CASE UNCHANGED vars
  BY <1>5 DEF vars, LB!vars
<1>. QED  BY <1>1, <1>2, <1>3, <1>4, <1>5 DEF Next, NextBrpc

\* The vector, the hash table and the counter implement the round-robin
\* promise of LoadBalancer, for any number of threads, hosts and channels.
THEOREM RoundRobin == Spec => ImplementsLoadBalancer
<1>1. Init => LB!Init
  BY InitRefines
<1>2. IInv => IInvBrpc
  BY IInvIsStronger
<1>3. IInvBrpc /\ IInvBrpc' /\ [Next]_vars => [LB!Next]_(LB!vars)
  BY StepRefines
<1>. QED
  BY <1>1, <1>2, <1>3, Inductive, PTL DEF Spec, LB!Spec, ImplementsLoadBalancer

\* So they do in the earlier version: a key that stays behind never keeps its
\* channel in the rotation.
THEOREM RoundRobinBrpc == SpecBrpc => ImplementsLoadBalancer
<1>1. Init => LB!Init
  BY InitRefines
<1>2. IInvBrpc /\ IInvBrpc' /\ [NextBrpc]_vars => [LB!Next]_(LB!vars)
  BY StepRefines
<1>. QED
  BY <1>1, <1>2, InductiveBrpc, PTL
  DEF SpecBrpc, LB!Spec, ImplementsLoadBalancer
=============================================================================
