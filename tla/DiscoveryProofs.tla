---------------------------- MODULE DiscoveryProofs ----------------------------
(***************************************************************************)
(* From the processes of the providers to the rotation of the client, for  *)
(* any number of keys, addresses, leases and channels:                     *)
(*   - no key outlives its lease (Registry);                               *)
(*   - the events of the store are the history of its keys (Registry);     *)
(*   - a client that missed nothing and is past all events knows the store *)
(*     and serves its hosts (Discovery);                                   *)
(*   - the program that discovers and then calls is such a client, and the *)
(*     channel of its call is there (DiscoveryClient).                     *)
(***************************************************************************)
EXTENDS DiscoveryClient, ServiceChannelOpsProofs

-----------------------------------------------------------------------------
(* The leases *)

\* The inductive invariant holds initially.
LEMMA InitRegIInv == RegInit => RegIInv
<1>. SUFFICES ASSUME RegInit PROVE RegIInv
  OBVIOUS
<1>1. RegTypeOK
  BY DEF RegInit, RegTypeOK
<1>2. KeysAreLeased
  BY DEF RegInit, KeysAreLeased
<1>. QED  BY <1>1, <1>2 DEF RegInit, RegIInv, RegisteredStays

\* An event added to the log keeps its type.
LEMMA LogType ==
  ASSUME RegTypeOK, NEW ty \in {"PUT", "DELETE"}, NEW k \in Key, NEW h \in Host
  PROVE  Append(log, [type |-> ty, key |-> k, host |-> h])
           \in Seq([type : {"PUT", "DELETE"}, key : Key, host : Host])
<1>1. [type |-> ty, key |-> k, host |-> h]
        \in [type : {"PUT", "DELETE"}, key : Key, host : Host]
  OBVIOUS
<1>. QED  BY <1>1 DEF RegTypeOK

\* A granted lease is new: no process has it and no key.
LEMMA LeaseGrantedRegIInv ==
  ASSUME RegIInv, NEW k \in Key, NEW l \in Lease, LeaseGranted(k, l)
  PROVE  RegIInv'
<1>1. RegTypeOK /\ RegTypeOK'
  BY DEF RegIInv, RegTypeOK, RegisteredStays, LeaseGranted
<1>2. \A j \in Key : mine[j] # l /\ attached[j] # l
  BY <1>1, RegistryAssumption
  DEF RegIInv, RegTypeOK, KeysAreLeased, RegisteredStays, LeaseGranted
<1>3. KeysAreLeased'
  BY <1>1, <1>2, RegistryAssumption
  DEF RegIInv, RegTypeOK, KeysAreLeased, RegisteredStays, LeaseGranted
<1>. QED
  BY <1>1, <1>2, <1>3, RegistryAssumption DEF RegIInv, RegTypeOK, RegisteredStays, LeaseGranted

\* Starting the server gives a process that has put nothing its address.
LEMMA ServerStartRegIInv ==
  ASSUME RegIInv, NEW k \in Key, NEW h \in Host, NEW ok \in BOOLEAN,
         ServerStart(k, h, ok)
  PROVE  RegIInv'
<1>1. RegTypeOK /\ RegTypeOK'
  BY DEF RegIInv, RegTypeOK, RegisteredStays, ServerStart, store
<1>2. KeysAreLeased'
  BY <1>1 DEF RegIInv, RegTypeOK, KeysAreLeased, RegisteredStays, ServerStart, store
<1>. QED
  BY <1>1, <1>2, RegistryAssumption DEF RegIInv, RegTypeOK, RegisteredStays, ServerStart, store

\* Putting the key attaches it to the lease of its own process.
LEMMA RegistryPutRegIInv ==
  ASSUME RegIInv, NEW k \in Key, RegistryPut(k)
  PROVE  RegIInv'
<1>1. /\ mine[k] \in Lease /\ host[k] \in Host
      /\ lease[mine[k]] \in {"kept", "unkept"}
  BY DEF RegIInv, RegTypeOK, RegisteredStays, RegistryPut
<1>2. RegTypeOK /\ RegTypeOK'
  <2>1. log' \in Seq([type : {"PUT", "DELETE"}, key : Key, host : Host])
    BY <1>1, LogType DEF RegIInv, RegistryPut
  <2>. QED  BY <1>1, <2>1 DEF RegIInv, RegTypeOK, RegisteredStays, RegistryPut
<1>3. KeysAreLeased'
  BY <1>1, <1>2, RegistryAssumption
  DEF RegIInv, RegTypeOK, KeysAreLeased, RegisteredStays, RegistryPut
<1>. QED
  BY <1>1, <1>2, <1>3, RegistryAssumption DEF RegIInv, RegTypeOK, RegisteredStays, RegistryPut

\* A put that fails changes how far the process is, and nothing else.
LEMMA RegistryPutFailsRegIInv ==
  ASSUME RegIInv, NEW k \in Key, RegistryPutFails(k)
  PROVE  RegIInv'
  BY DEF RegIInv, RegTypeOK, KeysAreLeased, RegisteredStays, RegistryPutFails, store

\* A process that ends leaves its lease to expire.
LEMMA StopRegIInv ==
  ASSUME RegIInv, NEW k \in Key, Stop(k)
  PROVE  RegIInv'
<1>1. mine[k] \in Lease
  BY DEF RegIInv, RegTypeOK, RegisteredStays, Stop
<1>2. RegTypeOK /\ RegTypeOK'
  BY <1>1 DEF RegIInv, RegTypeOK, RegisteredStays, Stop
<1>3. KeysAreLeased'
  BY <1>1, <1>2 DEF RegIInv, RegTypeOK, KeysAreLeased, RegisteredStays, Stop
<1>. QED
  BY <1>1, <1>2, <1>3, RegistryAssumption DEF RegIInv, RegTypeOK, RegisteredStays, Stop

\* So does one that cannot reach the store.
LEMMA KeepAliveLostRegIInv ==
  ASSUME RegIInv, NEW k \in Key, KeepAliveLost(k)
  PROVE  RegIInv'
<1>1. mine[k] \in Lease
  BY DEF RegIInv, RegTypeOK, RegisteredStays, KeepAliveLost
<1>2. RegTypeOK /\ RegTypeOK'
  BY <1>1 DEF RegIInv, RegTypeOK, RegisteredStays, KeepAliveLost, process
<1>3. KeysAreLeased'
  BY <1>1, <1>2 DEF RegIInv, RegTypeOK, KeysAreLeased, RegisteredStays, KeepAliveLost, process
<1>. QED
  BY <1>1, <1>2, <1>3 DEF RegIInv, RegTypeOK, RegisteredStays, KeepAliveLost, process

\* A lease that expires takes the one key it has with it.
LEMMA ExpireRegIInv ==
  ASSUME RegIInv, NEW l \in Lease, Expire(l)
  PROVE  RegIInv'
<1>1. CASE (\A k \in Key : attached[k] # l) /\ UNCHANGED <<kv, attached, log>>
  <2>1. RegTypeOK /\ RegTypeOK'
    BY <1>1 DEF RegIInv, RegTypeOK, RegisteredStays, Expire, process
  <2>2. KeysAreLeased'
    BY <1>1, <2>1 DEF RegIInv, RegTypeOK, KeysAreLeased, RegisteredStays, Expire, process
  <2>. QED
    BY <1>1, <2>1, <2>2 DEF RegIInv, RegTypeOK, RegisteredStays, Expire, process
<1>2. ASSUME NEW k \in Key,
             /\ attached[k] = l
             /\ kv' = [kv EXCEPT ![k] = NoHost]
             /\ attached' = [attached EXCEPT ![k] = NoLease]
             /\ log' = Append(log, [type |-> "DELETE", key |-> k, host |-> kv[k]])
      PROVE  RegIInv'
  <2>1. kv[k] \in Host
    BY <1>2, RegistryAssumption DEF RegIInv, RegTypeOK
  <2>2. RegTypeOK /\ RegTypeOK'
    <3>1. log' \in Seq([type : {"PUT", "DELETE"}, key : Key, host : Host])
      BY <1>2, <2>1, LogType DEF RegIInv
    <3>. QED  BY <1>2, <3>1 DEF RegIInv, RegTypeOK, RegisteredStays, Expire, process
  <2>3. KeysAreLeased'
    BY <1>2, <2>2, RegistryAssumption
    DEF RegIInv, RegTypeOK, KeysAreLeased, RegisteredStays, Expire, process
  <2>. QED
    BY <1>2, <2>2, <2>3, RegistryAssumption DEF RegIInv, RegTypeOK, RegisteredStays, Expire, process
<1>. QED  BY <1>1, <1>2 DEF Expire

\* Every step keeps the inductive invariant.
LEMMA StepRegIInv == RegIInv /\ [RegNext]_regVars => RegIInv'
<1>. SUFFICES ASSUME RegIInv, [RegNext]_regVars PROVE RegIInv'
  OBVIOUS
<1>1. ASSUME NEW k \in Key, NEW l \in Lease, LeaseGranted(k, l) PROVE RegIInv'
  BY <1>1, LeaseGrantedRegIInv
<1>2. ASSUME NEW k \in Key, NEW h \in Host, NEW ok \in BOOLEAN,
             ServerStart(k, h, ok)
      PROVE  RegIInv'
  BY <1>2, ServerStartRegIInv
<1>3. ASSUME NEW k \in Key, RegistryPut(k) PROVE RegIInv'
  BY <1>3, RegistryPutRegIInv
<1>4. ASSUME NEW k \in Key, RegistryPutFails(k) PROVE RegIInv'
  BY <1>4, RegistryPutFailsRegIInv
<1>5. ASSUME NEW k \in Key, Stop(k) PROVE RegIInv'
  BY <1>5, StopRegIInv
<1>6. ASSUME NEW k \in Key, KeepAliveLost(k) PROVE RegIInv'
  BY <1>6, KeepAliveLostRegIInv
<1>7. ASSUME NEW l \in Lease, Expire(l) PROVE RegIInv'
  BY <1>7, ExpireRegIInv
<1>8. CASE UNCHANGED regVars
  BY <1>8 DEF regVars, process, store, RegIInv, RegTypeOK, KeysAreLeased, RegisteredStays
<1>. QED
  BY <1>1, <1>2, <1>3, <1>4, <1>5, <1>6, <1>7, <1>8 DEF RegNext

\* The inductive invariant holds in every state.
THEOREM RegInductive == RegSpec => []RegIInv
<1>. QED  BY InitRegIInv, StepRegIInv, PTL DEF RegSpec

\* The state of the processes and of the store has its type.
THEOREM RegTypeCorrect == RegSpec => []RegTypeOK
<1>1. RegIInv => RegTypeOK
  BY DEF RegIInv
<1>. QED  BY <1>1, RegInductive, PTL

\* No key outlives its lease, and the lease a process keeps alive carries the
\* address of that process.
THEOREM NoKeyOutlivesItsLease == RegSpec => []KeysAreLeased
<1>1. RegIInv => KeysAreLeased
  BY DEF RegIInv
<1>. QED  BY <1>1, RegInductive, PTL

\* A process that put its key can be found under its own address for as long as
\* its lease lives: the lease its predecessor left takes nothing with it.
THEOREM RegisteredStaysAlways == RegSpec => []RegisteredStays
<1>1. RegIInv => RegisteredStays
  BY DEF RegIInv
<1>. QED  BY <1>1, RegInductive, PTL

-----------------------------------------------------------------------------
(* The events *)

Events == [type : {"PUT", "DELETE"}, key : Key, host : Host]

\* The value an event leaves its key with.
After(ev) == IF ev.type = "PUT" THEN ev.host ELSE NoHost

\* The n first events of a log leave key k with value v.
IsValueAt(events, k, n, v) ==
  \/ v = NoHost /\ \A i \in 1 .. n : events[i].key # k
  \/ \E i \in 1 .. n :
       /\ events[i].key = k /\ v = After(events[i])
       /\ \A j \in i + 1 .. n : events[j].key # k

\* The events of the store are the history of its keys: what they leave a key
\* with is its value, and an event that deletes a key carries the value the
\* events before it left (etcd.hpp:72-76 reads it as prev_kv).
LogIsHistory ==
  /\ \A k \in Key : IsValueAt(log, k, Len(log), kv[k])
  /\ \A i \in 1 .. Len(log) :
       log[i].type = "DELETE" => IsValueAt(log, log[i].key, i - 1, log[i].host)

\* The events leave a key with one value.
LEMMA ValueIsUnique ==
  ASSUME NEW events, NEW k, NEW n \in Nat, NEW v, NEW w,
         IsValueAt(events, k, n, v), IsValueAt(events, k, n, w)
  PROVE  v = w
<1>1. ASSUME NEW i \in 1 .. n, NEW j \in 1 .. n,
             events[i].key = k, \A m \in i + 1 .. n : events[m].key # k,
             events[j].key = k, \A m \in j + 1 .. n : events[m].key # k
      PROVE  i = j
  <2>1. ~(i < j) /\ ~(j < i)
    BY <1>1
  <2>. QED  BY <2>1
<1>. QED  BY <1>1 DEF IsValueAt

\* One more event changes the value of its key.
LEMMA ValueAfterEvent ==
  ASSUME NEW events, NEW k, NEW n \in Nat, NEW v, IsValueAt(events, k, n, v)
  PROVE  IsValueAt(events, k, n + 1,
                   IF events[n + 1].key = k THEN After(events[n + 1]) ELSE v)
<1>1. CASE events[n + 1].key = k
  <2>1. n + 1 \in 1 .. n + 1 /\ \A j \in (n + 1) + 1 .. n + 1 : FALSE
    OBVIOUS
  <2>. QED  BY <1>1, <2>1 DEF IsValueAt
<1>2. CASE events[n + 1].key # k
  <2>1. \A j : j \in 1 .. n + 1 <=> j \in 1 .. n \/ j = n + 1
    OBVIOUS
  <2>2. \A i \in 1 .. n : \A j :
          j \in i + 1 .. n + 1 <=> j \in i + 1 .. n \/ j = n + 1
    OBVIOUS
  <2>. QED  BY <1>2, <2>1, <2>2 DEF IsValueAt
<1>. QED  BY <1>1, <1>2

\* Events to come do not change what the events so far have left.
LEMMA ValueIsKept ==
  ASSUME NEW events \in Seq(Events), NEW ev \in Events, NEW k,
         NEW n \in 0 .. Len(events), NEW v
  PROVE  IsValueAt(Append(events, ev), k, n, v) <=> IsValueAt(events, k, n, v)
<1>. DEFINE more == Append(events, ev)
<1>1. Len(events) \in Nat /\ \A i \in 1 .. Len(events) : more[i] = events[i]
  BY AppendProperties, LenProperties
<1>2. \A i \in 1 .. n : more[i] = events[i]
  BY <1>1
<1>3. \A i \in 1 .. n : \A j \in i + 1 .. n : more[j] = events[j]
  BY <1>1
<1>. HIDE DEF more
<1>4. IsValueAt(more, k, n, v) <=> IsValueAt(events, k, n, v)
  BY <1>2, <1>3 DEF IsValueAt
<1>. QED  BY <1>4 DEF more

\* A step of the processes and the store changes one key and writes an event
\* of the change, or changes no key.
LEMMA RegStepWritesEvent ==
  ASSUME RegIInv, [RegNext]_regVars
  PROVE  \/ UNCHANGED <<kv, log>>
         \/ \E ev \in Events :
              /\ log' = Append(log, ev)
              /\ kv' = [kv EXCEPT ![ev.key] = After(ev)]
              /\ ev.type = "DELETE" => ev.host = kv[ev.key]
<1>. DEFINE Written(ev) == /\ log' = Append(log, ev)
                           /\ kv' = [kv EXCEPT ![ev.key] = After(ev)]
                           /\ ev.type = "DELETE" => ev.host = kv[ev.key]
<1>1. ASSUME NEW k \in Key, RegistryPut(k)
      PROVE  \E ev \in Events : Written(ev)
  <2>1. host[k] \in Host
    BY <1>1 DEF RegIInv, RegTypeOK, RegistryPut
  <2>2. PICK ev \in Events : ev = [type |-> "PUT", key |-> k, host |-> host[k]]
    BY <2>1 DEF Events
  <2>3. Written(ev)
    BY <1>1, <2>2 DEF RegistryPut, After
  <2>. QED  BY <2>3
<1>2. ASSUME NEW k \in Key, NEW l \in Lease,
             /\ attached[k] = l
             /\ kv' = [kv EXCEPT ![k] = NoHost]
             /\ log' = Append(log, [type |-> "DELETE", key |-> k, host |-> kv[k]])
      PROVE  \E ev \in Events : Written(ev)
  <2>1. kv[k] \in Host
    BY <1>2, RegistryAssumption DEF RegIInv, RegTypeOK
  <2>2. PICK ev \in Events : ev = [type |-> "DELETE", key |-> k, host |-> kv[k]]
    BY <2>1 DEF Events
  <2>3. Written(ev)
    BY <1>2, <2>2 DEF After
  <2>. QED  BY <2>3
<1>3. ASSUME NEW l \in Lease, Expire(l)
      PROVE  UNCHANGED <<kv, log>> \/ \E ev \in Events : Written(ev)
  BY <1>2, <1>3 DEF Expire
<1>4. ASSUME NEW k \in Key,
             \/ \E l \in Lease : LeaseGranted(k, l)
             \/ \E h \in Host, ok \in BOOLEAN : ServerStart(k, h, ok)
             \/ RegistryPutFails(k) \/ Stop(k) \/ KeepAliveLost(k)
      PROVE  UNCHANGED <<kv, log>>
  BY <1>4
  DEF LeaseGranted, ServerStart, RegistryPutFails, Stop, KeepAliveLost, store
<1>5. CASE UNCHANGED regVars
  BY <1>5 DEF regVars, store
<1>. QED  BY <1>1, <1>3, <1>4, <1>5 DEF RegNext

\* Every step keeps the events the history of the keys.
LEMMA StepLogIsHistory ==
  ASSUME RegIInv, LogIsHistory, [RegNext]_regVars
  PROVE  LogIsHistory'
<1>1. CASE UNCHANGED <<kv, log>>
  BY <1>1 DEF LogIsHistory
<1>2. ASSUME NEW ev \in Events,
             /\ log' = Append(log, ev)
             /\ kv' = [kv EXCEPT ![ev.key] = After(ev)]
             /\ ev.type = "DELETE" => ev.host = kv[ev.key]
      PROVE  LogIsHistory'
  <2>1. /\ log \in Seq(Events) /\ kv \in [Key -> Host \cup {NoHost}]
        /\ Len(log) \in Nat
    BY LenProperties DEF RegIInv, RegTypeOK, Events
  <2>2. /\ Len(log') = Len(log) + 1 /\ log'[Len(log) + 1] = ev
        /\ \A i \in 1 .. Len(log) : log'[i] = log[i]
    BY <1>2, <2>1, AppendProperties
  <2>3. ASSUME NEW k \in Key PROVE IsValueAt(log', k, Len(log'), kv'[k])
    <3>1. IsValueAt(log', k, Len(log), kv[k])
      BY <1>2, <2>1, ValueIsKept DEF LogIsHistory
    <3>2. kv'[k] = IF log'[Len(log) + 1].key = k THEN After(log'[Len(log) + 1])
                                                ELSE kv[k]
      BY <1>2, <2>1, <2>2
    <3>. QED  BY <2>1, <2>2, <3>1, <3>2, ValueAfterEvent
  <2>4. ASSUME NEW i \in 1 .. Len(log'), log'[i].type = "DELETE"
        PROVE  IsValueAt(log', log'[i].key, i - 1, log'[i].host)
    <3>1. CASE i \in 1 .. Len(log)
      <4>1. IsValueAt(log, log[i].key, i - 1, log[i].host)
        BY <2>2, <2>4, <3>1 DEF LogIsHistory
      <4>2. i - 1 \in 0 .. Len(log)
        BY <2>1, <3>1
      <4>. QED  BY <1>2, <2>1, <2>2, <3>1, <4>1, <4>2, ValueIsKept
    <3>2. CASE i = Len(log) + 1
      <4>1. log'[i] = ev /\ i - 1 = Len(log) /\ ev.key \in Key
        BY <2>1, <2>2, <3>2 DEF Events
      <4>2. IsValueAt(log, ev.key, Len(log), ev.host)
        BY <1>2, <2>4, <4>1 DEF LogIsHistory
      <4>3. Len(log) \in 0 .. Len(log)
        BY <2>1
      <4>. QED  BY <1>2, <2>1, <4>1, <4>2, <4>3, ValueIsKept
    <3>. QED  BY <2>1, <2>2, <3>1, <3>2
  <2>. QED  BY <2>3, <2>4 DEF LogIsHistory
<1>. QED  BY <1>1, <1>2, RegStepWritesEvent

\* There are no events at first, and no keys.
LEMMA InitLogIsHistory == RegInit => LogIsHistory
<1>. SUFFICES ASSUME RegInit PROVE LogIsHistory
  OBVIOUS
<1>1. log = << >> /\ Len(<< >>) = 0 /\ \A k \in Key : kv[k] = NoHost
  BY DEF RegInit
<1>. QED  BY <1>1 DEF LogIsHistory, IsValueAt

\* A watcher that reads the events from the first one on can tell every value
\* the store has had, and the value a deleted key had (etcd.hpp:67-77).
THEOREM EventsAreHistory == RegSpec => []LogIsHistory
<1>1. RegIInv /\ LogIsHistory /\ [RegNext]_regVars => LogIsHistory'
  BY StepLogIsHistory
<1>. QED  BY <1>1, InitLogIsHistory, RegInductive, PTL DEF RegSpec

-----------------------------------------------------------------------------
(* The client *)

TypeOK ==
  /\ phase \in {"new", "replay", "watch", "dead"}
  /\ listed \in SUBSET (Key \X Host)
  /\ pos \in 0 .. Len(log)
  /\ addr \in [Channel -> Host \cup {NoHost}]
  /\ twice \in SUBSET Host
  /\ unbuilt \in SUBSET Host
  /\ replaced \in SUBSET Host
  /\ missed \in BOOLEAN
  /\ told \in [Key -> Host \cup {NoHost}]

\* A client that has missed nothing knows the store as it was at pos: before
\* the list it knows nothing, then what it was told and what is still to be
\* told, then what it was told.
ToldAsOfPos ==
  /\ phase = "dead" => missed
  /\ phase = "new" => told = [k \in Key |-> NoHost]
  /\ phase # "replay" => listed = {}
  /\ phase = "replay" =>
       \A k \in Key :
         /\ \A h \in Host : <<k, h>> \in listed => IsValueAt(log, k, pos, h)
         /\ (\A h \in Host : <<k, h>> \notin listed) /\ ~missed =>
              IsValueAt(log, k, pos, told[k])
  /\ phase = "watch" /\ ~missed =>
       \A k \in Key : IsValueAt(log, k, pos, told[k])

\* The channel of a host was built for it, and a slot of a host that was given
\* once is the host's in the hash table.
ChannelsOfTheirHosts ==
  /\ \A h \in Host : table.hosts[h] # NoChannel => addr[table.hosts[h]] = h
  /\ \A c \in Range(table.array) \cup table.erased : addr[c] # NoHost
  /\ \A c \in Range(table.array) : table.hosts[addr[c]] = c \/ addr[c] \in twice

\* What the client was told is what it serves, with the exceptions.
ServesTheTold ==
  ~missed =>
    /\ \A k \in Key : told[k] # NoHost =>
         /\ Known(told[k]) \/ told[k] \in twice \cup unbuilt
         /\ \A j \in Key : told[j] = told[k] /\ j # k =>
                             told[k] \in twice \cup unbuilt
    /\ \A c \in Range(table.array) :
         \/ \E k \in Key : told[k] = addr[c]
         \/ addr[c] \in twice \cup replaced

IInv ==
  /\ RegIInv
  /\ LogIsHistory
  /\ TypeOK
  /\ Consistent(table)
  /\ ToldAsOfPos
  /\ ChannelsOfTheirHosts
  /\ ServesTheTold

\* put_cb keeps the rotation, and what the client serves is what it was told.
LEMMA PutCallbackKeeps ==
  ASSUME IInv, NEW k \in Key, NEW h \in Host, PutCallback(k, h), missed' = missed
  PROVE  /\ Consistent(table')
         /\ addr' \in [Channel -> Host \cup {NoHost}]
         /\ twice' \in SUBSET Host /\ unbuilt' \in SUBSET Host
         /\ replaced' \in SUBSET Host
         /\ told' \in [Key -> Host \cup {NoHost}]
         /\ told' = [told EXCEPT ![k] = h]
         /\ ChannelsOfTheirHosts'
         /\ ServesTheTold'
<1>1. /\ Consistent(table) /\ table \in Table
      /\ table.hosts \in [Host -> Channel \cup {NoChannel}]
      /\ Range(table.array) \subseteq Channel /\ table.erased \subseteq Channel
      /\ TypeOK /\ NoHost \notin Host
  BY TableFields, RegistryAssumption DEF IInv, Consistent, RotationConsistent
<1>2. /\ told' = [told EXCEPT ![k] = h]
      /\ replaced' = IF told[k] \in {h, NoHost} THEN replaced
                                                ELSE replaced \cup {told[k]}
  BY DEF PutCallback
<1>3. told' \in [Key -> Host \cup {NoHost}] /\ replaced' \in SUBSET Host
  BY <1>1, <1>2 DEF TypeOK
<1>4. CASE unbuilt' = unbuilt \cup {h} /\ UNCHANGED <<addr, table, twice>>
  <2>1. ChannelsOfTheirHosts'
    BY <1>4 DEF IInv, ChannelsOfTheirHosts
  <2>2. ServesTheTold'
    <3>. SUFFICES ASSUME ~missed PROVE ServesTheTold'
      BY DEF ServesTheTold
    <3>1. ASSUME NEW j \in Key, told'[j] # NoHost
          PROVE  /\ Known(told[j])' \/ told'[j] \in twice' \cup unbuilt'
                 /\ \A i \in Key : told'[i] = told'[j] /\ i # j =>
                                     told'[j] \in twice' \cup unbuilt'
      <4>1. CASE told'[j] = h
        BY <1>4, <4>1
      <4>2. CASE told'[j] # h
        <5>1. told'[j] = told[j] /\ told[j] # NoHost
          BY <1>1, <1>2, <3>1, <4>2 DEF TypeOK
        <5>2. \A i \in Key : told'[i] = told'[j] => told'[i] = told[i]
          BY <1>1, <1>2, <4>2 DEF TypeOK
        <5>. QED  BY <1>4, <5>1, <5>2 DEF IInv, ServesTheTold, Known
      <4>. QED  BY <4>1, <4>2
    <3>2. ASSUME NEW d \in Range(table.array)
          PROVE  \/ \E j \in Key : told'[j] = addr[d]
                 \/ addr[d] \in twice \cup replaced'
      <4>1. addr[d] # NoHost
        BY DEF IInv, ChannelsOfTheirHosts
      <4>2. \/ \E j \in Key : told[j] = addr[d]
            \/ addr[d] \in twice \cup replaced
        BY DEF IInv, ServesTheTold
      <4>. QED  BY <1>1, <1>2, <4>1, <4>2 DEF TypeOK
    <3>. QED  BY <1>4, <3>1, <3>2 DEF ServesTheTold
  <2>. QED  BY <1>1, <1>2, <1>3, <1>4, <2>1, <2>2 DEF TypeOK
<1>5. ASSUME NEW c \in Channel,
             /\ addr[c] = NoHost
             /\ addr' = [addr EXCEPT ![c] = h]
             /\ table' = PushBack(table, h, c)
             /\ twice' = IF Known(h) THEN twice \cup {h} ELSE twice
             /\ unbuilt' = unbuilt
      PROVE  /\ Consistent(table')
             /\ ChannelsOfTheirHosts' /\ ServesTheTold'
  <2>1. c \notin Range(table.array) \cup table.erased
    BY <1>5 DEF IInv, ChannelsOfTheirHosts
  <2>2. PICK new : new = PushBack(table, h, c)
    OBVIOUS
  <2>3. /\ table' = new /\ Consistent(new)
        /\ Range(new.array) = Range(table.array) \cup {c}
        /\ new.hosts = [table.hosts EXCEPT ![h] = c]
        /\ new.erased = table.erased
    BY <1>1, <1>5, <2>1, <2>2, PushBackProperties, PushBackConsistent DEF PushBack
  <2>4. ChannelsOfTheirHosts'
    <3>1. (\A g \in Host : table.hosts[g] # NoChannel => addr[table.hosts[g]] = g)'
      <4>. SUFFICES ASSUME NEW g \in Host, new.hosts[g] # NoChannel
                    PROVE  addr'[new.hosts[g]] = g
        BY <2>3
      <4>1. CASE g = h
        BY <1>1, <1>5, <2>3, <4>1 DEF TypeOK
      <4>2. CASE g # h
        <5>1. new.hosts[g] = table.hosts[g] /\ new.hosts[g] \in Range(table.array)
          BY <1>1, <2>3, <4>2 DEF Consistent, HostsHaveSlots
        <5>. QED
          BY <1>1, <1>5, <2>1, <5>1 DEF IInv, ChannelsOfTheirHosts, TypeOK
      <4>. QED  BY <4>1, <4>2
    <3>2. (\A d \in Range(table.array) \cup table.erased : addr[d] # NoHost)'
      BY <1>1, <1>5, <2>3 DEF IInv, ChannelsOfTheirHosts, TypeOK
    <3>3. ASSUME NEW d \in Range(new.array)
          PROVE  new.hosts[addr'[d]] = d \/ addr'[d] \in twice'
      <4>1. CASE d = c
        BY <1>1, <1>5, <2>3, <4>1 DEF TypeOK
      <4>2. CASE d # c
        <5>1. PICK g \in Host : g = addr[d] /\ addr'[d] = g /\ d \in Range(table.array)
          BY <1>1, <1>5, <2>3, <4>2 DEF IInv, ChannelsOfTheirHosts, TypeOK
        <5>2. table.hosts[g] = d \/ g \in twice
          BY <5>1 DEF IInv, ChannelsOfTheirHosts
        <5>3. d # NoChannel
          BY <1>1, <5>1, NoChannelAssumption
        <5>. QED  BY <1>1, <1>5, <2>3, <5>1, <5>2, <5>3 DEF Known
      <4>. QED  BY <4>1, <4>2
    <3>. QED  BY <2>3, <3>1, <3>2, <3>3 DEF ChannelsOfTheirHosts
  <2>5. ServesTheTold'
    <3>. SUFFICES ASSUME ~missed PROVE ServesTheTold'
      BY DEF ServesTheTold
    <3>1. \A g \in Host : Known(g)' <=> Known(g) \/ g = h
      BY <1>1, <2>3, NoChannelAssumption DEF Known
    <3>2. ASSUME NEW j \in Key, told'[j] # NoHost
          PROVE  /\ Known(told[j])' \/ told'[j] \in twice' \cup unbuilt'
                 /\ \A i \in Key : told'[i] = told'[j] /\ i # j =>
                                     told'[j] \in twice' \cup unbuilt'
      <4>1. told'[j] \in Host
        BY <1>3, <3>2
      <4>2. CASE told'[j] # h
        BY <1>1, <1>2, <1>5, <3>1, <4>1, <4>2 DEF IInv, ServesTheTold, TypeOK
      <4>3. CASE told'[j] = h
        <5>1. Known(told[j])'
          BY <3>1, <4>3
        <5>2. ASSUME NEW i \in Key, told'[i] = h, i # j
              PROVE  h \in twice' \cup unbuilt'
          <6>1. PICK m \in Key : told[m] = h
            BY <1>1, <1>2, <4>3, <5>2 DEF TypeOK
          <6>2. Known(h) \/ h \in twice \cup unbuilt
            BY <1>1, <6>1 DEF IInv, ServesTheTold
          <6>. QED  BY <1>5, <6>2
        <5>. QED  BY <4>3, <5>1, <5>2
      <4>. QED  BY <4>2, <4>3
    <3>3. ASSUME NEW d \in Range(new.array)
          PROVE  \/ \E j \in Key : told'[j] = addr'[d]
                 \/ addr'[d] \in twice' \cup replaced'
      <4>1. CASE d = c
        BY <1>1, <1>2, <1>5, <4>1 DEF TypeOK
      <4>2. CASE d # c
        <5>1. /\ d \in Range(table.array) /\ addr'[d] = addr[d]
              /\ addr[d] # NoHost
          BY <1>1, <1>5, <2>3, <4>2 DEF IInv, ChannelsOfTheirHosts, TypeOK
        <5>2. \/ \E j \in Key : told[j] = addr[d]
              \/ addr[d] \in twice \cup replaced
          BY <5>1 DEF IInv, ServesTheTold
        <5>. QED  BY <1>1, <1>2, <1>5, <5>1, <5>2 DEF TypeOK
      <4>. QED  BY <4>1, <4>2
    <3>. QED  BY <2>3, <3>2, <3>3 DEF ServesTheTold
  <2>. QED  BY <2>3, <2>4, <2>5
<1>6. CASE \E c \in Channel :
             /\ addr[c] = NoHost
             /\ addr' = [addr EXCEPT ![c] = h]
             /\ table' = PushBack(table, h, c)
             /\ twice' = IF Known(h) THEN twice \cup {h} ELSE twice
             /\ unbuilt' = unbuilt
  <2>1. /\ addr' \in [Channel -> Host \cup {NoHost}]
        /\ twice' \in SUBSET Host /\ unbuilt' \in SUBSET Host
    BY <1>1, <1>6 DEF TypeOK
  <2>. QED  BY <1>2, <1>3, <1>5, <1>6, <2>1
<1>. QED  BY <1>4, <1>6 DEF PutCallback

\* del_cb takes the host that was told, and its channel, away.
LEMMA DelCallbackKeeps ==
  ASSUME IInv, NEW k \in Key, NEW h \in Host, DelCallback(k, h),
         missed' = missed, ~missed => told[k] = h
  PROVE  /\ Consistent(table')
         /\ UNCHANGED <<addr, twice, unbuilt, replaced>>
         /\ told' \in [Key -> Host \cup {NoHost}]
         /\ told' = [told EXCEPT ![k] = NoHost]
         /\ ChannelsOfTheirHosts'
         /\ ServesTheTold'
<1>1. /\ Consistent(table) /\ table \in Table /\ NoDoubleSlot(table)
      /\ table.hosts \in [Host -> Channel \cup {NoChannel}]
      /\ Range(table.array) \subseteq Channel
      /\ TypeOK /\ NoHost \notin Host
  BY TableFields, RegistryAssumption DEF IInv, Consistent, RotationConsistent
<1>2. /\ told' = [told EXCEPT ![k] = NoHost]
      /\ UNCHANGED <<addr, twice, unbuilt, replaced>>
      /\ table' = Erase(table, h)
  BY DEF DelCallback
<1>3. told' \in [Key -> Host \cup {NoHost}]
  BY <1>1, <1>2 DEF TypeOK
<1>4. Consistent(table')
  BY <1>1, <1>2, EraseConsistent
<1>5. \A j \in Key : told'[j] # NoHost => told'[j] = told[j] /\ j # k
  BY <1>1, <1>2 DEF TypeOK
<1>6. CASE table.hosts[h] \notin Range(table.array)
  <2>1. table' = table /\ ~Known(h)
    BY <1>1, <1>2, <1>6, EraseNothing DEF Known, Consistent, HostsHaveSlots
  <2>2. ChannelsOfTheirHosts'
    BY <1>2, <2>1 DEF IInv, ChannelsOfTheirHosts
  <2>3. ASSUME NEW d \in Range(table.array), ~missed
        PROVE  \/ \E j \in Key : told'[j] = addr[d]
               \/ addr[d] \in twice \cup replaced
    <3>1. \/ \E j \in Key : told[j] = addr[d]
          \/ addr[d] \in twice \cup replaced
      BY <2>3 DEF IInv, ServesTheTold
    <3>2. table.hosts[addr[d]] = d \/ addr[d] \in twice
      BY DEF IInv, ChannelsOfTheirHosts
    <3>3. CASE addr[d] # h
      BY <1>1, <1>2, <2>3, <3>1, <3>3 DEF TypeOK
    <3>4. CASE addr[d] = h
      BY <1>6, <3>2, <3>4
    <3>. QED  BY <3>3, <3>4
  <2>4. ServesTheTold'
    BY <1>2, <1>5, <2>1, <2>3 DEF IInv, ServesTheTold, Known
  <2>. QED  BY <1>2, <1>3, <1>4, <2>2, <2>4
<1>7. CASE table.hosts[h] \in Range(table.array)
  <2>1. PICK new : new = Erase(table, h)
    OBVIOUS
  <2>2. /\ table' = new
        /\ Range(new.array) = Range(table.array) \ {table.hosts[h]}
        /\ new.hosts = [table.hosts EXCEPT ![h] = NoChannel]
    BY <1>1, <1>2, <1>7, <2>1, EraseProperties
  <2>3. new.erased = table.erased \cup {table.hosts[h]}
    BY <1>7, <2>1 DEF Erase
  <2>4. addr[table.hosts[h]] = h /\ table.hosts[h] # NoChannel
    BY <1>1, <1>7, NoChannelAssumption DEF IInv, ChannelsOfTheirHosts
  <2>5. ChannelsOfTheirHosts'
    <3>1. (\A g \in Host : table.hosts[g] # NoChannel => addr[table.hosts[g]] = g)'
      BY <1>1, <1>2, <2>2 DEF IInv, ChannelsOfTheirHosts
    <3>2. (\A d \in Range(table.array) \cup table.erased : addr[d] # NoHost)'
      BY <1>1, <1>2, <2>2, <2>3, <2>4 DEF IInv, ChannelsOfTheirHosts
    <3>3. ASSUME NEW d \in Range(new.array)
          PROVE  new.hosts[addr[d]] = d \/ addr[d] \in twice
      <4>1. d \in Range(table.array) /\ d # table.hosts[h] /\ d \in Channel
        BY <1>1, <2>2, <3>3
      <4>2. addr[d] \in Host
        BY <1>1, <4>1 DEF IInv, ChannelsOfTheirHosts, TypeOK
      <4>3. table.hosts[addr[d]] = d \/ addr[d] \in twice
        BY <4>1 DEF IInv, ChannelsOfTheirHosts
      <4>. QED  BY <1>1, <2>2, <4>1, <4>2, <4>3
    <3>. QED  BY <1>2, <2>2, <3>1, <3>2, <3>3 DEF ChannelsOfTheirHosts
  <2>6. ServesTheTold'
    <3>. SUFFICES ASSUME ~missed PROVE ServesTheTold'
      BY DEF ServesTheTold
    <3>1. ASSUME NEW j \in Key, told'[j] # NoHost
          PROVE  /\ new.hosts[told[j]] # NoChannel \/ told[j] \in twice \cup unbuilt
                 /\ \A i \in Key : told'[i] = told'[j] /\ i # j =>
                                     told[j] \in twice \cup unbuilt
      <4>1. told[j] # NoHost /\ told[j] \in Host /\ j # k /\ told'[j] = told[j]
        BY <1>1, <1>5, <3>1 DEF TypeOK
      <4>2. /\ Known(told[j]) \/ told[j] \in twice \cup unbuilt
            /\ \A i \in Key : told[i] = told[j] /\ i # j =>
                                 told[j] \in twice \cup unbuilt
        BY <4>1 DEF IInv, ServesTheTold
      <4>3. told[j] = h => h \in twice \cup unbuilt
        BY <4>1, <4>2
      <4>4. \A i \in Key : told'[i] = told'[j] => told[i] = told[j]
        BY <1>5, <3>1
      <4>. QED  BY <1>1, <2>2, <4>1, <4>2, <4>3, <4>4 DEF Known
    <3>2. ASSUME NEW d \in Range(new.array)
          PROVE  \/ \E j \in Key : told'[j] = addr[d]
                 \/ addr[d] \in twice \cup replaced
      <4>1. d \in Range(table.array) /\ d # table.hosts[h]
        BY <2>2, <3>2
      <4>2. \/ \E j \in Key : told[j] = addr[d]
            \/ addr[d] \in twice \cup replaced
        BY <4>1 DEF IInv, ServesTheTold
      <4>3. table.hosts[addr[d]] = d \/ addr[d] \in twice
        BY <4>1 DEF IInv, ChannelsOfTheirHosts
      <4>. QED  BY <1>1, <1>2, <4>1, <4>2, <4>3 DEF TypeOK
    <3>3. \A g : Known(g)' <=> new.hosts[g] # NoChannel
      BY <2>2 DEF Known
    <3>. QED  BY <1>2, <1>5, <2>2, <3>1, <3>2, <3>3 DEF ServesTheTold
  <2>. QED  BY <1>2, <1>3, <1>4, <2>5, <2>6
<1>. QED  BY <1>6, <1>7

\* The inductive invariant holds initially.
LEMMA InitIInv == Init => IInv
<1>. SUFFICES ASSUME Init PROVE IInv
  OBVIOUS
<1>1. RegIInv /\ LogIsHistory /\ log = << >> /\ Len(<< >>) = 0
  BY InitRegIInv, InitLogIsHistory DEF Init, RegInit
<1>2. Consistent(table)
  BY NewTableConsistent DEF Init
<1>3. /\ \A h \in Host : table.hosts[h] = NoChannel
      /\ Range(table.array) = {} /\ table.erased = {}
  BY DEF Init, NewTable, Range
<1>4. TypeOK
  <2>1. pos \in 0 .. Len(log)
    BY <1>1 DEF Init
  <2>2. /\ told \in [Key -> Host \cup {NoHost}]
        /\ addr \in [Channel -> Host \cup {NoHost}]
    BY DEF Init
  <2>. QED  BY <2>1, <2>2 DEF Init, TypeOK
<1>5. ToldAsOfPos
  BY DEF Init, ToldAsOfPos
<1>6. ChannelsOfTheirHosts
  BY <1>3 DEF ChannelsOfTheirHosts
<1>7. ServesTheTold
  BY <1>3 DEF Init, ServesTheTold
<1>. QED  BY <1>1, <1>2, <1>4, <1>5, <1>6, <1>7 DEF IInv

\* A step of the processes and the store adds to the log, and what the client
\* knows of the events so far stays true.
LEMMA RegNextIInv ==
  ASSUME IInv, [RegNext]_regVars, UNCHANGED client
  PROVE  IInv'
<1>1. UNCHANGED <<phase, listed, pos, table, addr, twice, unbuilt, replaced, missed, told>>
  BY DEF client
<1>2. RegIInv' /\ LogIsHistory'
  BY StepRegIInv, StepLogIsHistory DEF IInv
<1>3. /\ log \in Seq(Events) /\ Len(log) \in Nat /\ pos \in 0 .. Len(log)
  BY LenProperties DEF IInv, RegIInv, RegTypeOK, Events, TypeOK
<1>4. /\ pos \in 0 .. Len(log')
      /\ \A k, v : IsValueAt(log', k, pos, v) <=> IsValueAt(log, k, pos, v)
  <2>1. CASE UNCHANGED <<kv, log>>
    BY <1>3, <2>1
  <2>2. ASSUME NEW ev \in Events, log' = Append(log, ev)
        PROVE  /\ pos \in 0 .. Len(log')
               /\ \A k, v : IsValueAt(log', k, pos, v) <=> IsValueAt(log, k, pos, v)
    <3>1. Len(log') = Len(log) + 1
      BY <1>3, <2>2, AppendProperties
    <3>. QED  BY <1>3, <2>2, <3>1, ValueIsKept
  <2>. QED  BY <2>1, <2>2, RegStepWritesEvent DEF IInv
<1>5. TypeOK'
  BY <1>1, <1>4 DEF IInv, TypeOK
<1>6. Consistent(table')
  BY <1>1 DEF IInv
<1>7. ToldAsOfPos'
  BY <1>1, <1>4 DEF IInv, ToldAsOfPos
<1>8. ChannelsOfTheirHosts'
  BY <1>1 DEF IInv, ChannelsOfTheirHosts
<1>9. ServesTheTold'
  BY <1>1 DEF IInv, ServesTheTold, Known
<1>. QED  BY <1>2, <1>5, <1>6, <1>7, <1>8, <1>9 DEF IInv

\* The list is the store as it is.
LEMMA LsIInv ==
  ASSUME IInv, Ls
  PROVE  IInv'
<1>1. /\ phase = "new" /\ phase' = "replay" /\ pos' = Len(log)
      /\ listed' = {p \in Key \X Host : kv[p[1]] = p[2]}
      /\ UNCHANGED <<regVars, table, addr, twice, unbuilt, replaced, missed, told>>
  BY DEF Ls
<1>2. UNCHANGED <<log, kv>> /\ Len(log) \in Nat /\ kv \in [Key -> Host \cup {NoHost}]
  BY <1>1, LenProperties DEF regVars, store, IInv, RegIInv, RegTypeOK
<1>3. RegIInv' /\ LogIsHistory'
  BY <1>1, StepRegIInv, StepLogIsHistory DEF IInv
<1>4. TypeOK'
  BY <1>1, <1>2 DEF IInv, TypeOK
<1>5. ToldAsOfPos'
  <2>1. ASSUME NEW k \in Key
        PROVE  /\ \A h \in Host : <<k, h>> \in listed' => IsValueAt(log, k, pos', h)
               /\ (\A h \in Host : <<k, h>> \notin listed') =>
                    IsValueAt(log, k, pos', told[k])
    <3>1. IsValueAt(log, k, pos', kv[k])
      BY <1>1 DEF IInv, LogIsHistory
    <3>2. \A h \in Host : <<k, h>> \in listed' <=> kv[k] = h
      BY <1>1
    <3>3. told[k] = NoHost
      BY <1>1 DEF IInv, ToldAsOfPos
    <3>. QED  BY <1>2, <3>1, <3>2, <3>3
  <2>. QED  BY <1>1, <1>2, <2>1 DEF ToldAsOfPos
<1>6. Consistent(table') /\ ChannelsOfTheirHosts' /\ ServesTheTold'
  BY <1>1 DEF IInv, ChannelsOfTheirHosts, ServesTheTold, Known
<1>. QED  BY <1>3, <1>4, <1>5, <1>6 DEF IInv

\* With no list the client knows the store only if the store has no key.
LEMMA LsFailsIInv ==
  ASSUME IInv, LsFails
  PROVE  IInv'
<1>1. /\ phase = "new" /\ phase' = "replay" /\ pos' = Len(log)
      /\ missed' = (missed \/ \E k \in Key : kv[k] # NoHost)
      /\ UNCHANGED <<regVars, listed, table, addr, twice, unbuilt, replaced, told>>
  BY DEF LsFails
<1>2. UNCHANGED <<log, kv>> /\ Len(log) \in Nat
  BY <1>1, LenProperties DEF regVars, store, IInv, RegIInv, RegTypeOK
<1>3. RegIInv' /\ LogIsHistory'
  BY <1>1, StepRegIInv, StepLogIsHistory DEF IInv
<1>4. TypeOK'
  BY <1>1, <1>2 DEF IInv, TypeOK
<1>5. ToldAsOfPos'
  <2>1. listed' = {}
    BY <1>1 DEF IInv, ToldAsOfPos
  <2>2. ASSUME NEW k \in Key, ~missed' PROVE IsValueAt(log, k, pos', told[k])
    <3>1. told[k] = kv[k]
      BY <1>1, <2>2 DEF IInv, ToldAsOfPos
    <3>. QED  BY <1>1, <3>1 DEF IInv, LogIsHistory
  <2>. QED  BY <1>1, <1>2, <2>1, <2>2 DEF ToldAsOfPos
<1>6. Consistent(table') /\ ChannelsOfTheirHosts'
  BY <1>1 DEF IInv, ChannelsOfTheirHosts
<1>7. ServesTheTold'
  BY <1>1, <1>4 DEF IInv, ServesTheTold, Known, TypeOK
<1>. QED  BY <1>3, <1>4, <1>5, <1>6, <1>7 DEF IInv

\* A turn of the loop tells the client the value of one key.
LEMMA ReplayIInv ==
  ASSUME IInv, Replay
  PROVE  IInv'
<1>1. PICK p \in listed : listed' = listed \ {p} /\ PutCallback(p[1], p[2])
  BY DEF Replay
<1>2. PICK k \in Key, h \in Host : p = <<k, h>>
  BY DEF IInv, TypeOK
<1>3. phase = "replay" /\ UNCHANGED <<regVars, phase, pos, missed>>
  BY DEF Replay
<1>4. UNCHANGED <<log, kv>>
  BY <1>3 DEF regVars, store
<1>5. RegIInv' /\ LogIsHistory'
  BY <1>3, StepRegIInv, StepLogIsHistory DEF IInv
<1>6. PutCallback(k, h)
  BY <1>1, <1>2
<1>7. /\ Consistent(table')
      /\ addr' \in [Channel -> Host \cup {NoHost}]
      /\ twice' \in SUBSET Host /\ unbuilt' \in SUBSET Host
      /\ replaced' \in SUBSET Host
      /\ told' \in [Key -> Host \cup {NoHost}]
      /\ told' = [told EXCEPT ![k] = h]
      /\ ChannelsOfTheirHosts' /\ ServesTheTold'
  BY <1>3, <1>6, PutCallbackKeeps
<1>8. TypeOK'
  BY <1>1, <1>3, <1>4, <1>7 DEF IInv, TypeOK
<1>9. ToldAsOfPos'
  <2>1. ASSUME NEW j \in Key
        PROVE  /\ \A g \in Host : <<j, g>> \in listed' => IsValueAt(log, j, pos, g)
               /\ (\A g \in Host : <<j, g>> \notin listed') /\ ~missed =>
                    IsValueAt(log, j, pos, told'[j])
    <3>1. \A g \in Host : <<j, g>> \in listed => IsValueAt(log, j, pos, g)
      BY <1>3 DEF IInv, ToldAsOfPos
    <3>2. CASE j = k
      <4>1. told'[j] = h /\ <<j, h>> \in listed
        BY <1>1, <1>2, <1>7, <3>2 DEF IInv, TypeOK
      <4>. QED  BY <1>1, <3>1, <4>1
    <3>3. CASE j # k
      <4>1. told'[j] = told[j] /\ \A g \in Host : <<j, g>> \in listed' <=> <<j, g>> \in listed
        BY <1>1, <1>2, <1>7, <3>3 DEF IInv, TypeOK
      <4>. QED  BY <1>3, <3>1, <4>1 DEF IInv, ToldAsOfPos
    <3>. QED  BY <3>2, <3>3
  <2>. QED  BY <1>3, <1>4, <2>1 DEF ToldAsOfPos
<1>. QED  BY <1>5, <1>7, <1>8, <1>9 DEF IInv

\* The watcher starts where the list was made, or it has missed something.
LEMMA StartWatchIInv ==
  ASSUME IInv, StartWatch
  PROVE  IInv'
<1>1. /\ phase = "replay" /\ listed = {} /\ phase' = "watch" /\ pos' = Len(log)
      /\ missed' = (missed \/ pos < Len(log))
      /\ UNCHANGED <<regVars, listed, table, addr, twice, unbuilt, replaced, told>>
  BY DEF StartWatch
<1>2. UNCHANGED <<log, kv>> /\ Len(log) \in Nat /\ pos \in 0 .. Len(log)
  BY <1>1, LenProperties DEF regVars, store, IInv, RegIInv, RegTypeOK, TypeOK
<1>3. RegIInv' /\ LogIsHistory'
  BY <1>1, StepRegIInv, StepLogIsHistory DEF IInv
<1>4. TypeOK'
  BY <1>1, <1>2 DEF IInv, TypeOK
<1>5. ~missed' => pos = Len(log) /\ ~missed
  <2>1. pos < Len(log) \/ pos = Len(log)
    BY <1>2
  <2>. QED  BY <1>1, <2>1, Zenon
<1>6. ToldAsOfPos'
  BY <1>1, <1>2, <1>5 DEF IInv, ToldAsOfPos
<1>7. Consistent(table') /\ ChannelsOfTheirHosts'
  BY <1>1 DEF IInv, ChannelsOfTheirHosts
<1>8. ServesTheTold'
  BY <1>1, <1>5 DEF IInv, ServesTheTold, Known
<1>. QED  BY <1>3, <1>4, <1>6, <1>7, <1>8 DEF IInv

\* An event tells the client the value it leaves its key with; and the host an
\* event of a deletion carries is the one the client was told.
LEMMA NotifyIInv ==
  ASSUME IInv, Notify
  PROVE  IInv'
<1>1. /\ phase = "watch" /\ pos < Len(log) /\ pos' = pos + 1
      /\ UNCHANGED <<regVars, phase, listed, missed>>
  BY DEF Notify
<1>2. PICK ev : ev = log[pos + 1]
  OBVIOUS
<1>3. /\ UNCHANGED <<log, kv>> /\ log \in Seq(Events) /\ Len(log) \in Nat
      /\ pos \in 0 .. Len(log) /\ pos + 1 \in 1 .. Len(log)
  BY <1>1, LenProperties DEF regVars, store, IInv, RegIInv, RegTypeOK, TypeOK, Events
<1>4. ev \in Events
  BY <1>2, <1>3, ElementOfSeq
<1>5. ev.key \in Key /\ ev.host \in Host /\ ev.type \in {"PUT", "DELETE"}
  BY <1>4 DEF Events
<1>6. RegIInv' /\ LogIsHistory'
  BY <1>1, StepRegIInv, StepLogIsHistory DEF IInv
<1>7. /\ Consistent(table')
      /\ addr' \in [Channel -> Host \cup {NoHost}]
      /\ twice' \in SUBSET Host /\ unbuilt' \in SUBSET Host
      /\ replaced' \in SUBSET Host
      /\ told' \in [Key -> Host \cup {NoHost}]
      /\ told' = [told EXCEPT ![ev.key] = After(ev)]
      /\ ChannelsOfTheirHosts' /\ ServesTheTold'
  <2>1. CASE ev.type = "PUT" /\ PutCallback(ev.key, ev.host)
    BY <1>1, <1>5, <2>1, PutCallbackKeeps DEF After
  <2>2. CASE ev.type = "DELETE" /\ DelCallback(ev.key, ev.host)
    <3>1. ASSUME ~missed PROVE told[ev.key] = ev.host
      <4>1. IsValueAt(log, ev.key, pos, told[ev.key])
        BY <1>1, <1>5, <3>1 DEF IInv, ToldAsOfPos
      <4>2. IsValueAt(log, ev.key, pos, ev.host)
        <5>1. IsValueAt(log, log[pos + 1].key, (pos + 1) - 1, log[pos + 1].host)
          BY <1>2, <1>3, <2>2 DEF IInv, LogIsHistory
        <5>2. (pos + 1) - 1 = pos
          BY <1>3
        <5>. QED  BY <1>2, <5>1, <5>2
      <4>3. pos \in Nat
        BY <1>3
      <4>. QED  BY <4>1, <4>2, <4>3, ValueIsUnique
    <3>2. After(ev) = NoHost
      BY <2>2 DEF After
    <3>3. /\ Consistent(table')
          /\ UNCHANGED <<addr, twice, unbuilt, replaced>>
          /\ told' \in [Key -> Host \cup {NoHost}]
          /\ told' = [told EXCEPT ![ev.key] = NoHost]
          /\ ChannelsOfTheirHosts' /\ ServesTheTold'
      BY <1>1, <1>5, <2>2, <3>1, DelCallbackKeeps
    <3>. QED  BY <3>2, <3>3 DEF IInv, TypeOK
  <2>. QED  BY <1>2, <2>1, <2>2 DEF Notify
<1>8. TypeOK'
  BY <1>1, <1>3, <1>7 DEF IInv, TypeOK
<1>9. ToldAsOfPos'
  <2>1. ASSUME NEW k \in Key, ~missed PROVE IsValueAt(log, k, pos + 1, told'[k])
    <3>1. IsValueAt(log, k, pos, told[k]) /\ pos \in Nat
      BY <1>1, <1>3, <2>1 DEF IInv, ToldAsOfPos
    <3>2. told'[k] = IF log[pos + 1].key = k THEN After(log[pos + 1]) ELSE told[k]
      BY <1>2, <1>7 DEF IInv, TypeOK
    <3>. QED  BY <3>1, <3>2, ValueAfterEvent
  <2>. QED  BY <1>1, <1>3, <2>1 DEF IInv, ToldAsOfPos
<1>. QED  BY <1>6, <1>7, <1>8, <1>9 DEF IInv

\* From an error on the client has missed events.
LEMMA NotifyErrorIInv ==
  ASSUME IInv, NotifyError
  PROVE  IInv'
<1>1. /\ phase = "watch" /\ phase' = "dead" /\ missed' = TRUE
      /\ UNCHANGED <<regVars, listed, pos, table, addr, twice, unbuilt, replaced, told>>
  BY DEF NotifyError
<1>2. UNCHANGED <<log, kv>>
  BY <1>1 DEF regVars, store
<1>3. RegIInv' /\ LogIsHistory'
  BY <1>1, StepRegIInv, StepLogIsHistory DEF IInv
<1>4. TypeOK'
  BY <1>1, <1>2 DEF IInv, TypeOK
<1>5. ToldAsOfPos'
  BY <1>1 DEF IInv, ToldAsOfPos
<1>6. Consistent(table') /\ ChannelsOfTheirHosts'
  BY <1>1 DEF IInv, ChannelsOfTheirHosts
<1>7. ServesTheTold'
  BY <1>1 DEF ServesTheTold
<1>. QED  BY <1>3, <1>4, <1>5, <1>6, <1>7 DEF IInv

\* choose() moves the counter and touches no channel.
LEMMA ChooseIInv ==
  ASSUME IInv, Choose
  PROVE  /\ IInv'
         /\ table'.array = table.array /\ table'.hosts = table.hosts
<1>1. /\ table' = Advance(table)
      /\ UNCHANGED <<regVars, phase, listed, pos, addr, twice, unbuilt, replaced,
                     missed, told>>
  BY DEF Choose
<1>2. UNCHANGED <<log, kv>>
  BY <1>1 DEF regVars, store
<1>3. RegIInv' /\ LogIsHistory'
  BY <1>1, StepRegIInv, StepLogIsHistory DEF IInv
<1>4. TypeOK' /\ ToldAsOfPos'
  BY <1>1, <1>2 DEF IInv, TypeOK, ToldAsOfPos
<1>5. Consistent(table')
  BY <1>1, AdvanceConsistent DEF IInv
<1>6. /\ table'.array = table.array /\ table'.hosts = table.hosts
      /\ table'.erased = table.erased
  <2>1. table \in Table
    BY DEF IInv, Consistent, RotationConsistent
  <2>. QED  BY <1>1, <2>1, AdvanceNothing, AdvanceProperties
<1>7. ChannelsOfTheirHosts' /\ ServesTheTold'
  BY <1>1, <1>6 DEF IInv, ChannelsOfTheirHosts, ServesTheTold, Known
<1>. QED  BY <1>3, <1>4, <1>5, <1>6, <1>7 DEF IInv

\* Every step keeps the inductive invariant.
LEMMA StepIInv == IInv /\ [Next]_vars => IInv'
<1>. SUFFICES ASSUME IInv, [Next]_vars PROVE IInv'
  OBVIOUS
<1>1. CASE RegNext /\ UNCHANGED client
  BY <1>1, RegNextIInv
<1>2. CASE Constructor
  BY <1>2, LsIInv, LsFailsIInv, ReplayIInv, StartWatchIInv DEF Constructor
<1>3. CASE Notify
  BY <1>3, NotifyIInv
<1>4. CASE NotifyError
  BY <1>4, NotifyErrorIInv
<1>5. CASE Choose
  BY <1>5, ChooseIInv
<1>6. CASE UNCHANGED vars
  BY <1>6, RegNextIInv DEF vars
<1>. QED  BY <1>1, <1>2, <1>3, <1>4, <1>5, <1>6 DEF Next

\* The inductive invariant holds in every state.
THEOREM Inductive == Spec => []IInv
<1>. QED  BY InitIInv, StepIInv, PTL DEF Spec

\* A client that is in step was told the store.
LEMMA InStepKnowsStore == IInv => ToldTheStore
<1>. SUFFICES ASSUME IInv, InStep PROVE told = kv
  BY DEF ToldTheStore
<1>1. /\ phase = "watch" /\ pos = Len(log) /\ ~missed /\ Len(log) \in Nat
      /\ told \in [Key -> Host \cup {NoHost}] /\ kv \in [Key -> Host \cup {NoHost}]
  BY LenProperties DEF InStep, IInv, TypeOK, RegIInv, RegTypeOK
<1>2. ASSUME NEW k \in Key PROVE told[k] = kv[k]
  <2>1. IsValueAt(log, k, Len(log), told[k]) /\ IsValueAt(log, k, Len(log), kv[k])
    BY <1>1 DEF IInv, ToldAsOfPos, LogIsHistory
  <2>. QED  BY <1>1, <2>1, ValueIsUnique
<1>. QED  BY <1>1, <1>2

\* And it serves the store, with the exceptions of ServesTheStore.
LEMMA InStepServesStore == IInv => ServesTheStore
<1>. SUFFICES ASSUME IInv, InStep
              PROVE  /\ Stored \ (twice \cup unbuilt) \subseteq Served
                     /\ Served \subseteq Stored \cup twice \cup replaced
  BY DEF ServesTheStore
<1>1. told = kv /\ ~missed
  BY InStepKnowsStore DEF ToldTheStore, InStep
<1>2. ASSUME NEW h \in Stored, h \notin twice \cup unbuilt PROVE h \in Served
  <2>1. PICK k \in Key : told[k] = h /\ h # NoHost
    BY <1>1 DEF Stored
  <2>2. h \in Host /\ Known(h)
    BY <1>1, <1>2, <2>1 DEF IInv, TypeOK, ServesTheTold
  <2>3. table.hosts[h] \in Range(table.array) /\ addr[table.hosts[h]] = h
    BY <2>2 DEF IInv, Consistent, HostsHaveSlots, ChannelsOfTheirHosts, Known
  <2>. QED  BY <2>3 DEF Served
<1>3. ASSUME NEW c \in Range(table.array)
      PROVE  addr[c] \in Stored \cup twice \cup replaced
  <2>1. addr[c] # NoHost
    BY DEF IInv, ChannelsOfTheirHosts
  <2>2. (\E k \in Key : told[k] = addr[c]) \/ addr[c] \in twice \cup replaced
    BY <1>1 DEF IInv, ServesTheTold
  <2>. QED  BY <1>1, <2>1, <2>2 DEF Stored
<1>. QED  BY <1>2, <1>3 DEF Served

\* The client loses no event between its list and its watch, and takes none for
\* another (etcd.hpp:47-77).
THEOREM ClientKnowsTheStore == Spec => []ToldTheStore
<1>. QED  BY InStepKnowsStore, Inductive, PTL

\* The rotation leads to the hosts in the store, but for those that were put
\* twice, that could not be connected, or whose key was put again with another
\* host (etcd.hpp:67-75, channel.hpp:34-35, 41-67).
THEOREM ClientServesTheStore == Spec => []ServesTheStore
<1>. QED  BY InStepServesStore, Inductive, PTL

\* A client is no more to the store than one who reads: the processes it
\* discovers are those of module Registry, so that no key outlives its lease in
\* Discovery either (registry.cc:68-87, etcd.hpp:47-77).
THEOREM DiscoveryOnlyReads == Spec => RegSpec
<1>1. Init => RegInit
  BY DEF Init
<1>2. [Next]_vars => [RegNext]_regVars
  BY DEF Next, vars, Constructor, Ls, LsFails, Replay, StartWatch, Notify, NotifyError, Choose
<1>. QED  BY <1>1, <1>2, PTL DEF Spec, RegSpec

-----------------------------------------------------------------------------
(* The client and its call *)

\* The channel of the stub was in the rotation when it was chosen: the counter
\* of an object nobody has called choose() on names a slot if there is one.  It
\* is in the rotation still, or its host was taken away.
StubIsServed ==
  pc = "calling" =>
    IF seen = {} THEN stub = NoChannel
    ELSE /\ stub \in seen /\ stub \in Channel
         /\ stub \in Range(table.array) \/ addr[stub] \in deleted

CallIInv ==
  /\ IInv
  /\ pc \in {"main", "calling", "waiting", "over", "crashed"}
  /\ pc = "main" => table.count = 0
  /\ pc # "main" => phase \in {"watch", "dead"}
  /\ deleted \in SUBSET Host
  /\ StubIsServed

\* The inductive invariant holds initially.
LEMMA InitCallIInv == CallInit => CallIInv
<1>. SUFFICES ASSUME CallInit PROVE CallIInv
  OBVIOUS
<1>1. IInv
  BY InitIInv DEF CallInit
<1>2. table.count = 0
  BY DEF CallInit, Init, NewTable
<1>. QED  BY <1>1, <1>2 DEF CallInit, CallIInv, StubIsServed

\* Every step of the program is a step of the client of module Discovery: the
\* end of the program ends the watch, if it was not over before.
LEMMA CallStepIsStep ==
  ASSUME CallIInv, [CallNext]_callVars
  PROVE  [Next]_vars
<1>1. ASSUME NEW how, Ends(how), pc # "main" PROVE [Next]_vars
  <2>1. CASE phase = "watch"
    BY <1>1, <2>1 DEF Ends, NotifyError, Next
  <2>2. CASE phase = "dead"
    <3>1. missed
      BY <2>2 DEF CallIInv, IInv, ToldAsOfPos
    <3>. QED  BY <1>1, <2>2, <3>1 DEF Ends, vars, client
  <2>. QED  BY <1>1, <2>1, <2>2 DEF CallIInv
<1>2. CASE MakeStub
  BY <1>2 DEF MakeStub, Next
<1>3. CASE EchoAnswered
  BY <1>3 DEF EchoAnswered
<1>4. CASE EchoFailed \/ EchoCrashes \/ GetChar
  BY <1>1, <1>4 DEF EchoFailed, EchoCrashes, GetChar
<1>5. CASE NotifyCaller
  BY <1>5 DEF NotifyCaller, Next
<1>6. CASE UNCHANGED callVars
  BY <1>6 DEF callVars
<1>. QED  BY <1>2, <1>3, <1>4, <1>5, <1>6 DEF CallNext, Next

\* Neither callback moves the counter, and the channel of a call in progress
\* stays in the rotation unless its own host is taken away.
LEMMA NotifyCallerCallIInv ==
  ASSUME CallIInv, NotifyCaller
  PROVE  CallIInv'
<1>1. /\ Notify /\ UNCHANGED <<pc, stub, seen, phase>>
      /\ deleted' = IF pc = "calling" /\ log[pos'].type = "DELETE"
                    THEN deleted \cup {log[pos'].host} ELSE deleted
      /\ pos' = pos + 1
  BY DEF NotifyCaller, Notify
<1>2. IInv /\ IInv'
  BY <1>1, NotifyIInv DEF CallIInv
<1>3. PICK ev : ev = log[pos + 1]
  OBVIOUS
<1>4. ev.key \in Key /\ ev.host \in Host
  <2>1. /\ log \in Seq(Events) /\ Len(log) \in Nat /\ pos \in 0 .. Len(log)
        /\ pos < Len(log)
    BY <1>1, <1>2, LenProperties
    DEF IInv, RegIInv, RegTypeOK, TypeOK, Events, Notify
  <2>2. pos + 1 \in 1 .. Len(log)
    BY <2>1
  <2>3. ev \in Events
    BY <1>3, <2>1, <2>2, ElementOfSeq
  <2>. QED  BY <2>3 DEF Events
<1>5. \/ ev.type = "PUT" /\ PutCallback(ev.key, ev.host)
      \/ ev.type = "DELETE" /\ DelCallback(ev.key, ev.host)
  BY <1>1, <1>3 DEF Notify
<1>6. table \in Table /\ NoDoubleSlot(table) /\ Range(table.array) \subseteq Channel
  BY <1>2, TableFields DEF IInv, Consistent, RotationConsistent
<1>7. /\ table'.count = table.count
      /\ \A c \in Range(table.array) :
           c \in Range(table'.array) \/ (ev.type = "DELETE" /\ addr[c] = ev.host)
      /\ \A c \in Channel : addr[c] # NoHost => addr'[c] = addr[c]
  <2>1. CASE ev.type = "PUT" /\ PutCallback(ev.key, ev.host)
    <3>1. CASE UNCHANGED <<addr, table>>
      BY <3>1
    <3>2. ASSUME NEW c \in Channel, addr[c] = NoHost,
                 addr' = [addr EXCEPT ![c] = ev.host],
                 table' = PushBack(table, ev.host, c)
          PROVE  /\ table'.count = table.count
                 /\ Range(table.array) \subseteq Range(table'.array)
                 /\ \A d \in Channel : addr[d] # NoHost => addr'[d] = addr[d]
      <4>1. table'.count = table.count
        BY <3>2 DEF PushBack
      <4>2. Range(table'.array) = Range(table.array) \cup {c}
        BY <1>4, <1>6, <3>2, PushBackProperties
      <4>. QED  BY <1>2, <3>2, <4>1, <4>2 DEF IInv, TypeOK
    <3>. QED  BY <2>1, <3>1, <3>2 DEF PutCallback
  <2>2. CASE ev.type = "DELETE" /\ DelCallback(ev.key, ev.host)
    <3>1. table' = Erase(table, ev.host) /\ addr' = addr
      BY <2>2 DEF DelCallback
    <3>2. CASE table.hosts[ev.host] \notin Range(table.array)
      BY <3>1, <3>2, EraseNothing
    <3>3. CASE table.hosts[ev.host] \in Range(table.array)
      <4>1. /\ Range(table'.array) = Range(table.array) \ {table.hosts[ev.host]}
            /\ table'.count = table.count
        BY <1>4, <1>6, <3>1, <3>3, EraseProperties
      <4>2. addr[table.hosts[ev.host]] = ev.host
        BY <1>2, <1>4, <1>6, <3>3, NoChannelAssumption
        DEF IInv, ChannelsOfTheirHosts
      <4>. QED  BY <2>2, <3>1, <4>1, <4>2
    <3>. QED  BY <3>2, <3>3
  <2>. QED  BY <1>5, <2>1, <2>2
<1>8. deleted' \in SUBSET Host
  BY <1>1, <1>3, <1>4 DEF CallIInv
<1>9. StubIsServed'
  <2>. SUFFICES ASSUME pc = "calling", seen # {}
                PROVE  stub \in Range(table'.array) \/ addr'[stub] \in deleted'
    BY <1>1 DEF CallIInv, StubIsServed
  <2>1. /\ stub \in Channel
        /\ stub \in Range(table.array) \/ addr[stub] \in deleted
    BY DEF CallIInv, StubIsServed
  <2>2. addr[stub] # NoHost
    BY <1>2, <2>1, RegistryAssumption DEF IInv, ChannelsOfTheirHosts, CallIInv
  <2>. QED  BY <1>1, <1>3, <1>7, <2>1, <2>2
<1>. QED  BY <1>1, <1>2, <1>7, <1>8, <1>9 DEF CallIInv

\* The loop of the constructor pushes channels and moves no counter, and there
\* is no call yet.
LEMMA ConstructorCallIInv ==
  ASSUME CallIInv, Constructor, UNCHANGED caller
  PROVE  CallIInv'
<1>1. IInv'
  BY LsIInv, LsFailsIInv, ReplayIInv, StartWatchIInv DEF CallIInv, Constructor
<1>2. phase \in {"new", "replay"} /\ table'.count = table.count
  BY DEF Constructor, Ls, LsFails, Replay, StartWatch, PutCallback, PushBack
<1>3. pc = "main" /\ UNCHANGED <<pc, stub, seen, deleted>>
  BY <1>2 DEF CallIInv, caller
<1>. QED  BY <1>1, <1>2, <1>3 DEF CallIInv, StubIsServed

\* main() chooses once, from the first slot.
LEMMA MakeStubCallIInv ==
  ASSUME CallIInv, MakeStub
  PROVE  CallIInv'
<1>1. /\ pc = "main" /\ phase \in {"watch", "dead"} /\ pc' = "calling"
      /\ stub' = Chosen(table) /\ seen' = Range(table.array)
      /\ Choose /\ UNCHANGED <<deleted, phase, addr>>
  BY DEF MakeStub, Choose
<1>2. IInv' /\ table'.array = table.array
  BY <1>1, ChooseIInv DEF CallIInv
<1>3. /\ RotationConsistent(table) /\ table.array \in Seq(Channel)
      /\ Len(table.array) \in Nat /\ Range(table.array) \subseteq Channel
      /\ table.count = 0
  BY <1>1, TableFields DEF CallIInv, IInv, Consistent, RotationConsistent
<1>4. CASE table.array = << >>
  <2>1. Range(table.array) = {} /\ Chosen(table) = NoChannel
    BY <1>3, <1>4, ChosenProperties DEF Range
  <2>. QED  BY <1>1, <1>2, <2>1 DEF CallIInv, StubIsServed
<1>5. CASE table.array # << >>
  <2>1. InBounds(table)
    BY <1>3, <1>5, EmptySeq DEF InBounds
  <2>2. Chosen(table) \in Range(table.array)
    BY <1>3, <1>5, <2>1, ChosenProperties
  <2>. QED  BY <1>1, <1>2, <1>3, <2>2 DEF CallIInv, StubIsServed
<1>. QED  BY <1>4, <1>5

\* Every step keeps the inductive invariant.
LEMMA StepCallIInv == CallIInv /\ [CallNext]_callVars => CallIInv'
<1>. SUFFICES ASSUME CallIInv, [CallNext]_callVars PROVE CallIInv'
  OBVIOUS
<1>1. IInv'
  BY CallStepIsStep, StepIInv DEF CallIInv
<1>2. CASE UNCHANGED <<phase, table, addr, pc, stub, seen, deleted>>
  BY <1>1, <1>2 DEF CallIInv, StubIsServed
<1>3. CASE RegNext /\ UNCHANGED <<client, caller>>
  BY <1>2, <1>3 DEF client, caller
<1>4. CASE Constructor /\ UNCHANGED caller
  BY <1>4, ConstructorCallIInv
<1>5. CASE NotifyCaller
  BY <1>5, NotifyCallerCallIInv
<1>6. CASE NotifyError /\ UNCHANGED caller
  BY <1>1, <1>6 DEF NotifyError, caller, CallIInv, StubIsServed
<1>7. CASE MakeStub
  BY <1>7, MakeStubCallIInv
<1>8. CASE EchoAnswered
  BY <1>1, <1>8 DEF EchoAnswered, vars, client, CallIInv, StubIsServed
<1>9. CASE EchoFailed \/ EchoCrashes \/ GetChar
  BY <1>1, <1>9 DEF EchoFailed, EchoCrashes, GetChar, Ends, CallIInv, StubIsServed
<1>10. CASE UNCHANGED callVars
  BY <1>2, <1>10 DEF callVars, vars, client, caller
<1>. QED  BY <1>3, <1>4, <1>5, <1>6, <1>7, <1>8, <1>9, <1>10 DEF CallNext

\* The inductive invariant holds in every state.
THEOREM CallInductive == CallSpec => []CallIInv
<1>. QED  BY InitCallIInv, StepCallIInv, PTL DEF CallSpec

\* The program that discovers a service and calls it is a client of module
\* Discovery: whatever it does with the channel, the watcher's callbacks and the
\* rotation behave as there, and what is proved there holds of it.
THEOREM CallerIsClient == CallSpec => Spec
<1>1. CallInit => Init
  BY DEF CallInit
<1>2. CallIInv /\ [CallNext]_callVars => [Next]_vars
  BY CallStepIsStep
<1>. QED  BY <1>1, <1>2, CallInductive, PTL DEF CallSpec, Spec

\* With the call in progress, too, the keys are leased, the client knows the store
\* and its rotation leads to the hosts there (discovery.cc:76-100).
THEOREM CallerServesTheStore == CallSpec => [](KeysAreLeased /\ ToldTheStore /\ ServesTheStore)
<1>. QED
  BY CallerIsClient, DiscoveryOnlyReads, NoKeyOutlivesItsLease, ClientKnowsTheStore,
     ClientServesTheStore, PTL

\* The channel of the call is one of the rotation, and there until the call is
\* over unless its own host went offline (discovery.cc:86-91, channel.hpp:33-35,
\* 45-55).
THEOREM CallKeepsItsChannel == CallSpec => []StubHasItsChannel
<1>1. CallIInv => StubHasItsChannel
  BY DEF CallIInv, StubIsServed, StubHasItsChannel, Alive
<1>. QED  BY <1>1, CallInductive, PTL
=============================================================================
