------------------------ MODULE ServiceManagerProofs ------------------------
(***************************************************************************)
(* The safety of the ServiceManager for any number of services, hosts,     *)
(* channels, callback threads and client threads.                          *)
(***************************************************************************)
EXTENDS ServiceManager, ServiceChannelOpsProofs

-----------------------------------------------------------------------------
(* The inductive invariant *)

\* The service an event is about.
ServiceOf(e) == GetServiceName(e[1])

Events == {"append", "insert", "remove"}

\* asked[t] is no service before t's first choose().
TypeOK ==
  /\ follow \in SUBSET Service
  /\ services \in [Service -> Obj \cup {NoObj}]
  /\ table \in [Obj -> Table]
  /\ lock \in Thread \cup {Free}
  /\ pc \in [Thread -> {"idle", "serve"} \cup Events]
  /\ obj \in [Thread -> Obj \cup {NoObj}]
  /\ event \in [Thread -> Event \cup {NoEvent}]
  /\ new_ptr \in [Thread -> Channel \cup {NoChannel}]
  /\ asked \in [Client -> Service \cup {<< >>}]
  /\ chosen \in [Client -> Channel \cup {NoChannel}]
  /\ origin \in [Channel -> Event \cup {NoEvent}]
  /\ said \in [Service \X Host -> {"online", "offline", "lost", "raced"}]

\* A service has an object of its own, once it is followed; objects that are
\* not in _services are as the constructor leaves them.
OneObjectEach ==
  /\ \A s, r \in Service : services[s] = services[r] /\ services[s] # NoObj => s = r
  /\ \A s \in Service : services[s] # NoObj => s \in follow
  /\ \A o \in Obj : table[o] # NewTable => \E s \in Service : services[s] = o

\* A thread works on the object of the service its call is about.
CallsOnTheirObject ==
  \A t \in Thread :
    /\ pc[t] = "idle" => obj[t] = NoObj
    /\ pc[t] \in Events =>
         /\ t \in Callback
         /\ event[t] \in Event
         /\ ServiceOf(event[t]) \in Service
         /\ services[ServiceOf(event[t])] = obj[t]
         /\ obj[t] \in Obj
    /\ pc[t] = "serve" =>
         /\ t \in Client
         /\ asked[t] \in Service
         /\ services[asked[t]] = obj[t]
         /\ obj[t] \in Obj

\* A channel that is built and not yet stored is held by one thread, was built
\* for that thread's event, and no object has had it.
PendingIsFresh ==
  \A t \in Thread :
    /\ pc[t] # "insert" => new_ptr[t] = NoChannel
    /\ pc[t] = "insert" =>
         /\ new_ptr[t] \in Channel
         /\ origin[new_ptr[t]] = event[t]
         /\ \A o \in Obj : new_ptr[t] \notin Range(table[o].array) \cup table[o].erased
         /\ \A u \in Thread : new_ptr[u] = new_ptr[t] => u = t

\* What an object holds or held was built for an event of its service.
ChannelsOfTheirService ==
  \A o \in Obj : \A c \in Range(table[o].array) \cup table[o].erased :
    /\ origin[c] \in Event
    /\ ServiceOf(origin[c]) \in Service
    /\ services[ServiceOf(origin[c])] = o

\* So was what choose() returned.
ChosenOfItsService ==
  \A t \in Client :
    chosen[t] # NoChannel =>
      origin[chosen[t]] \in Event /\ ServiceOf(origin[chosen[t]]) = asked[t]

\* A channel in the rotation is its host's in the hash table, unless the host
\* was appended again.
SlotHasItsKey ==
  \A o \in Obj : \A c \in Range(table[o].array) :
    LET h == origin[c][2]
    IN  table[o].hosts[h] = c \/ h \in table[o].reappended

Known(s, h) == services[s] # NoObj /\ table[services[s]].hosts[h] # NoChannel

\* A host whose event came while no other about it was in progress: as long as
\* this event is, it is the only one, and not applied yet; afterwards the host is
\* known or not as it said.
ViewButForTheEventInProgress ==
  /\ \A t \in Callback :
       pc[t] # "idle" /\ said[Target(event[t])] # "raced" =>
         /\ said[Target(event[t])] = IF pc[t] = "remove" THEN "offline" ELSE "online"
         /\ \A u \in Callback :
              pc[u] # "idle" /\ Target(event[u]) = Target(event[t]) => u = t
  /\ \A s \in Service, h \in Host :
       ~InProgress(<<s, h>>) =>
         /\ said[<<s, h>>] = "online" => Known(s, h)
         /\ said[<<s, h>>] = "offline" => ~Known(s, h)

IInv ==
  /\ TypeOK
  /\ \A o \in Obj : Consistent(table[o])
  /\ OneObjectEach
  /\ CallsOnTheirObject
  /\ PendingIsFresh
  /\ ChannelsOfTheirService
  /\ ChosenOfItsService
  /\ SlotHasItsKey
  /\ ViewButForTheEventInProgress

-----------------------------------------------------------------------------
(* It is inductive *)

\* It holds initially.
LEMMA InitIInv == Init => IInv
<1>. SUFFICES ASSUME Init PROVE IInv
  OBVIOUS
<1>1. Consistent(NewTable) /\ NewTable \in Table
  BY NewTableConsistent DEF Consistent, RotationConsistent
<1>2. /\ NewTable.array = << >> /\ NewTable.erased = {}
      /\ NewTable.hosts = [h \in Host |-> NoChannel] /\ Range(<< >>) = {}
  BY DEF NewTable, Range
<1>3. TypeOK
  BY <1>1, ManagerAssumption DEF Init, TypeOK
<1>4. OneObjectEach /\ CallsOnTheirObject
  BY <1>1 DEF Init, OneObjectEach, CallsOnTheirObject, Events
<1>5. PendingIsFresh /\ ChosenOfItsService
  BY DEF Init, PendingIsFresh, ChosenOfItsService
<1>6. ChannelsOfTheirService /\ SlotHasItsKey
  BY <1>2 DEF Init, ChannelsOfTheirService, SlotHasItsKey
<1>7. ViewButForTheEventInProgress
  BY DEF Init, ViewButForTheEventInProgress, Known, Thread
<1>. QED
  BY <1>1, <1>3, <1>4, <1>5, <1>6, <1>7 DEF IInv, Init

\* An event is looked up: another about the same host is in progress, or this is
\* the only one.
LEMMA LookedUpView ==
  ASSUME IInv, NEW t \in Callback, pc[t] = "idle",
         NEW e, Target(e) \in Service \X Host,
         NEW at \in {"append", "remove"},
         pc' = [pc EXCEPT ![t] = at], event' = [event EXCEPT ![t] = e],
         Noted(Target(e), IF at = "remove" THEN "offline" ELSE "online"),
         \A r \in Service, g \in Host : Known(r, g)' <=> Known(r, g)
  PROVE  ViewButForTheEventInProgress'
<1>. DEFINE p == Target(e)
<1>1. /\ t \in Thread /\ Callback \subseteq Thread
      /\ pc'[t] = at /\ event'[t] = e
      /\ \A u \in Callback \ {t} : pc'[u] = pc[u] /\ event'[u] = event[u]
  BY DEF IInv, TypeOK, Thread
<1>2. /\ said'[p] = IF InProgress(p) THEN "raced"
                    ELSE IF at = "remove" THEN "offline" ELSE "online"
      /\ \A q \in Service \X Host : q # p => said'[q] = said[q]
  BY DEF Noted, IInv, TypeOK
<1>3. \A u \in Callback : pc[u] # "idle" => Target(event[u]) \in Service \X Host
  <2>. SUFFICES ASSUME NEW u \in Callback, pc[u] # "idle"
                PROVE  Target(event[u]) \in Service \X Host
    OBVIOUS
  <2>1. pc[u] \in Events
    BY <1>1, ManagerAssumption DEF IInv, TypeOK, CallsOnTheirObject
  <2>2. event[u] \in Event /\ ServiceOf(event[u]) \in Service
    BY <1>1, <2>1 DEF IInv, CallsOnTheirObject
  <2>. QED  BY <2>2 DEF Target, ServiceOf, Event
<1>4. ASSUME NEW u \in Callback, pc'[u] # "idle", said'[Target(event'[u])] # "raced"
      PROVE  /\ said'[Target(event'[u])] = IF pc'[u] = "remove" THEN "offline" ELSE "online"
             /\ \A v \in Callback :
                  pc'[v] # "idle" /\ Target(event'[v]) = Target(event'[u]) => v = u
  <2>1. CASE u = t
    <3>1. ~InProgress(p)
      BY <1>1, <1>2, <1>4, <2>1
    <3>2. \A v \in Callback : pc[v] # "idle" => Target(event[v]) # p
      BY <3>1 DEF InProgress
    <3>. QED  BY <1>1, <1>2, <2>1, <3>1, <3>2
  <2>2. CASE u # t
    <3>1. pc[u] # "idle" /\ Target(event[u]) \in Service \X Host
      BY <1>1, <1>3, <1>4, <2>2
    <3>2. Target(event[u]) # p
      <4>1. ASSUME Target(event[u]) = p PROVE FALSE
        <5>1. InProgress(p)
          BY <3>1, <4>1 DEF InProgress
        <5>. QED  BY <1>1, <1>2, <1>4, <2>2, <4>1, <5>1
      <4>. QED  BY <4>1
    <3>3. said[Target(event[u])] # "raced"
      BY <1>1, <1>2, <1>4, <2>2, <3>1, <3>2
    <3>. QED
      BY <1>1, <1>2, <2>2, <3>1, <3>2, <3>3 DEF IInv, ViewButForTheEventInProgress
  <2>. QED  BY <2>1, <2>2
<1>5. ASSUME NEW r \in Service, NEW g \in Host, ~InProgress(<<r, g>>)'
      PROVE  /\ said'[<<r, g>>] = "online" => Known(r, g)'
             /\ said'[<<r, g>>] = "offline" => ~Known(r, g)'
  <2>1. \A u \in Callback : pc'[u] # "idle" => Target(event'[u]) # <<r, g>>
    BY <1>5 DEF InProgress, Target
  <2>2. <<r, g>> # p
    BY <1>1, <2>1
  <2>3. ~InProgress(<<r, g>>)
    BY <1>1, <2>1 DEF InProgress
  <2>. QED  BY <1>2, <2>2, <2>3 DEF IInv, ViewButForTheEventInProgress
<1>6. \A u \in Callback : Target(event'[u]) = Target(event[u])'
  BY DEF Target
<1>. HIDE DEF p
<1>. QED  BY <1>4, <1>5, <1>6 DEF ViewButForTheEventInProgress, Target

\* An event has been applied, or given up: what the hash table says of its host
\* is what the event said, unless another came in between.
LEMMA AppliedView ==
  ASSUME IInv, NEW t \in Callback, pc[t] \in Events,
         pc' = [pc EXCEPT ![t] = "idle"], event' = [event EXCEPT ![t] = NoEvent],
         NEW s \in Service, NEW h \in Host, Target(event[t]) = <<s, h>>,
         \/ said' = said
         \/ said' = [said EXCEPT ![<<s, h>>] = IF @ = "online" THEN "lost" ELSE @],
         pc[t] # "remove" /\ said'[<<s, h>>] = "online" => Known(s, h)',
         pc[t] = "remove" => ~Known(s, h)' /\ said' = said,
         \A r \in Service, g \in Host :
           <<r, g>> # <<s, h>> => (Known(r, g)' <=> Known(r, g))
  PROVE  ViewButForTheEventInProgress'
<1>1. /\ t \in Thread /\ Callback \subseteq Thread
      /\ pc'[t] = "idle"
      /\ \A u \in Callback \ {t} : pc'[u] = pc[u] /\ event'[u] = event[u]
  BY DEF IInv, TypeOK, Thread
<1>2. /\ \A q \in Service \X Host : q # <<s, h>> => said'[q] = said[q]
      /\ \/ said'[<<s, h>>] = said[<<s, h>>]
         \/ said[<<s, h>>] = "online" /\ said'[<<s, h>>] = "lost"
  <2>1. CASE said' = said
    BY <2>1
  <2>2. CASE said' = [said EXCEPT ![<<s, h>>] = IF @ = "online" THEN "lost" ELSE @]
    BY <2>2 DEF IInv, TypeOK
  <2>. QED  BY <2>1, <2>2
<1>3. \A u \in Callback : pc[u] # "idle" => Target(event[u]) \in Service \X Host
  <2>. SUFFICES ASSUME NEW u \in Callback, pc[u] # "idle"
                PROVE  Target(event[u]) \in Service \X Host
    OBVIOUS
  <2>1. pc[u] \in Events
    BY <1>1, ManagerAssumption DEF IInv, TypeOK, CallsOnTheirObject
  <2>2. event[u] \in Event /\ ServiceOf(event[u]) \in Service
    BY <1>1, <2>1 DEF IInv, CallsOnTheirObject
  <2>. QED  BY <2>2 DEF Target, ServiceOf, Event
<1>4. pc[t] # "idle"
  BY DEF Events
<1>5. ASSUME NEW u \in Callback, pc'[u] # "idle", said'[Target(event'[u])] # "raced"
      PROVE  /\ said'[Target(event'[u])] = IF pc'[u] = "remove" THEN "offline" ELSE "online"
             /\ \A v \in Callback :
                  pc'[v] # "idle" /\ Target(event'[v]) = Target(event'[u]) => v = u
  <2>1. u # t /\ pc[u] # "idle" /\ event'[u] = event[u] /\ pc'[u] = pc[u]
    BY <1>1, <1>5
  <2>2. said[Target(event[u])] # "raced"
    BY <1>2, <1>3, <1>5, <2>1
  <2>3. /\ said[Target(event[u])] = IF pc[u] = "remove" THEN "offline" ELSE "online"
        /\ \A v \in Callback :
             pc[v] # "idle" /\ Target(event[v]) = Target(event[u]) => v = u
    BY <2>1, <2>2 DEF IInv, ViewButForTheEventInProgress
  <2>4. Target(event[u]) # <<s, h>>
    BY <1>4, <2>1, <2>3
  <2>. QED  BY <1>1, <1>2, <1>3, <2>1, <2>3, <2>4
<1>6. ASSUME NEW r \in Service, NEW g \in Host, ~InProgress(<<r, g>>)'
      PROVE  /\ said'[<<r, g>>] = "online" => Known(r, g)'
             /\ said'[<<r, g>>] = "offline" => ~Known(r, g)'
  <2>1. CASE <<r, g>> = <<s, h>>
    <3>1. r = s /\ g = h
      BY <2>1
    <3>2. \/ said[<<s, h>>] = "raced"
          \/ said[<<s, h>>] = IF pc[t] = "remove" THEN "offline" ELSE "online"
      BY <1>4 DEF IInv, ViewButForTheEventInProgress
    <3>. QED  BY <1>2, <3>1, <3>2
  <2>2. CASE <<r, g>> # <<s, h>>
    <3>1. \A u \in Callback : pc'[u] # "idle" => Target(event'[u]) # <<r, g>>
      BY <1>6 DEF InProgress, Target
    <3>2. ~InProgress(<<r, g>>)
      BY <1>1, <2>2, <3>1 DEF InProgress
    <3>. QED  BY <1>2, <2>2, <3>2 DEF IInv, ViewButForTheEventInProgress
  <2>. QED  BY <2>1, <2>2
<1>. QED  BY <1>5, <1>6 DEF ViewButForTheEventInProgress, Target

\* declared() keeps it.
LEMMA DeclaredIInv ==
  ASSUME IInv, NEW t \in Client, NEW s \in Service, Declared(t, s)
  PROVE  IInv'
<1>1. /\ follow' = follow \cup {s}
      /\ UNCHANGED <<services, table, lock, pc, obj, event, new_ptr, asked,
                     chosen, origin, said>>
  BY DEF Declared, calls, history
<1>2. TypeOK' /\ OneObjectEach'
  BY <1>1 DEF IInv, TypeOK, OneObjectEach
<1>3. /\ (\A o \in Obj : Consistent(table[o]))'
      /\ CallsOnTheirObject' /\ PendingIsFresh'
  BY <1>1
  DEF IInv, CallsOnTheirObject, PendingIsFresh
<1>4. /\ ChannelsOfTheirService' /\ ChosenOfItsService' /\ SlotHasItsKey'
      /\ ViewButForTheEventInProgress'
  BY <1>1
  DEF IInv, ChannelsOfTheirService, ChosenOfItsService, SlotHasItsKey,
      ViewButForTheEventInProgress, Known, InProgress, Target
<1>. QED  BY <1>2, <1>3, <1>4 DEF IInv

\* An event of a service that is not followed, or has no object, keeps it.
LEMMA IgnoredIInv ==
  ASSUME IInv, NEW t \in Callback, NEW i \in Instance, NEW h \in Host,
         OnlineIgnored(t, i, h) \/ OfflineIgnored(t, i, h)
  PROVE  IInv'
<1>. DEFINE s == GetServiceName(i)
<1>1. /\ UNCHANGED <<follow, services, table, lock, pc, obj, event, new_ptr,
                     asked, chosen, origin>>
      /\ s \in Service
      /\ services[s] = NoObj
      /\ Noted(<<s, h>>, "lost") \/ Noted(<<s, h>>, "offline")
  BY DEF OnlineIgnored, OfflineIgnored, calls, IInv, OneObjectEach
<1>2. said' \in [Service \X Host -> {"online", "offline", "lost", "raced"}]
  BY <1>1 DEF Noted, IInv, TypeOK
<1>. HIDE DEF s
<1>3. TypeOK'
  BY <1>1, <1>2 DEF IInv, TypeOK
<1>4. /\ (\A o \in Obj : Consistent(table[o]))'
      /\ OneObjectEach' /\ CallsOnTheirObject'
      /\ PendingIsFresh'
  BY <1>1
  DEF IInv, CallsOnTheirObject, PendingIsFresh, OneObjectEach
<1>5. ChannelsOfTheirService' /\ ChosenOfItsService' /\ SlotHasItsKey'
  BY <1>1 DEF IInv, ChannelsOfTheirService, ChosenOfItsService, SlotHasItsKey
<1>6. ViewButForTheEventInProgress'
  <2>1. ASSUME NEW u \in Callback, pc[u] # "idle"
        PROVE  Target(event[u]) # <<s, h>> /\ Target(event[u]) \in Service \X Host
    <3>1. pc[u] \in Events
      BY <2>1, ManagerAssumption DEF IInv, TypeOK, CallsOnTheirObject, Thread
    <3>2. /\ event[u] \in Event /\ ServiceOf(event[u]) \in Service
          /\ services[ServiceOf(event[u])] # NoObj
      BY <2>1, <3>1, ManagerAssumption DEF IInv, CallsOnTheirObject, Thread
    <3>. QED  BY <1>1, <3>2 DEF Target, ServiceOf, Event
  <2>2. ~Known(s, h)
    BY <1>1 DEF Known
  <2>3. /\ \A q \in Service \X Host : q # <<s, h>> => said'[q] = said[q]
        /\ said'[<<s, h>>] \in {"lost", "offline"}
    BY <1>1, <2>1 DEF Noted, InProgress, IInv, TypeOK
  <2>4. \A r \in Service, g \in Host :
          (Known(r, g)' <=> Known(r, g)) /\ (InProgress(<<r, g>>)' <=> InProgress(<<r, g>>))
    BY <1>1 DEF Known, InProgress, Target
  <2>5. \A u \in Callback : Target(event[u])' = Target(event[u]) /\ pc'[u] = pc[u]
    BY <1>1 DEF Target
  <2>6. ASSUME NEW r \in Service, NEW g \in Host, ~InProgress(<<r, g>>)
        PROVE  /\ said'[<<r, g>>] = "online" => Known(r, g)
               /\ said'[<<r, g>>] = "offline" => ~Known(r, g)
    <3>1. CASE <<r, g>> = <<s, h>>
      BY <2>2, <2>3, <3>1
    <3>2. CASE <<r, g>> # <<s, h>>
      BY <2>3, <2>6, <3>2 DEF IInv, ViewButForTheEventInProgress
    <3>. QED  BY <3>1, <3>2
  <2>7. ASSUME NEW u \in Callback, pc[u] # "idle", said'[Target(event[u])] # "raced"
        PROVE  /\ said'[Target(event[u])] = IF pc[u] = "remove" THEN "offline" ELSE "online"
               /\ \A v \in Callback :
                    pc[v] # "idle" /\ Target(event[v]) = Target(event[u]) => v = u
    BY <2>1, <2>3, <2>7 DEF IInv, ViewButForTheEventInProgress
  <2>. QED
    BY <2>4, <2>5, <2>6, <2>7 DEF ViewButForTheEventInProgress
<1>. QED  BY <1>3, <1>4, <1>5, <1>6 DEF IInv

\* Looking up, or making, the object of an event that says online keeps it.
LEMMA OnlineLookupIInv ==
  ASSUME IInv, NEW t \in Callback, NEW i \in Instance, NEW h \in Host,
         OnlineLookup(t, i, h)
  PROVE  IInv'
<1>. DEFINE s == GetServiceName(i)
<1>1. PICK o \in Obj :
        /\ services[s] = o \/ (services[s] = NoObj /\ o \in Unmade)
        /\ services' = [services EXCEPT ![s] = o]
        /\ Enter(t, "append", o, <<i, h>>)
  BY DEF OnlineLookup, Unmade, IInv, TypeOK
<1>2. /\ pc[t] = "idle" /\ lock = Free /\ s \in follow /\ s \in Service
      /\ Noted(<<s, h>>, "online")
      /\ UNCHANGED <<follow, table, lock, new_ptr, asked, chosen, origin>>
  BY DEF OnlineLookup, Idle, IInv, TypeOK
<1>3. PICK e \in Event : e = <<i, h>> /\ ServiceOf(e) = s /\ Target(e) = <<s, h>>
  <2>1. <<i, h>> \in Event
    BY DEF Event
  <2>2. ServiceOf(<<i, h>>) = s /\ Target(<<i, h>>) = <<s, h>>
    BY DEF ServiceOf, Target
  <2>. QED  BY <2>1, <2>2
<1>4. /\ pc' = [pc EXCEPT ![t] = "append"]
      /\ obj' = [obj EXCEPT ![t] = o]
      /\ event' = [event EXCEPT ![t] = e]
  BY <1>1, <1>3 DEF Enter
<1>5. t \in Thread /\ t \notin Client
  BY ManagerAssumption DEF Thread
<1>. HIDE DEF s
<1>6. TypeOK'
  BY <1>1, <1>2, <1>4, <1>5 DEF IInv, TypeOK, Events, Noted
<1>7. services[s] = NoObj => /\ table[o] = NewTable
                            /\ \A r \in Service : services[r] # o
                            /\ \A u \in Thread : obj[u] # o
  <2>. SUFFICES ASSUME services[s] = NoObj
                PROVE  /\ table[o] = NewTable
                       /\ \A r \in Service : services[r] # o
                       /\ \A u \in Thread : obj[u] # o
    OBVIOUS
  <2>1. o \in Unmade
    BY <1>1, ManagerAssumption
  <2>2. \A r \in Service : services[r] # o
    BY <2>1 DEF Unmade
  <2>. QED  BY <2>1, <2>2 DEF IInv, OneObjectEach, Unmade
<1>8. \A r \in Service : services[r] # NoObj => services'[r] = services[r]
  BY <1>1, <1>2 DEF IInv, TypeOK
<1>9. (\A p \in Obj : Consistent(table[p]))' /\ OneObjectEach'
  <2>1. (\A p \in Obj : Consistent(table[p]))'
    BY <1>2 DEF IInv
  <2>2. (\A q, r \in Service : services[q] = services[r] /\ services[q] # NoObj
                                => q = r)'
    BY <1>1, <1>2, <1>7 DEF IInv, OneObjectEach, TypeOK
  <2>3. (\A r \in Service : services[r] # NoObj => r \in follow)'
    BY <1>1, <1>2 DEF IInv, OneObjectEach, TypeOK
  <2>4. ASSUME NEW p \in Obj, table[p] # NewTable
        PROVE  \E r \in Service : services'[r] = p
    <3>1. PICK r \in Service : services[r] = p
      BY <2>4 DEF IInv, OneObjectEach
    <3>. QED  BY <1>8, <3>1, ManagerAssumption
  <2>. QED  BY <1>2, <2>1, <2>2, <2>3, <2>4 DEF OneObjectEach
<1>10. CallsOnTheirObject'
  BY <1>1, <1>2, <1>3, <1>4, <1>5, <1>8, ManagerAssumption
  DEF IInv, CallsOnTheirObject, TypeOK, Events
<1>11. PendingIsFresh'
  BY <1>2, <1>4, <1>5 DEF IInv, PendingIsFresh, TypeOK
<1>12. ChannelsOfTheirService' /\ ChosenOfItsService' /\ SlotHasItsKey'
  BY <1>2, <1>8, ManagerAssumption
  DEF IInv, ChannelsOfTheirService, ChosenOfItsService, SlotHasItsKey
<1>13. ViewButForTheEventInProgress'
  <2>1. ASSUME NEW r \in Service, NEW g \in Host PROVE Known(r, g)' <=> Known(r, g)
    BY <1>1, <1>2, <1>7 DEF Known, NewTable, IInv, TypeOK
  <2>2. Target(e) \in Service \X Host
    BY <1>2, <1>3
  <2>3. Noted(Target(e), IF "append" = "remove" THEN "offline" ELSE "online")
    BY <1>2, <1>3
  <2>. QED  BY <1>2, <1>4, <2>1, <2>2, <2>3, LookedUpView
<1>. QED  BY <1>6, <1>9, <1>10, <1>11, <1>12, <1>13 DEF IInv

\* Building the channel keeps it.
LEMMA AppendCreateIInv ==
  ASSUME IInv, NEW t \in Thread, NEW c \in Channel, AppendCreate(t, c)
  PROVE  IInv'
<1>1. /\ pc[t] = "append" /\ origin[c] = NoEvent
      /\ origin' = [origin EXCEPT ![c] = event[t]]
      /\ new_ptr' = [new_ptr EXCEPT ![t] = c]
      /\ pc' = [pc EXCEPT ![t] = "insert"]
      /\ UNCHANGED <<follow, services, table, lock, obj, event, asked, chosen, said>>
  BY DEF AppendCreate
<1>2. t \in Callback /\ t \notin Client /\ event[t] \in Event /\ NoEvent \notin Event
  BY <1>1, ManagerAssumption DEF IInv, CallsOnTheirObject, Events
<1>3. TypeOK'
  BY <1>1, <1>2 DEF IInv, TypeOK, Events
<1>4. /\ (\A o \in Obj : Consistent(table[o]))'
      /\ OneObjectEach' /\ CallsOnTheirObject'
  BY <1>1 DEF IInv, OneObjectEach, CallsOnTheirObject, TypeOK, Events
<1>5. \A o \in Obj : c \notin Range(table[o].array) \cup table[o].erased
  BY <1>1, <1>2 DEF IInv, ChannelsOfTheirService
<1>6. \A o \in Obj : Range(table[o].array) \cup table[o].erased \subseteq Channel
  BY TableFields DEF IInv, TypeOK
<1>7. \A u \in Thread : new_ptr[u] # c
  <2>. SUFFICES ASSUME NEW u \in Thread, new_ptr[u] = c PROVE FALSE
    OBVIOUS
  <2>1. pc[u] = "insert" /\ origin[c] = event[u]
    BY NoChannelAssumption DEF IInv, PendingIsFresh
  <2>2. event[u] \in Event
    BY <2>1 DEF IInv, CallsOnTheirObject, Events
  <2>. QED  BY <1>1, <1>2, <2>1, <2>2
<1>8. PendingIsFresh'
  BY <1>1, <1>5, <1>7, NoChannelAssumption DEF IInv, PendingIsFresh, TypeOK
<1>9. ChannelsOfTheirService' /\ SlotHasItsKey'
  BY <1>1, <1>5, <1>6
  DEF IInv, ChannelsOfTheirService, SlotHasItsKey, TypeOK
<1>10. ChosenOfItsService'
  BY <1>1, <1>2 DEF IInv, ChosenOfItsService, TypeOK
<1>11. ViewButForTheEventInProgress'
  BY <1>1, <1>2
  DEF IInv, ViewButForTheEventInProgress, TypeOK, Known, Thread, InProgress, Target
<1>. QED  BY <1>3, <1>4, <1>8, <1>9, <1>10, <1>11 DEF IInv

\* A channel that cannot be built keeps it.
LEMMA AppendFailIInv ==
  ASSUME IInv, NEW t \in Thread, AppendFail(t)
  PROVE  IInv'
<1>1. /\ pc[t] = "append"
      /\ pc' = [pc EXCEPT ![t] = "idle"]
      /\ obj' = [obj EXCEPT ![t] = NoObj]
      /\ event' = [event EXCEPT ![t] = NoEvent]
      /\ said' = [said EXCEPT ![Target(event[t])] = IF @ = "online" THEN "lost" ELSE @]
      /\ UNCHANGED <<follow, services, table, lock, new_ptr, asked, chosen, origin>>
  BY DEF AppendFail, Return, Enter
<1>2. /\ t \in Callback /\ t \notin Client
      /\ event[t] \in Event /\ ServiceOf(event[t]) \in Service
  BY <1>1, ManagerAssumption DEF IInv, CallsOnTheirObject, Events
<1>3. TypeOK'
  <2>1. Target(event[t]) \in Service \X Host
    BY <1>2 DEF Target, ServiceOf, Event
  <2>. QED  BY <1>1, <2>1 DEF IInv, TypeOK
<1>4. /\ (\A o \in Obj : Consistent(table[o]))'
      /\ OneObjectEach' /\ CallsOnTheirObject'
  BY <1>1 DEF IInv, OneObjectEach, CallsOnTheirObject, TypeOK, Events
<1>5. PendingIsFresh'
  BY <1>1 DEF IInv, PendingIsFresh, TypeOK
<1>6. ChannelsOfTheirService' /\ SlotHasItsKey' /\ ChosenOfItsService'
  BY <1>1 DEF IInv, ChannelsOfTheirService, SlotHasItsKey, ChosenOfItsService
<1>7. ViewButForTheEventInProgress'
  <2>1. PICK s \in Service, h \in Host : Target(event[t]) = <<s, h>>
    BY <1>2 DEF Target, ServiceOf, Event
  <2>2. \A r \in Service, g \in Host : Known(r, g)' <=> Known(r, g)
    BY <1>1 DEF Known
  <2>3. said' = [said EXCEPT ![<<s, h>>] = IF @ = "online" THEN "lost" ELSE @]
    BY <1>1, <2>1
  <2>4. said'[<<s, h>>] # "online" /\ pc[t] \in Events /\ pc[t] # "remove"
    BY <1>1, <2>3 DEF IInv, TypeOK, Events
  <2>. QED  BY <1>1, <1>2, <2>1, <2>2, <2>3, <2>4, AppliedView
<1>. QED  BY <1>3, <1>4, <1>5, <1>6, <1>7 DEF IInv

\* Storing the channel keeps it.
LEMMA AppendInsertIInv ==
  ASSUME IInv, NEW t \in Thread, AppendInsert(t)
  PROVE  IInv'
<1>1. PICK e \in Event, o \in Obj, c \in Channel, h \in Host :
        e = event[t] /\ o = obj[t] /\ c = new_ptr[t] /\ h = e[2]
  BY DEF AppendInsert, IInv, CallsOnTheirObject, PendingIsFresh, Events, Event
<1>2. PICK new : new = PushBack(table[o], h, c)
  OBVIOUS
<1>3. /\ pc[t] = "insert"
      /\ table' = [table EXCEPT ![o] = new]
      /\ new_ptr' = [new_ptr EXCEPT ![t] = NoChannel]
      /\ pc' = [pc EXCEPT ![t] = "idle"]
      /\ obj' = [obj EXCEPT ![t] = NoObj]
      /\ event' = [event EXCEPT ![t] = NoEvent]
      /\ UNCHANGED <<follow, services, lock, asked, chosen, origin, said>>
  BY <1>1, <1>2 DEF AppendInsert, Return, Enter, history
<1>4. /\ t \in Callback /\ t \notin Client
      /\ ServiceOf(e) \in Service /\ services[ServiceOf(e)] = o
      /\ origin[c] = e
      /\ \A p \in Obj : c \notin Range(table[p].array) \cup table[p].erased
  BY <1>1, <1>3, ManagerAssumption
  DEF IInv, CallsOnTheirObject, PendingIsFresh, Events
<1>5. Consistent(table[o]) /\ table[o] \in Table
  BY DEF IInv, TypeOK
<1>6. /\ Consistent(new) /\ new \in Table
      /\ Range(new.array) = Range(table[o].array) \cup {c}
      /\ new.hosts = [table[o].hosts EXCEPT ![h] = c]
      /\ new.erased = table[o].erased
      /\ new.reappended = IF table[o].hosts[h] = NoChannel
                          THEN table[o].reappended
                          ELSE table[o].reappended \cup {h}
  BY <1>2, <1>4, <1>5, PushBackProperties, PushBackConsistent DEF PushBack
<1>7. /\ table[o].hosts \in [Host -> Channel \cup {NoChannel}]
      /\ Range(table[o].array) \subseteq Channel
  BY <1>5, TableFields
<1>8. /\ table \in [Obj -> Table] /\ table'[o] = new
      /\ \A p \in Obj : p # o => table'[p] = table[p]
  BY <1>3 DEF IInv, TypeOK
<1>9. TypeOK'
  BY <1>3, <1>6 DEF IInv, TypeOK
<1>10. /\ (\A p \in Obj : Consistent(table[p]))'
       /\ OneObjectEach'
  BY <1>3, <1>4, <1>6, <1>8 DEF IInv, OneObjectEach
<1>11. CallsOnTheirObject'
  BY <1>3 DEF IInv, CallsOnTheirObject, TypeOK, Events
<1>12. PendingIsFresh'
  <2>. SUFFICES ASSUME NEW u \in Thread, u # t, pc[u] = "insert"
                PROVE  /\ new_ptr[u] \in Channel
                       /\ origin[new_ptr[u]] = event[u]
                       /\ \A p \in Obj :
                            new_ptr[u] \notin Range(table'[p].array)
                                                \cup table'[p].erased
                       /\ \A v \in Thread : new_ptr'[v] = new_ptr[u] => v = u
    BY <1>3, <1>9 DEF IInv, PendingIsFresh, TypeOK
  <2>1. /\ new_ptr[u] \in Channel
        /\ origin[new_ptr[u]] = event[u]
        /\ \A p \in Obj : new_ptr[u] \notin Range(table[p].array) \cup table[p].erased
        /\ \A v \in Thread : new_ptr[v] = new_ptr[u] => v = u
    BY DEF IInv, PendingIsFresh
  <2>2. new_ptr[u] # c
    BY <1>1, <2>1
  <2>3. \A v \in Thread : new_ptr'[v] = new_ptr[u] => v = u
    BY <1>3, <2>1, NoChannelAssumption DEF IInv, TypeOK
  <2>. QED  BY <1>6, <1>8, <2>1, <2>2, <2>3
<1>13. ChannelsOfTheirService'
  BY <1>3, <1>4, <1>6, <1>8 DEF IInv, ChannelsOfTheirService
<1>14. ChosenOfItsService'
  BY <1>3 DEF IInv, ChosenOfItsService
<1>15. SlotHasItsKey'
  <2>. SUFFICES ASSUME NEW d \in Range(new.array)
                PROVE  \/ new.hosts[origin[d][2]] = d
                       \/ origin[d][2] \in new.reappended
    BY <1>3, <1>8 DEF IInv, SlotHasItsKey
  <2>1. CASE d = c
    BY <1>1, <1>4, <1>6, <1>7, <2>1
  <2>2. CASE d # c
    <3>1. d \in Range(table[o].array)
      BY <1>6, <2>2
    <3>2. PICK g \in Host : g = origin[d][2]
      BY <3>1 DEF IInv, ChannelsOfTheirService, Event
    <3>3. table[o].hosts[g] = d \/ g \in table[o].reappended
      BY <3>1, <3>2 DEF IInv, SlotHasItsKey
    <3>4. d # NoChannel
      BY <1>7, <3>1, NoChannelAssumption
    <3>. QED  BY <1>6, <1>7, <3>2, <3>3, <3>4
  <2>. QED  BY <2>1, <2>2
<1>16. ViewButForTheEventInProgress'
  <2>. DEFINE s == ServiceOf(e)
  <2>1. s \in Service /\ Target(event[t]) = <<s, h>>
    BY <1>1, <1>4 DEF Target, ServiceOf
  <2>2. Known(s, h)'
    <3>1. services'[s] = o /\ o # NoObj /\ table'[o].hosts[h] = c
      BY <1>3, <1>4, <1>6, <1>7, <1>8, ManagerAssumption
    <3>. QED  BY <3>1, NoChannelAssumption DEF Known
  <2>. HIDE DEF s
  <2>3. ASSUME NEW r \in Service, NEW g \in Host, <<r, g>> # <<s, h>>
        PROVE  Known(r, g)' <=> Known(r, g)
    <3>1. CASE services[r] = o
      <4>1. r = s
        BY <1>4, <3>1, ManagerAssumption DEF IInv, OneObjectEach, s
      <4>2. g # h
        BY <2>3, <4>1
      <4>. QED  BY <1>3, <1>6, <1>7, <1>8, <3>1, <4>2 DEF Known
    <3>2. CASE services[r] # o
      BY <1>3, <1>8, <3>2 DEF Known, IInv, TypeOK
    <3>. QED  BY <3>1, <3>2
  <2>4. pc[t] \in Events /\ pc[t] # "remove"
    BY <1>3 DEF Events
  <2>. QED  BY <1>3, <1>4, <2>1, <2>2, <2>3, <2>4, AppliedView
<1>. QED
  BY <1>9, <1>10, <1>11, <1>12, <1>13, <1>14, <1>15, <1>16 DEF IInv

\* Looking up the object of an event that says offline keeps it.
LEMMA OfflineLookupIInv ==
  ASSUME IInv, NEW t \in Callback, NEW i \in Instance, NEW h \in Host,
         OfflineLookup(t, i, h)
  PROVE  IInv'
<1>. DEFINE s == GetServiceName(i)
<1>1. PICK e \in Event : e = <<i, h>> /\ ServiceOf(e) = s /\ Target(e) = <<s, h>>
  <2>1. <<i, h>> \in Event
    BY DEF Event
  <2>2. ServiceOf(<<i, h>>) = s /\ Target(<<i, h>>) = <<s, h>>
    BY DEF ServiceOf, Target
  <2>. QED  BY <2>1, <2>2
<1>2. /\ pc[t] = "idle" /\ lock = Free /\ s \in Service
      /\ services[s] \in Obj
      /\ pc' = [pc EXCEPT ![t] = "remove"]
      /\ obj' = [obj EXCEPT ![t] = services[s]]
      /\ event' = [event EXCEPT ![t] = e]
      /\ Noted(<<s, h>>, "offline")
      /\ UNCHANGED <<follow, services, table, lock, new_ptr, asked, chosen,
                     origin>>
  BY <1>1 DEF OfflineLookup, Idle, Enter, IInv, TypeOK
<1>3. t \in Thread /\ t \notin Client
  BY ManagerAssumption DEF Thread
<1>. HIDE DEF s
<1>4. TypeOK'
  BY <1>2, <1>3 DEF IInv, TypeOK, Events, Noted
<1>5. (\A p \in Obj : Consistent(table[p]))' /\ OneObjectEach'
  BY <1>2 DEF IInv, OneObjectEach
<1>6. CallsOnTheirObject'
  BY <1>1, <1>2, <1>3 DEF IInv, CallsOnTheirObject, TypeOK, Events
<1>7. PendingIsFresh'
  BY <1>2, <1>3 DEF IInv, PendingIsFresh, TypeOK
<1>8. ChannelsOfTheirService' /\ ChosenOfItsService' /\ SlotHasItsKey'
  BY <1>2 DEF IInv, ChannelsOfTheirService, ChosenOfItsService, SlotHasItsKey
<1>9. ViewButForTheEventInProgress'
  <2>1. ASSUME NEW r \in Service, NEW g \in Host PROVE Known(r, g)' <=> Known(r, g)
    BY <1>2 DEF Known
  <2>2. Target(e) \in Service \X Host
    BY <1>1, <1>2
  <2>3. Noted(Target(e), IF "remove" = "remove" THEN "offline" ELSE "online")
    BY <1>1, <1>2
  <2>. QED  BY <1>2, <2>1, <2>2, <2>3, LookedUpView
<1>. QED  BY <1>4, <1>5, <1>6, <1>7, <1>8, <1>9 DEF IInv

\* Taking a host out of its object keeps it.
LEMMA RemoveHostIInv ==
  ASSUME IInv, NEW t \in Thread, RemoveHost(t)
  PROVE  IInv'
<1>1. PICK e \in Event, o \in Obj, h \in Host :
        e = event[t] /\ o = obj[t] /\ h = e[2]
  BY DEF RemoveHost, IInv, CallsOnTheirObject, Events, Event
<1>2. PICK new : new = Erase(table[o], h)
  OBVIOUS
<1>3. /\ pc[t] = "remove"
      /\ table' = [table EXCEPT ![o] = new]
      /\ pc' = [pc EXCEPT ![t] = "idle"]
      /\ obj' = [obj EXCEPT ![t] = NoObj]
      /\ event' = [event EXCEPT ![t] = NoEvent]
      /\ UNCHANGED <<follow, services, lock, new_ptr, asked, chosen, origin,
                     said>>
  BY <1>1, <1>2 DEF RemoveHost, Return, Enter, history
<1>4. /\ t \in Callback /\ t \notin Client
      /\ ServiceOf(e) \in Service /\ services[ServiceOf(e)] = o
  BY <1>1, <1>3, ManagerAssumption DEF IInv, CallsOnTheirObject, Events
<1>5. /\ Consistent(table[o]) /\ table[o] \in Table
      /\ table[o].hosts \in [Host -> Channel \cup {NoChannel}]
      /\ Range(table[o].array) \subseteq Channel
  BY TableFields DEF IInv, TypeOK
<1>6. /\ Consistent(new) /\ new \in Table
      /\ Range(new.array) \subseteq Range(table[o].array)
      /\ Range(new.array) \cup new.erased
            \subseteq Range(table[o].array) \cup table[o].erased
      /\ table[o].hosts[h] \notin Range(new.array)
      /\ new.hosts = [table[o].hosts EXCEPT ![h] = NoChannel]
      /\ new.reappended = table[o].reappended
  <2>1. CASE table[o].hosts[h] \notin Range(table[o].array)
    <3>1. new = table[o]
      BY <1>2, <2>1, EraseNothing
    <3>2. table[o].hosts[h] = NoChannel
      BY <1>5, <2>1 DEF Consistent, RotationConsistent, HostsHaveSlots
    <3>. QED  BY <1>5, <2>1, <3>1, <3>2
  <2>2. CASE table[o].hosts[h] \in Range(table[o].array)
    <3>1. Consistent(new)
      BY <1>2, <1>5, EraseConsistent
    <3>2. NoDoubleSlot(table[o])
      BY <1>5 DEF Consistent, RotationConsistent
    <3>3. /\ Range(new.array) = Range(table[o].array) \ {table[o].hosts[h]}
          /\ new.hosts = [table[o].hosts EXCEPT ![h] = NoChannel]
          /\ new.erased = table[o].erased \cup {table[o].hosts[h]}
          /\ new.reappended = table[o].reappended
      BY <1>2, <1>5, <2>2, <3>2, EraseProperties
    <3>. QED  BY <2>2, <3>1, <3>3 DEF Consistent, RotationConsistent
  <2>. QED  BY <2>1, <2>2
<1>7. /\ table \in [Obj -> Table] /\ table'[o] = new
      /\ \A p \in Obj : p # o => table'[p] = table[p]
  BY <1>3 DEF IInv, TypeOK
<1>8. TypeOK'
  BY <1>3, <1>6 DEF IInv, TypeOK
<1>9. /\ (\A p \in Obj : Consistent(table[p]))'
      /\ OneObjectEach'
  BY <1>3, <1>4, <1>6, <1>7 DEF IInv, OneObjectEach
<1>10. CallsOnTheirObject'
  BY <1>3 DEF IInv, CallsOnTheirObject, TypeOK, Events
<1>11. PendingIsFresh'
  BY <1>3, <1>6, <1>7 DEF IInv, PendingIsFresh, TypeOK
<1>12. ChannelsOfTheirService' /\ ChosenOfItsService'
  BY <1>3, <1>6, <1>7 DEF IInv, ChannelsOfTheirService, ChosenOfItsService
<1>13. SlotHasItsKey'
  <2>. SUFFICES ASSUME NEW d \in Range(new.array)
                PROVE  \/ new.hosts[origin[d][2]] = d
                       \/ origin[d][2] \in new.reappended
    BY <1>3, <1>7 DEF IInv, SlotHasItsKey
  <2>1. PICK g \in Host : g = origin[d][2]
    BY <1>6 DEF IInv, ChannelsOfTheirService, Event
  <2>2. table[o].hosts[g] = d \/ g \in table[o].reappended
    BY <1>6, <2>1 DEF IInv, SlotHasItsKey
  <2>. QED  BY <1>5, <1>6, <2>1, <2>2
<1>14. ViewButForTheEventInProgress'
  <2>. DEFINE s == ServiceOf(e)
  <2>1. s \in Service /\ Target(event[t]) = <<s, h>>
    BY <1>1, <1>4 DEF Target, ServiceOf
  <2>2. ~Known(s, h)'
    BY <1>3, <1>4, <1>5, <1>6, <1>7 DEF Known
  <2>. HIDE DEF s
  <2>3. ASSUME NEW r \in Service, NEW g \in Host, <<r, g>> # <<s, h>>
        PROVE  Known(r, g)' <=> Known(r, g)
    <3>1. CASE services[r] = o
      <4>1. r = s
        BY <1>4, <3>1, ManagerAssumption DEF IInv, OneObjectEach, s
      <4>2. g # h
        BY <2>3, <4>1
      <4>. QED  BY <1>3, <1>5, <1>6, <1>7, <3>1, <4>2 DEF Known
    <3>2. CASE services[r] # o
      BY <1>3, <1>7, <3>2 DEF Known, IInv, TypeOK
    <3>. QED  BY <3>1, <3>2
  <2>4. pc[t] \in Events
    BY <1>3 DEF Events
  <2>. QED  BY <1>3, <1>4, <2>1, <2>2, <2>3, <2>4, AppliedView
<1>. QED
  BY <1>8, <1>9, <1>10, <1>11, <1>12, <1>13, <1>14 DEF IInv

\* choose() of a service without an object keeps it.
LEMMA ChooseNoneIInv ==
  ASSUME IInv, NEW t \in Client, NEW s \in Service, ChooseNone(t, s)
  PROVE  IInv'
<1>1. /\ asked' = [asked EXCEPT ![t] = s]
      /\ chosen' = [chosen EXCEPT ![t] = NoChannel]
      /\ pc[t] = "idle"
      /\ UNCHANGED <<follow, services, table, lock, pc, obj, event, new_ptr,
                     origin, said>>
  BY DEF ChooseNone, Idle, history
<1>2. TypeOK'
  BY <1>1 DEF IInv, TypeOK
<1>3. CallsOnTheirObject'
  BY <1>1 DEF IInv, CallsOnTheirObject, TypeOK
<1>4. ChosenOfItsService'
  BY <1>1 DEF IInv, ChosenOfItsService, TypeOK
<1>5. /\ (\A o \in Obj : Consistent(table[o]))'
      /\ OneObjectEach' /\ PendingIsFresh'
  BY <1>1 DEF IInv, OneObjectEach, PendingIsFresh
<1>6. /\ ChannelsOfTheirService' /\ SlotHasItsKey'
      /\ ViewButForTheEventInProgress'
  BY <1>1
  DEF IInv, ChannelsOfTheirService, SlotHasItsKey,
      ViewButForTheEventInProgress, Known, InProgress, Target
<1>. QED  BY <1>2, <1>3, <1>4, <1>5, <1>6 DEF IInv

\* choose() that finds an object and keeps the mutex keeps it.
LEMMA ChooseFindIInv ==
  ASSUME IInv, NEW t \in Client, NEW s \in Service, ChooseFind(t, s)
  PROVE  IInv'
<1>1. /\ pc[t] = "idle" /\ lock = Free /\ services[s] \in Obj
      /\ lock' = t
      /\ pc' = [pc EXCEPT ![t] = "serve"]
      /\ obj' = [obj EXCEPT ![t] = services[s]]
      /\ event' = [event EXCEPT ![t] = NoEvent]
      /\ asked' = [asked EXCEPT ![t] = s]
      /\ chosen' = [chosen EXCEPT ![t] = NoChannel]
      /\ UNCHANGED <<follow, services, table, new_ptr, origin, said>>
  BY DEF ChooseFind, Idle, Enter, history, IInv, TypeOK
<1>2. t \in Thread /\ t \notin Callback
  BY ManagerAssumption DEF Thread
<1>3. TypeOK'
  BY <1>1, <1>2 DEF IInv, TypeOK, Events
<1>4. CallsOnTheirObject'
  BY <1>1, <1>2 DEF IInv, CallsOnTheirObject, TypeOK, Events
<1>5. ChosenOfItsService'
  BY <1>1 DEF IInv, ChosenOfItsService, TypeOK
<1>6. PendingIsFresh'
  BY <1>1, <1>2 DEF IInv, PendingIsFresh, TypeOK
<1>7. (\A o \in Obj : Consistent(table[o]))' /\ OneObjectEach'
  BY <1>1 DEF IInv, OneObjectEach
<1>8. ChannelsOfTheirService' /\ SlotHasItsKey'
  BY <1>1 DEF IInv, ChannelsOfTheirService, SlotHasItsKey
<1>9. ViewButForTheEventInProgress'
  BY <1>1, <1>2
  DEF IInv, ViewButForTheEventInProgress, Known, TypeOK, Thread, InProgress, Target
<1>. QED
  BY <1>3, <1>4, <1>5, <1>6, <1>7, <1>8, <1>9 DEF IInv

\* choose() of the object, and the release of the mutex, keep it.
LEMMA ChooseServeIInv ==
  ASSUME IInv, NEW t \in Thread, ChooseServe(t)
  PROVE  IInv'
<1>1. PICK o \in Obj : o = obj[t]
  BY DEF ChooseServe, IInv, CallsOnTheirObject
<1>2. PICK new : new = Advance(table[o])
  OBVIOUS
<1>3. /\ pc[t] = "serve"
      /\ chosen' = [chosen EXCEPT ![t] = Chosen(table[o])]
      /\ table' = [table EXCEPT ![o] = new]
      /\ lock' = Free
      /\ pc' = [pc EXCEPT ![t] = "idle"]
      /\ obj' = [obj EXCEPT ![t] = NoObj]
      /\ event' = [event EXCEPT ![t] = NoEvent]
      /\ UNCHANGED <<follow, services, new_ptr, asked, origin, said>>
  BY <1>1, <1>2 DEF ChooseServe, Return, Enter, history
<1>4. /\ t \in Client /\ t \notin Callback
      /\ asked[t] \in Service /\ services[asked[t]] = o
  BY <1>1, <1>3, ManagerAssumption DEF IInv, CallsOnTheirObject
<1>5. Consistent(table[o]) /\ table[o] \in Table
  BY DEF IInv, TypeOK
<1>6. /\ Consistent(new) /\ new \in Table
      /\ new.array = table[o].array /\ new.erased = table[o].erased
      /\ new.hosts = table[o].hosts /\ new.reappended = table[o].reappended
  <2>1. Consistent(new)
    BY <1>2, <1>5, AdvanceConsistent
  <2>2. CASE table[o].array = << >>
    BY <1>2, <1>5, <2>1, <2>2, AdvanceNothing
  <2>3. CASE table[o].array # << >>
    BY <1>2, <1>5, <2>1, <2>3, AdvanceProperties
  <2>. QED  BY <2>2, <2>3
<1>7. /\ table \in [Obj -> Table] /\ table'[o] = new
      /\ \A p \in Obj : p # o => table'[p] = table[p]
  BY <1>3 DEF IInv, TypeOK
<1>8. /\ Chosen(table[o]) \in Channel \cup {NoChannel}
      /\ Chosen(table[o]) # NoChannel =>
           Chosen(table[o]) \in Range(table[o].array) \cup table[o].erased
  BY <1>5, ChosenProperties DEF Consistent
<1>9. TypeOK'
  BY <1>3, <1>6, <1>8 DEF IInv, TypeOK
<1>10. /\ (\A p \in Obj : Consistent(table[p]))'
       /\ OneObjectEach'
  BY <1>3, <1>4, <1>6, <1>7 DEF IInv, OneObjectEach
<1>11. CallsOnTheirObject'
  BY <1>3 DEF IInv, CallsOnTheirObject, TypeOK, Events
<1>12. PendingIsFresh'
  BY <1>3, <1>6, <1>7 DEF IInv, PendingIsFresh, TypeOK
<1>13. ChannelsOfTheirService' /\ SlotHasItsKey'
  BY <1>3, <1>6, <1>7 DEF IInv, ChannelsOfTheirService, SlotHasItsKey
<1>14. ChosenOfItsService'
  <2>1. ASSUME Chosen(table[o]) # NoChannel
        PROVE  /\ origin[Chosen(table[o])] \in Event
               /\ ServiceOf(origin[Chosen(table[o])]) = asked[t]
    <3>1. /\ origin[Chosen(table[o])] \in Event
          /\ ServiceOf(origin[Chosen(table[o])]) \in Service
          /\ services[ServiceOf(origin[Chosen(table[o])])] = o
      BY <1>8, <2>1 DEF IInv, ChannelsOfTheirService
    <3>. QED  BY <1>4, <3>1, ManagerAssumption DEF IInv, OneObjectEach
  <2>. QED  BY <1>3, <1>4, <2>1 DEF IInv, ChosenOfItsService, TypeOK
<1>15. ViewButForTheEventInProgress'
  <2>1. \A r \in Service, g \in Host : Known(r, g)' <=> Known(r, g)
    BY <1>3, <1>6, <1>7 DEF Known, IInv, TypeOK
  <2>. QED
    BY <1>3, <1>4, <2>1
    DEF IInv, ViewButForTheEventInProgress, TypeOK, Thread, InProgress, Target
<1>. QED
  BY <1>9, <1>10, <1>11, <1>12, <1>13, <1>14, <1>15 DEF IInv

\* So does a stuttering step.
LEMMA StutterIInv ==
  ASSUME IInv, UNCHANGED vars
  PROVE  IInv'
<1>1. UNCHANGED <<follow, services, table, lock, pc, obj, event, new_ptr,
                  asked, chosen, origin, said>>
  BY DEF vars, calls, history
<1>2. TypeOK'
  BY <1>1 DEF IInv, TypeOK
<1>3. /\ (\A o \in Obj : Consistent(table[o]))'
      /\ OneObjectEach' /\ CallsOnTheirObject'
      /\ PendingIsFresh'
  BY <1>1
  DEF IInv, OneObjectEach, CallsOnTheirObject, PendingIsFresh
<1>4. /\ ChannelsOfTheirService' /\ ChosenOfItsService' /\ SlotHasItsKey'
      /\ ViewButForTheEventInProgress'
  BY <1>1
  DEF IInv, ChannelsOfTheirService, ChosenOfItsService, SlotHasItsKey,
      ViewButForTheEventInProgress, Known, InProgress, Target
<1>. QED  BY <1>2, <1>3, <1>4 DEF IInv

\* Every step keeps it.
LEMMA NextIInv == IInv /\ [Next]_vars => IInv'
<1>. SUFFICES ASSUME IInv, [Next]_vars PROVE IInv'
  OBVIOUS
<1>1. ASSUME NEW t \in Client, NEW s \in Service,
             Declared(t, s) \/ ChooseNone(t, s) \/ ChooseFind(t, s)
      PROVE  IInv'
  BY <1>1, DeclaredIInv, ChooseNoneIInv, ChooseFindIInv
<1>2. ASSUME NEW t \in Callback, NEW i \in Instance, NEW h \in Host,
             \/ OnlineIgnored(t, i, h) \/ OnlineLookup(t, i, h)
             \/ OfflineIgnored(t, i, h) \/ OfflineLookup(t, i, h)
      PROVE  IInv'
  BY <1>2, IgnoredIInv, OnlineLookupIInv, OfflineLookupIInv
<1>3. ASSUME NEW t \in Thread, Continue(t) PROVE IInv'
  BY <1>3, AppendCreateIInv, AppendFailIInv, AppendInsertIInv, RemoveHostIInv,
     ChooseServeIInv DEF Continue
<1>4. CASE UNCHANGED vars
  BY <1>4, StutterIInv
<1>. QED  BY <1>1, <1>2, <1>3, <1>4 DEF Next

LEMMA Inductive == Spec => []IInv
BY InitIInv, NextIInv, PTL DEF Spec

-----------------------------------------------------------------------------
(* What it says *)

\* The key of an event belongs to the service getServiceName() cuts out of it
\* (channel.hpp:160-165).
LEMMA ServiceNameProperties ==
  ASSUME NEW i \in Instance
  PROVE  InstanceOf(i, GetServiceName(i))
<1>1. i \in Seq(STRING) /\ i # << >> /\ Len(i) \in Nat \ {0}
  BY ManagerAssumption, EmptySeq, LenProperties
<1>2. CASE Len(i) = 1
  BY <1>2 DEF InstanceOf, GetServiceName
<1>3. CASE Len(i) # 1
  <2>1. PICK s : s = SubSeq(i, 1, Len(i) - 1)
    OBVIOUS
  <2>2. s \in Seq(STRING) /\ Len(s) = Len(i) - 1
    <3>1. \A k \in 1 .. Len(i) - 1 : i[k] \in STRING
      BY <1>1, ElementOfSeq
    <3>2. PICK n \in Nat \ {0, 1} : n = Len(i)
      BY <1>1, <1>3
    <3>3. n - 1 \in Int /\ 1 <= n - 1 /\ (n - 1) - 1 + 1 = n - 1
      OBVIOUS
    <3>. QED  BY <2>1, <3>1, <3>2, <3>3, SubSeqProperties
  <2>3. SubSeq(s, 1, Len(s)) = s
    BY <2>2, SubSeqFull
  <2>4. IsPrefix(s, i) /\ s # i
    BY <1>1, <2>1, <2>2, <2>3 DEF IsPrefix
  <2>5. GetServiceName(i) = s
    BY <1>3, <2>1 DEF GetServiceName, Front
  <2>. QED  BY <1>1, <2>2, <2>4, <2>5 DEF InstanceOf, IsStrictPrefix
<1>. QED  BY <1>2, <1>3

\* The types of the manager's state, and every ServiceChannel object in it
\* consistent, whatever threads do at a time.
THEOREM TypeCorrect ==
  Spec => [](TypeOK /\ \A o \in Obj : Consistent(table[o]))
<1>1. IInv => TypeOK /\ \A o \in Obj : Consistent(table[o])
  BY DEF IInv
<1>. QED  BY <1>1, Inductive, PTL

\* No event is applied to an object choose() does not see, for every number of
\* services and of threads (channel.hpp:114-128).
THEOREM WorkReachesChooseAlways == Spec => []WorkReachesChoose
<1>1. IInv => WorkReachesChoose
  <2>. SUFFICES ASSUME IInv PROVE WorkReachesChoose
    OBVIOUS
  <2>1. ASSUME NEW o \in Obj, NEW t \in Thread, obj[t] = o
        PROVE  \E s \in Service : services[s] = o
    BY <2>1, ManagerAssumption DEF IInv, CallsOnTheirObject, TypeOK, Events
  <2>. QED  BY <2>1 DEF IInv, OneObjectEach, WorkReachesChoose
<1>. QED  BY <1>1, Inductive, PTL

\* choose(s) never returns a channel of another service (channel.hpp:99-109,
\* 160-165), even one that was erased from under the counter.
THEOREM ServicesApartAlways == Spec => []ServicesApart
<1>1. IInv => ServicesApart
  <2>. SUFFICES ASSUME IInv, NEW t \in Client, chosen[t] # NoChannel
                PROVE  InstanceOf(origin[chosen[t]][1], asked[t])
    BY DEF ServicesApart
  <2>1. PICK e \in Event : e = origin[chosen[t]] /\ ServiceOf(e) = asked[t]
    BY DEF IInv, ChosenOfItsService
  <2>2. e[1] \in Instance
    BY DEF Event
  <2>. QED  BY <2>1, <2>2, ServiceNameProperties DEF ServiceOf
<1>. QED  BY <1>1, Inductive, PTL

\* Each hash table has a host as its last event said, whatever other threads do
\* to other hosts meanwhile (channel.hpp:110-158).
THEOREM ViewFollowsEventsAlways == Spec => []ViewFollowsEvents
<1>1. IInv => ViewFollowsEvents
  BY DEF IInv, ViewButForTheEventInProgress, ViewFollowsEvents, Known
<1>. QED  BY <1>1, Inductive, PTL

\* And the rotation leads to no host whose last event said offline, but for one
\* that came online twice in a row (channel.hpp:34-35).
THEOREM NoOfflineHostServedAlways == Spec => []NoOfflineHostServed
<1>1. IInv => NoOfflineHostServed
  <2>. SUFFICES ASSUME IInv, NEW s \in Service, services[s] # NoObj,
                       NEW c \in Range(table[services[s]].array)
                PROVE  \/ said[<<s, origin[c][2]>>] # "offline"
                       \/ InProgress(<<s, origin[c][2]>>)
                       \/ origin[c][2] \in table[services[s]].reappended
    BY DEF NoOfflineHostServed
  <2>1. PICK o \in Obj : o = services[s]
    BY DEF IInv, TypeOK
  <2>2. PICK h \in Host : h = origin[c][2]
    BY <2>1 DEF IInv, ChannelsOfTheirService, Event
  <2>3. table[o].hosts[h] = c \/ h \in table[o].reappended
    BY <2>1, <2>2 DEF IInv, SlotHasItsKey
  <2>4. c # NoChannel
    BY <2>1, TableFields, NoChannelAssumption DEF IInv, TypeOK
  <2>5. ~InProgress(<<s, h>>) /\ said[<<s, h>>] = "offline" => ~Known(s, h)
    BY DEF IInv, ViewButForTheEventInProgress
  <2>. QED  BY <2>1, <2>2, <2>3, <2>4, <2>5 DEF Known
<1>. QED  BY <1>1, Inductive, PTL
=============================================================================
