---------------------------- MODULE ServiceManager ----------------------------
(***************************************************************************)
(* thx::ServiceManager of example/etcd_test/channel.hpp: the services the  *)
(* program follows, one ServiceChannel object for each, and the calls of   *)
(* several threads on them.  Callback threads deliver the events of the    *)
(* registry (onServiceOnline, onServiceOffline); client threads call       *)
(* declared() and choose().                                                *)
(*                                                                         *)
(* An event is looked up under the manager's mutex and applied to the      *)
(* object after that mutex is released, under the object's own, so events  *)
(* of two threads may be applied in the other order.  choose() keeps the   *)
(* manager's mutex while it is in the object; nobody who holds an object's *)
(* mutex asks for the manager's, so a critical section of an object is one *)
(* step here as in ServiceChannel.                                         *)
(***************************************************************************)
EXTENDS ServiceChannelOps

CONSTANTS
  Service,    \* service names, as sequences of path components
  Instance,   \* the keys of events, as sequences of path components
  Obj,        \* identities of ServiceChannel objects
  NoObj,
  Callback,   \* the threads that deliver events
  Client,     \* the threads that call declared() and choose()
  Free,       \* the holder of the manager's mutex when nobody holds it
  NoEvent

Thread == Callback \cup Client
Event == Instance \X Host

ASSUME ManagerAssumption ==
  /\ Service \cup Instance \subseteq Seq(STRING) \ {<< >>}
  /\ NoObj \notin Obj
  /\ Callback \cap Client = {}
  /\ Free \notin Thread
  /\ NoEvent \notin Event

VARIABLES
  follow,    \* _follow_services
  services,  \* _services; services[s] = NoObj says that s is not a key
  table,     \* table[o]: the ServiceChannel object o
  lock,      \* who holds _mt of the manager between two steps
  pc,        \* where each thread is
  obj,       \* obj[t]: the local variable service of t's call
  event,     \* event[t]: the instance and the host t's call is about
  new_ptr,   \* new_ptr[t]: the channel t has built and not yet stored
  asked,     \* asked[t]: the service of t's last choose()
  chosen,    \* chosen[t]: what it returned
  origin,    \* origin[c]: the event channel c was built for (history)
  said       \* said[p], p a service and a host: what their last event said, or why
             \* it may have no effect: it could not be applied ("lost"), or came
             \* while another about p was in progress ("raced") (history)

calls == <<pc, obj, event, new_ptr, asked, chosen>>
history == <<origin, said>>
vars == <<follow, services, table, lock, calls, history>>

Init ==
  /\ follow = {}
  /\ services = [s \in Service |-> NoObj]
  /\ table = [o \in Obj |-> NewTable]
  /\ lock = Free
  /\ pc = [t \in Thread |-> "idle"]
  /\ obj = [t \in Thread |-> NoObj]
  /\ event = [t \in Thread |-> NoEvent]
  /\ new_ptr = [t \in Thread |-> NoChannel]
  /\ asked = [t \in Client |-> << >>]
  /\ chosen = [t \in Client |-> NoChannel]
  /\ origin = [c \in Channel |-> NoEvent]
  /\ said = [p \in Service \X Host |-> "offline"]

-----------------------------------------------------------------------------

\* Mutated form: the key is cut at its first slash.
GetServiceNameFirst(i) == << Head(i) >>

\* getServiceName(): the key without its last component, and all of it when
\* it has only one.
GetServiceName(i) == IF Len(i) = 1 THEN i ELSE Front(i)

\* The objects nobody has made yet.
Unmade == Obj \ ({services[s] : s \in Service} \cup {obj[t] : t \in Thread})

\* The service and the host an event is about, and whether a callback thread is
\* delivering an event about them.
Target(e) == <<GetServiceName(e[1]), e[2]>>
InProgress(p) == \E t \in Callback : pc[t] # "idle" /\ Target(event[t]) = p

\* An event about p says that the host is "online" or "offline".
Noted(p, word) ==
  said' = [said EXCEPT ![p] = IF InProgress(p) THEN "raced" ELSE word]

\* A call of t goes from "idle" to the step named at, or returns from there.
Enter(t, at, o, e) ==
  /\ pc' = [pc EXCEPT ![t] = at]
  /\ obj' = [obj EXCEPT ![t] = o]
  /\ event' = [event EXCEPT ![t] = e]

Return(t) == Enter(t, "idle", NoObj, NoEvent)

Idle(t) == pc[t] = "idle"

-----------------------------------------------------------------------------

\* declared(s).
Declared(t, s) ==
  /\ Idle(t)
  /\ lock = Free
  /\ follow' = follow \cup {s}
  /\ UNCHANGED <<services, table, lock, calls, history>>

\* onServiceOnline(i, h) of a service that is not followed.
OnlineIgnored(t, i, h) ==
  /\ Idle(t)
  /\ lock = Free
  /\ GetServiceName(i) \in Service \ follow
  /\ Noted(<<GetServiceName(i), h>>, "lost")
  /\ UNCHANGED <<follow, services, table, lock, calls, origin>>

\* Mutated form: an object is made although the service has one.
OnlineLookupReplaces(t, i, h) ==
  LET s == GetServiceName(i)
  IN  /\ Idle(t)
      /\ lock = Free
      /\ s \in follow
      /\ \E o \in Unmade :
           /\ services' = [services EXCEPT ![s] = o]
           /\ Enter(t, "append", o, <<i, h>>)
      /\ Noted(<<s, h>>, "online")
      /\ UNCHANGED <<follow, table, lock, new_ptr, asked, chosen, origin>>

\* onServiceOnline(i, h), the critical section: the object of the service,
\* which is made when there is none.
OnlineLookup(t, i, h) ==
  LET s == GetServiceName(i)
  IN  /\ Idle(t)
      /\ lock = Free
      /\ s \in follow
      /\ \E o \in IF services[s] = NoObj THEN Unmade ELSE {services[s]} :
           /\ services' = [services EXCEPT ![s] = o]
           /\ Enter(t, "append", o, <<i, h>>)
      /\ Noted(<<s, h>>, "online")
      /\ UNCHANGED <<follow, table, lock, new_ptr, asked, chosen, origin>>

\* append(): the channel is built.
AppendCreate(t, c) ==
  /\ pc[t] = "append"
  /\ origin[c] = NoEvent
  /\ origin' = [origin EXCEPT ![c] = event[t]]
  /\ new_ptr' = [new_ptr EXCEPT ![t] = c]
  /\ pc' = [pc EXCEPT ![t] = "insert"]
  /\ UNCHANGED <<follow, services, table, lock, obj, event, asked, chosen, said>>

\* append(): the channel cannot be built, and the event has no effect.
AppendFail(t) ==
  /\ pc[t] = "append"
  /\ Return(t)
  /\ said' = [said EXCEPT ![Target(event[t])] = IF @ = "online" THEN "lost" ELSE @]
  /\ UNCHANGED <<follow, services, table, lock, new_ptr, asked, chosen, origin>>

\* append(), the critical section of the object.
AppendInsert(t) ==
  /\ pc[t] = "insert"
  /\ table' = [table EXCEPT ![obj[t]] = PushBack(@, event[t][2], new_ptr[t])]
  /\ new_ptr' = [new_ptr EXCEPT ![t] = NoChannel]
  /\ Return(t)
  /\ UNCHANGED <<follow, services, lock, asked, chosen, history>>

\* onServiceOffline(i, h) of a service that is not followed or has no object.
OfflineIgnored(t, i, h) ==
  LET s == GetServiceName(i)
  IN  /\ Idle(t)
      /\ lock = Free
      /\ s \in Service
      /\ s \in follow => services[s] = NoObj
      /\ Noted(<<s, h>>, "offline")
      /\ UNCHANGED <<follow, services, table, lock, calls, origin>>

\* onServiceOffline(i, h), the critical section.
OfflineLookup(t, i, h) ==
  LET s == GetServiceName(i)
  IN  /\ Idle(t)
      /\ lock = Free
      /\ s \in follow
      /\ services[s] # NoObj
      /\ Enter(t, "remove", services[s], <<i, h>>)
      /\ Noted(<<s, h>>, "offline")
      /\ UNCHANGED <<follow, services, table, lock, new_ptr, asked, chosen,
                     origin>>

\* remove(), the critical section of the object.
RemoveHost(t) ==
  /\ pc[t] = "remove"
  /\ table' = [table EXCEPT ![obj[t]] = Erase(@, event[t][2])]
  /\ Return(t)
  /\ UNCHANGED <<follow, services, lock, new_ptr, asked, chosen, history>>

\* choose(s) of a service that has no object.
ChooseNone(t, s) ==
  /\ Idle(t)
  /\ lock = Free
  /\ services[s] = NoObj
  /\ asked' = [asked EXCEPT ![t] = s]
  /\ chosen' = [chosen EXCEPT ![t] = NoChannel]
  /\ UNCHANGED <<follow, services, table, lock, pc, obj, event, new_ptr, history>>

\* choose(s): the object is found, and the manager's mutex kept.
ChooseFind(t, s) ==
  /\ Idle(t)
  /\ lock = Free
  /\ services[s] # NoObj
  /\ lock' = t
  /\ Enter(t, "serve", services[s], NoEvent)
  /\ asked' = [asked EXCEPT ![t] = s]
  /\ chosen' = [chosen EXCEPT ![t] = NoChannel]
  /\ UNCHANGED <<follow, services, table, new_ptr, history>>

\* choose(s): choose() of the object, then the manager's mutex is released.
ChooseServe(t) ==
  /\ pc[t] = "serve"
  /\ chosen' = [chosen EXCEPT ![t] = Chosen(table[obj[t]])]
  /\ table' = [table EXCEPT ![obj[t]] = Advance(@)]
  /\ lock' = Free
  /\ Return(t)
  /\ UNCHANGED <<follow, services, new_ptr, asked, history>>

\* The steps of a call that has begun.
Continue(t) ==
  \/ \E c \in Channel : AppendCreate(t, c)
  \/ AppendFail(t)
  \/ AppendInsert(t)
  \/ RemoveHost(t)
  \/ ChooseServe(t)

Next ==
  \/ \E t \in Client, s \in Service :
       Declared(t, s) \/ ChooseNone(t, s) \/ ChooseFind(t, s)
  \/ \E t \in Callback, i \in Instance, h \in Host :
       \/ OnlineIgnored(t, i, h) \/ OnlineLookup(t, i, h)
       \/ OfflineIgnored(t, i, h) \/ OfflineLookup(t, i, h)
  \/ \E t \in Thread : Continue(t)

Spec == Init /\ [][Next]_vars

-----------------------------------------------------------------------------
(* Safety *)

\* A service has one object, which nobody replaces: an object that a thread is
\* working on, or that holds channels, is the one in _services, so that no
\* event is applied to an object choose() does not see (channel.hpp:114-128).
WorkReachesChoose ==
  /\ \A s, r \in Service : services[s] = services[r] /\ services[s] # NoObj => s = r
  /\ \A o \in Obj :
       (\E t \in Thread : obj[t] = o) \/ table[o] # NewTable =>
         \E s \in Service : services[s] = o

\* What choose(s) returns was built for an event of an instance of s: the key
\* of the event is s, a slash and one more component, or s itself when s has
\* no slash (channel.hpp:99-109, 160-165).
InstanceOf(i, s) ==
  \/ IsStrictPrefix(s, i) /\ Len(i) = Len(s) + 1
  \/ i = s /\ Len(s) = 1

ServicesApart ==
  \A t \in Client :
    chosen[t] # NoChannel => InstanceOf(origin[chosen[t]][1], asked[t])

\* The hash table of a followed service has a host if its last event said
\* online, and has it not if that said offline, whatever other threads do at the
\* same time, except while an event about that very host is in progress, or when
\* its last event was looked up while another about it was; then the next event
\* puts it right.  An instance that came online before declared(), or whose
\* channel could not be built, may be missing (channel.hpp:110-158).
ViewFollowsEvents ==
  \A s \in Service, h \in Host :
    ~InProgress(<<s, h>>) =>
      LET known == services[s] # NoObj /\ table[services[s]].hosts[h] # NoChannel
      IN  /\ said[<<s, h>>] = "online" => known
          /\ said[<<s, h>>] = "offline" => ~known

\* And no channel in the rotation leads to a host whose last event said offline,
\* with the same exceptions, unless the host came online twice in a row
\* (channel.hpp:34-35).
NoOfflineHostServed ==
  \A s \in Service : services[s] # NoObj =>
    \A c \in Range(table[services[s]].array) :
      LET h == origin[c][2]
      IN  \/ said[<<s, h>>] # "offline" \/ InProgress(<<s, h>>)
          \/ h \in table[services[s]].reappended
=============================================================================
