---------------------------- MODULE ServiceChannel ----------------------------
(***************************************************************************)
(* One thx::ServiceChannel of example/etcd_test/channel.hpp, called from   *)
(* any number of threads.  remove() and choose() are one critical section  *)
(* each.  append() is two steps: the brpc::Channel is built and connected  *)
(* before the mutex is taken (AppendCreate, or AppendFail when Init says   *)
(* -1) and stored afterwards (AppendInsert), so calls of other threads     *)
(* fall in between.                                                        *)
(***************************************************************************)
EXTENDS ServiceChannelOps

CONSTANTS
  Thread,   \* the threads that call the object
  NoHost    \* the host of a channel nobody has built yet

ASSUME NoHostAssumption == NoHost \notin Host

VARIABLES
  sc,       \* the object, a Table
  addr,     \* addr[c]: the host append() was building channel c for
  new_ptr,  \* new_ptr[t]: the channel thread t has built and not yet stored
  arg,      \* arg[t]: the host of that append()
  chosen    \* chosen[t]: what choose() returned to t last

vars == <<sc, addr, new_ptr, arg, chosen>>

Unused(c) == addr[c] = NoHost
Idle(t) == new_ptr[t] = NoChannel

TypeOK ==
  /\ sc \in Table
  /\ addr \in [Channel -> Host \cup {NoHost}]
  /\ new_ptr \in [Thread -> Channel \cup {NoChannel}]
  /\ arg \in [Thread -> Host \cup {NoHost}]
  /\ chosen \in [Thread -> Channel \cup {NoChannel}]

Init ==
  /\ sc = NewTable
  /\ addr = [c \in Channel |-> NoHost]
  /\ new_ptr = [t \in Thread |-> NoChannel]
  /\ arg = [t \in Thread |-> NoHost]
  /\ chosen = [t \in Thread |-> NoChannel]

-----------------------------------------------------------------------------

\* append(h): the channel is built and its Init succeeds, outside the lock.
AppendCreate(t, h, c) ==
  /\ Idle(t)
  /\ Unused(c)
  /\ addr' = [addr EXCEPT ![c] = h]
  /\ new_ptr' = [new_ptr EXCEPT ![t] = c]
  /\ arg' = [arg EXCEPT ![t] = h]
  /\ UNCHANGED <<sc, chosen>>

\* append(h): Init fails, the channel is dropped and append() returns.
AppendFail(t, h, c) ==
  /\ Idle(t)
  /\ Unused(c)
  /\ addr' = [addr EXCEPT ![c] = h]
  /\ UNCHANGED <<sc, new_ptr, arg, chosen>>

\* Mutated form: the pointer is taken from another call in progress.
AppendInsertShared(t) ==
  /\ ~Idle(t)
  /\ \E u \in Thread :
       /\ ~Idle(u)
       /\ sc' = PushBack(sc, arg[t], new_ptr[u])
  /\ new_ptr' = [new_ptr EXCEPT ![t] = NoChannel]
  /\ arg' = [arg EXCEPT ![t] = NoHost]
  /\ UNCHANGED <<addr, chosen>>

\* append(h), the critical section.
AppendInsert(t) ==
  /\ ~Idle(t)
  /\ sc' = PushBack(sc, arg[t], new_ptr[t])
  /\ new_ptr' = [new_ptr EXCEPT ![t] = NoChannel]
  /\ arg' = [arg EXCEPT ![t] = NoHost]
  /\ UNCHANGED <<addr, chosen>>

\* remove(h).
RemoveHost(t, h) ==
  /\ Idle(t)
  /\ sc' = Erase(sc, h)
  /\ UNCHANGED <<addr, new_ptr, arg, chosen>>

\* choose().
Choose(t) ==
  /\ Idle(t)
  /\ chosen' = [chosen EXCEPT ![t] = Chosen(sc)]
  /\ sc' = Advance(sc)
  /\ UNCHANGED <<addr, new_ptr, arg>>

Next ==
  \E t \in Thread :
    \/ \E h \in Host, c \in Channel : AppendCreate(t, h, c)
    \/ \E h \in Host, c \in Channel : AppendFail(t, h, c)
    \/ AppendInsert(t)
    \/ \E h \in Host : RemoveHost(t, h)
    \/ Choose(t)

Spec == Init /\ [][Next]_vars

\* An append() that has built its channel goes on to store it, and the clients
\* keep asking for channels.
FairSpec ==
  /\ Spec
  /\ \A t \in Thread : WF_vars(AppendInsert(t))
  /\ WF_vars(\E t \in Thread : Choose(t))

-----------------------------------------------------------------------------
(* Safety *)

\* Every host in _hosts has its channel in _rotating_array, so remove() never
\* takes the branch that logs a program logic error (channel.hpp:62-66).
LogicErrorUnreachable == HostsHaveSlots(sc)

\* A channel that remove() took out of the rotation is never back in it, nor
\* left in it: no interleaving of append() and remove() gives a channel two
\* slots, of which remove() erases only the first (channel.hpp:48-56).
ErasedIsGone == Range(sc.array) \cap sc.erased = {}

\* The channel stored under a host is the one append() built for that host,
\* whatever the threads that store at the same time: remove(h) never takes
\* another host's channel out of the rotation (channel.hpp:33-35, 41-56).
KeyNamesItsHost ==
  \A h \in Host : sc.hosts[h] # NoChannel => addr[sc.hosts[h]] = h

\* A channel in the rotation can be removed through its host, unless the host
\* was appended a second time while it was known: append() overwrites the
\* hash table entry and leaves the old slot (channel.hpp:34-35).
UnremovableOnlyIfReappended ==
  \A c \in Range(sc.array) :
    sc.hosts[addr[c]] = c \/ addr[c] \in sc.reappended

\* A channel built outside the lock reaches the object once: until its thread
\* stores it, it has no slot, had none, and no other thread stores it
\* (channel.hpp:26-35).
PendingIsFresh ==
  \A t \in Thread : ~Idle(t) =>
    /\ addr[new_ptr[t]] = arg[t]
    /\ new_ptr[t] \notin Range(sc.array) \cup sc.erased
    /\ \A u \in Thread : new_ptr[u] = new_ptr[t] => u = t

\* The object implements the round-robin promise of LoadBalancer: within a
\* round choose() (channel.hpp:69-80) hands out every channel once, and after
\* any number of remove() calls at most one answer is not a member.
LB == INSTANCE LoadBalancer
        WITH Backend <- Channel, Client <- Thread, None <- NoChannel,
             members <- Range(sc.array), gone <- sc.erased,
             round <- Round(sc), dirty <- sc.shrunk, answer <- chosen

ImplementsLoadBalancer == LB!Spec

\* The slot choose() reads past the end is one the vector has used: a null or
\* destroyed pointer, never memory that held no pointer (channel.hpp:77-79).
ReadWithinStorage == CounterInStorage(sc)

\* The inductive invariant behind these properties.
IInv ==
  /\ TypeOK
  /\ Consistent(sc)
  /\ KeyNamesItsHost
  /\ UnremovableOnlyIfReappended
  /\ PendingIsFresh
  /\ \A c \in Range(sc.array) \cup sc.erased : ~Unused(c)
  /\ \A t \in Thread : ~Idle(t) => arg[t] # NoHost

(* Liveness, under FairSpec *)

\* While clients keep calling choose(), and once no append() and no remove()
\* changes the rotation any more, choose() returns every channel of it again and
\* again (channel.hpp:77-79).  Nothing is promised while they go on changing it:
\* with c and x in the array and the counter at 1, an append(w), a choose(), a
\* remove(w) and a choose() leave the counter at 1, and repeated for ever they
\* never hand out c.  (When c is alone a choose() may change nothing at all, so
\* the last alternative looks at what it left.)
Settles == <>[][sc'.array = sc.array]_vars

NoStarvation ==
  Settles =>
    \A c \in Channel :
      \/ []<>(c \notin Range(sc.array))
      \/ []<><<\E t \in Thread : Choose(t) /\ chosen'[t] = c>>_vars
      \/ []<>(sc.array = <<c>> /\ \E t \in Thread : chosen[t] = c)

-----------------------------------------------------------------------------
(* What the messages of the code say, and the code does not do. *)

\* The one return of a null channel says that no node provides the service
\* (channel.hpp:72-76): choose() returns null only when the array is empty.
NullOnlyWhenEmpty ==
  [][\A t \in Thread :
       Choose(t) /\ chosen'[t] = NoChannel => sc.array = << >>]_vars
=============================================================================
