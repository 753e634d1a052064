--------------------------- MODULE DiscoveryClient ---------------------------
(***************************************************************************)
(* The main() of example/etcd_test/discovery.cc as a whole: the Discovery  *)
(* object of module Discovery, and the one call the main thread makes      *)
(* while the watcher's thread goes on with the events.                     *)
(*                                                                         *)
(* The stub is made from choose(...).get(): the shared pointer is gone     *)
(* with the expression, so from there on nobody but the vector and the     *)
(* hash table keeps the channel alive.                                     *)
(***************************************************************************)
EXTENDS Discovery

VARIABLES
  pc,      \* "main", "calling", "waiting" (in getchar()), "over", "crashed"
  stub,    \* the channel_ of the stub
  seen,    \* the rotation choose() found (history)
  deleted  \* hosts del_cb was given since choose() (history)

caller == <<pc, stub, seen, deleted>>
callVars == <<vars, caller>>

CallInit ==
  /\ Init
  /\ pc = "main"
  /\ stub = NoChannel
  /\ seen = {}
  /\ deleted = {}

\* The shared pointers to c are not all gone.
Alive(c) == c \in Range(table.array) \cup {table.hosts[h] : h \in Host}

\* The process is at its end: the watch is over.
Ends(how) ==
  /\ pc' = how
  /\ phase' = "dead"
  /\ missed' = TRUE
  /\ UNCHANGED <<regVars, listed, pos, table, addr, twice, unbuilt, replaced, told,
                 stub, seen, deleted>>

\* The constructor of Discovery has returned; main() chooses and makes the stub.
MakeStub ==
  /\ pc = "main" /\ phase \in {"watch", "dead"}
  /\ stub' = Chosen(table)
  /\ seen' = Range(table.array)
  /\ pc' = "calling"
  /\ Choose
  /\ UNCHANGED deleted

\* stub.Echo() returns with a response.
EchoAnswered ==
  /\ pc = "calling" /\ stub # NoChannel
  /\ pc' = "waiting"
  /\ UNCHANGED <<vars, stub, seen, deleted>>

\* It returns and the controller has failed: main() returns -1.
EchoFailed == pc = "calling" /\ stub # NoChannel /\ Ends("over")

\* There is no channel, or it was destroyed before the call was over.
EchoCrashes == pc = "calling" /\ ~(stub # NoChannel /\ Alive(stub)) /\ Ends("crashed")

GetChar == pc = "waiting" /\ Ends("over")

\* The watcher's thread.
NotifyCaller ==
  /\ Notify
  /\ deleted' = IF pc = "calling" /\ log[pos'].type = "DELETE"
                THEN deleted \cup {log[pos'].host} ELSE deleted
  /\ UNCHANGED <<pc, stub, seen>>

CallNext ==
  \/ RegNext /\ UNCHANGED <<client, caller>>
  \/ Constructor /\ UNCHANGED caller
  \/ NotifyCaller
  \/ NotifyError /\ UNCHANGED caller
  \/ MakeStub \/ EchoAnswered \/ EchoFailed \/ EchoCrashes \/ GetChar

CallSpec == CallInit /\ [][CallNext]_callVars

\* As FairSpec of Discovery; nothing is promised of the call.
CallFairSpec ==
  /\ CallSpec
  /\ WF_callVars(Constructor /\ UNCHANGED caller)
  /\ WF_callVars(NotifyCaller)
  /\ \A l \in Lease : WF_callVars(Expire(l) /\ UNCHANGED <<client, caller>>)

-----------------------------------------------------------------------------
(* Properties *)

\* The call is made on a channel of the rotation, or on none when the rotation
\* was empty; and the channel is there until the call is over, unless its own
\* host went offline in between: no other event, of a host that comes back
\* least of all, takes it away (discovery.cc:86-91, channel.hpp:33-35, 45-55).
StubHasItsChannel ==
  pc = "calling" =>
    IF seen = {} THEN stub = NoChannel
    ELSE stub \in seen /\ (Alive(stub) \/ addr[stub] \in deleted)
=============================================================================
