------------------------------ MODULE Discovery ------------------------------
(***************************************************************************)
(* A client that discovers one service: thx::Discovery of common/etcd.hpp  *)
(* between the store of module Registry and a ServiceChannel, the way the  *)
(* main() of example/etcd_test/discovery.cc connects them.                 *)
(*                                                                         *)
(* The constructor lists the keys (ls), reports each to put_cb, and only   *)
(* then creates the Watcher, which delivers the events from there on, one  *)
(* response at a time.  put_cb and del_cb are ServiceManager's handlers of *)
(* a service that is followed.  They run one after the other, first in the *)
(* thread of the constructor and then in the watcher's, so nothing of the  *)
(* object but choose() falls between the steps of an append, and append is *)
(* one step here.                                                          *)
(***************************************************************************)
EXTENDS Registry, ServiceChannelOps

VARIABLES
  phase,    \* "new", "replay" (in the loop over the keys), "watch", "dead"
  listed,   \* the keys and values ls returned and put_cb has not got yet
  pos,      \* the events in log the watcher is past
  table,    \* the ServiceChannel object of the service
  addr,     \* addr[c]: the host channel c was built for (history)
  twice,    \* hosts put_cb was given while the hash table had them (history)
  unbuilt,  \* hosts put_cb could not build a channel for (history)
  replaced, \* hosts whose key was given another host without a DELETE in
            \* between (history)
  missed,   \* the store changed where the watcher did not see it (history)
  told      \* told[k]: the host the client last heard of under k (history)

client == <<phase, listed, pos, table, addr, twice, unbuilt, replaced, missed, told>>
vars == <<regVars, client>>

Init ==
  /\ RegInit
  /\ phase = "new"
  /\ listed = {}
  /\ pos = 0
  /\ table = NewTable
  /\ addr = [c \in Channel |-> NoHost]
  /\ twice = {}
  /\ unbuilt = {}
  /\ replaced = {}
  /\ missed = FALSE
  /\ told = [k \in Key |-> NoHost]

-----------------------------------------------------------------------------
(* The callbacks *)

Known(h) == table.hosts[h] # NoChannel

\* Mutated form: the channel takes the slot of the one the host has.
PutCallbackReplaces(k, h) ==
  /\ \E c \in Channel :
       /\ addr[c] = NoHost
       /\ addr' = [addr EXCEPT ![c] = h]
       /\ table' = IF Known(h)
                   THEN [table EXCEPT !.array[Position(table, table.hosts[h])] = c,
                                      !.hosts[h] = c]
                   ELSE PushBack(table, h, c)
  /\ told' = [told EXCEPT ![k] = h]
  /\ UNCHANGED <<unbuilt, twice, replaced>>

\* put_cb(k, h): a channel is built and stored, whether or not the hash table
\* has h, and whatever host k had before; or it cannot be built.
PutCallback(k, h) ==
  /\ \/ \E c \in Channel :
          /\ addr[c] = NoHost
          /\ addr' = [addr EXCEPT ![c] = h]
          /\ table' = PushBack(table, h, c)
          /\ twice' = IF Known(h) THEN twice \cup {h} ELSE twice
          /\ UNCHANGED unbuilt
     \/ unbuilt' = unbuilt \cup {h} /\ UNCHANGED <<addr, table, twice>>
  /\ told' = [told EXCEPT ![k] = h]
  /\ replaced' = IF told[k] \in {h, NoHost} THEN replaced
                                            ELSE replaced \cup {told[k]}

\* Mutated form: the hash table and the vector keep the host.
DelCallbackIgnores(k, h) ==
  /\ told' = [told EXCEPT ![k] = NoHost]
  /\ UNCHANGED <<table, addr, twice, unbuilt, replaced>>

\* del_cb(k, h), h being the value the key had.
DelCallback(k, h) ==
  /\ table' = Erase(table, h)
  /\ told' = [told EXCEPT ![k] = NoHost]
  /\ UNCHANGED <<addr, twice, unbuilt, replaced>>

-----------------------------------------------------------------------------
(* The constructor *)

\* ls(base_dir).
Ls ==
  /\ phase = "new"
  /\ phase' = "replay"
  /\ listed' = {p \in Key \X Host : kv[p[1]] = p[2]}
  /\ pos' = Len(log)
  /\ UNCHANGED <<regVars, table, addr, twice, unbuilt, replaced, missed, told>>

\* ls fails: the constructor logs that and goes on with no keys.
LsFails ==
  /\ phase = "new"
  /\ phase' = "replay"
  /\ pos' = Len(log)
  /\ missed' = (missed \/ \E k \in Key : kv[k] # NoHost)
  /\ UNCHANGED <<regVars, listed, table, addr, twice, unbuilt, replaced, told>>

\* One turn of the loop.
Replay ==
  /\ phase = "replay"
  /\ \E p \in listed :
       /\ listed' = listed \ {p}
       /\ PutCallback(p[1], p[2])
  /\ UNCHANGED <<regVars, phase, pos, missed>>

\* The Watcher is created; it starts at the present revision.
StartWatch ==
  /\ phase = "replay"
  /\ listed = {}
  /\ phase' = "watch"
  /\ pos' = Len(log)
  /\ missed' = (missed \/ pos < Len(log))
  /\ UNCHANGED <<regVars, listed, table, addr, twice, unbuilt, replaced, told>>

(* The watcher *)

\* Mutated form: the event that deletes a key is taken for one that puts it.
NotifyPutsAlways ==
  /\ phase = "watch"
  /\ pos < Len(log)
  /\ pos' = pos + 1
  /\ PutCallback(log[pos + 1].key, log[pos + 1].host)
  /\ UNCHANGED <<regVars, phase, listed, missed>>

\* callback() of a response with the next event.
Notify ==
  LET ev == log[pos + 1]
  IN  /\ phase = "watch"
      /\ pos < Len(log)
      /\ pos' = pos + 1
      /\ \/ ev.type = "PUT" /\ PutCallback(ev.key, ev.host)
         \/ ev.type = "DELETE" /\ DelCallback(ev.key, ev.host)
      /\ UNCHANGED <<regVars, phase, listed, missed>>

\* callback() of a response with an error: it is logged, and etcd sends no
\* more on this watch.  Nobody creates another.
NotifyError ==
  /\ phase = "watch"
  /\ phase' = "dead"
  /\ missed' = TRUE
  /\ UNCHANGED <<regVars, listed, pos, table, addr, twice, unbuilt, replaced, told>>

(* The client's calls *)

Choose ==
  /\ table' = Advance(table)
  /\ UNCHANGED <<regVars, phase, listed, pos, addr, twice, unbuilt, replaced, missed, told>>

Constructor == Ls \/ LsFails \/ Replay \/ StartWatch

Next ==
  \/ RegNext /\ UNCHANGED client
  \/ Constructor
  \/ Notify
  \/ NotifyError
  \/ Choose

Spec == Init /\ [][Next]_vars

\* The constructor runs to its end, the watcher gets the events the store has,
\* and leases expire.
FairSpec ==
  /\ Spec
  /\ WF_vars(Constructor)
  /\ WF_vars(Notify)
  /\ \A l \in Lease : WF_vars(Expire(l) /\ UNCHANGED client)

-----------------------------------------------------------------------------
(* Safety *)

\* The hosts a channel of the rotation leads to, and those the store has.
Served == {addr[c] : c \in Range(table.array)}
Stored == {kv[k] : k \in Key} \ {NoHost}

\* The watcher is past all events, and none was missed.
InStep == phase = "watch" /\ pos = Len(log) /\ ~missed

\* Then the client knows the present value of every key: it lost no event
\* between the list and the watch, and took none for another
\* (etcd.hpp:47-77).
ToldTheStore == InStep => told = kv

\* And the rotation has a channel to every host in the store and to no other,
\* but for the hosts that were put while they were known, that could not be
\* connected, or whose key was put again with another host (etcd.hpp:67-75,
\* channel.hpp:34-35, 41-67).
ServesTheStore ==
  InStep =>
    /\ Stored \ (twice \cup unbuilt) \subseteq Served
    /\ Served \subseteq Stored \cup twice \cup replaced

(* Liveness, under FairSpec *)

\* The host of a process that ended leaves the rotation while the watch is up,
\* with the same exceptions: its lease expires, the store deletes the key, and
\* the watcher removes the channel (etcd.hpp:18-22, 72-76).
Dead(h) == \A k \in Key : proc[k] = "down" \/ host[k] # h

DeadHostLeaves ==
  \A h \in Host :
    phase = "watch" /\ h \in Served /\ Dead(h)
      ~> \/ h \notin Served \/ ~Dead(h)
         \/ missed \/ h \in twice \cup replaced

-----------------------------------------------------------------------------
(* What the messages of the code say, and the code does not do. *)

\* callback() logs that a host went offline when its key is deleted
\* (etcd.hpp:75), and the manager that the host is being removed
\* (channel.hpp:157): then no channel to it is left, unless another key has it.
OfflineIsRemoved ==
  [][\A k \in Key :
       Notify /\ log[pos'].type = "DELETE" /\ told'[k] = NoHost
         /\ log[pos'].key = k /\ (\A j \in Key : told'[j] # log[pos'].host)
       => log[pos'].host \notin Served']_vars
=============================================================================
