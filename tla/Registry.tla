------------------------------- MODULE Registry -------------------------------
(***************************************************************************)
(* The providers of a service and the store that knows of them: the main() *)
(* of example/etcd_test/registry.cc with the class thx::Registry of        *)
(* common/etcd.hpp, one process for each key, and etcd as they use it.     *)
(*                                                                         *)
(* A process is granted a lease that is kept alive in the background,      *)
(* starts its server, and puts its address under its key with the lease.   *)
(* When nobody keeps a lease alive, because the process ended or because   *)
(* it cannot reach etcd, the lease expires and the key is deleted.  Nobody *)
(* puts it again but a new process.                                        *)
(*                                                                         *)
(* Bounds: a lease is granted once, so a behaviour has at most as many     *)
(* processes as Lease has elements, and at most two events for each.       *)
(***************************************************************************)
EXTENDS Hosts, Integers, Sequences

CONSTANTS
  Key,      \* the keys under the service's directory
  NoHost,
  Lease,    \* lease identities
  NoLease

ASSUME RegistryAssumption == NoHost \notin Host /\ NoLease \notin Lease

VARIABLES
  proc,       \* proc[k]: how far the process of key k is in main(); "running"
              \* with its key put, "unregistered" without
  mine,       \* mine[k]: its _lease_id
  host,       \* host[k]: the address it was given
  listening,  \* listening[k]: server.Start() of that address succeeded
  lease,      \* lease[l]: whether somebody keeps lease l alive (etcd)
  kv,         \* kv[k]: the value of key k (etcd)
  attached,   \* attached[k]: the lease of key k (etcd)
  log         \* the events of the keys, in the order of revisions (etcd)

process == <<proc, mine, host, listening>>
store == <<lease, kv, attached, log>>
regVars == <<process, store>>

RegTypeOK ==
  /\ proc \in [Key -> {"down", "leased", "started", "running", "unregistered"}]
  /\ mine \in [Key -> Lease \cup {NoLease}]
  /\ host \in [Key -> Host \cup {NoHost}]
  /\ listening \in [Key -> BOOLEAN]
  /\ lease \in [Lease -> {"unused", "kept", "unkept", "expired"}]
  /\ kv \in [Key -> Host \cup {NoHost}]
  /\ attached \in [Key -> Lease \cup {NoLease}]
  /\ log \in Seq([type : {"PUT", "DELETE"}, key : Key, host : Host])

RegInit ==
  /\ proc = [k \in Key |-> "down"]
  /\ mine = [k \in Key |-> NoLease]
  /\ host = [k \in Key |-> NoHost]
  /\ listening = [k \in Key |-> FALSE]
  /\ lease = [l \in Lease |-> "unused"]
  /\ kv = [k \in Key |-> NoHost]
  /\ attached = [k \in Key |-> NoLease]
  /\ log = << >>

-----------------------------------------------------------------------------
(* The process of a key *)

\* The constructor of Registry: leasekeepalive(3).
LeaseGranted(k, l) ==
  /\ proc[k] = "down"
  /\ lease[l] = "unused"
  /\ proc' = [proc EXCEPT ![k] = "leased"]
  /\ mine' = [mine EXCEPT ![k] = l]
  /\ lease' = [lease EXCEPT ![l] = "kept"]
  /\ UNCHANGED <<host, listening, kv, attached, log>>

\* server.Start(): the address is taken, or for another reason it does not
\* listen; main() goes on as if it did, since the test that follows reads the
\* result of AddService.
ServerStart(k, h, ok) ==
  /\ proc[k] = "leased"
  /\ ok => \A j \in Key : ~(listening[j] /\ host[j] = h)
  /\ proc' = [proc EXCEPT ![k] = "started"]
  /\ host' = [host EXCEPT ![k] = h]
  /\ listening' = [listening EXCEPT ![k] = ok]
  /\ UNCHANGED <<mine, store>>

\* Mutated form: the key is put without the lease.
RegistryPutUnleased(k) ==
  /\ proc[k] = "started"
  /\ proc' = [proc EXCEPT ![k] = "running"]
  /\ kv' = [kv EXCEPT ![k] = host[k]]
  /\ attached' = [attached EXCEPT ![k] = NoLease]
  /\ log' = Append(log, [type |-> "PUT", key |-> k, host |-> host[k]])
  /\ UNCHANGED <<mine, host, listening, lease>>

\* Mutated form: a key that exists keeps the lease it has.
RegistryPutKeepsLease(k) ==
  /\ proc[k] = "started"
  /\ lease[mine[k]] # "expired"
  /\ proc' = [proc EXCEPT ![k] = "running"]
  /\ kv' = [kv EXCEPT ![k] = host[k]]
  /\ attached' = [attached EXCEPT ![k] = IF @ = NoLease THEN mine[k] ELSE @]
  /\ log' = Append(log, [type |-> "PUT", key |-> k, host |-> host[k]])
  /\ UNCHANGED <<mine, host, listening, lease>>

\* registry(): the key is put with the lease of this process, whatever value
\* and lease it had.  etcd refuses a lease that has expired.
RegistryPut(k) ==
  /\ proc[k] = "started"
  /\ lease[mine[k]] # "expired"
  /\ proc' = [proc EXCEPT ![k] = "running"]
  /\ kv' = [kv EXCEPT ![k] = host[k]]
  /\ attached' = [attached EXCEPT ![k] = mine[k]]
  /\ log' = Append(log, [type |-> "PUT", key |-> k, host |-> host[k]])
  /\ UNCHANGED <<mine, host, listening, lease>>

\* registry() returns false; main() does not look and serves on.
RegistryPutFails(k) ==
  /\ proc[k] = "started"
  /\ proc' = [proc EXCEPT ![k] = "unregistered"]
  /\ UNCHANGED <<mine, host, listening, store>>

\* Mutated form: the lease of a process that ended is kept alive.
StopKeepsLease(k) ==
  /\ proc[k] # "down"
  /\ proc' = [proc EXCEPT ![k] = "down"]
  /\ mine' = [mine EXCEPT ![k] = NoLease]
  /\ host' = [host EXCEPT ![k] = NoHost]
  /\ listening' = [listening EXCEPT ![k] = FALSE]
  /\ UNCHANGED store

\* The process ends, by its destructors (Cancel) or without them (a crash):
\* either way the lease is left to expire.
Stop(k) ==
  /\ proc[k] # "down"
  /\ proc' = [proc EXCEPT ![k] = "down"]
  /\ mine' = [mine EXCEPT ![k] = NoLease]
  /\ host' = [host EXCEPT ![k] = NoHost]
  /\ listening' = [listening EXCEPT ![k] = FALSE]
  /\ lease' = [lease EXCEPT ![mine[k]] = IF @ = "kept" THEN "unkept" ELSE @]
  /\ UNCHANGED <<kv, attached, log>>

\* The process runs on but its keep-alive messages do not arrive.
KeepAliveLost(k) ==
  /\ proc[k] # "down"
  /\ lease[mine[k]] = "kept"
  /\ lease' = [lease EXCEPT ![mine[k]] = "unkept"]
  /\ UNCHANGED <<process, kv, attached, log>>

(* etcd *)

\* The time of a lease nobody keeps alive is over: its key is deleted, if it
\* still is its key.  (A process puts one key, so a lease has at most one.)
Expire(l) ==
  /\ lease[l] = "unkept"
  /\ lease' = [lease EXCEPT ![l] = "expired"]
  /\ \/ /\ \A k \in Key : attached[k] # l
        /\ UNCHANGED <<kv, attached, log>>
     \/ \E k \in Key :
          /\ attached[k] = l
          /\ kv' = [kv EXCEPT ![k] = NoHost]
          /\ attached' = [attached EXCEPT ![k] = NoLease]
          /\ log' = Append(log, [type |-> "DELETE", key |-> k, host |-> kv[k]])
  /\ UNCHANGED process

RegNext ==
  \/ \E k \in Key :
       \/ \E l \in Lease : LeaseGranted(k, l)
       \/ \E h \in Host, ok \in BOOLEAN : ServerStart(k, h, ok)
       \/ RegistryPut(k) \/ RegistryPutFails(k)
       \/ Stop(k) \/ KeepAliveLost(k)
  \/ \E l \in Lease : Expire(l)

RegSpec == RegInit /\ [][RegNext]_regVars

-----------------------------------------------------------------------------
(* Safety *)

\* No key outlives its lease, and no lease has the keys of two processes: what
\* a process registered goes away with it, also when the next process of the
\* key put its own address before that lease expired (etcd.hpp:18-25).
KeysAreLeased ==
  \A k \in Key : kv[k] # NoHost =>
    /\ attached[k] # NoLease
    /\ lease[attached[k]] \in {"kept", "unkept"}
    /\ lease[attached[k]] = "kept" => mine[k] = attached[k] /\ host[k] = kv[k]

\* A process that put its key can be found under its own address for as long as
\* its lease lives, whatever value and lease its predecessor had left there: the
\* lease of the predecessor expires later and takes nothing with it
\* (etcd.hpp:18-25, registry.cc:86).
RegisteredStays ==
  \A k \in Key : proc[k] = "running" /\ lease[mine[k]] # "expired" =>
    kv[k] = host[k] /\ attached[k] = mine[k]

\* The inductive invariant behind both: how far a process is says what it has,
\* no two processes have a lease and no two keys, and the lease of a key is not
\* the lease of another key's process.
RegIInv ==
  /\ RegTypeOK
  /\ KeysAreLeased
  /\ RegisteredStays
  /\ \A k \in Key :
       /\ proc[k] = "down" <=> mine[k] = NoLease
       /\ proc[k] \in {"started", "running", "unregistered"} <=> host[k] # NoHost
       /\ mine[k] # NoLease => lease[mine[k]] # "unused"
       /\ kv[k] = NoHost <=> attached[k] = NoLease
       /\ attached[k] # NoLease /\ attached[k] = mine[k] => proc[k] = "running"
  /\ \A j, k \in Key :
       /\ mine[j] # NoLease /\ mine[j] = mine[k] => j = k
       /\ attached[j] # NoLease /\ attached[j] = attached[k] => j = k
       /\ attached[j] # NoLease /\ attached[j] = mine[k] => j = k

(* Liveness, when leases expire *)

\* The address of a process that ended leaves the store, unless the next
\* process of the key puts its own first (etcd.hpp:18-22).
DeadAddressLeaves ==
  \A k \in Key : proc[k] = "down" ~> kv[k] = NoHost \/ proc[k] # "down"
=============================================================================
