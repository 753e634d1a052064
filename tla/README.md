# A verification project for char_system

The repository holds the building blocks of a chat system of microservices,
one prototype per directory of `src/example`, and the two headers that have
been promoted to `src/common`: service discovery over etcd with a rotation of
RPC channels, a message queue client, an RPC service with its generated
messages, a document store client, and the generated persistence of a class.
This directory holds TLA+ modules of those parts, TLC configurations that check
them, and proofs that TLAPS checks.

## The system

| component | where | state | operations |
|---|---|---|---|
| ServiceChannel | `example/etcd_test/channel.hpp:11-87` | vector `_rotating_array`, hash table `_hosts`, `_rotation_count`, mutex | `append`, `remove`, `choose` |
| ServiceChannel, first version | `example/brpc_test/channel.hpp` | the same | the same; another `append` and `remove` |
| ServiceManager | `example/etcd_test/channel.hpp:89-169` | `_follow_services`, `_services`, mutex | `declared`, `choose`, `onServiceOnline`, `onServiceOffline` |
| Registry, registry.cc | `common/etcd.hpp:12-33`, `example/etcd_test/registry.cc` | lease, keep-alive; a key in etcd | constructor, `registry`, destructor; `main` |
| Discovery, discovery.cc | `common/etcd.hpp:34-83`, `example/etcd_test/discovery.cc` | watcher, two callbacks; a stub on a raw pointer | constructor (list, then watch), `callback`; `main` with its call |
| MQClient, publish.cc, consume.cc | `example/RabbitMq_test` | libev loop and its thread, connection, channel | `declare_combo`, `publish`, `consume`, destructor |
| Echo RPC | `example/brpc_test/client.cc`, `server.cc` | controller, response, closure; a server | `Echo`, `callback`, both `main` |
| Protocol messages | `example/brpc_test/main.pb.h`, `main.pb.cc` | text, its string, unknown fields | constructors, setters, release, merge, copy, swap, parse, serialize |
| Person persistence | `example/odb_test/person*` | object; image, bindings and statements of a connection; a table | `persist`, `update`, `erase`, `find`, `reload`, `query`, `erase_query` |
| Elasticsearch client | `example/es_test/icsearch.hpp` | the JSON body of an object | `append...`, `create`, `insert`, `remove`, `search` |
| Logger | `common/logger.hpp` | `g_default_logger` | `init_logger`, the `LOG_*` macros |

`example/etcd_test/registry.cc` and `discovery.cc` compile
`example/etcd_test/etcd.hpp`, which has the classes of `common/etcd.hpp`
unchanged; the map names one or the other.

How they interact. A provider (`registry.cc`) is granted a lease that a
background thread keeps alive, starts its server and puts its address under
its key with that lease. A client (`discovery.cc`) builds a `Discovery`; its
constructor lists the keys, calls `put_cb` for each, and then creates a watcher
whose thread calls `put_cb` or `del_cb` for each event. The callbacks are
`ServiceManager::onServiceOnline` and `onServiceOffline`. They look up, under
the manager's mutex, the `ServiceChannel` of the service and then, with that
mutex released, `append` or `remove` under the object's own. Other threads call
`choose`, which takes the manager's mutex and, with it, the object's. The main
thread of `discovery.cc` makes a call on the channel it chose while the watcher
goes on. The echo programs send the generated messages over one connection of
brpc; MQClient, the Elasticsearch classes and the persistence are each used
by programs of their own.

What is hard there: two mutexes and the gap between them; `append` building a
channel before it takes the lock; a counter that survives the removal of the
slot it names; a list and a watch that are not one step; leases that expire
while a new process has the key; watches that end; a raw pointer used while
another thread removes what it points to; requests whose answer is lost and
that are done later, or twice; two threads on one AMQP channel; a buffer that
is replaced between a query and the load of its rows; a string that changes
owners. `PROJECT.json` lists each hazard at its line with the properties that
watch it.

What makes each component correct:

- ServiceChannel: vector and hash table agree; `remove` takes out the host's
  channel and no other; `choose` goes round, and once hosts stop coming and
  going every channel gets its turn.
- ServiceManager: one object per followed service; no event is applied to an
  object that `choose` does not see; no channel of one service is returned for
  another; the object of a service has the hosts whose last event said online.
- Registry: no key outlives its lease; a process that registered stays in the
  store while its lease lives; the address of a dead process leaves.
- Discovery: past all events the rotation is what the store says; the call of
  `main` is made on a channel that is there, as long as its host is.
- MQClient: messages arrive in order and after what they need was declared; what
  `publish` accepted arrives; a message is acknowledged after its callback; the
  destructor ends.
- Echo RPC: the callback finds and frees what it owns, once; its line belongs to
  its call; every call ends.
- Protocol messages: every string has one owner; a message survives the wire.
- Person persistence: no name goes through a buffer that is gone or too small
  (except after a time that cannot be converted, see below); ids are given out
  once.
- Elasticsearch client: true means done, and stays done until the next call on
  the id; a search returns what was asked for.
- Logger: initialised before use, and once.

## Modules

| module | what it is |
|---|---|
| `Hosts` | the addresses that store, events and channels share |
| `ServiceChannelOps` | a ServiceChannel as a value, and the critical sections of `append`, `remove`, `choose` as operators on it |
| `LoadBalancer` | the abstract specification: members, rounds, and the one wrong answer after removals |
| `ServiceChannel` | one object called from any number of threads; implements `LoadBalancer` |
| `ServiceChannelBrpc` | the first version of the class; extends `ServiceChannel` |
| `ServiceManager` | the manager, one `Table` per object, event threads and client threads |
| `Registry` | provider processes, and etcd as they use it |
| `Discovery` | composes `Registry`, the list-then-watch client and a `Table` |
| `DiscoveryClient` | extends `Discovery` by the `main` of discovery.cc: the stub and its call |
| `MQClient` | the programs publish.cc and consume.cc, two threads each, and the broker |
| `ProtoMessageOps` | the messages as values: merge, wire format, parser |
| `ProtoMessage` | message objects and the strings they own |
| `EchoRpc` | client processes, a server process and brpc between them; uses `ProtoMessageOps` |
| `PersonStore` | the generated persistence of Person on one connection, and the table |
| `ESClient` | the four Elasticsearch classes and a server |
| `*Proofs` | lemmas and theorems about the module they are named after; `ServiceChannelProofs` has those of `ServiceChannelBrpc`, `DiscoveryProofs` those of `Registry`, `Discovery` and `DiscoveryClient`, `EchoProofs` those of `ProtoMessageOps`, `ProtoMessage` and `EchoRpc` |
| `MC*` | symmetry sets, and the values a configuration cannot write |

### ServiceChannelOps and ServiceChannel

`sc` is the object: `array`, `hosts` and `count` are `_rotating_array`,
`_hosts` and `_rotation_count`. A critical section holds the mutex from its
first access to its last and waits for nothing, so it is one step. `append` is
two: `AppendCreate` (the channel is built and `Init` succeeds; `AppendFail` when
it returns -1), then `AppendInsert`. `remove` is `RemoveHost`, `choose` is
`Choose`.

The counter is not adjusted by `remove`, so `choose` can index past the end of
the vector. What it reads there is determined by the build: `vector::erase`
moves the later pointers down, which leaves the last slot null, or, when it is
the last slot that goes, destroys it in place, which leaves its bytes (the
makefile compiles without optimisation). The field `past` keeps those slots.
The other fields of the record (`erased`, `start`, `shrunk`, `reappended`) are
history: no operation reads them.

`LoadBalancer` says what a caller may rely on. A round hands out each member
once; adding or dropping a member starts a round afresh; after drops, one
answer may be null or a member that is gone, and only one, however many members
were dropped. The refinement mapping takes `members` to the range of the
vector, and `round` to the slots from `start` up to the counter.

### ServiceChannelBrpc

The first `remove` compares the iterator it erased through with `end()`. The
standard leaves it invalid; in the vectors of the build it is a pointer to the
erased slot, equal to `end()` exactly when the slot was the last. Then the
method reports a program logic error and leaves the key in the hash table, so
the branch the later version never takes is taken here each time the newest
channel goes. `StaleKeyWasErased` and the refinement say that this is all it
does. The first `append` connects every channel to `127.0.0.1:8080` and stores
it under the host it was given; here `addr[c]` is that host.

### ServiceManager

`services[s]` is `_services`, `table[o]` the object `o`, `lock` the manager's
mutex where it is kept from one step to the next (only by `choose`). A service
name is a sequence of path components, so `getServiceName` is "all but the last"
(and all of it when there is one). `make_shared` does not return null, so the
branch of lines 129-133 is never taken. An event is looked up under the
manager's mutex and applied later under the object's, so two events about one
host that two threads deliver may be applied in the other order. `said` is the
history of that, for each service and host: what the last event said ("online",
"offline"), or why it may be without effect: nobody followed the service or the
channel could not be built ("lost"), or another event about the same host was in
progress ("raced"). Nothing forbids the last to a caller of the class;
`Discovery` does not do it. Events of different hosts may overlap as they like.
Two instances of a service with one host are, for the object, one host that is
appended twice.

### Registry, Discovery and DiscoveryClient

A process of key `k` is `down`, `leased` (the `Registry` is constructed),
`started` (`server.Start` returned, whatever it returned), `running` (`registry`
put the key) or `unregistered` (`registry` returned false; `main` drops the
result and serves on, so nobody ever puts the key: `RegistryPutFails`). `main`
tests the result of `AddService` where it means that of `server.Start`, so
`ServerStart` has a case that does not listen and goes on all the same. `Stop`
is the end of a process, orderly or not: `Cancel` and a crash both leave the
lease to expire. `KeepAliveLost` is a process that runs on and cannot reach
etcd; when its lease has expired it has no way to register again, which is what
`RegisteredStays` leaves open: it speaks of a process whose lease lives. `log`
is the history of the keys, in the order of etcd's revisions.

`Discovery` is the constructor (`Ls` or `LsFails`, `Replay` for each key,
`StartWatch` at the present revision), the callback (`Notify` for the next
event, `NotifyError` for the response that ends the watch) and the client's
`Choose`. etcd lists keys in order; `Replay` takes them in any. The callbacks
come one after the other, so an append is one step here.

`DiscoveryClient` adds the main thread. `MakeStub` is `choose(...).get()`: from
there on only the vector and the hash table keep the channel alive (`Alive`).
`NotifyCaller` is the watcher's step beside the call; the call is answered, or
fails, or finds no channel (`EchoCrashes`). `Ends` is the end of the process,
which ends its watch.

### MQClient

`mq[c]` is a process: how far `main` is (`main`, `at`), the loop thread (`loop`,
`async`, `got`), and the AMQP channel the two threads share. The calls of
`declare_combo`, `publish` and `consume` hand over one frame each. A call is two
steps: it reads whether its frame has to be kept (`CallLooks`) and keeps or sends
it (`CallActs`). Nothing in the class stops the loop thread in between, and
AMQP-CPP does not guard a channel. The race is undefined behaviour; the outcome
that is modelled is the one in which no memory is damaged (a damaged process is
`Crash`, which may come at any time). It leaves a message in `queue` when no
answer is left to send it, and every later message behind it. `raced` is its
history. A message is told apart by its publisher and its number there; a
publisher is one run of publish.cc, so that a second run is another publisher.

The steps of the loop thread are the callbacks: `Connect`, `AnswerOk`,
`AnswerError` (`onError` calls `exit(0)`), `Received` and `Ack`, `Break`
(`watcher_callback`), `ConnectionLost`. `wire` is what is between the channel and
the broker; the broker reads it from the front. `Destroy` is the destructor up to
the join, `Joined` the rest of it and the end of `main`. AMQP-CPP and RabbitMQ are
modelled from how the class uses them.

### ProtoMessageOps and ProtoMessage

`EchoRequest` and `EchoResponse` have one string field each and the same code.
As a value a message is its text and the sequence of fields it does not know;
the wire is a sequence of fields. `Merged`, `Wire`, `ByteSize` and `ParseField`
are `MergeImpl`, `_InternalSerialize`, `ByteSizeLong` and one turn of the loop of
`_InternalParse`: a text that is not UTF-8 is written and refused when read, a
failed parse keeps what it has read, an end-group tag stops it.

As an object a message points to the shared empty string or to a string of its
own (`msg[o].str`, `heap`); `held` are the strings the program owns after
`release_message`. `Says` is the assignment of `ArenaStringPtr`: it writes to a
string of its own and leaves the shared one alone. `Set` and `Mutable` make a string of its own
even for an empty text, while `Clear` on the shared one makes none; the last
argument of `Says` tells them apart. Objects on an arena do not
occur in the repository, and the branches for them are left out.

### EchoRpc

`main[c]` is the main thread of a client, `call[c]`, `attempt[c]` and `failed[c]`
what brpc does for it, `response[c]` the response (the controller shares its fate),
`lines[c]` what the callback wrote. `CallEcho` covers `main` from the channel to
the stub's call, `Sleep` the end of the process three seconds later, and
`Callback` the guards that free both objects. On the server `Start` may end in a
server that does not listen (its result is dropped), `Receive` and `Echo` are
`CallMethod` and the handler whose guard runs `done`, `Quit` and `Crash` the two
ends. brpc in between is external: connections are made, refused and lost, a lost
attempt is made again up to `max_retry` times, and the answer of an attempt that
was given up is not taken for a later one's.

### PersonStore

ODB keeps, for each connection, an image of a row and the arrays that bind the
statements to it. `sts` is that cache: the capacity of the name's buffer with
the version of the image, and, for each binding and prepared statement, the
capacity it was made for and the versions it has seen. `Resized` is `grow` and
the part of `init(image, object)` that replaces a buffer, with the
`im.version++` of its caller (`Grown`); `Bound` is `bind` where it is due,
`Sent` the runtime's copy, `Reads` the fetch that is repeated when a name was
truncated. Each operation is one step of the program and hands the cache through
these in the order of the code; between steps other operations, rollbacks and
the loss of the connection fall, also between a query and the load of its rows,
and the end of the process (`Crash`). libodb, its transactions and MySQL are
external.

`init(image, object)` replaces the buffer at lines 227-234 and converts the time
at 245-247, which throws for an infinite time or one out of the range of
`TIMESTAMP`. Then the caller never counts the version up (396, 450), and the
statements keep the address of a buffer that was freed (`TimeRefused`,
`InitThrows`). The history `thrown` is true from there until the version is
counted up for another reason. `VersionsTellBuffers` says that the versions are
right but for that time; a statement executed within it reads or writes freed
memory, and the model does not follow what becomes of the text then. The
history `text` of a name is "spoilt" when it went through a buffer that is gone
or too small at any other time, which `WholeRows` forbids.

### ESClient

One object is in use at a time; `body` is its `_properties`, `_item` or `_bool`,
`asked` what the caller appended. A request is sent (`Send`), done or refused by
the server (`Handle`, `Refuse`) and returns (`Returns`), or it gets no answer and
elasticlient throws (`Throws`). What was not done then may be done at any later
time (`HandleLate`). The server searches what was stored at the last `Refresh`.
Documents are functions on their fields; text, types and analyzers are left out.
`acked` is what the last call on an id stored when it returned true; only the next
call on that id resets it, so a request that is done late contradicts it when it
changes the document. `overtaken` are the ids where that can happen: their last
call was made while one that had been given up could still be done. The code
does not tell such a call from any other, and `AcknowledgedIsStored` is not true
of it.

Both `append_..._terms` put their values under a field with the literal name
`key`, whatever their parameter `key` is (193-194, 211-212). So a terms condition
on any other field is not sent, and a search returns documents the caller did
not ask for. `SearchAnswersQuery` compares the documents with the fields the
caller named; it leaves those conditions out (`Kept`) and holds for the others,
of all clauses.

## Runs

| run | question | instance |
|---|---|---|
| `channel_threads` | do vector, hash table, counter and pointers under construction agree in every interleaving; does the object implement `LoadBalancer`, and does every channel that stays get its turn once the rotation no longer changes? | 2 threads, 2 hosts, 3 channels |
| `brpc_safety` | does the first version still take out the right channel, and go round? | 1 thread, 2 hosts, 4 channels |
| `manager_events` | are services kept apart, with one object each that has the hosts whose last event said online, when events of several hosts overlap? | 2 services and 2 keys of events, 2 hosts, 2 event threads, 1 client, 2 objects, 2 channels, symmetry |
| `discovery_safety` | does a key go away with its lease and only then, does a process that registered stay in the store, and is the rotation what the store says? | 2 keys, 2 hosts, 3 leases, 2 channels, symmetry |
| `discovery_client` | is the channel of the stub there while the call is under way; do the address and the host of a dead process leave the store and the rotation? | 1 key, 2 hosts, 2 leases, 2 channels |
| `mq_programs` | do messages arrive in order, routed, and get handled; does the destructor end? | 1 publisher of 2 messages, 1 consumer started up to twice |
| `person_rows` | is every object and every row whole, and is an id given out once? | 1 object, names of 1 and 2 bytes in buffers of 1, times that are stored, NULL and not convertible, 2 ids |
| `proto_objects` | does every string have one owner, and does what an object says survive copies and the wire? | 2 objects, 3 strings, 3 texts (one not UTF-8), 2 kinds of unknown fields and at most 2 of them, 7 wires, symmetry |
| `echo_calls` | is the response there for the callback, does its line belong to its call, and does every call end? | 2 clients with their own texts, `MaxRetry` 1, 2 runs of the server |
| `es_documents` | is what was acknowledged stored, and does a search return what was asked for? | 2 fields, 1 value, 2 given and 1 generated id, 3 requests, 2 conditions |

The properties of `Registry` are checked in the runs of `Discovery` and
`DiscoveryClient`, whose next-state relations take every step of `RegNext`.

Two runs expect a violation. Each states what the code's own messages say and
TLC shows how the code does otherwise:

- `channel_nullOnlyWhenEmpty`: append two hosts, choose once, remove one: the
  counter names the slot after the end and `choose` returns what is there.
- `discovery_offlineIsRemoved`: a process is restarted before its lease
  expired, so the client appends its host twice; when the host goes offline one
  of the two channels stays.

Two more places where the code does otherwise than it says are steps of the
models and have no run, since one line of the code decides each: the program
logic error of the first `remove` (`EraseThroughInvalid`) and the server that
does not listen and registers (`ServerStart`; the echo server has the same in
`Start`).

Every property of a passing run has a mutated definition beside the one it
mutates (a comment says what the mutated form does), with which TLC finds the
property violated.

### Bounds

The constants are the only bounds.

- Channels and leases: an identity is used once, so a behaviour appends at most
  `Channel` times and has at most `Lease` processes, with two events for each.
  Three channels let a vector grow to three and shrink to one with the counter
  left behind, under two threads; with four (`brpc_safety`) it grows again over
  the slots that were vacated. Two hosts give a host that is appended twice
  next to one that is not. Two threads suffice for what a pair of calls can do
  to each other; three leases give two restarts of a key or a restart beside
  another key.
- `manager_events`: two event threads and two hosts give two events about one
  host at a time, whose outcome is open, beside events about different hosts,
  whose outcome is not. The keys are `service/echo/1`, an instance of the service
  `service/echo`, and `service`, which has no slash and names itself: one event
  key for each way `getServiceName` can go, and two services that a wrong cut
  mixes up.
- `mq_programs`: two messages give one that is stuck and one that comes after
  it, and a consumer that is started twice gets a message again that it had not
  acknowledged; the three requests of `declare_combo` are all there.
- `person_rows`: a buffer of one byte and a name of two give every growth there
  is, from `persist`, `update` and a truncated fetch; ages above 65535 are cut to
  `unsigned short`; an object without a time is refused by MySQL, and one with a
  longer name and a time that cannot be converted makes `init` throw after it
  replaced the buffer. With two ids a
  row is erased and its id would be free for another.
- `proto_objects`: two objects and the program can all claim a string at once, and a third
  string is there for a copy.
- `echo_calls`: the code's `max_retry` is 3; with 1 a call has a first, a last
  and a lost attempt, which is every case of the guard. Two runs of the server
  give a crash between two attempts.
- `es_documents`: three requests are one that is given up, one after it that
  returns true, and a search or a second change of the same id; with two given
  ids the one that is given up is of the same document or of another.

Deadlock is not checked where the modelled programs come to an end or the last
identity is used up: in `mq_programs` and `discovery_client` all processes
exit and nobody starts another; in `echo_calls` the clients exit after one call
and the server has had its runs; in `person_rows` the ids and in `es_documents`
the requests are used up. The other runs check it.

### Fairness

- `ServiceChannel!FairSpec`: an `append` that built its channel stores it (the
  critical sections of a `std::mutex` end, and nothing in them waits), and some
  client calls `choose` again and again, which is what "every channel gets its
  turn" is about. Nothing is assumed of `append` and `remove`: `NoStarvation` has
  the condition `Settles`, that from some time on the rotation does not change. It
  is not true without it: with [c, x] and the counter at 1, an append, a choice,
  a removal of what was appended and a choice bring the counter back to 1, and
  c is never chosen.
- `Discovery!FairSpec`, and `CallFairSpec` of `DiscoveryClient`: time passes, so a
  lease nobody keeps expires; the constructor runs to its end; the watcher gets
  the events there are, as long as the watch lives. Nothing is assumed of the
  processes, of the network or of the call.
- `MQClient!FairSpec`: the two threads of a process and the broker go on. That
  `main` wakes up from its sleep is not needed, and nobody has to start a process.
- `EchoRpc!FairSpec`: brpc connects to a server that listens, delivers what
  arrived and notices a connection that is gone; handlers run to their end. Who
  starts a server, when it quits, and which messages are lost is free.

`ServiceManager` needs none, since no liveness is claimed of it: that a given
caller gets the mutex cannot be, since `std::mutex` is not fair. Runs that check
liveness use no symmetry.

## Proofs

`ServiceChannelProofs` proves, for every set of threads, hosts and channels and
from the assumptions that the null values are not elements of those sets:

- `TypeCorrect`, `NoLogicError`, `ErasedForGood`, `KeysCorrect`,
  `OrphansExplained`, `ReadsOnlySlots`: the invariants of `channel_threads`;
- `StoredOnce`: a channel built outside the lock is stored once, by its thread;
- `RoundRobin`: `Spec => LB!Spec`, the refinement of `channel_threads`.

They rest on one inductive invariant, `IInv`. The properties are not inductive
by themselves. That a key has a slot survives the removal of another host only
if no two hosts share a channel, which follows from `KeyNamesItsHost`; that
survives `AppendInsert` only if the pointer a thread carries is the one it
built for its host and no other thread carries it (`PendingIsFresh`); that a
removed channel does not come back needs, besides, that a vector has no channel
twice. The bound on what `choose` reads needs the length of `past` to grow by
one as the vector shrinks by one. `Consistent` collects what concerns one
object; `ServiceChannelOpsProofs` shows that each critical section preserves
it, and does so for any machine that uses the operators. For the refinement,
`RoundStep` shows that a choice within bounds is a member the round has not
visited and that the round closes exactly when all have been: an argument about
slot numbers modulo the length, carried to channels by the vector being
injective.

The first version has the same refinement and, for its own property, a weaker
invariant. There a key may keep a channel that was erased, so `Consistent`
fails; what the vector needs for itself is `RotationConsistent`, the part of
`Consistent` that does not speak of the hash table. `IInvBrpc` is that with
`StaleKeyWasErased`: `StaleKeysExplained` and `RoundRobinBrpc` follow, the second
by the lemmas that serve `RoundRobin`.

`ServiceManagerProofs` proves `TypeCorrect`, `WorkReachesChooseAlways`,
`ServicesApartAlways`, `ViewFollowsEventsAlways` and `NoOfflineHostServedAlways`
for any number of services, keys, hosts, objects, threads and channels, from
`ManagerAssumption` (names are not empty; the null values and the free mutex are
none of the elements they stand beside; an event thread is no caller). Its
`IInv` holds every object to `Consistent`, by the lemmas on the critical
sections, and adds what ties them together: a thread at work has the object that
`_services` has for its service, although the mutex was released before
(`CallsOnTheirObject`: nobody replaces an object); a channel that is built is of
the event of its thread, and no object has had it (`PendingIsFresh`); what an
object holds or held was built for its service (`ChannelsOfTheirService`),
"held" because the counter can name a slot of an erased channel. The two
properties about the hosts speak of a host without an event in progress. So the
invariant has to say what holds while there is one
(`ViewButForTheEventInProgress`): unless events about the host raced, it is the
only one, `said` is what it says, and it is not applied yet; the other hosts are
known or not as their last events said. `LookedUpView` and `AppliedView` are the
two steps of an event seen from there.

`DiscoveryProofs` proves of `Registry` `RegTypeCorrect`,
`NoKeyOutlivesItsLease`, `RegisteredStaysAlways` and `EventsAreHistory` for
every set of keys, addresses and leases. The invariant `RegIInv` adds that
leases are not shared, between processes or between keys, and that the lease of
a key is not the lease of another key's process: without it the expiry of one
lease could take a second key along or leave it. `LogIsHistory` says that the
value of a key is what its last event left, and that a DELETE carries the value
its key had.

Of `Discovery` it proves `ClientKnowsTheStore` and `ClientServesTheStore`. Both
speak of a client that is past all events, which no step leads to directly, so
`IInv` says what holds at every position: what the client was told of a key is
the value the key had after the first `pos` events (`ToldAsOfPos`, with the part
of the list that is still to be replayed), and the rotation leads to what it was
told, with the exceptions (`ServesTheTold`). That a DELETE takes out the right
host needs `LogIsHistory`; that it takes out no other needs that two keys with
one host make that host one of the exceptions. Of `DiscoveryClient` it proves
`CallKeepsItsChannel` and `CallerIsClient`, `CallSpec => Spec`: the program with
its call is a client of `Discovery`, so that what is proved there holds of it
(`CallerServesTheStore`); that `Discovery` in turn only reads what `Registry`
does is `DiscoveryOnlyReads`, `Spec => RegSpec`. The invariant `CallIInv` adds
that nobody has called `choose` before `main` does, which is why its counter
names a slot whenever there is one.

`MQClientProofs` proves `TypeCorrect`, `MessagesAreRouted`, `MessagesKeepTheirOrder`,
`MessagesAreKept` and `KeptFramesAreSent` for any number of publishers, consumers,
messages and restarts, from `MQAssumption` (the two programs are different
processes; "no message" is no message). `ProcessOK` is what one process keeps of
its channel as a value, whatever the broker does: one request at a time, a call
that found the channel free finds it so when it acts (only the loop can change
it in between, and it only makes it freer), a publisher's frames in the order of
its calls with the kept ones behind the sent ones, no message ahead of a request
that waits, and each declaration declared, under way or refused. A lemma for
each thing that happens to a channel (a call, an answer, an acknowledgement, a
frame taken, the loss of the connection) shows that it stays so. `IInv` adds the
broker's part: what arrived was accepted and has nothing of its publisher's
before it still to come.

`PersonStoreProofs` proves `BuffersInStep`, `RowsAreWhole` and `IdsIssuedOnce` for
every set of objects and people, every first capacity and every number of ids.
`CacheInv` adds to `VersionsTellBuffers` that no binding is ahead of the image and
no statement ahead of its binding: only then does a version that is counted up
differ from every version seen before, which is why equal versions may be taken
for equal buffers, and why one count makes good what an `init` that threw left
(`GrownInv`). `InitThrowsInv` is the step that leaves it. Each lemma about
`Resized`, `Bound`, `Sent` and `Reads` says that it keeps `CacheInv` and what it
leaves the statement with (`ReadyInv`); that a name is not spoilt follows where the
buffer is as large as the name when it is sent or fetched. The parameters
assumed are those of `PersonAssumption`.

`EchoProofs` has three parts. The parser is a fold over the fields of a wire, and
what it computes for a wire of any length is proved by the least number of
fields for which it does not hold (`Least`, from the well-foundedness of `<`):
that is a statement about a set of numbers, and the library's induction
theorems, which take an operator, are not needed. `LoopExists` shows that the
function of the fold exists, `ParsedIs` that the parse is the last of a sequence
of states one turn of the loop apart; `ReadsUnknown` is the run of fields that
the program does not know, `ReadsNoMore` that nothing is read after a failure.

With them `WiresAreReadBack` and `WiresAreMerged` hold of every message an object can
come to say, and `StringsHaveOneOwner` and `CopiesAreEqual` of every set of objects
and strings, from `Default` being no string of the heap and from `WiresAssumption`:
what comes from outside is a sequence of fields. `IInv` adds to `OneOwner` that the
heap is within `Str` and that an object is a record of its two fields; `Typed`
that strings have texts and objects have unknown fields. A copy clears its
target before it merges, and leaves the source alone only because no string has
two owners.

`ResponsesAreThere` and `LinesTellTheCalls` are proved of `EchoRpc` for every number of
clients, retries and runs of the server, from `EchoAssumption` (every client has a
text, every text a reply, both are UTF-8; a freed response is no message).
`CallsInv` says where each call is (`Phase`), that every message on the way and every
request being handled belongs to an attempt of its client and carries its
text or the reply to it, and counts: the requests on the way or being handled
and those handled before are together no more than the attempts (`Count`).
That a request is handled no more often than it was sent is not inductive
without those still to be handled; and a request is counted once only if it is
never on the way and being handled at a time (`Apart`). That
what was sent is what is read is `TextsAreRead`, the first part again.

`ESClientProofs` proves `AcknowledgedStored` and `SearchAnswers` for all fields,
values, ids and numbers of requests, from `ESAssumption` (ids that are given are
not generated ones, a document is not "no document"). `IInv` adds what a request
that was answered says of the store, that a request given up is on an id that is
overtaken or of which nothing is known (`LateInv`), that the ids the server chooses
are never overtaken, and that the body of an `ESSearch` has every condition the
caller appended and the code keeps, in the clause he meant, and no clause more.
The step that matters is `HandleLate`. It may change the document of an id it
names, and then the last call on that id was made before it was given up
(nothing is known) or after (the id is overtaken). An insert without an id takes
a generated id without a document, and so none under which a document was
acknowledged; nor was a removal, since `insert` does not tell the program the
ids that the server chose.

The inductive invariants were checked by TLC on the instances of the runs before
they were proved, that of `MQClient` with two publishers as well. Every invariant
of a passing run, `ImplementsLoadBalancer` and `CopyIsEqual` are theorems. What
stays with TLC is liveness, which needs fairness and ENABLED: `NoStarvation`,
`DeadAddressLeaves`, `DeadHostLeaves`, `JoinReturns`, `AcceptedArrives`, `ConsumerDrains`
and `CallsEnd`. So do the two runs that expect a violation.

## Not modelled

- `Logger`: one static pointer that `init_logger` sets and the macros read. Every
  program that logs through it calls it first; a model would show no more than
  the line does.
- The programs of gflags_test, gtest_test and spdlog_test, `brpc_test/test.cc`
  and the `main` of odb_test, which keep no state.
- The arena branches of `main.pb.h` and `main.pb.cc`, which no program here takes,
  and their descriptor and reflection tables, which are data.
- The text of messages, logs, statements and JSON documents; analyzers and types
  of the Elasticsearch mapping.
- brpc, AMQP-CPP, libev, RabbitMQ, etcd, libodb, MySQL and Elasticsearch beyond
  how the code uses them; what is modelled of them is marked external in the map.
- What the code gets wrong and the properties therefore leave out. Each is a step
  of a model, excepted in the property's comment and listed as a hazard: a watch
  that ended (`etcd.hpp:60`); a process whose lease was lost, or whose `registry`
  failed, that never registers again; a late Elasticsearch request that undoes a
  call that returned true; a terms condition on a field other than `key`; a name
  that goes through a freed buffer after `init` threw; events about one host that
  two threads deliver at a time; a message stuck when the two threads of MQClient
  race.
- A grant of a lease that fails in the constructor of `Registry`: the exception
  ends the process before it did anything.
- In MQClient, a race that damages memory other than by ending the process, and
  the effect of `exit(0)` on static objects that the other thread still uses.
- In `EchoRpc`, what the threads of brpc do with a channel of `main` while the
  process exits.

## Plan

Every safety property that a run checks is proved. What is left says more, in
this order:

1. `ServiceManager`: that the object of each service implements `LoadBalancer`,
   for any number of event threads and callers, by `RoundStep` and the lemmas that
   serve `RoundRobin`.
2. `MQClient`: an abstract queue that takes a message when `publish` accepts it and
   hands it over in order, and the programs as an implementation of it.
3. The safety half of the liveness properties: what the step that is
   promised decreases, so that only fairness remains to TLC.
