------------------------------- MODULE MQClient -------------------------------
(***************************************************************************)
(* thx::MQClient of example/RabbitMq_test/rabbit_mq.hpp in the two         *)
(* programs that use it, publish.cc and consume.cc, with the broker and    *)
(* AMQP-CPP as the class uses them.                                        *)
(*                                                                         *)
(* A process has two threads.  The constructor starts one that runs the    *)
(* libev loop: it makes the connection, reads the broker's answers and     *)
(* calls the callbacks.  The main thread calls declare_combo, publish and  *)
(* consume on the same AMQP channel, sleeps, and runs the destructor.      *)
(*                                                                         *)
(* The channel sends one request at a time: a frame that comes while a     *)
(* request waits for its answer, or while others do, is kept in queue, and *)
(* the answer sends what is kept.  Nothing guards the channel against the  *)
(* two threads: main may find that a frame has to be kept, the loop handle *)
(* the answer, and main keep the frame when nobody is left to send it.     *)
(*                                                                         *)
(* Bounds: NMessage is how many messages publish.cc publishes (10 there);  *)
(* a publisher is one run of publish.cc, and a consumer is started         *)
(* MaxStarts times.                                                        *)
(***************************************************************************)
EXTENDS Integers, SequencesExt

CONSTANTS
  Publisher,  \* the processes that run publish.cc
  Consumer,   \* the processes that run consume.cc
  NMessage,
  MaxStarts,
  NoMessage

\* A message is told apart by who publishes it, and when.
Message == [by : Publisher, no : 1 .. NMessage]

ASSUME MQAssumption ==
  /\ NMessage \in Nat
  /\ MaxStarts \in Nat
  /\ Publisher \cap Consumer = {}
  /\ NoMessage \notin Message

VARIABLES
  mq,        \* mq[c]: the process c with its MQClient (see New)
  starts,    \* starts[c]: how often c was started
  declared,  \* what the broker has of the exchange, queue and binding
  ready,     \* the messages in the broker's queue
  unacked,   \* unacked[c]: those delivered to c and not acknowledged
  consuming, \* the processes the broker delivers to
  arrived,   \* the messages the broker took, in order (history)
  accepted,  \* the messages publish() returned true for (history)
  unrouted,  \* the messages the broker took with no binding (history)
  handled    \* the messages a callback was given (history)

broker == <<declared, ready, unacked, consuming, arrived, unrouted>>
vars == <<mq, starts, broker, accepted, handled>>

Client == Publisher \cup Consumer
Frame(type, m) == [type |-> type, msg |-> m]
Topology == {"exchange", "queue", "binding"}
IsRequest(f) == f.type \in Topology \cup {"consume"}

\* A process after its constructor; and one that does not run.
New ==
  [main   |-> "calls",     \* or "down", "sleep", "join"
   at     |-> 0,           \* calls main() has made
   look   |-> "none",      \* what the call found, before it acts: "keep", "send"
   loop   |-> "run",       \* the loop thread, or "over"
   async  |-> FALSE,       \* ev_async_send was called
   conn   |-> "opening",   \* or "up", "lost"
   waits  |-> FALSE,       \* a request waits for its answer
   queue  |-> << >>,       \* frames that are kept
   wire   |-> << >>,       \* frames on their way to the broker
   answer |-> "none",      \* the answer on its way back: "ok", "error"
   got    |-> NoMessage,   \* the message the callback was given
   raced  |-> FALSE]       \* look was stale when it was used
Down == [New EXCEPT !.main = "down", !.loop = "over", !.conn = "lost"]

Init ==
  /\ mq = [c \in Client |-> Down]
  /\ starts = [c \in Client |-> 0]
  /\ declared = {}
  /\ ready = << >>
  /\ unacked = [c \in Client |-> << >>]
  /\ consuming = {}
  /\ arrived = << >>
  /\ accepted = {}
  /\ unrouted = {}
  /\ handled = {}

-----------------------------------------------------------------------------
(* The end of a process, and of a connection *)

\* The broker puts what it has no acknowledgement for back at the front.
Requeue(c) ==
  /\ ready' = unacked[c] \o ready
  /\ unacked' = [unacked EXCEPT ![c] = << >>]
  /\ consuming' = consuming \ {c}
  /\ UNCHANGED <<declared, arrived, unrouted>>

\* exit(0), the return of main(), or a crash: frames that were kept or not yet
\* read by the broker are gone.
Ends(c) ==
  /\ mq' = [mq EXCEPT ![c] = Down]
  /\ Requeue(c)
  /\ UNCHANGED <<starts, accepted, handled>>

Crash(c) == mq[c].main # "down" /\ Ends(c)

-----------------------------------------------------------------------------
(* The main thread *)

\* The frames of the calls of main(), in order.
Calls(c) ==
  << Frame("exchange", NoMessage), Frame("queue", NoMessage),
     Frame("binding", NoMessage) >>
  \o IF c \in Consumer THEN << Frame("consume", NoMessage) >>
                       ELSE [i \in 1 .. NMessage |->
                               Frame("publish", [by |-> c, no |-> i])]

\* The constructor.
Start(c) ==
  /\ mq[c].main = "down"
  /\ starts[c] < IF c \in Consumer THEN MaxStarts ELSE 1
  /\ mq' = [mq EXCEPT ![c] = New]
  /\ starts' = [starts EXCEPT ![c] = @ + 1]
  /\ UNCHANGED <<broker, accepted, handled>>

MustKeep(p) == p.waits \/ p.queue # << >>

\* A call of declare_combo, publish or consume reads whether its frame has to
\* be kept ...
CallLooks(c) ==
  /\ mq[c].main = "calls"
  /\ mq[c].look = "none"
  /\ mq[c].at < Len(Calls(c))
  /\ mq[c].conn # "lost"
  /\ mq' = [mq EXCEPT ![c].look = IF MustKeep(mq[c]) THEN "keep" ELSE "send"]
  /\ UNCHANGED <<starts, broker, accepted, handled>>

\* Mutated form: the frame is sent, whatever waits.
KeepOrSendAlways(p, f) ==
  [p EXCEPT !.wire = Append(@, f), !.waits = IsRequest(f)]

\* ... and keeps it or sends it.
KeepOrSend(p, f) ==
  IF p.look = "keep"
  THEN [p EXCEPT !.queue = Append(@, f), !.raced = @ \/ ~MustKeep(p)]
  ELSE [p EXCEPT !.wire = Append(@, f), !.waits = IsRequest(f)]

\* The message publish() returns true for.
Accepted(f) == IF f.type = "publish" THEN {f.msg} ELSE {}

CallActs(c) ==
  LET f == Calls(c)[mq[c].at + 1]
  IN  /\ mq[c].main = "calls"
      /\ mq[c].look # "none"
      /\ mq[c].conn # "lost"
      /\ mq' = [mq EXCEPT ![c] = [KeepOrSend(mq[c], f) EXCEPT
                                    !.at = @ + 1, !.look = "none"]]
      /\ accepted' = accepted \cup Accepted(f)
      /\ UNCHANGED <<starts, broker, handled>>

\* The connection is lost: publish() returns false and main() goes on; a
\* request fails at once, and its onError calls exit(0).
CallFails(c) ==
  /\ mq[c].main = "calls"
  /\ mq[c].at < Len(Calls(c))
  /\ mq[c].conn = "lost"
  /\ IF IsRequest(Calls(c)[mq[c].at + 1])
     THEN Ends(c)
     ELSE /\ mq' = [mq EXCEPT ![c].at = @ + 1, ![c].look = "none"]
          /\ UNCHANGED <<starts, broker, accepted, handled>>

\* main() has made its calls and sleeps for ten seconds.
Sleep(c) ==
  /\ mq[c].main = "calls"
  /\ mq[c].at = Len(Calls(c))
  /\ mq' = [mq EXCEPT ![c].main = "sleep"]
  /\ UNCHANGED <<starts, broker, accepted, handled>>

\* Mutated form: the loop is not told.
DestroySilently(c) ==
  /\ mq[c].main = "sleep"
  /\ mq' = [mq EXCEPT ![c].main = "join"]
  /\ UNCHANGED <<starts, broker, accepted, handled>>

\* The destructor, up to the join: the loop is told to break.
Destroy(c) ==
  /\ mq[c].main = "sleep"
  /\ mq' = [mq EXCEPT ![c].main = "join", ![c].async = TRUE]
  /\ UNCHANGED <<starts, broker, accepted, handled>>

\* The join, the members' destructors, and the return of main().
Joined(c) ==
  /\ mq[c].main = "join"
  /\ mq[c].loop = "over"
  /\ Ends(c)

-----------------------------------------------------------------------------
(* The loop thread, between two callbacks *)

Turns(c) ==
  mq[c].main # "down" /\ mq[c].loop = "run" /\ mq[c].got = NoMessage

Connect(c) ==
  /\ Turns(c)
  /\ mq[c].conn = "opening"
  /\ mq' = [mq EXCEPT ![c].conn = "up"]
  /\ UNCHANGED <<starts, broker, accepted, handled>>

\* Mutated form: an answer sends one frame.
FlushedOne(p) ==
  IF p.queue = << >> THEN [p EXCEPT !.waits = FALSE]
  ELSE [p EXCEPT !.wire = Append(@, Head(p.queue)), !.queue = Tail(@),
                 !.waits = IsRequest(Head(p.queue))]

\* Mutated form: the frames are kept on a stack.
FlushedNewestFirst(p) ==
  [p EXCEPT !.wire = @ \o Reverse(p.queue), !.queue = << >>, !.waits = FALSE]

\* What an answer does to the channel: it sends the frames that are kept, up to
\* the first request.
Flushed(p) ==
  LET i == SelectInSeq(p.queue, IsRequest)
      n == IF i = 0 THEN Len(p.queue) ELSE i
  IN  [p EXCEPT !.wire = @ \o SubSeq(p.queue, 1, n),
                !.queue = SubSeq(p.queue, n + 1, Len(p.queue)),
                !.waits = i # 0]

\* A request has succeeded (onSuccess only logs).
AnswerOk(c) ==
  /\ Turns(c)
  /\ mq[c].answer = "ok"
  /\ mq' = [mq EXCEPT ![c] = [Flushed(mq[c]) EXCEPT !.answer = "none"]]
  /\ UNCHANGED <<starts, broker, accepted, handled>>

\* A request has failed: onError calls exit(0).
AnswerError(c) ==
  /\ Turns(c)
  /\ mq[c].answer = "error"
  /\ Ends(c)

\* The connection is lost: requests that wait fail, which is the end of the
\* process; otherwise nobody is told, and the loop has nothing left to watch.
ConnectionLost(c) ==
  /\ Turns(c)
  /\ mq[c].conn # "lost"
  /\ IF mq[c].waits
     THEN Ends(c)
     ELSE /\ mq' = [mq EXCEPT ![c].conn = "lost", ![c].loop = "over",
                              ![c].wire = << >>, ![c].answer = "none"]
          /\ Requeue(c)
          /\ UNCHANGED <<starts, accepted, handled>>

\* Mutated form: the message is acknowledged before the callback is called.
ReceivedAcksFirst(c) ==
  /\ Turns(c)
  /\ mq[c].answer = "none"
  /\ c \in consuming
  /\ ready # << >>
  /\ ready' = Tail(ready)
  /\ mq' = [mq EXCEPT ![c].got = Head(ready)]
  /\ UNCHANGED <<starts, declared, unacked, consuming, arrived, unrouted,
                 accepted, handled>>

\* onReceived: the callback is called with the next message ...
Received(c) ==
  /\ Turns(c)
  /\ mq[c].answer = "none"
  /\ c \in consuming
  /\ ready # << >>
  /\ ready' = Tail(ready)
  /\ unacked' = [unacked EXCEPT ![c] = Append(@, Head(ready))]
  /\ mq' = [mq EXCEPT ![c].got = Head(ready)]
  /\ UNCHANGED <<starts, declared, consuming, arrived, unrouted, accepted, handled>>

\* Mutated form: the callback does not return.
AckNever(c) == mq[c].got # NoMessage /\ UNCHANGED vars

\* ... and when it has returned, the message is acknowledged.
Ack(c) ==
  /\ mq[c].got # NoMessage
  /\ handled' = handled \cup {mq[c].got}
  /\ LET f == Frame("ack", mq[c].got)
         p == [mq[c] EXCEPT !.got = NoMessage]
     IN  mq' = [mq EXCEPT ![c] =
                  IF MustKeep(p) THEN [p EXCEPT !.queue = Append(@, f)]
                                 ELSE [p EXCEPT !.wire = Append(@, f)]]
  /\ UNCHANGED <<starts, broker, accepted>>

\* watcher_callback: the loop breaks, whatever is left to send.
Break(c) ==
  /\ Turns(c)
  /\ mq[c].async
  /\ mq' = [mq EXCEPT ![c].loop = "over"]
  /\ UNCHANGED <<starts, broker, accepted, handled>>

-----------------------------------------------------------------------------
(* The broker *)

\* The broker has the next frame of c.
First(c) == Head(mq[c].wire)
Takes(c, types) ==
  /\ mq[c].main # "down"
  /\ mq[c].loop = "run"
  /\ mq[c].conn = "up"
  /\ mq[c].wire # << >>
  /\ First(c).type \in types

TakesRequest(c) ==
  /\ Takes(c, Topology \cup {"consume"})
  /\ \/ /\ mq' = [mq EXCEPT ![c].wire = Tail(@), ![c].answer = "ok"]
        /\ declared' = declared \cup ({First(c).type} \cap Topology)
        /\ consuming' = IF First(c).type = "consume" THEN consuming \cup {c}
                                                     ELSE consuming
     \/ /\ mq' = [mq EXCEPT ![c].wire = Tail(@), ![c].answer = "error"]
        /\ UNCHANGED <<declared, consuming>>
  /\ UNCHANGED <<starts, ready, unacked, arrived, unrouted, accepted, handled>>

TakesMessage(c) ==
  /\ Takes(c, {"publish"})
  /\ mq' = [mq EXCEPT ![c].wire = Tail(@)]
  /\ arrived' = Append(arrived, First(c).msg)
  /\ IF declared = Topology
     THEN ready' = Append(ready, First(c).msg) /\ UNCHANGED unrouted
     ELSE unrouted' = unrouted \cup {First(c).msg} /\ UNCHANGED ready
  /\ UNCHANGED <<starts, declared, unacked, consuming, accepted, handled>>

TakesAck(c) ==
  /\ Takes(c, {"ack"})
  /\ mq' = [mq EXCEPT ![c].wire = Tail(@)]
  /\ unacked' = [unacked EXCEPT ![c] = RemoveFirst(@, First(c).msg)]
  /\ UNCHANGED <<starts, declared, ready, consuming, arrived, unrouted,
                 accepted, handled>>

BrokerTakes(c) == TakesRequest(c) \/ TakesMessage(c) \/ TakesAck(c)

-----------------------------------------------------------------------------

\* What the threads of a process do without being asked.
MainStep(c) ==
  CallLooks(c) \/ CallActs(c) \/ CallFails(c) \/ Sleep(c) \/ Joined(c)
LoopStep(c) ==
  \/ Connect(c) \/ AnswerOk(c) \/ AnswerError(c)
  \/ Received(c) \/ Ack(c) \/ Break(c)

Next ==
  \E c \in Client :
    \/ Start(c) \/ MainStep(c) \/ Destroy(c)
    \/ LoopStep(c) \/ BrokerTakes(c)
    \/ ConnectionLost(c) \/ Crash(c)

Spec == Init /\ [][Next]_vars

\* The threads and the broker go on.  That main() wakes up is not needed, and
\* nobody has to start a process.
FairSpec ==
  /\ Spec
  /\ \A c \in Client :
       WF_vars(MainStep(c)) /\ WF_vars(LoopStep(c)) /\ WF_vars(BrokerTakes(c))

-----------------------------------------------------------------------------
(* Safety *)

\* No message reaches the broker before the exchange, the queue and the binding
\* declare_combo asked for: publish() goes on without their answers, and its
\* frames stay behind them (rabbit_mq.hpp:52-75, 81).
NothingUnrouted == unrouted = {}

\* The messages of a publisher arrive in the order of the calls, none of them
\* twice and none that publish() did not accept (rabbit_mq.hpp:77-88,
\* publish.cc:62-72).
ArriveInOrder ==
  /\ \A i, j \in DOMAIN arrived :
       i < j /\ arrived[i].by = arrived[j].by => arrived[i].no < arrived[j].no
  /\ ToSet(arrived) \subseteq accepted

\* A message the broker routed is in its queue, with a consumer, or was given
\* to a callback that returned: it is acknowledged only then, so a consumer
\* that dies in its callback loses nothing (rabbit_mq.hpp:93-96).
NothingForgotten ==
  \A m \in ToSet(arrived) \ unrouted :
    \/ m \in ToSet(ready) \cup handled
    \/ \E c \in Client : m \in ToSet(unacked[c])

\* A frame is kept only while a request waits whose answer will send it, but
\* for the race of the two threads on the channel (rabbit_mq.hpp:35-37, 52-81).
KeptIsSentLater ==
  \A c \in Client : mq[c].queue # << >> => mq[c].waits \/ mq[c].raced

(* Liveness, under FairSpec *)

\* The joins of the destructors return: each loop hears of its destructor, or
\* is over because the connection was lost (rabbit_mq.hpp:39-46).
Joining(c) == mq[c].main = "join"
JoinReturns == (\E c \in Client : Joining(c)) ~> (\A c \in Client : ~Joining(c))

AcceptedOf(c) == {m \in accepted : m.by = c}

\* What publish() accepted reaches the broker, unless the process lets the loop
\* go first, loses the connection, or had the race (rabbit_mq.hpp:77-88).
AcceptedArrives ==
  \A c \in Publisher :
    AcceptedOf(c) # {} ~>
      \/ AcceptedOf(c) \subseteq ToSet(arrived)
      \/ mq[c].loop = "over" \/ mq[c].async \/ mq[c].raced

\* A consumer drains the queue of the broker: every message is given to a
\* callback and acknowledged (rabbit_mq.hpp:92-96).
ConsumerDrains ==
  \A c \in Consumer :
    c \in consuming ~> c \notin consuming \/ (ready = << >> /\ mq[c].got = NoMessage)
=============================================================================
