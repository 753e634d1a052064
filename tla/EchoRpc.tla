------------------------------- MODULE EchoRpc -------------------------------
(***************************************************************************)
(* client.cc and server.cc of example/brpc_test: client processes that     *)
(* each make one asynchronous call of EchoService.Echo, sleep and end, a   *)
(* server process that is started, quits, dies and is started again, and   *)
(* brpc between them (external): it sends a call again, up to max_retry    *)
(* times, when its connection is lost or refused, and has no time limit.   *)
(*                                                                         *)
(* The text of a client is a parameter, so that replies can be told apart. *)
(* It is UTF-8, and so are the replies: every message parses.              *)
(* Bounds: one call for each client, MaxRuns runs of the server.           *)
(***************************************************************************)
EXTENDS ProtoMessageOps, FiniteSets

CONSTANTS
  Client,   \* client processes
  Hello,    \* Hello[c]: what client c says
  Reply,    \* Reply[t]: the string "回复：" followed by t
  MaxRetry, \* options.max_retry
  MaxRuns,  \* bound on the runs of the server
  Gone      \* an object that was deleted

ASSUME EchoAssumption ==
  /\ Hello \in [Client -> Text \ NotUtf8]
  /\ Reply \in [Text -> Text]
  /\ \A t, u \in Text : Reply[t] = Reply[u] => t = u
  /\ \A t \in Text : Reply[t] \in NotUtf8 => t \in NotUtf8
  /\ MaxRetry \in Nat
  /\ Gone \notin Message

VARIABLES
  main,     \* main[c]: "start", "sleeping", "exited"
  call,     \* call[c]: "none", "connect", "sent", "ended", "over"
  attempt,  \* attempt[c]: the attempts made, the current one included
  failed,   \* failed[c]: controller_ptr->Failed()
  response, \* response[c]: *response_ptr, or Gone; the controller goes with it
  lines,    \* lines[c]: the texts callback() wrote after "收到消息："
  server,   \* "down", "up", "deaf" (runs and does not listen), "quitting"
  runs,     \* how often the server was started
  wire,     \* the requests and replies under way
  handlers, \* the requests the server has read and not answered
  handled   \* handled[c]: how often Echo() ran for client c (history)

clientVars == <<main, call, attempt, failed, response, lines>>
serverVars == <<server, runs, handlers, handled>>
vars == <<clientVars, serverVars, wire>>

Init ==
  /\ main = [c \in Client |-> "start"]
  /\ call = [c \in Client |-> "none"]
  /\ attempt = [c \in Client |-> 0]
  /\ failed = [c \in Client |-> FALSE]
  /\ response = [c \in Client |-> Gone]
  /\ lines = [c \in Client |-> << >>]
  /\ server = "down"
  /\ runs = 0
  /\ wire = {}
  /\ handlers = {}
  /\ handled = [c \in Client |-> 0]

Request(c) ==
  [to |-> "server", client |-> c, n |-> attempt[c],
   fields |-> Wire([NewMessage EXCEPT !.text = Hello[c]])]

Under(c) == {m \in wire : m.client = c /\ m.n = attempt[c]}

\* The current attempt has nothing on the way and nobody works on it.
Stuck(c) ==
  \/ call[c] = "connect" /\ server # "up"
  \/ /\ call[c] = "sent" /\ Under(c) = {}
     /\ \A h \in handlers : h.client # c \/ h.n # attempt[c]

-----------------------------------------------------------------------------
(* The main thread of a client *)

\* The channel is made, then the controller, the response and the closure, and
\* stub.Echo() hands them to the channel and returns.
CallEcho(c) ==
  /\ main[c] = "start"
  /\ main' = [main EXCEPT ![c] = "sleeping"]
  /\ call' = [call EXCEPT ![c] = "connect"]
  /\ attempt' = [attempt EXCEPT ![c] = 1]
  /\ response' = [response EXCEPT ![c] = NewMessage]
  /\ UNCHANGED <<failed, lines, serverVars, wire>>

\* channel.Init() fails.
InitFails(c) ==
  /\ main[c] = "start"
  /\ main' = [main EXCEPT ![c] = "exited"]
  /\ UNCHANGED <<call, attempt, failed, response, lines, serverVars, wire>>

\* Mutated form: main() deletes what it made, as it did for the synchronous
\* call (lines 39 and 40), before it returns.
SleepThenDelete(c) ==
  /\ main[c] = "sleeping"
  /\ \/ main' = [main EXCEPT ![c] = "exited"] /\ UNCHANGED response
     \/ response[c] # Gone /\ response' = [response EXCEPT ![c] = Gone] /\ UNCHANGED main
  /\ UNCHANGED <<call, attempt, failed, lines, serverVars, wire>>

\* Three seconds later the process ends, whatever became of the call.
Sleep(c) ==
  /\ main[c] = "sleeping"
  /\ main' = [main EXCEPT ![c] = "exited"]
  /\ UNCHANGED <<call, attempt, failed, response, lines, serverVars, wire>>

(* The threads of brpc in a client *)

Connect(c) ==
  /\ main[c] = "sleeping" /\ call[c] = "connect" /\ server = "up"
  /\ call' = [call EXCEPT ![c] = "sent"]
  /\ wire' = wire \cup {Request(c)}
  /\ UNCHANGED <<main, attempt, failed, response, lines, serverVars>>

\* Mutated form: a call that was sent is not sent again.
AttemptsOne == 1

\* One attempt, and one for each retry.
Attempts == 1 + MaxRetry

\* The connection is refused, or lost: with it goes a reply, and the request
\* unless the server has it in its buffer.
AttemptLost(c) ==
  /\ main[c] = "sleeping" /\ call[c] \in {"connect", "sent"}
  /\ \/ wire' = wire \ Under(c)
     \/ wire' = wire \ {m \in Under(c) : m.to = "client"} /\ server = "up"
  /\ \/ /\ attempt[c] < Attempts
        /\ attempt' = [attempt EXCEPT ![c] = @ + 1]
        /\ call' = [call EXCEPT ![c] = "connect"]
        /\ UNCHANGED failed
     \/ /\ attempt[c] >= Attempts
        /\ call' = [call EXCEPT ![c] = "ended"]
        /\ failed' = [failed EXCEPT ![c] = TRUE]
        /\ UNCHANGED attempt
  /\ UNCHANGED <<main, response, lines, serverVars>>

\* The reply of the current attempt is parsed into the response.
Replied(c) ==
  /\ main[c] = "sleeping" /\ call[c] = "sent"
  /\ \E m \in Under(c) :
       /\ m.to = "client"
       /\ response' = [response EXCEPT ![c] = IF @ = Gone THEN Gone ELSE ParsedFrom(@, m.fields).m]
       /\ wire' = wire \ {m}
  /\ call' = [call EXCEPT ![c] = "ended"]
  /\ UNCHANGED <<main, attempt, failed, lines, serverVars>>

\* callback(): it says so when the call failed, then reads the response either
\* way; its guards delete both objects.
Callback(c) ==
  /\ main[c] = "sleeping" /\ call[c] = "ended"
  /\ lines' = [lines EXCEPT ![c] = Append(@, IF response[c] = Gone THEN Gone ELSE response[c].text)]
  /\ response' = [response EXCEPT ![c] = Gone]
  /\ call' = [call EXCEPT ![c] = "over"]
  /\ UNCHANGED <<main, attempt, failed, serverVars, wire>>

-----------------------------------------------------------------------------
(* The server *)

\* AddService() and Start(): it listens, or it does not and main() does not
\* notice, because the test looks at the result of AddService().
Start ==
  /\ server = "down" /\ runs < MaxRuns
  /\ server' \in {"up", "deaf"}
  /\ runs' = runs + 1
  /\ UNCHANGED <<clientVars, wire, handlers, handled>>

\* A request is read and CallMethod() finds its method.
Receive(m) ==
  /\ server = "up" /\ m \in wire /\ m.to = "server"
  /\ wire' = wire \ {m}
  /\ handlers' = handlers \cup
       {[client |-> m.client, n |-> m.n, req |-> ParsedFrom(NewMessage, m.fields).m]}
  /\ UNCHANGED <<clientVars, server, runs, handled>>

\* Mutated form: nobody runs done.
EchoUnguarded(h) ==
  /\ h \in handlers /\ server \in {"up", "quitting"} /\ handled[h.client] < h.n
  /\ handled' = [handled EXCEPT ![h.client] = @ + 1]
  /\ UNCHANGED <<clientVars, server, runs, wire, handlers>>

\* EchoServiceImpl::Echo(): the response is set, and when the guard runs done
\* it is sent, if the connection the request came on is still there.
Echo(h) ==
  /\ h \in handlers /\ server \in {"up", "quitting"}
  /\ handled' = [handled EXCEPT ![h.client] = @ + 1]
  /\ handlers' = handlers \ {h}
  /\ LET c == h.client
         resp == [NewMessage EXCEPT !.text = Reply[h.req.text]]
     IN  IF main[c] = "sleeping" /\ call[c] = "sent" /\ attempt[c] = h.n
         THEN wire' = wire \cup
                {[to |-> "client", client |-> c, n |-> h.n, fields |-> Wire(resp)]}
         ELSE UNCHANGED wire
  /\ UNCHANGED <<clientVars, server, runs>>

\* RunUntilAskedToQuit() is asked to: the server reads no more, and ends when
\* the last handler has.
Quit ==
  /\ \/ server \in {"up", "deaf"} /\ server' = "quitting"
     \/ server = "quitting" /\ handlers = {} /\ server' = "down"
  /\ wire' = {m \in wire : m.to = "client"}
  /\ UNCHANGED <<clientVars, runs, handlers, handled>>

\* The process dies.
Crash ==
  /\ server # "down"
  /\ server' = "down"
  /\ handlers' = {}
  /\ wire' = {m \in wire : m.to = "client"}
  /\ UNCHANGED <<clientVars, runs, handled>>

ClientStep(c) ==
  \/ CallEcho(c) \/ InitFails(c) \/ Sleep(c)
  \/ Connect(c) \/ AttemptLost(c) \/ Replied(c) \/ Callback(c)

Next ==
  \/ \E c \in Client : ClientStep(c)
  \/ \E m \in wire : Receive(m)
  \/ \E h \in handlers : Echo(h)
  \/ Start \/ Quit \/ Crash

Spec == Init /\ [][Next]_vars

\* brpc connects, delivers, and notices that a connection is gone; what was
\* read is handled; a server that was asked to quits.  Nothing is promised of
\* main(), of who starts the server, or of losses.
FairSpec ==
  /\ Spec
  /\ \A c \in Client :
       WF_vars(Connect(c)) /\ WF_vars(Stuck(c) /\ AttemptLost(c))
         /\ WF_vars(Replied(c)) /\ WF_vars(Callback(c))
  /\ WF_vars(\E m \in wire : Receive(m))
  /\ WF_vars(\E h \in handlers : Echo(h))

-----------------------------------------------------------------------------
(* Properties *)

\* The controller and the response are there as long as brpc has the call, also
\* when the answer takes longer than main() sleeps, and are deleted by the
\* callback (client.cc:5-13, 31-44).
ResponseIsThere ==
  \A c \in Client : main[c] = "sleeping" =>
    (response[c] # Gone <=> call[c] \in {"connect", "sent", "ended"})

\* A call is reported once.  When it succeeded its line is the reply to its own
\* text, and the server handled it; handled more often than once it was only
\* after a connection was lost, and never more often than it was sent.  The line
\* of a call that failed is empty, and all the retries were made
\* (client.cc:5-13, 20; server.cc:10-20).
LineTellsTheCall ==
  \A c \in Client :
    /\ handled[c] <= attempt[c]
    /\ lines[c] \in {<< >>, << Empty >>, << Reply[Hello[c]] >>}
    /\ lines[c] = << Reply[Hello[c]] >> => ~failed[c] /\ handled[c] > 0
    /\ lines[c] = << Empty >> => failed[c] /\ attempt[c] = 1 + MaxRetry

\* A call without a time limit still ends, unless the process does first: the
\* server answers every request it has read, and one that dies, quits or does
\* not listen costs an attempt (client.cc:18-20; server.cc:15, 38-43).
CallsEnd ==
  \A c \in Client : call[c] = "connect" ~> call[c] = "over" \/ main[c] = "exited"

(* The invariant behind ResponseIsThere and LineTellsTheCall *)

MessageOf(t) == [NewMessage EXCEPT !.text = t]

\* The requests of client c that are on the way or being handled.
Outstanding(c) ==
  {n \in 1..attempt[c] :
     \/ \E m \in wire : m.to = "server" /\ m.client = c /\ m.n = n
     \/ \E h \in handlers : h.client = c /\ h.n = n}

Types ==
  /\ main \in [Client -> {"start", "sleeping", "exited"}]
  /\ call \in [Client -> {"none", "connect", "sent", "ended", "over"}]
  /\ attempt \in [Client -> 0..Attempts]
  /\ failed \in [Client -> BOOLEAN]
  /\ response \in [Client -> Message \cup {Gone}]
  /\ lines \in [Client -> Seq(Text \cup {Empty})]
  /\ handled \in [Client -> Nat]

Outcome(c) ==
  \/ failed[c] /\ attempt[c] = Attempts
  \/ ~failed[c] /\ handled[c] > 0

Answer(c) == IF failed[c] THEN NewMessage ELSE MessageOf(Reply[Hello[c]])

\* Where a call is, its controller, response and line are.
Phase(c) ==
  /\ main[c] = "start" => call[c] = "none"
  /\ main[c] = "sleeping" => call[c] # "none"
  /\ call[c] = "none" => response[c] = Gone /\ attempt[c] = 0
  /\ call[c] \in {"connect", "sent"} => response[c] = NewMessage
  /\ call[c] \in {"none", "connect", "sent"} => ~failed[c]
  /\ call[c] = "ended" => response[c] = Answer(c) /\ Outcome(c)
  /\ call[c] = "over" => response[c] = Gone /\ lines[c] = << Answer(c).text >> /\ Outcome(c)
  /\ call[c] # "over" => lines[c] = << >>

\* What is on the way, and what is handled, belongs to an attempt of its client.
GoodMessage(m) ==
  /\ m.client \in Client /\ m.n \in 1..attempt[m.client]
  /\ m = [to |-> m.to, client |-> m.client, n |-> m.n, fields |-> m.fields]
  /\ \/ m.to = "server" /\ m.fields = Wire(MessageOf(Hello[m.client]))
     \/ /\ m.to = "client" /\ m.fields = Wire(MessageOf(Reply[Hello[m.client]]))
        /\ handled[m.client] > 0

GoodHandler(h) ==
  /\ h.client \in Client /\ h.n \in 1..attempt[h.client]
  /\ h = [client |-> h.client, n |-> h.n, req |-> MessageOf(Hello[h.client])]

\* A request is on the way or handled.
Apart ==
  \A h \in handlers, m \in wire :
    m.to = "server" => m.client # h.client \/ m.n # h.n

\* An attempt is handled once at most.
Count(c) ==
  /\ Cardinality(Outstanding(c)) + handled[c] <= attempt[c]
  /\ call[c] = "connect" =>
       /\ attempt[c] \notin Outstanding(c)
       /\ Cardinality(Outstanding(c)) + handled[c] < attempt[c]

CallsInv ==
  /\ Types
  /\ \A c \in Client : Phase(c) /\ Count(c)
  /\ \A m \in wire : GoodMessage(m)
  /\ \A h \in handlers : GoodHandler(h)
  /\ Apart
=============================================================================
