---------------------------- MODULE MQClientProofs ----------------------------
(***************************************************************************)
(* For any number of publishers, consumers and messages: no message comes  *)
(* to the broker before its exchange, queue and binding, the messages of a *)
(* publisher come in order and once, none is forgotten before a callback   *)
(* had it, and a frame is kept without a request that waits only after the *)
(* race of the two threads.                                                *)
(*                                                                         *)
(* The argument has two layers.  ProcessOK is what the steps of a process  *)
(* keep true of its own channel, whatever the broker does, and is proved   *)
(* of the process as a value; IInv adds what the broker has of it.         *)
(***************************************************************************)
EXTENDS MQClient, TLAPS, SequenceTheorems, WellFoundedInduction

-----------------------------------------------------------------------------
(* Sequences *)

\* A set of numbers has a least one.
LEMMA LeastOfSet ==
  ASSUME NEW S, S \subseteq Nat, S # {}
  PROVE  Min(S) \in S /\ \A j \in S : Min(S) <= j
<1>1. PICK i \in S : \A j \in S : <<j, i>> \notin OpToRel(<, Nat)
  BY WFMin, NatLessThanWellFounded
<1>2. ASSUME NEW j \in S PROVE ~(j < i)
  <2>1. i \in Nat /\ j \in Nat
    OBVIOUS
  <2>2. OpToRel(<, Nat) = {ss \in Nat \X Nat : ss[1] < ss[2]}
    BY DEF OpToRel
  <2>. QED  BY <1>1, <2>1, <2>2
<1>3. \A j \in S : i <= j
  BY <1>2
<1>. QED  BY <1>3 DEF Min

\* The elements of a sequence with one more.
LEMMA AppendRange ==
  ASSUME NEW S, NEW s \in Seq(S), NEW e \in S
  PROVE  Range(Append(s, e)) = Range(s) \cup {e}
<1>1. /\ DOMAIN Append(s, e) = 1 .. Len(s) + 1
      /\ \A i \in 1 .. Len(s) : Append(s, e)[i] = s[i]
      /\ Append(s, e)[Len(s) + 1] = e
  BY AppendProperties, LenProperties
<1>2. DOMAIN s = 1 .. Len(s) /\ Len(s) \in Nat
  BY LenProperties
<1>. QED  BY <1>1, <1>2 DEF Range

\* The elements of a sequence are its first and those of the rest.
LEMMA TailRange ==
  ASSUME NEW S, NEW s \in Seq(S), s # << >>
  PROVE  /\ Head(s) \in S /\ Tail(s) \in Seq(S)
         /\ Range(s) = {Head(s)} \cup Range(Tail(s))
<1>1. /\ Head(s) \in S /\ Tail(s) \in Seq(S) /\ Len(Tail(s)) = Len(s) - 1
      /\ \A i \in 1 .. Len(Tail(s)) : Tail(s)[i] = s[i + 1]
  BY HeadTailProperties
<1>2. /\ Len(s) \in Nat \ {0} /\ DOMAIN s = 1 .. Len(s)
      /\ DOMAIN Tail(s) = 1 .. Len(Tail(s)) /\ Head(s) = s[1]
  BY <1>1, LenProperties, EmptySeq
<1>3. Range(s) \subseteq {Head(s)} \cup Range(Tail(s))
  <2>. SUFFICES ASSUME NEW i \in 1 .. Len(s) PROVE s[i] \in {Head(s)} \cup Range(Tail(s))
    BY <1>2 DEF Range
  <2>1. CASE i = 1
    BY <1>2, <2>1
  <2>2. CASE i # 1
    <3>1. i - 1 \in DOMAIN Tail(s) /\ Tail(s)[i - 1] = s[i]
      BY <1>1, <1>2, <2>2
    <3>. QED  BY <3>1 DEF Range
  <2>. QED  BY <2>1, <2>2
<1>4. {Head(s)} \cup Range(Tail(s)) \subseteq Range(s)
  BY <1>1, <1>2 DEF Range
<1>. QED  BY <1>1, <1>3, <1>4

\* Taking one element out leaves the others.
LEMMA RemoveFirstRange ==
  ASSUME NEW S, NEW s \in Seq(S), NEW e
  PROVE  /\ RemoveFirst(s, e) \in Seq(S)
         /\ Range(s) \ {e} \subseteq Range(RemoveFirst(s, e))
<1>1. Len(s) \in Nat /\ DOMAIN s = 1 .. Len(s) /\ \A i \in 1 .. Len(s) : s[i] \in S
  BY LenProperties, ElementOfSeq
<1>2. CASE ~\E i \in 1 .. Len(s) : s[i] = e
  BY <1>2 DEF RemoveFirst
<1>3. CASE \E i \in 1 .. Len(s) : s[i] = e
  <2>1. PICK k \in 1 .. Len(s) : s[k] = e /\ RemoveFirst(s, e) = RemoveAt(s, k)
    <3>. DEFINE I == {i \in 1 .. Len(s) : s[i] = e}
    <3>1. Min(I) \in I
      <4>1. I \subseteq Nat /\ I # {}
        BY <1>1, <1>3
      <4>. QED  BY <4>1, LeastOfSet
    <3>2. RemoveFirst(s, e) = RemoveAt(s, Min(I))
      BY <1>3 DEF RemoveFirst, SelectInSeq
    <3>. QED  BY <3>1, <3>2
  <2>2. PICK b : b = SubSeq(s, 1, k - 1)
    OBVIOUS
  <2>3. PICK a : a = SubSeq(s, k + 1, Len(s))
    OBVIOUS
  <2>4. b \in Seq(S) /\ Len(b) = k - 1 /\ \A i \in 1 .. k - 1 : b[i] = s[i]
    <3>1. k - 1 \in Int /\ 1 \in Int /\ \A i \in 1 .. k - 1 : s[i] \in S
      BY <1>1
    <3>. QED  BY <2>2, <3>1, SubSeqProperties
  <2>5. /\ a \in Seq(S) /\ Len(a) = Len(s) - k
        /\ \A i \in 1 .. Len(s) - k : a[i] = s[k + i]
    <3>. PICK n \in Nat : n = Len(s)
      BY <1>1
    <3>1. k \in 1 .. n /\ \A i \in k + 1 .. n : s[i] \in S
      BY <1>1
    <3>2. /\ a \in Seq(S)
          /\ Len(a) = IF k + 1 <= n THEN n - (k + 1) + 1 ELSE 0
          /\ \A i \in 1 .. n - (k + 1) + 1 : a[i] = s[(k + 1) + i - 1]
      BY <2>3, <3>1, SubSeqProperties
    <3>3. \A i \in 1 .. n - k : a[i] = s[k + i]
      BY <3>1, <3>2
    <3>. QED  BY <3>1, <3>2, <3>3
  <2>6. RemoveFirst(s, e) = b \o a
    BY <2>1, <2>2, <2>3 DEF RemoveAt
  <2>7. b \o a \in Seq(S) /\ Range(b \o a) = Range(b) \cup Range(a)
    BY <2>4, <2>5, ConcatProperties, RangeConcatenation
  <2>8. ASSUME NEW i \in 1 .. Len(s), s[i] # e
        PROVE  s[i] \in Range(b) \cup Range(a)
    <3>1. CASE i < k
      <4>1. i \in DOMAIN b /\ b[i] = s[i]
        BY <2>4, <3>1, LenProperties
      <4>. QED  BY <4>1 DEF Range
    <3>2. CASE i > k
      <4>1. i - k \in 1 .. Len(s) - k /\ k + (i - k) = i
        BY <1>1, <3>2
      <4>2. i - k \in DOMAIN a /\ a[i - k] = s[i]
        BY <2>5, <4>1, LenProperties
      <4>. QED  BY <4>2 DEF Range
    <3>. QED  BY <1>1, <2>1, <2>8, <3>1, <3>2
  <2>. QED  BY <1>1, <2>6, <2>7, <2>8 DEF Range
<1>. QED  BY <1>2, <1>3

-----------------------------------------------------------------------------
(* A process, as a value *)

AnyFrame ==
  [type : Topology \cup {"consume", "publish", "ack"}, msg : Message \cup {NoMessage}]

Process ==
  [main   : {"down", "calls", "sleep", "join"},
   at     : Nat,
   look   : {"none", "keep", "send"},
   loop   : {"run", "over"},
   async  : BOOLEAN,
   conn   : {"opening", "up", "lost"},
   waits  : BOOLEAN,
   queue  : Seq(AnyFrame),
   wire   : Seq(AnyFrame),
   answer : {"none", "ok", "error"},
   got    : Message \cup {NoMessage},
   raced  : BOOLEAN]

\* The frames the channel has not given to the broker.
Unsent(p) == Range(p.wire) \cup Range(p.queue)

\* The channel keeps to one request at a time, and a call that found it free
\* finds it so when it acts; a frame is kept for an answer to send it.
ChannelOK(p) ==
  /\ \A i \in DOMAIN p.wire :
       IsRequest(p.wire[i]) => p.waits /\ p.answer = "none"
  /\ \A i, j \in DOMAIN p.wire :
       IsRequest(p.wire[i]) /\ IsRequest(p.wire[j]) => i = j
  /\ p.answer # "none" => p.waits
  /\ p.look = "send" => ~MustKeep(p)
  /\ p.queue # << >> => p.waits \/ p.raced

\* A frame is of a call its process makes, or acknowledges what was handled.
FrameOK(c, f, acc, done) ==
  /\ f.type = "publish" => f.msg \in Message /\ f.msg.by = c /\ f.msg \in acc
  /\ f.type = "consume" => c \in Consumer
  /\ f.type = "ack" => c \in Consumer /\ f.msg \in done

FramesOK(c, p, acc, done) ==
  /\ \A f \in Unsent(p) : FrameOK(c, f, acc, done)
  /\ p.got # NoMessage => c \in Consumer
  /\ p.look # "none" => p.at < Len(Calls(c))

\* The place of a publisher's frame among the calls of its main().
Place(f) ==
  IF f.type = "exchange" THEN 1
  ELSE IF f.type = "queue" THEN 2
  ELSE IF f.type = "binding" THEN 3
  ELSE 3 + f.msg.no

Ascending(s) == \A i, j \in DOMAIN s : i < j => Place(s[i]) < Place(s[j])

\* The frames of a publisher stay in the order of its calls, a request has no
\* message before it, ...
OrderOK(p) ==
  /\ Ascending(p.wire) /\ Ascending(p.queue)
  /\ \A f \in Range(p.wire), g \in Range(p.queue) : Place(f) < Place(g)
  /\ \A f \in Unsent(p) : Place(f) <= p.at
  /\ p.waits => \A f \in Range(p.wire) : f.type # "publish"

\* ... and what it asked for was declared, is still to be asked, or was refused.
AskedOK(p, decl) ==
  p.main # "down" /\ p.conn # "lost" =>
    \A t \in Topology :
      Place(Frame(t, NoMessage)) <= p.at =>
        t \in decl \/ p.answer = "error" \/ \E f \in Unsent(p) : f.type = t


ProcessOK(c, p, decl, acc, done) ==
  /\ p \in Process
  /\ ChannelOK(p)
  /\ FramesOK(c, p, acc, done)
  /\ c \in Publisher => OrderOK(p) /\ AskedOK(p, decl)

\* What a call, an answer, the loss of the connection, the return of a callback
\* and the broker make of a process.
Acted(p, f) == [KeepOrSend(p, f) EXCEPT !.at = @ + 1, !.look = "none"]
Answered(p) == [Flushed(p) EXCEPT !.answer = "none"]
Cut(p) ==
  [p EXCEPT !.conn = "lost", !.loop = "over", !.wire = << >>, !.answer = "none"]
Acked(p) ==
  LET f == Frame("ack", p.got)
      r == [p EXCEPT !.got = NoMessage]
  IN  IF MustKeep(r) THEN [r EXCEPT !.queue = Append(@, f)]
                     ELSE [r EXCEPT !.wire = Append(@, f)]
Taken(p, ans) == [p EXCEPT !.wire = Tail(@), !.answer = ans]

\* Of a publisher that runs, no message that arrived is still to come.
ArrivedOK(p, m) ==
  p.main # "down" =>
    /\ 3 + m.no <= p.at
    /\ \A f \in Unsent(p) : f.type = "publish" => m.no < f.msg.no

\* What main() calls for: the frames of a publisher are in their places.
LEMMA CallsProperties ==
  ASSUME NEW c \in Client
  PROVE  /\ Calls(c) \in Seq(AnyFrame) /\ Len(Calls(c)) \in Nat
         /\ \A n \in 1 .. Len(Calls(c)) :
              /\ Calls(c)[n].type # "ack"
              /\ Calls(c)[n].type = "consume" => c \in Consumer
              /\ Calls(c)[n].type = "publish" =>
                   Calls(c)[n].msg \in Message /\ Calls(c)[n].msg.by = c
              /\ c \in Publisher => Place(Calls(c)[n]) = n
<1>. DEFINE declare == << Frame("exchange", NoMessage), Frame("queue", NoMessage),
                          Frame("binding", NoMessage) >>
            publish == [i \in 1 .. NMessage |-> Frame("publish", [by |-> c, no |-> i])]
<1>1. \A t \in Topology \cup {"consume"} : Frame(t, NoMessage) \in AnyFrame
  BY DEF Frame, AnyFrame
<1>2. /\ declare \in Seq(AnyFrame) /\ Len(declare) = 3
      /\ declare[1] = Frame("exchange", NoMessage)
      /\ declare[2] = Frame("queue", NoMessage)
      /\ declare[3] = Frame("binding", NoMessage)
  BY <1>1 DEF Topology
<1>3. CASE c \in Consumer
  <2>. DEFINE consume == << Frame("consume", NoMessage) >>
  <2>1. /\ consume \in Seq(AnyFrame) /\ Len(consume) = 1
        /\ consume[1] = Frame("consume", NoMessage)
    BY <1>1
  <2>2. Calls(c) = declare \o consume /\ c \notin Publisher
    BY <1>3, MQAssumption DEF Calls
  <2>. HIDE DEF declare, consume
  <2>3. /\ Calls(c) \in Seq(AnyFrame) /\ Len(Calls(c)) = 4
        /\ Calls(c)[1] = declare[1] /\ Calls(c)[2] = declare[2]
        /\ Calls(c)[3] = declare[3] /\ Calls(c)[4] = consume[1]
    <3>1. /\ declare \o consume \in Seq(AnyFrame)
          /\ Len(declare \o consume) = Len(declare) + Len(consume)
          /\ \A n \in 1 .. Len(declare) + Len(consume) : (declare \o consume)[n] =
               IF n <= Len(declare) THEN declare[n] ELSE consume[n - Len(declare)]
      BY <1>2, <2>1, ConcatProperties
    <3>. QED  BY <1>2, <2>1, <2>2, <3>1
  <2>. QED  BY <1>2, <1>3, <2>1, <2>2, <2>3 DEF Frame
<1>4. CASE c \in Publisher
  <2>1. \A i \in 1 .. NMessage : [by |-> c, no |-> i] \in Message
    BY <1>4 DEF Message
  <2>2. /\ publish \in Seq(AnyFrame) /\ Len(publish) = NMessage
        /\ \A i \in 1 .. NMessage : publish[i] = Frame("publish", [by |-> c, no |-> i])
    <3>1. \A i \in 1 .. NMessage : Frame("publish", [by |-> c, no |-> i]) \in AnyFrame
      BY <2>1 DEF Frame, AnyFrame
    <3>2. publish \in [1 .. NMessage -> AnyFrame] /\ NMessage \in Nat
      BY <3>1, MQAssumption
    <3>. QED  BY <3>2
  <2>3. Calls(c) = declare \o publish
    BY <1>4, MQAssumption DEF Calls
  <2>. HIDE DEF declare, publish
  <2>4. /\ Calls(c) \in Seq(AnyFrame) /\ Len(Calls(c)) = 3 + NMessage
        /\ \A n \in 1 .. 3 + NMessage :
             Calls(c)[n] = IF n <= 3 THEN declare[n] ELSE publish[n - 3]
    <3>1. /\ declare \o publish \in Seq(AnyFrame)
          /\ Len(declare \o publish) = Len(declare) + Len(publish)
          /\ \A n \in 1 .. Len(declare) + Len(publish) : (declare \o publish)[n] =
               IF n <= Len(declare) THEN declare[n] ELSE publish[n - Len(declare)]
      BY <1>2, <2>2, ConcatProperties
    <3>. QED  BY <1>2, <2>2, <2>3, <3>1, MQAssumption
  <2>5. ASSUME NEW n \in 1 .. 3 + NMessage
        PROVE  /\ Calls(c)[n].type # "ack" /\ Calls(c)[n].type # "consume"
               /\ Calls(c)[n].type = "publish" =>
                    Calls(c)[n].msg \in Message /\ Calls(c)[n].msg.by = c
               /\ Place(Calls(c)[n]) = n
    <3>1. CASE n \in {1, 2, 3}
      BY <1>2, <2>4, <3>1 DEF Frame, Place
    <3>2. CASE n \notin {1, 2, 3}
      <4>1. n - 3 \in 1 .. NMessage /\ ~(n <= 3) /\ 3 + (n - 3) = n
        BY <3>2, MQAssumption
      <4>2. Calls(c)[n] = Frame("publish", [by |-> c, no |-> n - 3])
        BY <2>2, <2>4, <4>1
      <4>. QED  BY <2>1, <4>1, <4>2 DEF Frame, Place
    <3>. QED  BY <3>1, <3>2
  <2>. QED  BY <1>4, <2>4, <2>5, MQAssumption
<1>. QED  BY <1>3, <1>4 DEF Client

\* What the broker has declared, publish() accepted and the callbacks handled
\* only grows.
LEMMA ProcessStaysOK ==
  ASSUME NEW c, NEW p, NEW decl, NEW acc, NEW done,
         ProcessOK(c, p, decl, acc, done),
         NEW decl2, NEW acc2, NEW done2,
         decl \subseteq decl2, acc \subseteq acc2, done \subseteq done2
  PROVE  ProcessOK(c, p, decl2, acc2, done2)
<1>1. FramesOK(c, p, acc2, done2)
  BY DEF ProcessOK, FramesOK, FrameOK
<1>2. AskedOK(p, decl) => AskedOK(p, decl2)
  BY DEF AskedOK
<1>. QED  BY <1>1, <1>2 DEF ProcessOK

\* A process that does not run, and one that was started.
LEMMA NewProcessOK ==
  ASSUME NEW c \in Client, NEW decl, NEW acc, NEW done
  PROVE  ProcessOK(c, Down, decl, acc, done) /\ ProcessOK(c, New, decl, acc, done)
<1>1. << >> \in Seq(AnyFrame) /\ Range(<< >>) = {} /\ DOMAIN << >> = {}
  BY DEF Range
<1>2. New \in Process /\ Down \in Process
  BY <1>1 DEF New, Down, Process
<1>3. /\ New.wire = << >> /\ New.queue = << >> /\ ~New.waits /\ New.answer = "none"
      /\ New.look = "none" /\ New.got = NoMessage /\ New.at = 0
      /\ Down.wire = << >> /\ Down.queue = << >> /\ ~Down.waits /\ Down.answer = "none"
      /\ Down.look = "none" /\ Down.got = NoMessage /\ Down.main = "down"
  BY DEF New, Down
<1>4. Unsent(New) = {} /\ Unsent(Down) = {}
  BY <1>1, <1>3 DEF Unsent
<1>5. ChannelOK(New) /\ ChannelOK(Down)
  BY <1>1, <1>3 DEF ChannelOK
<1>6. FramesOK(c, New, acc, done) /\ FramesOK(c, Down, acc, done)
  BY <1>3, <1>4 DEF FramesOK
<1>7. OrderOK(New) /\ OrderOK(Down)
  BY <1>1, <1>3, <1>4 DEF OrderOK, Ascending
<1>8. AskedOK(New, decl) /\ AskedOK(Down, decl)
  BY <1>3 DEF AskedOK, Topology, Place, Frame
<1>. QED  BY <1>2, <1>5, <1>6, <1>7, <1>8 DEF ProcessOK

\* The frames of a publisher declare or publish.
LEMMA PublisherFrames ==
  ASSUME NEW c \in Publisher, NEW p, NEW decl, NEW acc, NEW done,
         ProcessOK(c, p, decl, acc, done), NEW f \in Unsent(p)
  PROVE  /\ Place(f) \in Nat
         /\ \/ f.type \in Topology /\ Place(f) \in 1 .. 3
            \/ f.type = "publish" /\ f.msg.no \in Nat /\ Place(f) > 3
<1>1. f \in AnyFrame /\ FrameOK(c, f, acc, done) /\ c \notin Consumer
  <2>1. p.wire \in Seq(AnyFrame) /\ p.queue \in Seq(AnyFrame)
    BY DEF ProcessOK, Process
  <2>. QED  BY <2>1, RangeOfSeq, MQAssumption DEF ProcessOK, FramesOK, Unsent
<1>2. f.type \in Topology \cup {"publish"}
  BY <1>1 DEF AnyFrame, FrameOK
<1>3. f.type = "publish" => f.msg.no \in 1 .. NMessage
  BY <1>1 DEF FrameOK, Message
<1>. QED  BY <1>2, <1>3, MQAssumption DEF Topology, Place

\* A step that leaves the frames and the request where they are.
LEMMA SameFramesOK ==
  ASSUME NEW c \in Client, NEW p, NEW decl, NEW acc, NEW done,
         ProcessOK(c, p, decl, acc, done),
         NEW q \in Process,
         q.wire = p.wire, q.queue = p.queue, q.waits = p.waits,
         q.answer = p.answer, q.raced = p.raced, p.at <= q.at,
         q.look = "send" => ~MustKeep(p),
         q.look # "none" => q.at < Len(Calls(c)),
         q.got # NoMessage => c \in Consumer,
         p.main = "down" => q.main = "down",
         q.at # p.at \/ p.conn = "lost" => q.conn = "lost"
  PROVE  /\ ProcessOK(c, q, decl, acc, done)
         /\ \A m \in Message : ArrivedOK(p, m) => ArrivedOK(q, m)
<1>1. Unsent(q) = Unsent(p) /\ MustKeep(q) = MustKeep(p)
  BY DEF Unsent, MustKeep
<1>2. p \in Process /\ p.at \in Nat /\ q.at \in Nat
  BY DEF ProcessOK, Process
<1>3. ChannelOK(q)
  BY <1>1 DEF ProcessOK, ChannelOK
<1>4. FramesOK(c, q, acc, done)
  BY <1>1 DEF ProcessOK, FramesOK
<1>5. ASSUME c \in Publisher PROVE OrderOK(q) /\ AskedOK(q, decl)
  <2>1. OrderOK(p) /\ AskedOK(p, decl)
    BY <1>5 DEF ProcessOK
  <2>2. \A f \in Unsent(p) : Place(f) <= q.at
    <3>1. \A f \in Unsent(p) : Place(f) \in Nat
      BY <1>5, PublisherFrames
    <3>. QED  BY <1>2, <2>1, <3>1 DEF OrderOK
  <2>3. OrderOK(q)
    BY <1>1, <2>1, <2>2 DEF OrderOK
  <2>. QED  BY <1>1, <2>1, <2>3 DEF AskedOK
<1>6. \A m \in Message : ArrivedOK(p, m) => ArrivedOK(q, m)
  BY <1>1, <1>2, MQAssumption DEF ArrivedOK, Message
<1>. QED  BY <1>3, <1>4, <1>5, <1>6 DEF ProcessOK

\* A frame put behind frames of lower places.
LEMMA AppendAscending ==
  ASSUME NEW s \in Seq(AnyFrame), NEW f \in AnyFrame, Ascending(s),
         \A g \in Range(s) : Place(g) < Place(f)
  PROVE  Ascending(Append(s, f))
<1>1. PICK n \in Nat : n = Len(s) /\ DOMAIN s = 1 .. n
  BY LenProperties
<1>2. PICK t : t = Append(s, f)
  OBVIOUS
<1>3. /\ DOMAIN t = 1 .. n + 1 /\ t[n + 1] = f
      /\ \A i \in 1 .. n : t[i] = s[i]
  BY <1>1, <1>2, AppendProperties, LenProperties
<1>4. ASSUME NEW i \in 1 .. n + 1, NEW j \in 1 .. n + 1, i < j
      PROVE  Place(t[i]) < Place(t[j])
  <2>1. i \in 1 .. n /\ t[i] = s[i]
    BY <1>3, <1>4
  <2>2. CASE j = n + 1
    BY <1>1, <1>3, <2>1, <2>2 DEF Range
  <2>3. CASE j # n + 1
    <3>1. j \in 1 .. n /\ t[j] = s[j]
      BY <1>3, <2>3
    <3>. QED  BY <1>1, <1>4, <2>1, <3>1 DEF Ascending
  <2>. QED  BY <2>2, <2>3
<1>. QED  BY <1>2, <1>3, <1>4 DEF Ascending

\* The call is made: what it found is used up.
LEMMA CallIsMade ==
  ASSUME NEW r \in Process, NEW q, q = [r EXCEPT !.at = @ + 1, !.look = "none"]
  PROVE  /\ q \in Process /\ q.at = r.at + 1 /\ q.look = "none" /\ q.got = r.got
         /\ q.answer = r.answer /\ q.main = r.main /\ q.conn = r.conn
         /\ q.wire = r.wire /\ q.queue = r.queue /\ q.waits = r.waits
         /\ q.raced = r.raced
<1>1. r.at \in Nat /\ r.at + 1 \in Nat
  BY DEF Process
<1>2. q = [[r EXCEPT !.at = r.at + 1] EXCEPT !.look = "none"]
  BY DEF Process
<1>3. /\ q.at = r.at + 1 /\ q.look = "none" /\ q.got = r.got
      /\ q.answer = r.answer /\ q.main = r.main /\ q.conn = r.conn
      /\ q.wire = r.wire /\ q.queue = r.queue /\ q.waits = r.waits
      /\ q.raced = r.raced
  BY <1>1, <1>2 DEF Process
<1>4. q \in Process
  BY <1>1, <1>2 DEF Process
<1>. QED  BY <1>3, <1>4

\* A call gives the channel the next frame of main(), behind all others; when it
\* found the channel free, it is free.
LEMMA ActsOK ==
  ASSUME NEW c \in Client, NEW p, NEW decl, NEW acc, NEW done,
         ProcessOK(c, p, decl, acc, done),
         p.look # "none", p.conn # "lost",
         NEW f, f = Calls(c)[p.at + 1],
         NEW q, q = Acted(p, f)
  PROVE  /\ ProcessOK(c, q, decl, acc \cup Accepted(f), done)
         /\ \A m \in Message : m.by = c /\ ArrivedOK(p, m) => ArrivedOK(q, m)
<1>1. /\ p \in Process /\ p.at \in Nat /\ p.wire \in Seq(AnyFrame)
      /\ p.queue \in Seq(AnyFrame) /\ p.look \in {"none", "keep", "send"}
      /\ p.waits \in BOOLEAN /\ p.raced \in BOOLEAN
      /\ ChannelOK(p) /\ FramesOK(c, p, acc, done)
  BY DEF ProcessOK, Process
<1>2. p.at + 1 \in 1 .. Len(Calls(c)) /\ p.at < Len(Calls(c))
  BY <1>1, CallsProperties DEF FramesOK
<1>3. /\ f \in AnyFrame /\ f.type # "ack" /\ (f.type = "consume" => c \in Consumer)
      /\ f.type = "publish" => f.msg \in Message /\ f.msg.by = c
      /\ c \in Publisher => Place(f) = p.at + 1
  BY <1>2, CallsProperties, ElementOfSeq
<1>4. /\ Append(p.queue, f) \in Seq(AnyFrame) /\ Append(p.wire, f) \in Seq(AnyFrame)
      /\ Range(Append(p.queue, f)) = Range(p.queue) \cup {f}
      /\ Range(Append(p.wire, f)) = Range(p.wire) \cup {f}
  BY <1>1, <1>3, AppendProperties, AppendRange
<1>5. /\ q \in Process /\ q.at = p.at + 1 /\ q.look = "none" /\ q.got = p.got
      /\ q.answer = p.answer /\ q.main = p.main /\ q.conn = p.conn
      /\ p.look = "keep" =>
           /\ q.wire = p.wire /\ q.queue = Append(p.queue, f)
           /\ q.waits = p.waits /\ q.raced = (p.raced \/ ~MustKeep(p))
      /\ p.look = "send" =>
           /\ q.wire = Append(p.wire, f) /\ q.queue = p.queue
           /\ q.waits = IsRequest(f) /\ q.raced = p.raced
  <2>1. PICK r : r = KeepOrSend(p, f)
    OBVIOUS
  <2>2. CASE p.look = "keep"
    <3>1. (p.raced \/ ~MustKeep(p)) \in BOOLEAN
      OBVIOUS
    <3>2. r = [p EXCEPT !.queue = Append(p.queue, f), !.raced = p.raced \/ ~MustKeep(p)]
      BY <2>1, <2>2 DEF KeepOrSend
    <3>3. r \in Process
      BY <1>1, <1>4, <3>1, <3>2 DEF Process
    <3>4. q = [r EXCEPT !.at = @ + 1, !.look = "none"]
      BY <2>1 DEF Acted
    <3>5. /\ q \in Process /\ q.at = r.at + 1 /\ q.look = "none" /\ q.got = r.got
          /\ q.answer = r.answer /\ q.main = r.main /\ q.conn = r.conn
          /\ q.wire = r.wire /\ q.queue = r.queue /\ q.waits = r.waits
          /\ q.raced = r.raced
      BY <3>3, <3>4, CallIsMade
    <3>6. /\ r.at = p.at /\ r.got = p.got /\ r.answer = p.answer
          /\ r.main = p.main /\ r.conn = p.conn
          /\ r.wire = p.wire /\ r.queue = Append(p.queue, f)
          /\ r.waits = p.waits /\ r.raced = (p.raced \/ ~MustKeep(p))
      BY <1>1, <3>2 DEF Process
    <3>. QED  BY <2>2, <3>5, <3>6
  <2>3. CASE p.look = "send"
    <3>1. IsRequest(f) \in BOOLEAN
      BY DEF IsRequest
    <3>2. r = [p EXCEPT !.wire = Append(p.wire, f), !.waits = IsRequest(f)]
      BY <2>1, <2>3 DEF KeepOrSend
    <3>3. r \in Process
      BY <1>1, <1>4, <3>1, <3>2 DEF Process
    <3>4. q = [r EXCEPT !.at = @ + 1, !.look = "none"]
      BY <2>1 DEF Acted
    <3>5. /\ q \in Process /\ q.at = r.at + 1 /\ q.look = "none" /\ q.got = r.got
          /\ q.answer = r.answer /\ q.main = r.main /\ q.conn = r.conn
          /\ q.wire = r.wire /\ q.queue = r.queue /\ q.waits = r.waits
          /\ q.raced = r.raced
      BY <3>3, <3>4, CallIsMade
    <3>6. /\ r.at = p.at /\ r.got = p.got /\ r.answer = p.answer
          /\ r.main = p.main /\ r.conn = p.conn
          /\ r.wire = Append(p.wire, f) /\ r.queue = p.queue
          /\ r.waits = IsRequest(f) /\ r.raced = p.raced
      BY <1>1, <3>2 DEF Process
    <3>. QED  BY <2>3, <3>5, <3>6
  <2>. QED  BY <1>1, <2>2, <2>3
<1>6. p.look = "send" =>
        /\ ~p.waits /\ p.queue = << >> /\ p.answer = "none"
        /\ \A i \in DOMAIN p.wire : ~IsRequest(p.wire[i])
  BY <1>1 DEF ChannelOK, MustKeep
<1>7. Unsent(q) = Unsent(p) \cup {f}
  <2>1. CASE p.look = "keep"
    BY <1>4, <1>5, <2>1 DEF Unsent
  <2>2. CASE p.look = "send"
    BY <1>4, <1>5, <2>2 DEF Unsent
  <2>. QED  BY <1>1, <2>1, <2>2
<1>8. ChannelOK(q)
  <2>1. CASE p.look = "keep"
    BY <1>1, <1>5, <2>1 DEF ChannelOK, MustKeep
  <2>2. CASE p.look = "send"
    <3>1. PICK n \in Nat : n = Len(p.wire) /\ DOMAIN p.wire = 1 .. n
      BY <1>1, LenProperties
    <3>2. DOMAIN q.wire = 1 .. n + 1 /\ \A i \in 1 .. n : q.wire[i] = p.wire[i]
      BY <1>1, <1>3, <1>4, <1>5, <2>2, <3>1, AppendProperties, LenProperties
    <3>3. \A i \in DOMAIN q.wire : IsRequest(q.wire[i]) => i = n + 1
      BY <1>6, <2>2, <3>1, <3>2
    <3>4. \A i \in DOMAIN q.wire : IsRequest(q.wire[i]) => q.waits
      <4>1. q.wire[n + 1] = f
        BY <1>1, <1>3, <1>5, <2>2, <3>1, AppendProperties
      <4>. QED  BY <1>5, <2>2, <3>3, <4>1
    <3>. QED  BY <1>5, <1>6, <2>2, <3>3, <3>4 DEF ChannelOK
  <2>. QED  BY <1>1, <2>1, <2>2
<1>9. FramesOK(c, q, acc \cup Accepted(f), done)
  <2>1. FrameOK(c, f, acc \cup Accepted(f), done)
    BY <1>3 DEF FrameOK, Accepted
  <2>2. \A g \in Unsent(p) : FrameOK(c, g, acc \cup Accepted(f), done)
    BY <1>1 DEF FrameOK, FramesOK
  <2>. QED  BY <1>1, <1>5, <1>7, <2>1, <2>2 DEF FramesOK
<1>10. ASSUME c \in Publisher PROVE OrderOK(q)
  <2>1. OrderOK(p) /\ \A g \in Unsent(p) : Place(g) \in Nat /\ Place(g) <= p.at
    BY <1>10, PublisherFrames DEF ProcessOK, OrderOK
  <2>2. \A g \in Unsent(p) : Place(g) < Place(f)
    BY <1>1, <1>3, <1>10, <2>1
  <2>3. \A g \in Unsent(q) : Place(g) <= q.at
    BY <1>1, <1>3, <1>5, <1>7, <1>10, <2>1
  <2>4. CASE p.look = "keep"
    <3>1. Ascending(q.queue)
      BY <1>1, <1>3, <1>5, <2>1, <2>2, <2>4, AppendAscending DEF OrderOK, Unsent
    <3>2. \A g \in Range(q.wire), h \in Range(q.queue) : Place(g) < Place(h)
      BY <1>4, <1>5, <2>1, <2>2, <2>4 DEF OrderOK, Unsent
    <3>. QED  BY <1>5, <2>1, <2>3, <2>4, <3>1, <3>2 DEF OrderOK
  <2>5. CASE p.look = "send"
    <3>1. Ascending(q.wire)
      BY <1>1, <1>3, <1>5, <2>1, <2>2, <2>5, AppendAscending DEF OrderOK, Unsent
    <3>2. Range(q.queue) = {} /\ Ascending(q.queue)
      BY <1>5, <1>6, <2>5 DEF Range, Ascending
    <3>3. ASSUME q.waits, NEW g \in Range(q.wire) PROVE g.type # "publish"
      <4>1. IsRequest(f) /\ c \notin Consumer
        BY <1>5, <1>10, <2>5, <3>3, MQAssumption
      <4>2. f.type \in Topology /\ Place(f) \in 1 .. 3
        BY <1>3, <4>1 DEF IsRequest, Place, Topology
      <4>3. CASE g = f
        BY <4>2, <4>3 DEF Topology
      <4>4. CASE g \in Range(p.wire)
        <5>1. g \in Unsent(p) /\ Place(g) < Place(f)
          BY <2>2, <4>4 DEF Unsent
        <5>2. Place(g) \in Nat /\ ~(Place(g) > 3)
          BY <2>1, <4>2, <5>1
        <5>. QED  BY <1>10, <5>1, <5>2, PublisherFrames DEF Topology
      <4>. QED  BY <1>4, <1>5, <2>5, <3>3, <4>3, <4>4
    <3>. QED  BY <2>3, <3>1, <3>2, <3>3 DEF OrderOK
  <2>. QED  BY <1>1, <2>4, <2>5
<1>11. ASSUME c \in Publisher PROVE AskedOK(q, decl)
  <2>. SUFFICES ASSUME q.main # "down", NEW t \in Topology,
                       Place(Frame(t, NoMessage)) <= q.at
                PROVE  t \in decl \/ q.answer = "error" \/ \E g \in Unsent(q) : g.type = t
    BY DEF AskedOK
  <2>1. Place(Frame(t, NoMessage)) \in 1 .. 3 /\ AskedOK(p, decl)
    BY <1>11 DEF Place, Frame, Topology, ProcessOK
  <2>2. CASE Place(Frame(t, NoMessage)) <= p.at
    BY <1>5, <1>7, <2>1, <2>2 DEF AskedOK
  <2>3. CASE Place(Frame(t, NoMessage)) = p.at + 1
    <3>1. Place(f) = Place(Frame(t, NoMessage)) /\ f.type \in Topology \cup {"publish"}
      BY <1>3, <1>11, <2>3, MQAssumption DEF AnyFrame
    <3>2. f.type = "publish" => f.msg.no \in Nat \ {0}
      BY <1>3, MQAssumption DEF Message
    <3>3. f.type = t
      BY <2>1, <3>1, <3>2 DEF Place, Frame, Topology
    <3>. QED  BY <1>7, <3>3
  <2>. QED  BY <1>1, <1>5, <2>1, <2>2, <2>3
<1>12. ASSUME NEW m \in Message, m.by = c, ArrivedOK(p, m) PROVE ArrivedOK(q, m)
  <2>1. c \in Publisher /\ m.no \in Nat
    BY <1>12, MQAssumption DEF Message
  <2>2. f.type = "publish" => Place(f) = 3 + f.msg.no /\ f.msg.no \in Nat
    BY <1>3, MQAssumption DEF Place, Message
  <2>. QED  BY <1>1, <1>3, <1>5, <1>7, <1>12, <2>1, <2>2 DEF ArrivedOK
<1>. QED  BY <1>5, <1>8, <1>9, <1>10, <1>11, <1>12 DEF ProcessOK

\* An answer sends the frames that are kept up to the first request, which waits
\* next.
LEMMA FlushedProperties ==
  ASSUME NEW p \in Process
  PROVE  /\ Flushed(p) \in Process
         /\ \E b, a \in Seq(AnyFrame) :
              /\ p.queue = b \o a
              /\ Flushed(p).wire = p.wire \o b /\ Flushed(p).queue = a
              /\ \A j \in 1 .. Len(b) :
                   IsRequest(b[j]) => j = Len(b) /\ Flushed(p).waits
              /\ Flushed(p).waits => Len(b) \in 1 .. Len(b) /\ IsRequest(b[Len(b)])
              /\ ~Flushed(p).waits => a = << >>
         /\ Flushed(p).main = p.main /\ Flushed(p).at = p.at
         /\ Flushed(p).look = p.look /\ Flushed(p).conn = p.conn
         /\ Flushed(p).answer = p.answer /\ Flushed(p).got = p.got
         /\ Flushed(p).raced = p.raced
<1>1. PICK len \in Nat : len = Len(p.queue)
  BY LenProperties DEF Process
<1>2. PICK i : i = SelectInSeq(p.queue, IsRequest)
  OBVIOUS
<1>3. PICK n : n = IF i = 0 THEN len ELSE i
  OBVIOUS
<1>4. /\ i \in 0 .. len /\ (i # 0 => IsRequest(p.queue[i]))
      /\ \A j \in 1 .. len : IsRequest(p.queue[j]) => i # 0 /\ i <= j
  <2>. DEFINE I == {j \in 1 .. len : IsRequest(p.queue[j])}
  <2>1. i = IF I # {} THEN Min(I) ELSE 0
    BY <1>1, <1>2 DEF SelectInSeq
  <2>2. I \subseteq Nat
    OBVIOUS
  <2>3. CASE I = {}
    BY <2>1, <2>3
  <2>4. CASE I # {}
    <3>1. i \in I /\ \A j \in I : i <= j
      BY <2>1, <2>2, <2>4, LeastOfSet
    <3>. QED  BY <3>1
  <2>. QED  BY <2>3, <2>4
<1>5. n \in 0 .. len /\ (i # 0 => n \in 1 .. len) /\ p.wire \in Seq(AnyFrame)
      /\ p.queue \in Seq(AnyFrame)
  BY <1>3, <1>4 DEF Process
<1>6. PICK b, a : b = SubSeq(p.queue, 1, n) /\ a = SubSeq(p.queue, n + 1, len)
  OBVIOUS
<1>7. Flushed(p) = [p EXCEPT !.wire = p.wire \o b, !.queue = a, !.waits = i # 0]
  BY <1>1, <1>2, <1>3, <1>6 DEF Flushed
<1>8. /\ b \in Seq(AnyFrame) /\ Len(b) = n /\ \A j \in 1 .. n : b[j] = p.queue[j]
      /\ a \in Seq(AnyFrame)
  <2>1. \A j \in 1 .. len : p.queue[j] \in AnyFrame
    BY <1>1, <1>5, ElementOfSeq
  <2>2. b \in Seq(AnyFrame) /\ Len(b) = n /\ \A j \in 1 .. n : b[j] = p.queue[j]
    BY <1>5, <1>6, <2>1, SubSeqProperties
  <2>3. a \in Seq(AnyFrame)
    BY <1>5, <1>6, <2>1, SubSeqProperties
  <2>. QED  BY <2>2, <2>3
<1>9. p.queue = b \o a
  <2>1. SubSeq(p.queue, 1, n) \o SubSeq(p.queue, n + 1, len) = SubSeq(p.queue, 1, len)
    <3>1. 1 \in 1 .. len + 1 /\ n \in 1 - 1 .. len /\ len \in n .. len
      BY <1>5
    <3>. QED  BY <1>1, <1>5, <3>1, ConcatAdjacentSubSeq
  <2>. QED  BY <1>1, <1>5, <1>6, <2>1, SubSeqFull
<1>10. p.wire \o b \in Seq(AnyFrame) /\ (i # 0) \in BOOLEAN
  BY <1>5, <1>8, ConcatProperties
<1>11. /\ Flushed(p) \in Process
       /\ Flushed(p).wire = p.wire \o b /\ Flushed(p).queue = a
       /\ Flushed(p).waits = (i # 0)
       /\ Flushed(p).main = p.main /\ Flushed(p).at = p.at
       /\ Flushed(p).look = p.look /\ Flushed(p).conn = p.conn
       /\ Flushed(p).answer = p.answer /\ Flushed(p).got = p.got
       /\ Flushed(p).raced = p.raced
  BY <1>7, <1>8, <1>10 DEF Process
<1>12. \A j \in 1 .. n : IsRequest(b[j]) => j = n /\ i # 0
  <2>. SUFFICES ASSUME NEW j \in 1 .. n, IsRequest(b[j]) PROVE j = n /\ i # 0
    OBVIOUS
  <2>1. j \in 1 .. len /\ IsRequest(p.queue[j])
    BY <1>5, <1>8
  <2>2. i # 0 /\ i <= j
    BY <1>4, <2>1
  <2>. QED  BY <1>3, <1>5, <2>2
<1>13. i # 0 => n \in 1 .. n /\ IsRequest(b[n])
  BY <1>3, <1>4, <1>5, <1>8
<1>14. i = 0 => a = << >>
  BY <1>3, <1>6, SubSeqEmpty
<1>. QED  BY <1>8, <1>9, <1>11, <1>12, <1>13, <1>14

\* A concatenation ascends when both parts do, and the second is above the first.
LEMMA ConcatAscending ==
  ASSUME NEW s \in Seq(AnyFrame), NEW t \in Seq(AnyFrame)
  PROVE  Ascending(s \o t) <=>
           /\ Ascending(s) /\ Ascending(t)
           /\ \A f \in Range(s), g \in Range(t) : Place(f) < Place(g)
<1>1. PICK m \in Nat, n \in Nat :
        m = Len(s) /\ n = Len(t) /\ DOMAIN s = 1 .. m /\ DOMAIN t = 1 .. n
  BY LenProperties
<1>2. PICK u : u = s \o t
  OBVIOUS
<1>3. /\ DOMAIN u = 1 .. m + n
      /\ \A i \in 1 .. m : u[i] = s[i]
      /\ \A i \in 1 .. n : u[m + i] = t[i]
  <2>1. /\ u \in Seq(AnyFrame) /\ Len(u) = m + n
        /\ \A i \in 1 .. m + n : u[i] = IF i <= m THEN s[i] ELSE t[i - m]
    BY <1>1, <1>2, ConcatProperties
  <2>2. \A i \in 1 .. n : m + i \in 1 .. m + n /\ ~(m + i <= m) /\ (m + i) - m = i
    OBVIOUS
  <2>3. \A i \in 1 .. m : i \in 1 .. m + n /\ i <= m
    OBVIOUS
  <2>. QED  BY <2>1, <2>2, <2>3, LenProperties
<1>4. ASSUME Ascending(u)
      PROVE  /\ Ascending(s) /\ Ascending(t)
             /\ \A f \in Range(s), g \in Range(t) : Place(f) < Place(g)
  <2>1. \A i \in 1 .. m, j \in 1 .. n :
          i \in 1 .. m + n /\ m + j \in 1 .. m + n /\ i < m + j
    OBVIOUS
  <2>2. \A i \in 1 .. m, j \in 1 .. n : Place(s[i]) < Place(t[j])
    BY <1>3, <1>4, <2>1 DEF Ascending
  <2>3. Ascending(s)
    <3>1. \A i \in 1 .. m : i \in 1 .. m + n
      OBVIOUS
    <3>. QED  BY <1>1, <1>3, <1>4, <3>1 DEF Ascending
  <2>4. Ascending(t)
    <3>1. \A i, j \in 1 .. n : m + i \in 1 .. m + n /\ (i < j => m + i < m + j)
      OBVIOUS
    <3>. QED  BY <1>1, <1>3, <1>4, <3>1 DEF Ascending
  <2>. QED  BY <1>1, <2>2, <2>3, <2>4 DEF Range
<1>5. ASSUME Ascending(s), Ascending(t),
             \A f \in Range(s), g \in Range(t) : Place(f) < Place(g),
             NEW i \in 1 .. m + n, NEW j \in 1 .. m + n, i < j
      PROVE  Place(u[i]) < Place(u[j])
  <2>1. CASE j <= m
    <3>1. i \in 1 .. m /\ j \in 1 .. m
      BY <1>5, <2>1
    <3>. QED  BY <1>1, <1>3, <1>5, <3>1 DEF Ascending
  <2>2. CASE i <= m /\ ~(j <= m)
    <3>1. i \in 1 .. m /\ j - m \in 1 .. n /\ m + (j - m) = j
      BY <2>2
    <3>2. u[i] \in Range(s) /\ u[j] \in Range(t)
      BY <1>1, <1>3, <3>1 DEF Range
    <3>. QED  BY <1>5, <3>2
  <2>3. CASE ~(i <= m)
    <3>1. /\ i - m \in 1 .. n /\ j - m \in 1 .. n /\ i - m < j - m
          /\ m + (i - m) = i /\ m + (j - m) = j
      BY <1>5, <2>3
    <3>2. u[i] = t[i - m] /\ u[j] = t[j - m]
      BY <1>3, <3>1
    <3>. QED  BY <1>1, <1>5, <3>1, <3>2 DEF Ascending
  <2>. QED  BY <1>5, <2>1, <2>2, <2>3
<1>. QED  BY <1>2, <1>3, <1>4, <1>5 DEF Ascending

\* So an answer keeps the frames in order, and one request at a time.
LEMMA FlushedOK ==
  ASSUME NEW c \in Client, NEW p, NEW decl, NEW acc, NEW done,
         ProcessOK(c, p, decl, acc, done), p.answer = "ok",
         NEW q, q = Answered(p)
  PROVE  /\ ProcessOK(c, q, decl, acc, done)
         /\ \A m \in Message : ArrivedOK(p, m) => ArrivedOK(q, m)
<1>1. /\ p \in Process /\ p.wire \in Seq(AnyFrame) /\ p.queue \in Seq(AnyFrame)
      /\ ChannelOK(p) /\ FramesOK(c, p, acc, done)
  BY DEF ProcessOK, Process
<1>2. p.waits /\ \A i \in DOMAIN p.wire : ~IsRequest(p.wire[i])
  BY <1>1 DEF ChannelOK
<1>3. PICK r : r = Flushed(p)
  OBVIOUS
<1>4. /\ r \in Process /\ r.main = p.main /\ r.at = p.at
      /\ r.look = p.look /\ r.conn = p.conn /\ r.got = p.got /\ r.raced = p.raced
  BY <1>1, <1>3, FlushedProperties
<1>5. PICK b, a \in Seq(AnyFrame) :
        /\ p.queue = b \o a /\ r.wire = p.wire \o b /\ r.queue = a
        /\ \A j \in 1 .. Len(b) : IsRequest(b[j]) => j = Len(b) /\ r.waits
        /\ r.waits => Len(b) \in 1 .. Len(b) /\ IsRequest(b[Len(b)])
        /\ ~r.waits => a = << >>
  BY <1>1, <1>3, FlushedProperties
<1>6. /\ q \in Process /\ q.answer = "none"
      /\ q.wire = p.wire \o b /\ q.queue = a /\ q.waits = r.waits
      /\ q.main = p.main /\ q.at = p.at /\ q.look = p.look /\ q.conn = p.conn
      /\ q.got = p.got /\ q.raced = p.raced
  <2>1. q = [r EXCEPT !.answer = "none"]
    BY <1>3 DEF Answered
  <2>2. /\ q \in Process /\ q.answer = "none" /\ q.wire = r.wire /\ q.queue = r.queue
        /\ q.waits = r.waits /\ q.main = r.main /\ q.at = r.at /\ q.look = r.look
        /\ q.conn = r.conn /\ q.got = r.got /\ q.raced = r.raced
    BY <1>4, <2>1 DEF Process
  <2>. QED  BY <1>4, <1>5, <2>2
<1>7. /\ Range(p.queue) = Range(b) \cup Range(a)
      /\ Range(q.wire) = Range(p.wire) \cup Range(b)
  <2>1. Range(b \o a) = Range(b) \cup Range(a)
    BY <1>5, RangeConcatenation
  <2>2. Range(p.wire \o b) = Range(p.wire) \cup Range(b)
    BY <1>1, <1>5, RangeConcatenation
  <2>. QED  BY <1>5, <1>6, <2>1, <2>2
<1>8. Unsent(q) = Unsent(p)
  BY <1>6, <1>7 DEF Unsent
<1>9. PICK n \in Nat : n = Len(b) /\ DOMAIN b = 1 .. n
  BY <1>5, LenProperties
<1>10. ChannelOK(q)
  <2>1. PICK w \in Nat : w = Len(p.wire) /\ DOMAIN p.wire = 1 .. w
    BY <1>1, LenProperties
  <2>2. /\ DOMAIN q.wire = 1 .. w + n
        /\ \A i \in 1 .. w + n : q.wire[i] = IF i <= w THEN p.wire[i] ELSE b[i - w]
    BY <1>1, <1>5, <1>6, <1>9, <2>1, ConcatProperties, LenProperties
  <2>3. ASSUME NEW i \in 1 .. w + n, IsRequest(q.wire[i])
        PROVE  i = w + n /\ q.waits
    <3>1. ~(i <= w)
      <4>1. i <= w => i \in 1 .. w
        OBVIOUS
      <4>. QED  BY <1>2, <2>1, <2>2, <2>3, <4>1
    <3>2. i - w \in 1 .. n
      BY <3>1
    <3>3. IsRequest(b[i - w])
      BY <2>2, <2>3, <3>1
    <3>4. i - w = n /\ r.waits
      BY <1>5, <1>9, <3>2, <3>3
    <3>5. i = w + n
      BY <3>4
    <3>. QED  BY <1>6, <3>4, <3>5
  <2>4. q.look # "send"
    BY <1>1, <1>2, <1>6 DEF ChannelOK, MustKeep
  <2>5. \A i \in DOMAIN q.wire : IsRequest(q.wire[i]) => i = w + n /\ q.waits
    BY <2>2, <2>3
  <2>6. q.queue # << >> => q.waits
    BY <1>5, <1>6
  <2>. QED  BY <1>6, <2>4, <2>5, <2>6 DEF ChannelOK
<1>11. FramesOK(c, q, acc, done)
  BY <1>1, <1>6, <1>8 DEF FramesOK
<1>12. ASSUME c \in Publisher PROVE OrderOK(q) /\ AskedOK(q, decl)
  <2>1. OrderOK(p) /\ AskedOK(p, decl)
    BY <1>12 DEF ProcessOK
  <2>2. /\ Ascending(b) /\ Ascending(a)
        /\ \A f \in Range(b), g \in Range(a) : Place(f) < Place(g)
    BY <1>5, <2>1, ConcatAscending DEF OrderOK
  <2>3. \A f \in Range(p.wire), g \in Range(b) \cup Range(a) : Place(f) < Place(g)
    BY <1>7, <2>1 DEF OrderOK
  <2>4. Ascending(q.wire)
    <3>1. Ascending(p.wire \o b)
      BY <1>1, <1>5, <2>1, <2>2, <2>3, ConcatAscending DEF OrderOK
    <3>. QED  BY <1>6, <3>1
  <2>5. \A f \in Range(q.wire), g \in Range(q.queue) : Place(f) < Place(g)
    BY <1>6, <1>7, <2>2, <2>3
  <2>6. ASSUME q.waits, NEW i \in 1 .. n PROVE b[i].type # "publish"
    <3>1. /\ n \in 1 .. n /\ IsRequest(b[n])
          /\ \A j \in 1 .. n : b[j] \in Unsent(p)
      BY <1>5, <1>6, <1>7, <1>9, <2>6 DEF Unsent, Range
    <3>2. b[n].type # "publish" /\ ~(Place(b[n]) > 3)
      <4>1. b[n].type # "publish"
        BY <3>1 DEF IsRequest, Topology
      <4>2. Place(b[n]) \in 1 .. 3
        BY <1>12, <3>1, <4>1, PublisherFrames
      <4>. QED  BY <4>1, <4>2
    <3>3. CASE i = n
      BY <3>2, <3>3
    <3>4. CASE i # n
      <4>1. i < n
        BY <3>4
      <4>2. Place(b[i]) < Place(b[n])
        BY <1>9, <2>2, <3>1, <4>1 DEF Ascending
      <4>3. Place(b[i]) \in Nat /\ Place(b[n]) \in Nat
        BY <1>12, <3>1, PublisherFrames
      <4>4. ~(Place(b[i]) > 3)
        BY <3>2, <4>2, <4>3
      <4>. QED  BY <1>12, <3>1, <4>4, PublisherFrames DEF Topology
    <3>. QED  BY <3>3, <3>4
  <2>7. q.waits => \A f \in Range(q.wire) : f.type # "publish"
    BY <1>2, <1>7, <1>9, <2>1, <2>6 DEF OrderOK, Range
  <2>8. OrderOK(q)
    BY <1>6, <1>8, <2>1, <2>2, <2>4, <2>5, <2>7 DEF OrderOK
  <2>9. AskedOK(q, decl)
    BY <1>6, <1>8, <2>1 DEF AskedOK
  <2>. QED  BY <2>8, <2>9
<1>13. \A m \in Message : ArrivedOK(p, m) => ArrivedOK(q, m)
  BY <1>6, <1>8 DEF ArrivedOK
<1>. QED  BY <1>6, <1>10, <1>11, <1>12, <1>13 DEF ProcessOK

\* A connection that is lost while no request waits takes the frames on their
\* way with it, and the frames that are kept stay.
LEMMA LostOK ==
  ASSUME NEW c \in Client, NEW p, NEW decl, NEW acc, NEW done,
         ProcessOK(c, p, decl, acc, done), ~p.waits,
         NEW q, q = Cut(p)
  PROVE  /\ ProcessOK(c, q, decl, acc, done)
         /\ \A m \in Message : ArrivedOK(p, m) => ArrivedOK(q, m)
<1>1. << >> \in Seq(AnyFrame) /\ Range(<< >>) = {} /\ DOMAIN << >> = {}
  BY DEF Range
<1>2. /\ q \in Process /\ q.wire = << >> /\ q.queue = p.queue /\ q.waits = p.waits
      /\ q.answer = "none" /\ q.look = p.look /\ q.got = p.got /\ q.at = p.at
      /\ q.raced = p.raced /\ q.conn = "lost" /\ q.main = p.main
  BY <1>1 DEF ProcessOK, Process, Cut
<1>3. Unsent(q) \subseteq Unsent(p) /\ MustKeep(q) = MustKeep(p)
  BY <1>1, <1>2 DEF Unsent, MustKeep
<1>4. ChannelOK(q) /\ FramesOK(c, q, acc, done)
  BY <1>1, <1>2, <1>3 DEF ProcessOK, ChannelOK, FramesOK
<1>5. ASSUME c \in Publisher PROVE OrderOK(q) /\ AskedOK(q, decl)
  <2>1. OrderOK(p)
    BY <1>5 DEF ProcessOK
  <2>. QED  BY <1>1, <1>2, <1>3, <2>1 DEF OrderOK, AskedOK, Ascending
<1>6. \A m \in Message : ArrivedOK(p, m) => ArrivedOK(q, m)
  BY <1>2, <1>3 DEF ArrivedOK
<1>. QED  BY <1>2, <1>4, <1>5, <1>6 DEF ProcessOK

\* The acknowledgement of what was handled goes the way of the other frames; it
\* is no request.
LEMMA AckOK ==
  ASSUME NEW c \in Client, NEW p, NEW decl, NEW acc, NEW done,
         ProcessOK(c, p, decl, acc, done), p.got # NoMessage,
         NEW q, q = Acked(p)
  PROVE  ProcessOK(c, q, decl, acc, done \cup {p.got}) /\ c \in Consumer
<1>1. PICK f : f = Frame("ack", p.got)
  OBVIOUS
<1>2. PICK r : r = [p EXCEPT !.got = NoMessage]
  OBVIOUS
<1>3. /\ p \in Process /\ p.got \in Message /\ p.wire \in Seq(AnyFrame)
      /\ p.queue \in Seq(AnyFrame) /\ c \in Consumer /\ c \notin Publisher
      /\ ChannelOK(p) /\ FramesOK(c, p, acc, done)
  BY MQAssumption DEF ProcessOK, Process, FramesOK
<1>4. /\ f \in AnyFrame /\ f.type = "ack" /\ f.msg = p.got /\ ~IsRequest(f)
  BY <1>1, <1>3 DEF Frame, AnyFrame, IsRequest, Topology
<1>5. /\ r \in Process /\ r.got = NoMessage /\ r.wire = p.wire /\ r.queue = p.queue
      /\ r.waits = p.waits /\ r.answer = p.answer /\ r.look = p.look
      /\ r.raced = p.raced /\ r.at = p.at
  BY <1>2, <1>3 DEF Process
<1>6. /\ Append(p.queue, f) \in Seq(AnyFrame) /\ Append(p.wire, f) \in Seq(AnyFrame)
      /\ Range(Append(p.queue, f)) = Range(p.queue) \cup {f}
      /\ Range(Append(p.wire, f)) = Range(p.wire) \cup {f}
  BY <1>3, <1>4, AppendProperties, AppendRange
<1>7. MustKeep(r) = MustKeep(p)
  BY <1>5 DEF MustKeep
<1>8. /\ q \in Process /\ q.got = NoMessage
      /\ q.waits = p.waits /\ q.answer = p.answer /\ q.look = p.look
      /\ q.raced = p.raced /\ q.at = p.at
      /\ IF MustKeep(p) THEN q.wire = p.wire /\ q.queue = Append(p.queue, f)
                        ELSE q.wire = Append(p.wire, f) /\ q.queue = p.queue
  <2>1. CASE MustKeep(p)
    <3>1. q = [r EXCEPT !.queue = Append(p.queue, f)]
      BY <1>1, <1>2, <1>5, <1>7, <2>1 DEF Acked
    <3>. QED  BY <1>5, <1>6, <2>1, <3>1 DEF Process
  <2>2. CASE ~MustKeep(p)
    <3>1. q = [r EXCEPT !.wire = Append(p.wire, f)]
      BY <1>1, <1>2, <1>5, <1>7, <2>2 DEF Acked
    <3>. QED  BY <1>5, <1>6, <2>2, <3>1 DEF Process
  <2>. QED  BY <2>1, <2>2
<1>9. Unsent(q) = Unsent(p) \cup {f}
  BY <1>6, <1>8 DEF Unsent
<1>10. FramesOK(c, q, acc, done \cup {p.got})
  <2>1. FrameOK(c, f, acc, done \cup {p.got})
    BY <1>3, <1>4 DEF FrameOK
  <2>2. \A g \in Unsent(p) : FrameOK(c, g, acc, done \cup {p.got})
    BY <1>3 DEF FrameOK, FramesOK
  <2>. QED  BY <1>3, <1>8, <1>9, <2>1, <2>2 DEF FramesOK
<1>11. ChannelOK(q)
  <2>1. CASE MustKeep(p)
    BY <1>3, <1>8, <2>1 DEF ChannelOK, MustKeep
  <2>2. CASE ~MustKeep(p)
    <3>1. PICK n \in Nat : n = Len(p.wire) /\ DOMAIN p.wire = 1 .. n
      BY <1>3, LenProperties
    <3>2. /\ DOMAIN q.wire = 1 .. n + 1 /\ q.wire[n + 1] = f
          /\ \A i \in 1 .. n : q.wire[i] = p.wire[i]
      BY <1>3, <1>4, <1>8, <2>2, <3>1, AppendProperties, LenProperties
    <3>3. \A i \in DOMAIN q.wire : ~IsRequest(q.wire[i])
      BY <1>3, <1>4, <2>2, <3>1, <3>2 DEF ChannelOK, MustKeep
    <3>4. MustKeep(q) = MustKeep(p) /\ q.queue = << >>
      BY <1>8, <2>2 DEF MustKeep
    <3>. QED  BY <1>3, <1>8, <3>3, <3>4 DEF ChannelOK
  <2>. QED  BY <2>1, <2>2
<1>. QED  BY <1>3, <1>8, <1>10, <1>11 DEF ProcessOK

\* The first frame is below the others, and the others stay in order.
LEMMA TailAscending ==
  ASSUME NEW s \in Seq(AnyFrame), s # << >>, Ascending(s)
  PROVE  Ascending(Tail(s)) /\ \A f \in Range(Tail(s)) : Place(Head(s)) < Place(f)
<1>1. PICK n \in Nat : n = Len(s) - 1 /\ DOMAIN s = 1 .. n + 1
  BY LenProperties, EmptySeq
<1>2. /\ DOMAIN Tail(s) = 1 .. n /\ Head(s) = s[1]
      /\ \A i \in 1 .. n : Tail(s)[i] = s[i + 1]
  BY <1>1, HeadTailProperties, LenProperties
<1>3. \A i, j \in 1 .. n : /\ 1 \in 1 .. n + 1 /\ i + 1 \in 1 .. n + 1 /\ 1 < i + 1
                           /\ j + 1 \in 1 .. n + 1 /\ (i < j => i + 1 < j + 1)
  OBVIOUS
<1>4. Ascending(Tail(s))
  BY <1>1, <1>2, <1>3 DEF Ascending
<1>5. \A i \in 1 .. n : Place(s[1]) < Place(s[i + 1])
  BY <1>1, <1>3 DEF Ascending
<1>. QED  BY <1>2, <1>4, <1>5 DEF Range

\* The broker has the first frame of a process.  If it is a request, it was the
\* only one, and it is declared or refused.
LEMMA TakenOK ==
  ASSUME NEW c \in Client, NEW p, NEW decl, NEW acc, NEW done,
         ProcessOK(c, p, decl, acc, done), p.wire # << >>,
         NEW f, f = Head(p.wire), NEW decl2, decl \subseteq decl2,
         NEW ans \in {"none", "ok", "error"},
         f.type \in Topology => ans = "error" \/ f.type \in decl2,
         IF IsRequest(f) THEN ans # "none" ELSE ans = p.answer,
         NEW q, q = Taken(p, ans)
  PROVE  /\ ProcessOK(c, q, decl2, acc, done)
         /\ \A m \in Message : ArrivedOK(p, m) => ArrivedOK(q, m)
<1>1. /\ p \in Process /\ p.wire \in Seq(AnyFrame) /\ p.answer \in {"none", "ok", "error"}
      /\ ChannelOK(p) /\ FramesOK(c, p, acc, done)
  BY DEF ProcessOK, Process
<1>2. PICK s : s = Tail(p.wire)
  OBVIOUS
<1>3. s \in Seq(AnyFrame) /\ Range(p.wire) = {f} \cup Range(s) /\ f \in Unsent(p)
  BY <1>1, <1>2, TailRange DEF Unsent
<1>4. /\ q \in Process /\ q.wire = s /\ q.queue = p.queue /\ q.waits = p.waits
      /\ q.answer = ans /\ q.look = p.look /\ q.got = p.got /\ q.at = p.at
      /\ q.raced = p.raced /\ q.conn = p.conn /\ q.main = p.main
  BY <1>1, <1>2, <1>3 DEF Process, Taken
<1>5. Unsent(p) = {f} \cup Unsent(q) /\ MustKeep(q) = MustKeep(p)
  BY <1>3, <1>4 DEF Unsent, MustKeep
<1>6. PICK n \in Nat :
        /\ DOMAIN p.wire = 1 .. n + 1 /\ DOMAIN s = 1 .. n /\ f = p.wire[1]
        /\ \A i \in 1 .. n : i + 1 \in 1 .. n + 1 /\ s[i] = p.wire[i + 1]
  <2>. PICK w \in Nat : w = Len(p.wire) /\ DOMAIN p.wire = 1 .. w
    BY <1>1, LenProperties
  <2>. w # 0
    BY <1>1, EmptySeq
  <2>1. PICK n \in Nat : n = Len(p.wire) - 1 /\ DOMAIN p.wire = 1 .. n + 1
    <3>1. w - 1 \in Nat /\ (w - 1) + 1 = w
      OBVIOUS
    <3>. QED  BY <3>1
  <2>2. /\ Len(s) = n /\ DOMAIN s = 1 .. n /\ f = p.wire[1]
        /\ \A i \in 1 .. n : s[i] = p.wire[i + 1]
    BY <1>1, <1>2, <1>3, <2>1, HeadTailProperties, LenProperties
  <2>3. \A i \in 1 .. n : i + 1 \in 1 .. n + 1
    OBVIOUS
  <2>. QED  BY <2>1, <2>2, <2>3
<1>7. ChannelOK(q)
  <2>1. 1 \in DOMAIN p.wire /\ \A i \in 1 .. n : i + 1 # 1 /\ i + 1 \in DOMAIN p.wire
    BY <1>6
  <2>2. CASE IsRequest(f)
    <3>1. /\ p.waits
          /\ \A i \in DOMAIN p.wire : IsRequest(p.wire[i]) => i = 1
      BY <1>1, <1>6, <2>1, <2>2 DEF ChannelOK
    <3>2. ASSUME NEW i \in 1 .. n PROVE ~IsRequest(s[i])
      BY <1>6, <2>1, <3>1
    <3>3. q.look = "send" => ~MustKeep(q)
      BY <1>1, <1>4, <1>5 DEF ChannelOK
    <3>4. q.queue # << >> => q.waits \/ q.raced
      BY <1>1, <1>4 DEF ChannelOK
    <3>. QED  BY <1>4, <1>6, <3>1, <3>2, <3>3, <3>4 DEF ChannelOK
  <2>3. CASE ~IsRequest(f)
    <3>1. \A i, j \in 1 .. n : i + 1 = j + 1 => i = j
      OBVIOUS
    <3>2. ASSUME NEW i \in 1 .. n, IsRequest(s[i])
          PROVE  /\ q.waits /\ q.answer = "none"
                 /\ \A j \in 1 .. n : IsRequest(s[j]) => i = j
      <4>1. i + 1 \in DOMAIN p.wire /\ IsRequest(p.wire[i + 1])
        BY <1>6, <3>2
      <4>2. p.waits /\ p.answer = "none"
        BY <1>1, <4>1 DEF ChannelOK
      <4>3. ASSUME NEW j \in 1 .. n, IsRequest(s[j]) PROVE i = j
        <5>1. j + 1 \in DOMAIN p.wire /\ IsRequest(p.wire[j + 1])
          BY <1>6, <4>3
        <5>2. i + 1 = j + 1
          BY <1>1, <4>1, <5>1 DEF ChannelOK
        <5>. QED  BY <3>1, <5>2
      <4>. QED  BY <1>4, <2>3, <4>2, <4>3
    <3>3. /\ q.answer # "none" => q.waits
          /\ q.look = "send" => ~MustKeep(q)
          /\ q.queue # << >> => q.waits \/ q.raced
      BY <1>1, <1>4, <1>5, <2>3 DEF ChannelOK
    <3>. QED  BY <1>4, <1>6, <3>2, <3>3 DEF ChannelOK
  <2>. QED  BY <2>2, <2>3
<1>8. FramesOK(c, q, acc, done)
  BY <1>1, <1>4, <1>5 DEF FramesOK
<1>9. ASSUME c \in Publisher PROVE OrderOK(q) /\ AskedOK(q, decl2)
  <2>1. OrderOK(p) /\ AskedOK(p, decl)
    BY <1>9 DEF ProcessOK
  <2>2. Ascending(s)
    BY <1>1, <1>2, <2>1, TailAscending DEF OrderOK
  <2>3. OrderOK(q)
    BY <1>3, <1>4, <1>5, <2>1, <2>2 DEF OrderOK
  <2>4. ASSUME p.answer = "error" PROVE q.answer = "error"
    <3>1. 1 \in DOMAIN p.wire
      BY <1>6
    <3>. QED  BY <1>1, <1>4, <1>6, <2>4, <3>1 DEF ChannelOK
  <2>5. AskedOK(q, decl2)
    BY <1>4, <1>5, <2>1, <2>4 DEF AskedOK
  <2>. QED  BY <2>3, <2>5
<1>10. \A m \in Message : ArrivedOK(p, m) => ArrivedOK(q, m)
  BY <1>4, <1>5 DEF ArrivedOK
<1>. QED  BY <1>4, <1>7, <1>8, <1>9, <1>10 DEF ProcessOK

\* When the first frame carries a message, what its publisher asked for is
\* declared, and no message to come was published before.
LEMMA FirstMessage ==
  ASSUME NEW c \in Client, NEW p, NEW decl, NEW acc, NEW done,
         decl \subseteq Topology, ProcessOK(c, p, decl, acc, done), p.wire # << >>,
         p.main # "down", p.conn = "up",
         NEW f, f = Head(p.wire), f.type = "publish",
         NEW q, q = Taken(p, p.answer)
  PROVE  /\ f.msg \in Message /\ f.msg.by = c /\ f.msg \in acc
         /\ decl = Topology
         /\ \A m \in Message : ArrivedOK(p, m) => m.no < f.msg.no
         /\ ArrivedOK(q, f.msg)
<1>1. /\ p \in Process /\ p.wire \in Seq(AnyFrame) /\ f \in Range(p.wire)
      /\ ChannelOK(p) /\ FramesOK(c, p, acc, done) /\ f \in Unsent(p)
      /\ Range(p.wire) = {f} \cup Range(Tail(p.wire))
  <2>1. p \in Process /\ p.wire \in Seq(AnyFrame)
    BY DEF ProcessOK, Process
  <2>. QED  BY <2>1, TailRange DEF ProcessOK, Unsent
<1>2. f.msg \in Message /\ f.msg.by = c /\ f.msg \in acc /\ c \in Publisher
  BY <1>1 DEF FramesOK, FrameOK, Message
<1>3. /\ OrderOK(p) /\ AskedOK(p, decl)
      /\ Place(f) = 3 + f.msg.no /\ f.msg.no \in Nat \ {0} /\ p.at \in Nat
      /\ \A g \in Range(Tail(p.wire)) \cup Range(p.queue) : Place(f) < Place(g)
  <2>1. OrderOK(p) /\ AskedOK(p, decl)
    BY <1>2 DEF ProcessOK
  <2>2. \A g \in Range(Tail(p.wire)) : Place(f) < Place(g)
    BY <1>1, <2>1, TailAscending DEF OrderOK
  <2>3. Place(f) = 3 + f.msg.no /\ f.msg.no \in Nat \ {0} /\ p.at \in Nat
    BY <1>1, <1>2, MQAssumption DEF Place, Message, Process
  <2>. QED  BY <1>1, <2>1, <2>2, <2>3 DEF OrderOK
<1>4. ASSUME NEW t \in Topology PROVE t \in decl
  <2>1. Place(Frame(t, NoMessage)) \in 1 .. 3 /\ Place(f) <= p.at
    BY <1>1, <1>3 DEF Place, Frame, Topology, OrderOK
  <2>2. Place(Frame(t, NoMessage)) <= p.at
    BY <1>3, <2>1
  <2>3. t \in decl \/ p.answer = "error" \/ \E g \in Unsent(p) : g.type = t
    BY <1>3, <2>2 DEF AskedOK
  <2>4. p.answer # "error"
    BY <1>1, <1>3 DEF ChannelOK, OrderOK
  <2>5. ASSUME NEW g \in Unsent(p), g.type = t PROVE FALSE
    <3>1. Place(g) \in 1 .. 3 /\ g # f
      BY <2>5 DEF Place, Topology
    <3>2. Place(f) < Place(g)
      BY <1>1, <1>3, <3>1 DEF Unsent
    <3>. QED  BY <1>3, <3>1, <3>2
  <2>. QED  BY <2>3, <2>4, <2>5
<1>5. \A m \in Message : ArrivedOK(p, m) => m.no < f.msg.no
  BY <1>1 DEF ArrivedOK
<1>6. ArrivedOK(q, f.msg)
  <2>1. q.wire = Tail(p.wire) /\ q.queue = p.queue /\ q.at = p.at
    BY <1>1 DEF Process, Taken
  <2>2. ASSUME NEW g \in Unsent(q), g.type = "publish" PROVE f.msg.no < g.msg.no
    <3>1. Place(f) < Place(g) /\ g \in Unsent(p)
      BY <1>1, <1>3, <2>1 DEF Unsent
    <3>2. g.msg.no \in Nat
      BY <1>2, <2>2, <3>1, PublisherFrames DEF Topology
    <3>3. Place(g) = 3 + g.msg.no
      BY <2>2 DEF Place
    <3>. QED  BY <1>3, <3>1, <3>2, <3>3
  <2>3. 3 + f.msg.no <= q.at
    BY <1>1, <1>3, <2>1 DEF OrderOK
  <2>. QED  BY <2>2, <2>3 DEF ArrivedOK
<1>. QED  BY <1>2, <1>4, <1>5, <1>6

-----------------------------------------------------------------------------
(* The processes and the broker *)

TypeOK ==
  /\ mq \in [Client -> Process]
  /\ starts \in [Client -> Nat]
  /\ declared \in SUBSET Topology
  /\ ready \in Seq(Message)
  /\ unacked \in [Client -> Seq(Message)]
  /\ consuming \in SUBSET Consumer
  /\ arrived \in Seq(Message)
  /\ accepted \in SUBSET Message
  /\ unrouted \in SUBSET Message
  /\ handled \in SUBSET Message

ProcessesOK == \A c \in Client : ProcessOK(c, mq[c], declared, accepted, handled)

\* A message arrived from a process that was started, and has no other of the
\* same run before it that is still to come.
History ==
  /\ \A c \in Publisher : mq[c].main # "down" => starts[c] > 0
  /\ \A m \in Range(arrived) :
       m \in accepted /\ starts[m.by] > 0 /\ ArrivedOK(mq[m.by], m)

IInv ==
  /\ TypeOK /\ ProcessesOK /\ History
  /\ NothingUnrouted /\ ArriveInOrder /\ NothingForgotten

LEMMA InitIInv == Init => IInv
<1>. SUFFICES ASSUME Init PROVE IInv
  OBVIOUS
<1>1. << >> \in Seq(Message) /\ Range(<< >>) = {} /\ DOMAIN << >> = {}
  BY DEF Range
<1>2. \A c \in Client :
        mq[c] = Down /\ ProcessOK(c, Down, declared, accepted, handled)
  BY NewProcessOK DEF Init
<1>3. ProcessesOK
  BY <1>2 DEF ProcessesOK
<1>4. TypeOK
  <2>1. mq \in [Client -> Process]
    BY <1>2 DEF Init, ProcessOK
  <2>. QED  BY <1>1, <2>1 DEF Init, TypeOK
<1>5. History
  BY <1>1, <1>2 DEF Init, History, Client, Down, New
<1>6. NothingUnrouted /\ ArriveInOrder /\ NothingForgotten
  BY <1>1 DEF Init, NothingUnrouted, ArriveInOrder, NothingForgotten, ToSet, Range
<1>. QED  BY <1>3, <1>4, <1>5, <1>6 DEF IInv

\* A step of the process c: the others stay as they are.
LEMMA ProcessStep ==
  ASSUME IInv, NEW c \in Client, NEW q, mq' = [mq EXCEPT ![c] = q],
         ProcessOK(c, q, declared', accepted', handled'),
         declared \subseteq declared', accepted \subseteq accepted',
         handled \subseteq handled',
         starts' \in [Client -> Nat], \A d \in Client : starts[d] <= starts'[d],
         c \in Publisher /\ q.main # "down" => starts'[c] > 0,
         \A m \in Range(arrived) : m.by = c => ArrivedOK(q, m)
  PROVE  /\ mq' \in [Client -> Process] /\ mq'[c] = q /\ ProcessesOK'
         /\ \A d \in Publisher : mq'[d].main # "down" => starts'[d] > 0
         /\ \A m \in Range(arrived) :
              m \in accepted' /\ starts'[m.by] > 0 /\ ArrivedOK(mq'[m.by], m)
<1>1. /\ mq \in [Client -> Process] /\ starts \in [Client -> Nat]
      /\ ProcessesOK /\ History /\ Range(arrived) \subseteq Message
  <2>1. TypeOK
    BY DEF IInv
  <2>. QED  BY <2>1, RangeOfSeq DEF IInv, TypeOK
<1>2. q \in Process
  BY DEF ProcessOK
<1>3. /\ mq' \in [Client -> Process] /\ mq'[c] = q
      /\ \A d \in Client : d # c => mq'[d] = mq[d]
  BY <1>1, <1>2
<1>4. ASSUME NEW d \in Client
      PROVE  ProcessOK(d, mq'[d], declared', accepted', handled')
  <2>1. CASE d = c
    BY <1>3, <2>1
  <2>2. CASE d # c
    <3>1. ProcessOK(d, mq[d], declared, accepted, handled)
      BY <1>1 DEF ProcessesOK
    <3>2. ProcessOK(d, mq[d], declared', accepted', handled')
      BY <3>1, ProcessStaysOK
    <3>. QED  BY <1>3, <2>2, <3>2
  <2>. QED  BY <2>1, <2>2
<1>5. \A d \in Client : starts[d] > 0 => starts'[d] > 0
  BY <1>1
<1>6. \A d \in Publisher : mq'[d].main # "down" => starts'[d] > 0
  BY <1>1, <1>3, <1>5 DEF History, Client
<1>7. ASSUME NEW m \in Range(arrived)
      PROVE  m \in accepted' /\ starts'[m.by] > 0 /\ ArrivedOK(mq'[m.by], m)
  <2>1. m.by \in Client
    BY <1>1 DEF Message, Client
  <2>2. m \in accepted /\ starts[m.by] > 0 /\ ArrivedOK(mq[m.by], m)
    BY <1>1 DEF History
  <2>. QED  BY <1>3, <1>5, <2>1, <2>2
<1>. QED  BY <1>3, <1>4, <1>6, <1>7 DEF ProcessesOK

\* A step the broker has no part in.
LEMMA QuietStep ==
  ASSUME IInv, NEW c \in Client, NEW q, mq' = [mq EXCEPT ![c] = q],
         ProcessOK(c, q, declared, accepted', handled'),
         UNCHANGED broker, UNCHANGED starts,
         accepted \subseteq accepted', accepted' \subseteq Message,
         handled \subseteq handled', handled' \subseteq Message,
         q.main # "down" => mq[c].main # "down",
         \A m \in Message : m.by = c /\ ArrivedOK(mq[c], m) => ArrivedOK(q, m)
  PROVE  IInv'
<1>1. /\ declared' = declared /\ ready' = ready /\ unacked' = unacked
      /\ consuming' = consuming /\ arrived' = arrived /\ unrouted' = unrouted
      /\ starts' = starts
  BY DEF broker
<1>2. /\ TypeOK /\ History /\ Range(arrived) \subseteq Message
      /\ NothingUnrouted /\ ArriveInOrder /\ NothingForgotten
  <2>1. TypeOK
    BY DEF IInv
  <2>. QED  BY <2>1, RangeOfSeq DEF IInv, TypeOK
<1>3. /\ ProcessOK(c, q, declared', accepted', handled')
      /\ starts' \in [Client -> Nat] /\ \A d \in Client : starts[d] <= starts'[d]
      /\ c \in Publisher /\ q.main # "down" => starts'[c] > 0
      /\ \A m \in Range(arrived) : m.by = c => ArrivedOK(q, m)
  BY <1>1, <1>2 DEF TypeOK, History
<1>4. /\ mq' \in [Client -> Process] /\ ProcessesOK'
      /\ \A d \in Publisher : mq'[d].main # "down" => starts'[d] > 0
      /\ \A m \in Range(arrived) :
           m \in accepted' /\ starts'[m.by] > 0 /\ ArrivedOK(mq'[m.by], m)
  BY <1>1, <1>3, ProcessStep
<1>5. TypeOK' /\ History'
  BY <1>1, <1>2, <1>4 DEF TypeOK, History
<1>6. NothingUnrouted' /\ ArriveInOrder' /\ NothingForgotten'
  BY <1>1, <1>2 DEF NothingUnrouted, ArriveInOrder, NothingForgotten
<1>. QED  BY <1>4, <1>5, <1>6 DEF IInv

\* What a connection held goes back to the broker's queue.
LEMMA RequeueStep ==
  ASSUME IInv, NEW c \in Client, NEW q, mq' = [mq EXCEPT ![c] = q],
         ProcessOK(c, q, declared, accepted, handled),
         Requeue(c), UNCHANGED <<starts, accepted, handled>>,
         q.main # "down" => mq[c].main # "down",
         \A m \in Message : m.by = c /\ ArrivedOK(mq[c], m) => ArrivedOK(q, m)
  PROVE  IInv'
<1>1. /\ ready' = unacked[c] \o ready /\ unacked' = [unacked EXCEPT ![c] = << >>]
      /\ consuming' = consuming \ {c} /\ declared' = declared /\ arrived' = arrived
      /\ unrouted' = unrouted /\ starts' = starts /\ accepted' = accepted
      /\ handled' = handled
  BY DEF Requeue
<1>2. /\ TypeOK /\ History /\ Range(arrived) \subseteq Message
      /\ NothingUnrouted /\ ArriveInOrder /\ NothingForgotten
  <2>1. TypeOK
    BY DEF IInv
  <2>. QED  BY <2>1, RangeOfSeq DEF IInv, TypeOK
<1>3. /\ ProcessOK(c, q, declared', accepted', handled')
      /\ starts' \in [Client -> Nat] /\ \A d \in Client : starts[d] <= starts'[d]
      /\ c \in Publisher /\ q.main # "down" => starts'[c] > 0
      /\ \A m \in Range(arrived) : m.by = c => ArrivedOK(q, m)
  BY <1>1, <1>2 DEF TypeOK, History
<1>4. /\ mq' \in [Client -> Process] /\ ProcessesOK'
      /\ \A d \in Publisher : mq'[d].main # "down" => starts'[d] > 0
      /\ \A m \in Range(arrived) :
           m \in accepted' /\ starts'[m.by] > 0 /\ ArrivedOK(mq'[m.by], m)
  BY <1>1, <1>3, ProcessStep
<1>5. /\ ready' \in Seq(Message)
      /\ Range(ready') = Range(unacked[c]) \cup Range(ready)
  <2>1. unacked[c] \in Seq(Message) /\ ready \in Seq(Message)
    BY <1>2 DEF TypeOK
  <2>. QED  BY <1>1, <2>1, ConcatProperties, RangeConcatenation
<1>6. /\ unacked' \in [Client -> Seq(Message)]
      /\ \A d \in Client : d # c => unacked'[d] = unacked[d]
  <2>1. << >> \in Seq(Message)
    OBVIOUS
  <2>. QED  BY <1>1, <1>2, <2>1 DEF TypeOK
<1>7. TypeOK' /\ History'
  BY <1>1, <1>2, <1>4, <1>5, <1>6 DEF TypeOK, History
<1>8. NothingUnrouted' /\ ArriveInOrder'
  BY <1>1, <1>2 DEF NothingUnrouted, ArriveInOrder
<1>9. NothingForgotten'
  <2>. SUFFICES ASSUME NEW m \in ToSet(arrived) \ unrouted
                PROVE  \/ m \in ToSet(ready') \cup handled
                       \/ \E d \in Client : m \in ToSet(unacked'[d])
    BY <1>1 DEF NothingForgotten
  <2>1. \A s : ToSet(s) = Range(s)
    BY DEF ToSet, Range
  <2>2. CASE m \in ToSet(ready) \cup handled
    BY <1>5, <2>1, <2>2
  <2>3. CASE \E d \in Client : m \in ToSet(unacked[d])
    BY <1>5, <1>6, <2>1, <2>3
  <2>. QED  BY <1>2, <2>2, <2>3 DEF NothingForgotten
<1>. QED  BY <1>4, <1>7, <1>8, <1>9 DEF IInv

\* What IInv says of one process.
LEMMA IInvProcess ==
  ASSUME IInv, NEW c \in Client
  PROVE  /\ mq \in [Client -> Process] /\ mq[c] \in Process
         /\ ProcessOK(c, mq[c], declared, accepted, handled)
         /\ accepted \subseteq Message /\ handled \subseteq Message
         /\ declared \subseteq Topology /\ consuming \subseteq Consumer
         /\ ready \in Seq(Message) /\ unacked \in [Client -> Seq(Message)]
         /\ starts \in [Client -> Nat]
BY DEF IInv, TypeOK, ProcessesOK

\* exit(0), the return of main(), or a crash.
LEMMA EndsStep ==
  ASSUME IInv, NEW c \in Client, Ends(c)
  PROVE  IInv'
<1>1. ProcessOK(c, Down, declared, accepted, handled) /\ Down.main = "down"
  BY NewProcessOK DEF Down
<1>2. /\ mq' = [mq EXCEPT ![c] = Down] /\ Requeue(c)
      /\ UNCHANGED <<starts, accepted, handled>>
  BY DEF Ends
<1>3. \A m \in Message : m.by = c /\ ArrivedOK(mq[c], m) => ArrivedOK(Down, m)
  BY <1>1 DEF ArrivedOK
<1>. QED  BY <1>1, <1>2, <1>3, RequeueStep

LEMMA StartStep ==
  ASSUME IInv, NEW c \in Client, Start(c)
  PROVE  IInv'
<1>1. /\ starts[c] < (IF c \in Consumer THEN MaxStarts ELSE 1)
      /\ mq' = [mq EXCEPT ![c] = New] /\ starts' = [starts EXCEPT ![c] = @ + 1]
      /\ declared' = declared /\ ready' = ready /\ unacked' = unacked
      /\ consuming' = consuming /\ arrived' = arrived /\ unrouted' = unrouted
      /\ accepted' = accepted /\ handled' = handled
  BY DEF Start, broker
<1>2. /\ TypeOK /\ History /\ Range(arrived) \subseteq Message
      /\ NothingUnrouted /\ ArriveInOrder /\ NothingForgotten
  <2>1. TypeOK
    BY DEF IInv
  <2>. QED  BY <2>1, RangeOfSeq DEF IInv, TypeOK
<1>3. /\ starts \in [Client -> Nat] /\ starts' \in [Client -> Nat]
      /\ \A d \in Client : starts[d] <= starts'[d]
      /\ starts'[c] > 0
  <2>1. starts \in [Client -> Nat]
    BY <1>2 DEF TypeOK
  <2>. QED  BY <1>1, <2>1
<1>4. ASSUME NEW m \in Range(arrived), m.by = c PROVE FALSE
  <2>1. c \in Publisher /\ c \notin Consumer
    BY <1>2, <1>4, MQAssumption DEF Message
  <2>2. starts[c] > 0
    BY <1>2, <1>4 DEF History
  <2>. QED  BY <1>1, <1>3, <2>1, <2>2
<1>5. ProcessOK(c, New, declared', accepted', handled')
  BY NewProcessOK
<1>6. /\ mq' \in [Client -> Process] /\ ProcessesOK'
      /\ \A d \in Publisher : mq'[d].main # "down" => starts'[d] > 0
      /\ \A m \in Range(arrived) :
           m \in accepted' /\ starts'[m.by] > 0 /\ ArrivedOK(mq'[m.by], m)
  BY <1>1, <1>3, <1>4, <1>5, ProcessStep
<1>7. TypeOK' /\ History'
  BY <1>1, <1>2, <1>3, <1>6 DEF TypeOK, History
<1>8. NothingUnrouted' /\ ArriveInOrder' /\ NothingForgotten'
  BY <1>1, <1>2 DEF NothingUnrouted, ArriveInOrder, NothingForgotten
<1>. QED  BY <1>6, <1>7, <1>8 DEF IInv

\* A step that leaves the frames and the request of its process where they are.
LEMMA SameFramesStep ==
  ASSUME IInv, NEW c \in Client, NEW q \in Process, mq' = [mq EXCEPT ![c] = q],
         UNCHANGED <<starts, broker, accepted, handled>>,
         q.wire = mq[c].wire, q.queue = mq[c].queue, q.waits = mq[c].waits,
         q.answer = mq[c].answer, q.raced = mq[c].raced, q.got = mq[c].got,
         mq[c].at <= q.at,
         q.look = "send" => ~MustKeep(mq[c]),
         q.look # "none" => q.at < Len(Calls(c)),
         mq[c].main = "down" => q.main = "down",
         q.at # mq[c].at \/ mq[c].conn = "lost" => q.conn = "lost"
  PROVE  IInv'
<1>1. PICK p : p = mq[c]
  OBVIOUS
<1>2. /\ ProcessOK(c, p, declared, accepted, handled)
      /\ p.got # NoMessage => c \in Consumer
      /\ accepted \subseteq Message /\ handled \subseteq Message
  BY <1>1, IInvProcess DEF ProcessOK, FramesOK
<1>3. /\ ProcessOK(c, q, declared, accepted, handled)
      /\ \A m \in Message : ArrivedOK(p, m) => ArrivedOK(q, m)
  BY <1>1, <1>2, SameFramesOK
<1>. QED  BY <1>1, <1>2, <1>3, QuietStep

LEMMA CallLooksStep ==
  ASSUME IInv, NEW c \in Client, CallLooks(c)
  PROVE  IInv'
<1>1. mq \in [Client -> Process] /\ mq[c] \in Process
  BY IInvProcess
<1>2. PICK look : look = IF MustKeep(mq[c]) THEN "keep" ELSE "send"
  OBVIOUS
<1>3. PICK q : q = [mq[c] EXCEPT !.look = look]
  OBVIOUS
<1>4. /\ mq' = [mq EXCEPT ![c] = q] /\ mq[c].at < Len(Calls(c))
      /\ UNCHANGED <<starts, broker, accepted, handled>>
  BY <1>2, <1>3 DEF CallLooks
<1>5. /\ q \in Process /\ q.look = look /\ q.wire = mq[c].wire
      /\ q.queue = mq[c].queue /\ q.waits = mq[c].waits /\ q.answer = mq[c].answer
      /\ q.raced = mq[c].raced /\ q.got = mq[c].got /\ q.at = mq[c].at
      /\ q.main = mq[c].main /\ q.conn = mq[c].conn /\ mq[c].at \in Nat
  BY <1>1, <1>2, <1>3 DEF Process
<1>6. /\ q.look = "send" => ~MustKeep(mq[c])
      /\ q.at < Len(Calls(c)) /\ mq[c].at <= q.at
  BY <1>2, <1>4, <1>5
<1>. QED  BY <1>4, <1>5, <1>6, SameFramesStep

\* The call takes the next frame of main() to the channel.
LEMMA CallActsStep ==
  ASSUME IInv, NEW c \in Client, CallActs(c)
  PROVE  IInv'
<1>1. PICK f : f = Calls(c)[mq[c].at + 1]
  OBVIOUS
<1>2. PICK p : p = mq[c]
  OBVIOUS
<1>3. PICK q : q = Acted(p, f)
  OBVIOUS
<1>4. /\ p.main = "calls" /\ p.look # "none" /\ p.conn # "lost"
      /\ mq' = [mq EXCEPT ![c] = q] /\ accepted' = accepted \cup Accepted(f)
      /\ UNCHANGED broker /\ UNCHANGED starts /\ handled' = handled
  BY <1>1, <1>2, <1>3 DEF CallActs, Acted
<1>5. /\ p \in Process /\ ProcessOK(c, p, declared, accepted, handled)
      /\ accepted \subseteq Message /\ handled \subseteq Message
  BY <1>2, IInvProcess
<1>6. /\ ProcessOK(c, q, declared, accepted', handled)
      /\ \A m \in Message : m.by = c /\ ArrivedOK(p, m) => ArrivedOK(q, m)
  <2>1. f = Calls(c)[p.at + 1]
    BY <1>1, <1>2
  <2>2. /\ ProcessOK(c, q, declared, accepted \cup Accepted(f), handled)
        /\ \A m \in Message : m.by = c /\ ArrivedOK(p, m) => ArrivedOK(q, m)
    BY <1>3, <1>4, <1>5, <2>1, ActsOK
  <2>. QED  BY <1>4, <2>2
<1>7. Accepted(f) \subseteq Message
  <2>1. p.at + 1 \in 1 .. Len(Calls(c))
    BY <1>4, <1>5, CallsProperties DEF ProcessOK, FramesOK, Process
  <2>2. f.type = "publish" => f.msg \in Message
    BY <1>1, <1>2, <2>1, CallsProperties
  <2>. QED  BY <2>2 DEF Accepted
<1>8. p.main # "down"
  BY <1>4
<1>. QED  BY <1>2, <1>4, <1>5, <1>6, <1>7, <1>8, QuietStep

LEMMA CallFailsStep ==
  ASSUME IInv, NEW c \in Client, CallFails(c)
  PROVE  IInv'
<1>1. mq \in [Client -> Process] /\ mq[c] \in Process
  BY IInvProcess
<1>2. CASE Ends(c)
  BY <1>2, EndsStep
<1>3. CASE ~Ends(c)
  <2>1. PICK n : n = mq[c].at + 1
    OBVIOUS
  <2>2. n \in Nat /\ mq[c].at \in Nat /\ mq[c].at < n /\ mq[c].at # n
    BY <1>1, <2>1 DEF Process
  <2>3. PICK q : q = [[mq[c] EXCEPT !.at = n] EXCEPT !.look = "none"]
    OBVIOUS
  <2>4. /\ mq' = [mq EXCEPT ![c].at = n, ![c].look = "none"]
        /\ UNCHANGED <<starts, broker, accepted, handled>> /\ mq[c].conn = "lost"
    BY <1>3, <2>1 DEF CallFails
  <2>5. mq' = [mq EXCEPT ![c] = q]
    BY <1>1, <2>3, <2>4
  <2>6. /\ q \in Process /\ q.look = "none" /\ q.wire = mq[c].wire
        /\ q.queue = mq[c].queue /\ q.waits = mq[c].waits /\ q.answer = mq[c].answer
        /\ q.raced = mq[c].raced /\ q.got = mq[c].got /\ q.at = n
        /\ q.main = mq[c].main /\ q.conn = mq[c].conn
    BY <1>1, <2>2, <2>3 DEF Process
  <2>7. mq[c].at <= q.at
    BY <2>2, <2>6
  <2>. QED  BY <2>4, <2>5, <2>6, <2>7, SameFramesStep
<1>. QED  BY <1>2, <1>3

\* main() goes to sleep, the destructor tells the loop, the connection is made,
\* the loop breaks.
LEMMA StageStep ==
  ASSUME IInv, NEW c \in Client,
         Sleep(c) \/ Destroy(c) \/ Connect(c) \/ Break(c)
  PROVE  IInv'
<1>1. mq \in [Client -> Process] /\ mq[c] \in Process
  BY IInvProcess
<1>2. PICK p : p = mq[c]
  OBVIOUS
<1>3. PICK q : /\ mq' = [mq EXCEPT ![c] = q]
               /\ \/ q = [p EXCEPT !.main = "sleep"] /\ p.main = "calls"
                  \/ q = [[p EXCEPT !.main = "join"] EXCEPT !.async = TRUE]
                     /\ p.main = "sleep"
                  \/ q = [p EXCEPT !.conn = "up"] /\ p.conn = "opening"
                  \/ q = [p EXCEPT !.loop = "over"]
  <2>1. CASE Sleep(c)
    BY <1>2, <2>1 DEF Sleep
  <2>2. CASE Destroy(c)
    <3>1. mq' = [mq EXCEPT ![c].main = "join", ![c].async = TRUE] /\ p.main = "sleep"
      BY <1>2, <2>2 DEF Destroy
    <3>2. mq' = [mq EXCEPT ![c] = [[p EXCEPT !.main = "join"] EXCEPT !.async = TRUE]]
      BY <1>1, <1>2, <3>1
    <3>. QED  BY <3>1, <3>2
  <2>3. CASE Connect(c)
    BY <1>2, <2>3 DEF Connect
  <2>4. CASE Break(c)
    BY <1>2, <2>4 DEF Break
  <2>. QED  BY <2>1, <2>2, <2>3, <2>4
<1>4. UNCHANGED <<starts, broker, accepted, handled>>
  BY DEF Sleep, Destroy, Connect, Break
<1>5. /\ q \in Process /\ q.look = p.look /\ q.wire = p.wire
      /\ q.queue = p.queue /\ q.waits = p.waits /\ q.answer = p.answer
      /\ q.raced = p.raced /\ q.got = p.got /\ q.at = p.at
      /\ p.main = "down" => q.main = "down"
      /\ p.conn = "lost" => q.conn = "lost"
      /\ p.at \in Nat
  <2>1. CASE q = [p EXCEPT !.main = "sleep"] /\ p.main = "calls"
    BY <1>1, <1>2, <2>1 DEF Process
  <2>2. CASE q = [[p EXCEPT !.main = "join"] EXCEPT !.async = TRUE] /\ p.main = "sleep"
    BY <1>1, <1>2, <2>2 DEF Process
  <2>3. CASE q = [p EXCEPT !.conn = "up"] /\ p.conn = "opening"
    BY <1>1, <1>2, <2>3 DEF Process
  <2>4. CASE q = [p EXCEPT !.loop = "over"]
    BY <1>1, <1>2, <2>4 DEF Process
  <2>. QED  BY <1>3, <2>1, <2>2, <2>3, <2>4
<1>6. /\ p.look = "send" => ~MustKeep(p)
      /\ p.look # "none" => p.at < Len(Calls(c))
  BY <1>2, IInvProcess DEF ProcessOK, ChannelOK, FramesOK
<1>7. p.at <= q.at
  BY <1>5
<1>. QED  BY <1>2, <1>3, <1>4, <1>5, <1>6, <1>7, SameFramesStep

\* An answer sends what is kept.
LEMMA AnswerOkStep ==
  ASSUME IInv, NEW c \in Client, AnswerOk(c)
  PROVE  IInv'
<1>1. PICK p : p = mq[c]
  OBVIOUS
<1>2. PICK q : q = Answered(p)
  OBVIOUS
<1>3. /\ p.answer = "ok" /\ p.main # "down" /\ mq' = [mq EXCEPT ![c] = q]
      /\ UNCHANGED broker /\ UNCHANGED starts
      /\ accepted' = accepted /\ handled' = handled
  BY <1>1, <1>2 DEF AnswerOk, Turns, Answered
<1>4. /\ ProcessOK(c, p, declared, accepted, handled)
      /\ accepted \subseteq Message /\ handled \subseteq Message
  BY <1>1, IInvProcess
<1>5. /\ ProcessOK(c, q, declared, accepted, handled)
      /\ \A m \in Message : ArrivedOK(p, m) => ArrivedOK(q, m)
  BY <1>2, <1>3, <1>4, FlushedOK
<1>. QED  BY <1>1, <1>3, <1>4, <1>5, QuietStep

LEMMA ConnectionLostStep ==
  ASSUME IInv, NEW c \in Client, ConnectionLost(c)
  PROVE  IInv'
<1>1. CASE mq[c].waits
  BY <1>1, EndsStep DEF ConnectionLost
<1>2. CASE ~mq[c].waits
  <2>1. PICK p : p = mq[c]
    OBVIOUS
  <2>2. PICK q : q = Cut(p)
    OBVIOUS
  <2>3. /\ p \in Process /\ mq \in [Client -> Process]
        /\ ProcessOK(c, p, declared, accepted, handled)
    BY <2>1, IInvProcess
  <2>4. /\ mq' = [mq EXCEPT ![c].conn = "lost", ![c].loop = "over",
                            ![c].wire = << >>, ![c].answer = "none"]
        /\ Requeue(c) /\ UNCHANGED <<starts, accepted, handled>>
        /\ p.main # "down"
    BY <1>2, <2>1 DEF ConnectionLost, Turns
  <2>5. mq' = [mq EXCEPT ![c] = q]
    BY <2>1, <2>2, <2>3, <2>4 DEF Cut
  <2>6. /\ ProcessOK(c, q, declared, accepted, handled)
        /\ \A m \in Message : ArrivedOK(p, m) => ArrivedOK(q, m)
    BY <1>2, <2>1, <2>2, <2>3, LostOK
  <2>. QED  BY <2>1, <2>4, <2>5, <2>6, RequeueStep
<1>. QED  BY <1>1, <1>2

\* The callback has returned.
LEMMA AckStep ==
  ASSUME IInv, NEW c \in Client, Ack(c)
  PROVE  IInv'
<1>1. PICK p : p = mq[c]
  OBVIOUS
<1>2. PICK q : q = Acked(p)
  OBVIOUS
<1>3. /\ p.got # NoMessage /\ handled' = handled \cup {p.got}
      /\ mq' = [mq EXCEPT ![c] = q]
      /\ UNCHANGED broker /\ UNCHANGED starts /\ accepted' = accepted
  BY <1>1, <1>2 DEF Ack, Acked
<1>4. /\ p \in Process /\ ProcessOK(c, p, declared, accepted, handled)
      /\ accepted \subseteq Message /\ handled \subseteq Message /\ p.got \in Message
  BY <1>1, <1>3, IInvProcess DEF Process
<1>5. ProcessOK(c, q, declared, accepted, handled \cup {p.got}) /\ c \in Consumer
  BY <1>2, <1>3, <1>4, AckOK
<1>6. \A m \in Message : m.by # c
  BY <1>5, MQAssumption DEF Message
<1>7. q.main = p.main
  BY <1>2, <1>4 DEF Process, Acked
<1>. QED  BY <1>1, <1>3, <1>4, <1>5, <1>6, <1>7, QuietStep

\* The broker's next message goes from its queue to the callback.
LEMMA ReceivedStep ==
  ASSUME IInv, NEW c \in Client, Received(c)
  PROVE  IInv'
<1>1. PICK p : p = mq[c]
  OBVIOUS
<1>2. PICK e : e = Head(ready)
  OBVIOUS
<1>3. PICK q : q = [p EXCEPT !.got = e]
  OBVIOUS
<1>4. /\ p.main # "down" /\ c \in consuming /\ ready # << >> /\ ready' = Tail(ready)
      /\ unacked' = [unacked EXCEPT ![c] = Append(unacked[c], e)]
      /\ mq' = [mq EXCEPT ![c] = q]
      /\ declared' = declared /\ consuming' = consuming /\ arrived' = arrived
      /\ unrouted' = unrouted /\ starts' = starts /\ accepted' = accepted
      /\ handled' = handled
  BY <1>1, <1>2, <1>3 DEF Received, Turns
<1>5. /\ TypeOK /\ History /\ Range(arrived) \subseteq Message
      /\ NothingUnrouted /\ ArriveInOrder /\ NothingForgotten
  <2>1. TypeOK
    BY DEF IInv
  <2>. QED  BY <2>1, RangeOfSeq DEF IInv, TypeOK
<1>6. /\ p \in Process /\ ProcessOK(c, p, declared, accepted, handled)
      /\ ready \in Seq(Message) /\ unacked \in [Client -> Seq(Message)]
      /\ c \in Consumer /\ c \notin Publisher /\ unacked[c] \in Seq(Message)
  BY <1>1, <1>4, IInvProcess, MQAssumption
<1>7. /\ e \in Message /\ ready' \in Seq(Message)
      /\ Range(ready) = {e} \cup Range(ready')
  BY <1>2, <1>4, <1>6, TailRange
<1>8. /\ unacked' \in [Client -> Seq(Message)]
      /\ Range(unacked'[c]) = Range(unacked[c]) \cup {e}
      /\ \A d \in Client : d # c => unacked'[d] = unacked[d]
  <2>1. /\ Append(unacked[c], e) \in Seq(Message)
        /\ Range(Append(unacked[c], e)) = Range(unacked[c]) \cup {e}
    BY <1>6, <1>7, AppendProperties, AppendRange
  <2>. QED  BY <1>4, <1>6, <2>1
<1>9. ProcessOK(c, q, declared', accepted', handled')
  <2>1. /\ q \in Process /\ q.wire = p.wire /\ q.queue = p.queue /\ q.waits = p.waits
        /\ q.answer = p.answer /\ q.raced = p.raced /\ q.at = p.at /\ p.at \in Nat
        /\ q.look = p.look /\ q.main = p.main /\ q.conn = p.conn
    BY <1>3, <1>6, <1>7 DEF Process
  <2>2. /\ p.look = "send" => ~MustKeep(p)
        /\ p.look # "none" => p.at < Len(Calls(c))
    BY <1>6 DEF ProcessOK, ChannelOK, FramesOK
  <2>3. p.at <= q.at
    BY <2>1
  <2>4. ProcessOK(c, q, declared, accepted, handled)
    BY <1>6, <2>1, <2>2, <2>3, SameFramesOK
  <2>. QED  BY <1>4, <2>4
<1>10. /\ starts' \in [Client -> Nat] /\ \A d \in Client : starts[d] <= starts'[d]
       /\ \A m \in Range(arrived) : m.by # c
  BY <1>4, <1>5, <1>6 DEF TypeOK, Message
<1>11. /\ mq' \in [Client -> Process] /\ ProcessesOK'
       /\ \A d \in Publisher : mq'[d].main # "down" => starts'[d] > 0
       /\ \A m \in Range(arrived) :
            m \in accepted' /\ starts'[m.by] > 0 /\ ArrivedOK(mq'[m.by], m)
  BY <1>4, <1>6, <1>9, <1>10, ProcessStep
<1>12. TypeOK' /\ History'
  BY <1>4, <1>5, <1>7, <1>8, <1>11 DEF TypeOK, History
<1>13. NothingUnrouted' /\ ArriveInOrder'
  BY <1>4, <1>5 DEF NothingUnrouted, ArriveInOrder
<1>14. NothingForgotten'
  <2>. SUFFICES ASSUME NEW m \in ToSet(arrived) \ unrouted
                PROVE  \/ m \in ToSet(ready') \cup handled
                       \/ \E d \in Client : m \in ToSet(unacked'[d])
    BY <1>4 DEF NothingForgotten
  <2>1. \A s : ToSet(s) = Range(s)
    BY DEF ToSet, Range
  <2>2. CASE m \in ToSet(ready) \cup handled
    BY <1>7, <1>8, <2>1, <2>2
  <2>3. CASE \E d \in Client : m \in ToSet(unacked[d])
    BY <1>8, <2>1, <2>3
  <2>. QED  BY <1>5, <2>2, <2>3 DEF NothingForgotten
<1>. QED  BY <1>11, <1>12, <1>13, <1>14 DEF IInv

\* A request is declared, or refused.
LEMMA TakesRequestStep ==
  ASSUME IInv, NEW c \in Client, TakesRequest(c)
  PROVE  IInv'
<1>1. PICK p : p = mq[c]
  OBVIOUS
<1>2. PICK f : f = Head(p.wire)
  OBVIOUS
<1>3. /\ p.main # "down" /\ p.wire # << >> /\ f.type \in Topology \cup {"consume"}
      /\ ready' = ready /\ unacked' = unacked /\ arrived' = arrived
      /\ unrouted' = unrouted /\ starts' = starts /\ accepted' = accepted
      /\ handled' = handled
  BY <1>1, <1>2 DEF TakesRequest, Takes, First
<1>4. /\ p \in Process /\ ProcessOK(c, p, declared, accepted, handled)
      /\ mq \in [Client -> Process] /\ declared \subseteq Topology
      /\ consuming \subseteq Consumer
  BY <1>1, IInvProcess
<1>5. f.type = "consume" => c \in Consumer
  <2>1. p.wire \in Seq(AnyFrame)
    BY <1>4 DEF Process
  <2>2. f \in Unsent(p)
    BY <1>2, <1>3, <2>1, TailRange DEF Unsent
  <2>. QED  BY <1>4, <2>2 DEF ProcessOK, FramesOK, FrameOK
<1>6. PICK ans \in {"ok", "error"} :
        /\ mq' = [mq EXCEPT ![c] = Taken(p, ans)]
        /\ declared \subseteq declared' /\ declared' \subseteq Topology
        /\ consuming' \subseteq Consumer
        /\ f.type \in Topology => ans = "error" \/ f.type \in declared'
  <2>1. ASSUME NEW ans, mq' = [mq EXCEPT ![c].wire = Tail(@), ![c].answer = ans]
        PROVE  mq' = [mq EXCEPT ![c] = Taken(p, ans)]
    BY <1>1, <1>4, <2>1 DEF Taken
  <2>2. CASE /\ mq' = [mq EXCEPT ![c].wire = Tail(@), ![c].answer = "ok"]
             /\ declared' = declared \cup ({f.type} \cap Topology)
             /\ consuming' = IF f.type = "consume" THEN consuming \cup {c}
                                                   ELSE consuming
    BY <1>4, <1>5, <2>1, <2>2
  <2>3. CASE /\ mq' = [mq EXCEPT ![c].wire = Tail(@), ![c].answer = "error"]
             /\ UNCHANGED <<declared, consuming>>
    BY <1>4, <2>1, <2>3
  <2>. QED  BY <1>1, <1>2, <2>2, <2>3 DEF TakesRequest, First
<1>7. PICK q : q = Taken(p, ans)
  OBVIOUS
<1>8. /\ ProcessOK(c, q, declared', accepted, handled)
      /\ \A m \in Message : ArrivedOK(p, m) => ArrivedOK(q, m)
  <2>1. IsRequest(f)
    BY <1>3 DEF IsRequest
  <2>. QED  BY <1>2, <1>3, <1>4, <1>6, <1>7, <2>1, TakenOK
<1>9. /\ TypeOK /\ History /\ Range(arrived) \subseteq Message
      /\ NothingUnrouted /\ ArriveInOrder /\ NothingForgotten
  <2>1. TypeOK
    BY DEF IInv
  <2>. QED  BY <2>1, RangeOfSeq DEF IInv, TypeOK
<1>10. /\ starts' \in [Client -> Nat] /\ \A d \in Client : starts[d] <= starts'[d]
       /\ c \in Publisher => starts'[c] > 0
       /\ \A m \in Range(arrived) : m.by = c => ArrivedOK(q, m)
  BY <1>1, <1>3, <1>8, <1>9 DEF TypeOK, History
<1>11. /\ mq' \in [Client -> Process] /\ ProcessesOK'
       /\ \A d \in Publisher : mq'[d].main # "down" => starts'[d] > 0
       /\ \A m \in Range(arrived) :
            m \in accepted' /\ starts'[m.by] > 0 /\ ArrivedOK(mq'[m.by], m)
  BY <1>3, <1>6, <1>7, <1>8, <1>10, ProcessStep
<1>12. TypeOK' /\ History'
  BY <1>3, <1>6, <1>9, <1>11 DEF TypeOK, History
<1>13. NothingUnrouted' /\ ArriveInOrder' /\ NothingForgotten'
  BY <1>3, <1>9 DEF NothingUnrouted, ArriveInOrder, NothingForgotten
<1>. QED  BY <1>11, <1>12, <1>13 DEF IInv

\* A message is routed, behind those that came before it.
LEMMA TakesMessageStep ==
  ASSUME IInv, NEW c \in Client, TakesMessage(c)
  PROVE  IInv'
<1>1. PICK p : p = mq[c]
  OBVIOUS
<1>2. PICK f : f = Head(p.wire)
  OBVIOUS
<1>3. /\ p.main # "down" /\ p.conn = "up" /\ p.wire # << >> /\ f.type = "publish"
      /\ mq' = [mq EXCEPT ![c].wire = Tail(@)] /\ arrived' = Append(arrived, f.msg)
      /\ declared = Topology => ready' = Append(ready, f.msg) /\ unrouted' = unrouted
      /\ declared' = declared /\ unacked' = unacked /\ consuming' = consuming
      /\ starts' = starts /\ accepted' = accepted /\ handled' = handled
  BY <1>1, <1>2 DEF TakesMessage, Takes, First
<1>4. /\ p \in Process /\ ProcessOK(c, p, declared, accepted, handled)
      /\ mq \in [Client -> Process] /\ declared \subseteq Topology
      /\ ready \in Seq(Message) /\ p.wire \in Seq(AnyFrame)
  BY <1>1, IInvProcess DEF Process
<1>5. /\ TypeOK /\ History /\ Range(arrived) \subseteq Message
      /\ NothingUnrouted /\ ArriveInOrder /\ NothingForgotten
      /\ arrived \in Seq(Message)
  <2>1. TypeOK
    BY DEF IInv
  <2>. QED  BY <2>1, RangeOfSeq DEF IInv, TypeOK
<1>6. PICK q : q = Taken(p, p.answer)
  OBVIOUS
<1>7. mq' = [mq EXCEPT ![c] = q]
  <2>1. q = [p EXCEPT !.wire = Tail(@)]
    BY <1>4, <1>6 DEF Process, Taken
  <2>. QED  BY <1>1, <1>3, <2>1
<1>8. /\ ProcessOK(c, q, declared, accepted, handled)
      /\ \A m \in Message : ArrivedOK(p, m) => ArrivedOK(q, m)
  <2>1. ~IsRequest(f) /\ f.type \notin Topology
    BY <1>3 DEF IsRequest, Topology
  <2>2. p.answer \in {"none", "ok", "error"}
    BY <1>4 DEF Process
  <2>3. p.wire # << >>
    BY <1>3
  <2>. QED  BY <1>2, <1>4, <1>6, <2>1, <2>2, <2>3, TakenOK
<1>9. /\ f.msg \in Message /\ f.msg.by = c /\ f.msg \in accepted
      /\ declared = Topology
      /\ \A m \in Message : ArrivedOK(p, m) => m.no < f.msg.no
      /\ ArrivedOK(q, f.msg)
  <2>1. p.main # "down" /\ p.conn = "up" /\ p.wire # << >> /\ f.type = "publish"
    BY <1>3
  <2>. QED  BY <1>2, <1>4, <1>6, <2>1, FirstMessage
<1>10. c \in Publisher /\ starts[c] > 0
  BY <1>1, <1>3, <1>5, <1>9 DEF History, Message
<1>11. /\ ProcessOK(c, q, declared', accepted', handled')
       /\ starts' \in [Client -> Nat] /\ \A d \in Client : starts[d] <= starts'[d]
       /\ starts'[c] > 0
       /\ \A m \in Range(arrived) : m.by = c => ArrivedOK(q, m)
  BY <1>1, <1>3, <1>5, <1>8, <1>10 DEF TypeOK, History
<1>12. /\ mq' \in [Client -> Process] /\ mq'[c] = q /\ ProcessesOK'
       /\ \A d \in Publisher : mq'[d].main # "down" => starts'[d] > 0
       /\ \A m \in Range(arrived) :
            m \in accepted' /\ starts'[m.by] > 0 /\ ArrivedOK(mq'[m.by], m)
  BY <1>3, <1>7, <1>11, ProcessStep
<1>13. /\ arrived' \in Seq(Message) /\ Range(arrived') = Range(arrived) \cup {f.msg}
       /\ ready' \in Seq(Message) /\ Range(ready') = Range(ready) \cup {f.msg}
       /\ unrouted' = unrouted
  <2>1. ready' = Append(ready, f.msg) /\ unrouted' = unrouted
        /\ arrived' = Append(arrived, f.msg)
    BY <1>3, <1>9
  <2>2. /\ Append(ready, f.msg) \in Seq(Message)
        /\ Range(Append(ready, f.msg)) = Range(ready) \cup {f.msg}
    BY <1>4, <1>9, AppendProperties, AppendRange
  <2>3. /\ Append(arrived, f.msg) \in Seq(Message)
        /\ Range(Append(arrived, f.msg)) = Range(arrived) \cup {f.msg}
    BY <1>5, <1>9, AppendProperties, AppendRange
  <2>. QED  BY <2>1, <2>2, <2>3
<1>14. TypeOK'
  BY <1>3, <1>5, <1>12, <1>13 DEF TypeOK
<1>15. History'
  BY <1>3, <1>9, <1>11, <1>12, <1>13 DEF History
<1>16. ArriveInOrder'
  <2>1. PICK n \in Nat : n = Len(arrived) /\ DOMAIN arrived = 1 .. n
    BY <1>5, LenProperties
  <2>2. /\ DOMAIN arrived' = 1 .. n + 1 /\ arrived'[n + 1] = f.msg
        /\ \A i \in 1 .. n : arrived'[i] = arrived[i]
    BY <1>3, <1>5, <1>9, <2>1, AppendProperties, LenProperties
  <2>3. ASSUME NEW i \in 1 .. n, arrived[i].by = c PROVE arrived[i].no < f.msg.no
    <3>1. arrived[i] \in Range(arrived)
      BY <2>1 DEF Range
    <3>2. arrived[i] \in Message /\ ArrivedOK(p, arrived[i])
      BY <1>1, <1>5, <2>3, <3>1 DEF History
    <3>. QED  BY <1>9, <3>2
  <2>4. ASSUME NEW i \in 1 .. n + 1, NEW j \in 1 .. n + 1, i < j,
               arrived'[i].by = arrived'[j].by
        PROVE  arrived'[i].no < arrived'[j].no
    <3>1. i \in 1 .. n /\ arrived'[i] = arrived[i]
      BY <2>2, <2>4
    <3>2. CASE j = n + 1
      BY <1>9, <2>2, <2>3, <2>4, <3>1, <3>2
    <3>3. CASE j # n + 1
      <4>1. j \in 1 .. n /\ arrived'[j] = arrived[j]
        BY <2>2, <3>3
      <4>. QED  BY <1>5, <2>1, <2>4, <3>1, <4>1 DEF ArriveInOrder
    <3>. QED  BY <3>2, <3>3
  <2>5. ToSet(arrived') \subseteq accepted'
    <3>1. ToSet(arrived') = Range(arrived') /\ ToSet(arrived) = Range(arrived)
      BY DEF ToSet, Range
    <3>. QED  BY <1>3, <1>5, <1>9, <1>13, <3>1 DEF ArriveInOrder
  <2>. QED  BY <2>2, <2>4, <2>5 DEF ArriveInOrder
<1>17. NothingUnrouted'
  BY <1>5, <1>13 DEF NothingUnrouted
<1>18. NothingForgotten'
  <2>1. \A s : ToSet(s) = Range(s)
    BY DEF ToSet, Range
  <2>. SUFFICES ASSUME NEW m \in Range(arrived) \cup {f.msg}, m \notin unrouted
                PROVE  \/ m \in ToSet(ready') \cup handled
                       \/ \E d \in Client : m \in ToSet(unacked[d])
    BY <1>3, <1>13, <2>1 DEF NothingForgotten
  <2>2. CASE m = f.msg
    BY <1>13, <2>1, <2>2
  <2>3. CASE m \in Range(arrived)
    BY <1>5, <1>13, <2>1, <2>3 DEF NothingForgotten
  <2>. QED  BY <2>2, <2>3
<1>. QED  BY <1>12, <1>14, <1>15, <1>16, <1>17, <1>18 DEF IInv

\* What is acknowledged was handled.
LEMMA TakesAckStep ==
  ASSUME IInv, NEW c \in Client, TakesAck(c)
  PROVE  IInv'
<1>1. PICK p : p = mq[c]
  OBVIOUS
<1>2. PICK f : f = Head(p.wire)
  OBVIOUS
<1>3. /\ p.main # "down" /\ p.wire # << >> /\ f.type = "ack"
      /\ mq' = [mq EXCEPT ![c].wire = Tail(@)]
      /\ unacked' = [unacked EXCEPT ![c] = RemoveFirst(unacked[c], f.msg)]
      /\ ready' = ready /\ declared' = declared /\ consuming' = consuming
      /\ arrived' = arrived /\ unrouted' = unrouted /\ starts' = starts
      /\ accepted' = accepted /\ handled' = handled
  BY <1>1, <1>2 DEF TakesAck, Takes, First
<1>4. /\ p \in Process /\ ProcessOK(c, p, declared, accepted, handled)
      /\ mq \in [Client -> Process] /\ unacked \in [Client -> Seq(Message)]
      /\ unacked[c] \in Seq(Message) /\ p.wire \in Seq(AnyFrame)
  BY <1>1, IInvProcess DEF Process
<1>5. /\ TypeOK /\ History /\ Range(arrived) \subseteq Message
      /\ NothingUnrouted /\ ArriveInOrder /\ NothingForgotten
  <2>1. TypeOK
    BY DEF IInv
  <2>. QED  BY <2>1, RangeOfSeq DEF IInv, TypeOK
<1>6. f.msg \in handled
  <2>1. f \in Unsent(p)
    BY <1>2, <1>3, <1>4, TailRange DEF Unsent
  <2>. QED  BY <1>3, <1>4, <2>1 DEF ProcessOK, FramesOK, FrameOK
<1>7. PICK q : q = Taken(p, p.answer)
  OBVIOUS
<1>8. mq' = [mq EXCEPT ![c] = q]
  <2>1. q = [p EXCEPT !.wire = Tail(@)]
    BY <1>4, <1>7 DEF Process, Taken
  <2>. QED  BY <1>1, <1>3, <2>1
<1>9. /\ ProcessOK(c, q, declared, accepted, handled)
      /\ \A m \in Message : ArrivedOK(p, m) => ArrivedOK(q, m)
  <2>1. ~IsRequest(f) /\ f.type \notin Topology
    BY <1>3 DEF IsRequest, Topology
  <2>2. p.answer \in {"none", "ok", "error"}
    BY <1>4 DEF Process
  <2>. QED  BY <1>2, <1>3, <1>4, <1>7, <2>1, <2>2, TakenOK
<1>10. /\ ProcessOK(c, q, declared', accepted', handled')
       /\ starts' \in [Client -> Nat] /\ \A d \in Client : starts[d] <= starts'[d]
       /\ c \in Publisher => starts'[c] > 0
       /\ \A m \in Range(arrived) : m.by = c => ArrivedOK(q, m)
  BY <1>1, <1>3, <1>5, <1>9 DEF TypeOK, History
<1>11. /\ mq' \in [Client -> Process] /\ ProcessesOK'
       /\ \A d \in Publisher : mq'[d].main # "down" => starts'[d] > 0
       /\ \A m \in Range(arrived) :
            m \in accepted' /\ starts'[m.by] > 0 /\ ArrivedOK(mq'[m.by], m)
  BY <1>3, <1>8, <1>10, ProcessStep
<1>12. /\ unacked' \in [Client -> Seq(Message)]
       /\ Range(unacked[c]) \ {f.msg} \subseteq Range(unacked'[c])
       /\ \A d \in Client : d # c => unacked'[d] = unacked[d]
  BY <1>3, <1>4, RemoveFirstRange
<1>13. TypeOK' /\ History'
  BY <1>3, <1>5, <1>11, <1>12 DEF TypeOK, History
<1>14. NothingUnrouted' /\ ArriveInOrder'
  BY <1>3, <1>5 DEF NothingUnrouted, ArriveInOrder
<1>15. NothingForgotten'
  <2>. SUFFICES ASSUME NEW m \in ToSet(arrived) \ unrouted, m \notin ToSet(ready),
                       m \notin handled
                PROVE  \E d \in Client : m \in ToSet(unacked'[d])
    BY <1>3 DEF NothingForgotten
  <2>1. \A s : ToSet(s) = Range(s)
    BY DEF ToSet, Range
  <2>2. PICK d \in Client : m \in Range(unacked[d])
    BY <1>5, <2>1 DEF NothingForgotten
  <2>3. m # f.msg
    BY <1>6
  <2>. QED  BY <1>12, <2>1, <2>2, <2>3
<1>. QED  BY <1>11, <1>13, <1>14, <1>15 DEF IInv

LEMMA StepIInv == IInv /\ [Next]_vars => IInv'
<1>. SUFFICES ASSUME IInv, [Next]_vars PROVE IInv'
  OBVIOUS
<1>1. CASE UNCHANGED vars
  BY <1>1 DEF vars, broker, IInv, TypeOK, ProcessesOK, History,
     NothingUnrouted, ArriveInOrder, NothingForgotten
<1>2. ASSUME NEW c \in Client,
             \/ Start(c) \/ MainStep(c) \/ Destroy(c)
             \/ LoopStep(c) \/ BrokerTakes(c)
             \/ ConnectionLost(c) \/ Crash(c)
      PROVE  IInv'
  <2>1. CASE Start(c)
    BY <2>1, StartStep
  <2>2. CASE MainStep(c)
    <3>1. CASE CallLooks(c)
      BY <3>1, CallLooksStep
    <3>2. CASE CallActs(c)
      BY <3>2, CallActsStep
    <3>3. CASE CallFails(c)
      BY <3>3, CallFailsStep
    <3>4. CASE Sleep(c)
      BY <3>4, StageStep
    <3>5. CASE Joined(c)
      BY <3>5, EndsStep DEF Joined
    <3>. QED  BY <2>2, <3>1, <3>2, <3>3, <3>4, <3>5 DEF MainStep
  <2>3. CASE Destroy(c)
    BY <2>3, StageStep
  <2>4. CASE LoopStep(c)
    <3>1. CASE Connect(c) \/ Break(c)
      BY <3>1, StageStep
    <3>2. CASE AnswerOk(c)
      BY <3>2, AnswerOkStep
    <3>3. CASE AnswerError(c)
      BY <3>3, EndsStep DEF AnswerError
    <3>4. CASE Received(c)
      BY <3>4, ReceivedStep
    <3>5. CASE Ack(c)
      BY <3>5, AckStep
    <3>. QED  BY <2>4, <3>1, <3>2, <3>3, <3>4, <3>5 DEF LoopStep
  <2>5. CASE BrokerTakes(c)
    BY <2>5, TakesRequestStep, TakesMessageStep, TakesAckStep DEF BrokerTakes
  <2>6. CASE ConnectionLost(c)
    BY <2>6, ConnectionLostStep
  <2>7. CASE Crash(c)
    BY <2>7, EndsStep DEF Crash
  <2>. QED  BY <1>2, <2>1, <2>2, <2>3, <2>4, <2>5, <2>6, <2>7
<1>. QED  BY <1>1, <1>2 DEF Next

-----------------------------------------------------------------------------

THEOREM Inductive == Spec => []IInv
BY InitIInv, StepIInv, PTL DEF Spec

\* The variables keep their types, every channel, frame and answer in it
\* included (rabbit_mq.hpp:26-103).
THEOREM TypeCorrect == Spec => []TypeOK
<1>1. IInv => TypeOK
  BY DEF IInv
<1>. QED  BY <1>1, Inductive, PTL

\* No message reaches the broker before what declare_combo asked for, although
\* publish() does not wait for the answers (rabbit_mq.hpp:52-75, 81).
THEOREM MessagesAreRouted == Spec => []NothingUnrouted
<1>1. IInv => NothingUnrouted
  BY DEF IInv
<1>. QED  BY <1>1, Inductive, PTL

\* What a publisher publishes arrives in the order of its calls, once, whether
\* the channel kept it or sent it (rabbit_mq.hpp:77-88).
THEOREM MessagesKeepTheirOrder == Spec => []ArriveInOrder
<1>1. IInv => ArriveInOrder
  BY DEF IInv
<1>. QED  BY <1>1, Inductive, PTL

\* A message is acknowledged after its callback only, so neither a crash nor a
\* lost connection loses it (rabbit_mq.hpp:93-96).
THEOREM MessagesAreKept == Spec => []NothingForgotten
<1>1. IInv => NothingForgotten
  BY DEF IInv
<1>. QED  BY <1>1, Inductive, PTL

\* But for the race of the two threads, a frame is kept only while an answer
\* that sends it is on its way (rabbit_mq.hpp:35-37, 52-81).
THEOREM KeptFramesAreSent == Spec => []KeptIsSentLater
<1>1. IInv => KeptIsSentLater
  BY DEF IInv, ProcessesOK, ProcessOK, ChannelOK, KeptIsSentLater
<1>. QED  BY <1>1, Inductive, PTL
=============================================================================
