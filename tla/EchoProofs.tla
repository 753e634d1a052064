------------------------------ MODULE EchoProofs ------------------------------
(***************************************************************************)
(* The Echo service: what its messages are on the wire (ProtoMessageOps),  *)
(* who owns their strings and what the objects say (ProtoMessage), and the *)
(* calls (EchoRpc), for any texts and unknown fields, objects and strings, *)
(* clients, retries and runs of the server.                                *)
(***************************************************************************)
EXTENDS ProtoMessage, EchoRpc, SequenceTheorems, FiniteSetTheorems, TLAPS

-----------------------------------------------------------------------------
(* The parser *)

\* Induction over the fields of a wire: the least number that has no property.
LEMMA Least ==
  ASSUME NEW T, T \subseteq Nat, T # {}
  PROVE  \E x \in T : \A y \in T : x <= y
<1>. DEFINE R == OpToRel(<, Nat)
<1>1. IsWellFoundedOn(R, Nat)
  BY NatLessThanWellFounded
<1>2. \A a, b \in Nat : a < b => <<a, b>> \in R
  BY DEF OpToRel
<1>. HIDE DEF R
<1>3. PICK x \in T : \A y \in T : <<y, x>> \notin R
  BY <1>1, WFMin
<1>4. \A y \in T : x \in Nat /\ y \in Nat /\ ~(y < x)
  BY <1>2, <1>3, Zenon
<1>. QED  BY <1>3, <1>4

State(m) == [m |-> m, more |-> TRUE, failed |-> FALSE, ended |-> FALSE]

\* From state r[a] on, r is what the loop makes of the first n fields of w.
Reads(r, a, w, n) == \A k \in 1..n : r[a+k] = ParseField(r[a+k-1], w[k])

\* What an object does not know, on the wire.
Fields(u) == [n \in DOMAIN u |-> UnknownField(u[n])]

\* f is the function FoldLeft defines for Parsed: of each set of positions, what
\* the fields there are read as.
IsLoop(f, b, w, n) ==
  f = [s \in SUBSET (1..n) |->
         IF s = {} THEN b ELSE ParseField(f[s \ {Max(s)}], w[Max(s)])]

LEMMA LastOf ==
  ASSUME NEW n \in Nat, NEW s \in SUBSET (1..n), n \in s
  PROVE  Max(s) = n
<1>1. \A y \in s : n >= y
  OBVIOUS
<1>2. \E x \in s : \A y \in s : x >= y
  BY <1>1
<1>. DEFINE x == CHOOSE x \in s : \A y \in s : x >= y
<1>3. x \in s /\ \A y \in s : x >= y
  BY <1>2
<1>4. Max(s) = x
  BY DEF Max
<1>. HIDE DEF x
<1>5. x \in Int /\ x >= n /\ n >= x
  BY <1>1, <1>3
<1>. QED  BY <1>4, <1>5

LEMMA LoopExists ==
  ASSUME NEW b, NEW w, NEW n \in Nat
  PROVE  \E f : IsLoop(f, b, w, n)
<1>. DEFINE T == {k \in Nat : ~\E f : IsLoop(f, b, w, k)}
<1>. SUFFICES ASSUME T # {} PROVE FALSE
  OBVIOUS
<1>1. PICK k \in T : \A j \in T : k <= j
  BY Least
<1>2. CASE k = 0
  <2>. DEFINE f == [s \in SUBSET (1..0) |-> b]
  <2>1. \A s \in SUBSET (1..0) : s = {}
    OBVIOUS
  <2>2. IsLoop(f, b, w, 0)
    BY <2>1 DEF IsLoop
  <2>. QED  BY <1>1, <1>2, <2>2
<1>3. CASE k # 0
  <2>1. k - 1 \in Nat /\ k - 1 \notin T
    BY <1>1, <1>3
  <2>2. PICK f : IsLoop(f, b, w, k-1)
    BY <2>1
  <2>. DEFINE at(s) == IF k \in s THEN ParseField(f[s \ {k}], w[k]) ELSE f[s]
              g == [s \in SUBSET (1..k) |-> at(s)]
  <2>3. ASSUME NEW s \in SUBSET (1..k), s # {}
        PROVE  at(s) = ParseField(g[s \ {Max(s)}], w[Max(s)])
    <3>1. CASE k \in s
      <4>1. Max(s) = k
        BY <3>1, <1>1, LastOf
      <4>2. s \ {k} \in SUBSET (1..k) /\ k \notin s \ {k}
        OBVIOUS
      <4>3. g[s \ {k}] = f[s \ {k}]
        BY <4>2
      <4>. QED  BY <3>1, <4>1, <4>3
    <3>2. CASE k \notin s
      <4>1. s \in SUBSET (1..(k-1))
        BY <3>2, <2>1
      <4>2. f[s] = ParseField(f[s \ {Max(s)}], w[Max(s)])
        BY <2>2, <2>3, <4>1 DEF IsLoop
      <4>3. g[s \ {Max(s)}] = f[s \ {Max(s)}]
        BY <3>2
      <4>. QED  BY <3>2, <4>2, <4>3
    <3>. QED  BY <3>1, <3>2
  <2>4. at({}) = b
    <3>1. {} \in SUBSET (1..(k-1))
      OBVIOUS
    <3>. QED  BY <3>1, <2>2 DEF IsLoop
  <2>5. IsLoop(g, b, w, k)
    <3>. HIDE DEF at
    <3>. QED  BY <2>3, <2>4 DEF IsLoop
  <2>. QED  BY <1>1, <2>5
<1>. QED  BY <1>2, <1>3

LEMMA ParsedIs ==
  ASSUME NEW m, NEW w, NEW n \in Nat, DOMAIN w = 1..n
  PROVE  \E r : /\ r[0] = State(m)
                /\ Reads(r, 0, w, n)
                /\ Parsed(m, w) = r[n]
<1>. DEFINE f == CHOOSE f : IsLoop(f, State(m), w, n)
            r == [k \in 0..n |-> f[1..k]]
<1>1. IsLoop(f, State(m), w, n)
  BY LoopExists
<1>2. Parsed(m, w) = f[1..n]
  BY DEF Parsed, FoldLeft, MapThenFoldSet, IsLoop, State
<1>. HIDE DEF f
<1>3. f[{}] = State(m)
  BY <1>1 DEF IsLoop
<1>4. ASSUME NEW k \in 1..n
      PROVE  f[1..k] = ParseField(f[1..(k-1)], w[k])
  <2>1. 1..k \in SUBSET (1..n) /\ 1..k # {} /\ Max(1..k) = k
    <3>1. k \in Nat /\ k \in 1..k /\ 1..k \in SUBSET (1..k)
      OBVIOUS
    <3>2. Max(1..k) = k
      BY <3>1, LastOf
    <3>3. \A j \in 1..k : j \in 1..n
      OBVIOUS
    <3>. QED  BY <3>1, <3>2, <3>3
  <2>2. (1..k) \ {k} = 1..(k-1)
    OBVIOUS
  <2>. QED  BY <1>1, <2>1, <2>2 DEF IsLoop
<1>5. r[0] = State(m) /\ r[n] = f[1..n]
  BY <1>3
<1>6. \A k \in 1..n : r[k] = ParseField(r[k-1], w[k])
  BY <1>4
<1>. HIDE DEF r
<1>7. Reads(r, 0, w, n)
  BY <1>6 DEF Reads
<1>. QED  BY <1>2, <1>5, <1>7

Reading == [m : Message, more : BOOLEAN, failed : BOOLEAN, ended : BOOLEAN]

LEMMA ReadFieldType ==
  ASSUME NEW r \in Reading, NEW x \in Field
  PROVE  ParseField(r, x) \in Reading
<1>1. CASE ~r.more
  BY <1>1 DEF ParseField
<1>2. CASE r.more
  <2>1. ASSUME NEW t \in Text \cup {Empty}, x = TextField(t) PROVE ParseField(r, x) \in Reading
    <3>1. x.kind = "text" /\ x.val = t
      BY <2>1 DEF TextField
    <3>2. ParseField(r, x) =
            [r EXCEPT !.m.text = t, !.more = t \notin NotUtf8, !.failed = t \in NotUtf8]
      BY <1>2, <3>1 DEF ParseField
    <3>3. r.m \in Message /\ [r.m EXCEPT !.text = t] \in Message
      BY DEF Reading, Message
    <3>4. ParseField(r, x) = [r EXCEPT !.m = [r.m EXCEPT !.text = t], !.more = t \notin NotUtf8,
                                       !.failed = t \in NotUtf8]
      BY <3>2
    <3>5. (t \notin NotUtf8) \in BOOLEAN /\ (t \in NotUtf8) \in BOOLEAN
      OBVIOUS
    <3>. QED  BY <3>3, <3>4, <3>5 DEF Reading
  <2>2. ASSUME NEW u \in Unknown, x = UnknownField(u) PROVE ParseField(r, x) \in Reading
    <3>1. x.kind = "unknown" /\ x.val = u
      BY <2>2 DEF UnknownField
    <3>2. ParseField(r, x) = [r EXCEPT !.m.unknown = Append(@, u)]
      BY <1>2, <3>1 DEF ParseField
    <3>3. r.m \in Message /\ Append(r.m.unknown, u) \in Seq(Unknown)
      BY DEF Reading, Message
    <3>4. [r.m EXCEPT !.unknown = Append(@, u)] \in Message
      BY <3>3 DEF Message
    <3>. QED  BY <3>2, <3>4 DEF Reading
  <2>3. CASE x = Broken
    BY <1>2, <2>3 DEF ParseField, Broken, Reading
  <2>4. CASE x = EndGroup
    BY <1>2, <2>4 DEF ParseField, EndGroup, Reading
  <2>. QED  BY <2>1, <2>2, <2>3, <2>4 DEF Field
<1>. QED  BY <1>1, <1>2

LEMMA ParsedType ==
  ASSUME NEW m \in Message, NEW w \in Seq(Field)
  PROVE  Parsed(m, w) \in Reading
<1>. DEFINE n == Len(w)
<1>1. n \in Nat /\ DOMAIN w = 1..n /\ \A k \in 1..n : w[k] \in Field
  OBVIOUS
<1>. HIDE DEF n
<1>2. PICK r : /\ r[0] = State(m)
               /\ Reads(r, 0, w, n)
               /\ Parsed(m, w) = r[n]
  BY <1>1, ParsedIs
<1>. DEFINE T == {k \in 0..n : r[k] \notin Reading}
<1>3. T = {}
  <2>. SUFFICES ASSUME T # {} PROVE FALSE
    OBVIOUS
  <2>1. PICK k \in T : \A j \in T : k <= j
    <3>1. T \subseteq Nat
      BY <1>1
    <3>. HIDE DEF T
    <3>. QED  BY <3>1, Least
  <2>2. r[0] \in Reading
    BY <1>2 DEF State, Reading
  <2>3. k # 0 /\ k \in 1..n /\ k - 1 \in 0..n /\ k - 1 \notin T
    BY <1>1, <2>1, <2>2
  <2>4. r[k-1] \in Reading
    BY <2>3
  <2>. QED  BY <1>1, <1>2, <2>1, <2>3, <2>4, ReadFieldType DEF Reads
<1>. QED  BY <1>1, <1>2, <1>3

LEMMA TakeOneMore ==
  ASSUME NEW S, NEW p \in Seq(S), NEW u \in Seq(S), NEW i \in 1..Len(u)
  PROVE  Append(p \o SubSeq(u, 1, i-1), u[i]) = p \o SubSeq(u, 1, i)
<1>. DEFINE q == SubSeq(u, 1, i-1)
            x == u[i]
            z == << x >>
<1>1. q \in Seq(S)
  OBVIOUS
<1>2. x \in S
  OBVIOUS
<1>3. SubSeq(u, 1, i) = Append(q, x)
  OBVIOUS
<1>7. z \in Seq(S)
  OBVIOUS
<1>. HIDE DEF q, x
<1>4. Append(q, x) = q \o z
  BY <1>1, <1>2, AppendIsConcat
<1>5. Append(p \o q, x) = (p \o q) \o z
  <2>1. p \o q \in Seq(S)
    BY <1>1, ConcatProperties
  <2>. QED  BY <1>2, <2>1, AppendIsConcat
<1>. HIDE DEF z
<1>6. (p \o q) \o z = p \o (q \o z)
  BY <1>1, <1>7
<1>8. p \o SubSeq(u, 1, i) = p \o (q \o z)
  BY <1>3, <1>4
<1>. QED  BY <1>8, <1>5, <1>6 DEF q, x

\* Fields an object does not know are added to those it has.
LEMMA ReadsUnknown ==
  ASSUME NEW r, NEW a \in Nat, NEW m \in Message, r[a] = State(m),
         NEW u \in Seq(Unknown),
         Reads(r, a, Fields(u), Len(u))
  PROVE  r[a+Len(u)] = State([text |-> m.text, unknown |-> m.unknown \o u])
<1>. DEFINE n == Len(u)
            g(i) == State([text |-> m.text, unknown |-> m.unknown \o SubSeq(u, 1, i)])
            T == {i \in 0..n : r[a+i] # g(i)}
<1>0. n \in Nat /\ m.unknown \in Seq(Unknown)
  BY DEF Message
<1>1. r[a+0] = g(0)
  <2>1. m = [text |-> m.text, unknown |-> m.unknown]
    BY DEF Message
  <2>2. SubSeq(u, 1, 0) = << >> /\ m.unknown \o << >> = m.unknown
    BY <1>0
  <2>3. g(0) = State(m)
    BY <2>1, <2>2
  <2>. QED  BY <2>3
<1>2. T = {}
  <2>. SUFFICES ASSUME T # {} PROVE FALSE
    OBVIOUS
  <2>. HIDE DEF g
  <2>1. PICK i \in T : \A j \in T : i <= j
    <3>1. T \subseteq Nat
      BY <1>0
    <3>. HIDE DEF T
    <3>. QED  BY <3>1, Least
  <2>2. i # 0 /\ i \in 1..n /\ i - 1 \in 0..n /\ i - 1 \notin T
    BY <1>0, <1>1, <2>1
  <2>3. r[a+(i-1)] = g(i-1)
    BY <2>2
  <2>4. r[a+i] = ParseField(g(i-1), UnknownField(u[i]))
    <3>1. r[a+i] = ParseField(r[a+i-1], Fields(u)[i]) /\ a+i-1 = a+(i-1)
      BY <2>2 DEF Reads
    <3>2. Fields(u)[i] = UnknownField(u[i])
      BY <2>2 DEF Fields
    <3>. QED  BY <2>3, <3>1, <3>2
  <2>5. ParseField(g(i-1), UnknownField(u[i])) =
          State([text |-> m.text, unknown |-> Append(m.unknown \o SubSeq(u, 1, i-1), u[i])])
    BY DEF ParseField, UnknownField, g, State
  <2>6. Append(m.unknown \o SubSeq(u, 1, i-1), u[i]) = m.unknown \o SubSeq(u, 1, i)
    BY <1>0, <2>2, TakeOneMore
  <2>7. r[a+i] = g(i)
    BY <2>4, <2>5, <2>6 DEF g
  <2>. QED  BY <2>1, <2>7
<1>3. r[a+n] = g(n)
  <2>. HIDE DEF g
  <2>1. n \in 0..n /\ n \notin T
    BY <1>0, <1>2
  <2>. QED  BY <2>1
<1>4. SubSeq(u, 1, n) = u
  OBVIOUS
<1>. QED  BY <1>3, <1>4

LEMMA WireIs ==
  ASSUME NEW v \in Message
  PROVE  /\ Wire(v) \in Seq(Field)
         /\ Len(Wire(v)) = ByteSize(v)
         /\ v.text = Empty => Wire(v) = Fields(v.unknown)
         /\ v.text # Empty =>
              /\ Wire(v)[1] = TextField(v.text)
              /\ \A i \in 1..Len(v.unknown) : Wire(v)[1+i] = Fields(v.unknown)[i]
<1>. DEFINE u == v.unknown
            q == Fields(u)
<1>1. u \in Seq(Unknown) /\ v.text \in Text \cup {Empty}
  BY DEF Message
<1>2. q \in Seq(Field) /\ Len(q) = Len(u)
  <2>1. \A i \in 1..Len(u) : UnknownField(u[i]) \in Field
    BY <1>1 DEF Field
  <2>. QED  BY <1>1, <2>1 DEF Fields
<1>3. TextField(v.text) \in Field
  BY <1>1 DEF Field
<1>. HIDE DEF q
<1>4. CASE v.text = Empty
  <2>1. Wire(v) = << >> \o q
    BY <1>4 DEF Wire, q, Fields
  <2>2. << >> \o q = q
    BY <1>2
  <2>. QED  BY <1>2, <1>4, <2>1, <2>2 DEF ByteSize, q
<1>5. CASE v.text # Empty
  <2>. DEFINE x == TextField(v.text)
  <2>1. Wire(v) = << x >> \o q
    BY <1>5 DEF Wire, q, Fields
  <2>. HIDE DEF x
  <2>2. x \in Field
    BY <1>3 DEF x
  <2>3. /\ << x >> \o q \in Seq(Field) /\ Len(<< x >> \o q) = 1 + Len(q)
        /\ (<< x >> \o q)[1] = x
        /\ \A i \in 1..Len(q) : (<< x >> \o q)[1+i] = q[i]
    BY <1>2, <2>2
  <2>. QED  BY <1>1, <1>2, <1>5, <2>1, <2>3 DEF ByteSize, x, q
<1>. QED  BY <1>4, <1>5

\* A text that is read: parsing goes on unless it is not UTF-8.
LEMMA ReadsText ==
  ASSUME NEW m, NEW t
  PROVE  /\ t \notin NotUtf8 =>
              ParseField(State(m), TextField(t)) = State([m EXCEPT !.text = t])
         /\ t \in NotUtf8 =>
              /\ ~ParseField(State(m), TextField(t)).more
              /\ ParseField(State(m), TextField(t)).failed
<1>. DEFINE x == TextField(t)
<1>1. x.kind = "text" /\ x.val = t /\ State(m).more
  BY DEF TextField, State
<1>. HIDE DEF x
<1>2. CASE t \notin NotUtf8
  <2>1. ParseField(State(m), x) = [State(m) EXCEPT !.m.text = t, !.more = TRUE, !.failed = FALSE]
    <3>1. (t \notin NotUtf8) = TRUE /\ (t \in NotUtf8) = FALSE
      BY <1>2
    <3>. QED  BY <1>1, <3>1 DEF ParseField
  <2>. QED  BY <1>2, <2>1 DEF State, x
<1>3. CASE t \in NotUtf8
  <2>1. ParseField(State(m), x) = [State(m) EXCEPT !.m.text = t, !.more = FALSE, !.failed = TRUE]
    <3>1. (t \notin NotUtf8) = FALSE /\ (t \in NotUtf8) = TRUE
      BY <1>3
    <3>. QED  BY <1>1, <3>1 DEF ParseField
  <2>. QED  BY <1>3, <2>1 DEF State, x
<1>. QED  BY <1>2, <1>3

\* A message that is read after others is merged.
LEMMA ReadsWire ==
  ASSUME NEW r, NEW a \in Nat, NEW m \in Message, r[a] = State(m),
         NEW v \in Message, v.text \notin NotUtf8,
         Reads(r, a, Wire(v), Len(Wire(v)))
  PROVE  r[a+Len(Wire(v))] = State(Merged(m, v))
<1>1. v.unknown \in Seq(Unknown) /\ Len(v.unknown) \in Nat /\ Len(Wire(v)) = ByteSize(v)
  BY WireIs DEF Message
<1>2. CASE v.text = Empty
  <2>1. Len(Wire(v)) = Len(v.unknown)
    BY <1>1, <1>2 DEF ByteSize
  <2>2. Reads(r, a, Fields(v.unknown), Len(v.unknown))
    BY <1>2, <2>1, WireIs
  <2>3. r[a+Len(v.unknown)] = State([text |-> m.text, unknown |-> m.unknown \o v.unknown])
    BY <1>1, <2>2, ReadsUnknown
  <2>. QED  BY <1>2, <2>1, <2>3 DEF Merged
<1>3. CASE v.text # Empty
  <2>1. Len(Wire(v)) = 1 + Len(v.unknown)
    BY <1>1, <1>3 DEF ByteSize
  <2>. DEFINE n == [text |-> v.text, unknown |-> m.unknown]
  <2>2. n \in Message /\ a + 1 \in Nat
    BY DEF Message
  <2>3. r[a+1] = State(n)
    <3>1. 1 \in 1..Len(Wire(v)) /\ a + 1 - 1 = a
      BY <1>1, <2>1
    <3>2. r[a+1] = ParseField(r[a], TextField(v.text))
      BY <3>1, <1>3, WireIs DEF Reads
    <3>3. [m EXCEPT !.text = v.text] = n
      BY DEF Message
    <3>. QED  BY <3>2, <3>3, ReadsText
  <2>4. Reads(r, a + 1, Fields(v.unknown), Len(v.unknown))
    <3>1. SUFFICES ASSUME NEW i \in 1..Len(v.unknown)
                   PROVE  r[a+1+i] = ParseField(r[a+1+i-1], Fields(v.unknown)[i])
      BY DEF Reads
    <3>2. 1+i \in 1..Len(Wire(v)) /\ a + (1+i) = a + 1 + i /\ a + (1+i) - 1 = a + 1 + i - 1
      BY <1>1, <2>1
    <3>3. r[a+(1+i)] = ParseField(r[a+(1+i)-1], Wire(v)[1+i])
      BY <3>2 DEF Reads
    <3>. QED  BY <3>2, <3>3, <1>3, WireIs
  <2>. HIDE DEF n
  <2>5. r[a+1+Len(v.unknown)] = State([text |-> n.text, unknown |-> n.unknown \o v.unknown])
    BY <1>1, <2>2, <2>3, <2>4, ReadsUnknown
  <2>6. a + 1 + Len(v.unknown) = a + Len(Wire(v))
    <3>1. \A k, l \in Nat : l = 1 + k => a + 1 + k = a + l
      OBVIOUS
    <3>2. Len(Wire(v)) \in Nat
      BY <1>1, <2>1
    <3>. QED  BY <1>1, <2>1, <3>1, <3>2
  <2>. QED  BY <1>3, <2>5, <2>6 DEF n, Merged
<1>. QED  BY <1>2, <1>3

\* What is read after parsing failed, or ended, changes nothing.
LEMMA ReadsNoMore ==
  ASSUME NEW r, NEW a \in Nat, NEW w, NEW n \in Nat, Reads(r, a, w, n), ~r[a].more
  PROVE  r[a+n] = r[a]
<1>. DEFINE T == {i \in 0..n : r[a+i] # r[a]}
<1>1. T = {}
  <2>. SUFFICES ASSUME T # {} PROVE FALSE
    OBVIOUS
  <2>1. PICK i \in T : \A j \in T : i <= j
    <3>1. T \subseteq Nat
      OBVIOUS
    <3>. HIDE DEF T
    <3>. QED  BY <3>1, Least
  <2>2. i \in 1..n /\ i - 1 \in 0..n /\ i - 1 \notin T /\ r[a+i] # r[a]
    BY <2>1
  <2>3. r[a+(i-1)] = r[a] /\ a+i-1 = a+(i-1)
    BY <2>2
  <2>4. r[a+i] = ParseField(r[a], w[i])
    BY <2>2, <2>3 DEF Reads
  <2>. QED  BY <2>2, <2>4 DEF ParseField
<1>2. n \in 0..n /\ n \notin T
  BY <1>1
<1>. QED  BY <1>2

LEMMA NewIsMessage == NewMessage \in Message
BY DEF NewMessage, Message

LEMMA MergedIs ==
  ASSUME NEW m \in Message, NEW v \in Message
  PROVE  Merged(m, v) \in Message /\ Merged(NewMessage, v) = v
<1>1. /\ m.unknown \in Seq(Unknown) /\ v.unknown \in Seq(Unknown)
      /\ v = [text |-> v.text, unknown |-> v.unknown]
  BY DEF Message
<1>2. m.unknown \o v.unknown \in Seq(Unknown) /\ << >> \o v.unknown = v.unknown
  BY <1>1
<1>3. Merged(m, v) \in Message
  BY <1>2 DEF Merged, Message
<1>4. Merged(NewMessage, v) = [text |-> v.text, unknown |-> v.unknown]
  BY <1>2 DEF Merged, NewMessage
<1>. QED  BY <1>1, <1>3, <1>4

\* Any message is read back from its wire, unless its text is not UTF-8, which
\* the reader refuses.
LEMMA ReadBack ==
  ASSUME NEW v \in Message, NEW m
  PROVE  /\ v.text \notin NotUtf8 => ParsedFrom(m, Wire(v)) = State(v)
         /\ v.text \in NotUtf8 => ParsedFrom(m, Wire(v)).failed
<1>. DEFINE w == Wire(v)
            n == Len(w)
<1>1. w \in Seq(Field) /\ n \in Nat /\ DOMAIN w = 1..n /\ n = ByteSize(v)
  BY WireIs
<1>. HIDE DEF w, n
<1>2. PICK r : r[0] = State(NewMessage) /\ Reads(r, 0, w, n) /\ Parsed(NewMessage, w) = r[n]
  BY <1>1, ParsedIs
<1>3. ParsedFrom(m, w) = r[n]
  BY <1>2 DEF ParsedFrom, Cleared
<1>4. CASE v.text \notin NotUtf8
  <2>1. r[0+n] = State(Merged(NewMessage, v))
    BY <1>1, <1>2, <1>4, ReadsWire, MergedIs, NewIsMessage DEF w, n
  <2>2. 0 + n = n
    BY <1>1
  <2>. QED  BY <1>3, <1>4, <2>1, <2>2, MergedIs DEF w
<1>5. CASE v.text \in NotUtf8
  <2>1. v.text # Empty /\ n = 1 + Len(v.unknown) /\ Len(v.unknown) \in Nat
    BY <1>1, <1>5, ProtoAssumption DEF ByteSize, Message
  <2>2. w[1] = TextField(v.text)
    BY <2>1, WireIs DEF w
  <2>3. r[1] = ParseField(r[0], w[1])
    <3>1. 1 \in 1..n /\ 0 + 1 = 1 /\ 0 + 1 - 1 = 0
      BY <1>1, <2>1
    <3>. QED  BY <1>2, <3>1 DEF Reads
  <2>4. ~r[1].more /\ r[1].failed
    <3>. DEFINE z == ParseField(State(NewMessage), TextField(v.text))
    <3>1. ~z.more /\ z.failed
      BY <1>5, ReadsText, Zenon
    <3>2. r[1] = z
      BY <1>2, <2>2, <2>3
    <3>. HIDE DEF z
    <3>. QED  BY <3>1, <3>2
  <2>5. Reads(r, 1, [i \in 1..(n-1) |-> w[1+i]], n-1)
    <3>1. SUFFICES ASSUME NEW i \in 1..(n-1)
                   PROVE  r[1+i] = ParseField(r[1+i-1], w[1+i])
      BY DEF Reads
    <3>2. 1+i \in 1..n /\ 0+(1+i) = 1+i /\ 0+(1+i)-1 = 1+i-1
      BY <1>1
    <3>. QED  BY <1>2, <3>2 DEF Reads
  <2>6. n - 1 \in Nat /\ 1 + (n-1) = n
    BY <1>1, <2>1
  <2>7. r[1+(n-1)] = r[1]
    BY <2>4, <2>5, <2>6, ReadsNoMore
  <2>. QED  BY <1>3, <1>5, <2>4, <2>6, <2>7 DEF w
<1>. QED  BY <1>4, <1>5

\* Two messages, one after the other, are read as their merge.
LEMMA ReadBoth ==
  ASSUME NEW u \in Message, NEW v \in Message, u.text \notin NotUtf8, v.text \notin NotUtf8
  PROVE  Parsed(NewMessage, Wire(u) \o Wire(v)) = State(Merged(u, v))
<1>. DEFINE x == Wire(u)
            y == Wire(v)
            w == x \o y
            k == Len(x)
            n == Len(y)
<1>1. x \in Seq(Field) /\ y \in Seq(Field) /\ k \in Nat /\ n \in Nat
  BY WireIs
<1>. HIDE DEF x, y
<1>2. /\ DOMAIN w = 1..(k+n) /\ k+n \in Nat
      /\ \A i \in 1..k : w[i] = x[i]
      /\ \A i \in 1..n : w[k+i] = y[i]
  <2>1. /\ w \in Seq(Field) /\ Len(w) = k + n
        /\ \A i \in 1..Len(x) : w[i] = x[i]
        /\ \A i \in 1..Len(y) : w[Len(x)+i] = y[i]
    BY <1>1, ConcatProperties
  <2>. QED  BY <1>1, <2>1
<1>. HIDE DEF w, k, n
<1>3. PICK r : r[0] = State(NewMessage) /\ Reads(r, 0, w, k+n) /\ Parsed(NewMessage, w) = r[k+n]
  BY <1>2, ParsedIs
<1>4. Reads(r, 0, x, k)
  <2>1. \A i \in 1..k : i \in 1..(k+n)
    BY <1>1
  <2>. QED  BY <1>2, <1>3, <2>1 DEF Reads
<1>5. Reads(r, k, y, n)
  <2>1. SUFFICES ASSUME NEW i \in 1..n PROVE r[k+i] = ParseField(r[k+i-1], y[i])
    BY DEF Reads
  <2>2. k+i \in 1..(k+n) /\ 0+(k+i) = k+i /\ 0+(k+i)-1 = k+i-1
    BY <1>1
  <2>. QED  BY <1>2, <1>3, <2>2 DEF Reads
<1>6. r[0+k] = State(Merged(NewMessage, u))
  BY <1>3, <1>4, ReadsWire, MergedIs, NewIsMessage DEF x, k
<1>7. r[k] = State(u)
  <2>1. 0 + k = k
    BY <1>1
  <2>. QED  BY <1>6, <2>1, MergedIs
<1>8. r[k+n] = State(Merged(u, v))
  BY <1>1, <1>5, <1>7, ReadsWire DEF y, n
<1>. QED  BY <1>3, <1>8 DEF w, x, y

-----------------------------------------------------------------------------
(* Writing to a map *)

LEMMA WithIs ==
  ASSUME NEW f, NEW x, NEW y
  PROVE  /\ DOMAIN With(f, x, y) = DOMAIN f \cup {x}
         /\ With(f, x, y)[x] = y
         /\ \A z \in DOMAIN f \ {x} : With(f, x, y)[z] = f[z]
BY DEF With

LEMMA WithoutIs ==
  ASSUME NEW f, NEW x
  PROVE  /\ DOMAIN Without(f, x) = DOMAIN f \ {x}
         /\ \A z \in DOMAIN f \ {x} : Without(f, x)[z] = f[z]
BY DEF Without

\* The strings of an object that is made, and of those that stay.
LEMMA CreatedStrings ==
  ASSUME NEW o, o \notin Live, NEW s, NEW u,
         msg' = With(msg, o, [str |-> s, unknown |-> u])
  PROVE  /\ Live' = Live \cup {o}
         /\ msg'[o] = [str |-> s, unknown |-> u]
         /\ \A p \in Live : msg'[p] = msg[p]
BY DEF Live, With

LEMMA WrittenStrings ==
  ASSUME NEW o \in Live, NEW m, msg' = [msg EXCEPT ![o] = m]
  PROVE  /\ Live' = Live
         /\ msg'[o] = m
         /\ \A p \in Live \ {o} : msg'[p] = msg[p]
BY DEF Live

-----------------------------------------------------------------------------
(* The operations *)

LEMMA InitIInv == ObjectsInit => IInv
<1>. SUFFICES ASSUME ObjectsInit PROVE IInv
  OBVIOUS
<1>1. Live = {} /\ DOMAIN heap = {} /\ held = {}
  BY DEF ObjectsInit, Live
<1>. QED  BY <1>1 DEF IInv, OneOwner

\* The parts of the invariant, as the steps below use them.
LEMMA Parts ==
  ASSUME IInv
  PROVE  /\ \A s : s \in DOMAIN heap <=>
                     s \in held \/ (s # Default /\ \E o \in Live : msg[o].str = s)
         /\ Default \notin DOMAIN heap /\ Default \notin held
         /\ DOMAIN heap \subseteq Str
         /\ \A o \in Live : msg[o].str \notin held
         /\ \A o, p \in Live : msg[o].str = msg[p].str => o = p \/ msg[o].str = Default
         /\ \A o \in Live : IsObject(msg[o])
BY ObjectsAssumption DEF IInv, OneOwner

\* They make it up again, after a step.
LEMMA Whole ==
  ASSUME \A s : s \in DOMAIN heap' <=>
                  s \in held' \/ (s # Default /\ \E o \in Live' : msg'[o].str = s),
         DOMAIN heap' \subseteq Str,
         \A o \in Live' : msg'[o].str \notin held',
         \A o, p \in Live' : msg'[o].str = msg'[p].str => o = p \/ msg'[o].str = Default,
         \A o \in Live' : IsObject(msg'[o])
  PROVE  IInv'
<1>1. held' \subseteq DOMAIN heap' /\ Default \notin DOMAIN heap'
  BY ObjectsAssumption
<1>. DEFINE owned == {msg'[o].str : o \in Live'}
<1>2. \A s : s \in owned <=> \E o \in Live' : msg'[o].str = s
  OBVIOUS
<1>3. DOMAIN heap' = held' \cup (owned \ {Default})
  <2>. HIDE DEF owned
  <2>. QED  BY <1>1, <1>2
<1>. QED  BY <1>3 DEF IInv, OneOwner

LEMMA RecordIsObject ==
  \A s, u : IsObject([str |-> s, unknown |-> u]) /\ [str |-> s, unknown |-> u].str = s
BY DEF IsObject

\* An object is made that has no string, or a new one.
LEMMA MadeInv ==
  ASSUME IInv, NEW o, o \notin Live, NEW s, NEW u, NEW t, UNCHANGED held,
         msg' = With(msg, o, [str |-> s, unknown |-> u]),
         \/ s = Default /\ UNCHANGED heap
         \/ s \in Str \ DOMAIN heap /\ heap' = With(heap, s, t)
  PROVE  IInv'
<1>1. /\ Live' = Live \cup {o} /\ msg'[o] = [str |-> s, unknown |-> u]
      /\ \A p \in Live : msg'[p] = msg[p]
  BY CreatedStrings
<1>2. DOMAIN heap' = DOMAIN heap \cup ({s} \ {Default})
  BY ObjectsAssumption DEF With
<1>3. s \notin DOMAIN heap
  BY Parts
<1>. QED  BY <1>1, <1>2, <1>3, Parts, Whole, RecordIsObject, ObjectsAssumption

\* An object says something else: with its own string, or the shared one, or a
\* new one.
LEMMA SaysInv ==
  ASSUME IInv, NEW o \in Live, NEW v, NEW set, Says(o, v, set)
  PROVE  IInv'
<1>1. held' = held
  BY DEF Says
<1>2. IsObject(msg[o])
  BY Parts
<1>3. ASSUME NEW h, UNCHANGED held, msg' = [msg EXCEPT ![o].unknown = v.unknown],
             DOMAIN heap' = DOMAIN heap
      PROVE  IInv'
  <2>1. msg' = [msg EXCEPT ![o] = [str |-> msg[o].str, unknown |-> v.unknown]]
    <3>1. msg' = [msg EXCEPT ![o] = [msg[o] EXCEPT !.unknown = v.unknown]]
      BY <1>3
    <3>2. [msg[o] EXCEPT !.unknown = v.unknown] = [str |-> msg[o].str, unknown |-> v.unknown]
      BY <1>2 DEF IsObject
    <3>. QED  BY <3>1, <3>2
  <2>2. /\ Live' = Live /\ msg'[o] = [str |-> msg[o].str, unknown |-> v.unknown]
        /\ \A p \in Live \ {o} : msg'[p] = msg[p]
    BY <2>1, WrittenStrings
  <2>3. \A p \in Live : msg'[p].str = msg[p].str
    BY <2>2
  <2>4. \A s : s \in DOMAIN heap' <=>
                 s \in held' \/ (s # Default /\ \E p \in Live' : msg'[p].str = s)
    BY <1>3, <2>2, <2>3, Parts
  <2>5. \A p \in Live' : IsObject(msg'[p])
    BY <2>2, Parts, RecordIsObject
  <2>. QED  BY <1>3, <2>2, <2>3, <2>4, <2>5, Parts, Whole, RecordIsObject
<1>4. CASE msg[o].str # Default /\ heap' = With(heap, msg[o].str, v.text)
           /\ msg' = [msg EXCEPT ![o].unknown = v.unknown]
  <2>1. DOMAIN heap' = DOMAIN heap
    BY <1>4, Parts DEF With
  <2>. QED  BY <1>1, <1>3, <1>4, <2>1
<1>5. CASE msg' = [msg EXCEPT ![o].unknown = v.unknown] /\ UNCHANGED heap
  BY <1>1, <1>3, <1>5
<1>6. ASSUME msg[o].str = Default, NEW s \in Str \ DOMAIN heap, heap' = With(heap, s, v.text),
             msg' = [msg EXCEPT ![o] = [str |-> s, unknown |-> v.unknown]]
      PROVE  IInv'
  <2>1. /\ Live' = Live /\ msg'[o] = [str |-> s, unknown |-> v.unknown]
        /\ \A p \in Live \ {o} : msg'[p] = msg[p]
    BY <1>6, WrittenStrings
  <2>2. DOMAIN heap' = DOMAIN heap \cup {s}
    BY <1>6, WithIs
  <2>. QED  BY <1>1, <1>6, <2>1, <2>2, Parts, Whole, RecordIsObject, ObjectsAssumption
<1>. QED  BY <1>4, <1>5, <1>6 DEF Says

LEMMA NewInv ==
  ASSUME IInv, NEW o, New(o) PROVE IInv'
BY MadeInv DEF New, Fresh

LEMMA NewCopyInv ==
  ASSUME IInv, NEW o, NEW p, NewCopy(o, p)
  PROVE  IInv'
<1>. DEFINE v == Copied(Value(p))
<1>1. o \notin Live /\ held' = held
  BY DEF NewCopy
<1>2. CASE msg' = With(msg, o, [Fresh EXCEPT !.unknown = v.unknown]) /\ UNCHANGED heap
  <2>1. [Fresh EXCEPT !.unknown = v.unknown] = [str |-> Default, unknown |-> v.unknown]
    BY DEF Fresh
  <2>. QED  BY <1>1, <1>2, <2>1, MadeInv
<1>3. ASSUME NEW s \in Str \ DOMAIN heap, heap' = With(heap, s, v.text),
             msg' = With(msg, o, [str |-> s, unknown |-> v.unknown])
      PROVE  IInv'
  BY <1>1, <1>3, MadeInv
<1>. QED  BY <1>2, <1>3 DEF NewCopy

\* The string goes from one object to the other.
LEMMA NewMovedInv ==
  ASSUME IInv, NEW o, NEW p, NewMoved(o, p)
  PROVE  IInv'
<1>1. o \notin Live /\ p \in Live /\ UNCHANGED <<heap, held>>
      /\ msg' = With([msg EXCEPT ![p] = Fresh], o, msg[p])
  BY DEF NewMoved
<1>2. /\ Live' = Live \cup {o} /\ msg'[o] = msg[p] /\ msg'[p] = Fresh
      /\ \A q \in Live \ {p} : msg'[q] = msg[q]
  BY <1>1 DEF Live, With
<1>3. Fresh.str = Default /\ IsObject(Fresh)
  BY DEF Fresh, IsObject
<1>4. \A s : s \in DOMAIN heap' <=>
               s \in held' \/ (s # Default /\ \E q \in Live' : msg'[q].str = s)
  <2>1. \A s : s # Default =>
          ((\E q \in Live' : msg'[q].str = s) <=> \E q \in Live : msg[q].str = s)
    BY <1>1, <1>2, <1>3
  <2>. QED  BY <1>1, <2>1, Parts
<1>5. \A q \in Live' : IsObject(msg'[q])
  BY <1>1, <1>2, <1>3, Parts
<1>6. \A q, r \in Live' : msg'[q].str = msg'[r].str => q = r \/ msg'[q].str = Default
  <2>. TAKE q, r \in Live'
  <2>. DEFINE at(u) == IF u = o THEN p ELSE u
  <2>1. \A u \in Live' : u # p => at(u) \in Live /\ msg'[u] = msg[at(u)]
    BY <1>1, <1>2
  <2>2. q # p /\ r # p /\ at(q) = at(r) => q = r
    BY <1>1
  <2>3. msg'[p].str = Default
    BY <1>2, <1>3
  <2>. HIDE DEF at
  <2>. QED  BY <2>1, <2>2, <2>3, Parts
<1>7. \A q \in Live' : msg'[q].str \notin held'
  BY <1>1, <1>2, <1>3, Parts
<1>. QED  BY <1>1, <1>4, <1>5, <1>6, <1>7, Parts, Whole, RecordIsObject

LEMMA DeleteInv ==
  ASSUME IInv, NEW o, Delete(o)
  PROVE  IInv'
<1>1. /\ o \in Live /\ Live' = Live \ {o} /\ \A p \in Live \ {o} : msg'[p] = msg[p]
      /\ held' = held
  BY WithoutIs DEF Delete, Live
<1>2. DOMAIN heap' = DOMAIN heap \ {msg[o].str}
  BY WithoutIs DEF Delete
<1>. QED  BY <1>1, <1>2, Parts, Whole, RecordIsObject

\* An object gives its string away, or takes one, or none.
LEMMA StringInv ==
  ASSUME IInv, NEW o \in Live, NEW s, msg' = [msg EXCEPT ![o].str = s]
  PROVE  /\ Live' = Live /\ msg'[o] = [str |-> s, unknown |-> msg[o].unknown]
         /\ \A p \in Live \ {o} : msg'[p] = msg[p]
<1>1. msg' = [msg EXCEPT ![o] = [str |-> s, unknown |-> msg[o].unknown]]
  <2>1. IsObject(msg[o])
    BY Parts
  <2>2. msg' = [msg EXCEPT ![o] = [msg[o] EXCEPT !.str = s]]
    OBVIOUS
  <2>3. [msg[o] EXCEPT !.str = s] = [str |-> s, unknown |-> msg[o].unknown]
    BY <2>1 DEF IsObject
  <2>. QED  BY <2>2, <2>3
<1>. QED  BY <1>1, WrittenStrings

LEMMA ReleaseInv ==
  ASSUME IInv, NEW o, ReleaseMessage(o)
  PROVE  IInv'
<1>1. o \in Live /\ held' = held \cup ({msg[o].str} \ {Default}) /\ heap' = heap
  BY DEF ReleaseMessage
<1>2. /\ Live' = Live /\ msg'[o] = [str |-> Default, unknown |-> msg[o].unknown]
      /\ \A p \in Live \ {o} : msg'[p] = msg[p]
  BY <1>1, StringInv DEF ReleaseMessage
<1>. QED  BY <1>1, <1>2, Parts, Whole, RecordIsObject

LEMMA SetAllocatedInv ==
  ASSUME IInv, NEW o, NEW s, SetAllocatedMessage(o, s)
  PROVE  IInv'
<1>1. o \in Live /\ s \in held /\ held' = held \ {s}
  BY DEF SetAllocatedMessage
<1>2. /\ Live' = Live /\ msg'[o] = [str |-> s, unknown |-> msg[o].unknown]
      /\ \A p \in Live \ {o} : msg'[p] = msg[p]
  BY <1>1, StringInv DEF SetAllocatedMessage
<1>3. DOMAIN heap' = DOMAIN heap \ {msg[o].str}
  BY WithoutIs DEF SetAllocatedMessage
<1>. QED  BY <1>1, <1>2, <1>3, Parts, Whole, RecordIsObject

LEMMA SetAllocatedNullInv ==
  ASSUME IInv, NEW o, SetAllocatedNull(o)
  PROVE  IInv'
<1>1. o \in Live /\ held' = held
  BY DEF SetAllocatedNull
<1>2. /\ Live' = Live /\ msg'[o] = [str |-> Default, unknown |-> msg[o].unknown]
      /\ \A p \in Live \ {o} : msg'[p] = msg[p]
  BY <1>1, StringInv DEF SetAllocatedNull
<1>3. DOMAIN heap' = DOMAIN heap \ {msg[o].str}
  BY WithoutIs DEF SetAllocatedNull
<1>. QED  BY <1>1, <1>2, <1>3, Parts, Whole, RecordIsObject

LEMMA DeleteStringInv ==
  ASSUME IInv, NEW s, DeleteString(s)
  PROVE  IInv'
<1>1. s \in held /\ held' = held \ {s} /\ msg' = msg
  BY DEF DeleteString
<1>2. DOMAIN heap' = DOMAIN heap \ {s}
  BY WithoutIs DEF DeleteString
<1>3. Live' = Live
  BY <1>1 DEF Live
<1>. QED  BY <1>1, <1>2, <1>3, Parts, Whole, RecordIsObject

LEMMA SwapInv ==
  ASSUME IInv, NEW o, NEW p, Swap(o, p)
  PROVE  IInv'
<1>1. /\ o \in Live /\ p \in Live /\ UNCHANGED <<heap, held>>
      /\ msg' = [msg EXCEPT ![o] = msg[p], ![p] = msg[o]]
  BY DEF Swap
<1>2. /\ Live' = Live /\ msg'[o] = msg[p] /\ msg'[p] = msg[o]
      /\ \A q \in Live \ {o, p} : msg'[q] = msg[q]
  BY <1>1 DEF Live
<1>3. \A s : s \in DOMAIN heap' <=>
               s \in held' \/ (s # Default /\ \E q \in Live' : msg'[q].str = s)
  <2>1. \A s : (\E q \in Live' : msg'[q].str = s) <=> \E q \in Live : msg[q].str = s
    BY <1>1, <1>2
  <2>. QED  BY <1>1, <2>1, Parts
<1>4. \A q \in Live' : IsObject(msg'[q])
  BY <1>1, <1>2, Parts
<1>5. \A q, r \in Live' : msg'[q].str = msg'[r].str => q = r \/ msg'[q].str = Default
  <2>. TAKE q, r \in Live'
  <2>1. \A u \in Live : u = o \/ u = p \/ msg'[u] = msg[u]
    BY <1>2
  <2>. DEFINE at(u) == IF u = o THEN p ELSE IF u = p THEN o ELSE u
  <2>2. at(q) \in Live /\ at(r) \in Live /\ msg'[q] = msg[at(q)] /\ msg'[r] = msg[at(r)]
    BY <1>1, <1>2, <2>1
  <2>3. at(q) = at(r) => q = r
    OBVIOUS
  <2>. HIDE DEF at
  <2>. QED  BY <2>2, <2>3, Parts
<1>6. \A q \in Live' : msg'[q].str \notin held'
  <2>. TAKE q \in Live'
  <2>1. \E r \in Live : msg'[q] = msg[r]
    BY <1>1, <1>2
  <2>. QED  BY <1>1, <2>1, Parts
<1>. QED  BY <1>1, <1>3, <1>4, <1>5, <1>6, Parts, Whole, RecordIsObject

-----------------------------------------------------------------------------
(* What the objects say *)

LEMMA InitTyped == ObjectsInit => Typed
BY DEF ObjectsInit, Typed, Live

LEMMA ValueIsMessage ==
  ASSUME IInv, Typed, NEW o \in Live
  PROVE  Value(o) \in Message
<1>1. msg[o].unknown \in Seq(Unknown)
  BY DEF Typed
<1>2. CASE msg[o].str = Default
  BY <1>1, <1>2 DEF Value, Message
<1>3. CASE msg[o].str # Default
  <2>1. msg[o].str \in DOMAIN heap
    BY <1>3, Parts
  <2>. QED  BY <1>1, <1>3, <2>1 DEF Value, Message, Typed
<1>. QED  BY <1>2, <1>3

\* After Says(o, v, set) object o says v, unless it has no string to say a text
\* that was not set, and the others what they said.
LEMMA SaysIs ==
  ASSUME IInv, NEW o \in Live, NEW v, NEW set, Says(o, v, set)
  PROVE  /\ Live' = Live /\ msg'[o].unknown = v.unknown
         /\ (msg[o].str = Default /\ ~set => v.text = Empty) =>
              Value(o)' = [text |-> v.text, unknown |-> v.unknown]
         /\ \A p \in Live \ {o} : msg'[p] = msg[p] /\ Value(p)' = Value(p)
         /\ \A s \in DOMAIN heap' :
              heap'[s] = v.text \/ (s \in DOMAIN heap /\ heap'[s] = heap[s])
<1>. DEFINE x == msg[o].str
            Unset == x = Default /\ ~set => v.text = Empty
            Kept == \A p \in Live \ {o} :
                      msg[p].str # Default => heap'[msg[p].str] = heap[msg[p].str]
<1>1. \A p \in Live \ {o} : msg[p].str # Default => msg[p].str \in DOMAIN heap \ {x}
  BY Parts
<1>2. ASSUME NEW s, msg' = [msg EXCEPT ![o] = [str |-> s, unknown |-> v.unknown]],
             Unset => IF s = Default THEN v.text = Empty ELSE heap'[s] = v.text, Kept
      PROVE  /\ Live' = Live /\ msg'[o].unknown = v.unknown
             /\ Unset => Value(o)' = [text |-> v.text, unknown |-> v.unknown]
             /\ \A p \in Live \ {o} : msg'[p] = msg[p] /\ Value(p)' = Value(p)
  <2>1. /\ Live' = Live /\ msg'[o] = [str |-> s, unknown |-> v.unknown]
        /\ \A p \in Live \ {o} : msg'[p] = msg[p]
    BY <1>2, WrittenStrings
  <2>2. Unset => Value(o)' = [text |-> v.text, unknown |-> v.unknown]
    BY <1>2, <2>1 DEF Value
  <2>3. \A p \in Live \ {o} : Value(p)' = Value(p)
    BY <1>2, <2>1 DEF Value
  <2>. QED  BY <2>1, <2>2, <2>3
<1>3. ASSUME msg' = [msg EXCEPT ![o].unknown = v.unknown]
      PROVE  msg' = [msg EXCEPT ![o] = [str |-> x, unknown |-> v.unknown]]
  <2>1. msg' = [msg EXCEPT ![o] = [msg[o] EXCEPT !.unknown = v.unknown]]
    BY <1>3
  <2>2. [msg[o] EXCEPT !.unknown = v.unknown] = [str |-> x, unknown |-> v.unknown]
    <3>1. msg[o] = [str |-> x, unknown |-> msg[o].unknown]
      BY Parts DEF IsObject
    <3>. QED  BY <3>1
  <2>. QED  BY <2>1, <2>2
<1>4. CASE x # Default /\ heap' = With(heap, x, v.text)
           /\ msg' = [msg EXCEPT ![o].unknown = v.unknown]
  <2>1. /\ DOMAIN heap' = DOMAIN heap \cup {x} /\ heap'[x] = v.text
        /\ \A s \in DOMAIN heap \ {x} : heap'[s] = heap[s]
    BY <1>4 DEF With
  <2>2. Kept
    BY <1>1, <2>1
  <2>. QED  BY <1>2, <1>3, <1>4, <2>1, <2>2
<1>5. CASE x = Default /\ ~set /\ UNCHANGED heap
           /\ msg' = [msg EXCEPT ![o].unknown = v.unknown]
  BY <1>2, <1>3, <1>5
<1>6. ASSUME x = Default, NEW s \in Str \ DOMAIN heap, heap' = With(heap, s, v.text),
             msg' = [msg EXCEPT ![o] = [str |-> s, unknown |-> v.unknown]]
      PROVE  /\ Live' = Live /\ msg'[o].unknown = v.unknown
             /\ Unset => Value(o)' = [text |-> v.text, unknown |-> v.unknown]
             /\ \A p \in Live \ {o} : msg'[p] = msg[p] /\ Value(p)' = Value(p)
             /\ \A z \in DOMAIN heap' :
                  heap'[z] = v.text \/ (z \in DOMAIN heap /\ heap'[z] = heap[z])
  <2>1. /\ DOMAIN heap' = DOMAIN heap \cup {s} /\ heap'[s] = v.text
        /\ \A z \in DOMAIN heap \ {s} : heap'[z] = heap[z]
    BY <1>6 DEF With
  <2>2. Kept /\ s # Default
    BY <1>1, <1>6, <2>1, ObjectsAssumption
  <2>3. IF s = Default THEN v.text = Empty ELSE heap'[s] = v.text
    BY <2>1, <2>2
  <2>. QED  BY <1>2, <1>6, <2>1, <2>2, <2>3
<1>. QED  BY <1>4, <1>5, <1>6 DEF Says

LEMMA SaysTyped ==
  ASSUME IInv, Typed, NEW o \in Live, NEW v \in Message, NEW set, Says(o, v, set)
  PROVE  Typed'
<1>1. v.text \in Text \cup {Empty} /\ v.unknown \in Seq(Unknown)
  BY DEF Message
<1>. QED  BY <1>1, SaysIs DEF Typed

LEMMA FreeTyped ==
  ASSUME Typed, NEW s, heap' = Without(heap, s)
  PROVE  \A z \in DOMAIN heap' : heap'[z] \in Text \cup {Empty}
BY DEF Typed, Without

LEMMA StringTyped ==
  ASSUME IInv, Typed, NEW o \in Live, NEW s, msg' = [msg EXCEPT ![o].str = s]
  PROVE  \A p \in Live' : msg'[p].unknown \in Seq(Unknown)
<1>1. /\ Live' = Live /\ msg'[o].unknown = msg[o].unknown
      /\ \A p \in Live \ {o} : msg'[p] = msg[p]
  <2>1. /\ Live' = Live /\ msg'[o] = [str |-> s, unknown |-> msg[o].unknown]
        /\ \A p \in Live \ {o} : msg'[p] = msg[p]
    BY StringInv
  <2>. QED  BY <2>1
<1>. QED  BY <1>1 DEF Typed

LEMMA NextTyped == IInv /\ Typed /\ [ObjectsNext]_objectVars => Typed'
<1>. SUFFICES ASSUME IInv, Typed, [ObjectsNext]_objectVars PROVE Typed'
  OBVIOUS
<1>1. \A s \in DOMAIN heap : heap[s] \in Text \cup {Empty}
  BY DEF Typed
<1>2. \A o \in Live : msg[o].unknown \in Seq(Unknown)
  BY DEF Typed
<1>3. \A o \in Live : Value(o) \in Message
  BY ValueIsMessage
<1>4. NewMessage \in Message /\ \A m, v \in Message : Merged(m, v) \in Message
  BY MergedIs, NewIsMessage
<1>5. Fresh.unknown \in Seq(Unknown)
  BY DEF Fresh
<1>6. CASE UNCHANGED objectVars
  BY <1>6 DEF objectVars, Typed, Live
<1>7. ASSUME NEW o, New(o) PROVE Typed'
  BY <1>1, <1>2, <1>5, <1>7 DEF New, With, Typed, Live
<1>8. ASSUME NEW o, NEW p, NewCopy(o, p) PROVE Typed'
  <2>. DEFINE v == Copied(Value(p))
  <2>1. v.text \in Text \cup {Empty} /\ v.unknown \in Seq(Unknown)
    <3>1. v \in Message
      BY <1>3, <1>4, <1>8 DEF NewCopy, Copied
    <3>. HIDE DEF v
    <3>. QED  BY <3>1 DEF Message
  <2>. HIDE DEF v
  <2>2. ASSUME NEW s, msg' = With(msg, o, [str |-> s, unknown |-> v.unknown])
        PROVE  \A q \in Live' : msg'[q].unknown \in Seq(Unknown)
    BY <1>2, <2>1, <2>2 DEF Live, With
  <2>3. CASE msg' = With(msg, o, [Fresh EXCEPT !.unknown = v.unknown]) /\ UNCHANGED heap
    <3>1. [Fresh EXCEPT !.unknown = v.unknown] = [str |-> Default, unknown |-> v.unknown]
      BY DEF Fresh
    <3>. QED  BY <1>1, <2>2, <2>3, <3>1 DEF Typed
  <2>4. ASSUME NEW s, heap' = With(heap, s, v.text),
               msg' = With(msg, o, [str |-> s, unknown |-> v.unknown])
        PROVE  Typed'
    <3>1. \A z \in DOMAIN heap' : heap'[z] \in Text \cup {Empty}
      BY <1>1, <2>1, <2>4 DEF With
    <3>. QED  BY <2>2, <2>4, <3>1 DEF Typed
  <2>. QED  BY <1>8, <2>3, <2>4 DEF NewCopy, v
<1>9. ASSUME NEW o, NEW p, NewMoved(o, p) PROVE Typed'
  <2>1. p \in Live /\ heap' = heap /\ msg' = With([msg EXCEPT ![p] = Fresh], o, msg[p])
    BY <1>9 DEF NewMoved
  <2>2. \A q \in Live' : msg'[q] = Fresh \/ \E r \in Live : msg'[q] = msg[r]
    BY <2>1 DEF With, Live
  <2>. QED  BY <1>1, <1>2, <1>5, <2>1, <2>2 DEF Typed
<1>10. ASSUME NEW o, Delete(o) PROVE Typed'
  <2>1. \A q \in Live' : q \in Live /\ msg'[q] = msg[q]
    BY <1>10, WithoutIs DEF Delete, Live
  <2>. QED  BY <1>2, <1>10, <2>1, FreeTyped DEF Delete, Typed
<1>11. ASSUME NEW o, ReleaseMessage(o) PROVE Typed'
  BY <1>1, <1>11, StringTyped DEF ReleaseMessage, Typed
<1>12. ASSUME NEW o, NEW s, SetAllocatedMessage(o, s) PROVE Typed'
  BY <1>12, StringTyped, FreeTyped DEF SetAllocatedMessage, Typed
<1>13. ASSUME NEW o, SetAllocatedNull(o) PROVE Typed'
  BY <1>13, StringTyped, FreeTyped DEF SetAllocatedNull, Typed
<1>14. ASSUME NEW s, DeleteString(s) PROVE Typed'
  BY <1>2, <1>14, FreeTyped DEF DeleteString, Typed, Live
<1>15. ASSUME NEW o, NEW p, Swap(o, p) PROVE Typed'
  <2>1. \A q \in Live' : \E r \in Live : msg'[q] = msg[r]
    BY <1>15 DEF Swap, Live
  <2>. QED  BY <1>1, <1>2, <1>15, <2>1 DEF Swap, Typed
<1>16. ASSUME NEW o, Clear(o) PROVE Typed'
  BY <1>4, <1>16, SaysTyped DEF Clear, Cleared
<1>17. ASSUME NEW o, NEW t \in Text \cup {Empty}, NEW set, o \in Live,
             Says(o, [Value(o) EXCEPT !.text = t], set)
       PROVE  Typed'
  <2>1. [Value(o) EXCEPT !.text = t] \in Message
    BY <1>3, <1>17 DEF Message
  <2>. QED  BY <1>17, <2>1, SaysTyped
<1>18. ASSUME NEW o, NEW p, MergeFrom(o, p) PROVE Typed'
  BY <1>3, <1>4, <1>18, SaysTyped DEF MergeFrom
<1>19. ASSUME NEW o, NEW p, CopyFrom(o, p) PROVE Typed'
  <2>1. CASE o = p
    BY <1>6, <1>19, <2>1 DEF CopyFrom
  <2>2. CASE o # p
    BY <1>3, <1>4, <1>19, <2>2, SaysTyped DEF CopyFrom, Cleared
  <2>. QED  BY <2>1, <2>2
<1>20. ASSUME NEW o, NEW w \in Wires, ParseFrom(o, w) PROVE Typed'
  <2>1. ParsedFrom(Value(o), w) \in Reading
    BY <1>4, WiresAssumption, ParsedType DEF ParsedFrom, Cleared
  <2>2. ParsedFrom(Value(o), w).m \in Message
    BY <2>1 DEF Reading
  <2>. QED  BY <1>20, <2>2, SaysTyped DEF ParseFrom
<1>21. ASSUME NEW o, ClearMessage(o) PROVE Typed'
  BY <1>17, <1>21 DEF ClearMessage
<1>22. ASSUME NEW o, NEW t \in Text \cup {Empty}, SetMessage(o, t) PROVE Typed'
  BY <1>17, <1>22 DEF SetMessage
<1>. QED  BY <1>6, <1>7, <1>8, <1>9, <1>10, <1>11, <1>12, <1>13, <1>14, <1>15, <1>16,
             <1>18, <1>19, <1>20, <1>21, <1>22 DEF ObjectsNext, MoveFrom

-----------------------------------------------------------------------------
(* The specification *)

LEMMA NextIInv == IInv /\ [ObjectsNext]_objectVars => IInv'
<1>. SUFFICES ASSUME IInv, [ObjectsNext]_objectVars PROVE IInv'
  OBVIOUS
<1>1. CASE UNCHANGED objectVars
  BY <1>1 DEF objectVars, IInv, OneOwner, Live
<1>2. CASE ObjectsNext
  <2>1. ASSUME NEW o \in Live, NEW v, NEW set, Says(o, v, set) PROVE IInv'
    BY <2>1, SaysInv
  <2>2. ASSUME NEW o, Clear(o) \/ ClearMessage(o) PROVE IInv'
    BY <2>2, <2>1 DEF Clear, ClearMessage
  <2>3. ASSUME NEW o, NEW t, SetMessage(o, t) PROVE IInv'
    BY <2>3, <2>1 DEF SetMessage
  <2>4. ASSUME NEW o, NEW w, ParseFrom(o, w) PROVE IInv'
    BY <2>4, <2>1 DEF ParseFrom
  <2>5. ASSUME NEW o, NEW p, MergeFrom(o, p) PROVE IInv'
    BY <2>5, <2>1 DEF MergeFrom
  <2>6. ASSUME NEW o, NEW p, CopyFrom(o, p) PROVE IInv'
    <3>1. CASE o = p
      BY <1>1, <2>6, <3>1 DEF CopyFrom
    <3>2. CASE o # p
      BY <2>6, <3>2, <2>1 DEF CopyFrom
    <3>. QED  BY <3>1, <3>2
  <2>7. ASSUME NEW o, NEW p, MoveFrom(o, p) PROVE IInv'
    BY <2>7, SwapInv DEF MoveFrom
  <2>. QED  BY <1>2, <2>2, <2>3, <2>4, <2>5, <2>6, <2>7, NewInv, NewCopyInv, NewMovedInv,
              DeleteInv, ReleaseInv, SetAllocatedInv, SetAllocatedNullInv,
              DeleteStringInv, SwapInv DEF ObjectsNext
<1>. QED  BY <1>1, <1>2

LEMMA ObjectsInductive == ObjectsSpec => [](IInv /\ Typed)
<1>1. ObjectsInit => IInv /\ Typed
  BY InitIInv, InitTyped
<1>2. IInv /\ Typed /\ [ObjectsNext]_objectVars => (IInv /\ Typed)'
  BY NextIInv, NextTyped
<1>. QED  BY <1>1, <1>2, PTL DEF ObjectsSpec

\* A string on the heap has one owner, an object or the program, whatever is
\* copied, moved, swapped, released, given back and parsed.
THEOREM StringsHaveOneOwner == ObjectsSpec => []OneOwner
<1>1. IInv => OneOwner
  BY DEF IInv
<1>. QED  BY <1>1, ObjectsInductive, PTL

\* What an object says, whatever was done to it, is read back from its wire,
\* which takes the bytes that were counted; the reader refuses a text that is
\* not UTF-8.
THEOREM WiresAreReadBack == ObjectsSpec => []ParsesBack
<1>1. ASSUME IInv, Typed PROVE ParsesBack
  <2>. SUFFICES ASSUME NEW o \in Live
                PROVE  LET v == Value(o)
                           r == ParsedFrom(v, Wire(v))
                       IN  /\ Len(Wire(v)) = ByteSize(v)
                           /\ IF v.text \in NotUtf8 THEN ~ParsedOk(r) ELSE ParsedOk(r) /\ r.m = v
    BY DEF ParsesBack
  <2>. DEFINE v == Value(o)
              r == ParsedFrom(v, Wire(v))
  <2>1. v \in Message
    BY <1>1, ValueIsMessage
  <2>. HIDE DEF v
  <2>2. Len(Wire(v)) = ByteSize(v)
    BY <2>1, WireIs
  <2>3. CASE v.text \in NotUtf8
    <3>1. r.failed
      BY <2>1, <2>3, ReadBack
    <3>. QED  BY <2>2, <2>3, <3>1 DEF ParsedOk, v
  <2>4. CASE v.text \notin NotUtf8
    <3>1. r = State(v)
      BY <2>1, <2>4, ReadBack
    <3>2. ParsedOk(State(v)) /\ State(v).m = v
      BY DEF ParsedOk, State
    <3>. QED  BY <2>2, <2>4, <3>1, <3>2 DEF v
  <2>. QED  BY <2>3, <2>4
<1>. QED  BY <1>1, ObjectsInductive, PTL

\* What two objects say, written one after the other, is read as the merge.
THEOREM WiresAreMerged == ObjectsSpec => []ConcatenationMerges
<1>1. ASSUME IInv, Typed PROVE ConcatenationMerges
  <2>. SUFFICES ASSUME NEW o \in Live, NEW p \in Live,
                       {Value(o).text, Value(p).text} \cap NotUtf8 = {}
                PROVE  Parsed(NewMessage, Wire(Value(o)) \o Wire(Value(p))).m
                         = Merged(Value(o), Value(p))
    BY DEF ConcatenationMerges
  <2>1. Value(o) \in Message /\ Value(p) \in Message
    BY <1>1, ValueIsMessage
  <2>2. Value(o).text \notin NotUtf8 /\ Value(p).text \notin NotUtf8
    OBVIOUS
  <2>3. Parsed(NewMessage, Wire(Value(o)) \o Wire(Value(p))) = State(Merged(Value(o), Value(p)))
    BY <2>1, <2>2, ReadBoth
  <2>. QED  BY <2>3 DEF State
<1>. QED  BY <1>1, ObjectsInductive, PTL

\* A copy says what the original says, which stays as it is, also when an object
\* is copied to itself.
THEOREM CopiesAreEqual == ObjectsSpec => CopyIsEqual
<1>1. ASSUME IInv, Typed, NEW o \in Obj, NEW p \in Obj, CopyFrom(o, p)
      PROVE  Value(o)' = Value(p) /\ Value(p)' = Value(p)
  <2>1. o \in Live /\ p \in Live
    BY <1>1 DEF CopyFrom
  <2>2. CASE o = p
    BY <1>1, <2>2 DEF CopyFrom, objectVars, Value
  <2>3. CASE o # p
    <3>. DEFINE v == Merged(Cleared(Value(o)), Value(p))
    <3>1. Value(p) \in Message
      BY <1>1, <2>1, ValueIsMessage
    <3>2. v = Value(p)
      BY <3>1, MergedIs DEF Cleared
    <3>3. Says(o, v, Value(p).text # Empty)
      BY <1>1, <2>3 DEF CopyFrom
    <3>. HIDE DEF v
    <3>4. Value(o)' = [text |-> v.text, unknown |-> v.unknown] /\ Value(p)' = Value(p)
      BY <1>1, <2>1, <2>3, <3>2, <3>3, SaysIs
    <3>5. v = [text |-> v.text, unknown |-> v.unknown]
      BY <3>1, <3>2 DEF Message
    <3>. QED  BY <3>2, <3>4, <3>5
  <2>. QED  BY <2>2, <2>3
<1>2. IInv /\ Typed =>
        [\A o, p \in Obj :
           CopyFrom(o, p) => Value(o)' = Value(p) /\ Value(p)' = Value(p)]_objectVars
  BY <1>1
<1>. QED  BY <1>2, ObjectsInductive, PTL DEF CopyIsEqual

-----------------------------------------------------------------------------
(* The calls *)

LEMMA TextsAreRead ==
  ASSUME NEW c \in Client, NEW x
  PROVE  /\ MessageOf(Hello[c]) \in Message /\ MessageOf(Hello[c]).text = Hello[c]
         /\ MessageOf(Reply[Hello[c]]) \in Message
         /\ MessageOf(Reply[Hello[c]]).text = Reply[Hello[c]]
         /\ ParsedFrom(x, Wire(MessageOf(Hello[c]))).m = MessageOf(Hello[c])
         /\ ParsedFrom(x, Wire(MessageOf(Reply[Hello[c]]))).m = MessageOf(Reply[Hello[c]])
         /\ Reply[Hello[c]] \in Text
<1>1. Hello[c] \in Text \ NotUtf8 /\ Reply[Hello[c]] \in Text /\ Reply[Hello[c]] \notin NotUtf8
  BY EchoAssumption
<1>2. ASSUME NEW t \in Text, t \notin NotUtf8
      PROVE  /\ MessageOf(t) \in Message /\ MessageOf(t).text = t
             /\ ParsedFrom(x, Wire(MessageOf(t))).m = MessageOf(t)
  <2>1. MessageOf(t) \in Message /\ MessageOf(t).text = t
    <3>1. MessageOf(t) = [text |-> t, unknown |-> << >>]
      BY DEF MessageOf, NewMessage
    <3>. QED  BY <3>1 DEF Message
  <2>2. ParsedFrom(x, Wire(MessageOf(t))) = State(MessageOf(t))
    BY <1>2, <2>1, ReadBack
  <2>. QED  BY <2>1, <2>2 DEF State
<1>. QED  BY <1>1, <1>2

LEMMA OutstandingIs ==
  ASSUME Types, NEW c \in Client
  PROVE  /\ IsFiniteSet(Outstanding(c)) /\ Cardinality(Outstanding(c)) \in Nat
         /\ \A X : X \subseteq Outstanding(c) =>
              /\ IsFiniteSet(X) /\ Cardinality(X) \in Nat
              /\ Cardinality(X) <= Cardinality(Outstanding(c))
<1>1. attempt[c] \in Int
  BY DEF Types, Attempts
<1>2. IsFiniteSet(1..attempt[c]) /\ Outstanding(c) \in SUBSET (1..attempt[c])
  BY <1>1, FS_Interval DEF Outstanding
<1>3. IsFiniteSet(Outstanding(c))
  BY <1>2, FS_Subset
<1>. QED  BY <1>3, FS_Subset, FS_CardinalityType

\* The count of a client that has no more outstanding than before.
LEMMA CountStays ==
  ASSUME Types, NEW c \in Client, Count(c),
         Outstanding(c)' \subseteq Outstanding(c),
         attempt'[c] = attempt[c], handled'[c] = handled[c],
         call'[c] = "connect" => call[c] = "connect"
  PROVE  Count(c)'
<1>1. attempt[c] \in Int /\ handled[c] \in Int
  BY EchoAssumption DEF Types, Attempts
<1>2. /\ Cardinality(Outstanding(c)') \in Nat /\ Cardinality(Outstanding(c)) \in Nat
      /\ Cardinality(Outstanding(c)') <= Cardinality(Outstanding(c))
  BY OutstandingIs
<1>. QED  BY <1>1, <1>2 DEF Count

LEMMA PhaseStays ==
  ASSUME NEW c, Phase(c), handled'[c] >= handled[c], handled[c] \in Int, handled'[c] \in Int,
         main'[c] = main[c], call'[c] = call[c], attempt'[c] = attempt[c],
         failed'[c] = failed[c], response'[c] = response[c], lines'[c] = lines[c]
  PROVE  Phase(c)'
BY DEF Phase, Answer, Outcome

LEMMA MessageStays ==
  ASSUME Types, Types', NEW m, GoodMessage(m),
         \A c \in Client : attempt'[c] >= attempt[c] /\ handled'[c] >= handled[c]
  PROVE  GoodMessage(m)'
<1>1. \A c \in Client : /\ attempt[c] \in Int /\ attempt'[c] \in Int
                        /\ handled[c] \in Int /\ handled'[c] \in Int
  BY EchoAssumption DEF Types, Attempts
<1>. QED  BY <1>1 DEF GoodMessage

LEMMA HandlerStays ==
  ASSUME Types, Types', NEW h, GoodHandler(h), \A c \in Client : attempt'[c] >= attempt[c]
  PROVE  GoodHandler(h)'
<1>1. \A c \in Client : attempt[c] \in Int /\ attempt'[c] \in Int
  BY EchoAssumption DEF Types, Attempts
<1>. QED  BY <1>1 DEF GoodHandler

LEMMA CallsInit == Init => CallsInv
<1>. SUFFICES ASSUME Init PROVE CallsInv
  OBVIOUS
<1>1. Types
  BY EchoAssumption DEF Init, Types, Attempts
<1>2. ASSUME NEW c \in Client PROVE Phase(c) /\ Count(c)
  <2>1. Outstanding(c) = {}
    BY <1>2 DEF Init, Outstanding
  <2>2. Cardinality(Outstanding(c)) = 0
    BY <2>1, FS_EmptySet
  <2>. QED  BY <1>2, <2>2 DEF Init, Phase, Count
<1>3. wire = {} /\ handlers = {}
  BY DEF Init
<1>. QED  BY <1>1, <1>2, <1>3 DEF CallsInv, Apart

\* What a step leaves to be shown, when it touches no client but c.
LEMMA StepOfOne ==
  ASSUME CallsInv, NEW c \in Client, Types',
         \A d \in Client \ {c} :
           /\ main'[d] = main[d] /\ call'[d] = call[d] /\ attempt'[d] = attempt[d]
           /\ failed'[d] = failed[d] /\ response'[d] = response[d] /\ lines'[d] = lines[d]
           /\ handled'[d] = handled[d] /\ Outstanding(d)' \subseteq Outstanding(d),
         attempt'[c] >= attempt[c], handled'[c] >= handled[c],
         Phase(c)', Count(c)',
         \A m \in wire' : m \in wire \/ GoodMessage(m)',
         \A h \in handlers' : h \in handlers \/ GoodHandler(h)',
         Apart'
  PROVE  CallsInv'
<1>1. Types /\ \A d \in Client : Phase(d) /\ Count(d)
  BY DEF CallsInv
<1>2. \A d \in Client : /\ handled[d] \in Int /\ handled'[d] \in Int
                        /\ attempt[d] \in Int /\ attempt'[d] \in Int
  BY <1>1, EchoAssumption DEF Types, Attempts
<1>3. \A d \in Client : attempt'[d] >= attempt[d] /\ handled'[d] >= handled[d]
  BY <1>2
<1>4. \A d \in Client : Phase(d)' /\ Count(d)'
  <2>. SUFFICES ASSUME NEW d \in Client \ {c} PROVE Phase(d)' /\ Count(d)'
    OBVIOUS
  <2>1. Phase(d)'
    BY <1>1, <1>2, <1>3, PhaseStays
  <2>2. Count(d)'
    BY <1>1, CountStays
  <2>. QED  BY <2>1, <2>2
<1>5. \A m \in wire' : GoodMessage(m)'
  BY <1>1, <1>3, MessageStays DEF CallsInv
<1>6. \A h \in handlers' : GoodHandler(h)'
  BY <1>1, <1>3, HandlerStays DEF CallsInv
<1>. QED  BY <1>4, <1>5, <1>6 DEF CallsInv

\* When the requests under way and the handlers are no more than before.
LEMMA LessOutstanding ==
  ASSUME NEW d, attempt'[d] = attempt[d],
         \A m \in wire' : m.to = "server" => m \in wire,
         \A h \in handlers' : h \in handlers
  PROVE  Outstanding(d)' \subseteq Outstanding(d)
BY DEF Outstanding

LEMMA ApartStays ==
  ASSUME Apart, \A m \in wire' : m.to = "server" => m \in wire,
         \A h \in handlers' : h \in handlers
  PROVE  Apart'
BY DEF Apart

LEMMA EndInv ==
  ASSUME CallsInv, NEW c \in Client, InitFails(c) \/ Sleep(c)
  PROVE  CallsInv'
<1>1. /\ main[c] \in {"start", "sleeping"} /\ main' = [main EXCEPT ![c] = "exited"]
      /\ UNCHANGED <<call, attempt, failed, response, lines, server, runs, handlers, handled, wire>>
  BY DEF InitFails, Sleep, serverVars
<1>2. Types /\ Phase(c) /\ Count(c) /\ Apart
  BY DEF CallsInv
<1>3. Types'
  BY <1>1, <1>2 DEF Types
<1>4. \A d \in Client : Outstanding(d)' \subseteq Outstanding(d)
  BY <1>1, LessOutstanding
<1>5. main'[c] = "exited"
  BY <1>1, <1>2 DEF Types
<1>6. Phase(c)'
  BY <1>1, <1>2, <1>5 DEF Phase, Answer, Outcome
<1>7. Count(c)'
  BY <1>1, <1>2, <1>4, CountStays
<1>8. Apart'
  BY <1>1, <1>2, ApartStays
<1>9. attempt'[c] >= attempt[c] /\ handled'[c] >= handled[c]
  BY <1>1, <1>2, EchoAssumption DEF Types, Attempts
<1>10. \A d \in Client \ {c} : main'[d] = main[d]
  BY <1>1, <1>2 DEF Types
<1>. QED  BY <1>1, <1>3, <1>4, <1>6, <1>7, <1>8, <1>9, <1>10, StepOfOne

LEMMA Counters ==
  ASSUME Types, NEW c \in Client
  PROVE  /\ attempt[c] \in Nat /\ attempt[c] <= Attempts /\ handled[c] \in Nat
         /\ attempt[c] >= attempt[c] /\ handled[c] >= handled[c]
BY EchoAssumption DEF Types, Attempts

LEMMA CallEchoInv ==
  ASSUME CallsInv, NEW c \in Client, CallEcho(c)
  PROVE  CallsInv'
<1>1. /\ main[c] = "start" /\ main' = [main EXCEPT ![c] = "sleeping"]
      /\ call' = [call EXCEPT ![c] = "connect"] /\ attempt' = [attempt EXCEPT ![c] = 1]
      /\ response' = [response EXCEPT ![c] = NewMessage]
      /\ UNCHANGED <<failed, lines, server, runs, handlers, handled, wire>>
  BY DEF CallEcho, serverVars
<1>2. Types /\ Phase(c) /\ Count(c) /\ Apart
  BY DEF CallsInv
<1>3. Types'
  BY <1>1, <1>2, NewIsMessage, EchoAssumption DEF Types, Attempts
<1>4. call[c] = "none" /\ attempt[c] = 0 /\ lines[c] = << >>
  BY <1>1, <1>2 DEF Phase
<1>5. /\ main'[c] = "sleeping" /\ call'[c] = "connect" /\ attempt'[c] = 1
      /\ response'[c] = NewMessage
      /\ \A d \in Client \ {c} : /\ main'[d] = main[d] /\ call'[d] = call[d]
                                 /\ attempt'[d] = attempt[d] /\ response'[d] = response[d]
  BY <1>1, <1>2 DEF Types
<1>6. \A d \in Client \ {c} : Outstanding(d)' \subseteq Outstanding(d)
  BY <1>1, <1>5, LessOutstanding
<1>7. ~failed[c]
  BY <1>2, <1>4 DEF Phase
<1>8. Phase(c)'
  BY <1>1, <1>2, <1>4, <1>5, <1>7 DEF Phase
<1>9. Count(c)'
  <2>1. \A m \in wire : m.client # c
    BY <1>4 DEF CallsInv, GoodMessage
  <2>2. \A h \in handlers : h.client # c
    BY <1>4 DEF CallsInv, GoodHandler
  <2>3. Outstanding(c) = {} /\ Outstanding(c)' = {}
    BY <1>1, <2>1, <2>2 DEF Outstanding
  <2>4. Cardinality(Outstanding(c)) = 0 /\ Cardinality(Outstanding(c)') = 0
    BY <2>3, FS_EmptySet
  <2>5. handled[c] = 0
    BY <1>2, <1>4, <2>4, Counters DEF Count
  <2>. QED  BY <1>1, <1>5, <2>3, <2>4, <2>5 DEF Count
<1>10. Apart'
  BY <1>1, <1>2, ApartStays
<1>11. attempt'[c] >= attempt[c] /\ handled'[c] >= handled[c]
  BY <1>1, <1>2, <1>4, <1>5, Counters
<1>. QED  BY <1>1, <1>3, <1>5, <1>6, <1>8, <1>9, <1>10, <1>11, StepOfOne

LEMMA ConnectInv ==
  ASSUME CallsInv, NEW c \in Client, Connect(c)
  PROVE  CallsInv'
<1>1. /\ main[c] = "sleeping" /\ call[c] = "connect"
      /\ call' = [call EXCEPT ![c] = "sent"] /\ wire' = wire \cup {Request(c)}
      /\ UNCHANGED <<main, attempt, failed, response, lines, server, runs, handlers, handled>>
  BY DEF Connect, serverVars
<1>2. Types /\ Phase(c) /\ Count(c) /\ Apart
  BY DEF CallsInv
<1>3. Types'
  BY <1>1, <1>2 DEF Types
<1>4. call'[c] = "sent" /\ \A d \in Client \ {c} : call'[d] = call[d]
  BY <1>1, <1>2 DEF Types
<1>5. /\ Request(c).to = "server" /\ Request(c).client = c /\ Request(c).n = attempt[c]
      /\ Request(c) = [to |-> "server", client |-> c, n |-> attempt[c],
                       fields |-> Wire(MessageOf(Hello[c]))]
  BY DEF Request, MessageOf
<1>6. \A d \in Client \ {c} : Outstanding(d)' \subseteq Outstanding(d)
  BY <1>1, <1>5 DEF Outstanding
<1>7. Phase(c)'
  BY <1>1, <1>2, <1>4 DEF Phase, Answer, Outcome
<1>8. Cardinality(Outstanding(c)) + handled[c] < attempt[c] /\ attempt[c] \notin Outstanding(c)
  BY <1>1, <1>2 DEF Count
<1>9. Count(c)'
  <2>1. Outstanding(c)' \subseteq Outstanding(c) \cup {attempt[c]}
    BY <1>1, <1>5 DEF Outstanding
  <2>. DEFINE X == Outstanding(c) \cup {attempt[c]}
              Y == Outstanding(c)'
              Z == Outstanding(c)
  <2>2. /\ IsFiniteSet(X) /\ Cardinality(X) = Cardinality(Z) + 1
        /\ Cardinality(Z) \in Nat /\ X = Z \cup {attempt[c]}
    BY <1>2, <1>8, OutstandingIs, FS_AddElement
  <2>. HIDE DEF X, Y, Z
  <2>3. Y \subseteq X
    BY <2>1 DEF X, Y
  <2>4. Cardinality(Y) <= Cardinality(X) /\ Cardinality(Y) \in Nat
    BY <2>2, <2>3, FS_Subset, FS_CardinalityType
  <2>5. Cardinality(Y) + handled[c] <= attempt[c]
    BY <1>2, <1>8, <2>2, <2>4, Counters DEF Z
  <2>. QED  BY <1>1, <1>4, <2>5 DEF Count, Y
<1>10. \A m \in wire' : m \in wire \/ GoodMessage(m)'
  <2>1. attempt[c] \in 1..attempt[c]
    <3>1. Cardinality(Outstanding(c)) \in Nat
      BY <1>2, OutstandingIs
    <3>. QED  BY <1>2, <1>8, <3>1, Counters
  <2>2. ASSUME NEW m, m = Request(c) PROVE GoodMessage(m)'
    <3>1. /\ m.to = "server" /\ m.client = c /\ m.n = attempt'[c]
          /\ m.fields = Wire(MessageOf(Hello[m.client]))
          /\ m = [to |-> m.to, client |-> m.client, n |-> m.n, fields |-> m.fields]
      BY <1>1, <1>5, <2>2
    <3>. QED  BY <1>1, <2>1, <3>1 DEF GoodMessage
  <2>. QED  BY <1>1, <2>2
<1>11. Apart'
  <2>1. \A h \in handlers : h.client # c \/ h.n # attempt[c]
    <3>1. ASSUME NEW h \in handlers, h.client = c, h.n = attempt[c] PROVE FALSE
      <4>1. h.n \in 1..attempt[c]
        BY <3>1 DEF CallsInv, GoodHandler
      <4>. QED  BY <1>8, <3>1, <4>1 DEF Outstanding
    <3>. QED  BY <3>1
  <2>. QED  BY <1>1, <1>2, <1>5, <2>1 DEF Apart
<1>12. attempt'[c] >= attempt[c] /\ handled'[c] >= handled[c]
  BY <1>1, <1>2, Counters
<1>. QED  BY <1>1, <1>3, <1>4, <1>6, <1>7, <1>9, <1>10, <1>11, <1>12, StepOfOne

LEMMA AttemptLostInv ==
  ASSUME CallsInv, NEW c \in Client, AttemptLost(c)
  PROVE  CallsInv'
<1>1. /\ main[c] = "sleeping" /\ call[c] \in {"connect", "sent"}
      /\ wire' \subseteq wire
      /\ UNCHANGED <<main, response, lines, server, runs, handlers, handled>>
  BY DEF AttemptLost, serverVars
<1>2. Types /\ Phase(c) /\ Count(c) /\ Apart
  BY DEF CallsInv
<1>3. Apart'
  BY <1>1, <1>2, ApartStays
<1>4. CASE /\ attempt[c] < Attempts /\ attempt' = [attempt EXCEPT ![c] = @ + 1]
           /\ call' = [call EXCEPT ![c] = "connect"] /\ UNCHANGED failed
  <2>1. Types'
    BY <1>1, <1>2, <1>4, EchoAssumption DEF Types, Attempts
  <2>2. /\ call'[c] = "connect" /\ attempt'[c] = attempt[c] + 1
        /\ \A d \in Client \ {c} : call'[d] = call[d] /\ attempt'[d] = attempt[d]
    BY <1>2, <1>4 DEF Types
  <2>3. \A d \in Client \ {c} : Outstanding(d)' \subseteq Outstanding(d)
    BY <1>1, <2>2, LessOutstanding
  <2>4. Phase(c)'
    BY <1>1, <1>2, <1>4, <2>2 DEF Phase, Answer, Outcome
  <2>5. Outstanding(c)' \subseteq Outstanding(c)
    <3>1. \A m \in wire : m.client = c => m.n \in 1..attempt[c]
      BY DEF CallsInv, GoodMessage
    <3>2. \A h \in handlers : h.client = c => h.n \in 1..attempt[c]
      BY DEF CallsInv, GoodHandler
    <3>. QED  BY <1>1, <3>1, <3>2 DEF Outstanding
  <2>6. Count(c)'
    <3>1. /\ Cardinality(Outstanding(c)') <= Cardinality(Outstanding(c))
          /\ Cardinality(Outstanding(c)') \in Nat /\ Cardinality(Outstanding(c)) \in Nat
      BY <1>2, <2>5, OutstandingIs
    <3>2. attempt[c] + 1 \notin Outstanding(c)
      BY <1>2, Counters DEF Outstanding
    <3>. QED  BY <1>1, <1>2, <2>2, <2>5, <3>1, <3>2, Counters DEF Count
  <2>7. attempt'[c] >= attempt[c] /\ handled'[c] >= handled[c]
    BY <1>1, <1>2, <2>2, Counters
  <2>. QED  BY <1>1, <1>3, <1>4, <2>1, <2>2, <2>3, <2>4, <2>6, <2>7, StepOfOne
<1>5. CASE /\ attempt[c] >= Attempts /\ call' = [call EXCEPT ![c] = "ended"]
           /\ failed' = [failed EXCEPT ![c] = TRUE] /\ UNCHANGED attempt
  <2>1. Types'
    BY <1>1, <1>2, <1>5 DEF Types
  <2>2. /\ call'[c] = "ended" /\ failed'[c]
        /\ \A d \in Client \ {c} : call'[d] = call[d] /\ failed'[d] = failed[d]
    BY <1>2, <1>5 DEF Types
  <2>3. \A d \in Client : Outstanding(d)' \subseteq Outstanding(d)
    BY <1>1, <1>5, LessOutstanding
  <2>4. attempt[c] = Attempts
    BY <1>2, <1>5, Counters, EchoAssumption DEF Attempts
  <2>5. Phase(c)'
    <3>1. Attempts' = Attempts
      BY DEF Attempts
    <3>. QED  BY <1>1, <1>2, <1>5, <2>2, <2>4, <3>1 DEF Phase, Answer, Outcome
  <2>6. Count(c)'
    BY <1>1, <1>2, <1>5, <2>2, <2>3, CountStays
  <2>7. attempt'[c] >= attempt[c] /\ handled'[c] >= handled[c]
    BY <1>1, <1>2, <1>5, Counters
  <2>. QED  BY <1>1, <1>3, <1>5, <2>1, <2>2, <2>3, <2>5, <2>6, <2>7, StepOfOne
<1>. QED  BY <1>4, <1>5 DEF AttemptLost

LEMMA RepliedInv ==
  ASSUME CallsInv, NEW c \in Client, Replied(c)
  PROVE  CallsInv'
<1>1. PICK m \in Under(c) :
         /\ m.to = "client" /\ wire' = wire \ {m}
         /\ response' =
              [response EXCEPT ![c] = IF @ = Gone THEN Gone ELSE ParsedFrom(@, m.fields).m]
  BY DEF Replied
<1>2. /\ main[c] = "sleeping" /\ call[c] = "sent" /\ call' = [call EXCEPT ![c] = "ended"]
      /\ UNCHANGED <<main, attempt, failed, lines, server, runs, handlers, handled>>
  BY DEF Replied, serverVars
<1>3. Types /\ Phase(c) /\ Count(c) /\ Apart
  BY DEF CallsInv
<1>4. m \in wire /\ m.client = c
  BY DEF Under
<1>5. m.fields = Wire(MessageOf(Reply[Hello[c]])) /\ handled[c] > 0
  BY <1>1, <1>4 DEF CallsInv, GoodMessage
<1>6. response[c] = NewMessage /\ response[c] # Gone /\ ~failed[c] /\ lines[c] = << >>
  BY <1>2, <1>3, NewIsMessage, EchoAssumption DEF Phase
<1>7. /\ call'[c] = "ended" /\ response'[c] = MessageOf(Reply[Hello[c]])
      /\ \A d \in Client \ {c} : call'[d] = call[d] /\ response'[d] = response[d]
  BY <1>1, <1>2, <1>3, <1>5, <1>6, TextsAreRead DEF Types
<1>8. Types'
  <2>1. response' = [response EXCEPT ![c] = response'[c]]
    BY <1>1, <1>3 DEF Types
  <2>2. response'[c] \in Message
    BY <1>7, TextsAreRead
  <2>3. response' \in [Client -> Message \cup {Gone}]
    BY <1>3, <2>1, <2>2 DEF Types
  <2>. QED  BY <1>2, <1>3, <2>3 DEF Types
<1>9. \A d \in Client : Outstanding(d)' \subseteq Outstanding(d)
  BY <1>1, <1>2, LessOutstanding
<1>10. Phase(c)'
  BY <1>2, <1>5, <1>6, <1>7 DEF Phase, Answer, Outcome
<1>11. Count(c)'
  BY <1>2, <1>3, <1>7, <1>9, CountStays
<1>12. Apart'
  BY <1>1, <1>2, <1>3, ApartStays
<1>13. attempt'[c] >= attempt[c] /\ handled'[c] >= handled[c]
  BY <1>2, <1>3, Counters
<1>. QED  BY <1>1, <1>2, <1>7, <1>8, <1>9, <1>10, <1>11, <1>12, <1>13, StepOfOne

LEMMA CallbackInv ==
  ASSUME CallsInv, NEW c \in Client, Callback(c)
  PROVE  CallsInv'
<1>1. /\ main[c] = "sleeping" /\ call[c] = "ended" /\ call' = [call EXCEPT ![c] = "over"]
      /\ lines' =
           [lines EXCEPT ![c] = Append(@, IF response[c] = Gone THEN Gone ELSE response[c].text)]
      /\ response' = [response EXCEPT ![c] = Gone]
      /\ UNCHANGED <<main, attempt, failed, server, runs, handlers, handled, wire>>
  BY DEF Callback, serverVars
<1>2. Types /\ Phase(c) /\ Count(c) /\ Apart
  BY DEF CallsInv
<1>3. response[c] = Answer(c) /\ Outcome(c) /\ lines[c] = << >>
  BY <1>1, <1>2 DEF Phase
<1>4. Answer(c) \in Message
  BY NewIsMessage, TextsAreRead DEF Answer
<1>5. response[c] # Gone /\ response[c].text \in Text \cup {Empty}
  BY <1>3, <1>4, EchoAssumption DEF Message
<1>6. /\ call'[c] = "over" /\ response'[c] = Gone /\ lines'[c] = << Answer(c).text >>
      /\ \A d \in Client \ {c} :
           call'[d] = call[d] /\ response'[d] = response[d] /\ lines'[d] = lines[d]
  BY <1>1, <1>2, <1>3, <1>5 DEF Types
<1>7. Types'
  <2>1. Append(lines[c], IF response[c] = Gone THEN Gone ELSE response[c].text)
          \in Seq(Text \cup {Empty})
    BY <1>2, <1>5 DEF Types
  <2>2. lines' \in [Client -> Seq(Text \cup {Empty})]
    BY <1>1, <1>2, <2>1 DEF Types
  <2>. QED  BY <1>1, <1>2, <2>2 DEF Types
<1>8. \A d \in Client : Outstanding(d)' \subseteq Outstanding(d)
  BY <1>1, LessOutstanding
<1>9. Phase(c)'
  <2>1. Answer(c)' = Answer(c) /\ Outcome(c)' = Outcome(c)
    BY <1>1 DEF Answer, Outcome
  <2>. QED  BY <1>1, <1>3, <1>6, <2>1 DEF Phase
<1>10. Count(c)'
  BY <1>1, <1>2, <1>6, <1>8, CountStays
<1>11. Apart'
  BY <1>1, <1>2, ApartStays
<1>12. attempt'[c] >= attempt[c] /\ handled'[c] >= handled[c]
  BY <1>1, <1>2, Counters
<1>. QED  BY <1>1, <1>6, <1>7, <1>8, <1>9, <1>10, <1>11, <1>12, StepOfOne

\* The server starts, quits or dies, or reads a request.
LEMMA ServerInv ==
  ASSUME CallsInv, UNCHANGED <<clientVars, handled>>,
         \A d \in Client : Outstanding(d)' \subseteq Outstanding(d),
         wire' \subseteq wire,
         \A h \in handlers' : h \in handlers \/ GoodHandler(h)',
         Apart'
  PROVE  CallsInv'
<1>1. /\ UNCHANGED <<main, call, attempt, failed, response, lines, handled>>
      /\ Types /\ \A d \in Client : Phase(d) /\ Count(d)
  BY DEF CallsInv, clientVars
<1>2. Types'
  BY <1>1 DEF Types
<1>3. \A d \in Client : attempt'[d] >= attempt[d] /\ handled'[d] >= handled[d]
  BY <1>1, Counters
<1>4. ASSUME NEW d \in Client PROVE Phase(d)' /\ Count(d)'
  BY <1>1, CountStays DEF Phase, Answer, Outcome
<1>5. \A m \in wire' : GoodMessage(m)'
  BY <1>1, <1>2, <1>3, MessageStays DEF CallsInv
<1>6. \A h \in handlers' : GoodHandler(h)'
  BY <1>1, <1>2, <1>3, HandlerStays DEF CallsInv
<1>. QED  BY <1>2, <1>4, <1>5, <1>6 DEF CallsInv

LEMMA StopInv ==
  ASSUME CallsInv, Start \/ Quit \/ Crash
  PROVE  CallsInv'
<1>1. /\ UNCHANGED <<clientVars, handled>> /\ wire' \subseteq wire /\ handlers' \subseteq handlers
      /\ attempt' = attempt
  BY DEF Start, Quit, Crash, clientVars
<1>2. \A d \in Client : Outstanding(d)' \subseteq Outstanding(d)
  BY <1>1, LessOutstanding
<1>3. Apart'
  BY <1>1, ApartStays DEF CallsInv
<1>. QED  BY <1>1, <1>2, <1>3, ServerInv

LEMMA ReceiveInv ==
  ASSUME CallsInv, NEW m, Receive(m)
  PROVE  CallsInv'
<1>. DEFINE g == [client |-> m.client, n |-> m.n, req |-> ParsedFrom(NewMessage, m.fields).m]
<1>1. /\ m \in wire /\ m.to = "server" /\ wire' = wire \ {m} /\ handlers' = handlers \cup {g}
      /\ UNCHANGED <<clientVars, handled>> /\ attempt' = attempt
  BY DEF Receive, clientVars
<1>2. GoodMessage(m) /\ Types /\ Apart
  BY <1>1 DEF CallsInv
<1>3. m.client \in Client /\ m.fields = Wire(MessageOf(Hello[m.client]))
  BY <1>1, <1>2 DEF GoodMessage
<1>4. g = [client |-> m.client, n |-> m.n, req |-> MessageOf(Hello[m.client])]
  BY <1>3, TextsAreRead
<1>5. /\ g.client = m.client /\ g.n = m.n
      /\ g = [client |-> g.client, n |-> g.n, req |-> MessageOf(Hello[g.client])]
  BY <1>4
<1>. HIDE DEF g
<1>6. ASSUME NEW h, h = g PROVE GoodHandler(h)'
  BY <1>1, <1>2, <1>5, <1>6 DEF GoodHandler, GoodMessage
<1>7. \A d \in Client : Outstanding(d)' \subseteq Outstanding(d)
  BY <1>1, <1>5 DEF Outstanding
<1>8. Apart'
  <2>1. ASSUME NEW k \in wire, k.to = "server", k.client = m.client, k.n = m.n PROVE k = m
    BY <1>1, <1>2, <2>1 DEF CallsInv, GoodMessage
  <2>. QED  BY <1>1, <1>2, <1>5, <2>1 DEF Apart
<1>. QED  BY <1>1, <1>6, <1>7, <1>8, ServerInv

LEMMA EchoInv ==
  ASSUME CallsInv, NEW h \in handlers, Echo(h)
  PROVE  CallsInv'
<1>. DEFINE c == h.client
            resp == [NewMessage EXCEPT !.text = Reply[h.req.text]]
            rep == [to |-> "client", client |-> c, n |-> h.n, fields |-> Wire(resp)]
<1>1. /\ handled' = [handled EXCEPT ![c] = @ + 1] /\ handlers' = handlers \ {h}
      /\ wire' = wire \/ wire' = wire \cup {rep}
      /\ UNCHANGED <<main, call, attempt, failed, response, lines>>
  BY DEF Echo, clientVars
<1>2. GoodHandler(h) /\ Types /\ Apart
  BY DEF CallsInv
<1>3. /\ c \in Client /\ h.n \in 1..attempt[c]
      /\ h = [client |-> c, n |-> h.n, req |-> MessageOf(Hello[c])]
  BY <1>2 DEF GoodHandler
<1>4. Phase(c) /\ Count(c)
  BY <1>3 DEF CallsInv
<1>5. rep.fields = Wire(MessageOf(Reply[Hello[c]]))
  <2>1. h.req = MessageOf(Hello[c])
    BY <1>3
  <2>. QED  BY <1>3, <2>1, TextsAreRead DEF MessageOf
<1>6. rep.to = "client" /\ rep.client = c /\ rep.n = h.n
      /\ rep = [to |-> rep.to, client |-> rep.client, n |-> rep.n, fields |-> rep.fields]
  OBVIOUS
<1>. HIDE DEF resp, rep
<1>7. Types'
  BY <1>1, <1>2, <1>3 DEF Types
<1>8. handled'[c] = handled[c] + 1 /\ \A d \in Client \ {c} : handled'[d] = handled[d]
  BY <1>1, <1>2, <1>3 DEF Types
<1>9. \A d \in Client : Outstanding(d)' \subseteq Outstanding(d)
  BY <1>1, <1>6, LessOutstanding
<1>10. Phase(c)'
  BY <1>1, <1>2, <1>3, <1>4, <1>7, <1>8, Counters, PhaseStays
<1>11. Count(c)'
  <2>1. h.n \in Outstanding(c)
    BY <1>3 DEF Outstanding
  <2>2. h.n \notin Outstanding(c)'
    <3>1. \A g \in handlers : g.client = c /\ g.n = h.n => g = h
      BY <1>3 DEF CallsInv, GoodHandler
    <3>2. \A m \in wire' : m.to = "server" => m.client # c \/ m.n # h.n
      BY <1>1, <1>2, <1>6 DEF Apart
    <3>. QED  BY <1>1, <3>1, <3>2 DEF Outstanding
  <2>. DEFINE Z == Outstanding(c)
              X == Outstanding(c) \ {h.n}
              Y == Outstanding(c)'
  <2>3. Y \subseteq X
    BY <1>3, <1>9, <2>2
  <2>4. X = Z \ {h.n} /\ h.n \in Z /\ IsFiniteSet(Z) /\ Cardinality(Z) \in Nat
    BY <1>2, <1>3, <2>1, OutstandingIs
  <2>5. Cardinality(Z) + handled[c] <= attempt[c]
    BY <1>4 DEF Count
  <2>6. call[c] = "connect" => /\ attempt[c] \notin Z
                               /\ Cardinality(Z) + handled[c] < attempt[c]
    BY <1>4 DEF Count
  <2>7. Y \subseteq Z
    BY <1>3, <1>9
  <2>. HIDE DEF X, Y, Z
  <2>8. IsFiniteSet(X) /\ Cardinality(X) = Cardinality(Z) - 1
    BY <2>4, FS_RemoveElement
  <2>9. Cardinality(Y) <= Cardinality(X) /\ Cardinality(Y) \in Nat
    BY <2>3, <2>8, FS_Subset, FS_CardinalityType
  <2>10. Cardinality(Y) + handled'[c] <= Cardinality(Z) + handled[c]
    BY <1>2, <1>3, <1>8, <2>4, <2>8, <2>9, Counters
  <2>11. /\ Cardinality(Y) + handled'[c] <= attempt[c]
         /\ call[c] = "connect" => Cardinality(Y) + handled'[c] < attempt[c]
    <3>1. attempt[c] \in Nat /\ handled[c] \in Nat /\ handled'[c] \in Nat
      BY <1>2, <1>3, <1>8, Counters
    <3>2. \A y, z, k, l, n \in Nat : y + l <= z + k =>
            (z + k <= n => y + l <= n) /\ (z + k < n => y + l < n)
      OBVIOUS
    <3>. HIDE DEF c
    <3>. QED  BY <2>4, <2>5, <2>6, <2>9, <2>10, <3>1, <3>2
  <2>. QED  BY <1>1, <2>6, <2>7, <2>11 DEF Count, Y
<1>12. \A m \in wire' : m \in wire \/ GoodMessage(m)'
  <2>1. handled'[c] > 0
    BY <1>2, <1>3, <1>8, Counters
  <2>2. ASSUME NEW m, m = rep PROVE GoodMessage(m)'
    BY <1>1, <1>3, <1>5, <1>6, <2>1, <2>2 DEF GoodMessage
  <2>. QED  BY <1>1, <2>2
<1>13. Apart'
  BY <1>1, <1>2, <1>6, ApartStays
<1>14. attempt'[c] >= attempt[c] /\ handled'[c] >= handled[c]
  BY <1>1, <1>2, <1>3, <1>8, Counters
<1>. HIDE DEF c
<1>. QED  BY <1>1, <1>3, <1>7, <1>8, <1>9, <1>10, <1>11, <1>12, <1>13, <1>14, StepOfOne

LEMMA CallsNext == CallsInv /\ [Next]_vars => CallsInv'
<1>. SUFFICES ASSUME CallsInv, [Next]_vars PROVE CallsInv'
  OBVIOUS
<1>1. CASE UNCHANGED vars
  <2>1. UNCHANGED <<clientVars, handled, wire, handlers, attempt>>
    BY <1>1 DEF vars, serverVars, clientVars
  <2>2. \A d \in Client : Outstanding(d)' \subseteq Outstanding(d)
    BY <2>1, LessOutstanding
  <2>3. Apart'
    BY <2>1, ApartStays DEF CallsInv
  <2>. QED  BY <2>1, <2>2, <2>3, ServerInv
<1>2. ASSUME NEW c \in Client, ClientStep(c) PROVE CallsInv'
  BY <1>2, CallEchoInv, EndInv, ConnectInv, AttemptLostInv, RepliedInv, CallbackInv DEF ClientStep
<1>. QED  BY <1>1, <1>2, ReceiveInv, EchoInv, StopInv DEF Next

LEMMA CallsInductive == Spec => []CallsInv
BY CallsInit, CallsNext, PTL DEF Spec

\* The controller and the response are there as long as brpc has the call, and
\* are deleted by the callback, for any number of clients, retries and runs of
\* the server.
THEOREM ResponsesAreThere == Spec => []ResponseIsThere
<1>1. ASSUME CallsInv PROVE ResponseIsThere
  <2>. SUFFICES ASSUME NEW c \in Client, main[c] = "sleeping"
                PROVE  response[c] # Gone <=> call[c] \in {"connect", "sent", "ended"}
    BY DEF ResponseIsThere
  <2>1. Phase(c) /\ call[c] \in {"none", "connect", "sent", "ended", "over"}
    BY <1>1 DEF CallsInv, Types
  <2>2. NewMessage # Gone /\ Answer(c) # Gone
    BY NewIsMessage, TextsAreRead, EchoAssumption DEF Answer
  <2>. QED  BY <2>1, <2>2 DEF Phase
<1>. QED  BY <1>1, CallsInductive, PTL

\* The line of a call that succeeded is the reply to its own text, the line of
\* one that failed is empty, and the server handles no call more often than it
\* was sent.
THEOREM LinesTellTheCalls == Spec => []LineTellsTheCall
<1>1. ASSUME CallsInv PROVE LineTellsTheCall
  <2>. SUFFICES ASSUME NEW c \in Client
                PROVE  /\ handled[c] <= attempt[c]
                       /\ lines[c] \in {<< >>, << Empty >>, << Reply[Hello[c]] >>}
                       /\ lines[c] = << Reply[Hello[c]] >> => ~failed[c] /\ handled[c] > 0
                       /\ lines[c] = << Empty >> => failed[c] /\ attempt[c] = 1 + MaxRetry
    BY DEF LineTellsTheCall
  <2>1. Phase(c) /\ Count(c) /\ Types
    BY <1>1 DEF CallsInv
  <2>2. handled[c] <= attempt[c]
    BY <2>1, OutstandingIs, Counters DEF Count
  <2>3. CASE call[c] # "over"
    <3>1. lines[c] = << >>
      BY <2>1, <2>3 DEF Phase
    <3>. QED  BY <2>2, <3>1
  <2>4. CASE call[c] = "over"
    <3>1. lines[c] = << Answer(c).text >> /\ Outcome(c)
      BY <2>1, <2>4 DEF Phase
    <3>2. Reply[Hello[c]] # Empty
      BY TextsAreRead, ProtoAssumption
    <3>3. CASE failed[c]
      <4>1. lines[c] = << Empty >>
        BY <3>1, <3>3 DEF Answer, NewMessage
      <4>. QED  BY <2>2, <3>1, <3>2, <3>3, <4>1 DEF Outcome, Attempts
    <3>4. CASE ~failed[c]
      <4>1. lines[c] = << Reply[Hello[c]] >>
        BY <3>1, <3>4, TextsAreRead DEF Answer
      <4>. QED  BY <2>2, <3>1, <3>2, <3>4, <4>1 DEF Outcome
    <3>. QED  BY <3>3, <3>4
  <2>. QED  BY <2>3, <2>4
<1>. QED  BY <1>1, CallsInductive, PTL
=============================================================================
