----------------------- MODULE ServiceChannelOpsProofs -----------------------
(***************************************************************************)
(* What the critical sections of a ServiceChannel do to the object, proved *)
(* once for every machine that uses the operators.                         *)
(***************************************************************************)
EXTENDS ServiceChannelOps, SequenceTheorems, TLAPS

-----------------------------------------------------------------------------
(* Sequences without repetitions *)

\* Appending an element adds it to the range.
LEMMA AppendRange ==
  ASSUME NEW S, NEW s \in Seq(S), NEW e \in S
  PROVE  Range(Append(s, e)) = Range(s) \cup {e}
<1>1. /\ DOMAIN Append(s, e) = 1 .. Len(s) + 1
      /\ \A i \in 1 .. Len(s) : Append(s, e)[i] = s[i]
      /\ Append(s, e)[Len(s) + 1] = e
  BY AppendProperties, LenProperties
<1>2. DOMAIN s = 1 .. Len(s) /\ Len(s) \in Nat
  BY LenProperties
<1>. QED  BY <1>1, <1>2 DEF Range

\* Appending a new element keeps a sequence without repetitions.
LEMMA AppendInjective2 ==
  ASSUME NEW S, NEW s \in Seq(S), NEW e \in S, IsInjective(s), e \notin Range(s)
  PROVE  IsInjective(Append(s, e))
  BY AppendProperties, LenProperties DEF IsInjective, Range

\* In a sequence without repetitions the first slot that holds an element is
\* the slot that holds it.
LEMMA PositionProperties ==
  ASSUME NEW sc, NEW S, sc.array \in Seq(S), IsInjective(sc.array),
         NEW c \in Range(sc.array)
  PROVE  /\ Position(sc, c) \in 1 .. Len(sc.array)
         /\ sc.array[Position(sc, c)] = c
<1>1. PICK k \in 1 .. Len(sc.array) : sc.array[k] = c
  BY DEF Range
<1>2. {i \in 1 .. Len(sc.array) : sc.array[i] = c} = {k}
  BY <1>1 DEF IsInjective
<1>3. Min({k}) = k
  BY DEF Min
<1>. QED  BY <1>1, <1>2, <1>3 DEF Position, SelectInSeq


\* What removing slot i of a sequence leaves.
LEMMA RemoveAtProperties ==
  ASSUME NEW S, NEW s \in Seq(S), NEW i \in 1 .. Len(s)
  PROVE  /\ RemoveAt(s, i) \in Seq(S)
         /\ Len(RemoveAt(s, i)) = Len(s) - 1
         /\ \A j \in 1 .. Len(s) - 1 :
              RemoveAt(s, i)[j] = IF j < i THEN s[j] ELSE s[j + 1]
<1>1. Len(s) \in Nat /\ \A j \in 1 .. Len(s) : s[j] \in S
  BY LenProperties, ElementOfSeq
<1>2. PICK b : b = SubSeq(s, 1, i - 1)
  OBVIOUS
<1>3. PICK a : a = SubSeq(s, i + 1, Len(s))
  OBVIOUS
<1>4. /\ b \in Seq(S)
      /\ Len(b) = i - 1
      /\ \A j \in 1 .. i - 1 : b[j] = s[j]
  BY <1>1, <1>2, SubSeqProperties
<1>5. /\ a \in Seq(S)
      /\ Len(a) = Len(s) - i
      /\ \A j \in 1 .. Len(s) - i : a[j] = s[i + j]
  BY <1>1, <1>3, SubSeqProperties
<1>6. RemoveAt(s, i) = b \o a
  BY <1>2, <1>3 DEF RemoveAt
<1>7. /\ b \o a \in Seq(S)
      /\ Len(b \o a) = Len(b) + Len(a)
      /\ \A j \in 1 .. Len(b) + Len(a) :
           (b \o a)[j] = IF j <= Len(b) THEN b[j] ELSE a[j - Len(b)]
  BY <1>4, <1>5, ConcatProperties
<1>8. Len(b) + Len(a) = Len(s) - 1
  BY <1>1, <1>4, <1>5
<1>9. ASSUME NEW j \in 1 .. Len(s) - 1
      PROVE  (b \o a)[j] = IF j < i THEN s[j] ELSE s[j + 1]
  <2>1. (b \o a)[j] = IF j <= i - 1 THEN b[j] ELSE a[j - (i - 1)]
    BY <1>4, <1>7, <1>8
  <2>2. CASE j < i
    BY <1>1, <1>4, <2>1, <2>2
  <2>3. CASE ~(j < i)
    <3>1. j - (i - 1) \in 1 .. Len(s) - i
      BY <1>1, <2>3
    <3>2. a[j - (i - 1)] = s[j + 1]
      BY <1>1, <1>5, <3>1
    <3>. QED  BY <1>1, <2>1, <2>3, <3>2
  <2>. QED  BY <2>2, <2>3
<1>. QED  BY <1>6, <1>7, <1>8, <1>9

\* Removing the slot of an element of a sequence without repetitions removes
\* that element and nothing else.
LEMMA RemoveAtRange ==
  ASSUME NEW S, NEW s \in Seq(S), NEW i \in 1 .. Len(s), IsInjective(s)
  PROVE  /\ IsInjective(RemoveAt(s, i))
         /\ Range(RemoveAt(s, i)) = Range(s) \ {s[i]}
<1>. DEFINE r == RemoveAt(s, i)
<1>1. /\ DOMAIN r = 1 .. Len(s) - 1
      /\ DOMAIN s = 1 .. Len(s)
      /\ Len(s) \in Nat
      /\ \A j \in 1 .. Len(s) - 1 : r[j] = IF j < i THEN s[j] ELSE s[j + 1]
  BY RemoveAtProperties, LenProperties
<1>2. IsInjective(r)
  BY <1>1 DEF IsInjective
<1>3. ASSUME NEW c \in Range(r) PROVE c \in Range(s) \ {s[i]}
  BY <1>1 DEF IsInjective, Range
<1>4. ASSUME NEW c \in Range(s), c # s[i] PROVE c \in Range(r)
  <2>1. PICK k \in 1 .. Len(s) : s[k] = c
    BY <1>1 DEF Range
  <2>2. CASE k < i
    BY <1>1, <2>1, <2>2 DEF Range
  <2>3. CASE k > i
    <3>1. k - 1 \in 1 .. Len(s) - 1 /\ r[k - 1] = s[k]
      BY <1>1, <2>3
    <3>. QED  BY <1>1, <2>1, <3>1 DEF Range
  <2>. QED  BY <1>4, <2>1, <2>2, <2>3
<1>. QED  BY <1>2, <1>3, <1>4

-----------------------------------------------------------------------------
(* The critical sections keep an object consistent *)

\* The constructor makes a consistent object.
LEMMA NewTableConsistent == Consistent(NewTable)
<1>1. << >> \in Seq(Channel) /\ << >> \in Seq(Channel \cup {NoChannel})
  OBVIOUS
<1>2. Len(<< >>) = 0 /\ Range(<< >>) = {} /\ IsInjective(<< >>)
  BY DEF Range, IsInjective
<1>3. NewTable \in Table
  BY <1>1 DEF NewTable, Table
<1>. QED
  BY <1>2, <1>3
  DEF Consistent, RotationConsistent, NewTable, HostsHaveSlots, NoSharedChannel, NoDoubleSlot,
      RoundInArray, CounterStaleOnlyAfterErase, CounterInStorage

\* The fields of an object, one by one.
LEMMA TableFields ==
  ASSUME NEW sc \in Table
  PROVE  /\ sc.array \in Seq(Channel)
         /\ sc.hosts \in [Host -> Channel \cup {NoChannel}]
         /\ sc.count \in Nat
         /\ sc.past \in Seq(Channel \cup {NoChannel})
         /\ sc.erased \in SUBSET Channel
         /\ sc.start \in Nat
         /\ sc.shrunk \in BOOLEAN
         /\ sc.reappended \in SUBSET Host
         /\ Len(sc.array) \in Nat
         /\ Len(sc.past) \in Nat
         /\ Range(sc.array) \subseteq Channel
  BY LenProperties, ElementOfSeq DEF Table, Range

\* append() adds the channel to the rotation and starts a round afresh.
LEMMA PushBackProperties ==
  ASSUME NEW sc \in Table, NEW h \in Host, NEW c \in Channel
  PROVE  /\ PushBack(sc, h, c) \in Table
         /\ Range(PushBack(sc, h, c).array) = Range(sc.array) \cup {c}
         /\ Len(PushBack(sc, h, c).array) = Len(sc.array) + 1
         /\ PushBack(sc, h, c).hosts = [sc.hosts EXCEPT ![h] = c]
         /\ Len(PushBack(sc, h, c).past) \in Nat
         /\ Len(sc.past) <= Len(PushBack(sc, h, c).past) + 1
         /\ Range(PushBack(sc, h, c).past) \subseteq Range(sc.past)
<1>. DEFINE new == PushBack(sc, h, c)
<1>1. /\ sc.array \in Seq(Channel)
      /\ sc.past \in Seq(Channel \cup {NoChannel})
      /\ Len(sc.past) \in Nat
  BY TableFields
<1>2. /\ Append(sc.array, c) \in Seq(Channel)
      /\ Len(Append(sc.array, c)) = Len(sc.array) + 1
      /\ Range(Append(sc.array, c)) = Range(sc.array) \cup {c}
  BY <1>1, AppendProperties, AppendRange
<1>3. PICK past : past = IF sc.past = << >> THEN << >> ELSE Tail(sc.past)
  OBVIOUS
<1>4. /\ past \in Seq(Channel \cup {NoChannel})
      /\ Len(past) \in Nat
      /\ Len(sc.past) <= Len(past) + 1
      /\ Range(past) \subseteq Range(sc.past)
  <2>1. CASE sc.past = << >>
    BY <1>1, <1>3, <2>1 DEF Range
  <2>2. CASE sc.past # << >>
    <3>1. past = Tail(sc.past) /\ Len(sc.past) # 0
      BY <1>1, <1>3, <2>2, EmptySeq
    <3>2. /\ past \in Seq(Channel \cup {NoChannel})
          /\ Len(past) = Len(sc.past) - 1
          /\ \A i \in 1 .. Len(past) : past[i] = sc.past[i + 1]
      BY <1>1, <2>2, <3>1, HeadTailProperties
    <3>3. DOMAIN past = 1 .. Len(past) /\ DOMAIN sc.past = 1 .. Len(sc.past)
      BY <1>1, <3>2, LenProperties
    <3>. QED  BY <1>1, <3>1, <3>2, <3>3 DEF Range
  <2>. QED  BY <2>1, <2>2
<1>5. new.past = past /\ new.array = Append(sc.array, c)
  BY <1>3 DEF PushBack
<1>6. new \in Table
  BY <1>2, <1>3, <1>4, TableFields DEF PushBack, Table
<1>. QED  BY <1>2, <1>4, <1>5, <1>6 DEF PushBack

\* append() of a new channel keeps the rotation consistent.
LEMMA PushBackRotation ==
  ASSUME NEW sc, RotationConsistent(sc), NEW h \in Host, NEW c \in Channel,
         c \notin Range(sc.array) \cup sc.erased
  PROVE  RotationConsistent(PushBack(sc, h, c))
<1>. DEFINE new == PushBack(sc, h, c)
<1>1. sc \in Table
  BY DEF RotationConsistent
<1>2. /\ sc.array \in Seq(Channel)
      /\ sc.count \in Nat /\ Len(sc.array) \in Nat /\ Len(sc.past) \in Nat
  BY <1>1, TableFields
<1>3. /\ new \in Table
      /\ Range(new.array) = Range(sc.array) \cup {c}
      /\ Len(new.array) = Len(sc.array) + 1
      /\ Len(new.past) \in Nat
      /\ Len(sc.past) <= Len(new.past) + 1
      /\ Range(new.past) \subseteq Range(sc.past)
  BY <1>1, PushBackProperties
<1>4. /\ new.count = sc.count /\ new.start = sc.count
      /\ new.erased = sc.erased /\ new.shrunk = sc.shrunk
      /\ new.array = Append(sc.array, c)
  BY DEF PushBack
<1>5. NoDoubleSlot(new)
  BY <1>2, <1>4, AppendInjective2 DEF RotationConsistent, NoDoubleSlot
<1>6. /\ Range(new.array) \cap new.erased = {}
      /\ Range(new.past) \subseteq new.erased \cup {NoChannel}
  BY <1>3, <1>4 DEF RotationConsistent
<1>7. CounterStaleOnlyAfterErase(new) /\ CounterInStorage(new)
  <2>. HIDE DEF new
  <2>1. CounterInStorage(new)
    <3>. DEFINE n == Len(sc.array)   p == Len(sc.past)
                m == Len(new.array)  q == Len(new.past)
    <3>1. /\ n \in Nat /\ p \in Nat /\ q \in Nat /\ sc.count \in Nat
          /\ m = n + 1 /\ p <= q + 1
          /\ sc.count = 0 \/ sc.count < n + p
      BY <1>2, <1>3 DEF RotationConsistent, CounterInStorage
    <3>. HIDE DEF n, m, p, q
    <3>2. sc.count = 0 \/ sc.count < m + q
      BY <3>1
    <3>. QED  BY <1>4, <3>2 DEF CounterInStorage, m, q
  <2>2. new.count < Len(new.array) \/ ~(sc.count < Len(sc.array))
    BY <1>2, <1>3, <1>4
  <2>3. CounterStaleOnlyAfterErase(new)
    BY <1>4, <2>2 DEF RotationConsistent, CounterStaleOnlyAfterErase
  <2>. QED  BY <2>1, <2>3
<1>8. RoundInArray(new)
  BY <1>4 DEF RoundInArray
<1>. QED  BY <1>3, <1>5, <1>6, <1>7, <1>8 DEF RotationConsistent

\* So it keeps the object consistent.
LEMMA PushBackConsistent ==
  ASSUME NEW sc, Consistent(sc), NEW h \in Host, NEW c \in Channel,
         c \notin Range(sc.array) \cup sc.erased
  PROVE  Consistent(PushBack(sc, h, c))
<1>. DEFINE new == PushBack(sc, h, c)
<1>1. sc \in Table
  BY DEF Consistent, RotationConsistent
<1>2. sc.hosts \in [Host -> Channel \cup {NoChannel}]
  BY <1>1, TableFields
<1>3. /\ Range(new.array) = Range(sc.array) \cup {c}
      /\ new.hosts = [sc.hosts EXCEPT ![h] = c]
  BY <1>1, PushBackProperties
<1>. HIDE DEF new
<1>4. HostsHaveSlots(new) /\ NoSharedChannel(new)
  BY <1>2, <1>3, NoChannelAssumption
  DEF Consistent, HostsHaveSlots, NoSharedChannel
<1>. QED  BY <1>4, PushBackRotation DEF Consistent, new

\* remove() of a host without a channel in the rotation changes nothing.
LEMMA EraseNothing ==
  ASSUME NEW sc, NEW h, sc.hosts[h] \notin Range(sc.array)
  PROVE  Erase(sc, h) = sc
  BY DEF Erase

\* remove() of a host whose channel is in the rotation takes it out.
LEMMA EraseProperties ==
  ASSUME NEW sc \in Table, NoDoubleSlot(sc), NEW h \in Host,
         sc.hosts[h] \in Range(sc.array)
  PROVE  /\ Erase(sc, h) \in Table
         /\ NoDoubleSlot(Erase(sc, h))
         /\ Range(Erase(sc, h).array) = Range(sc.array) \ {sc.hosts[h]}
         /\ Len(Erase(sc, h).array) + 1 = Len(sc.array)
         /\ Len(Erase(sc, h).past) = Len(sc.past) + 1
         /\ Range(Erase(sc, h).past)
              \subseteq Range(sc.past) \cup {sc.hosts[h], NoChannel}
         /\ Erase(sc, h).hosts = [sc.hosts EXCEPT ![h] = NoChannel]
         /\ Erase(sc, h).count = sc.count
         /\ Erase(sc, h).start = sc.count
         /\ Erase(sc, h).erased = sc.erased \cup {sc.hosts[h]}
         /\ Erase(sc, h).shrunk = TRUE
         /\ Erase(sc, h).reappended = sc.reappended
<1>1. /\ sc.array \in Seq(Channel)
      /\ sc.hosts \in [Host -> Channel \cup {NoChannel}]
      /\ sc.past \in Seq(Channel \cup {NoChannel})
      /\ Len(sc.past) \in Nat /\ Len(sc.array) \in Nat
      /\ Range(sc.array) \subseteq Channel
  BY TableFields
<1>2. PICK c \in Channel : c = sc.hosts[h] /\ c \in Range(sc.array)
  BY <1>1
<1>3. PICK i \in 1 .. Len(sc.array) :
        i = Position(sc, c) /\ sc.array[i] = c
  BY <1>1, <1>2, PositionProperties DEF NoDoubleSlot
<1>4. /\ RemoveAt(sc.array, i) \in Seq(Channel)
      /\ Len(RemoveAt(sc.array, i)) + 1 = Len(sc.array)
      /\ IsInjective(RemoveAt(sc.array, i))
      /\ Range(RemoveAt(sc.array, i)) = Range(sc.array) \ {c}
  <2>1. Len(RemoveAt(sc.array, i)) = Len(sc.array) - 1
    BY <1>1, RemoveAtProperties
  <2>. QED  BY <1>1, <1>3, <2>1, RemoveAtProperties, RemoveAtRange
              DEF NoDoubleSlot
<1>5. PICK e \in {c, NoChannel} : e = IF i = Len(sc.array) THEN c ELSE NoChannel
  OBVIOUS
<1>6. /\ << e >> \o sc.past \in Seq(Channel \cup {NoChannel})
      /\ Len(<< e >> \o sc.past) = Len(sc.past) + 1
      /\ Range(<< e >> \o sc.past) \subseteq Range(sc.past) \cup {c, NoChannel}
  <2>1. /\ << e >> \in Seq(Channel \cup {NoChannel})
        /\ Len(<< e >>) = 1 /\ << e >>[1] = e
    OBVIOUS
  <2>2. /\ << e >> \o sc.past \in Seq(Channel \cup {NoChannel})
        /\ Len(<< e >> \o sc.past) = Len(<< e >>) + Len(sc.past)
        /\ \A j \in 1 .. Len(<< e >>) + Len(sc.past) :
             (<< e >> \o sc.past)[j]
               = IF j <= Len(<< e >>) THEN << e >>[j]
                                      ELSE sc.past[j - Len(<< e >>)]
    BY <1>1, <2>1, ConcatProperties
  <2>3. Len(<< e >> \o sc.past) = Len(sc.past) + 1
    BY <1>1, <2>1, <2>2
  <2>4. ASSUME NEW j \in 1 .. Len(sc.past) + 1
        PROVE  (<< e >> \o sc.past)[j] \in Range(sc.past) \cup {c, NoChannel}
    <3>1. (<< e >> \o sc.past)[j] = IF j <= 1 THEN e ELSE sc.past[j - 1]
      BY <1>1, <2>1, <2>2
    <3>2. CASE j <= 1
      BY <3>1, <3>2
    <3>3. CASE ~(j <= 1)
      <4>1. j - 1 \in 1 .. Len(sc.past)
        BY <1>1, <3>3
      <4>. QED  BY <1>1, <3>1, <3>3, <4>1, LenProperties DEF Range
    <3>. QED  BY <3>2, <3>3
  <2>5. DOMAIN (<< e >> \o sc.past) = 1 .. Len(sc.past) + 1
    BY <2>2, <2>3, LenProperties
  <2>. QED  BY <2>2, <2>3, <2>4, <2>5 DEF Range
<1>7. Erase(sc, h) =
        [array      |-> RemoveAt(sc.array, i),
         hosts      |-> [sc.hosts EXCEPT ![h] = NoChannel],
         count      |-> sc.count,
         past       |-> << e >> \o sc.past,
         erased     |-> sc.erased \cup {c},
         start      |-> sc.count,
         shrunk     |-> TRUE,
         reappended |-> sc.reappended]
  BY <1>2, <1>3, <1>5 DEF Erase
<1>8. Erase(sc, h) \in Table
  BY <1>1, <1>2, <1>4, <1>6, <1>7, TableFields DEF Table
<1>. QED  BY <1>2, <1>4, <1>6, <1>7, <1>8 DEF NoDoubleSlot

\* remove() keeps the rotation consistent.
LEMMA EraseRotation ==
  ASSUME NEW sc, RotationConsistent(sc), NEW h \in Host
  PROVE  RotationConsistent(Erase(sc, h))
<1>1. CASE sc.hosts[h] \notin Range(sc.array)
  BY <1>1, EraseNothing
<1>2. CASE sc.hosts[h] \in Range(sc.array)
  <2>1. PICK c, new : c = sc.hosts[h] /\ new = Erase(sc, h)
    OBVIOUS
  <2>2. /\ sc \in Table /\ NoDoubleSlot(sc) /\ c \in Range(sc.array)
    BY <1>2, <2>1 DEF RotationConsistent
  <2>3. /\ sc.count \in Nat /\ Len(sc.array) \in Nat /\ Len(sc.past) \in Nat
        /\ Range(sc.array) \subseteq Channel
    BY <2>2, TableFields
  <2>4. /\ new \in Table /\ NoDoubleSlot(new)
        /\ Range(new.array) = Range(sc.array) \ {c}
        /\ Len(new.array) + 1 = Len(sc.array)
        /\ Len(new.past) = Len(sc.past) + 1
        /\ Range(new.past) \subseteq Range(sc.past) \cup {c, NoChannel}
        /\ new.count = sc.count /\ new.start = sc.count
        /\ new.erased = sc.erased \cup {c} /\ new.shrunk = TRUE
    BY <1>2, <2>1, <2>2, EraseProperties
  <2>5. Len(new.array) \in Nat
    BY <2>4, TableFields
  <2>6. /\ Range(new.array) \cap new.erased = {}
        /\ Range(new.past) \subseteq new.erased \cup {NoChannel}
    BY <2>4 DEF RotationConsistent
  <2>7. CounterInStorage(new)
    <3>. DEFINE n == Len(sc.array)   p == Len(sc.past)
                m == Len(new.array)  q == Len(new.past)
    <3>1. /\ n \in Nat /\ p \in Nat /\ m \in Nat /\ sc.count \in Nat
          /\ m + 1 = n /\ q = p + 1
          /\ sc.count = 0 \/ sc.count < n + p
      BY <2>3, <2>4, <2>5 DEF RotationConsistent, CounterInStorage
    <3>. HIDE DEF n, m, p, q
    <3>2. sc.count = 0 \/ sc.count < m + q
      BY <3>1
    <3>. QED  BY <2>4, <3>2 DEF CounterInStorage, m, q
  <2>8. CounterStaleOnlyAfterErase(new) /\ RoundInArray(new)
    BY <2>4 DEF CounterStaleOnlyAfterErase, RoundInArray
  <2>9. RotationConsistent(new)
    BY <2>4, <2>6, <2>7, <2>8 DEF RotationConsistent
  <2>. QED  BY <2>1, <2>9
<1>. QED  BY <1>1, <1>2

\* So it keeps the object consistent.
LEMMA EraseConsistent ==
  ASSUME NEW sc, Consistent(sc), NEW h \in Host
  PROVE  Consistent(Erase(sc, h))
<1>1. /\ sc \in Table /\ NoDoubleSlot(sc)
      /\ sc.hosts \in [Host -> Channel \cup {NoChannel}]
  BY TableFields DEF Consistent, RotationConsistent
<1>2. PICK new : new = Erase(sc, h)
  OBVIOUS
<1>3. HostsHaveSlots(new) /\ NoSharedChannel(new)
  <2>1. CASE sc.hosts[h] \notin Range(sc.array)
    BY <1>2, <2>1, EraseNothing DEF Consistent
  <2>2. CASE sc.hosts[h] \in Range(sc.array)
    <3>1. /\ Range(new.array) = Range(sc.array) \ {sc.hosts[h]}
          /\ new.hosts = [sc.hosts EXCEPT ![h] = NoChannel]
      BY <1>1, <1>2, <2>2, EraseProperties
    <3>. QED
      BY <1>1, <2>2, <3>1 DEF Consistent, HostsHaveSlots, NoSharedChannel
  <2>. QED  BY <2>1, <2>2
<1>. QED  BY <1>2, <1>3, EraseRotation DEF Consistent

-----------------------------------------------------------------------------
(* choose() *)

\* The counter modulo the size is a slot, and the next one when there is one.
LEMMA NextSlot ==
  ASSUME NEW count \in Nat, NEW n \in Nat, n # 0
  PROVE  /\ (count + 1) % n \in 0 .. n - 1
         /\ count < n => (count + 1) % n = IF count + 1 = n THEN 0 ELSE count + 1
  OBVIOUS

\* choose() on an empty object changes nothing.
LEMMA AdvanceNothing ==
  ASSUME NEW sc, sc.array = << >>
  PROVE  Advance(sc) = sc
  BY DEF Advance

\* choose() moves the counter to a slot and touches nothing else but the round.
LEMMA AdvanceProperties ==
  ASSUME NEW sc \in Table, sc.array # << >>
  PROVE  /\ Advance(sc) \in Table
         /\ Advance(sc).array = sc.array
         /\ Advance(sc).hosts = sc.hosts
         /\ Advance(sc).count = (sc.count + 1) % Len(sc.array)
         /\ Advance(sc).past = sc.past
         /\ Advance(sc).erased = sc.erased
         /\ Advance(sc).start
              = IF InBounds(sc) THEN sc.start
                                ELSE (sc.count + 1) % Len(sc.array)
         /\ Advance(sc).shrunk = FALSE
         /\ Advance(sc).reappended = sc.reappended
         /\ (sc.count + 1) % Len(sc.array) \in 0 .. Len(sc.array) - 1
         /\ Len(sc.array) \in Nat \ {0}
<1>1. /\ sc.array \in Seq(Channel) /\ sc.count \in Nat /\ sc.start \in Nat
      /\ Len(sc.array) \in Nat
  BY TableFields
<1>2. Len(sc.array) # 0
  BY <1>1, EmptySeq
<1>3. (sc.count + 1) % Len(sc.array) \in 0 .. Len(sc.array) - 1
  BY <1>1, <1>2, NextSlot
<1>4. (sc.count + 1) % Len(sc.array) \in Nat
  BY <1>1, <1>3
<1>5. Advance(sc) \in Table
  BY <1>1, <1>4, TableFields DEF Advance, Table
<1>. QED  BY <1>1, <1>2, <1>3, <1>5 DEF Advance

\* choose() keeps the rotation consistent.
LEMMA AdvanceRotation ==
  ASSUME NEW sc, RotationConsistent(sc)
  PROVE  RotationConsistent(Advance(sc))
<1>1. CASE sc.array = << >>
  BY <1>1, AdvanceNothing
<1>2. CASE sc.array # << >>
  <2>1. PICK new : new = Advance(sc)
    OBVIOUS
  <2>2. sc \in Table
    BY DEF RotationConsistent
  <2>3. /\ sc.count \in Nat /\ sc.start \in Nat
        /\ Len(sc.array) \in Nat /\ Len(sc.past) \in Nat
    BY <2>2, TableFields
  <2>4. /\ new \in Table
        /\ new.array = sc.array
        /\ new.past = sc.past /\ new.erased = sc.erased
        /\ new.start = IF InBounds(sc) THEN sc.start ELSE new.count
        /\ new.count \in 0 .. Len(sc.array) - 1
    BY <1>2, <2>1, <2>2, AdvanceProperties
  <2>5. NoDoubleSlot(new)
    BY <2>4 DEF RotationConsistent, NoDoubleSlot
  <2>6. /\ Range(new.array) \cap new.erased = {}
        /\ Range(new.past) \subseteq new.erased \cup {NoChannel}
    BY <2>4 DEF RotationConsistent
  <2>7. new.count < Len(new.array) /\ Len(new.past) \in Nat
    BY <2>3, <2>4
  <2>8. CounterStaleOnlyAfterErase(new)
    BY <2>7 DEF CounterStaleOnlyAfterErase
  <2>9. CounterInStorage(new)
    <3>. DEFINE n == Len(new.array)   p == Len(new.past)
    <3>1. n \in Nat /\ p \in Nat /\ new.count \in Nat /\ new.count < n
      BY <2>3, <2>4, <2>7
    <3>. HIDE DEF n, p
    <3>2. new.count < n + p
      BY <3>1
    <3>. QED  BY <3>2 DEF CounterInStorage, n, p
  <2>10. RoundInArray(new)
    <3>1. CASE ~InBounds(sc)
      BY <2>4, <3>1 DEF RoundInArray
    <3>2. CASE InBounds(sc)
      <4>1. sc.start < Len(sc.array)
        BY <2>3, <3>2 DEF RotationConsistent, RoundInArray, InBounds
      <4>. QED  BY <2>4, <2>7, <3>2, <4>1 DEF RoundInArray
    <3>. QED  BY <3>1, <3>2
  <2>11. RotationConsistent(new)
    BY <2>4, <2>5, <2>6, <2>8, <2>9, <2>10 DEF RotationConsistent
  <2>. QED  BY <2>1, <2>11
<1>. QED  BY <1>1, <1>2

\* So it keeps the object consistent.
LEMMA AdvanceConsistent ==
  ASSUME NEW sc, Consistent(sc)
  PROVE  Consistent(Advance(sc))
<1>1. CASE sc.array = << >>
  BY <1>1, AdvanceNothing
<1>2. CASE sc.array # << >>
  <2>1. Advance(sc).array = sc.array /\ Advance(sc).hosts = sc.hosts
    BY <1>2, AdvanceProperties DEF Consistent, RotationConsistent
  <2>2. HostsHaveSlots(Advance(sc)) /\ NoSharedChannel(Advance(sc))
    BY <2>1 DEF Consistent, HostsHaveSlots, NoSharedChannel
  <2>. QED  BY <2>2, AdvanceRotation DEF Consistent
<1>. QED  BY <1>1, <1>2

\* What choose() returns: null exactly as long as there is nothing to return,
\* a channel of the rotation when the counter names one, and otherwise what an
\* erase left behind.
LEMMA ChosenProperties ==
  ASSUME NEW sc, RotationConsistent(sc)
  PROVE  /\ sc.array = << >> => Chosen(sc) = NoChannel
         /\ sc.array # << >> /\ InBounds(sc) => Chosen(sc) \in Range(sc.array)
         /\ sc.array # << >> /\ ~InBounds(sc) =>
              /\ sc.shrunk
              /\ Chosen(sc) \in sc.erased \cup {NoChannel}
         /\ Chosen(sc) \in Channel \cup {NoChannel}
<1>1. sc \in Table
  BY DEF RotationConsistent
<1>2. /\ sc.array \in Seq(Channel) /\ sc.count \in Nat
      /\ sc.past \in Seq(Channel \cup {NoChannel})
      /\ Len(sc.array) \in Nat /\ Len(sc.past) \in Nat
      /\ Range(sc.array) \subseteq Channel /\ sc.erased \subseteq Channel
  BY <1>1, TableFields
<1>3. CASE sc.array = << >>
  BY <1>3 DEF Chosen
<1>4. CASE sc.array # << >> /\ InBounds(sc)
  <2>1. Chosen(sc) = sc.array[sc.count + 1]
    BY <1>4 DEF Chosen
  <2>2. sc.count + 1 \in 1 .. Len(sc.array)
    BY <1>2, <1>4 DEF InBounds
  <2>3. Chosen(sc) \in Range(sc.array)
    BY <1>2, <2>1, <2>2, LenProperties DEF Range
  <2>. QED  BY <1>2, <1>4, <2>3
<1>5. CASE sc.array # << >> /\ ~InBounds(sc)
  <2>1. Chosen(sc) = sc.past[sc.count - Len(sc.array) + 1]
    BY <1>5 DEF Chosen
  <2>2. Len(sc.array) # 0
    BY <1>2, <1>5, EmptySeq
  <2>3. sc.count - Len(sc.array) + 1 \in 1 .. Len(sc.past)
    <3>. DEFINE n == Len(sc.array)   p == Len(sc.past)
    <3>1. /\ n \in Nat /\ n # 0 /\ p \in Nat /\ sc.count \in Nat
          /\ ~(sc.count < n)
          /\ sc.count = 0 \/ sc.count < n + p
      BY <1>2, <1>5, <2>2 DEF RotationConsistent, CounterInStorage, InBounds
    <3>. HIDE DEF n, p
    <3>2. sc.count - n + 1 \in 1 .. p
      BY <3>1
    <3>. QED  BY <3>2 DEF n, p
  <2>4. Chosen(sc) \in Range(sc.past)
    BY <1>2, <2>1, <2>3, LenProperties DEF Range
  <2>5. sc.shrunk
    <3>1. ~(sc.count = 0) /\ ~(sc.count < Len(sc.array))
      BY <1>2, <1>5, <2>2 DEF InBounds
    <3>. QED  BY <3>1 DEF RotationConsistent, CounterStaleOnlyAfterErase
  <2>6. Chosen(sc) \in sc.erased \cup {NoChannel}
    BY <2>4 DEF RotationConsistent
  <2>. QED  BY <1>2, <1>5, <2>5, <2>6
<1>. QED  BY <1>3, <1>4, <1>5

-----------------------------------------------------------------------------
(* Rounds *)

\* A round that starts at the counter has visited nothing yet.
LEMMA FreshRound ==
  ASSUME NEW sc, sc.start = sc.count, sc.start \in Nat, Len(sc.array) \in Nat
  PROVE  Round(sc) = {}
  BY DEF Round, InRound

\* By way of slots: a channel is in the round when its slot is.
LEMMA RoundBySlot ==
  ASSUME NEW sc \in Table, NoDoubleSlot(sc), NEW j \in 0 .. Len(sc.array) - 1
  PROVE  sc.array[j + 1] \in Round(sc) <=> InRound(sc, j)
<1>1. Len(sc.array) \in Nat /\ DOMAIN sc.array = 1 .. Len(sc.array)
  BY TableFields, LenProperties
<1>2. ASSUME NEW k \in 0 .. Len(sc.array) - 1, sc.array[k + 1] = sc.array[j + 1]
      PROVE  k = j
  <2>1. k + 1 \in 1 .. Len(sc.array) /\ j + 1 \in 1 .. Len(sc.array)
    BY <1>1
  <2>2. k + 1 = j + 1
    BY <1>1, <1>2, <2>1 DEF NoDoubleSlot, IsInjective
  <2>. QED  BY <1>1, <2>2
<1>. QED  BY <1>2 DEF Round

\* choose() hands out a channel the round has not handed out, and adds it to
\* the round; when that makes the round complete, a new one begins.
LEMMA RoundStep ==
  ASSUME NEW sc, RotationConsistent(sc), InBounds(sc), sc.array # << >>
  PROVE  /\ Chosen(sc) \in Range(sc.array) \ Round(sc)
         /\ Round(Advance(sc)) =
              IF Round(sc) \cup {Chosen(sc)} = Range(sc.array)
              THEN {} ELSE Round(sc) \cup {Chosen(sc)}
<1>. DEFINE slot(j) == sc.array[j + 1]
            n == Len(sc.array)
            next == (sc.count + 1) % n
<1>1. PICK new : new = Advance(sc)
  OBVIOUS
<1>2. sc \in Table /\ NoDoubleSlot(sc)
  BY DEF RotationConsistent
<1>3. n \in Nat /\ sc.count \in 0 .. n - 1 /\ sc.start \in 0 .. n - 1
  BY <1>2, TableFields DEF InBounds, RotationConsistent, RoundInArray
<1>4. next = IF sc.count + 1 = n THEN 0 ELSE sc.count + 1
  BY <1>3, NextSlot
<1>5. next \in 0 .. n - 1
  BY <1>3, <1>4
<1>6. /\ new \in Table /\ new.array = sc.array
      /\ new.count = next /\ new.start = sc.start
  BY <1>1, <1>2, AdvanceProperties
<1>7. Chosen(sc) = slot(sc.count)
  BY DEF Chosen
<1>8. Range(sc.array) = {slot(j) : j \in 0 .. n - 1}
  <2>1. DOMAIN sc.array = 1 .. n
    BY <1>2, TableFields, LenProperties
  <2>2. ASSUME NEW i \in 1 .. n PROVE i - 1 \in 0 .. n - 1 /\ (i - 1) + 1 = i
    BY <1>3
  <2>3. ASSUME NEW j \in 0 .. n - 1 PROVE j + 1 \in 1 .. n
    BY <1>3
  <2>. HIDE DEF n
  <2>. QED  BY <2>1, <2>2, <2>3 DEF Range
<1>9. \A j \in 0 .. n - 1 :
         /\ slot(j) \in Round(sc) <=> InRound(sc, j)
         /\ slot(j) \in Round(new) <=> InRound(new, j)
         /\ slot(j) = slot(sc.count) => j = sc.count
  <2>. SUFFICES ASSUME NEW j \in 0 .. n - 1
                PROVE  /\ slot(j) \in Round(sc) <=> InRound(sc, j)
                       /\ slot(j) \in Round(new) <=> InRound(new, j)
                       /\ slot(j) = slot(sc.count) => j = sc.count
    OBVIOUS
  <2>1. slot(j) \in Round(sc) <=> InRound(sc, j)
    BY <1>2, RoundBySlot
  <2>2. slot(j) \in Round(new) <=> InRound(new, j)
    BY <1>2, <1>6, RoundBySlot DEF NoDoubleSlot
  <2>3. slot(j) = slot(sc.count) => j = sc.count
    <3>1. /\ j + 1 \in 1 .. n /\ sc.count + 1 \in 1 .. n
          /\ DOMAIN sc.array = 1 .. n
      BY <1>2, <1>3, TableFields, LenProperties
    <3>2. slot(j) = slot(sc.count) => j + 1 = sc.count + 1
      BY <1>2, <3>1 DEF NoDoubleSlot, IsInjective
    <3>. QED  BY <1>3, <3>2
  <2>. QED  BY <2>1, <2>2, <2>3
<1>10. \A j \in 0 .. n - 1 :
          /\ ~InRound(sc, sc.count)
          /\ next = sc.start => InRound(sc, j) \/ j = sc.count
          /\ next # sc.start => ~InRound(sc, next) /\ next # sc.count
          /\ next = sc.start => ~InRound(new, j)
          /\ next # sc.start => (InRound(new, j) <=> InRound(sc, j) \/ j = sc.count)
  <2>. DEFINE c == sc.count   s == sc.start
  <2>1. n \in Nat /\ c \in 0 .. n - 1 /\ s \in 0 .. n - 1
    BY <1>3
  <2>2. next = IF c + 1 = n THEN 0 ELSE c + 1
    BY <1>4
  <2>3. /\ InRound(sc, c) <=> IF s <= c THEN s <= c /\ c < c ELSE s <= c \/ c < c
        /\ \A j : InRound(sc, j) <=>
                    IF s <= c THEN s <= j /\ j < c ELSE s <= j \/ j < c
        /\ \A j : InRound(new, j) <=>
                    IF s <= next THEN s <= j /\ j < next ELSE s <= j \/ j < next
    BY <1>6 DEF InRound
  <2>. HIDE DEF n, next, c, s
  <2>4. ASSUME NEW j \in 0 .. n - 1
        PROVE  /\ ~InRound(sc, c)
               /\ next = s => InRound(sc, j) \/ j = c
               /\ next # s => ~InRound(sc, next) /\ next # c
               /\ next = s => ~InRound(new, j)
               /\ next # s => (InRound(new, j) <=> InRound(sc, j) \/ j = c)
    <3>1. j \in Int /\ 0 <= j /\ j <= n - 1 /\ next \in Int
      BY <2>1, <2>2
    <3>. QED  BY <2>1, <2>2, <2>3, <3>1
  <2>. QED  BY <2>4 DEF c, s
<1>11. Round(sc) \subseteq Range(sc.array) /\ Round(new) \subseteq Range(sc.array)
  BY <1>6, <1>8 DEF Round
<1>. HIDE DEF n, next, slot
<1>12. Chosen(sc) \in Range(sc.array) \ Round(sc)
  BY <1>3, <1>7, <1>8, <1>9, <1>10
<1>13. CASE next = sc.start
  <2>1. Round(sc) \cup {Chosen(sc)} = Range(sc.array)
    BY <1>3, <1>7, <1>8, <1>9, <1>10, <1>11, <1>12, <1>13
  <2>2. Round(new) = {}
    BY <1>8, <1>9, <1>10, <1>11, <1>13
  <2>. QED  BY <1>1, <1>12, <2>1, <2>2
<1>14. CASE next # sc.start
  <2>1. slot(next) \in Range(sc.array) /\ slot(next) \notin Round(sc) \cup {Chosen(sc)}
    BY <1>3, <1>5, <1>7, <1>8, <1>9, <1>10, <1>14
  <2>2. Round(new) = Round(sc) \cup {Chosen(sc)}
    BY <1>3, <1>7, <1>8, <1>9, <1>10, <1>11, <1>12, <1>14
  <2>. QED  BY <1>1, <1>12, <2>1, <2>2
<1>. QED  BY <1>13, <1>14

=============================================================================
