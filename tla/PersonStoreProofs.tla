-------------------------- MODULE PersonStoreProofs --------------------------
(***************************************************************************)
(* Buffers, rows and ids of PersonStore, for any objects, names, capacity  *)
(* of a new buffer and number of ids.                                      *)
(***************************************************************************)
EXTENDS PersonStore, TLAPS

-----------------------------------------------------------------------------
(* The cache *)

LEMMA OfType == \A k \in Statements : Of(k) \in Bindings
BY DEF Statements, Bindings, Of

\* The parts of a cache, as the steps below use them.
LEMMA CacheParts ==
  ASSUME NEW s, CacheInv(s)
  PROVE  /\ s.im.cap \in Nat /\ s.im.version \in Nat /\ s.im.thrown \in BOOLEAN
         /\ DOMAIN s.b = Bindings /\ DOMAIN s.st = Statements
         /\ \A k \in Bindings :
              /\ s.b[k].cap \in Nat /\ s.b[k].image \in Nat /\ s.b[k].version \in Nat
              /\ s.b[k].image <= s.im.version
              /\ s.b[k].version # 0 /\ s.b[k].image = s.im.version =>
                   s.b[k].cap = s.im.cap \/ s.im.thrown
         /\ \A k \in Statements :
              /\ s.st[k].cap \in Nat /\ s.st[k].version \in Nat
              /\ s.st[k].version <= s.b[Of(k)].version
              /\ s.st[k].version # 0 /\ s.st[k].version = s.b[Of(k)].version =>
                   s.st[k].cap = s.b[Of(k)].cap
<1>1. /\ s.im.cap \in Nat /\ s.im.version \in Nat /\ s.im.thrown \in BOOLEAN
      /\ DOMAIN s.b = Bindings /\ DOMAIN s.st = Statements
      /\ \A k \in Bindings :
           s.b[k].cap \in Nat /\ s.b[k].image \in Nat /\ s.b[k].version \in Nat
      /\ \A k \in Statements : s.st[k].cap \in Nat /\ s.st[k].version \in Nat
  BY DEF CacheInv, Caches
<1>. QED  BY <1>1 DEF CacheInv, InStep

\* A cache keeps its type when the image gets another buffer.
LEMMA ImageType ==
  ASSUME NEW s, CacheInv(s), NEW r \in [cap : Nat, version : Nat, thrown : BOOLEAN]
  PROVE  LET t == [s EXCEPT !.im = r]
         IN  t \in Caches /\ t.im = r /\ t.b = s.b /\ t.st = s.st
BY DEF CacheInv, Caches

LEMMA MaxIs ==
  ASSUME NEW m \in Nat, NEW n \in Nat
  PROVE  Max({m, n}) \in Nat /\ m <= Max({m, n}) /\ n <= Max({m, n})
<1>1. \E x \in {m, n} : \A y \in {m, n} : x >= y
  OBVIOUS
<1>2. \A S : Max(S) = CHOOSE x \in S : \A y \in S : x >= y
  BY DEF Max
<1>. QED  BY <1>1, <1>2

\* Room is made and the version counted: every binding is older than the image.
LEMMA GrownInv ==
  ASSUME NEW s, CacheInv(s), NEW n \in Nat
  PROVE  /\ CacheInv(Grown(s, n))
         /\ n <= Grown(s, n).im.cap
         /\ Grown(s, n).b = s.b
         /\ \A k \in Bindings : s.b[k].image # Grown(s, n).im.version
<1>. DEFINE t == Grown(s, n)
            c == Max({n, s.im.cap})
<1>1. c \in Nat /\ n <= c
  BY CacheParts, MaxIs
<1>. HIDE DEF c
<1>. DEFINE r == [cap |-> c, version |-> s.im.version + 1, thrown |-> FALSE]
<1>2. r \in [cap : Nat, version : Nat, thrown : BOOLEAN]
  BY <1>1, CacheParts
<1>3. /\ t.im = [cap |-> c, version |-> s.im.version + 1, thrown |-> FALSE]
      /\ t.b = s.b /\ t.st = s.st
      /\ t \in Caches
  <2>1. t = [s EXCEPT !.im = r]
    BY DEF Grown, c
  <2>. HIDE DEF t, r
  <2>2. t \in Caches /\ t.im = r /\ t.b = s.b /\ t.st = s.st
    BY <1>2, <2>1, ImageType
  <2>. QED  BY <2>2 DEF r
<1>. HIDE DEF t
<1>5. \A k \in Bindings : t.b[k].image < t.im.version
  BY <1>3, CacheParts
<1>6. /\ \A k \in Bindings : t.b[k].image <= t.im.version
      /\ \A k \in Statements : t.st[k].version <= t.b[Of(k)].version
  BY <1>3, CacheParts
<1>7. InStep(t)
  BY <1>3, <1>5, CacheParts DEF InStep
<1>8. CacheInv(t)
  BY <1>3, <1>6, <1>7 DEF CacheInv
<1>9. n <= t.im.cap /\ t.b = s.b /\ \A k \in Bindings : s.b[k].image # t.im.version
  BY <1>1, <1>3, <1>5, CacheParts
<1>. QED  BY <1>8, <1>9 DEF t

LEMMA ResizedInv ==
  ASSUME NEW s, CacheInv(s), NEW n \in Nat
  PROVE  CacheInv(Resized(s, n)) /\ n <= Resized(s, n).im.cap
<1>1. CASE n <= s.im.cap
  BY <1>1, CacheParts DEF Resized
<1>2. CASE n > s.im.cap
  BY <1>2, GrownInv DEF Resized
<1>. QED  BY <1>1, <1>2, CacheParts

\* When the time cannot be converted, the bindings are not older than an image
\* whose buffer they do not know, and the mark says so.
LEMMA InitThrowsInv ==
  ASSUME NEW s, CacheInv(s), NEW n \in Nat
  PROVE  CacheInv(InitThrows(s, n))
<1>. DEFINE t == InitThrows(s, n)
<1>1. CASE n <= s.im.cap
  BY <1>1, CacheParts DEF InitThrows
<1>2. CASE n > s.im.cap
  <2>. DEFINE r == [s.im EXCEPT !.cap = n, !.thrown = TRUE]
  <2>1. s.im \in [cap : Nat, version : Nat, thrown : BOOLEAN]
    BY DEF CacheInv, Caches
  <2>2. /\ r \in [cap : Nat, version : Nat, thrown : BOOLEAN]
        /\ r.version = s.im.version /\ r.thrown
    BY <2>1
  <2>3. t = [s EXCEPT !.im = r]
    BY <1>2 DEF InitThrows
  <2>. HIDE DEF t, r
  <2>4. t \in Caches /\ t.im = r /\ t.b = s.b /\ t.st = s.st
    BY <2>2, <2>3, ImageType
  <2>5. /\ \A k \in Bindings : t.b[k].image <= t.im.version
        /\ \A k \in Statements : t.st[k].version <= t.b[Of(k)].version
    BY <2>2, <2>4, CacheParts
  <2>6. InStep(t)
    BY <2>2, <2>4, CacheParts DEF InStep
  <2>7. CacheInv(t)
    BY <2>4, <2>5, <2>6 DEF CacheInv
  <2>. QED  BY <2>7 DEF t
<1>. QED  BY <1>1, <1>2, CacheParts

LEMMA WithIdInv ==
  ASSUME NEW s, CacheInv(s)
  PROVE  /\ CacheInv(WithId(s))
         /\ WithId(s).im = s.im /\ WithId(s).b = s.b /\ WithId(s).st = s.st
<1>. DEFINE t == WithId(s)
<1>1. t.im = s.im /\ t.b = s.b /\ t.st = s.st /\ t \in Caches
  BY DEF WithId, CacheInv, Caches
<1>2. InStep(t)
  BY <1>1 DEF InStep, CacheInv
<1>. QED  BY <1>1, <1>2 DEF CacheInv

\* bind() makes the binding know the buffer, unless it was in step with an image
\* whose version was not counted; and a statement that copied an older one can
\* be told from one that copied this.
LEMMA BoundInv ==
  ASSUME NEW s, CacheInv(s), NEW k \in Statements
  PROVE  /\ CacheInv(Bound(s, k))
         /\ Bound(s, k).im = s.im
         /\ Bound(s, k).b[Of(k)].version # 0
         /\ Bound(s, k).b[Of(k)].cap = s.im.cap \/ s.im.thrown
         /\ s.b[Of(k)].image # s.im.version => Bound(s, k).b[Of(k)].cap = s.im.cap
<1>. DEFINE j == Of(k)  t == Bound(s, k)
            old == s.im.version # s.b[j].image \/ s.b[j].version = 0
<1>1. j \in Bindings
  BY OfType
<1>2. CASE ~old
  <2>1. t = s
    BY <1>2 DEF Bound
  <2>. QED  BY <1>1, <1>2, <2>1, CacheParts
<1>3. CASE old
  <2>. DEFINE r == [cap |-> s.im.cap, image |-> s.im.version, version |-> s.b[j].version + 1]
  <2>1. t = [s EXCEPT !.b[j] = r]
    BY <1>3 DEF Bound
  <2>2. r \in [cap : Nat, image : Nat, version : Nat]
    BY <1>1, CacheParts
  <2>3. t.im = s.im /\ t.b = [s.b EXCEPT ![j] = r] /\ t.st = s.st /\ t \in Caches
    <3>. HIDE DEF r, j, t, old
    <3>1. s.b \in [Bindings -> [cap : Nat, image : Nat, version : Nat]] /\ s \in Caches
      BY DEF CacheInv, Caches
    <3>2. t.im = s.im /\ t.b = [s.b EXCEPT ![j] = r] /\ t.st = s.st
      BY <2>1, <3>1 DEF Caches
    <3>3. [s.b EXCEPT ![j] = r] \in [Bindings -> [cap : Nat, image : Nat, version : Nat]]
      BY <1>1, <2>2, <3>1
    <3>4. t = [s EXCEPT !.b = [s.b EXCEPT ![j] = r]]
      BY <2>1
    <3>. QED  BY <3>1, <3>2, <3>3, <3>4 DEF Caches
  <2>4. t.b[j] = r /\ \A i \in Bindings \ {j} : t.b[i] = s.b[i]
    BY <1>1, <2>3, CacheParts
  <2>5. \A i \in Bindings : t.b[i].image <= t.im.version
    BY <2>3, <2>4, CacheParts
  <2>6. \A i \in Statements : t.st[i].version <= t.b[Of(i)].version
    BY <1>1, <2>3, <2>4, OfType, CacheParts
  <2>7. \A i \in Bindings :
          t.b[i].version # 0 /\ t.b[i].image = t.im.version =>
            t.b[i].cap = t.im.cap \/ t.im.thrown
    BY <2>3, <2>4, CacheParts
  <2>8. \A i \in Statements :
          t.st[i].version # 0 /\ t.st[i].version = t.b[Of(i)].version =>
            t.st[i].cap = t.b[Of(i)].cap
    <3>. TAKE i \in Statements
    <3>1. CASE Of(i) = j
      BY <1>1, <2>3, <2>4, <3>1, CacheParts
    <3>2. CASE Of(i) # j
      BY <2>3, <2>4, <3>2, OfType, CacheParts
    <3>. QED  BY <3>1, <3>2
  <2>9. DOMAIN t.b = Bindings /\ DOMAIN t.st = Statements
    BY <2>3, CacheParts
  <2>10. InStep(t)
    BY <2>7, <2>8, <2>9 DEF InStep
  <2>. QED  BY <1>1, <2>2, <2>3, <2>4, <2>5, <2>6, <2>10, CacheParts DEF CacheInv
<1>. QED  BY <1>2, <1>3

LEMMA SentInv ==
  ASSUME NEW s, CacheInv(s), NEW k \in Statements, s.b[Of(k)].version # 0
  PROVE  /\ CacheInv(Sent(s, k))
         /\ Sent(s, k).im = s.im
         /\ Sent(s, k).st[k].cap = s.b[Of(k)].cap
<1>. DEFINE j == Of(k)  t == Sent(s, k)
<1>1. j \in Bindings
  BY OfType
<1>2. CASE s.st[k].version = s.b[j].version
  <2>1. t = s
    BY <1>2 DEF Sent
  <2>. QED  BY <1>2, <2>1, CacheParts
<1>3. CASE s.st[k].version # s.b[j].version
  <2>. DEFINE r == [cap |-> s.b[j].cap, version |-> s.b[j].version]
  <2>1. t = [s EXCEPT !.st[k] = r]
    BY <1>3 DEF Sent
  <2>2. r \in [cap : Nat, version : Nat]
    BY <1>1, CacheParts
  <2>3. t.im = s.im /\ t.b = s.b /\ t.st = [s.st EXCEPT ![k] = r] /\ t \in Caches
    <3>. HIDE DEF r, j, t
    <3>1. s \in Caches /\ s.st \in [Statements -> [cap : Nat, version : Nat]]
      BY DEF CacheInv, Caches
    <3>2. [s.st EXCEPT ![k] = r] \in [Statements -> [cap : Nat, version : Nat]]
      BY <2>2, <3>1
    <3>3. t = [s EXCEPT !.st = [s.st EXCEPT ![k] = r]]
      BY <2>1
    <3>. QED  BY <3>1, <3>2, <3>3 DEF Caches
  <2>4. t.st[k] = r /\ \A i \in Statements \ {k} : t.st[i] = s.st[i]
    BY <2>3, CacheParts
  <2>5. \A i \in Statements : t.st[i].version <= t.b[Of(i)].version
    BY <1>1, <2>3, <2>4, CacheParts
  <2>6. \A i \in Statements :
          t.st[i].version # 0 /\ t.st[i].version = t.b[Of(i)].version =>
            t.st[i].cap = t.b[Of(i)].cap
    BY <2>3, <2>4, CacheParts
  <2>7. DOMAIN t.b = Bindings /\ DOMAIN t.st = Statements
    BY <2>3, CacheParts
  <2>8. InStep(t)
    BY <2>3, <2>6, <2>7, CacheParts DEF InStep
  <2>9. \A i \in Bindings : t.b[i].image <= t.im.version
    BY <2>3, CacheParts
  <2>. QED  BY <2>3, <2>4, <2>5, <2>8, <2>9 DEF CacheInv
<1>. QED  BY <1>2, <1>3

\* A statement that is made ready knows the buffer of the image, unless init()
\* threw; it does for certain when the binding was older than the image.
LEMMA ReadyInv ==
  ASSUME NEW s, CacheInv(s), NEW k \in Statements
  PROVE  LET t == Sent(Bound(s, k), k)
         IN  /\ CacheInv(t) /\ t.im = s.im
             /\ t.st[k].cap = s.im.cap \/ s.im.thrown
             /\ s.b[Of(k)].image # s.im.version => t.st[k].cap = s.im.cap
<1>. DEFINE b == Bound(s, k)
<1>1. /\ CacheInv(b) /\ b.im = s.im /\ b.b[Of(k)].version # 0
      /\ b.b[Of(k)].cap = s.im.cap \/ s.im.thrown
      /\ s.b[Of(k)].image # s.im.version => b.b[Of(k)].cap = s.im.cap
  BY BoundInv
<1>. HIDE DEF b
<1>2. CacheInv(Sent(b, k)) /\ Sent(b, k).im = b.im /\ Sent(b, k).st[k].cap = b.b[Of(k)].cap
  BY <1>1, SentInv
<1>3. LET t == Sent(b, k)
      IN  /\ CacheInv(t) /\ t.im = s.im
          /\ t.st[k].cap = s.im.cap \/ s.im.thrown
          /\ s.b[Of(k)].image # s.im.version => t.st[k].cap = s.im.cap
  BY <1>1, <1>2
<1>. QED  BY <1>3 DEF b

-----------------------------------------------------------------------------
(* Names and rows *)

\* A statement that knows the buffer of an image with room for the name, or one
\* that is executed after init() threw, spoils no row.
LEMMA ThroughFits ==
  ASSUME NEW s, NEW k, NEW r,
         s.im.thrown \/ (s.st[k].cap = s.im.cap /\ r.name <= s.im.cap)
  PROVE  Through(s, k, r) = r
BY DEF Through

\* A row that was fetched, again if it did not fit, is read as it is.
LEMMA ReadsInv ==
  ASSUME NEW s, CacheInv(s), NEW k \in Statements, NEW r, r.name \in Nat
  PROVE  CacheInv(Reads(s, k, r.name)) /\ Through(Reads(s, k, r.name), k, r) = r
<1>. DEFINE n == r.name
            f == Sent(Bound(s, k), k)
<1>1. CacheInv(f) /\ f.im = s.im /\ (f.st[k].cap = f.im.cap \/ f.im.thrown)
  BY ReadyInv
<1>2. f.st[k].cap \in Nat /\ f.im.cap \in Nat /\ n \in Nat
  BY <1>1, CacheParts
<1>3. CASE n > f.st[k].cap
  <2>. DEFINE h == Grown(f, n)
              g == Sent(Bound(h, k), k)
  <2>1. Reads(s, k, n) = g
    BY <1>3 DEF Reads
  <2>. HIDE DEF f
  <2>2. CacheInv(h) /\ n <= h.im.cap /\ h.b[Of(k)].image # h.im.version
    BY <1>1, <1>2, GrownInv, OfType
  <2>. HIDE DEF h
  <2>3. CacheInv(g) /\ g.im = h.im /\ g.st[k].cap = g.im.cap
    BY <2>2, ReadyInv
  <2>. HIDE DEF g
  <2>. QED  BY <2>1, <2>2, <2>3, ThroughFits
<1>4. CASE n <= f.st[k].cap
  <2>1. Reads(s, k, n) = f
    BY <1>2, <1>4 DEF Reads
  <2>. HIDE DEF f
  <2>2. Through(f, k, r) = r
    BY <1>1, <1>2, <1>4, ThroughFits
  <2>. QED  BY <1>1, <2>1, <2>2
<1>. QED  BY <1>2, <1>3, <1>4

LEMMA WholeParts ==
  ASSUME NEW r \in Whole
  PROVE  /\ r.name \in Nat /\ r.age \in Nat /\ r.text = "kept"
         /\ r = [age |-> r.age, name |-> r.name, text |-> r.text]
BY PersonAssumption DEF Whole, RowOf, Given, UShort

LEMMA GivenWhole ==
  ASSUME NEW p \in People, NEW i
  PROVE  RowOf(Given(p, i)) \in Whole
BY DEF Whole, RowOf, Given

\* What an insert or an update sends for an object is its row.
LEMMA SendsRow ==
  ASSUME NEW s, CacheInv(s), NEW k \in Statements, NEW o, RowOf(o) \in Whole
  PROVE  LET t == Sent(Bound(Resized(s, o.name), k), k)
         IN  CacheInv(t) /\ Sends(t, k, o) = RowOf(o)
<1>. DEFINE u == Resized(s, o.name)  t == Sent(Bound(u, k), k)
<1>1. o.name \in Nat /\ RowOf(o).name = o.name
  BY WholeParts DEF RowOf
<1>2. CacheInv(u) /\ o.name <= u.im.cap
  BY <1>1, ResizedInv
<1>. HIDE DEF u
<1>3. CacheInv(t) /\ t.im = u.im /\ (t.st[k].cap = u.im.cap \/ u.im.thrown)
  BY <1>2, ReadyInv
<1>. HIDE DEF t
<1>4. Through(t, k, RowOf(o)) = RowOf(o)
  BY <1>1, <1>2, <1>3, ThroughFits
<1>5. CacheInv(t) /\ Sends(t, k, o) = RowOf(o)
  BY <1>3, <1>4 DEF Sends
<1>. QED  BY <1>5 DEF t, u

\* The object a row is loaded into has that row.
LEMMA LoadsRow ==
  ASSUME NEW s, CacheInv(s), NEW k \in Statements, NEW i, NEW r \in Whole
  PROVE  LET t == Reads(s, k, r.name)
         IN  CacheInv(t) /\ RowOf(FromImage(t, k, i, r)) = r
BY WholeParts, ReadsInv DEF RowOf, FromImage

-----------------------------------------------------------------------------
(* The invariant *)

LEMMA NewCacheInv == CacheInv(NewCache)
<1>1. NewCache \in Caches
  BY PersonAssumption DEF NewCache, Caches, Bindings, Statements
<1>2. InStep(NewCache)
  BY DEF InStep, NewCache
<1>. QED  BY <1>1, <1>2 DEF CacheInv, NewCache, Bindings, Statements, Of

LEMMA InitIInv == Init => IInv
BY NewCacheInv DEF Init, IInv, WholeRows

\* New and the setters give an object what the program gave them.
LEMMA GivenIInv ==
  ASSUME IInv, NEW o \in Obj, NEW p \in People, NEW i \in Nat,
         obj' = [obj EXCEPT ![o] = Given(p, i)],
         UNCHANGED <<sts, tx, cursor, rows, next, saved, issued>>
  PROVE  IInv'
<1>1. Given(p, i) \in Persons
  BY PersonAssumption DEF Given, Persons, UShort
<1>2. obj' \in [Obj -> Persons \cup {NoPerson}]
  BY <1>1 DEF IInv
<1>3. \A q \in Obj : obj'[q] # NoPerson => RowOf(obj'[q]) \in Whole
  BY GivenWhole DEF IInv, WholeRows
<1>. QED  BY <1>2, <1>3 DEF IInv, WholeRows

LEMMA PersistIInv ==
  ASSUME IInv, NEW o \in Obj, Persist(o)
  PROVE  IInv'
<1>. DEFINE u == Bound(Resized(sts, obj[o].name), "insert")
            s == Sent(WithId(u), "insert")
<1>1. obj[o] \in Persons /\ RowOf(obj[o]) \in Whole
  BY DEF Persist, IInv, WholeRows
<1>2. obj[o].name \in Nat
  BY <1>1 DEF Persons
<1>3. CacheInv(s) /\ Sends(s, "insert", obj[o]) = RowOf(obj[o])
  <2>. DEFINE z == Resized(sts, obj[o].name)
  <2>1. CacheInv(z) /\ obj[o].name <= z.im.cap
    BY <1>2, ResizedInv DEF IInv
  <2>. HIDE DEF z
  <2>. DEFINE v == Bound(z, "insert")
  <2>2. /\ CacheInv(v) /\ v.im = z.im /\ v.b["insert"].version # 0
        /\ v.b["insert"].cap = z.im.cap \/ z.im.thrown
    BY <2>1, BoundInv DEF Statements, Of
  <2>. HIDE DEF v
  <2>3. CacheInv(WithId(v)) /\ WithId(v).im = v.im /\ WithId(v).b = v.b
    BY <2>2, WithIdInv
  <2>. DEFINE t == Sent(WithId(v), "insert")
  <2>4. /\ CacheInv(t) /\ t.im = z.im
        /\ t.st["insert"].cap = z.im.cap \/ z.im.thrown
    BY <2>2, <2>3, SentInv DEF Statements, Of
  <2>5. Through(t, "insert", RowOf(obj[o])) = RowOf(obj[o])
    BY <2>1, <2>4, ThroughFits DEF RowOf
  <2>6. t = s
    BY DEF v, z
  <2>. QED  BY <2>4, <2>5, <2>6 DEF Sends
<1>. HIDE DEF s
<1>4. sts' = s /\ UNCHANGED <<tx, cursor, saved>>
  BY DEF Persist, s
<1>5. CASE UNCHANGED <<obj, rows, next, issued>>
  BY <1>3, <1>4, <1>5 DEF IInv, WholeRows
<1>6. CASE /\ rows' = [rows EXCEPT ![next] = Sends(s, "insert", obj[o])]
           /\ next' = Max({next, next + 1})
           /\ obj' = [obj EXCEPT ![o].id = next]
           /\ issued' = issued \cup {next}
           /\ next \in Id
  <2>1. next \in Nat /\ next' = next + 1
    <3>1. next \in Nat
      BY DEF IInv
    <3>2. \A x \in {next, next + 1} : (\A y \in {next, next + 1} : x >= y) <=> x = next + 1
      BY <3>1
    <3>3. \A S : Max(S) = CHOOSE x \in S : \A y \in S : x >= y
      BY DEF Max
    <3>. QED  BY <1>6, <3>1, <3>2, <3>3
  <2>2. rows' \in [Id -> Whole \cup {NoRow}]
    BY <1>1, <1>3, <1>6 DEF IInv
  <2>3. [obj[o] EXCEPT !.id = next] \in Persons
    BY <1>1, <2>1 DEF Persons
  <2>4. RowOf([obj[o] EXCEPT !.id = next]) = RowOf(obj[o])
    BY <1>1 DEF Persons, RowOf
  <2>5. obj' = [obj EXCEPT ![o] = [obj[o] EXCEPT !.id = next]]
    BY <1>6
  <2>6. /\ obj' \in [Obj -> Persons \cup {NoPerson}]
        /\ \A q \in Obj : obj'[q] # NoPerson => RowOf(obj'[q]) \in Whole
    <3>. DEFINE x == [obj[o] EXCEPT !.id = next]
    <3>. HIDE DEF x
    <3>. QED  BY <1>1, <2>3, <2>4, <2>5 DEF IInv, WholeRows, x
  <2>7. issued' \subseteq {i \in Id : i < next'}
    BY <1>6, <2>1 DEF IInv, Id
  <2>. QED  BY <1>3, <1>4, <2>1, <2>2, <2>6, <2>7 DEF IInv, WholeRows
<1>. QED  BY <1>5, <1>6 DEF Persist, InsertId, s

LEMMA TimeRefusedIInv ==
  ASSUME IInv, NEW o \in Obj, TimeRefused(o)
  PROVE  IInv'
<1>1. obj[o].name \in Nat
  BY DEF TimeRefused, IInv, Persons
<1>2. CacheInv(sts')
  BY <1>1, InitThrowsInv DEF TimeRefused, IInv
<1>. QED  BY <1>2 DEF TimeRefused, IInv, WholeRows

LEMMA UpdateIInv ==
  ASSUME IInv, NEW o \in Obj, Update(o)
  PROVE  IInv'
<1>. DEFINE s == Sent(Bound(Resized(WithId(sts), obj[o].name), "update"), "update")
<1>1. RowOf(obj[o]) \in Whole
  BY DEF Update, IInv, WholeRows
<1>2. CacheInv(WithId(sts))
  BY WithIdInv DEF IInv
<1>3. CacheInv(s) /\ Sends(s, "update", obj[o]) = RowOf(obj[o])
  BY <1>1, <1>2, SendsRow DEF Statements
<1>. HIDE DEF s
<1>4. /\ sts' = s
      /\ rows' = [i \in Id |-> IF i = obj[o].id /\ rows[i] # NoRow /\ obj[o].time = "good"
                               THEN Sends(s, "update", obj[o]) ELSE rows[i]]
      /\ UNCHANGED <<obj, tx, cursor, next, saved, issued>>
  BY DEF Update, s
<1>5. rows' \in [Id -> Whole \cup {NoRow}]
  BY <1>1, <1>3, <1>4 DEF IInv
<1>. QED  BY <1>3, <1>4, <1>5 DEF IInv, WholeRows

\* A row is loaded into an object.
LEMMA LoadIInv ==
  ASSUME IInv, NEW o \in Obj, NEW s, CacheInv(s), NEW k \in Statements,
         NEW i \in Id, NEW r \in Whole,
         sts' = Reads(s, k, r.name),
         obj' = [obj EXCEPT ![o] = FromImage(sts', k, i, r)],
         cursor' \subseteq cursor,
         UNCHANGED <<tx, rows, next, saved, issued>>
  PROVE  IInv'
<1>. DEFINE x == FromImage(sts', k, i, r)
<1>1. CacheInv(sts') /\ RowOf(x) = r
  BY LoadsRow
<1>2. x \in Persons
  BY <1>1, WholeParts DEF FromImage, RowOf, Persons, Id
<1>. HIDE DEF x
<1>3. obj' = [obj EXCEPT ![o] = x]
  BY DEF x
<1>4. obj' \in [Obj -> Persons \cup {NoPerson}]
  BY <1>2, <1>3 DEF IInv
<1>5. \A q \in Obj : obj'[q] # NoPerson => RowOf(obj'[q]) \in Whole
  BY <1>1, <1>3 DEF IInv, WholeRows
<1>. QED  BY <1>1, <1>4, <1>5 DEF IInv, WholeRows

LEMMA FoundIInv ==
  ASSUME IInv, NEW o \in Obj, NEW i \in Id, Found(o, i)
  PROVE  IInv'
<1>1. CacheInv(WithId(sts))
  BY WithIdInv DEF IInv
<1>2. CASE rows[i] = NoRow
  <2>1. CacheInv(sts') /\ UNCHANGED <<obj, tx, cursor, rows, next, saved, issued>>
    BY <1>1, <1>2, ReadyInv DEF Found, Find_, Statements
  <2>. QED  BY <2>1 DEF IInv, WholeRows
<1>3. CASE rows[i] # NoRow
  <2>1. /\ sts' = Reads(WithId(sts), "find", rows[i].name)
        /\ obj' = [obj EXCEPT ![o] = FromImage(sts', "find", i, rows[i])]
        /\ UNCHANGED <<tx, cursor, rows, next, saved, issued>>
    BY <1>3 DEF Found, Find_
  <2>2. rows[i] \in Whole
    BY <1>3 DEF IInv
  <2>. QED  BY <1>1, <2>1, <2>2, LoadIInv DEF Statements
<1>. QED  BY <1>2, <1>3

LEMMA QueryIInv ==
  ASSUME IInv, NEW q, Query(q)
  PROVE  IInv'
<1>. DEFINE u == Bound(sts, "query")  t == [u EXCEPT !.st["query"] = NewCache.st["query"]]
<1>1. CacheInv(u)
  BY BoundInv DEF IInv, Statements
<1>. HIDE DEF u
<1>2. CacheInv(t)
  <2>. DEFINE r == NewCache.st["query"]
  <2>1. r = [cap |-> 0, version |-> 0]
    BY DEF NewCache
  <2>. DEFINE v == [u.st EXCEPT !["query"] = r]
  <2>2. u \in Caches /\ v \in [Statements -> [cap : Nat, version : Nat]]
    BY <1>1, <2>1 DEF CacheInv, Caches, Statements
  <2>3. v["query"] = r /\ \A i \in Statements \ {"query"} : v[i] = u.st[i]
    BY <1>1, CacheParts DEF Statements
  <2>4. t = [u EXCEPT !.st = v]
    OBVIOUS
  <2>. HIDE DEF r, v, t
  <2>5. t.im = u.im /\ t.b = u.b /\ t.st = v /\ t \in Caches
    BY <2>2, <2>4 DEF Caches
  <2>6. \A i \in Statements : t.st[i].version <= t.b[Of(i)].version
    BY <1>1, <2>1, <2>3, <2>5, OfType, CacheParts
  <2>7. DOMAIN t.b = Bindings /\ DOMAIN t.st = Statements
    BY <2>5 DEF Caches
  <2>8. InStep(t)
    BY <1>1, <2>1, <2>3, <2>5, <2>7, CacheParts DEF InStep
  <2>. QED  BY <1>1, <2>6, <2>8, <2>5, CacheParts DEF CacheInv
<1>3. cursor' \subseteq [id : Id, row : Whole]
  BY DEF Query, Matching, IInv
<1>4. sts' = t /\ UNCHANGED <<obj, tx, rows, next, saved, issued>>
  BY DEF Query, u
<1>. HIDE DEF t
<1>. QED  BY <1>2, <1>3, <1>4 DEF IInv, WholeRows

LEMMA NextIInv == IInv /\ [Next]_vars => IInv'
<1>. SUFFICES ASSUME IInv, [Next]_vars PROVE IInv'
  OBVIOUS
<1>1. CASE Begin \/ End \/ ConnectionLost \/ Crash
  <2>1. /\ CacheInv(sts') /\ UNCHANGED <<next, issued>>
        /\ obj' = obj \/ obj' = [o \in Obj |-> NoPerson]
        /\ rows' \in {rows, saved} /\ saved' \in {rows, saved}
        /\ cursor' \subseteq cursor
    BY <1>1, NewCacheInv DEF Begin, End, ConnectionLost, Crash, IInv
  <2>2. rows' \in [Id -> Whole \cup {NoRow}] /\ saved' \in [Id -> Whole \cup {NoRow}]
    BY <2>1 DEF IInv
  <2>3. /\ obj' \in [Obj -> Persons \cup {NoPerson}]
        /\ \A o \in Obj : obj'[o] # NoPerson => RowOf(obj'[o]) \in Whole
    BY <2>1 DEF IInv, WholeRows
  <2>. QED  BY <2>1, <2>2, <2>3 DEF IInv, WholeRows
<1>2. ASSUME NEW o \in Obj, NEW p \in People, New(o, p) \/ Edit(o, p)
      PROVE  IInv'
  <2>1. CASE New(o, p)
    <3>1. PICK i \in Id \cup {0} : obj' = [obj EXCEPT ![o] = Given(p, i)]
      BY <2>1 DEF New
    <3>2. i \in Nat
      BY DEF Id
    <3>. QED  BY <2>1, <3>1, <3>2, GivenIInv DEF New
  <2>2. CASE Edit(o, p)
    <3>1. obj[o].id \in Nat
      BY <2>2 DEF Edit, IInv, Persons
    <3>2. obj' = [obj EXCEPT ![o] = Given(p, obj[o].id)]
      BY <2>2 DEF Edit
    <3>. QED  BY <2>2, <3>1, <3>2, GivenIInv DEF Edit
  <2>. QED  BY <1>2, <2>1, <2>2
<1>3. ASSUME NEW i \in Id, Erase(i) PROVE IInv'
  <2>1. rows' \in [Id -> Whole \cup {NoRow}]
    BY <1>3 DEF Erase, IInv
  <2>. QED  BY <1>3, <2>1, WithIdInv DEF Erase, IInv, WholeRows
<1>4. ASSUME NEW o \in Obj,
             TimeRefused(o) \/ Persist(o) \/ Update(o) \/ EraseObj(o) \/ Reload(o)
      PROVE  IInv'
  BY <1>3, <1>4, TimeRefusedIInv, PersistIInv, UpdateIInv, FoundIInv DEF EraseObj, Reload
<1>5. ASSUME NEW o \in Obj, Load(o) PROVE IInv'
  <2>1. PICK r \in cursor :
          /\ sts' = Reads(sts, "query", r.row.name)
          /\ obj' = [obj EXCEPT ![o] = FromImage(sts', "query", r.id, r.row)]
          /\ cursor' = cursor \ {r}
    BY <1>5 DEF Load
  <2>2. r.id \in Id /\ r.row \in Whole /\ CacheInv(sts)
    BY DEF IInv
  <2>. QED  BY <1>5, <2>1, <2>2, LoadIInv DEF Load, Statements
<1>6. ASSUME NEW o \in Obj, NEW i \in Id, FindNew(o, i) \/ FindInto(o, i)
      PROVE  IInv'
  BY <1>6, FoundIInv DEF FindNew, FindInto
<1>7. ASSUME NEW q \in Queries, Query(q) \/ EraseQuery(q) PROVE IInv'
  <2>1. CASE EraseQuery(q)
    <3>1. rows' \in [Id -> Whole \cup {NoRow}]
      BY <2>1 DEF EraseQuery, IInv
    <3>. QED  BY <2>1, <3>1 DEF EraseQuery, IInv, WholeRows
  <2>. QED  BY <1>7, <2>1, QueryIInv
<1>8. CASE UNCHANGED vars
  BY <1>8 DEF vars, IInv, WholeRows
<1>. QED  BY <1>1, <1>2, <1>3, <1>4, <1>5, <1>6, <1>7, <1>8 DEF Next

LEMMA IInvAlways == Spec => []IInv
BY InitIInv, NextIInv, PTL DEF Spec

-----------------------------------------------------------------------------
(* Theorems *)

\* The version counters of an image and its bindings are enough to tell a buffer
\* that is gone, after any sequence of operations in which init() did not throw
\* for the time after it had replaced the buffer, and again, in every other, from
\* the next time the version is counted up (person-odb.cxx:227-247, 395-406,
\* 449-461, 655-661, 674-680).
THEOREM BuffersInStep == Spec => []VersionsTellBuffers
<1>1. IInv => VersionsTellBuffers
  BY DEF IInv, CacheInv, VersionsTellBuffers
<1>. QED  BY <1>1, IInvAlways, PTL

\* Objects and rows are whole, however long the names are and whatever falls
\* between a query and the load of its rows, but for what is executed after init()
\* threw for the time and before the version was counted up again
\* (person-odb.cxx:174-319, 635-684).
THEOREM RowsAreWhole == Spec => []WholeRows
<1>1. IInv => WholeRows
  BY DEF IInv
<1>. QED  BY <1>1, IInvAlways, PTL

\* A row never appears under an id that was given out before
\* (person-odb.cxx:398, 423).
THEOREM IdsIssuedOnce == Spec => IdsAreIssuedOnce
<1>. DEFINE A == tx /\ tx' => \A i \in issued : rows[i] = NoRow => rows'[i] = NoRow
<1>1. IInv /\ [Next]_vars => [A]_vars
  <2>. SUFFICES ASSUME IInv, Next, tx, tx', NEW i \in issued, rows[i] = NoRow
                PROVE  rows'[i] = NoRow
    OBVIOUS
  <2>1. i \in Id /\ i # next /\ rows \in [Id -> Whole \cup {NoRow}]
    BY DEF IInv
  <2>2. ASSUME NEW o \in Obj, Persist(o) PROVE rows'[i] = NoRow
    BY <2>1, <2>2 DEF Persist, InsertId
  <2>3. ASSUME NEW o \in Obj, Update(o) PROVE rows'[i] = NoRow
    BY <2>1, <2>3 DEF Update
  <2>4. ASSUME NEW j \in Id, Erase(j) PROVE rows'[i] = NoRow
    BY <2>1, <2>4 DEF Erase
  <2>5. ASSUME NEW q \in Queries, EraseQuery(q) PROVE rows'[i] = NoRow
    BY <2>1, <2>5 DEF EraseQuery
  <2>6. CASE Begin \/ End \/ ConnectionLost \/ Crash
    BY <2>6 DEF Begin, End, ConnectionLost, Crash
  <2>. QED  BY <2>2, <2>3, <2>4, <2>5, <2>6
            DEF Next, New, Edit, TimeRefused, EraseObj, Reload, Load, FindNew, FindInto, Found, Query
<1>. QED  BY <1>1, IInvAlways, PTL DEF Spec, IdsAreIssuedOnce
=============================================================================
