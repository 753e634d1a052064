----------------------------- MODULE PersonStore -----------------------------
(***************************************************************************)
(* The persistence of class Person of example/odb_test: the code the ODB   *)
(* compiler generated for it (person-odb.cxx, .hxx, .ixx), on one          *)
(* connection of the database, whose statement cache keeps one image of a  *)
(* row and the bindings of the statements to it.                           *)
(*                                                                         *)
(* A binding is an array with the address and the capacity of the name's   *)
(* buffer, and a prepared statement copies it.  The buffer is allocated    *)
(* anew when a longer name comes along; version counters say which arrays  *)
(* and which copies must be made again.  init(image, object) replaces the  *)
(* buffer before it converts the time, which throws for some times; then   *)
(* nobody counts the version up.  Two buffers are the same exactly when    *)
(* their capacities are, since a new one is always larger.                 *)
(*                                                                         *)
(* A name is modelled by its length and by a history of its text: whether  *)
(* a statement spoilt it, sending or fetching it through a buffer that is  *)
(* gone or too small although the version was counted up.  A text that is  *)
(* lost so after init() threw is not marked: the mark says that the        *)
(* versions failed, not that a text is right where it is missing.          *)
(*                                                                         *)
(* External are the runtime of ODB (prepared statements, cached results,   *)
(* transactions) and MySQL, the table of person.sql in it.                 *)
(***************************************************************************)
EXTENDS Integers, FiniteSetsExt

CONSTANTS
  Obj,      \* variables of type Person
  People,   \* what the program gives a Person: name, age and time
  Cap0,     \* the capacity of a new buffer
  MaxId,    \* bound on the ids the table gives out
  NoPerson, NoRow

ASSUME PersonAssumption ==
  /\ Cap0 \in Nat /\ MaxId \in Nat
  /\ People \subseteq [name : Nat, age : Int, time : {"good", "null", "bad"}]

VARIABLES
  obj,     \* the Person objects
  sts,     \* the statement cache of the connection
  tx,      \* whether a transaction is open
  cursor,  \* the rows of an open query result that were not loaded yet, in the
           \* order the database likes
  rows,    \* the table
  next,    \* its AUTO_INCREMENT counter
  saved,   \* the table before the transaction
  issued   \* the ids persist() gave to objects (history)

vars == <<obj, sts, tx, cursor, rows, next, saved, issued>>

Id == 1 .. MaxId

\* unsigned short.
UShort(n) == n % 65536

\* Person(name, age, update) and the setters.  The constructor leaves _id
\* uninitialised.  A time is "null" when it is not_a_date_time, and "bad" when it
\* is infinite or out of the range of TIMESTAMP.
Given(p, i) ==
  [id |-> i, age |-> UShort(p.age), name |-> p.name, text |-> "kept", time |-> p.time]

-----------------------------------------------------------------------------
(* The image and the bindings *)

\* im: the buffer of the image and its version, and whether init() threw with
\* the buffer replaced and the version was not counted up since (thrown, a
\* history); idb: the version of the binding of the id image; b: the bindings of
\* the statements; st: what the prepared statements copied of them.  What is in
\* the image does not outlive an operation, so the operators below hand it on.
NewCache ==
  [im |-> [cap |-> Cap0, version |-> 0, thrown |-> FALSE], idb |-> 0,
   b |-> [k \in {"insert", "update", "select"} |-> [cap |-> 0, image |-> 0, version |-> 0]],
   st |-> [k \in {"insert", "update", "find", "query"} |-> [cap |-> 0, version |-> 0]]]

\* The binding a statement uses.
Of(k) == IF k \in {"find", "query"} THEN "select" ELSE k

\* The capacity becomes n at least, and im.version++.
Grown(s, n) ==
  [s EXCEPT !.im = [cap |-> Max({n, @.cap}), version |-> @.version + 1, thrown |-> FALSE]]

\* Mutated form: the version stays when the buffer is replaced.
ResizedSilently(s, n) == [s EXCEPT !.im.cap = Max({n, @})]

\* init(image, object) for a name of n bytes, which tells whether the buffer was
\* replaced; then its caller counts the version up.
Resized(s, n) == IF n > s.im.cap THEN Grown(s, n) ELSE s

\* init(image, object) when the time cannot be converted: the name has its buffer
\* by then, and the exception passes the caller's im.version++.
InitThrows(s, n) ==
  IF n > s.im.cap THEN [s EXCEPT !.im.cap = n, !.im.thrown = TRUE] ELSE s

\* bind(), where an operation finds the binding older than the image.
Bound(s, k) ==
  IF s.im.version # s.b[Of(k)].image \/ s.b[Of(k)].version = 0
  THEN [s EXCEPT !.b[Of(k)] = [cap |-> s.im.cap, image |-> s.im.version,
                               version |-> @.version + 1]]
  ELSE s

\* The id image never grows: its binding is made once, and the update binding,
\* whose array it ends, is made after it (so that update() never has to count up
\* the version of the latter for the former's sake).
WithId(s) == [s EXCEPT !.idb = IF @ = 0 THEN 1 ELSE @]

\* The prepared statement copies a binding it has not seen.
Sent(s, k) ==
  IF s.st[k].version # s.b[Of(k)].version
  THEN [s EXCEPT !.st[k] = [cap |-> s.b[Of(k)].cap, version |-> s.b[Of(k)].version]]
  ELSE s

\* Row r on its way through the buffer statement k knows.
Through(s, k, r) ==
  IF s.im.thrown \/ (s.st[k].cap = s.im.cap /\ r.name <= s.im.cap) THEN r
  ELSE [r EXCEPT !.text = "spoilt"]

\* The row of an object, and what an insert or an update sends for it.
RowOf(o) == [age |-> o.age, name |-> o.name, text |-> o.text]
Sends(s, k, o) == Through(s, k, RowOf(o))

\* Mutated form: a row that was truncated is not fetched again.
ReadsOnce(s, k, n) == Resized(Sent(Bound(s, k), k), n)

\* find_() and load_image(): the cache after a row with a name of n bytes was
\* fetched.  When it did not fit the buffer the statement knows, grow() makes
\* room, the version is counted up, the binding follows, and the row is fetched
\* again.
Reads(s, k, n) ==
  LET f == Sent(Bound(s, k), k)
  IN  IF n > f.st[k].cap THEN Sent(Bound(Grown(f, n), k), k) ELSE f

\* init(object, image).
FromImage(s, k, i, r) ==
  LET t == Through(s, k, r)
  IN  [id |-> i, age |-> t.age, name |-> t.name, text |-> t.text, time |-> "good"]

-----------------------------------------------------------------------------

Init ==
  /\ obj = [o \in Obj |-> NoPerson]
  /\ sts = NewCache
  /\ tx = FALSE
  /\ cursor = {}
  /\ rows = [i \in Id |-> NoRow]
  /\ next = 1
  /\ saved = rows
  /\ issued = {}

(* The program *)

\* Person(...): _id is whatever was there.
New(o, p) ==
  /\ \E i \in Id \cup {0} : obj' = [obj EXCEPT ![o] = Given(p, i)]
  /\ UNCHANGED <<sts, tx, cursor, rows, next, saved, issued>>

\* name(), age(), update().
Edit(o, p) ==
  /\ obj[o] # NoPerson
  /\ obj' = [obj EXCEPT ![o] = Given(p, @.id)]
  /\ UNCHANGED <<sts, tx, cursor, rows, next, saved, issued>>

Begin ==
  /\ ~tx
  /\ tx' = TRUE
  /\ saved' = rows
  /\ UNCHANGED <<obj, sts, cursor, rows, next, issued>>

\* commit(), rollback() and the destructor of a transaction that was not
\* committed.  The counter of the table is not taken back.
End ==
  /\ tx
  /\ tx' = FALSE
  /\ rows' \in {rows, saved}
  /\ saved' = rows'
  /\ cursor' = {}
  /\ UNCHANGED <<obj, sts, next, issued>>

\* The connection is lost and the pool makes another; the transaction that was
\* open is undone.
ConnectionLost ==
  /\ sts # NewCache
  /\ sts' = NewCache
  /\ tx' = FALSE
  /\ rows' = IF tx THEN saved ELSE rows
  /\ saved' = rows'
  /\ cursor' = {}
  /\ UNCHANGED <<obj, next, issued>>

\* The process ends, and is started again.
Crash ==
  /\ obj' = [o \in Obj |-> NoPerson]
  /\ sts' = NewCache
  /\ tx' = FALSE
  /\ rows' = IF tx THEN saved ELSE rows
  /\ saved' = rows'
  /\ cursor' = {}
  /\ UNCHANGED <<next, issued>>

(* The operations of person-odb.cxx *)

\* persist() and update() of an object whose time cannot be converted end with
\* an exception before they reach the database.
TimeRefused(o) ==
  /\ tx /\ obj[o] # NoPerson /\ obj[o].time = "bad"
  /\ sts' = InitThrows(sts, obj[o].name)
  /\ UNCHANGED <<obj, tx, cursor, rows, next, saved, issued>>

\* Mutated form: the id the object has goes into the statement.
InsertIdOfObject(o) == o.id

\* The id an insert sends.
InsertId(o) == 0

\* persist(): MySQL gives an id to a row that comes with 0, and refuses a key it
\* has (object_already_persistent) and a time that is NULL.
Persist(o) ==
  LET s == Sent(WithId(Bound(Resized(sts, obj[o].name), "insert")), "insert")
      i == IF InsertId(obj[o]) = 0 THEN next ELSE InsertId(obj[o])
  IN  /\ tx /\ obj[o] # NoPerson /\ obj[o].time # "bad"
      /\ i \in Id
      /\ sts' = s
      /\ IF obj[o].time = "null" \/ rows[i] # NoRow THEN UNCHANGED <<obj, rows, next, issued>>
         ELSE /\ rows' = [rows EXCEPT ![i] = Sends(s, "insert", obj[o])]
              /\ next' = Max({next, i + 1})
              /\ obj' = [obj EXCEPT ![o].id = i]
              /\ issued' = issued \cup {i}
      /\ UNCHANGED <<tx, cursor, saved>>

\* update(): object_not_persistent when no row has the id, and an error of the
\* database when the time is NULL.
Update(o) ==
  LET s == Sent(Bound(Resized(WithId(sts), obj[o].name), "update"), "update")
  IN  /\ tx /\ obj[o] # NoPerson /\ obj[o].time # "bad"
      /\ sts' = s
      /\ rows' = [i \in Id |-> IF i = obj[o].id /\ rows[i] # NoRow /\ obj[o].time = "good"
                               THEN Sends(s, "update", obj[o]) ELSE rows[i]]
      /\ UNCHANGED <<obj, tx, cursor, next, saved, issued>>

\* erase(id): object_not_persistent unless it deleted one row.
Erase(i) ==
  /\ tx
  /\ sts' = WithId(sts)
  /\ rows' = [rows EXCEPT ![i] = NoRow]
  /\ UNCHANGED <<obj, tx, cursor, next, saved, issued>>

\* erase(object).
EraseObj(o) == obj[o] # NoPerson /\ obj[o].id \in Id /\ Erase(obj[o].id)

\* find_(): the cache afterwards.
Find_(i) ==
  IF rows[i] = NoRow THEN Sent(Bound(WithId(sts), "find"), "find")
                     ELSE Reads(WithId(sts), "find", rows[i].name)

\* The object gets the row with id i, or stays as it is when there is none.
Found(o, i) ==
  /\ tx
  /\ sts' = Find_(i)
  /\ obj' = IF rows[i] = NoRow THEN obj
            ELSE [obj EXCEPT ![o] = FromImage(sts', "find", i, rows[i])]
  /\ UNCHANGED <<tx, cursor, rows, next, saved, issued>>

\* find(id), which makes a new object; find(id, object); reload(object).
FindNew(o, i) == obj[o] = NoPerson /\ Found(o, i)
FindInto(o, i) == obj[o] # NoPerson /\ Found(o, i)
Reload(o) == obj[o] # NoPerson /\ obj[o].id \in Id /\ Found(o, obj[o].id)

\* The rows an empty query, or one for an age, selects.
Matching(q) == {i \in Id : rows[i] # NoRow /\ (q = {} \/ rows[i].age \in q)}
Queries == {{}} \cup {{UShort(p.age)} : p \in People}

\* query(): a new statement is executed on the select binding, and its result
\* is kept by the client.
Query(q) ==
  /\ tx
  /\ sts' = [Bound(sts, "query") EXCEPT !.st["query"] = NewCache.st["query"]]
  /\ cursor' = {[id |-> i, row |-> rows[i]] : i \in Matching(q)}
  /\ UNCHANGED <<obj, tx, rows, next, saved, issued>>

\* An iterator of the result is moved on and loads its object.
Load(o) ==
  /\ tx
  /\ \E r \in cursor :
       /\ sts' = Reads(sts, "query", r.row.name)
       /\ obj' = [obj EXCEPT ![o] = FromImage(sts', "query", r.id, r.row)]
       /\ cursor' = cursor \ {r}
  /\ UNCHANGED <<tx, rows, next, saved, issued>>

\* erase_query().
EraseQuery(q) ==
  /\ tx
  /\ rows' = [i \in Id |-> IF i \in Matching(q) THEN NoRow ELSE rows[i]]
  /\ UNCHANGED <<obj, sts, tx, cursor, next, saved, issued>>

Next ==
  \/ Begin \/ End \/ ConnectionLost \/ Crash
  \/ \E o \in Obj, p \in People : New(o, p) \/ Edit(o, p)
  \/ \E o \in Obj : TimeRefused(o) \/ Persist(o) \/ Update(o) \/ EraseObj(o) \/ Reload(o) \/ Load(o)
  \/ \E i \in Id : Erase(i)
  \/ \E o \in Obj, i \in Id : FindNew(o, i) \/ FindInto(o, i)
  \/ \E q \in Queries : Query(q) \/ EraseQuery(q)

Spec == Init /\ [][Next]_vars

-----------------------------------------------------------------------------
(* Properties *)

InStep(s) ==
  /\ \A k \in DOMAIN s.b :
       s.b[k].version # 0 /\ s.b[k].image = s.im.version =>
         s.b[k].cap = s.im.cap \/ s.im.thrown
  /\ \A k \in DOMAIN s.st :
       s.st[k].version # 0 /\ s.st[k].version = s.b[Of(k)].version =>
         s.st[k].cap = s.b[Of(k)].cap

\* A binding that is not older than the image knows its buffer, and so does a
\* prepared statement that is not older than its binding: the version counters
\* are enough to tell a buffer that is gone (person-odb.cxx:395-406, 449-461,
\* 655-661, 674-680).  They are not between an init() that threw for the time
\* after it had replaced the buffer (person-odb.cxx:227-247) and the next time
\* the version is counted up; from then on they are again.
VersionsTellBuffers == InStep(sts)

Whole == {RowOf(Given(p, 0)) : p \in People}

\* Every object is as the program set it or as the table has it, and every row
\* as an object was: what persist() and update() store and find(), reload() and a
\* query load is never a name that was cut to the buffer, that went through a
\* buffer that is gone, or that belongs with another age, whatever was executed
\* between the query and the load (person-odb.cxx:174-319, 635-684).  Not said
\* of statements that are executed after init() threw for the time, before the
\* version was counted up again: they go through a buffer that is gone.
WholeRows ==
  /\ \A o \in Obj : obj[o] # NoPerson => RowOf(obj[o]) \in Whole
  /\ \A i \in Id : rows[i] # NoRow => rows[i] \in Whole

\* A row that appears in the table has an id no persist() gave out before, also
\* when the object had one, when its id was never initialised, and after a
\* rollback or a deletion: an object that kept the id of a row that is gone never
\* reaches a stranger's row (person-odb.cxx:398, 423).
IdsAreIssuedOnce ==
  [][tx /\ tx' => \A i \in issued : rows[i] = NoRow => rows'[i] = NoRow]_vars

(* The invariant behind them *)

Bindings == {"insert", "update", "select"}
Statements == {"insert", "update", "find", "query"}

Caches ==
  [im : [cap : Nat, version : Nat, thrown : BOOLEAN], idb : {0, 1},
   b : [Bindings -> [cap : Nat, image : Nat, version : Nat]],
   st : [Statements -> [cap : Nat, version : Nat]]]

\* No binding is ahead of the image and no statement of its binding.
CacheInv(s) ==
  /\ s \in Caches
  /\ \A k \in Bindings : s.b[k].image <= s.im.version
  /\ \A k \in Statements : s.st[k].version <= s.b[Of(k)].version
  /\ InStep(s)

Persons ==
  [id : Nat, age : Nat, name : Nat, text : {"kept"},
   time : {"good", "null", "bad"}]

IInv ==
  /\ CacheInv(sts)
  /\ WholeRows
  /\ obj \in [Obj -> Persons \cup {NoPerson}]
  /\ rows \in [Id -> Whole \cup {NoRow}]
  /\ saved \in [Id -> Whole \cup {NoRow}]
  /\ cursor \subseteq [id : Id, row : Whole]
  /\ next \in Nat
  /\ issued \subseteq {i \in Id : i < next}
=============================================================================
