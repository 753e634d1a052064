------------------------------- MODULE ESClient -------------------------------
(***************************************************************************)
(* The classes of example/es_test/icsearch.hpp: ESIndex, ESInsert,         *)
(* ESRemove and ESSearch, used in any order by one thread (test.cc is one  *)
(* such program), and the Elasticsearch server behind elasticlient         *)
(* (external).  The objects have nothing in common but the server, so one  *)
(* is in use until the next is made.                                       *)
(*                                                                         *)
(* A request is a call that waits for its response.  The response may have *)
(* a bad status, or be lost, which elasticlient throws as an exception; in *)
(* both cases nobody knows whether the server did what it was asked, and a *)
(* request without a response may be done later.  The server searches what *)
(* was stored when it last refreshed the index.                            *)
(*                                                                         *)
(* A document is a function on the names of its fields.                    *)
(* Bounds: MaxRequests requests, MaxConds conditions in a query.           *)
(***************************************************************************)
EXTENDS Naturals, FiniteSets, TLC

CONSTANTS
  Field,       \* names of fields
  Val,         \* values of fields
  Named,       \* ids a program gives
  Generated,   \* ids the server makes for a document without one
  DefaultId,   \* "default_index_id", the id create() uses
  NoId, NoDoc, NoRequest, Unknown, Null,
  MaxRequests, MaxConds

ASSUME ESAssumption ==
  /\ "key" \in Field
  /\ DefaultId \in Named /\ Named \cap Generated = {} /\ NoId \notin Named \cup Generated
  /\ \A F \in SUBSET Field : NoDoc \notin [F -> Val] /\ NoDoc # ("mappings" :> F)

VARIABLES
  kind,      \* the class of the object in use: "ESIndex", "ESInsert", "ESRemove",
             \* "ESSearch"
  body,      \* its _properties (names), _item, or _bool (conditions by clause)
  found,     \* the documents of the last search(), or Null
  request,   \* the request the thread waits for
  requests,  \* how many were made
  store,     \* the documents (server)
  visible,   \* the documents a search sees (server)
  late,      \* requests that were given up and not done (server)
  asked,     \* the conditions the caller appended (history)
  acked,     \* what the last call on an id stored, if it returned true (history)
  overtaken  \* the ids whose last call was made while one that was given up could
             \* still be done (history)

object == <<kind, body, asked>>
server == <<store, visible, late>>
told == <<acked, overtaken>>
vars == <<object, found, request, requests, server, told>>

Id == Named \cup Generated
NoFields == [f \in {} |-> Null]
Clauses == {"must", "should", "must_not"}
NoConditions == [b \in Clauses |-> {}]

Init ==
  /\ kind = "ESRemove"
  /\ body = Null
  /\ found = Null
  /\ request = NoRequest
  /\ requests = 0
  /\ store = [i \in Id |-> NoDoc]
  /\ visible = store
  /\ late = {}
  /\ asked = {}
  /\ acked = [i \in Id |-> Unknown]
  /\ overtaken = {}

-----------------------------------------------------------------------------
(* The calls *)

\* Each call begins when the last one is over; its result is forgotten.
Free == request = NoRequest /\ requests < MaxRequests /\ found' = Null

\* What was known of the document with the id is from now on for the call to say.
Send(op, id, doc) ==
  /\ Free
  /\ request' = [op |-> op, id |-> id, doc |-> doc, done |-> FALSE, ok |-> FALSE]
  /\ requests' = requests + 1
  /\ acked' = [i \in Id |-> IF i = id THEN Unknown ELSE acked[i]]
  /\ overtaken' = (overtaken \ {id}) \cup {r.id : r \in {l \in late : l.id = id}}

\* The constructor of a class, with the body its object starts with.
New(class, empty) ==
  /\ Free
  /\ kind' = class
  /\ body' = empty
  /\ asked' = {}
  /\ UNCHANGED <<request, requests, server, told>>

\* append() of the object in use.
Appended(class, b, says) ==
  /\ Free /\ kind = class
  /\ body' = b
  /\ asked' = asked \cup says
  /\ UNCHANGED <<kind, request, requests, server, told>>

\* ESIndex::append() and create(): settings and mappings are sent as a document
\* with an id.
IndexAppend(k) == Appended("ESIndex", body \cup {k}, {})
Create ==
  /\ kind = "ESIndex" /\ Send("index", DefaultId, "mappings" :> body)
  /\ UNCHANGED <<object, server>>

\* ESInsert::append() and insert(), which leaves _item as it is.
InsertAppend(k, v) ==
  Appended("ESInsert",
           [f \in DOMAIN body \cup {k} |-> IF f = k THEN v ELSE body[f]], {})
Insert(id) ==
  /\ kind = "ESInsert" /\ Send("index", id, body)
  /\ UNCHANGED <<object, server>>

\* ESRemove::remove().
Remove(id) ==
  /\ kind = "ESRemove" /\ Send("remove", id, NoDoc)
  /\ UNCHANGED <<object, server>>

Condition(type, k, vals) == [type |-> type, field |-> k, vals |-> vals]

\* One of the four append functions of ESSearch: the caller names clause, type
\* and field.
Appends(clause, cond, says) ==
  /\ Cardinality(asked) < MaxConds
  /\ Appended("ESSearch", [body EXCEPT ![clause] = @ \cup {cond}], {says})

Says(clause, type, k, vals) == [clause |-> clause, cond |-> Condition(type, k, vals)]

\* The field of a terms condition is "key", whatever the parameter key is.
AppendMustNotTerms(k, vals) ==
  Appends("must_not", Condition("terms", "key", vals), Says("must_not", "terms", k, vals))

AppendMustTerms(k, vals) ==
  Appends("must", Condition("terms", "key", vals), Says("must", "terms", k, vals))

AppendShouldMatch(k, v) ==
  Appends("should", Condition("match", k, {v}), Says("should", "match", k, {v}))

\* Mutated form: the condition is put beside the optional ones.
AppendMustMatchShould(k, v) ==
  Appends("should", Condition("match", k, {v}), Says("must", "match", k, {v}))

AppendMustMatch(k, v) ==
  Appends("must", Condition("match", k, {v}), Says("must", "match", k, {v}))

Search ==
  /\ kind = "ESSearch" /\ Send("search", NoId, body)
  /\ UNCHANGED <<object, server>>

-----------------------------------------------------------------------------
(* The server *)

Satisfies(doc, cond) ==
  cond.field \in DOMAIN doc /\ doc[cond.field] \in cond.vals

\* A document is found when it has all that must be and nothing that must not,
\* and one of what should be, unless something must be.
Matches(doc, b) ==
  /\ \A c \in b.must : Satisfies(doc, c)
  /\ \A c \in b.must_not : ~Satisfies(doc, c)
  /\ b.must = {} /\ b.should # {} => \E c \in b.should : Satisfies(doc, c)

\* A request that is no JSON object the server knows what to do with: an item or
\* a bool nothing was appended to, or a condition on no values.
Malformed(r) ==
  \/ r.op = "index" /\ r.doc = NoFields
  \/ r.op = "search" /\ (r.doc = NoConditions \/ \E b \in Clauses : \E c \in r.doc[b] : c.vals = {})

\* The documents after the request, i being its id or the one it is given.
Applied(r, i) ==
  /\ \/ r.op = "index" /\ r.id = i
     \/ r.op = "index" /\ r.id = NoId /\ i \in Generated /\ store[i] = NoDoc
     \/ r.op = "remove" /\ r.id = i /\ store[i] # NoDoc
  /\ store' = [store EXCEPT ![i] = r.doc]

\* The request the thread waits for is done, and reported with a good status or
\* a bad one.
Handle(ok) ==
  /\ request # NoRequest /\ ~request.done /\ ~Malformed(request)
  /\ \/ \E i \in Id :
          /\ Applied(request, i)
          /\ request' = [request EXCEPT !.id = i, !.done = TRUE, !.ok = ok]
     \/ /\ request.op = "search"
        /\ request' = [request EXCEPT !.done = TRUE, !.ok = ok,
             !.doc = {visible[i] : i \in {j \in Id : visible[j] # NoDoc
                                            /\ Matches(visible[j], request.doc)}}]
        /\ UNCHANGED store
  /\ UNCHANGED <<object, found, requests, visible, late, told>>

\* It is refused: malformed, nothing to remove, or the server cannot.
Refuse ==
  /\ request # NoRequest /\ ~request.done
  /\ request' = [request EXCEPT !.done = TRUE]
  /\ UNCHANGED <<object, found, requests, server, told>>

\* A request that was given up is done.
HandleLate ==
  /\ \E r \in late, i \in Id : ~Malformed(r) /\ Applied(r, i) /\ late' = late \ {r}
  /\ UNCHANGED <<object, found, request, requests, visible, told>>

Refresh ==
  /\ visible' = store
  /\ UNCHANGED <<object, found, request, requests, store, late, told>>

-----------------------------------------------------------------------------
(* The end of a call *)

\* Mutated form: any response will do.
ReturnsAny ==
  /\ request # NoRequest /\ request.done
  /\ acked' = [i \in Id |-> IF request.op # "search" /\ i = request.id
                            THEN request.doc ELSE acked[i]]
  /\ found' = IF request.op = "search" /\ request.ok THEN request.doc ELSE found
  /\ request' = NoRequest
  /\ UNCHANGED <<object, requests, server, overtaken>>

\* The status of an index or remove request decides between true and false; the
\* documents of a search are returned if the status is good and the text is JSON.
Returns ==
  /\ request # NoRequest /\ request.done
  /\ acked' = [i \in Id |-> IF request.op # "search" /\ i = request.id /\ request.ok
                            THEN request.doc ELSE acked[i]]
  /\ \/ request.op = "search" /\ request.ok /\ found' = request.doc
     \/ request.op = "search" /\ found' = Null
     \/ request.op # "search" /\ UNCHANGED found
  /\ request' = NoRequest
  /\ UNCHANGED <<object, requests, server, overtaken>>

\* elasticlient throws: false is returned, or Null.  What the server has not
\* done it may still do.
Throws ==
  /\ request # NoRequest
  /\ \/ ~request.done /\ request.op # "search" /\ late' = late \cup {request}
     \/ UNCHANGED late
  /\ found' = IF request.op = "search" THEN Null ELSE found
  /\ request' = NoRequest
  /\ UNCHANGED <<object, requests, store, visible, told>>

Next ==
  \/ \E k \in Field : IndexAppend(k)
  \/ New("ESIndex", {}) \/ New("ESInsert", NoFields)
  \/ New("ESRemove", Null) \/ New("ESSearch", NoConditions)
  \/ Create \/ Search
  \/ \E k \in Field, v \in Val :
       InsertAppend(k, v) \/ AppendShouldMatch(k, v) \/ AppendMustMatch(k, v)
  \/ \E i \in Named \cup {NoId} : Insert(i)
  \/ \E i \in Named : Remove(i)
  \/ \E k \in Field, vals \in SUBSET Val :
       AppendMustTerms(k, vals) \/ AppendMustNotTerms(k, vals)
  \/ \E ok \in BOOLEAN : Handle(ok)
  \/ Refuse \/ HandleLate \/ Refresh \/ Returns \/ Throws

Spec == Init /\ [][Next]_vars

-----------------------------------------------------------------------------
(* Properties *)

\* What a call on an id did when it returned true is still there until the next
\* call on that id, whatever calls on other ids return, fail or are done late, and
\* also when the server chose the id.  The one exception is a call made after an
\* earlier one on its id was given up and could still be done: the code tells
\* neither from the other, and the late one may undo it (icsearch.hpp:84-98,
\* 130-143, 160-173).
AcknowledgedIsStored ==
  \A i \in Id \ overtaken : acked[i] # Unknown => store[i] = acked[i]

\* The conditions of which the code keeps all the caller said: it puts the values
\* of a terms condition under the field "key", whatever field was named.
Kept(s) == s.cond.type = "terms" => s.cond.field = "key"

\* Every document a search returns satisfies each condition that was appended to
\* the object, under the field and in the clause the caller named, and one of the
\* optional ones when nothing must be.  Nothing is said of a terms condition on
\* another field than "key", which the code does not send (icsearch.hpp:189-260).
SearchAnswersQuery ==
  found # Null =>
    \A doc \in found :
      /\ \A s \in asked : s.clause = "must" /\ Kept(s) => Satisfies(doc, s.cond)
      /\ \A s \in asked : s.clause = "must_not" /\ Kept(s) => ~Satisfies(doc, s.cond)
      /\ (\E s \in asked : s.clause = "should") /\ (\A s \in asked : s.clause # "must") =>
           \E s \in asked : s.clause = "should" /\ Satisfies(doc, s.cond)

(* The invariant behind them *)

IsRequest(r) ==
  /\ r = [op |-> r.op, id |-> r.id, doc |-> r.doc, done |-> r.done, ok |-> r.ok]
  /\ r.op \in {"index", "remove", "search"}
  /\ r.op = "remove" => r.id \in Named
  /\ r.op = "index" => r.doc # NoDoc /\ r.id \in Id \cup {NoId}

Items == UNION {[F -> Val] : F \in SUBSET Field}

\* The body of an ESSearch: a condition is in the clause the caller named, and
\* nothing is there that he did not ask for.
Asks(b, says) ==
  /\ DOMAIN b = Clauses
  /\ \A s \in says : s.clause \in Clauses /\ (Kept(s) => s.cond \in b[s.clause])
  /\ b.must # {} => \E s \in says : s.clause = "must"
  /\ \A c \in b.should : \E s \in says : s.clause = "should" /\ s.cond = c
  /\ \A s \in says : s.clause = "should" => s.cond \in b.should

\* The body of the object in use.
BodyInv ==
  /\ kind = "ESIndex" => body \subseteq Field
  /\ kind = "ESInsert" => body \in Items
  /\ IF kind = "ESSearch" THEN Asks(body, asked) ELSE asked = {}

\* The request the thread waits for; what was reported done is in the store, and
\* only a late request on the same id can come between.
RequestInv ==
  request # NoRequest =>
    /\ IsRequest(request)
    /\ request.ok => request.done
    /\ request.op = "search" =>
         /\ kind = "ESSearch"
         /\ ~request.done => request.doc = body
         /\ request.done /\ request.ok => \A doc \in request.doc : Matches(doc, body)
    /\ request.op # "search" /\ request.id \in Id => acked[request.id] = Unknown
    /\ request.op # "search" /\ ~request.done => request.id \in Named \cup {NoId}
    /\ request.op # "search" /\ request.done /\ request.ok =>
         /\ request.id \in Id
         /\ request.id \notin overtaken => store[request.id] = request.doc
    /\ request.op # "search" /\ (\E r \in late : r.id = request.id) /\ request.id # NoId =>
         request.id \in overtaken

\* What may still be done late is on an id nobody counts on.
LateInv ==
  \A r \in late :
    /\ IsRequest(r) /\ r.op # "search"
    /\ r.id \in Named \cup {NoId}
    /\ r.id \in Named \ overtaken => acked[r.id] = Unknown

\* The ids the server chooses are never overtaken.
OvertakenInv == overtaken \subseteq Named \cup {NoId}

IInv ==
  /\ OvertakenInv
  /\ DOMAIN store = Id /\ DOMAIN acked = Id
  /\ BodyInv
  /\ RequestInv
  /\ LateInv
  /\ AcknowledgedIsStored
  /\ \A i \in Generated : acked[i] # Unknown => acked[i] # NoDoc
  /\ found # Null => kind = "ESSearch" /\ \A doc \in found : Matches(doc, body)
=============================================================================
