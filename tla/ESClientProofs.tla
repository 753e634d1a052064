---------------------------- MODULE ESClientProofs ----------------------------
(***************************************************************************)
(* What the calls of icsearch.hpp that returned can rely on, for any       *)
(* fields, values, ids and number of requests.                             *)
(***************************************************************************)
EXTENDS ESClient, TLAPS

-----------------------------------------------------------------------------
(* Documents *)

\* Appending a field to an item gives an item.
LEMMA AppendedItem ==
  ASSUME NEW d \in Items, NEW k \in Field, NEW v \in Val
  PROVE  [f \in DOMAIN d \cup {k} |-> IF f = k THEN v ELSE d[f]] \in Items
<1>1. PICK F \in SUBSET Field : d \in [F -> Val]
  BY DEF Items
<1>2. F \cup {k} \in SUBSET Field
  OBVIOUS
<1>3. [f \in DOMAIN d \cup {k} |-> IF f = k THEN v ELSE d[f]] \in [F \cup {k} -> Val]
  BY <1>1
<1>. QED  BY <1>2, <1>3 DEF Items

LEMMA EmptyItem == NoFields \in Items
<1>1. NoFields \in [{} -> Val]
  BY DEF NoFields
<1>. QED  BY <1>1 DEF Items

\* Neither an item nor the settings of an index are "no document".
LEMMA ItemIsDoc == \A d \in Items : d # NoDoc
BY ESAssumption DEF Items

LEMMA SettingsAreDoc == \A F \in SUBSET Field : ("mappings" :> F) # NoDoc
BY ESAssumption

-----------------------------------------------------------------------------
(* The calls *)

LEMMA InitIInv == Init => IInv
<1>. SUFFICES ASSUME Init PROVE IInv
  OBVIOUS
<1>1. DOMAIN store = Id /\ AcknowledgedIsStored
      /\ DOMAIN acked = Id /\ \A i \in Id : acked[i] = Unknown
  BY DEF Init, AcknowledgedIsStored
<1>2. BodyInv /\ RequestInv /\ LateInv
  BY DEF Init, BodyInv, RequestInv, LateInv
<1>3. \A i \in Generated : acked[i] = Unknown
  BY <1>1 DEF Id
<1>. QED  BY <1>1, <1>2, <1>3 DEF Init, IInv, OvertakenInv

\* What the server is asked and what the caller was told do not change with the
\* rest.
LEMMA ToldInv ==
  ASSUME IInv, UNCHANGED <<store, late, told>>
  PROVE  /\ DOMAIN store' = Id /\ DOMAIN acked' = Id
         /\ LateInv' /\ AcknowledgedIsStored'
         /\ (\A i \in Generated : acked[i] # Unknown => acked[i] # NoDoc)'
BY DEF IInv, LateInv, IsRequest, AcknowledgedIsStored, told

\* What was found stays what it was as long as the object does.
LEMMA FoundInv ==
  ASSUME IInv, UNCHANGED object, found' = found \/ found' = Null
  PROVE  /\ BodyInv'
         /\ (found # Null => kind = "ESSearch" /\ \A doc \in found : Matches(doc, body))'
<1>1. BodyInv'
  BY DEF IInv, BodyInv, Asks, Kept, object
<1>. QED  BY <1>1 DEF IInv, Matches, Satisfies, object

\* An object that is made or appended to: nothing is under way, and nothing of
\* the server changes.
LEMMA ObjectInv ==
  ASSUME IInv, request = NoRequest, request' = request, found' = Null, BodyInv',
         UNCHANGED <<server, told>>
  PROVE  IInv'
<1>1. RequestInv'
  BY DEF RequestInv
<1>. QED  BY <1>1, ToldInv DEF IInv, OvertakenInv, server, told

LEMMA NewInv ==
  ASSUME IInv,
         \/ New("ESIndex", {}) \/ New("ESInsert", NoFields)
         \/ New("ESRemove", Null) \/ New("ESSearch", NoConditions)
  PROVE  IInv'
<1>1. BodyInv'
  BY EmptyItem DEF New, BodyInv, Asks, NoConditions, Clauses
<1>. QED  BY <1>1, ObjectInv DEF New, Free

LEMMA IndexAppendInv ==
  ASSUME IInv, NEW k \in Field, IndexAppend(k)
  PROVE  IInv'
<1>1. BodyInv'
  BY DEF IndexAppend, Appended, BodyInv, IInv
<1>. QED  BY <1>1, ObjectInv DEF IndexAppend, Appended, Free

LEMMA InsertAppendInv ==
  ASSUME IInv, NEW k \in Field, NEW v \in Val, InsertAppend(k, v)
  PROVE  IInv'
<1>1. /\ kind = "ESInsert" /\ kind' = kind /\ asked' = asked
      /\ body' = [f \in DOMAIN body \cup {k} |-> IF f = k THEN v ELSE body[f]]
  BY DEF InsertAppend, Appended
<1>2. body \in Items /\ asked = {}
  BY <1>1 DEF BodyInv, IInv
<1>3. body' \in Items
  BY <1>1, <1>2, AppendedItem
<1>4. BodyInv'
  BY <1>1, <1>2, <1>3 DEF BodyInv
<1>. QED  BY <1>4, ObjectInv DEF InsertAppend, Appended, Free

\* A condition goes where the caller's clause says.
LEMMA AppendsInv ==
  ASSUME IInv, NEW clause \in Clauses, NEW cond, NEW s, Appends(clause, cond, s),
         s.clause = clause, Kept(s) => s.cond = cond, clause = "should" => s.cond = cond
  PROVE  IInv'
<1>1. /\ kind = "ESSearch" /\ kind' = kind /\ asked' = asked \cup {s}
      /\ body' = [body EXCEPT ![clause] = @ \cup {cond}]
  BY DEF Appends, Appended
<1>2. Asks(body, asked)
  BY <1>1 DEF BodyInv, IInv
<1>3. /\ DOMAIN body' = Clauses /\ body'[clause] = body[clause] \cup {cond}
      /\ \A b \in Clauses : b # clause => body'[b] = body[b]
  BY <1>1, <1>2 DEF Asks
<1>4. \A t \in asked' : t.clause \in Clauses /\ (Kept(t) => t.cond \in body'[t.clause])
  BY <1>1, <1>2, <1>3 DEF Asks
<1>5. body'.must # {} => \E t \in asked' : t.clause = "must"
  BY <1>1, <1>2, <1>3 DEF Asks, Clauses
<1>6. /\ \A c \in body'.should : \E t \in asked' : t.clause = "should" /\ t.cond = c
      /\ \A t \in asked' : t.clause = "should" => t.cond \in body'.should
  BY <1>1, <1>2, <1>3 DEF Asks, Clauses
<1>7. Asks(body', asked')
  BY <1>3, <1>4, <1>5, <1>6 DEF Asks
<1>8. BodyInv'
  BY <1>1, <1>7 DEF BodyInv, Asks, Kept
<1>. QED  BY <1>8, ObjectInv DEF Appends, Appended, Free

LEMMA TermsInv ==
  ASSUME IInv, NEW k \in Field, NEW vals \in SUBSET Val,
         AppendMustTerms(k, vals) \/ AppendMustNotTerms(k, vals)
  PROVE  IInv'
<1>1. \A c \in Clauses :
        /\ Says(c, "terms", k, vals).clause = c
        /\ Kept(Says(c, "terms", k, vals)) =>
             Says(c, "terms", k, vals).cond = Condition("terms", "key", vals)
  BY DEF Says, Kept, Condition
<1>. QED  BY <1>1, AppendsInv DEF AppendMustTerms, AppendMustNotTerms, Clauses

LEMMA MatchInv ==
  ASSUME IInv, NEW k \in Field, NEW v \in Val, AppendShouldMatch(k, v) \/ AppendMustMatch(k, v)
  PROVE  IInv'
<1>1. \A c \in Clauses : /\ Says(c, "match", k, {v}).clause = c
                         /\ Says(c, "match", k, {v}).cond = Condition("match", k, {v})
  BY DEF Says
<1>. QED  BY <1>1, AppendsInv DEF AppendShouldMatch, AppendMustMatch, Clauses

\* A request is made of what it is given and has no answer yet; whoever counted
\* on its id does so no more.
LEMMA SendInv ==
  ASSUME IInv, NEW op, NEW id, NEW doc, Send(op, id, doc), UNCHANGED <<object, server>>,
         \/ op = "index" /\ doc # NoDoc /\ id \in Named \cup {NoId}
         \/ op = "remove" /\ id \in Named
         \/ op = "search" /\ doc = body /\ kind = "ESSearch" /\ id = NoId
  PROVE  IInv'
<1>1. /\ request' = [op |-> op, id |-> id, doc |-> doc, done |-> FALSE, ok |-> FALSE]
      /\ found' = Null
      /\ acked' = [i \in Id |-> IF i = id THEN Unknown ELSE acked[i]]
      /\ overtaken' = (overtaken \ {id}) \cup {r.id : r \in {l \in late : l.id = id}}
  BY DEF Send, Free
<1>2. /\ Named \subseteq Id /\ Generated \subseteq Id /\ NoId \notin Id
      /\ \A i \in Generated : i # id
  BY ESAssumption DEF Id
<1>3. /\ \A i \in overtaken' : i = id \/ i \in overtaken
      /\ \A i \in overtaken : i = id \/ i \in overtaken'
      /\ (\E r \in late : r.id = id) => id \in overtaken'
  BY <1>1
<1>4. DOMAIN store' = Id /\ DOMAIN acked' = Id /\ \A i \in Generated : acked'[i] # Unknown => acked'[i] # NoDoc
  BY <1>1, <1>2 DEF IInv, server
<1>5. RequestInv'
  BY <1>1, <1>2, <1>3 DEF RequestInv, IsRequest, object, server
<1>6. LateInv'
  <2>. SUFFICES ASSUME NEW r \in late
                PROVE  /\ IsRequest(r)' /\ r.op # "search"
                       /\ r.id \in Named \cup {NoId}
                       /\ r.id \in Named \ overtaken' => acked'[r.id] = Unknown
    BY DEF LateInv, server
  <2>1. /\ IsRequest(r) /\ r.op # "search" /\ r.id \in Named \cup {NoId}
        /\ r.id \in Named \ overtaken => acked[r.id] = Unknown
    BY DEF IInv, LateInv
  <2>. QED  BY <1>1, <1>2, <1>3, <2>1 DEF IsRequest
<1>7. AcknowledgedIsStored'
  BY <1>1, <1>3 DEF IInv, AcknowledgedIsStored, server
<1>8. BodyInv'
  BY <1>1, FoundInv
<1>9. OvertakenInv'
  BY <1>1 DEF IInv, OvertakenInv, LateInv
<1>. QED  BY <1>1, <1>4, <1>5, <1>6, <1>7, <1>8, <1>9 DEF IInv

LEMMA CallInv ==
  ASSUME IInv,
         \/ Create \/ Search
         \/ \E i \in Named \cup {NoId} : Insert(i)
         \/ \E i \in Named : Remove(i)
  PROVE  IInv'
<1>1. CASE Create
  <2>1. body \subseteq Field /\ DefaultId \in Named
    BY <1>1, ESAssumption DEF Create, IInv, BodyInv
  <2>. QED  BY <1>1, <2>1, SettingsAreDoc, SendInv DEF Create
<1>2. CASE Search
  BY <1>2, SendInv DEF Search
<1>3. ASSUME NEW i \in Named \cup {NoId}, Insert(i) PROVE IInv'
  <2>1. body # NoDoc
    BY <1>3, ItemIsDoc DEF Insert, IInv, BodyInv
  <2>. QED  BY <1>3, <2>1, SendInv DEF Insert
<1>4. ASSUME NEW i \in Named, Remove(i) PROVE IInv'
  BY <1>4, SendInv DEF Remove
<1>. QED  BY <1>1, <1>2, <1>3, <1>4

-----------------------------------------------------------------------------
(* The server *)

\* The document the request is about is the only one that changes; if nobody
\* counts on it the others are as they were told.
LEMMA AppliedInv ==
  ASSUME IInv, NEW r, IsRequest(r), NEW i \in Id, Applied(r, i), UNCHANGED told,
         r.op # "search", r.id \in Named \cup {NoId},
         r.id \in Named \ overtaken => acked[r.id] = Unknown
  PROVE  /\ DOMAIN store' = Id /\ DOMAIN acked' = Id
         /\ store'[i] = r.doc
         /\ \A j \in Id \ {i} : store'[j] = store[j]
         /\ AcknowledgedIsStored'
         /\ (i = r.id /\ i \in Named) \/ (r.id = NoId /\ i \in Generated /\ store[i] = NoDoc)
         /\ i \notin overtaken => acked[i] = Unknown
<1>1. DOMAIN store = Id /\ DOMAIN acked = Id /\ AcknowledgedIsStored
  BY DEF IInv
<1>2. store' = [store EXCEPT ![i] = r.doc]
  BY DEF Applied
<1>3. store'[i] = r.doc /\ \A j \in Id \ {i} : store'[j] = store[j]
  BY <1>1, <1>2
<1>4. (i = r.id /\ i \in Named) \/ (r.id = NoId /\ i \in Generated /\ store[i] = NoDoc)
  BY ESAssumption DEF Applied, Id
<1>5. i \notin overtaken => acked[i] = Unknown
  <2>1. CASE i = r.id /\ i \in Named
    BY <2>1
  <2>2. CASE i \in Generated /\ store[i] = NoDoc
    BY <1>1, <2>2 DEF IInv, AcknowledgedIsStored
  <2>. QED  BY <1>4, <2>1, <2>2
<1>. QED  BY <1>1, <1>2, <1>3, <1>4, <1>5 DEF AcknowledgedIsStored, told

LEMMA HandleInv ==
  ASSUME IInv, NEW ok \in BOOLEAN, Handle(ok)
  PROVE  IInv'
<1>1. /\ request # NoRequest /\ ~request.done /\ IsRequest(request)
      /\ UNCHANGED <<object, found, requests, visible, late, told>>
  BY DEF Handle, IInv, RequestInv
<1>2. /\ BodyInv'
      /\ (found # Null => kind = "ESSearch" /\ \A doc \in found : Matches(doc, body))'
  BY <1>1, FoundInv
<1>3. LateInv' /\ (\A i \in Generated : acked[i] # Unknown => acked[i] # NoDoc)'
  BY <1>1 DEF IInv, LateInv, IsRequest, told
<1>4. ASSUME NEW i \in Id, Applied(request, i),
             request' = [request EXCEPT !.id = i, !.done = TRUE, !.ok = ok]
      PROVE  IInv'
  <2>1. /\ request.op # "search" /\ (request.op = "remove" => i = request.id)
        /\ request.id \in Named \cup {NoId}
        /\ request.id \in Named => acked[request.id] = Unknown
    BY <1>1, <1>4 DEF Applied, IInv, RequestInv, Id
  <2>2. /\ DOMAIN store' = Id /\ DOMAIN acked' = Id /\ store'[i] = request.doc
        /\ AcknowledgedIsStored'
        /\ \/ i = request.id /\ i \in Named
           \/ request.id = NoId /\ i \in Generated /\ store[i] = NoDoc
    BY <1>1, <1>4, <2>1, AppliedInv
  <2>3. request' = [op |-> request.op, id |-> i, doc |-> request.doc, done |-> TRUE, ok |-> ok]
    BY <1>1, <1>4 DEF IsRequest
  <2>4. acked'[i] = Unknown
    <3>1. CASE i = request.id /\ i \in Named
      BY <1>1, <2>1, <3>1 DEF told
    <3>2. CASE i \in Generated /\ store[i] = NoDoc /\ i \in Id \ overtaken
      BY <1>1, <3>2 DEF IInv, AcknowledgedIsStored, told
    <3>3. CASE i \in Generated /\ i \in overtaken
      BY <3>3, ESAssumption DEF IInv, OvertakenInv
    <3>. QED  BY <2>2, <3>1, <3>2, <3>3
  <2>5. (\E r \in late' : r.id = i) => i \in overtaken'
    <3>. SUFFICES ASSUME NEW r \in late, r.id = i PROVE i \in overtaken
      BY <1>1 DEF told
    <3>1. i \in Named /\ i = request.id
      BY <2>2, ESAssumption DEF IInv, LateInv
    <3>. QED  BY <1>1, <2>1, <3>1, ESAssumption DEF IInv, RequestInv
  <2>6. RequestInv'
    BY <1>1, <2>1, <2>2, <2>3, <2>4, <2>5 DEF RequestInv, IsRequest
  <2>. QED  BY <1>1, <1>2, <1>3, <2>2, <2>6 DEF IInv, OvertakenInv, told
<1>5. ASSUME request.op = "search", UNCHANGED store,
             request' = [request EXCEPT !.done = TRUE, !.ok = ok,
               !.doc = {visible[i] : i \in {j \in Id : visible[j] # NoDoc
                                              /\ Matches(visible[j], request.doc)}}]
      PROVE  IInv'
  <2>. DEFINE answer == {visible[i] : i \in {j \in Id : visible[j] # NoDoc
                                               /\ Matches(visible[j], request.doc)}}
  <2>1. kind = "ESSearch" /\ request.doc = body
    BY <1>1, <1>5 DEF IInv, RequestInv
  <2>2. \A doc \in answer : Matches(doc, body)
    BY <2>1
  <2>3. request' = [op |-> "search", id |-> request.id, doc |-> answer, done |-> TRUE, ok |-> ok]
    <3>. HIDE DEF answer
    <3>. QED  BY <1>1, <1>5 DEF IsRequest, answer
  <2>. HIDE DEF answer
  <2>4. RequestInv'
    <3>1. IsRequest(request')
      BY <2>3 DEF IsRequest
    <3>2. \A doc \in request'.doc : Matches(doc, body')
      BY <1>1, <2>2, <2>3 DEF object
    <3>. QED  BY <1>1, <2>1, <2>3, <3>1, <3>2 DEF RequestInv, object
  <2>. QED  BY <1>1, <1>2, <1>5, <2>4, ToldInv DEF IInv, OvertakenInv, told
<1>. QED  BY <1>4, <1>5 DEF Handle

LEMMA RefuseInv ==
  ASSUME IInv, Refuse
  PROVE  IInv'
<1>1. /\ request # NoRequest /\ ~request.done /\ IsRequest(request)
      /\ UNCHANGED <<object, found, requests, server, told>>
  BY DEF Refuse, IInv, RequestInv
<1>2. request' = [op |-> request.op, id |-> request.id, doc |-> request.doc,
                  done |-> TRUE, ok |-> request.ok]
  BY <1>1 DEF Refuse, IsRequest
<1>3. request' = [request EXCEPT !.done = TRUE] /\ ~request.ok
  BY <1>1 DEF Refuse, IInv, RequestInv
<1>4. RequestInv'
  BY <1>1, <1>2, <1>3 DEF IInv, RequestInv, IsRequest, object, server, told
<1>. QED  BY <1>1, <1>4, ToldInv, FoundInv DEF IInv, OvertakenInv, server, told

\* What is reported done stays done: the request in progress is not on the id of
\* a late one unless it overtook it, and an insert without an id cannot be given
\* one that has a document.
LEMMA HandleLateInv ==
  ASSUME IInv, HandleLate
  PROVE  IInv'
<1>1. /\ UNCHANGED <<object, found, request, requests, visible, told>>
      /\ late' \subseteq late
  BY DEF HandleLate
<1>2. PICK r \in late, i \in Id : Applied(r, i)
  BY DEF HandleLate
<1>3. /\ IsRequest(r) /\ r.op # "search" /\ r.id \in Named \cup {NoId}
      /\ r.id \in Named \ overtaken => acked[r.id] = Unknown
  BY DEF IInv, LateInv
<1>4. /\ DOMAIN store' = Id /\ DOMAIN acked' = Id
      /\ \A j \in Id \ {i} : store'[j] = store[j]
      /\ AcknowledgedIsStored'
      /\ \/ i = r.id /\ i \in Named
         \/ r.id = NoId /\ i \in Generated /\ store[i] = NoDoc
  BY <1>1, <1>2, <1>3, AppliedInv
<1>5. ASSUME request # NoRequest, request.op # "search", request.done, request.ok,
             request.id \notin overtaken
      PROVE  store'[request.id] = request.doc
  <2>1. request.id \in Id /\ store[request.id] = request.doc /\ IsRequest(request)
    BY <1>5 DEF IInv, RequestInv
  <2>2. request.id # NoId
    BY <2>1, ESAssumption DEF Id
  <2>3. CASE i = r.id /\ i \in Named
    <3>1. request.id # i
      BY <1>5, <2>2, <2>3 DEF IInv, RequestInv
    <3>. QED  BY <1>4, <2>1, <3>1
  <2>4. CASE i \in Generated /\ store[i] = NoDoc
    <3>1. request.id # i
      BY <1>5, <2>1, <2>4, ESAssumption DEF IsRequest
    <3>. QED  BY <1>4, <2>1, <3>1
  <2>. QED  BY <1>4, <2>3, <2>4
<1>6. RequestInv'
  BY <1>1, <1>5 DEF IInv, RequestInv, IsRequest, object, told
<1>7. LateInv'
  BY <1>1 DEF IInv, LateInv, IsRequest, told
<1>. QED  BY <1>1, <1>4, <1>6, <1>7, FoundInv DEF IInv, OvertakenInv, told

LEMMA RefreshInv ==
  ASSUME IInv, Refresh
  PROVE  IInv'
<1>1. UNCHANGED <<object, found, request, requests, store, late, told>>
  BY DEF Refresh
<1>2. RequestInv'
  BY <1>1 DEF IInv, RequestInv, IsRequest, object, told
<1>. QED  BY <1>1, <1>2, ToldInv, FoundInv DEF IInv, OvertakenInv, told

-----------------------------------------------------------------------------
(* The end of a call *)

LEMMA ReturnsInv ==
  ASSUME IInv, Returns
  PROVE  IInv'
<1>1. /\ request # NoRequest /\ request.done /\ request' = NoRequest
      /\ IsRequest(request)
      /\ UNCHANGED <<object, requests, server, overtaken>>
      /\ acked' = [i \in Id |-> IF request.op # "search" /\ i = request.id /\ request.ok
                                THEN request.doc ELSE acked[i]]
  BY DEF Returns, IInv, RequestInv
<1>2. AcknowledgedIsStored'
  BY <1>1 DEF IInv, RequestInv, AcknowledgedIsStored, server
<1>3. RequestInv'
  BY <1>1 DEF RequestInv
<1>4. (found # Null => kind = "ESSearch" /\ \A doc \in found : Matches(doc, body))'
  <2>1. CASE request.op = "search" /\ request.ok /\ found' = request.doc
    <3>1. kind = "ESSearch" /\ \A doc \in request.doc : Matches(doc, body)
      BY <1>1, <2>1 DEF IInv, RequestInv
    <3>. QED  BY <1>1, <2>1, <3>1 DEF object, Matches, Satisfies
  <2>2. CASE found' = Null
    BY <2>2
  <2>3. CASE UNCHANGED found
    BY <1>1, <2>3, FoundInv
  <2>. QED  BY <2>1, <2>2, <2>3 DEF Returns
<1>5. \A i \in Generated : acked'[i] # Unknown => acked'[i] # NoDoc
  <2>. SUFFICES ASSUME NEW i \in Generated, acked'[i] # Unknown PROVE acked'[i] # NoDoc
    OBVIOUS
  <2>1. CASE request.op # "search" /\ i = request.id /\ request.ok
    <3>1. request.op = "index" /\ request.doc # NoDoc
      BY <1>1, <2>1, ESAssumption DEF IsRequest
    <3>. QED  BY <1>1, <2>1, <3>1 DEF Id
  <2>2. CASE ~(request.op # "search" /\ i = request.id /\ request.ok)
    BY <1>1, <2>2 DEF IInv, Id
  <2>. QED  BY <2>1, <2>2
<1>6. LateInv'
  <2>. SUFFICES ASSUME NEW r \in late
                PROVE  /\ IsRequest(r)' /\ r.op # "search"
                       /\ r.id \in Named \cup {NoId}
                       /\ r.id \in Named \ overtaken => acked'[r.id] = Unknown
    BY <1>1 DEF LateInv, server
  <2>1. /\ IsRequest(r) /\ r.op # "search" /\ r.id \in Named \cup {NoId}
        /\ r.id \in Named \ overtaken => acked[r.id] = Unknown
    BY DEF IInv, LateInv
  <2>2. ASSUME r.id \in Named \ overtaken, r.id = request.id, request.op # "search"
        PROVE  FALSE
    BY <1>1, <2>2, ESAssumption DEF IInv, RequestInv
  <2>. QED  BY <1>1, <2>1, <2>2 DEF IsRequest, Id
<1>7. BodyInv'
  BY <1>1 DEF IInv, BodyInv, Asks, Kept, object
<1>. QED  BY <1>1, <1>2, <1>3, <1>4, <1>5, <1>6, <1>7 DEF IInv, OvertakenInv, server

LEMMA ThrowsInv ==
  ASSUME IInv, Throws
  PROVE  IInv'
<1>1. /\ request # NoRequest /\ IsRequest(request) /\ request' = NoRequest
      /\ \/ late' = late
         \/ ~request.done /\ request.op # "search" /\ late' = late \cup {request}
      /\ found' = Null \/ found' = found
      /\ UNCHANGED <<object, requests, store, visible, told>>
  BY DEF Throws, IInv, RequestInv
<1>2. RequestInv'
  BY <1>1 DEF RequestInv
<1>3. AcknowledgedIsStored'
  BY <1>1 DEF IInv, AcknowledgedIsStored, told
<1>4. LateInv'
  <2>1. CASE late' = late
    BY <1>1, <2>1 DEF IInv, LateInv, IsRequest, told
  <2>2. CASE ~request.done /\ request.op # "search" /\ late' = late \cup {request}
    <3>1. /\ request.id \in Named \cup {NoId}
          /\ request.id \in Named => acked[request.id] = Unknown
      BY <1>1, <2>2 DEF IInv, RequestInv, Id
    <3>. QED  BY <1>1, <2>2, <3>1 DEF IInv, LateInv, IsRequest, told
  <2>. QED  BY <1>1, <2>1, <2>2
<1>. QED  BY <1>1, <1>2, <1>3, <1>4, FoundInv DEF IInv, OvertakenInv, told

-----------------------------------------------------------------------------
(* The specification *)

LEMMA NextIInv == IInv /\ [Next]_vars => IInv'
<1>. SUFFICES ASSUME IInv, [Next]_vars PROVE IInv'
  OBVIOUS
<1>1. CASE UNCHANGED vars
  <2>1. UNCHANGED <<object, found, request, requests, store, visible, late, told>>
    BY <1>1 DEF vars, server
  <2>2. RequestInv'
    BY <2>1 DEF IInv, RequestInv, IsRequest, object, told
  <2>. QED  BY <2>1, <2>2, ToldInv, FoundInv DEF IInv, OvertakenInv, told
<1>2. CASE Next
  BY <1>2, NewInv, IndexAppendInv, InsertAppendInv, TermsInv, MatchInv, CallInv,
     HandleInv, RefuseInv, HandleLateInv, RefreshInv, ReturnsInv, ThrowsInv
     DEF Next
<1>. QED  BY <1>1, <1>2

\* What a call did that returned true stays until the next call on its id, for any
\* number of calls on other ids, unless it overtook one that was given up
\* (icsearch.hpp:84-98, 130-143, 160-173).
THEOREM AcknowledgedStored == Spec => []AcknowledgedIsStored
<1>1. IInv => AcknowledgedIsStored
  BY DEF IInv
<1>. QED  BY <1>1, InitIInv, NextIInv, PTL DEF Spec

\* Every document a search returns satisfies each condition under the field and in
\* the clause the caller named, but for the terms conditions whose field the code
\* drops, and one of the optional ones when nothing must be (icsearch.hpp:189-260).
THEOREM SearchAnswers == Spec => []SearchAnswersQuery
<1>1. IInv => SearchAnswersQuery
  <2>. SUFFICES ASSUME IInv, found # Null, NEW doc \in found
                PROVE  /\ \A s \in asked : s.clause = "must" /\ Kept(s) => Satisfies(doc, s.cond)
                       /\ \A s \in asked :
                            s.clause = "must_not" /\ Kept(s) => ~Satisfies(doc, s.cond)
                       /\ (\E s \in asked : s.clause = "should")
                            /\ (\A s \in asked : s.clause # "must") =>
                          \E s \in asked : s.clause = "should" /\ Satisfies(doc, s.cond)
    BY DEF SearchAnswersQuery
  <2>1. Asks(body, asked) /\ Matches(doc, body)
    BY DEF IInv, BodyInv
  <2>2. /\ \A s \in asked : s.clause = "must" /\ Kept(s) => Satisfies(doc, s.cond)
        /\ \A s \in asked : s.clause = "must_not" /\ Kept(s) => ~Satisfies(doc, s.cond)
    BY <2>1 DEF Asks, Matches
  <2>3. ASSUME \E s \in asked : s.clause = "should", \A s \in asked : s.clause # "must"
        PROVE  \E s \in asked : s.clause = "should" /\ Satisfies(doc, s.cond)
    <3>1. body.must = {} /\ body.should # {}
      BY <2>1, <2>3 DEF Asks
    <3>2. PICK c \in body.should : Satisfies(doc, c)
      BY <2>1, <3>1 DEF Matches
    <3>. QED  BY <2>1, <3>2 DEF Asks
  <2>. QED  BY <2>2, <2>3
<1>. QED  BY <1>1, InitIInv, NextIInv, PTL DEF Spec
=============================================================================
