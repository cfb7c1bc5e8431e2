------------------------------ MODULE NbObject ------------------------------
(***************************************************************************)
(* Copies of the server's objects in one bucket (src/src/nb_object.cc) and *)
(* how applications get them (src/src/nb_object_bucket.cc).  A copy is an  *)
(* NbObject in the hands of one thread of one device; several copies of an *)
(* object may be around.  A call sends one request and gets its reply, or  *)
(* gives up; a request that was given up may still reach the server, even  *)
(* after later ones.                                                       *)
(*                                                                         *)
(* The server is external.  It gives every version of an object an ETag of *)
(* its own, answers an update with the version it has made, and refuses a  *)
(* request that names another ETag than the current one (409,              *)
(* etag_mismatch: functional_tests/nb_object_ft.cc:2399).  It may refuse   *)
(* any other request too.                                                  *)
(*                                                                         *)
(* The content of an object is the set of the edits in it.  ACL and times  *)
(* are left out: SetCurrentParam treats them as it does the content.  The  *)
(* early returns for an empty bucket name, ID or JSON change nothing and   *)
(* send nothing; they are guards here.                                     *)
(***************************************************************************)
EXTENDS Naturals, FiniteSets, SequencesExt

CONSTANTS Copies,       \* the NbObjects of the applications
          ObjectIds,    \* the object IDs the server may give
          NoId,         \* the empty object ID
          Edits,        \* the fields an application may set
          Offered,      \* the operations it uses
          Projections,  \* for Query: sets of fields the server leaves out; those of
                        \*   the content are not among them (see the README)
          Garbled,      \* whether the body of a 2xx reply may not parse
          MaxETag,      \* bounds the versions
          MaxCalls      \* bounds the calls of all copies together

Operations == {"Save", "PartUpdateObject", "DeleteObject", "GetObject", "Query"}
Methods    == {"POST", "full_update", "part_update", "DELETE", "GET", "query"}
Fields     == {"_id", "etag", "value", "_deleted"}

ASSUME ObjectAssumption ==
  /\ Offered \subseteq Operations /\ Projections \subseteq SUBSET (Fields \ {"value"})
  /\ NoId \notin ObjectIds
  /\ Garbled \in BOOLEAN /\ MaxETag \in Nat /\ MaxCalls \in Nat

VARIABLES
  copy,       \* copy[c]: the members of the NbObject
  call,       \* call[c]: the request of the call c is in
  calls,      \* calls[c]: how many calls c has made
  adrift,     \* requests of calls that gave up, which may still arrive
  unheard,    \* the calls that did what their caller does not know of
  objects,    \* the newest version of each object
  versions    \* every version there ever was, and the call that made it

vars == <<copy, call, calls, adrift, unheard, objects, versions>>

NoETag    == 0
NewObject == [object_id |-> NoId, etag |-> NoETag, value |-> {}, deleted |-> FALSE]

Member(json, field, default) ==
  IF field \in DOMAIN json THEN json[field] ELSE default

SetCurrentParamSwapped(object, json) ==  \* SetCurrentParam, ID and ETag swapped
  [object_id |-> Member(json, "etag", NoId),
   etag      |-> Member(json, "_id", NoETag),
   value     |-> Member(json, "value", {}),
   deleted   |-> Member(json, "_deleted", FALSE)]

SetCurrentParamNoId(object, json) ==     \* SetCurrentParam that leaves the ID alone
  [object_id |-> object.object_id,
   etag      |-> Member(json, "etag", NoETag),
   value     |-> Member(json, "value", {}),
   deleted   |-> Member(json, "_deleted", FALSE)]

SetCurrentParamKeeps(object, json) ==    \* without clearing what is missing
  [object_id |-> Member(json, "_id", object.object_id),
   etag      |-> Member(json, "etag", object.etag),
   value     |-> Member(json, "value", {}),
   deleted   |-> Member(json, "_deleted", object.deleted)]

(* Whatever the JSON lacks is cleared.                                     *)
SetCurrentParam(object, json) ==
  [object_id |-> Member(json, "_id", NoId),
   etag      |-> Member(json, "etag", NoETag),
   value     |-> Member(json, "value", {}),
   deleted   |-> Member(json, "_deleted", FALSE)]
-----------------------------------------------------------------------------
(* Requests.  Not sent are "seen" and "guarded": what the caller's copy    *)
(* had at the time, and whether it had an ETag.                            *)
Plain(c, method) ==
  [by |-> <<c, calls[c] + 1>>, method |-> method, object_id |-> NoId,
   etag |-> NoETag, value |-> {}, mark |-> FALSE, projection |-> {},
   seen |-> {}, guarded |-> FALSE]

Named(c, method) ==
  [Plain(c, method) EXCEPT !.object_id = copy[c].object_id, !.etag = copy[c].etag,
                           !.seen = copy[c].value,
                           !.guarded = copy[c].etag # NoETag]

SaveRequestBlind(c) ==                   \* SaveRequest without the ETag
  IF copy[c].object_id = NoId
  THEN [Plain(c, "POST") EXCEPT !.value = copy[c].value]
  ELSE [Named(c, "full_update") EXCEPT !.value = copy[c].value, !.etag = NoETag]

SaveRequest(c) ==
  IF copy[c].object_id = NoId
  THEN [Plain(c, "POST") EXCEPT !.value = copy[c].value]
  ELSE [Named(c, "full_update") EXCEPT !.value = copy[c].value]

DeleteRequestBlind(c, delete_mark) ==    \* DeleteRequest without the ETag
  [Named(c, "DELETE") EXCEPT !.mark = delete_mark, !.etag = NoETag]

DeleteRequest(c, delete_mark) == [Named(c, "DELETE") EXCEPT !.mark = delete_mark]

NoCall    == [method |-> "none"]
Idle(c)   == call[c] = NoCall
CallsMade == FoldFunction(+, 0, calls)

Send(c, operation, request) ==
  /\ Idle(c) /\ operation \in Offered
  /\ CallsMade < MaxCalls
  /\ call' = [call EXCEPT ![c] = request]
  /\ calls' = [calls EXCEPT ![c] = @ + 1]
  /\ UNCHANGED <<copy, adrift, unheard, objects, versions>>

Init ==
  /\ copy = [c \in Copies |-> NewObject]
  /\ call = [c \in Copies |-> NoCall]
  /\ calls = [c \in Copies |-> 0]
  /\ adrift = {} /\ unheard = {}
  /\ objects = [o \in ObjectIds |->
                  [id |-> o, etag |-> NoETag, value |-> {}, state |-> "none", by |-> <<>>,
                   guarded |-> FALSE, seen |-> {}]]
  /\ versions = {}

(* The application sets a field.                                           *)
Edit(c, e) ==
  /\ Idle(c)
  /\ copy' = [copy EXCEPT ![c].value = @ \cup {e}]
  /\ UNCHANGED <<call, calls, adrift, unheard, objects, versions>>

Save(c) == Send(c, "Save", SaveRequest(c))

PartUpdateObject(c, e) ==
  /\ copy[c].object_id # NoId
  /\ Send(c, "PartUpdateObject", [Named(c, "part_update") EXCEPT !.value = {e}])

DeleteObject(c, delete_mark) ==
  /\ copy[c].object_id # NoId
  /\ Send(c, "DeleteObject", DeleteRequest(c, delete_mark))

GetObject(c, o, delete_mark) ==
  Send(c, "GetObject", [Plain(c, "GET") EXCEPT !.object_id = o, !.mark = delete_mark])

Query(c, delete_mark, projection) ==
  Send(c, "Query", [Plain(c, "query") EXCEPT !.mark = delete_mark,
                                            !.projection = projection])
-----------------------------------------------------------------------------
(* The server.  A version as JSON, without the fields projected away.      *)
ToJson(v, projection) ==
  LET shown == ({"_id", "etag", "value"} \cup
                 (IF v.state = "marked" THEN {"_deleted"} ELSE {})) \ projection
  IN [f \in shown |-> CASE f = "_id"      -> v.id
                        [] f = "etag"     -> v.etag
                        [] f = "value"    -> v.value
                        [] f = "_deleted" -> TRUE]

Exists(o)        == objects[o].state \in {"live", "marked"}
Visible(o, mark) == objects[o].state = "live" \/ (mark /\ objects[o].state = "marked")
Reads            == {"GET", "query"}

(* What a request may make of the object it names: its state and content.  *)
Accepted(r) ==
  LET o == r.object_id
  IN o \in ObjectIds /\ Exists(o) /\ r.etag \in {NoETag, objects[o].etag}

Written(r) ==
  LET o == r.object_id
  IN CASE r.method = "POST" ->
            {[id |-> new, value |-> r.value, state |-> "live"] :
               new \in {n \in ObjectIds : objects[n].state = "none"}}
       [] r.method = "full_update" /\ Accepted(r) ->
            {[id |-> o, value |-> r.value, state |-> s] : s \in {"live", objects[o].state}}
       [] r.method = "part_update" /\ Accepted(r) ->
            {[id |-> o, value |-> objects[o].value \cup r.value, state |-> objects[o].state]}
       [] r.method = "DELETE" /\ Accepted(r) ->
            {[id |-> o, value |-> objects[o].value,
              state |-> IF r.mark THEN "marked" ELSE "gone"]}
       [] OTHER -> {}

(* The results of a request that only reads, in the order of the server.   *)
Found(r) ==
  CASE r.method = "GET" ->
         {<<ToJson(objects[o], {})>> :
            o \in {p \in {r.object_id} : p \in ObjectIds /\ Visible(p, r.mark)}}
    [] r.method = "query" ->
         {[i \in DOMAIN order |-> ToJson(objects[order[i]], r.projection)] :
            order \in SetToSeqs({o \in ObjectIds : Visible(o, r.mark)})}
    [] OTHER -> {}

Ok(results) == [ok |-> TRUE, results |-> results]
Refused     == [ok |-> FALSE, results |-> <<>>]
NoMembers   == [field \in {} |-> {}]

Version(r, w) ==
  [id |-> w.id, etag |-> Cardinality(versions) + 1, value |-> w.value,
   state |-> w.state, by |-> r.by,
   guarded |-> r.guarded, seen |-> r.seen]

(* A reply of status 2xx, whose body may be cut short or no JSON at all:   *)
(* that reads as an object without members.                                *)
Replies(r, results) ==
  {Ok(results)} \cup
    IF ~Garbled THEN {}
    ELSE {Ok(IF r.method = "query" THEN <<>> ELSE [i \in DOMAIN results |-> NoMembers])}

(* What the server may do with a request: the version it makes, if any,    *)
(* and its reply.  A bound on the versions is a refusal here.              *)
Outcomes(r) ==
  {[made |-> {}, reply |-> Refused]}
    \cup {[made |-> {}, reply |-> reply] :
             reply \in UNION {Replies(r, results) : results \in Found(r)}}
    \cup UNION {{[made |-> {Version(r, w)}, reply |-> reply] :
                   reply \in Replies(r, IF w.state = "gone" THEN <<>>
                                        ELSE <<ToJson(Version(r, w), {})>>)} :
                w \in IF Cardinality(versions) < MaxETag THEN Written(r) ELSE {}}

Make(made) ==
  /\ objects' = [o \in ObjectIds |-> IF \E v \in made : v.id = o
                                    THEN CHOOSE v \in made : v.id = o
                                    ELSE objects[o]]
  /\ versions' = versions \cup made

-----------------------------------------------------------------------------
(* What becomes of the copy.  A physical delete leaves it alone; GetObject *)
(* makes a new one; Query makes one per result, all of them of the same    *)
(* NbObject, and the application picks one.                                *)
QueryResult(results) ==
  LET object[i \in {0} \cup DOMAIN results] ==
        IF i = 0 THEN NewObject ELSE SetCurrentParam(object[i - 1], results[i])
  IN object

ReceivedNotPart(c, request, results) ==  \* a partial update's reply is not taken over
  CASE request.method = "query" ->
         IF results = <<>> THEN {copy[c]} ELSE {QueryResult(results)[i] : i \in DOMAIN results}
    [] request.method = "GET" -> {SetCurrentParam(NewObject, results[1])}
    [] request.method \in {"POST", "full_update"} -> {SetCurrentParam(copy[c], results[1])}
    [] request.method = "DELETE" /\ request.mark -> {SetCurrentParam(copy[c], results[1])}
    [] OTHER -> {copy[c]}

Received(c, request, results) ==
  CASE request.method = "query" ->
         IF results = <<>> THEN {copy[c]} ELSE {QueryResult(results)[i] : i \in DOMAIN results}
    [] request.method = "GET" -> {SetCurrentParam(NewObject, results[1])}
    [] request.method \in {"POST", "full_update", "part_update"} ->
         {SetCurrentParam(copy[c], results[1])}
    [] request.method = "DELETE" /\ request.mark -> {SetCurrentParam(copy[c], results[1])}
    [] OTHER -> {copy[c]}

Heard(c, r, reply) ==
  /\ copy' \in IF reply.ok THEN {[copy EXCEPT ![c] = new] : new \in Received(c, r, reply.results)}
                ELSE {copy}
  /\ unheard' = unheard \cup
       (IF \A i \in DOMAIN reply.results : "_id" \in DOMAIN reply.results[i]
        THEN {} ELSE {r.by})

Unheard(made) == UNCHANGED copy /\ unheard' = unheard \cup {v.by : v \in made}

(* The server performs the request, and its reply arrives or gets lost.    *)
(* The caller waits meanwhile, so that it makes no difference to anybody   *)
(* when the reply arrives.                                                 *)
Perform(c) ==
  /\ ~Idle(c)
  /\ \E outcome \in Outcomes(call[c]) :
       /\ Make(outcome.made)
       /\ Heard(c, call[c], outcome.reply) \/ Unheard(outcome.made)
  /\ call' = [call EXCEPT ![c] = NoCall]
  /\ UNCHANGED <<calls, adrift>>

(* The call times out, or the connection breaks, before the server has     *)
(* performed the request; it may do so later.                              *)
GiveUp(c) ==
  /\ ~Idle(c)
  /\ adrift' = adrift \cup (IF call[c].method \in Reads THEN {} ELSE {call[c]})
  /\ call' = [call EXCEPT ![c] = NoCall]
  /\ UNCHANGED <<copy, calls, unheard, objects, versions>>

ServerLate ==
  \E r \in adrift :
    /\ \E outcome \in Outcomes(r) : Make(outcome.made) /\ Unheard(outcome.made)
    /\ adrift' = adrift \ {r}
    /\ UNCHANGED <<call, calls>>

Start(c) ==
  \/ Save(c)
  \/ \E e \in Edits : Edit(c, e) \/ PartUpdateObject(c, e)
  \/ \E delete_mark \in BOOLEAN :
       \/ DeleteObject(c, delete_mark)
       \/ \E o \in ObjectIds : GetObject(c, o, delete_mark)
       \/ \E projection \in Projections : Query(c, delete_mark, projection)

Next ==
  \/ \E c \in Copies : Start(c) \/ Perform(c) \/ GiveUp(c)
  \/ ServerLate

Spec == Init /\ [][Next]_vars
-----------------------------------------------------------------------------
Object  == [object_id : ObjectIds \cup {NoId}, etag : Nat, value : SUBSET Edits,
            deleted : BOOLEAN]
CallId  == Copies \X Nat
Request == [by : CallId, method : Methods, object_id : ObjectIds \cup {NoId}, etag : Nat,
            value : SUBSET Edits, mark : BOOLEAN, projection : Projections \cup {{}},
            seen : SUBSET Edits, guarded : BOOLEAN]
Record  == [id : ObjectIds, etag : Nat, value : SUBSET Edits,
            state : {"none", "live", "marked", "gone"}, by : CallId \cup {<<>>},
            guarded : BOOLEAN, seen : SUBSET Edits]

TypeOK ==
  /\ copy \in [Copies -> Object]
  /\ call \in [Copies -> Request \cup {NoCall}] /\ adrift \subseteq Request
  /\ calls \in [Copies -> Nat]
  /\ unheard \subseteq CallId
  /\ versions \subseteq Record /\ \A v \in versions : v.etag \in 1..MaxETag
  /\ objects \in [ObjectIds -> Record] /\ \A o \in ObjectIds : objects[o].id = o

(* Optimistic locking (nb_object.cc:67, 109, 167): no update or delete     *)
(* throws away what another call has stored and its caller has never seen. *)
(* Save overwrites the whole object, from a copy that may be stale or with *)
(* a request that arrives late; the ETag makes the server refuse it then.  *)
(* A copy without an ETag is no such protection: one made by a projection, *)
(* or by a reply that could not be read.                                   *)
NothingLost ==
  [][\A o \in ObjectIds :
       LET new == objects'[o]
       IN Exists(o) /\ new # objects[o] /\ new.guarded =>
            /\ new.state # "gone" => objects[o].value \subseteq new.value
            /\ new.state = "gone" => objects[o].value \subseteq new.seen]_vars

(* Together the copies and the server are a store with atomic updates.     *)
Store == INSTANCE OptimisticStore WITH
  Names <- ObjectIds,
  store <- [o \in ObjectIds |-> [state |-> objects[o].state, value |-> objects[o].value,
                                 guarded |-> objects[o].guarded]]

ImplementsStore == Store!Spec

(* A copy knows the ID of what it has created (nb_object.cc:145), so it    *)
(* creates one object, and one more at most for each call it does not know *)
(* to be done, or whose reply had no ID in it (nb_object.cc:188).          *)
Created(c) ==
  {o \in ObjectIds : \E v \in versions :
     /\ v.id = o /\ v.by[1] = c
     /\ \A w \in versions : w.id = o => v.etag <= w.etag}

CreatedOnce ==
  \A c \in Copies :
    Cardinality(Created(c)) <= 1 + Cardinality({u \in unheard : u[1] = c})

(* A copy is up to date with its own updates, whatever other calls it has  *)
(* made in between: a later update of it is not refused (409) because of   *)
(* an earlier one of its own, unless the reply to that was lost.           *)
KnowsOwn ==
  \A c \in Copies :
    Idle(c) /\ copy[c].object_id # NoId =>
      LET newest == objects[copy[c].object_id]
      IN newest.by[1] = c /\ newest.by \notin unheard /\ newest.state # "gone"
           => copy[c].etag \in {newest.etag, NoETag}

MarkMayBeMissing == \E p \in Projections : "_deleted" \in p /\ "etag" \notin p

IsOne(k) ==
  \/ k.object_id = NoId /\ k.etag = NoETag /\ ~k.deleted
  \/ \E v \in versions :
       /\ k.object_id \in {v.id, NoId} /\ k.etag \in {v.etag, NoETag}
       /\ v.value \subseteq k.value
       /\ k.deleted => v.state = "marked"
       /\ v.state = "marked" => k.deleted \/ k.etag = NoETag \/ MarkMayBeMissing

(* A copy is of one version of one object (nb_object.cc:188): its ID, ETag *)
(* and delete mark belong together and its content is that of the version  *)
(* and what the application has added.  Query uses one NbObject for all    *)
(* its results (nb_object_bucket.cc:94); nothing of one result shows in    *)
(* the next, nor anything of the version before in the one after.          *)
CopyIsOne == \A c \in Copies : IsOne(copy[c])
=============================================================================
