--------------------------- MODULE NbObjectProofs ---------------------------
(***************************************************************************)
(* Proofs about NbObject, for every set of copies, objects, edits and      *)
(* operations, every bound, and replies that can or cannot be read.        *)
(***************************************************************************)
EXTENDS NbObject, FiniteSetTheorems, TLAPS

USE DEF NoETag
-----------------------------------------------------------------------------
(* The inductive invariant.                                                *)

(* The server gives every version an ETag of its own, and has the newest.  *)
ETags ==
  /\ IsFiniteSet(versions) /\ Cardinality(versions) <= MaxETag
  /\ \A v \in versions : v.etag \in 1..Cardinality(versions)
  /\ \A v, w \in versions : v.etag = w.etag => v = w
  /\ \A o \in ObjectIds : objects[o].state # "none" => objects[o] \in versions

(* A request that names an ETag does so for a caller who has seen what is  *)
(* in the version of that ETag; Save sends all of it.                      *)
Backed(r, all) ==
  /\ r.method = "POST" => ~r.guarded
  /\ r.method \in {"full_update", "part_update", "DELETE"} =>
       /\ r.guarded => \E v \in all : v.etag = r.etag /\ v.value \subseteq r.seen
       /\ r.guarded => r.etag # NoETag
       /\ r.method = "full_update" => r.value = r.seen

Requests ==
  /\ \A r \in adrift : Backed(r, versions)
  /\ \A c \in Copies : call[c] # NoCall => Backed(call[c], versions) /\ call[c].by[1] = c

(* A copy k of c's is of one version, and up to date with what c has done, *)
(* also while c is in a call (CopyIsOne and KnowsOwn).                     *)
OneOf(k, all) ==
  \/ k.object_id = NoId /\ k.etag = NoETag /\ ~k.deleted
  \/ \E v \in all :
       /\ k.object_id \in {v.id, NoId} /\ k.etag \in {v.etag, NoETag}
       /\ v.value \subseteq k.value
       /\ k.deleted => v.state = "marked"
       /\ v.state = "marked" => k.deleted \/ k.etag = NoETag \/ MarkMayBeMissing

UpToDate(k, c, newest, unknown) ==
  k.object_id # NoId =>
    LET v == newest[k.object_id]
    IN v.by[1] = c /\ v.by \notin unknown /\ v.state # "gone" => k.etag \in {v.etag, NoETag}

Good(k, c, all, newest, unknown) ==
  k \in Object /\ OneOf(k, all) /\ UpToDate(k, c, newest, unknown)

GoodCopies == \A c \in Copies : Good(copy[c], c, versions, objects, unheard)

ObjectInv == TypeOK /\ ETags /\ Requests /\ GoodCopies
-----------------------------------------------------------------------------
(* What a copy becomes.                                                    *)

LEMMA NoCallIsNoRequest == NoCall \notin Request
BY DEF NoCall, Request, Methods

(* Nothing of one result of a query shows in the next.                     *)
LEMMA QueryResultIs ==
  ASSUME NEW results, NEW i \in DOMAIN results
  PROVE  QueryResult(results)[i] =
           IF i = 0 THEN NewObject ELSE SetCurrentParam(NewObject, results[i])
<1> DEFINE F(object) == [j \in {0} \cup DOMAIN results |->
                            IF j = 0 THEN NewObject ELSE SetCurrentParam(object[j - 1], results[j])]
           g == [j \in {0} \cup DOMAIN results |->
                            IF j = 0 THEN NewObject ELSE SetCurrentParam(NewObject, results[j])]
<1>1. ASSUME NEW a, NEW b, NEW json PROVE SetCurrentParam(a, json) = SetCurrentParam(b, json)
  BY DEF SetCurrentParam
<1>2. g = F(g)
  BY <1>1
<1>3. QueryResult(results) = CHOOSE object : object = F(object)
  BY DEF QueryResult
<1>4. QueryResult(results) = F(QueryResult(results))
  <2> HIDE DEF F, g
  <2> QED BY <1>2, <1>3
<1> QED BY <1>1, <1>4

LEMMA FromVersion ==
  ASSUME NEW v \in Record, NEW projection \in Projections \cup {{}}, NEW object,
         v.etag # NoETag, ObjectAssumption
  PROVE  LET k == SetCurrentParam(object, ToJson(v, projection))
         IN /\ k \in Object
            /\ k.object_id \in {v.id, NoId} /\ k.etag \in {v.etag, NoETag}
            /\ k.value = v.value
            /\ k.deleted => v.state = "marked"
            /\ v.state = "marked" => k.deleted \/ k.etag = NoETag \/ MarkMayBeMissing
<1> DEFINE json == ToJson(v, projection)
           shown == ({"_id", "etag", "value"} \cup
                      (IF v.state = "marked" THEN {"_deleted"} ELSE {})) \ projection
<1>1. DOMAIN json = shown
  BY DEF ToJson
<1>2. /\ "_id" \in shown => json["_id"] = v.id
      /\ "etag" \in shown => json["etag"] = v.etag
      /\ "value" \in shown => json["value"] = v.value
      /\ "_deleted" \in shown => json["_deleted"] = TRUE
  BY DEF ToJson
<1>3. "value" \in shown
  BY DEF ObjectAssumption
<1>4. "_deleted" \in shown <=> v.state = "marked" /\ "_deleted" \notin projection
  OBVIOUS
<1> HIDE DEF json, shown
<1>5. v.id \in ObjectIds /\ v.etag \in Nat /\ v.value \in SUBSET Edits
  BY DEF Record
<1>6. "_deleted" \in projection /\ "etag" \notin projection => MarkMayBeMissing
  BY DEF MarkMayBeMissing
<1> QED BY <1>1, <1>2, <1>3, <1>4, <1>5, <1>6 DEF SetCurrentParam, Member, Object, json, shown

LEMMA NewIsGood ==
  ASSUME NEW c, NEW all, NEW newest, NEW unknown
  PROVE  Good(NewObject, c, all, newest, unknown)
BY DEF Good, NewObject, Object, OneOf, UpToDate

(* A copy of the newest version of an object is good, whoever has it.      *)
LEMMA NewestIsGood ==
  ASSUME ObjectAssumption, NEW c, NEW object, NEW all, NEW newest, NEW unknown,
         NEW v \in Record, v \in all, v.etag # NoETag, newest[v.id] = v,
         NEW p \in Projections \cup {{}}
  PROVE  Good(SetCurrentParam(object, ToJson(v, p)), c, all, newest, unknown)
<1> DEFINE k == SetCurrentParam(object, ToJson(v, p))
<1>1. /\ k \in Object /\ k.object_id \in {v.id, NoId} /\ k.etag \in {v.etag, NoETag}
      /\ k.value = v.value /\ (k.deleted => v.state = "marked")
      /\ v.state = "marked" => k.deleted \/ k.etag = NoETag \/ MarkMayBeMissing
  BY FromVersion
<1> HIDE DEF k
<1>2. OneOf(k, all)
  BY <1>1 DEF OneOf
<1>3. UpToDate(k, c, newest, unknown)
  BY <1>1 DEF UpToDate
<1> QED BY <1>1, <1>2, <1>3 DEF Good, k

(* A reply that could not be read leaves an empty copy.                    *)
LEMMA NothingRead ==
  ASSUME NEW object PROVE SetCurrentParam(object, NoMembers) = NewObject
BY DEF SetCurrentParam, NoMembers, Member, NewObject
-----------------------------------------------------------------------------
(* What the server does with a request.                                    *)

LEMMA WrittenIs ==
  ASSUME TypeOK, NEW r \in Request, NEW w \in Written(r)
  PROVE  /\ w.id \in ObjectIds /\ w.value \in SUBSET Edits
         /\ w.state \in {"live", "marked", "gone"}
         /\ \/ r.method = "POST" /\ objects[w.id].state = "none" /\ w.state = "live"
            \/ /\ Accepted(r) /\ w.id = r.object_id
               /\ \/ /\ r.method = "full_update" /\ w.value = r.value
                     /\ w.state \in {"live", objects[w.id].state}
                  \/ /\ r.method = "part_update" /\ w.value = objects[w.id].value \cup r.value
                     /\ w.state = objects[w.id].state
                  \/ /\ r.method = "DELETE" /\ w.value = objects[w.id].value
                     /\ w.state = IF r.mark THEN "marked" ELSE "gone"
<1>0. r.value \in SUBSET Edits /\ r.object_id \in ObjectIds \cup {NoId} /\ r.method \in Methods
  BY DEF Request
<1>1. CASE r.method = "POST"
  BY <1>0, <1>1 DEF Written
<1>2. CASE r.method = "full_update" /\ Accepted(r)
  <2>1. Written(r) = {[id |-> r.object_id, value |-> r.value, state |-> s] :
                        s \in {"live", objects[r.object_id].state}}
    BY <1>2 DEF Written
  <2> QED BY <1>0, <1>2, <2>1 DEF Accepted, Exists, TypeOK, Record
<1>3. CASE r.method = "part_update" /\ Accepted(r)
  <2>1. Written(r) = {[id |-> r.object_id, value |-> objects[r.object_id].value \cup r.value,
                       state |-> objects[r.object_id].state]}
    BY <1>3 DEF Written
  <2> QED BY <1>0, <1>3, <2>1 DEF Accepted, Exists, TypeOK, Record
<1>4. CASE r.method = "DELETE" /\ Accepted(r)
  <2>1. Written(r) = {[id |-> r.object_id, value |-> objects[r.object_id].value,
                       state |-> IF r.mark THEN "marked" ELSE "gone"]}
    BY <1>4 DEF Written
  <2> QED BY <1>0, <1>4, <2>1 DEF Accepted, Exists, TypeOK, Record
<1>5. CASE /\ r.method # "POST"
           /\ ~(r.method \in {"full_update", "part_update", "DELETE"} /\ Accepted(r))
  BY <1>0, <1>5 DEF Written
<1> QED BY <1>0, <1>1, <1>2, <1>3, <1>4, <1>5 DEF Methods

LEMMA VersionIs ==
  ASSUME TypeOK, ETags, NEW r \in Request, NEW w \in Written(r),
         Cardinality(versions) < MaxETag, ObjectAssumption
  PROVE  LET v == Version(r, w)
         IN /\ v \in Record /\ v.etag = Cardinality(versions) + 1 /\ v.etag \in 1..MaxETag
            /\ v.id = w.id /\ v.value = w.value /\ v.state = w.state /\ v.by = r.by
            /\ v.guarded = r.guarded /\ v.seen = r.seen
            /\ v \notin versions
<1>1. Cardinality(versions) \in Nat
  BY FS_CardinalityType DEF ETags
<1>2. /\ w.id \in ObjectIds /\ w.value \in SUBSET Edits /\ w.state \in {"live", "marked", "gone"}
  BY WrittenIs
<1>3. r.by \in CallId /\ r.guarded \in BOOLEAN /\ r.seen \in SUBSET Edits
  BY DEF Request
<1>4. Cardinality(versions) + 1 \in 1..MaxETag
  BY <1>1 DEF ObjectAssumption
<1> QED BY <1>1, <1>2, <1>3, <1>4 DEF Version, Record, ETags

LEMMA OutcomeIs ==
  ASSUME NEW r, NEW outcome \in Outcomes(r)
  PROVE  \/ /\ outcome.made = {}
            /\ \/ outcome.reply = Refused
               \/ \E results \in Found(r) : outcome.reply \in Replies(r, results)
         \/ \E w \in Written(r) :
              /\ Cardinality(versions) < MaxETag
              /\ outcome.made = {Version(r, w)}
              /\ outcome.reply \in Replies(r, IF w.state = "gone" THEN <<>>
                                              ELSE <<ToJson(Version(r, w), {})>>)
BY DEF Outcomes

(* A new version gets the next ETag.                                       *)
LEMMA MakeKeeps ==
  ASSUME TypeOK, ETags, NEW r \in Request, NEW outcome \in Outcomes(r), Make(outcome.made),
         ObjectAssumption
  PROVE  /\ ETags' /\ versions \subseteq versions'
         /\ versions' \subseteq Record /\ \A v \in versions' : v.etag \in 1..MaxETag
         /\ objects' \in [ObjectIds -> Record] /\ \A o \in ObjectIds : objects'[o].id = o
<1>1. CASE outcome.made = {}
  <2>1. versions' = versions /\ objects' = objects
    BY <1>1 DEF Make, TypeOK
  <2> QED BY <2>1 DEF TypeOK, ETags
<1>2. ASSUME NEW w \in Written(r), Cardinality(versions) < MaxETag,
             outcome.made = {Version(r, w)}
      PROVE  /\ ETags' /\ versions \subseteq versions'
             /\ versions' \subseteq Record /\ \A v \in versions' : v.etag \in 1..MaxETag
             /\ objects' \in [ObjectIds -> Record] /\ \A o \in ObjectIds : objects'[o].id = o
  <2> DEFINE v == Version(r, w)
  <2>1. /\ v \in Record /\ v.etag = Cardinality(versions) + 1 /\ v.etag \in 1..MaxETag
        /\ v.id = w.id /\ v \notin versions
    BY <1>2, VersionIs
  <2> HIDE DEF v
  <2>2. versions' = versions \cup {v}
    BY <1>2 DEF Make, v
  <2>3. objects' = [o \in ObjectIds |-> IF o = v.id THEN v ELSE objects[o]]
    <3>1. (CHOOSE u \in {v} : u.id = v.id) = v
      OBVIOUS
    <3> QED BY <1>2, <3>1 DEF Make, v
  <2>4. /\ Cardinality(versions) \in Nat /\ IsFiniteSet(versions')
        /\ Cardinality(versions') = Cardinality(versions) + 1
    BY <2>1, <2>2, FS_CardinalityType, FS_AddElement DEF ETags
  <2>5. Cardinality(versions') <= MaxETag
    BY <1>2, <2>4 DEF ObjectAssumption
  <2>6. \A u \in versions' : u.etag \in 1..Cardinality(versions')
    BY <2>1, <2>2, <2>4 DEF ETags
  <2>7. \A u, x \in versions' : u.etag = x.etag => u = x
    BY <2>1, <2>2, <2>4 DEF ETags
  <2>8. \A o \in ObjectIds : objects'[o].state # "none" => objects'[o] \in versions'
    BY <2>2, <2>3 DEF ETags
  <2> QED BY <2>1, <2>2, <2>3, <2>4, <2>5, <2>6, <2>7, <2>8 DEF TypeOK, ETags
<1> QED BY <1>1, <1>2, OutcomeIs

MadeBy(r, outcome) ==
  \/ outcome.made = {} /\ objects' = objects /\ versions' = versions
  \/ \E w \in Written(r), v \in Record :
       /\ outcome.made = {v} /\ v \in versions' /\ v.etag # NoETag
       /\ v.id = w.id /\ v.value = w.value /\ v.state = w.state /\ v.by = r.by
       /\ v.guarded = r.guarded /\ v.seen = r.seen
       /\ outcome.reply \in Replies(r, IF v.state = "gone" THEN <<>> ELSE <<ToJson(v, {})>>)
       /\ objects' = [objects EXCEPT ![v.id] = v]

LEMMA MadeIs ==
  ASSUME TypeOK, ETags, NEW r \in Request, NEW outcome \in Outcomes(r), Make(outcome.made),
         ObjectAssumption
  PROVE  MadeBy(r, outcome)
<1>1. CASE outcome.made = {}
  BY <1>1 DEF Make, TypeOK, MadeBy
<1>2. ASSUME NEW w \in Written(r), Cardinality(versions) < MaxETag,
             outcome.made = {Version(r, w)},
             outcome.reply \in Replies(r, IF w.state = "gone" THEN <<>>
                                         ELSE <<ToJson(Version(r, w), {})>>)
      PROVE  \E v \in Record :
              /\ outcome.made = {v} /\ v \in versions' /\ v.etag # NoETag
              /\ v.id = w.id /\ v.value = w.value /\ v.state = w.state /\ v.by = r.by
              /\ v.guarded = r.guarded /\ v.seen = r.seen
              /\ outcome.reply \in Replies(r, IF v.state = "gone" THEN <<>>
                                              ELSE <<ToJson(v, {})>>)
              /\ objects' = [objects EXCEPT ![v.id] = v]
  <2> DEFINE v == Version(r, w)
  <2>1. /\ v \in Record /\ v.etag # NoETag
        /\ v.id = w.id /\ v.value = w.value /\ v.state = w.state /\ v.by = r.by
        /\ v.guarded = r.guarded /\ v.seen = r.seen
    <3>1. Cardinality(versions) \in Nat
      BY FS_CardinalityType DEF ETags
    <3> QED BY <1>2, <3>1, VersionIs
  <2>2. outcome.made = {v} /\ outcome.reply \in Replies(r, IF w.state = "gone" THEN <<>>
                                                          ELSE <<ToJson(v, {})>>)
    BY <1>2
  <2> HIDE DEF v
  <2>3. objects' = [o \in ObjectIds |-> IF o = v.id THEN v ELSE objects[o]]
    <3>1. (CHOOSE u \in {v} : u.id = v.id) = v
      OBVIOUS
    <3> QED BY <2>2, <3>1 DEF Make
  <2>4. objects' = [objects EXCEPT ![v.id] = v] /\ v \in versions'
    BY <2>2, <2>3 DEF TypeOK, Make
  <2> QED BY <2>1, <2>2, <2>4
<1> QED BY <1>1, <1>2, OutcomeIs DEF MadeBy
-----------------------------------------------------------------------------
(* What the caller makes of a reply.                                       *)
ReadFrom(r, results) ==
  /\ r.method \in Reads
  /\ r.method = "GET" => 1 \in DOMAIN results
  /\ \A i \in DOMAIN results :
       \/ results[i] = NoMembers
       \/ \E o \in ObjectIds, p \in Projections \cup {{}} :
            objects[o].state \in {"live", "marked"} /\ results[i] = ToJson(objects[o], p)

LEMMA FoundIs ==
  ASSUME NEW r \in Request, NEW results \in Found(r) PROVE ReadFrom(r, results)
<1>1. CASE r.method = "GET"
  <2>1. PICK o \in {q \in {r.object_id} : q \in ObjectIds /\ Visible(q, r.mark)} :
               results = <<ToJson(objects[o], {})>>
    BY <1>1 DEF Found
  <2>2. DOMAIN results = {1} /\ results[1] = ToJson(objects[o], {})
    BY <2>1
  <2> QED BY <1>1, <2>1, <2>2 DEF Visible, Reads, ReadFrom
<1>2. CASE r.method = "query"
  <2>1. PICK order \in SetToSeqs({o \in ObjectIds : Visible(o, r.mark)}) :
               results = [i \in DOMAIN order |-> ToJson(objects[order[i]], r.projection)]
    BY <1>2 DEF Found
  <2>2. \A i \in DOMAIN order : order[i] \in {o \in ObjectIds : Visible(o, r.mark)}
    BY <2>1 DEF SetToSeqs
  <2>3. r.projection \in Projections \cup {{}}
    BY DEF Request
  <2> QED BY <1>2, <2>1, <2>2, <2>3 DEF Visible, Reads, ReadFrom
<1> QED BY <1>1, <1>2 DEF Found

(* The results of a request that only reads.                               *)
LEMMA ReadIsGood ==
  ASSUME TypeOK, ETags, ObjectAssumption, NEW c \in Copies,
         Good(copy[c], c, versions, objects, unheard), NEW unknown, unheard \subseteq unknown,
         NEW r \in Request, NEW results \in Found(r), NEW reply \in Replies(r, results),
         NEW k \in Received(c, r, reply.results)
  PROVE  Good(k, c, versions, objects, unknown)
<1>0. Good(copy[c], c, versions, objects, unknown)
  BY DEF Good, UpToDate
<1>1. ReadFrom(r, reply.results)
  <2>0. ReadFrom(r, results)
    BY FoundIs
  <2>1. CASE reply = Ok(results)
    <3>1. reply.results = results
      BY <2>1 DEF Ok
    <3> QED BY <2>0, <3>1
  <2>2. CASE r.method # "query" /\ reply = Ok([i \in DOMAIN results |-> NoMembers])
    BY <2>0, <2>2 DEF Ok, ReadFrom
  <2>3. CASE r.method = "query" /\ reply = Ok(<<>>)
    BY <2>0, <2>3 DEF Ok, ReadFrom
  <2> QED BY <2>1, <2>2, <2>3 DEF Replies
<1>2. ASSUME NEW i \in DOMAIN reply.results
      PROVE  Good(SetCurrentParam(NewObject, reply.results[i]), c, versions, objects, unknown)
  <2>1. CASE reply.results[i] = NoMembers
    BY <2>1, NewIsGood, NothingRead
  <2>2. ASSUME NEW o \in ObjectIds, NEW p \in Projections \cup {{}},
               objects[o].state \in {"live", "marked"},
               reply.results[i] = ToJson(objects[o], p)
        PROVE  Good(SetCurrentParam(NewObject, reply.results[i]), c, versions, objects, unknown)
    <3>1. /\ objects[o] \in versions /\ objects[o] \in Record
          /\ objects[o].etag # NoETag /\ objects[o].id = o
      BY <2>2 DEF ETags, TypeOK
    <3> QED BY <2>2, <3>1, NewestIsGood
  <2> QED BY <1>1, <2>1, <2>2 DEF ReadFrom
<1>3. CASE r.method = "query" /\ reply.results # <<>>
  <2>1. PICK i \in DOMAIN reply.results : k = QueryResult(reply.results)[i]
    BY <1>3 DEF Received
  <2> QED BY <1>2, <2>1, QueryResultIs, NewIsGood
<1>4. CASE r.method = "query" /\ reply.results = <<>>
  BY <1>0, <1>4 DEF Received
<1>5. CASE r.method = "GET"
  <2>1. k = SetCurrentParam(NewObject, reply.results[1])
    BY <1>5 DEF Received
  <2> QED BY <1>1, <1>2, <1>5, <2>1 DEF ReadFrom
<1> QED BY <1>1, <1>3, <1>4, <1>5 DEF Reads, ReadFrom

(* An update or a delete that was performed.                               *)
LEMMA MadeIsGood ==
  ASSUME ObjectAssumption, NEW c, NEW r \in Request, NEW w \in Written(r), TypeOK,
         NEW v \in Record, NEW all, NEW newest, NEW unknown,
         v \in all, v.etag # NoETag, newest[v.id] = v, v.state = w.state,
         v.state = "gone" => Good(copy[c], c, all, newest, unknown),
         NEW reply \in Replies(r, IF v.state = "gone" THEN <<>> ELSE <<ToJson(v, {})>>),
         NEW k \in Received(c, r, reply.results)
  PROVE  Good(k, c, all, newest, unknown)
<1>1. \/ r.method \in {"POST", "full_update", "part_update"} /\ w.state # "gone"
      \/ r.method = "DELETE" /\ w.state = IF r.mark THEN "marked" ELSE "gone"
  BY WrittenIs DEF Accepted, Exists
<1>2. r.mark \in BOOLEAN
  BY DEF Request
<1>3. CASE w.state = "gone"
  BY <1>1, <1>2, <1>3 DEF Received
<1>4. CASE w.state # "gone"
  <2>1. reply.results[1] \in {ToJson(v, {}), NoMembers}
    BY <1>1, <1>4 DEF Replies, Ok
  <2>2. k = SetCurrentParam(copy[c], reply.results[1])
    BY <1>1, <1>2, <1>4 DEF Received
  <2> QED BY <2>1, <2>2, NewestIsGood, NothingRead, NewIsGood
<1> QED BY <1>3, <1>4

(* A copy stays good when others change objects, or a call its caller does *)
(* not know to be done.                                                    *)
LEMMA StaysGood ==
  ASSUME TypeOK, NEW c, NEW k, Good(k, c, versions, objects, unheard),
         NEW all, NEW newest, NEW unknown, versions \subseteq all, unheard \subseteq unknown,
         \/ newest = objects
         \/ \E v \in Record : /\ newest = [objects EXCEPT ![v.id] = v]
                              /\ v.by[1] # c \/ v.by \in unknown \/ v.state = "gone"
  PROVE  Good(k, c, all, newest, unknown)
<1>1. OneOf(k, all)
  BY DEF Good, OneOf
<1>2. UpToDate(k, c, newest, unknown)
  <2>1. CASE newest = objects
    BY <2>1 DEF Good, UpToDate
  <2>2. ASSUME NEW v \in Record, newest = [objects EXCEPT ![v.id] = v],
               v.by[1] # c \/ v.by \in unknown \/ v.state = "gone"
        PROVE  UpToDate(k, c, newest, unknown)
    <3>1. k.object_id \in ObjectIds \cup {NoId} /\ objects \in [ObjectIds -> Record]
      BY DEF Good, Object, TypeOK
    <3> QED BY <2>2, <3>1 DEF Good, UpToDate
  <2> QED BY <2>1, <2>2
<1> QED BY <1>1, <1>2 DEF Good
-----------------------------------------------------------------------------
(* The initial state and the steps of the application.                     *)

LEMMA InitObjectInv == ObjectAssumption /\ Init => ObjectInv
<1> SUFFICES ASSUME ObjectAssumption, Init PROVE ObjectInv
  OBVIOUS
<1>1. TypeOK
  BY DEF Init, TypeOK, NewObject, Object, Record, NoCall, CallId
<1>2. ETags
  BY FS_EmptySet DEF Init, ETags, ObjectAssumption
<1>3. Requests
  BY DEF Init, Requests
<1>4. GoodCopies
  BY NewIsGood DEF Init, GoodCopies
<1> QED BY <1>1, <1>2, <1>3, <1>4 DEF ObjectInv

LEMMA SendKeeps ==
  ASSUME ObjectInv, NEW c \in Copies, NEW operation, NEW request \in Request,
         Backed(request, versions), request.by[1] = c, Send(c, operation, request)
  PROVE  ObjectInv'
<1>1. TypeOK'
  BY DEF ObjectInv, TypeOK, Send
<1>2. ETags' /\ GoodCopies'
  BY DEF ObjectInv, ETags, GoodCopies, Send
<1>3. Requests'
  BY DEF ObjectInv, Requests, TypeOK, Send
<1> QED BY <1>1, <1>2, <1>3 DEF ObjectInv

IsRequest(r, c) == r \in Request /\ r.by[1] = c

LEMMA PlainIs ==
  ASSUME TypeOK, NEW c \in Copies, NEW method \in Methods
  PROVE  IsRequest(Plain(c, method), c) /\ IsRequest(Named(c, method), c)
<1>1. <<c, calls[c] + 1>> \in CallId
  BY DEF TypeOK, CallId
<1>2. IsRequest(Plain(c, method), c)
  BY <1>1 DEF Plain, Request, IsRequest
<1>3. copy[c] \in Object
  BY DEF TypeOK
<1>4. IsRequest(Named(c, method), c)
  BY <1>2, <1>3 DEF Named, Request, IsRequest, Object
<1> QED BY <1>2, <1>4

LEMMA NamedIsBacked ==
  ASSUME ObjectInv, NEW c \in Copies, NEW r,
         \/ /\ r.method \in {"full_update", "part_update", "DELETE"}
            /\ r.seen = copy[c].value /\ r.etag = copy[c].etag
            /\ r.guarded => copy[c].etag # NoETag
            /\ r.method = "full_update" => r.value = copy[c].value
         \/ r.method \in {"POST", "GET", "query"} /\ ~r.guarded
  PROVE  Backed(r, versions)
<1>1. OneOf(copy[c], versions)
  BY DEF ObjectInv, GoodCopies, Good
<1>2. copy[c].etag # NoETag =>
        \E v \in versions : v.etag = copy[c].etag /\ v.value \subseteq copy[c].value
  BY <1>1 DEF OneOf
<1> QED BY <1>2 DEF Backed

LEMMA EditKeeps ==
  ASSUME ObjectInv, NEW c \in Copies, NEW e \in Edits, Edit(c, e)
  PROVE  ObjectInv'
<1>1. copy[c] \in Object /\ copy'[c] = [copy[c] EXCEPT !.value = @ \cup {e}]
  BY DEF ObjectInv, TypeOK, Edit
<1>2. copy'[c] \in Object
  BY <1>1 DEF Object
<1>3. TypeOK'
  BY <1>2 DEF ObjectInv, TypeOK, Edit
<1>4. ETags' /\ Requests'
  BY DEF ObjectInv, ETags, Requests, Edit
<1>5. ASSUME NEW d \in Copies PROVE Good(copy'[d], d, versions', objects', unheard')
  <2>1. CASE d = c
    <3>1. /\ copy'[c].object_id = copy[c].object_id /\ copy'[c].etag = copy[c].etag
          /\ copy'[c].deleted = copy[c].deleted /\ copy[c].value \subseteq copy'[c].value
      BY <1>1 DEF Object
    <3>2. UNCHANGED <<versions, objects, unheard>>
      BY DEF Edit
    <3>3. OneOf(copy[c], versions) /\ UpToDate(copy[c], c, objects, unheard)
      BY DEF ObjectInv, GoodCopies, Good
    <3>4. OneOf(copy'[c], versions)
      BY <3>1, <3>3 DEF OneOf
    <3>5. UpToDate(copy'[c], c, objects, unheard)
      BY <3>1, <3>3 DEF UpToDate
    <3> QED BY <1>2, <2>1, <3>2, <3>4, <3>5 DEF Good
  <2>2. CASE d # c
    BY <2>2 DEF ObjectInv, GoodCopies, TypeOK, Edit
  <2> QED BY <2>1, <2>2
<1> QED BY <1>3, <1>4, <1>5 DEF ObjectInv, GoodCopies

LEMMA StartKeeps ==
  ASSUME ObjectInv, ObjectAssumption, NEW c \in Copies, Start(c)
  PROVE  ObjectInv'
<1>0. TypeOK /\ copy[c] \in Object
  BY DEF ObjectInv, TypeOK
<1>1. CASE Save(c)
  <2>0. IsRequest(Plain(c, "POST"), c) /\ IsRequest(Named(c, "full_update"), c)
    BY <1>0, PlainIs DEF Methods
  <2>1. SaveRequest(c) \in Request /\ SaveRequest(c).by[1] = c
    BY <1>0, <2>0 DEF IsRequest, SaveRequest, Request, Object
  <2>2. Backed(SaveRequest(c), versions)
    BY NamedIsBacked DEF SaveRequest, Plain, Named
  <2> QED BY <1>1, <2>1, <2>2, SendKeeps DEF Save
<1>2. ASSUME NEW e \in Edits, PartUpdateObject(c, e) PROVE ObjectInv'
  <2> DEFINE r == [Named(c, "part_update") EXCEPT !.value = {e}]
  <2>0. IsRequest(Named(c, "part_update"), c)
    BY <1>0, PlainIs DEF Methods
  <2>1. r \in Request /\ r.by[1] = c
    BY <2>0 DEF IsRequest, Request
  <2>2. Backed(r, versions)
    BY NamedIsBacked DEF Plain, Named
  <2> QED BY <1>2, <2>1, <2>2, SendKeeps DEF PartUpdateObject
<1>3. ASSUME NEW mark \in BOOLEAN, DeleteObject(c, mark) PROVE ObjectInv'
  <2>0. IsRequest(Named(c, "DELETE"), c)
    BY <1>0, PlainIs DEF Methods
  <2>1. DeleteRequest(c, mark) \in Request /\ DeleteRequest(c, mark).by[1] = c
    BY <2>0 DEF IsRequest, DeleteRequest, Request
  <2>2. Backed(DeleteRequest(c, mark), versions)
    BY NamedIsBacked DEF DeleteRequest, Plain, Named
  <2> QED BY <1>3, <2>1, <2>2, SendKeeps DEF DeleteObject
<1>4. ASSUME NEW mark \in BOOLEAN, NEW o \in ObjectIds, GetObject(c, o, mark) PROVE ObjectInv'
  <2> DEFINE r == [Plain(c, "GET") EXCEPT !.object_id = o, !.mark = mark]
  <2>0. IsRequest(Plain(c, "GET"), c)
    BY <1>0, PlainIs DEF Methods
  <2>1. r \in Request /\ r.by[1] = c
    BY <2>0 DEF IsRequest, Request
  <2>2. Backed(r, versions)
    BY NamedIsBacked DEF Plain
  <2> QED BY <1>4, <2>1, <2>2, SendKeeps DEF GetObject
<1>5. ASSUME NEW mark \in BOOLEAN, NEW p \in Projections, Query(c, mark, p) PROVE ObjectInv'
  <2> DEFINE r == [Plain(c, "query") EXCEPT !.mark = mark, !.projection = p]
  <2>0. IsRequest(Plain(c, "query"), c)
    BY <1>0, PlainIs DEF Methods
  <2>1. r \in Request /\ r.by[1] = c
    BY <2>0 DEF IsRequest, Request
  <2>2. Backed(r, versions)
    BY NamedIsBacked DEF Plain
  <2> QED BY <1>5, <2>1, <2>2, SendKeeps DEF Query
<1> QED BY <1>1, <1>2, <1>3, <1>4, <1>5, EditKeeps DEF Start
-----------------------------------------------------------------------------
(* The steps of the server, and the end of a call.                         *)

LEMMA BackedStays ==
  ASSUME NEW r, NEW all, NEW more, all \subseteq more, Backed(r, all)
  PROVE  Backed(r, more)
BY DEF Backed

(* What Perform and ServerLate have in common: all but the callers.        *)
LEMMA MakeStep ==
  ASSUME ObjectInv, ObjectAssumption, NEW r \in Request, NEW outcome \in Outcomes(r),
         Make(outcome.made)
  PROVE  /\ ETags' /\ versions \subseteq versions'
         /\ versions' \subseteq Record /\ \A v \in versions' : v.etag \in 1..MaxETag
         /\ objects' \in [ObjectIds -> Record] /\ \A o \in ObjectIds : objects'[o].id = o
         /\ \A q \in Request : Backed(q, versions) => Backed(q, versions')
         /\ {v.by : v \in outcome.made} \subseteq {r.by}
<1>1. TypeOK /\ ETags
  BY DEF ObjectInv
<1>2. MadeBy(r, outcome)
  BY <1>1, MadeIs
<1>3. {v.by : v \in outcome.made} \subseteq {r.by}
  BY <1>2 DEF MadeBy
<1> QED BY <1>1, <1>3, MakeKeeps, BackedStays

LEMMA UnheardKeeps ==
  ASSUME ObjectInv, ObjectAssumption, NEW r \in Request, NEW outcome \in Outcomes(r),
         Make(outcome.made), Unheard(outcome.made)
  PROVE  GoodCopies' /\ unheard' \subseteq CallId /\ copy' = copy
<1>0. TypeOK /\ ETags
  BY DEF ObjectInv
<1>1. /\ versions \subseteq versions' /\ {v.by : v \in outcome.made} \subseteq {r.by}
  BY MakeStep
<1>2. copy' = copy /\ unheard' = unheard \cup {v.by : v \in outcome.made}
  BY DEF Unheard
<1>3. unheard' \subseteq CallId
  BY <1>0, <1>1, <1>2 DEF TypeOK, Request
<1>4. \/ objects' = objects
      \/ \E v \in Record : objects' = [objects EXCEPT ![v.id] = v] /\ v.by \in unheard'
  <2>1. MadeBy(r, outcome)
    BY <1>0, MadeIs
  <2>2. ASSUME NEW v \in Record, outcome.made = {v} PROVE v.by \in unheard'
    BY <1>2, <2>2
  <2>3. \/ objects' = objects
        \/ \E v \in Record : outcome.made = {v} /\ objects' = [objects EXCEPT ![v.id] = v]
    BY <2>1 DEF MadeBy
  <2> QED BY <2>2, <2>3
<1>5. ASSUME NEW c \in Copies PROVE Good(copy[c], c, versions', objects', unheard')
  <2>1. Good(copy[c], c, versions, objects, unheard)
    BY DEF ObjectInv, GoodCopies
  <2> QED BY <1>0, <1>1, <1>2, <1>4, <2>1, StaysGood
<1> QED BY <1>2, <1>3, <1>5 DEF GoodCopies

LEMMA HeardKeeps ==
  ASSUME ObjectInv, ObjectAssumption, NEW c \in Copies, NEW r \in Request, r.by[1] = c,
         NEW outcome \in Outcomes(r), Make(outcome.made), Heard(c, r, outcome.reply)
  PROVE  GoodCopies' /\ unheard' \subseteq CallId /\ copy' \in [Copies -> Object]
<1>0. TypeOK /\ ETags /\ versions \subseteq versions'
  BY MakeStep DEF ObjectInv
<1>9. MadeBy(r, outcome)
  BY <1>0, MadeIs
<1>1. unheard \subseteq unheard' /\ unheard' \subseteq CallId
  BY <1>0 DEF Heard, TypeOK, Request
<1>2. ASSUME NEW d \in Copies PROVE Good(copy[d], d, versions, objects, unheard)
  BY DEF ObjectInv, GoodCopies
<1>3. ASSUME NEW d \in Copies, d # c PROVE Good(copy[d], d, versions', objects', unheard')
  <2>1. \/ objects' = objects
        \/ \E v \in Record : objects' = [objects EXCEPT ![v.id] = v] /\ v.by[1] # d
    BY <1>3, <1>9 DEF MadeBy
  <2> QED BY <1>0, <1>1, <1>2, <2>1, StaysGood
<1>4. ASSUME ~outcome.reply.ok PROVE Good(copy[c], c, versions', objects', unheard')
  <2>1. objects' = objects
    <3>1. ASSUME NEW results, NEW reply \in Replies(r, results) PROVE reply.ok
      BY <3>1 DEF Replies, Ok
    <3> QED BY <1>4, <1>9, <3>1 DEF MadeBy
  <2> QED BY <1>0, <1>1, <1>2, <2>1, StaysGood
<1>5. ASSUME outcome.reply.ok, NEW k \in Received(c, r, outcome.reply.results)
      PROVE  Good(k, c, versions', objects', unheard')
  <2>1. CASE outcome.made = {} /\ objects' = objects /\ versions' = versions
    <3>1. PICK results \in Found(r) : outcome.reply \in Replies(r, results)
      <4>1. ~Refused.ok
        BY DEF Refused
      <4>2. ASSUME NEW w \in Written(r) PROVE outcome.made # {Version(r, w)}
        BY <2>1
      <4> QED BY <1>5, <4>1, <4>2, OutcomeIs
    <3> QED BY <1>0, <1>1, <1>2, <1>5, <2>1, <3>1, ReadIsGood
  <2>2. ASSUME NEW w \in Written(r), NEW v \in Record,
               v \in versions', v.etag # NoETag, v.id = w.id, v.state = w.state,
               outcome.reply \in Replies(r, IF v.state = "gone" THEN <<>> ELSE <<ToJson(v, {})>>),
               objects' = [objects EXCEPT ![v.id] = v]
        PROVE  Good(k, c, versions', objects', unheard')
    <3>1. v.id \in ObjectIds /\ objects'[v.id] = v
      BY <1>0, <2>2, WrittenIs DEF TypeOK
    <3>2. v.state = "gone" => Good(copy[c], c, versions', objects', unheard')
      BY <1>0, <1>1, <1>2, <2>2, StaysGood
    <3> QED BY <1>0, <1>5, <2>2, <3>1, <3>2, MadeIsGood
  <2> QED BY <1>9, <2>1, <2>2 DEF MadeBy
<1>6. \/ copy' = copy /\ ~outcome.reply.ok
      \/ /\ outcome.reply.ok
         /\ \E k \in Received(c, r, outcome.reply.results) : copy' = [copy EXCEPT ![c] = k]
  BY DEF Heard
<1>7. ASSUME NEW d \in Copies
      PROVE  Good(copy'[d], d, versions', objects', unheard')
  BY <1>0, <1>3, <1>4, <1>5, <1>6 DEF TypeOK
<1>8. copy' \in [Copies -> Object]
  BY <1>0, <1>5, <1>6 DEF TypeOK, Good
<1> QED BY <1>1, <1>7, <1>8 DEF GoodCopies

LEMMA PerformKeeps ==
  ASSUME ObjectInv, ObjectAssumption, NEW c \in Copies, Perform(c)
  PROVE  ObjectInv'
<1>1. call[c] \in Request /\ call[c].by[1] = c
  BY DEF ObjectInv, TypeOK, Requests, Perform, Idle
<1>2. PICK outcome \in Outcomes(call[c]) :
        Make(outcome.made) /\ (Heard(c, call[c], outcome.reply) \/ Unheard(outcome.made))
  BY DEF Perform
<1>3. /\ ETags'
      /\ versions' \subseteq Record /\ \A v \in versions' : v.etag \in 1..MaxETag
      /\ objects' \in [ObjectIds -> Record] /\ \A o \in ObjectIds : objects'[o].id = o
      /\ \A q \in Request : Backed(q, versions) => Backed(q, versions')
  BY <1>1, <1>2, MakeStep
<1>4. GoodCopies' /\ unheard' \subseteq CallId /\ copy' \in [Copies -> Object]
  BY <1>1, <1>2, HeardKeeps, UnheardKeeps DEF ObjectInv, TypeOK
<1>5. TypeOK'
  BY <1>3, <1>4 DEF ObjectInv, TypeOK, Perform
<1>6. Requests'
  BY <1>3 DEF ObjectInv, TypeOK, Requests, Perform
<1> QED BY <1>3, <1>4, <1>5, <1>6 DEF ObjectInv

LEMMA ServerLateKeeps ==
  ASSUME ObjectInv, ObjectAssumption, ServerLate PROVE ObjectInv'
<1>1. PICK r \in adrift :
        /\ \E outcome \in Outcomes(r) : Make(outcome.made) /\ Unheard(outcome.made)
        /\ adrift' = adrift \ {r} /\ UNCHANGED <<call, calls>>
  BY DEF ServerLate
<1>2. PICK outcome \in Outcomes(r) : Make(outcome.made) /\ Unheard(outcome.made)
  BY <1>1
<1>3. r \in Request
  BY DEF ObjectInv, TypeOK
<1>4. /\ ETags'
      /\ versions' \subseteq Record /\ \A v \in versions' : v.etag \in 1..MaxETag
      /\ objects' \in [ObjectIds -> Record] /\ \A o \in ObjectIds : objects'[o].id = o
      /\ \A q \in Request : Backed(q, versions) => Backed(q, versions')
  BY <1>2, <1>3, MakeStep
<1>5. GoodCopies' /\ unheard' \subseteq CallId /\ copy' = copy
  BY <1>2, <1>3, UnheardKeeps
<1>6. TypeOK'
  BY <1>1, <1>4, <1>5 DEF ObjectInv, TypeOK
<1>7. Requests'
  BY <1>1, <1>4 DEF ObjectInv, TypeOK, Requests
<1> QED BY <1>4, <1>5, <1>6, <1>7 DEF ObjectInv

LEMMA GiveUpKeeps ==
  ASSUME ObjectInv, NEW c \in Copies, GiveUp(c) PROVE ObjectInv'
<1>1. TypeOK'
  BY DEF ObjectInv, TypeOK, GiveUp, Idle
<1>2. ETags' /\ GoodCopies'
  BY DEF ObjectInv, ETags, GoodCopies, GiveUp
<1>3. Requests'
  BY DEF ObjectInv, TypeOK, Requests, GiveUp, Idle
<1> QED BY <1>1, <1>2, <1>3 DEF ObjectInv

LEMMA NextKeeps == ObjectAssumption /\ ObjectInv /\ [Next]_vars => ObjectInv'
<1> SUFFICES ASSUME ObjectAssumption, ObjectInv, [Next]_vars PROVE ObjectInv'
  OBVIOUS
<1>1. CASE UNCHANGED vars
  BY <1>1 DEF vars, ObjectInv, TypeOK, ETags, Requests, GoodCopies
<1> QED BY <1>1, StartKeeps, PerformKeeps, GiveUpKeeps, ServerLateKeeps DEF Next
-----------------------------------------------------------------------------
(* The properties of NbObject.                                             *)

(* What a request of a caller who named an ETag does to its object.        *)
LEMMA NothingLostBy ==
  ASSUME ObjectInv, ObjectAssumption, NEW r \in Request, Backed(r, versions),
         NEW w \in Written(r), r.guarded, Exists(w.id)
  PROVE  /\ w.state # "gone" => objects[w.id].value \subseteq w.value
         /\ w.state = "gone" => objects[w.id].value \subseteq r.seen
<1>0. TypeOK /\ ETags
  BY DEF ObjectInv
<1> DEFINE old == objects[w.id]
<1>1. old \in versions /\ r.method # "POST"
  BY <1>0, WrittenIs DEF Exists, ETags
<1>2. PICK v \in versions : v.etag = r.etag /\ v.value \subseteq r.seen
  BY <1>0, <1>1, WrittenIs DEF Backed
<1>3. r.etag = old.etag
  BY <1>0, <1>1, WrittenIs DEF Backed, Accepted
<1>4. v = old
  BY <1>0, <1>1, <1>2, <1>3 DEF ETags
<1>5. old.value \subseteq r.seen
  BY <1>2, <1>4
<1>6. r.method = "full_update" => r.value = r.seen
  BY DEF Backed
<1> QED BY <1>0, <1>1, <1>5, <1>6, WrittenIs

LEMMA ServerNothingLost ==
  ASSUME ObjectInv, ObjectAssumption, NEW r \in Request, Backed(r, versions),
         NEW outcome \in Outcomes(r), Make(outcome.made), NEW o \in ObjectIds,
         Exists(o), objects'[o] # objects[o], objects'[o].guarded
  PROVE  /\ objects'[o].state # "gone" => objects[o].value \subseteq objects'[o].value
         /\ objects'[o].state = "gone" => objects[o].value \subseteq objects'[o].seen
<1>0. TypeOK /\ ETags
  BY DEF ObjectInv
<1>1. MadeBy(r, outcome)
  BY <1>0, MadeIs
<1>2. PICK w \in Written(r), v \in Record :
        /\ v.id = w.id /\ v.value = w.value /\ v.state = w.state
        /\ v.guarded = r.guarded /\ v.seen = r.seen
        /\ objects' = [objects EXCEPT ![v.id] = v]
  BY <1>1 DEF MadeBy
<1>3. o = w.id /\ objects'[o] = v
  BY <1>0, <1>2 DEF TypeOK
<1> QED BY <1>2, <1>3, NothingLostBy

Mapped == [o \in ObjectIds |-> [state |-> objects[o].state, value |-> objects[o].value,
                                guarded |-> objects[o].guarded]]

LEMMA ServerImplements ==
  ASSUME ObjectInv, ObjectAssumption, NEW r \in Request, Backed(r, versions),
         NEW outcome \in Outcomes(r), Make(outcome.made)
  PROVE  Store!Next \/ Mapped' = Mapped
<1>0. TypeOK /\ ETags
  BY DEF ObjectInv
<1>1. MadeBy(r, outcome)
  BY <1>0, MadeIs
<1>2. CASE objects' = objects
  BY <1>2 DEF Mapped
<1>3. ASSUME NEW w \in Written(r), NEW v \in Record, v.id = w.id, v.value = w.value,
             v.state = w.state, v.guarded = r.guarded, objects' = [objects EXCEPT ![v.id] = v]
      PROVE  Store!Next
  <2> DEFINE n == w.id
             Wrote(state, value, guarded) ==
               Mapped' = [Mapped EXCEPT ![n] = [state |-> state, value |-> value,
                                               guarded |-> guarded]]
  <2>0. n \in ObjectIds /\ w.value \in SUBSET Edits /\ r.guarded \in BOOLEAN
    BY <1>0, WrittenIs DEF Request
  <2>1. Wrote(w.state, w.value, r.guarded)
    BY <1>0, <1>3, <2>0 DEF Mapped, TypeOK
  <2>2. /\ Mapped[n].state = objects[n].state /\ Mapped[n].value = objects[n].value
    BY <2>0 DEF Mapped
  <2> HIDE DEF Wrote
  <2>3. CASE r.method = "POST"
    <3>1. objects[n].state = "none" /\ w.state = "live" /\ r.guarded = FALSE
      BY <1>0, <2>0, <2>3, WrittenIs DEF Backed
    <3>2. Wrote("live", w.value, FALSE) /\ Mapped[n].state # "live"
      BY <2>1, <2>2, <3>1
    <3>3. Store!Create(n, w.value)
      BY <3>2 DEF Wrote, Store!Create, Store!Write, Mapped
    <3> QED BY <2>0, <3>3 DEF Store!Next
  <2>4. CASE r.method # "POST"
    <3>1. /\ objects[n].state \in {"live", "marked"}
          /\ \/ w.state \in {"live", objects[n].state}
             \/ w.state \in {"marked", "gone"} /\ w.value = objects[n].value
      BY <1>0, <2>4, WrittenIs DEF Accepted, Exists
    <3>2. Store!Exists(n)
      BY <2>2, <3>1 DEF Store!Exists, Mapped
    <3>3. CASE w.state \in {"live", objects[n].state} /\ r.guarded
      <4>1. w.value = objects[n].value \cup w.value
        BY <3>1, <3>3, NothingLostBy DEF Exists
      <4>2. Wrote(w.state, Mapped[n].value \cup w.value, TRUE) /\ w.state \in {"live", Mapped[n].state}
        BY <2>0, <2>1, <2>2, <3>3, <4>1
      <4>3. Store!Modify(n, w.value)
        BY <3>2, <4>2 DEF Wrote, Store!Modify, Store!Write, Mapped
      <4> QED BY <2>0, <4>3 DEF Store!Next
    <3>4. CASE w.state \in {"live", objects[n].state} /\ ~r.guarded
      <4>1. Wrote(w.state, w.value, FALSE) /\ w.state \in {"live", Mapped[n].state}
        BY <2>0, <2>1, <2>2, <3>4
      <4>2. Store!Overwrite(n, w.value)
        BY <3>2, <4>1 DEF Wrote, Store!Overwrite, Store!Write, Mapped
      <4> QED BY <2>0, <4>2 DEF Store!Next
    <3>5. CASE w.state \in {"marked", "gone"} /\ w.value = objects[n].value
      <4>1. Wrote(w.state, Mapped[n].value, r.guarded)
        BY <2>1, <2>2, <3>5
      <4>2. Store!Delete(n, r.guarded)
        BY <3>2, <3>5, <4>1 DEF Wrote, Store!Delete, Store!Write, Mapped
      <4> QED BY <2>0, <4>2 DEF Store!Next
    <3> QED BY <2>0, <3>1, <3>3, <3>4, <3>5
  <2> QED BY <2>3, <2>4
<1> QED BY <1>1, <1>2, <1>3 DEF MadeBy

LEMMA OnlyTheServer ==
  ASSUME ObjectInv, [Next]_vars
  PROVE  \/ objects' = objects
         \/ \E r \in Request : \E outcome \in Outcomes(r) :
              Backed(r, versions) /\ Make(outcome.made)
<1>1. ASSUME NEW c \in Copies, Start(c) PROVE objects' = objects
  BY <1>1 DEF Start, Save, PartUpdateObject, DeleteObject, GetObject, Query, Edit, Send
<1>2. ASSUME NEW c \in Copies, Perform(c)
      PROVE  \E r \in Request : \E outcome \in Outcomes(r) :
               Backed(r, versions) /\ Make(outcome.made)
  <2>1. call[c] \in Request /\ Backed(call[c], versions)
    BY <1>2 DEF ObjectInv, TypeOK, Requests, Perform, Idle
  <2> QED BY <1>2, <2>1 DEF Perform
<1>3. ASSUME ServerLate
      PROVE  \E r \in Request : \E outcome \in Outcomes(r) :
               Backed(r, versions) /\ Make(outcome.made)
  BY <1>3 DEF ServerLate, ObjectInv, TypeOK, Requests
<1>4. ASSUME NEW c \in Copies, GiveUp(c) PROVE objects' = objects
  BY <1>4 DEF GiveUp
<1>5. CASE UNCHANGED vars
  BY <1>5 DEF vars
<1> QED BY <1>1, <1>2, <1>3, <1>4, <1>5 DEF Next

(* The invariant holds of every run of the objects.                        *)
THEOREM ObjectsAreInv == Spec => []ObjectInv
BY InitObjectInv, NextKeeps, ObjectAssumption, PTL DEF Spec

(* Every variable has its type.                                            *)
THEOREM ObjectTypeOK == Spec => []TypeOK
<1>1. ObjectInv => TypeOK
  BY DEF ObjectInv
<1> QED BY <1>1, ObjectsAreInv, PTL

(* A copy is of one version of one object, whatever replies it was made    *)
(* from.                                                                   *)
THEOREM CopiesAreOne == Spec => []CopyIsOne
<1>1. ObjectInv => CopyIsOne
  BY DEF ObjectInv, GoodCopies, Good, OneOf, CopyIsOne, IsOne
<1> QED BY <1>1, ObjectsAreInv, PTL

(* A copy is up to date with what it is known to have done itself.         *)
THEOREM CopiesKnowOwn == Spec => []KnowsOwn
<1>1. ObjectInv => KnowsOwn
  BY DEF ObjectInv, GoodCopies, Good, UpToDate, KnowsOwn
<1> QED BY <1>1, ObjectsAreInv, PTL

(* Optimistic locking: an update or delete under an ETag throws away       *)
(* nothing its caller has not seen.                                        *)
THEOREM NothingIsLost == Spec => NothingLost
<1> DEFINE Kept == \A o \in ObjectIds :
                     LET new == objects'[o]
                     IN Exists(o) /\ new # objects[o] /\ new.guarded =>
                          /\ new.state # "gone" => objects[o].value \subseteq new.value
                          /\ new.state = "gone" => objects[o].value \subseteq new.seen
<1>1. ObjectInv /\ [Next]_vars => [Kept]_vars
  <2> SUFFICES ASSUME ObjectInv, [Next]_vars PROVE Kept
    OBVIOUS
  <2> SUFFICES ASSUME NEW o \in ObjectIds, Exists(o), objects'[o] # objects[o],
                      objects'[o].guarded
               PROVE  /\ objects'[o].state # "gone" => objects[o].value \subseteq objects'[o].value
                      /\ objects'[o].state = "gone" => objects[o].value \subseteq objects'[o].seen
    OBVIOUS
  <2>1. PICK r \in Request : \E outcome \in Outcomes(r) :
               Backed(r, versions) /\ Make(outcome.made)
    BY OnlyTheServer
  <2>2. PICK outcome \in Outcomes(r) : Backed(r, versions) /\ Make(outcome.made)
    BY <2>1
  <2> QED BY <2>2, ObjectAssumption, ServerNothingLost
<1>2. Spec => [][Kept]_vars
  BY <1>1, ObjectsAreInv, PTL DEF Spec
<1> QED BY <1>2 DEF NothingLost

(* The copies, the lost and late messages and the server together          *)
(* implement a store whose updates are atomic.                             *)
THEOREM ObjectsImplementStore == Spec => ImplementsStore
<1>1. Init => Store!Init
  BY DEF Init, Store!Init
<1>2. ObjectInv /\ [Next]_vars => [Store!Next]_Mapped
  <2> SUFFICES ASSUME ObjectInv, [Next]_vars PROVE Store!Next \/ Mapped' = Mapped
    OBVIOUS
  <2>1. CASE objects' = objects
    BY <2>1 DEF Mapped
  <2>2. CASE \E r \in Request : \E outcome \in Outcomes(r) :
               Backed(r, versions) /\ Make(outcome.made)
    BY <2>2, ObjectAssumption, ServerImplements
  <2> QED BY <2>1, <2>2, OnlyTheServer
<1>3. ObjectInv /\ [Next]_vars => [Store!Next]_[o \in ObjectIds |->
        [state |-> objects[o].state, value |-> objects[o].value,
         guarded |-> objects[o].guarded]]
  BY <1>2 DEF Mapped
<1> QED BY <1>1, <1>3, ObjectsAreInv, PTL DEF Spec, ImplementsStore, Store!Spec
-----------------------------------------------------------------------------
(* How many objects a copy creates, on top of the invariant.  Every object *)
(* is paid for: by a call that its caller does not know to be done, or by  *)
(* the ID the copy has.                                                    *)

Mine(c, all) == {u \in all : u[1] = c}

Paid(c, all, unknown, k) ==
  /\ IsFiniteSet(all)
  /\ Cardinality(all) <=
       Cardinality(Mine(c, unknown)) + (IF k.object_id = NoId THEN 0 ELSE 1)

AllPaid == IsFiniteSet(unheard) /\ \A c \in Copies : Paid(c, Created(c), unheard, copy[c])

(* A call that may still do something is not yet counted, and is one of    *)
(* those its copy has made.                                                *)
Numbered(by) == by[2] <= calls[by[1]]

Fresh ==
  /\ \A u \in unheard : Numbered(u)
  /\ \A r \in adrift : Numbered(r.by) /\ r.by \notin unheard
  /\ \A r, s \in adrift : r.by = s.by => r = s
  /\ \A c \in Copies : call[c] # NoCall =>
       /\ call[c].by = <<c, calls[c]>> /\ call[c].by \notin unheard
       /\ \A r \in adrift : r.by # call[c].by

(* Save creates only for a copy without an ID, and the copy is not touched *)
(* during the call.                                                        *)
Posting == \A c \in Copies : call[c].method = "POST" => copy[c].object_id = NoId

NoneIsNew == \A v \in versions : objects[v.id].state # "none"

CreationInv == AllPaid /\ Fresh /\ Posting /\ NoneIsNew
-----------------------------------------------------------------------------
(* What a request creates.                                                 *)

LEMMA Creates ==
  ASSUME ObjectInv, ObjectAssumption, NoneIsNew, NEW r \in Request,
         NEW outcome \in Outcomes(r), Make(outcome.made)
  PROVE  /\ NoneIsNew'
         /\ \A c \in Copies :
              \/ Created(c)' \subseteq Created(c)
              \/ /\ r.method = "POST" /\ r.by[1] = c /\ outcome.made # {}
                 /\ \E o : Created(c)' \subseteq Created(c) \cup {o}
<1>0. TypeOK /\ ETags
  BY DEF ObjectInv
<1>1. CASE outcome.made = {}
  <2>1. versions' = versions /\ objects' = objects
    BY <1>0, <1>1 DEF Make, TypeOK
  <2> QED BY <2>1 DEF NoneIsNew, Created
<1>2. ASSUME NEW w \in Written(r), Cardinality(versions) < MaxETag,
             outcome.made = {Version(r, w)}
      PROVE  /\ NoneIsNew'
             /\ \A c \in Copies :
                  \/ Created(c)' \subseteq Created(c)
                  \/ /\ r.method = "POST" /\ r.by[1] = c /\ outcome.made # {}
                     /\ \E o : Created(c)' \subseteq Created(c) \cup {o}
  <2> DEFINE v == Version(r, w)
  <2>1. /\ v \in Record /\ v.etag = Cardinality(versions) + 1
        /\ v.id = w.id /\ v.state = w.state /\ v.by = r.by
    BY <1>0, <1>2, VersionIs
  <2>2. outcome.made = {v}
    BY <1>2
  <2> HIDE DEF v
  <2>3. versions' = versions \cup {v}
    BY <2>2 DEF Make
  <2>4. \A o \in ObjectIds : objects'[o] = IF o = v.id THEN v ELSE objects[o]
    <3>1. (CHOOSE u \in {v} : u.id = v.id) = v
      OBVIOUS
    <3> QED BY <2>2, <3>1 DEF Make
  <2>5. w.state # "none" /\ w.id \in ObjectIds
    BY <1>0, WrittenIs
  <2>6. NoneIsNew'
    BY <1>0, <2>1, <2>3, <2>4, <2>5 DEF NoneIsNew, TypeOK, Record
  <2>7. \A x \in versions : x.etag \in Nat /\ x.etag < v.etag
    <3>1. Cardinality(versions) \in Nat
      BY <1>0, FS_CardinalityType DEF ETags
    <3> QED BY <1>0, <2>1, <3>1 DEF ETags
  <2>8. (\A x \in versions : x.id # v.id) => r.method = "POST"
    <3> SUFFICES ASSUME \A x \in versions : x.id # v.id, r.method # "POST" PROVE FALSE
      OBVIOUS
    <3>1. Accepted(r) /\ w.id = r.object_id
      BY <1>0, WrittenIs
    <3>2. objects[w.id].state # "none" /\ objects[w.id].id = w.id
      BY <1>0, <2>5, <3>1 DEF Accepted, Exists, TypeOK
    <3>3. objects[w.id] \in versions
      BY <1>0, <2>5, <3>2 DEF ETags
    <3> QED BY <2>1, <3>2, <3>3
  <2>9. ASSUME NEW c \in Copies, NEW o \in Created(c)', o \notin Created(c)
         PROVE  o = v.id /\ r.method = "POST" /\ r.by[1] = c
    <3>1. PICK x \in versions' : /\ x.id = o /\ x.by[1] = c
                                 /\ \A y \in versions' : y.id = o => x.etag <= y.etag
      BY <2>9 DEF Created
    <3>2. o \in ObjectIds
      BY <2>9 DEF Created
    <3>3. x \notin versions
      BY <2>3, <2>9, <3>1, <3>2 DEF Created
    <3>4. x = v
      BY <2>3, <3>3
    <3>5. \A y \in versions : y.id # v.id
      <4>1. v.etag \in Nat
        BY <2>1 DEF Record
      <4> QED BY <2>3, <2>7, <3>1, <3>4, <4>1
    <3> QED BY <2>1, <2>8, <3>1, <3>4, <3>5
  <2>10. ASSUME NEW c \in Copies
         PROVE  \/ Created(c)' \subseteq Created(c)
                \/ /\ r.method = "POST" /\ r.by[1] = c /\ outcome.made # {}
                   /\ \E o : Created(c)' \subseteq Created(c) \cup {o}
    <3>1. Created(c)' \subseteq Created(c) \cup {v.id}
      BY <2>9
    <3> QED BY <2>2, <2>9, <3>1
  <2> QED BY <2>6, <2>10
<1> QED BY <1>1, <1>2, OutcomeIs
-----------------------------------------------------------------------------
(* Counting.                                                               *)

LEMMA NoMore ==
  ASSUME NEW S, NEW T, IsFiniteSet(S), T \subseteq S
  PROVE  IsFiniteSet(T) /\ Cardinality(T) <= Cardinality(S)
BY FS_Subset

LEMMA OneMore ==
  ASSUME NEW S, NEW T, NEW x, IsFiniteSet(S), T \subseteq S \cup {x}
  PROVE  IsFiniteSet(T) /\ Cardinality(T) <= Cardinality(S) + 1
<1>1. /\ IsFiniteSet(S \cup {x}) /\ Cardinality(S \cup {x}) \in Nat /\ Cardinality(S) \in Nat
      /\ Cardinality(S \cup {x}) <= Cardinality(S) + 1
  <2>1. IsFiniteSet(S \cup {x})
    BY FS_AddElement
  <2>2. Cardinality(S \cup {x}) = IF x \in S THEN Cardinality(S) ELSE Cardinality(S) + 1
    BY FS_AddElement
  <2>3. Cardinality(S) \in Nat
    BY FS_CardinalityType
  <2> QED BY <2>1, <2>2, <2>3
<1>2. IsFiniteSet(T) /\ Cardinality(T) <= Cardinality(S \cup {x})
  BY <1>1, NoMore
<1>3. Cardinality(T) \in Nat
  BY <1>2, FS_CardinalityType
<1> QED BY <1>1, <1>2, <1>3

LEMMA MineGrows ==
  ASSUME NEW c, NEW u, u[1] = c, IsFiniteSet(unheard), u \notin unheard
  PROVE  /\ IsFiniteSet(unheard \cup {u})
         /\ Cardinality(Mine(c, unheard \cup {u})) = Cardinality(Mine(c, unheard)) + 1
<1>1. Mine(c, unheard \cup {u}) = Mine(c, unheard) \cup {u} /\ u \notin Mine(c, unheard)
  BY DEF Mine
<1>2. IsFiniteSet(Mine(c, unheard))
  BY NoMore DEF Mine
<1>3. Cardinality(Mine(c, unheard) \cup {u}) =
        IF u \in Mine(c, unheard) THEN Cardinality(Mine(c, unheard))
        ELSE Cardinality(Mine(c, unheard)) + 1
  BY <1>2, FS_AddElement
<1>4. IsFiniteSet(unheard \cup {u})
  BY FS_AddElement
<1> QED BY <1>1, <1>3, <1>4

LEMMA Numbers ==
  ASSUME NEW c, NEW all, NEW unknown, IsFiniteSet(all), IsFiniteSet(unknown)
  PROVE  Cardinality(all) \in Nat /\ Cardinality(Mine(c, unknown)) \in Nat
<1>1. IsFiniteSet(Mine(c, unknown))
  BY NoMore DEF Mine
<1> QED BY <1>1, FS_CardinalityType
-----------------------------------------------------------------------------
(* The steps.                                                              *)

LEMMA InitCreationInv == ObjectAssumption /\ Init => CreationInv
<1> SUFFICES ASSUME ObjectAssumption, Init PROVE CreationInv
  OBVIOUS
<1>1. ASSUME NEW c \in Copies PROVE Created(c) = {} /\ Mine(c, unheard) = {}
  BY DEF Init, Created, Mine
<1>2. AllPaid
  <2>1. unheard = {} /\ IsFiniteSet(unheard)
    BY FS_EmptySet DEF Init
  <2>2. ASSUME NEW c \in Copies PROVE Paid(c, Created(c), unheard, copy[c])
    <3> DEFINE none == Created(c)
    <3>1. none = Mine(c, unheard) /\ none = {}
      BY <1>1
    <3> HIDE DEF none
    <3>2. IsFiniteSet(none) /\ Cardinality(none) = 0
      BY <3>1, FS_EmptySet
    <3>3. Cardinality(none) <= Cardinality(Mine(c, unheard)) + 0
          /\ Cardinality(none) <= Cardinality(Mine(c, unheard)) + 1
      BY <3>1, <3>2
    <3> QED BY <3>2, <3>3 DEF Paid, none
  <2> QED BY <2>1, <2>2 DEF AllPaid
<1>3. Fresh
  BY DEF Init, Fresh
<1>4. Posting /\ NoneIsNew
  BY DEF Init, Posting, NoneIsNew, NoCall
<1> QED BY <1>2, <1>3, <1>4 DEF CreationInv

(* A new call has a number of its own.                                     *)
LEMMA SendCreates ==
  ASSUME ObjectInv, CreationInv, NEW c \in Copies, NEW operation, NEW request \in Request,
         request.by = <<c, calls[c] + 1>>,
         request.method = "POST" => copy[c].object_id = NoId,
         Send(c, operation, request)
  PROVE  CreationInv'
<1>0. /\ unheard \subseteq CallId /\ adrift \subseteq Request
      /\ calls \in [Copies -> Nat] /\ call \in [Copies -> Request \cup {NoCall}]
  BY DEF ObjectInv, TypeOK
<1>1. AllPaid' /\ NoneIsNew'
  BY DEF CreationInv, AllPaid, Created, NoneIsNew, Send
<1>2. Posting'
  BY <1>0 DEF CreationInv, Posting, Send
<1>3. /\ call' = [call EXCEPT ![c] = request] /\ calls' = [calls EXCEPT ![c] = @ + 1]
      /\ UNCHANGED <<adrift, unheard>>
  BY DEF Send
<1>4. ASSUME NEW u \in CallId, Numbered(u)
      PROVE  Numbered(u)' /\ u # request.by
  BY <1>0, <1>3, <1>4 DEF Numbered, CallId
<1>5. \A u \in unheard : Numbered(u)' /\ u # request.by
  BY <1>0, <1>4 DEF CreationInv, Fresh
<1>6. \A r \in adrift : r.by \in CallId /\ Numbered(r.by)' /\ r.by # request.by
  BY <1>0, <1>4 DEF CreationInv, Fresh, Request
<1>7. Fresh'
  BY <1>0, <1>3, <1>5, <1>6 DEF CreationInv, Fresh, Numbered
<1> QED BY <1>1, <1>2, <1>7 DEF CreationInv

LEMMA EditCreates ==
  ASSUME ObjectInv, CreationInv, NEW c \in Copies, NEW e \in Edits, Edit(c, e)
  PROVE  CreationInv'
<1>1. \A d \in Copies : copy'[d].object_id = copy[d].object_id
  BY DEF ObjectInv, TypeOK, Edit, Object
<1>2. UNCHANGED <<call, calls, adrift, unheard, objects, versions>>
  BY DEF Edit
<1>3. AllPaid'
  BY <1>1, <1>2 DEF CreationInv, AllPaid, Paid, Created
<1>4. Fresh' /\ Posting' /\ NoneIsNew'
  BY <1>1, <1>2 DEF CreationInv, Fresh, Numbered, Posting, NoneIsNew
<1> QED BY <1>3, <1>4 DEF CreationInv

LEMMA StartCreates ==
  ASSUME ObjectInv, CreationInv, ObjectAssumption, NEW c \in Copies, Start(c)
  PROVE  CreationInv'
<1>0. TypeOK /\ copy[c] \in Object
  BY DEF ObjectInv, TypeOK
<1>1. CASE Save(c)
  <2>0. IsRequest(Plain(c, "POST"), c) /\ IsRequest(Named(c, "full_update"), c)
    BY <1>0, PlainIs DEF Methods
  <2>1. SaveRequest(c) \in Request
    BY <1>0, <2>0 DEF IsRequest, SaveRequest, Request, Object
  <2>3. SaveRequest(c).by = <<c, calls[c] + 1>>
    BY DEF SaveRequest, Plain, Named
  <2>2. SaveRequest(c).method = "POST" => copy[c].object_id = NoId
    BY DEF SaveRequest, Named, Plain
  <2> QED BY <1>1, <2>1, <2>2, <2>3, SendCreates DEF Save
<1>2. ASSUME NEW e \in Edits, PartUpdateObject(c, e) PROVE CreationInv'
  <2> DEFINE r == [Named(c, "part_update") EXCEPT !.value = {e}]
  <2>0. IsRequest(Named(c, "part_update"), c)
    BY <1>0, PlainIs DEF Methods
  <2>1. r \in Request
    BY <2>0 DEF IsRequest, Request
  <2>2. r.by = <<c, calls[c] + 1>> /\ r.method # "POST"
    BY DEF Named, Plain
  <2> QED BY <1>2, <2>1, <2>2, SendCreates DEF PartUpdateObject
<1>3. ASSUME NEW mark \in BOOLEAN, DeleteObject(c, mark) PROVE CreationInv'
  <2>0. IsRequest(Named(c, "DELETE"), c)
    BY <1>0, PlainIs DEF Methods
  <2>1. DeleteRequest(c, mark) \in Request
    BY <2>0 DEF IsRequest, DeleteRequest, Request
  <2>2. DeleteRequest(c, mark).by = <<c, calls[c] + 1>> /\ DeleteRequest(c, mark).method # "POST"
    BY DEF DeleteRequest, Named, Plain
  <2> QED BY <1>3, <2>1, <2>2, SendCreates DEF DeleteObject
<1>4. ASSUME NEW mark \in BOOLEAN, NEW o \in ObjectIds, GetObject(c, o, mark) PROVE CreationInv'
  <2> DEFINE r == [Plain(c, "GET") EXCEPT !.object_id = o, !.mark = mark]
  <2>0. IsRequest(Plain(c, "GET"), c)
    BY <1>0, PlainIs DEF Methods
  <2>1. r \in Request
    BY <2>0 DEF IsRequest, Request
  <2>2. r.by = <<c, calls[c] + 1>> /\ r.method # "POST"
    BY DEF Plain
  <2> QED BY <1>4, <2>1, <2>2, SendCreates DEF GetObject
<1>5. ASSUME NEW mark \in BOOLEAN, NEW p \in Projections, Query(c, mark, p) PROVE CreationInv'
  <2> DEFINE r == [Plain(c, "query") EXCEPT !.mark = mark, !.projection = p]
  <2>0. IsRequest(Plain(c, "query"), c)
    BY <1>0, PlainIs DEF Methods
  <2>1. r \in Request
    BY <2>0 DEF IsRequest, Request
  <2>2. r.by = <<c, calls[c] + 1>> /\ r.method # "POST"
    BY DEF Plain
  <2> QED BY <1>5, <2>1, <2>2, SendCreates DEF Query
<1> QED BY <1>1, <1>2, <1>3, <1>4, <1>5, EditCreates DEF Start

LEMMA GiveUpCreates ==
  ASSUME ObjectInv, CreationInv, NEW c \in Copies, GiveUp(c) PROVE CreationInv'
<1>0. call \in [Copies -> Request \cup {NoCall}] /\ calls \in [Copies -> Nat] /\ call[c] # NoCall
  BY DEF ObjectInv, TypeOK, GiveUp, Idle
<1>1. AllPaid' /\ NoneIsNew'
  BY DEF CreationInv, AllPaid, Created, NoneIsNew, GiveUp
<1>2. Posting'
  BY <1>0 DEF CreationInv, Posting, GiveUp, NoCall
<1>3. /\ adrift' \subseteq adrift \cup {call[c]}
      /\ call' = [call EXCEPT ![c] = NoCall] /\ UNCHANGED <<calls, unheard>>
  BY DEF GiveUp
<1>4. call[c].by = <<c, calls[c]>> /\ call[c].by \notin unheard /\ \A r \in adrift : r.by # call[c].by
  BY <1>0 DEF CreationInv, Fresh
<1>5. Numbered(call[c].by)
  BY <1>0, <1>4 DEF Numbered
<1>6. ASSUME NEW d \in Copies, call'[d] # NoCall
      PROVE  /\ call'[d].by = <<d, calls[d]>> /\ call'[d].by \notin unheard
             /\ \A r \in adrift \cup {call[c]} : r.by # call'[d].by
  <2>1. d # c /\ call'[d] = call[d]
    BY <1>0, <1>3, <1>6
  <2> QED BY <1>4, <1>6, <2>1 DEF CreationInv, Fresh
<1>7. Fresh'
  BY <1>3, <1>4, <1>5, <1>6 DEF CreationInv, Fresh, Numbered
<1> QED BY <1>1, <1>2, <1>7 DEF CreationInv

LEMMA FoundIsSeq == ASSUME NEW r, NEW results \in Found(r), r.method = "query"
                    PROVE  0 \notin DOMAIN results
<1>1. PICK order \in SetToSeqs({o \in ObjectIds : Visible(o, r.mark)}) :
             results = [i \in DOMAIN order |-> ToJson(objects[order[i]], r.projection)]
  BY DEF Found
<1>2. ASSUME NEW S, NEW s \in SetToSeqs(S) PROVE 0 \notin DOMAIN s
  <2>1. DOMAIN s = 1..Cardinality(S)
    BY DEF SetToSeqs
  <2> QED BY <2>1
<1> QED BY <1>1, <1>2

(* What an ID stays or becomes, of an answer with all the IDs in it.       *)
LEMMA ReadKeepsId ==
  ASSUME TypeOK, ObjectAssumption, NEW c \in Copies, NEW r \in Request,
         NEW found \in Found(r), NEW reply \in Replies(r, found),
         \A i \in DOMAIN reply.results : "_id" \in DOMAIN reply.results[i],
         NEW k \in Received(c, r, reply.results)
  PROVE  k = copy[c] \/ k.object_id # NoId
<1> DEFINE results == reply.results
<1>1. ReadFrom(r, found)
  BY FoundIs
<1>2. \/ results = found
      \/ r.method = "query" /\ results = <<>>
      \/ results = [i \in DOMAIN found |-> NoMembers]
  BY DEF Replies, Ok
<1>3. \A i \in DOMAIN found : "_id" \in DOMAIN found[i] => found[i]["_id"] # NoId
  <2>1. ASSUME NEW o \in ObjectIds, NEW p, "_id" \in DOMAIN ToJson(objects[o], p)
        PROVE  ToJson(objects[o], p)["_id"] # NoId
    <3>1. ToJson(objects[o], p)["_id"] = objects[o].id
      BY <2>1 DEF ToJson
    <3> QED BY <3>1 DEF TypeOK, ObjectAssumption
  <2>2. "_id" \notin DOMAIN NoMembers
    BY DEF NoMembers
  <2> QED BY <1>1, <2>1, <2>2 DEF ReadFrom
<1>4. \A i \in DOMAIN results : results[i]["_id"] # NoId
  <2>1. CASE results = found
    BY <1>3, <2>1
  <2>2. CASE results = <<>>
    BY <2>2
  <2>3. CASE results = [i \in DOMAIN found |-> NoMembers]
    <3>1. "_id" \notin DOMAIN NoMembers
      BY DEF NoMembers
    <3> QED BY <2>3, <3>1
  <2> QED BY <1>2, <2>1, <2>2, <2>3
<1>5. r.method \in {"GET", "query"} /\ (r.method = "GET" => 1 \in DOMAIN results)
  BY <1>1, <1>2 DEF ReadFrom, Reads
<1> HIDE DEF results
<1>6. ASSUME NEW object, NEW i \in DOMAIN results
      PROVE  SetCurrentParam(object, results[i]).object_id # NoId
  <2>1. "_id" \in DOMAIN results[i]
    BY DEF results
  <2> QED BY <1>4, <2>1 DEF SetCurrentParam, Member
<1>7. CASE r.method = "GET"
  <2>1. k = SetCurrentParam(NewObject, results[1])
    BY <1>7 DEF Received, results
  <2> QED BY <1>5, <1>6, <1>7, <2>1
<1>8. CASE r.method = "query"
  <2>1. ASSUME NEW i \in DOMAIN results PROVE QueryResult(results)[i].object_id # NoId
    <3>1. i # 0
      BY <1>2, <1>8, FoundIsSeq DEF results
    <3>2. QueryResult(results)[i] = SetCurrentParam(NewObject, results[i])
      BY <3>1, QueryResultIs
    <3> QED BY <1>6, <3>2
  <2> QED BY <1>8, <2>1 DEF Received, results
<1> QED BY <1>5, <1>7, <1>8

(* What the caller pays with when it hears the reply.                      *)
LEMMA HeardPays ==
  ASSUME ObjectInv, ObjectAssumption, NEW c \in Copies, NEW r \in Request, r.by[1] = c,
         NEW outcome \in Outcomes(r), Make(outcome.made), Heard(c, r, outcome.reply)
  PROVE  /\ \A d \in Copies : d # c => copy'[d] = copy[d]
         /\ \/ unheard' = unheard \cup {r.by}
            \/ /\ unheard' = unheard
               /\ \/ copy'[c].object_id # NoId
                  \/ (outcome.made = {} \/ r.method # "POST") /\ copy'[c] = copy[c]
<1>0. TypeOK /\ ETags
  BY DEF ObjectInv
<1>1. \A d \in Copies : d # c => copy'[d] = copy[d]
  BY <1>0 DEF Heard, TypeOK
<1> SUFFICES ASSUME unheard' # unheard \cup {r.by}
             PROVE  /\ unheard' = unheard
                    /\ \/ copy'[c].object_id # NoId
                       \/ (outcome.made = {} \/ r.method # "POST") /\ copy'[c] = copy[c]
  BY <1>1
<1>2. /\ unheard' = unheard
      /\ \A i \in DOMAIN outcome.reply.results : "_id" \in DOMAIN outcome.reply.results[i]
  BY DEF Heard
<1>3. CASE ~outcome.reply.ok
  <2>1. outcome.made = {}
    <3>1. ASSUME NEW results, NEW reply \in Replies(r, results) PROVE reply.ok
      BY <3>1 DEF Replies, Ok
    <3> QED BY <1>3, <3>1, OutcomeIs
  <2> QED BY <1>2, <1>3, <2>1 DEF Heard
<1>4. ASSUME outcome.reply.ok, NEW k \in Received(c, r, outcome.reply.results),
             copy' = [copy EXCEPT ![c] = k]
      PROVE  \/ copy'[c].object_id # NoId
             \/ (outcome.made = {} \/ r.method # "POST") /\ copy'[c] = copy[c]
  <2>0. copy'[c] = k
    BY <1>0, <1>4 DEF TypeOK
  <2>1. CASE outcome.made = {}
    <3>1. PICK results \in Found(r) : outcome.reply \in Replies(r, results)
      <4>1. ~Refused.ok
        BY DEF Refused
      <4> QED BY <1>4, <2>1, <4>1, OutcomeIs
    <3>2. k = copy[c] \/ k.object_id # NoId
      BY <1>0, <1>2, <1>4, <3>1, ReadKeepsId
    <3> QED BY <2>0, <2>1, <3>2
  <2>2. ASSUME NEW w \in Written(r), NEW v \in Record, v.id = w.id, v.state = w.state,
               outcome.reply \in Replies(r, IF v.state = "gone" THEN <<>> ELSE <<ToJson(v, {})>>)
        PROVE  k.object_id # NoId \/ (r.method # "POST" /\ k = copy[c])
    <3> DEFINE results == outcome.reply.results
    <3>1. /\ v.id # NoId /\ r.method \in {"POST", "full_update", "part_update", "DELETE"}
          /\ r.method # "DELETE" => v.state # "gone"
          /\ r.method = "DELETE" /\ r.mark => v.state # "gone"
      BY <1>0, <2>2, WrittenIs DEF ObjectAssumption, Written, Accepted, Exists
    <3>2. CASE r.method = "DELETE" /\ ~r.mark
      BY <3>2 DEF Received
    <3>3. CASE ~(r.method = "DELETE" /\ ~r.mark)
      <4>1. results = <<ToJson(v, {})>> \/ results = [i \in {1} |-> NoMembers]
        BY <2>2, <3>1, <3>3 DEF Replies, Ok
      <4>2. "_id" \notin DOMAIN NoMembers
        BY DEF NoMembers
      <4>3. results[1] = ToJson(v, {})
        BY <1>2, <4>1, <4>2
      <4>4. k = SetCurrentParam(copy[c], results[1])
        BY <1>4, <3>1, <3>3 DEF Received
      <4>5. "_id" \in DOMAIN ToJson(v, {}) /\ ToJson(v, {})["_id"] = v.id
        BY DEF ToJson
      <4> HIDE DEF results
      <4> QED BY <3>1, <4>3, <4>4, <4>5 DEF SetCurrentParam, Member
    <3> QED BY <3>2, <3>3
  <2>3. outcome.made = {} \/ k.object_id # NoId \/ (r.method # "POST" /\ k = copy[c])
    <3>1. MadeBy(r, outcome)
      BY <1>0, MadeIs
    <3> QED BY <2>2, <3>1 DEF MadeBy
  <2> QED BY <2>0, <2>1, <2>3
<1> QED BY <1>2, <1>3, <1>4 DEF Heard
-----------------------------------------------------------------------------
(* The calls that may still do something, after the one of number by has.  *)
LEMMA FreshStays ==
  ASSUME ObjectInv, Fresh, NEW by, Numbered(by), calls' = calls,
         adrift' \subseteq adrift, unheard' \subseteq unheard \cup {by},
         \A r \in adrift' : r.by # by,
         \A c \in Copies : call'[c] # NoCall => call'[c] = call[c] /\ call[c].by # by
  PROVE  Fresh'
<1>1. \A u \in unheard' : Numbered(u)'
  BY DEF Fresh, Numbered
<1>2. \A r \in adrift' : Numbered(r.by)' /\ r.by \notin unheard'
  BY DEF Fresh, Numbered
<1>3. \A r, s \in adrift' : r.by = s.by => r = s
  BY DEF Fresh
<1>4. \A c \in Copies : call'[c] # NoCall =>
        /\ call'[c].by = <<c, calls'[c]>> /\ call'[c].by \notin unheard'
        /\ \A r \in adrift' : r.by # call'[c].by
  BY DEF Fresh
<1> QED BY <1>1, <1>2, <1>3, <1>4 DEF Fresh

(* The caller does not know that its call was done: that pays for whatever *)
(* the call created.                                                       *)
LEMMA UnknownPays ==
  ASSUME NEW c \in Copies, NEW all, NEW more, NEW k, NEW l, NEW by, by \notin unheard,
         IsFiniteSet(unheard), Paid(c, all, unheard, k),
         IF by[1] = c
         THEN \/ more \subseteq all
              \/ (\E o : more \subseteq all \cup {o}) /\ (l = k \/ k.object_id = NoId)
         ELSE more \subseteq all /\ l = k
  PROVE  Paid(c, more, unheard \cup {by}, l)
<1> DEFINE n == Cardinality(Mine(c, unheard))
           bit(object) == IF object.object_id = NoId THEN 0 ELSE 1
<1>1. IsFiniteSet(all) /\ Cardinality(all) <= n + bit(k)
  BY DEF Paid
<1>2. Cardinality(all) \in Nat /\ n \in Nat
  BY <1>1, Numbers
<1>3. CASE by[1] = c
  <2>1. Cardinality(Mine(c, unheard \cup {by})) = n + 1
    BY <1>3, MineGrows
  <2> HIDE DEF n
  <2>2. CASE more \subseteq all
    <3>1. IsFiniteSet(more) /\ Cardinality(more) <= Cardinality(all) /\ Cardinality(more) \in Nat
      BY <1>1, <2>2, NoMore, FS_CardinalityType
    <3> QED BY <1>1, <1>2, <2>1, <3>1 DEF Paid
  <2>3. CASE (\E o : more \subseteq all \cup {o}) /\ (l = k \/ k.object_id = NoId)
    <3>1. IsFiniteSet(more) /\ Cardinality(more) <= Cardinality(all) + 1 /\ Cardinality(more) \in Nat
      BY <1>1, <2>3, OneMore, FS_CardinalityType
    <3> QED BY <1>1, <1>2, <2>1, <2>3, <3>1 DEF Paid
  <2> QED BY <1>3, <2>2, <2>3
<1>4. CASE by[1] # c
  <2>1. Mine(c, unheard \cup {by}) = Mine(c, unheard)
    BY <1>4 DEF Mine
  <2>2. IsFiniteSet(more) /\ Cardinality(more) <= Cardinality(all) /\ Cardinality(more) \in Nat
    BY <1>1, <1>4, NoMore, FS_CardinalityType
  <2> QED BY <1>1, <1>2, <1>4, <2>1, <2>2 DEF Paid
<1> QED BY <1>3, <1>4

(* The caller knows: the ID pays.                                          *)
LEMMA IdPays ==
  ASSUME NEW c \in Copies, NEW all, NEW more, NEW k, NEW l,
         IsFiniteSet(unheard), Paid(c, all, unheard, k),
         \/ more \subseteq all /\ (l = k \/ l.object_id # NoId)
         \/ /\ \E o : more \subseteq all \cup {o}
            /\ k.object_id = NoId /\ l.object_id # NoId
  PROVE  Paid(c, more, unheard, l)
<1>1. IsFiniteSet(all) /\ Cardinality(all) \in Nat /\ Cardinality(Mine(c, unheard)) \in Nat
  BY Numbers DEF Paid
<1>2. CASE more \subseteq all /\ (l = k \/ l.object_id # NoId)
  <2>1. IsFiniteSet(more) /\ Cardinality(more) <= Cardinality(all) /\ Cardinality(more) \in Nat
    BY <1>1, <1>2, NoMore, FS_CardinalityType
  <2> QED BY <1>1, <1>2, <2>1 DEF Paid
<1>3. CASE (\E o : more \subseteq all \cup {o}) /\ k.object_id = NoId /\ l.object_id # NoId
  <2>1. IsFiniteSet(more) /\ Cardinality(more) <= Cardinality(all) + 1 /\ Cardinality(more) \in Nat
    BY <1>1, <1>3, OneMore, FS_CardinalityType
  <2> QED BY <1>1, <1>3, <2>1 DEF Paid
<1> QED BY <1>2, <1>3

LEMMA UnheardPays ==
  ASSUME ObjectInv, ObjectAssumption, CreationInv, NEW r \in Request, r.by \notin unheard,
         NEW outcome \in Outcomes(r), Make(outcome.made), Unheard(outcome.made)
  PROVE  /\ AllPaid' /\ NoneIsNew' /\ copy' = copy
         /\ unheard' \subseteq unheard \cup {r.by}
<1>1. /\ NoneIsNew'
      /\ \A c \in Copies :
           \/ Created(c)' \subseteq Created(c)
           \/ /\ r.method = "POST" /\ r.by[1] = c /\ outcome.made # {}
              /\ \E o : Created(c)' \subseteq Created(c) \cup {o}
  BY Creates DEF CreationInv
<1>2. copy' = copy /\ unheard' = unheard \cup {v.by : v \in outcome.made}
  BY DEF Unheard
<1>3. \/ outcome.made = {} /\ unheard' = unheard
      \/ outcome.made # {} /\ unheard' = unheard \cup {r.by}
  <2>1. MadeBy(r, outcome)
    BY MadeIs DEF ObjectInv
  <2>2. ASSUME NEW v, outcome.made = {v}, v.by = r.by
        PROVE  outcome.made # {} /\ unheard' = unheard \cup {r.by}
    BY <1>2, <2>2
  <2>3. outcome.made = {} \/ \E v : outcome.made = {v} /\ v.by = r.by
    BY <2>1 DEF MadeBy
  <2>4. outcome.made = {} => unheard' = unheard
    BY <1>2
  <2> QED BY <2>2, <2>3, <2>4
<1>4. IsFiniteSet(unheard) /\ IsFiniteSet(unheard')
  <2>1. IsFiniteSet(unheard)
    BY DEF CreationInv, AllPaid
  <2> QED BY <1>3, <2>1, FS_AddElement
<1>5. ASSUME NEW c \in Copies PROVE Paid(c, Created(c)', unheard', copy'[c])
  <2>1. Paid(c, Created(c), unheard, copy[c])
    BY DEF CreationInv, AllPaid
  <2>2. CASE outcome.made = {} /\ unheard' = unheard
    <3>1. Created(c)' \subseteq Created(c)
      BY <1>1, <2>2
    <3>2. Paid(c, Created(c)', unheard, copy[c])
      BY <1>4, <2>1, <3>1, IdPays
    <3> QED BY <1>2, <2>2, <3>2
  <2>3. CASE unheard' = unheard \cup {r.by}
    <3>1. IF r.by[1] = c
          THEN \/ Created(c)' \subseteq Created(c)
               \/ \E o : Created(c)' \subseteq Created(c) \cup {o}
          ELSE Created(c)' \subseteq Created(c)
      BY <1>1
    <3> QED BY <1>2, <1>4, <2>1, <2>3, <3>1, UnknownPays
  <2> QED BY <1>3, <2>2, <2>3
<1>6. AllPaid'
  BY <1>4, <1>5 DEF AllPaid, Paid, Mine
<1> QED BY <1>1, <1>2, <1>3, <1>6

LEMMA PerformCreates ==
  ASSUME ObjectInv, ObjectAssumption, CreationInv, NEW c \in Copies, Perform(c)
  PROVE  CreationInv'
<1> DEFINE r == call[c]
<1>0. r \in Request /\ r # NoCall /\ call \in [Copies -> Request \cup {NoCall}]
  BY DEF ObjectInv, TypeOK, Perform, Idle
<1>1. /\ r.by = <<c, calls[c]>> /\ r.by \notin unheard /\ r.by[1] = c
      /\ \A s \in adrift : s.by # r.by
  BY <1>0 DEF CreationInv, Fresh
<1>2. r.method = "POST" => copy[c].object_id = NoId
  BY DEF CreationInv, Posting
<1>3. PICK outcome \in Outcomes(r) :
        Make(outcome.made) /\ (Heard(c, r, outcome.reply) \/ Unheard(outcome.made))
  BY DEF Perform
<1>4. call' = [call EXCEPT ![c] = NoCall] /\ UNCHANGED <<calls, adrift>>
  BY DEF Perform
<1>5. ASSUME NEW d \in Copies PROVE call'[d] = IF d = c THEN NoCall ELSE call[d]
  BY <1>0, <1>4
<1>6. ASSUME NEW d \in Copies, call'[d] # NoCall
      PROVE  d # c /\ call'[d] = call[d] /\ call[d].by # r.by
  BY <1>1, <1>5, <1>6 DEF CreationInv, Fresh
<1>7. calls[c] \in Nat
  BY DEF ObjectInv, TypeOK
<1> HIDE DEF r
<1>8. Numbered(r.by)
  BY <1>1, <1>7 DEF Numbered
<1>9. ASSUME unheard' \subseteq unheard \cup {r.by} PROVE Fresh'
  BY <1>1, <1>4, <1>6, <1>8, <1>9, FreshStays DEF CreationInv
<1>10. ASSUME \A d \in Copies : d # c => copy'[d] = copy[d] PROVE Posting'
  <2>1. ASSUME NEW d \in Copies, call'[d].method = "POST" PROVE copy'[d].object_id = NoId
    <3>1. d # c
      BY <1>5, <2>1 DEF NoCall
    <3> QED BY <1>5, <1>10, <2>1, <3>1 DEF CreationInv, Posting
  <2> QED BY <2>1 DEF Posting
<1>11. CASE Unheard(outcome.made)
  <2>1. AllPaid' /\ NoneIsNew' /\ copy' = copy /\ unheard' \subseteq unheard \cup {r.by}
    BY <1>0, <1>1, <1>3, <1>11, UnheardPays
  <2> QED BY <1>9, <1>10, <2>1 DEF CreationInv
<1>12. CASE Heard(c, r, outcome.reply)
  <2>1. \A d \in Copies : d # c => copy'[d] = copy[d]
    BY <1>0, <1>1, <1>3, <1>12, HeardPays
  <2>2. \/ unheard' = unheard \cup {r.by}
        \/ /\ unheard' = unheard
           /\ \/ copy'[c].object_id # NoId
              \/ (outcome.made = {} \/ r.method # "POST") /\ copy'[c] = copy[c]
    BY <1>0, <1>1, <1>3, <1>12, HeardPays
  <2>3. NoneIsNew'
    BY <1>0, <1>3, Creates DEF CreationInv
  <2>4. IsFiniteSet(unheard) /\ IsFiniteSet(unheard')
    <3>1. IsFiniteSet(unheard)
      BY DEF CreationInv, AllPaid
    <3> QED BY <2>2, <3>1, FS_AddElement
  <2>5. ASSUME NEW d \in Copies PROVE Paid(d, Created(d)', unheard', copy'[d])
    <3>1. Paid(d, Created(d), unheard, copy[d])
      BY DEF CreationInv, AllPaid
    <3>2. \/ Created(d)' \subseteq Created(d)
          \/ /\ r.method = "POST" /\ d = c /\ outcome.made # {} /\ copy[c].object_id = NoId
             /\ \E o : Created(d)' \subseteq Created(d) \cup {o}
      <4>1. \/ Created(d)' \subseteq Created(d)
            \/ /\ r.method = "POST" /\ r.by[1] = d /\ outcome.made # {}
               /\ \E o : Created(d)' \subseteq Created(d) \cup {o}
        BY <1>0, <1>3, Creates DEF CreationInv
      <4> QED BY <1>1, <1>2, <4>1
    <3>3. CASE unheard' = unheard \cup {r.by}
      <4>1. IF r.by[1] = d
            THEN \/ Created(d)' \subseteq Created(d)
                 \/ /\ \E o : Created(d)' \subseteq Created(d) \cup {o}
                    /\ copy'[d] = copy[d] \/ copy[d].object_id = NoId
            ELSE Created(d)' \subseteq Created(d) /\ copy'[d] = copy[d]
        BY <1>1, <2>1, <3>2
      <4>2. Paid(d, Created(d)', unheard \cup {r.by}, copy'[d])
        BY <1>1, <2>4, <3>1, <4>1, UnknownPays
      <4> QED BY <3>3, <4>2
    <3>4. CASE unheard' # unheard \cup {r.by}
      <4>1. \/ Created(d)' \subseteq Created(d) /\ (copy'[d] = copy[d] \/ copy'[d].object_id # NoId)
            \/ /\ \E o : Created(d)' \subseteq Created(d) \cup {o}
               /\ copy[d].object_id = NoId /\ copy'[d].object_id # NoId
        BY <2>1, <2>2, <3>2, <3>4
      <4>2. Paid(d, Created(d)', unheard, copy'[d])
        BY <2>4, <3>1, <4>1, IdPays
      <4> QED BY <2>2, <3>4, <4>2
    <3> QED BY <3>3, <3>4
  <2>6. AllPaid'
    BY <2>4, <2>5 DEF AllPaid, Paid, Mine
  <2>7. unheard' \subseteq unheard \cup {r.by}
    BY <2>2
  <2> QED BY <1>9, <1>10, <2>1, <2>3, <2>6, <2>7 DEF CreationInv
<1> QED BY <1>3, <1>11, <1>12

LEMMA ServerLateCreates ==
  ASSUME ObjectInv, ObjectAssumption, CreationInv, ServerLate PROVE CreationInv'
<1>1. PICK r \in adrift :
        /\ \E outcome \in Outcomes(r) : Make(outcome.made) /\ Unheard(outcome.made)
        /\ adrift' = adrift \ {r} /\ UNCHANGED <<call, calls>>
  BY DEF ServerLate
<1>2. PICK outcome \in Outcomes(r) : Make(outcome.made) /\ Unheard(outcome.made)
  BY <1>1
<1>3. r \in Request /\ r.by \notin unheard /\ Numbered(r.by)
  BY DEF ObjectInv, TypeOK, CreationInv, Fresh
<1>4. AllPaid' /\ NoneIsNew' /\ copy' = copy /\ unheard' \subseteq unheard \cup {r.by}
  BY <1>2, <1>3, UnheardPays
<1>5. \A s \in adrift' : s.by # r.by
  BY <1>1 DEF CreationInv, Fresh
<1>6. \A c \in Copies : call'[c] # NoCall => call'[c] = call[c] /\ call[c].by # r.by
  BY <1>1 DEF CreationInv, Fresh
<1>7. Fresh'
  BY <1>1, <1>3, <1>4, <1>5, <1>6, FreshStays DEF CreationInv
<1>8. Posting'
  BY <1>1, <1>4 DEF CreationInv, Posting
<1> QED BY <1>4, <1>7, <1>8 DEF CreationInv

LEMMA NextCreates == ObjectAssumption /\ ObjectInv /\ CreationInv /\ [Next]_vars => CreationInv'
<1> SUFFICES ASSUME ObjectAssumption, ObjectInv, CreationInv, [Next]_vars PROVE CreationInv'
  OBVIOUS
<1>1. CASE UNCHANGED vars
  <2>1. UNCHANGED <<copy, call, calls, adrift, unheard, objects, versions>>
    BY <1>1 DEF vars
  <2>2. \A c \in Copies : Created(c)' = Created(c)
    BY <2>1 DEF Created
  <2>3. AllPaid'
    BY <2>1, <2>2 DEF CreationInv, AllPaid, Paid, Mine
  <2>4. Fresh' /\ Posting' /\ NoneIsNew'
    BY <2>1 DEF CreationInv, Fresh, Numbered, Posting, NoneIsNew
  <2> QED BY <2>3, <2>4 DEF CreationInv
<1> QED BY <1>1, StartCreates, PerformCreates, GiveUpCreates, ServerLateCreates DEF Next

(* A copy creates one object, and one more at most for each of its calls   *)
(* that was done without its caller hearing so, or whose reply had no ID   *)
(* in it.                                                                  *)
THEOREM CopiesCreateOnce == Spec => []CreatedOnce
<1>1. Spec => []CreationInv
  BY InitCreationInv, NextCreates, ObjectsAreInv, ObjectAssumption, PTL DEF Spec
<1>2. CreationInv => CreatedOnce
  <2> SUFFICES ASSUME CreationInv, NEW c \in Copies
               PROVE  Cardinality(Created(c)) <= 1 + Cardinality({u \in unheard : u[1] = c})
    BY DEF CreatedOnce
  <2>1. Paid(c, Created(c), unheard, copy[c]) /\ IsFiniteSet(unheard)
    BY DEF CreationInv, AllPaid
  <2>2. Cardinality(Created(c)) \in Nat /\ Cardinality(Mine(c, unheard)) \in Nat
    BY <2>1, Numbers DEF Paid
  <2>3. Cardinality(Created(c)) <= 1 + Cardinality(Mine(c, unheard))
    BY <2>1, <2>2 DEF Paid
  <2> QED BY <2>3 DEF Mine
<1> QED BY <1>1, <1>2, PTL
=============================================================================
