------------------------- MODULE NbApiGatewayProofs -------------------------
(***************************************************************************)
(* Proofs about NbApiGateway, for every set of names, values, bodies and   *)
(* tokens and every bound.  Lower is any function that tells the names of  *)
(* the SDK's own headers apart.                                            *)
(***************************************************************************)
EXTENDS NbApiGateway, TLAPS

-----------------------------------------------------------------------------
(* What a multimap has under some names in lower case, and what it has     *)
(* under the others.                                                       *)
Part(map, lows) == [p \in {q \in DOMAIN map : Lower[q[1]] \in lows} |-> map[p]]
Others(map, lows) == [p \in {q \in DOMAIN map : Lower[q[1]] \notin lows} |-> map[p]]

IsMultiMap(map) == map = [p \in DOMAIN map |-> map[p]]

LowReserved == {Lower[n] : n \in ReservedHeaderNames}
LowSdk      == {Lower[n] : n \in SdkHeaderNames}
LowAgent    == Lower["User-Agent"]

(* Inserting and erasing is done in the part that the name belongs to.     *)
LEMMA InsertDomain ==
  ASSUME NEW map, NEW n, NEW v
  PROVE  DOMAIN Insert(map, n, v) = DOMAIN map \cup {<<n, v>>}
BY DEF Insert, BagAdd

LEMMA EraseDomain ==
  ASSUME NEW map, NEW n
  PROVE  \A p : p \in DOMAIN Erase(map, n) <=> p \in DOMAIN map /\ p[1] # n
BY DEF Erase

LEMMA OneMore ==
  ASSUME NEW old, NEW new, NEW x, IsMultiMap(new),
         DOMAIN new = DOMAIN old \cup {x},
         new[x] = IF x \in DOMAIN old THEN old[x] + 1 ELSE 1,
         \A e \in DOMAIN old : e # x => new[e] = old[e]
  PROVE  new = BagAdd(old, x)
<1>1. CASE x \in DOMAIN old
  BY <1>1 DEF BagAdd, IsMultiMap
<1>2. CASE x \notin DOMAIN old
  BY <1>2 DEF BagAdd, IsMultiMap
<1> QED BY <1>1, <1>2

LEMMA PartOfInsert ==
  ASSUME NEW map, NEW n, NEW v, NEW lows
  PROVE  Part(Insert(map, n, v), lows) =
           IF Lower[n] \in lows THEN Insert(Part(map, lows), n, v) ELSE Part(map, lows)
<1> DEFINE pair == <<n, v>>
           more == BagAdd(map, pair)
<1>1. pair[1] = n
  OBVIOUS
<1> HIDE DEF pair
<1>2. /\ DOMAIN more = DOMAIN map \cup {pair}
      /\ \A p \in DOMAIN map : p # pair => more[p] = map[p]
      /\ more[pair] = IF pair \in DOMAIN map THEN map[pair] + 1 ELSE 1
  BY DEF BagAdd
<1> HIDE DEF more
<1>3. ASSUME Lower[n] \notin lows PROVE Part(more, lows) = Part(map, lows)
  <2>1. {q \in DOMAIN more : Lower[q[1]] \in lows} = {q \in DOMAIN map : Lower[q[1]] \in lows}
    BY <1>1, <1>2, <1>3
  <2> QED BY <1>1, <1>2, <1>3, <2>1 DEF Part
<1>4. ASSUME Lower[n] \in lows PROVE Part(more, lows) = BagAdd(Part(map, lows), pair)
  <2> DEFINE old == Part(map, lows)
             new == Part(more, lows)
  <2>1. /\ \A p : p \in DOMAIN old <=> p \in DOMAIN map /\ Lower[p[1]] \in lows
        /\ \A p \in DOMAIN old : old[p] = map[p]
    BY DEF Part
  <2>2. /\ \A p : p \in DOMAIN new <=> p \in DOMAIN more /\ Lower[p[1]] \in lows
        /\ \A p \in DOMAIN new : new[p] = more[p]
        /\ IsMultiMap(new)
    BY DEF Part, IsMultiMap
  <2> HIDE DEF old, new
  <2>3. DOMAIN new = DOMAIN old \cup {pair}
    BY <1>1, <1>2, <1>4, <2>1, <2>2
  <2>4. new[pair] = IF pair \in DOMAIN old THEN old[pair] + 1 ELSE 1
    BY <1>1, <1>2, <1>4, <2>1, <2>2
  <2>5. \A p \in DOMAIN old : p # pair => new[p] = old[p]
    BY <1>1, <1>2, <1>4, <2>1, <2>2
  <2> QED BY <2>2, <2>3, <2>4, <2>5, OneMore DEF old, new
<1> QED BY <1>3, <1>4 DEF more, pair, Insert

LEMMA OthersOfInsert ==
  ASSUME NEW map, NEW n, NEW v, NEW lows
  PROVE  Others(Insert(map, n, v), lows) =
           IF Lower[n] \notin lows THEN Insert(Others(map, lows), n, v) ELSE Others(map, lows)
<1> DEFINE pair == <<n, v>>
           more == BagAdd(map, pair)
<1>1. pair[1] = n
  OBVIOUS
<1> HIDE DEF pair
<1>2. /\ DOMAIN more = DOMAIN map \cup {pair}
      /\ \A p \in DOMAIN map : p # pair => more[p] = map[p]
      /\ more[pair] = IF pair \in DOMAIN map THEN map[pair] + 1 ELSE 1
  BY DEF BagAdd
<1> HIDE DEF more
<1>3. ASSUME Lower[n] \in lows PROVE Others(more, lows) = Others(map, lows)
  <2>1. {q \in DOMAIN more : Lower[q[1]] \notin lows} = {q \in DOMAIN map : Lower[q[1]] \notin lows}
    BY <1>1, <1>2, <1>3
  <2> QED BY <1>1, <1>2, <1>3, <2>1 DEF Others
<1>4. ASSUME Lower[n] \notin lows PROVE Others(more, lows) = BagAdd(Others(map, lows), pair)
  <2> DEFINE old == Others(map, lows)
             new == Others(more, lows)
  <2>1. /\ \A p : p \in DOMAIN old <=> p \in DOMAIN map /\ Lower[p[1]] \notin lows
        /\ \A p \in DOMAIN old : old[p] = map[p]
    BY DEF Others
  <2>2. /\ \A p : p \in DOMAIN new <=> p \in DOMAIN more /\ Lower[p[1]] \notin lows
        /\ \A p \in DOMAIN new : new[p] = more[p]
        /\ IsMultiMap(new)
    BY DEF Others, IsMultiMap
  <2> HIDE DEF old, new
  <2>3. DOMAIN new = DOMAIN old \cup {pair}
    BY <1>1, <1>2, <1>4, <2>1, <2>2
  <2>4. new[pair] = IF pair \in DOMAIN old THEN old[pair] + 1 ELSE 1
    BY <1>1, <1>2, <1>4, <2>1, <2>2
  <2>5. \A p \in DOMAIN old : p # pair => new[p] = old[p]
    BY <1>1, <1>2, <1>4, <2>1, <2>2
  <2> QED BY <2>2, <2>3, <2>4, <2>5, OneMore DEF old, new
<1> QED BY <1>3, <1>4 DEF more, pair, Insert

LEMMA PartOfErase ==
  ASSUME NEW map, NEW n, NEW lows
  PROVE  Part(Erase(map, n), lows) = Erase(Part(map, lows), n)
<1>1. {q \in DOMAIN Erase(map, n) : Lower[q[1]] \in lows}
      = {q \in DOMAIN Part(map, lows) : q[1] # n}
  BY DEF Erase, Part
<1> QED BY <1>1 DEF Erase, Part

LEMMA OthersOfErase ==
  ASSUME NEW map, NEW n, NEW lows
  PROVE  Others(Erase(map, n), lows) = Erase(Others(map, lows), n)
<1>1. {q \in DOMAIN Erase(map, n) : Lower[q[1]] \notin lows}
      = {q \in DOMAIN Others(map, lows) : q[1] # n}
  BY DEF Erase, Others
<1> QED BY <1>1 DEF Erase, Others

LEMMA EraseNothing ==
  ASSUME NEW map, NEW n, IsMultiMap(map), \A p \in DOMAIN map : p[1] # n
  PROVE  Erase(map, n) = map
<1>1. {p \in DOMAIN map : p[1] # n} = DOMAIN map
  OBVIOUS
<1> QED BY <1>1 DEF Erase, IsMultiMap

LEMMA EraseAll ==
  ASSUME NEW map, NEW n, \A p \in DOMAIN map : p[1] = n
  PROVE  Erase(map, n) = EmptyBag
<1>1. {p \in DOMAIN map : p[1] # n} = {}
  OBVIOUS
<1> QED BY <1>1 DEF Erase, EmptyBag, SetToBag

LEMMA InsertFirst ==
  ASSUME NEW n, NEW v
  PROVE  Insert(EmptyBag, n, v) = SetToBag({<<n, v>>})
BY DEF Insert, BagAdd, EmptyBag, SetToBag

LEMMA NothingOfEmpty ==
  ASSUME NEW lows
  PROVE  Part(EmptyBag, lows) = EmptyBag /\ Others(EmptyBag, lows) = EmptyBag /\ IsMultiMap(EmptyBag)
BY DEF Part, Others, EmptyBag, SetToBag, IsMultiMap

(* A multimap without empty halves goes out as it is.                      *)
NoEmptyHalves(map) == \A p \in DOMAIN map : p[1] # "" /\ p[2] # ""

LEMMA AllLines ==
  ASSUME NEW map, IsMultiMap(map), NoEmptyHalves(map)
  PROVE  Lines(map) = map
<1>1. {p \in DOMAIN map : p[1] # "" /\ p[2] # ""} = DOMAIN map
  BY DEF NoEmptyHalves
<1> QED BY <1>1 DEF Lines, IsMultiMap
-----------------------------------------------------------------------------
(* The inductive invariant.  The gateway holds no header that is the       *)
(* SDK's, holds the user agent once and under the SDK's spelling, and      *)
(* otherwise what is wanted; a request says what the gateway held.         *)
MultiMaps(names, values) == UNION {[pairs -> Nat] : pairs \in SUBSET (names \X values)}

GatewayTypeOK ==
  /\ apigw \in [api_name : ApiNames, http_method : HttpMethods,
                parameters : MultiMaps(ParamNames, HeaderValues),
                headers : MultiMaps(HeaderNames \cup {"User-Agent"}, HeaderValues),
                content_type : HeaderValues \cup {""}]
  /\ wanted \in [headers : MultiMaps(HeaderNames \cup {"User-Agent"}, HeaderValues),
                 agent : HeaderValues \cup {""},
                 parameters : MultiMaps(ParamNames, HeaderValues),
                 type : HeaderValues \cup {""}]

MayBeHeld(name) == Lower[name] \notin LowReserved /\ (Lower[name] = LowAgent => name = "User-Agent")

NothingReserved(map) == \A p \in DOMAIN map : MayBeHeld(p[1])

AgentHeld(map, agent) ==
  Part(map, {LowAgent}) =
    IF agent = "" THEN EmptyBag ELSE SetToBag({<<"User-Agent", agent>>})

HeadersAreWanted ==
  /\ NoEmptyHalves(apigw.headers)
  /\ NothingReserved(apigw.headers)
  /\ Others(apigw.headers, LowSdk) = wanted.headers
  /\ AgentHeld(apigw.headers, wanted.agent)

ParametersAreWanted ==
  /\ NoEmptyHalves(apigw.parameters)
  /\ apigw.parameters = wanted.parameters
  /\ apigw.content_type = wanted.type

SentAsHeld ==
  sent.code = "NB_OK" => /\ CheckContentType(sent.body)
                         /\ sent.request = RequestOf(New(sent.token), sent.body)

GatewayInv == GatewayTypeOK /\ HeadersAreWanted /\ ParametersAreWanted /\ SentAsHeld

LEMMA EmptyBagType ==
  ASSUME NEW names, NEW values
  PROVE  EmptyBag \in MultiMaps(names, values)
<1>1. EmptyBag \in [{} -> Nat]
  BY DEF EmptyBag, SetToBag
<1> QED BY <1>1 DEF MultiMaps

LEMMA MultiMapType ==
  ASSUME NEW names, NEW values, NEW map \in MultiMaps(names, values)
  PROVE  IsMultiMap(map)
BY DEF MultiMaps, IsMultiMap

LEMMA InsertType ==
  ASSUME NEW names, NEW values, NEW map \in MultiMaps(names, values),
         NEW n \in names, NEW v \in values
  PROVE  Insert(map, n, v) \in MultiMaps(names, values)
<1>1. PICK pairs \in SUBSET (names \X values) : map \in [pairs -> Nat]
  BY DEF MultiMaps
<1>2. pairs \cup {<<n, v>>} \in SUBSET (names \X values)
  OBVIOUS
<1>3. Insert(map, n, v) \in [pairs \cup {<<n, v>>} -> Nat]
  BY <1>1 DEF Insert, BagAdd
<1> QED BY <1>2, <1>3 DEF MultiMaps

LEMMA EraseType ==
  ASSUME NEW names, NEW values, NEW map \in MultiMaps(names, values), NEW n
  PROVE  Erase(map, n) \in MultiMaps(names, values)
<1>1. PICK pairs \in SUBSET (names \X values) : map \in [pairs -> Nat]
  BY DEF MultiMaps
<1>2. Erase(map, n) \in [{p \in pairs : p[1] # n} -> Nat]
  BY <1>1 DEF Erase
<1> QED BY <1>2 DEF MultiMaps

LEMMA SdkNames ==
  /\ "User-Agent" \in SdkHeaderNames
  /\ LowAgent \notin LowReserved
  /\ LowSdk = LowReserved \cup {LowAgent}
  /\ "" \notin SdkHeaderNames
BY GatewayAssumption DEF SdkHeaderNames, ReservedHeaderNames, LowAgent, LowReserved, LowSdk

LEMMA InitInv == GatewayInit => GatewayInv
<1> SUFFICES ASSUME GatewayInit PROVE GatewayInv
  OBVIOUS
<1>1. GatewayTypeOK
  <2>1. /\ EmptyBag \in MultiMaps(ParamNames, HeaderValues)
        /\ EmptyBag \in MultiMaps(HeaderNames \cup {"User-Agent"}, HeaderValues)
    BY EmptyBagType
  <2> QED BY <2>1 DEF GatewayInit, GatewayTypeOK
<1>2. DOMAIN EmptyBag = {}
  BY DEF EmptyBag, SetToBag
<1>3. HeadersAreWanted
  <2>1. NoEmptyHalves(EmptyBag) /\ NothingReserved(EmptyBag)
    BY <1>2 DEF NoEmptyHalves, NothingReserved
  <2>2. Part(EmptyBag, {LowAgent}) = EmptyBag /\ Others(EmptyBag, LowSdk) = EmptyBag
    BY NothingOfEmpty
  <2> QED BY <2>1, <2>2 DEF GatewayInit, HeadersAreWanted, AgentHeld
<1>4. ParametersAreWanted
  BY <1>2 DEF GatewayInit, ParametersAreWanted, NoEmptyHalves
<1>5. SentAsHeld
  BY DEF GatewayInit, SentAsHeld, NothingSent
<1> QED BY <1>1, <1>3, <1>4, <1>5 DEF GatewayInv

LEMMA InsertKeeps ==
  ASSUME NEW map, NEW n, NEW v, NoEmptyHalves(map), n # "", v # ""
  PROVE  NoEmptyHalves(Insert(map, n, v))
<1> DEFINE pair == <<n, v>>
<1>1. pair[1] # "" /\ pair[2] # ""
  OBVIOUS
<1>2. DOMAIN Insert(map, n, v) = DOMAIN map \cup {pair}
  BY InsertDomain
<1> HIDE DEF pair
<1> QED BY <1>1, <1>2 DEF NoEmptyHalves

LEMMA InsertKeepsNames ==
  ASSUME NEW map, NEW n, NEW v, NothingReserved(map), MayBeHeld(n)
  PROVE  NothingReserved(Insert(map, n, v))
<1> DEFINE pair == <<n, v>>
<1>1. MayBeHeld(pair[1])
  OBVIOUS
<1>2. DOMAIN Insert(map, n, v) = DOMAIN map \cup {pair}
  BY InsertDomain
<1> HIDE DEF pair
<1> QED BY <1>1, <1>2 DEF NothingReserved

LEMMA EraseKeeps ==
  ASSUME NEW map, NEW n, NoEmptyHalves(map)
  PROVE  NoEmptyHalves(Erase(map, n))
BY EraseDomain DEF NoEmptyHalves

LEMMA EraseKeepsNames ==
  ASSUME NEW map, NEW n, NothingReserved(map)
  PROVE  NothingReserved(Erase(map, n))
BY EraseDomain DEF NothingReserved

(* Under the name of the user agent there is nothing but the one header.   *)
LEMMA ErasesAgent ==
  ASSUME NEW map, NothingReserved(map), IsMultiMap(map)
  PROVE  /\ Part(Erase(map, "User-Agent"), {LowAgent}) = EmptyBag
         /\ Others(Erase(map, "User-Agent"), LowSdk) = Others(map, LowSdk)
<1>1. \A p \in DOMAIN Part(map, {LowAgent}) : p[1] = "User-Agent"
  <2>1. \A p \in DOMAIN Part(map, {LowAgent}) : p \in DOMAIN map /\ Lower[p[1]] = LowAgent
    BY DEF Part
  <2>2. \A p \in DOMAIN Part(map, {LowAgent}) : MayBeHeld(p[1]) /\ Lower[p[1]] = LowAgent
    BY <2>1 DEF NothingReserved
  <2> QED BY <2>2 DEF MayBeHeld
<1>2. Erase(Part(map, {LowAgent}), "User-Agent") = EmptyBag
  BY <1>1, EraseAll
<1>3. /\ \A p \in DOMAIN Others(map, LowSdk) : p[1] # "User-Agent"
      /\ IsMultiMap(Others(map, LowSdk))
  BY SdkNames DEF Others, LowAgent, IsMultiMap
<1>4. Erase(Others(map, LowSdk), "User-Agent") = Others(map, LowSdk)
  BY <1>3, EraseNothing
<1> QED BY <1>2, <1>4, PartOfErase, OthersOfErase

LEMMA AddsHeader ==
  ASSUME GatewayInv, NEW name \in HeaderNames, NEW value \in HeaderValues, AddHeader(name, value)
  PROVE  GatewayInv'
<1>1. /\ GatewayTypeOK
      /\ NoEmptyHalves(apigw.headers)
      /\ NothingReserved(apigw.headers)
      /\ Others(apigw.headers, LowSdk) = wanted.headers
      /\ IsMultiMap(apigw.headers)
  BY MultiMapType DEF GatewayInv, GatewayTypeOK, HeadersAreWanted
<1>2. SentAsHeld'
  BY DEF AddHeader, SentAsHeld, NothingSent
<1>3. IsReservedHeaderName(name) <=> Lower[name] \in LowReserved
  BY DEF IsReservedHeaderName, CompareCaseInsensitiveString, LowReserved
<1>4. IsUserAgent(name) <=> Lower[name] = LowAgent
  BY DEF IsUserAgent, CompareCaseInsensitiveString, LowAgent
<1>5. CASE name = "" \/ value = "" \/ Lower[name] \in LowReserved
  <2>1. apigw' = apigw /\ wanted' = wanted
    BY <1>1, <1>3, <1>5 DEF AddHeader, HeadersWith, LowReserved, GatewayTypeOK
  <2> QED BY <1>2, <2>1 DEF GatewayInv, GatewayTypeOK, HeadersAreWanted, ParametersAreWanted
<1>6. CASE /\ name # "" /\ value # ""
           /\ Lower[name] \notin LowReserved
           /\ Lower[name] = LowAgent
  <2> DEFINE fewer == Erase(apigw.headers, "User-Agent")
             more  == Insert(fewer, "User-Agent", value)
  <2>1. /\ apigw' = [apigw EXCEPT !.headers = more]
        /\ wanted' = [wanted EXCEPT !.agent = value]
    BY <1>3, <1>4, <1>6 DEF AddHeader, HeadersWith, LowReserved
  <2>2. GatewayTypeOK'
    BY <1>1, <2>1, InsertType, EraseType DEF GatewayTypeOK
  <2>3. /\ Part(fewer, {LowAgent}) = EmptyBag
        /\ Others(fewer, LowSdk) = wanted.headers
    BY <1>1, ErasesAgent
  <2>4. Part(more, {LowAgent}) = SetToBag({<<"User-Agent", value>>})
    BY <2>3, PartOfInsert, InsertFirst DEF LowAgent
  <2>5. Others(more, LowSdk) = wanted.headers
    BY <2>3, OthersOfInsert, SdkNames DEF LowAgent
  <2>6. NoEmptyHalves(more)
    <3>1. value # "" /\ "User-Agent" # ""
      BY <1>6
    <3> QED BY <1>1, <3>1, EraseKeeps, InsertKeeps
  <2>7. NothingReserved(more)
    <3>1. MayBeHeld("User-Agent")
      BY SdkNames DEF LowAgent, MayBeHeld
    <3> QED BY <1>1, <3>1, EraseKeepsNames, InsertKeepsNames
  <2>8. /\ apigw'.headers = more
        /\ wanted'.headers = wanted.headers
        /\ wanted'.agent = value
    BY <1>1, <2>1 DEF GatewayTypeOK
  <2>9. HeadersAreWanted'
    BY <1>6, <2>4, <2>5, <2>6, <2>7, <2>8 DEF HeadersAreWanted, AgentHeld
  <2>10. ParametersAreWanted'
    BY <1>1, <2>1 DEF GatewayInv, ParametersAreWanted, GatewayTypeOK
  <2> QED BY <1>2, <2>2, <2>9, <2>10 DEF GatewayInv
<1>7. CASE /\ name # "" /\ value # ""
           /\ Lower[name] \notin LowReserved
           /\ Lower[name] # LowAgent
  <2> DEFINE more == Insert(apigw.headers, name, value)
  <2>1. /\ apigw' = [apigw EXCEPT !.headers = more]
        /\ wanted' = [wanted EXCEPT !.headers = Insert(@, name, value)]
    BY <1>3, <1>4, <1>7 DEF AddHeader, HeadersWith, LowReserved
  <2>2. GatewayTypeOK'
    BY <1>1, <2>1, InsertType DEF GatewayTypeOK
  <2>3. Lower[name] \notin LowReserved /\ Lower[name] # LowAgent
    BY <1>7
  <2>4. Part(more, {LowAgent}) = Part(apigw.headers, {LowAgent})
    BY <2>3, PartOfInsert
  <2>5. Others(more, LowSdk) = Insert(wanted.headers, name, value)
    BY <1>1, <2>3, SdkNames, OthersOfInsert
  <2>6. NoEmptyHalves(more)
    BY <1>1, <1>7, InsertKeeps
  <2>7. NothingReserved(more)
    <3>1. MayBeHeld(name)
      BY <2>3 DEF MayBeHeld
    <3> QED BY <1>1, <3>1, InsertKeepsNames
  <2>8. /\ apigw'.headers = more
        /\ wanted'.headers = Insert(wanted.headers, name, value)
        /\ wanted'.agent = wanted.agent
    BY <1>1, <2>1 DEF GatewayTypeOK
  <2>9. HeadersAreWanted'
    BY <2>4, <2>5, <2>6, <2>7, <2>8 DEF GatewayInv, HeadersAreWanted, AgentHeld
  <2>10. ParametersAreWanted'
    BY <1>1, <2>1 DEF GatewayInv, ParametersAreWanted, GatewayTypeOK
  <2> QED BY <1>2, <2>2, <2>9, <2>10 DEF GatewayInv
<1> QED BY <1>5, <1>6, <1>7

LEMMA RemovesHeader ==
  ASSUME GatewayInv, NEW name, RemoveHeader(name)
  PROVE  GatewayInv'
<1> DEFINE fewer == Erase(apigw.headers, name)
<1>1. /\ GatewayTypeOK
      /\ NoEmptyHalves(apigw.headers)
      /\ NothingReserved(apigw.headers)
      /\ Others(apigw.headers, LowSdk) = wanted.headers
      /\ IsMultiMap(apigw.headers)
  BY MultiMapType DEF GatewayInv, GatewayTypeOK, HeadersAreWanted
<1>2. /\ apigw' = [apigw EXCEPT !.headers = fewer]
      /\ wanted' = [wanted EXCEPT !.headers = Erase(@, name),
                                 !.agent = IF name = "User-Agent" THEN "" ELSE @]
  BY DEF RemoveHeader
<1>3. GatewayTypeOK'
  BY <1>1, <1>2, EraseType DEF GatewayTypeOK
<1>4. /\ apigw'.headers = fewer
      /\ wanted'.headers = Erase(wanted.headers, name)
      /\ wanted'.agent = IF name = "User-Agent" THEN "" ELSE wanted.agent
  BY <1>1, <1>2 DEF GatewayTypeOK
<1>5. Others(fewer, LowSdk) = Erase(wanted.headers, name)
  BY <1>1, OthersOfErase
<1>6. NoEmptyHalves(fewer) /\ NothingReserved(fewer)
  BY <1>1, EraseKeeps, EraseKeepsNames
<1>7. Part(fewer, {LowAgent}) = IF wanted'.agent = "" THEN EmptyBag
                                ELSE SetToBag({<<"User-Agent", wanted'.agent>>})
  <2>1. CASE name = "User-Agent"
    <3>1. Part(fewer, {LowAgent}) = EmptyBag
      BY <1>1, <2>1, ErasesAgent
    <3> QED BY <1>4, <2>1, <3>1
  <2>2. CASE name # "User-Agent"
    <3> DEFINE agents == Part(apigw.headers, {LowAgent})
    <3>1. \A p \in DOMAIN agents : p \in DOMAIN apigw.headers /\ Lower[p[1]] = LowAgent
      BY DEF Part
    <3>2. \A p \in DOMAIN agents : MayBeHeld(p[1]) /\ Lower[p[1]] = LowAgent
      BY <1>1, <3>1 DEF NothingReserved
    <3>3. \A p \in DOMAIN agents : p[1] # name
      BY <2>2, <3>2 DEF MayBeHeld
    <3>4. IsMultiMap(agents)
      BY DEF IsMultiMap, Part
    <3>5. Erase(agents, name) = agents
      <4> HIDE DEF agents
      <4> QED BY <3>3, <3>4, EraseNothing
    <3>6. Part(fewer, {LowAgent}) = agents
      BY <3>5, PartOfErase
    <3> HIDE DEF agents
    <3> QED BY <1>4, <2>2, <3>6 DEF agents, GatewayInv, HeadersAreWanted, AgentHeld
  <2> QED BY <2>1, <2>2
<1>8. HeadersAreWanted'
  <2> HIDE DEF fewer
  <2> QED BY <1>4, <1>5, <1>6, <1>7 DEF HeadersAreWanted, AgentHeld
<1>9. ParametersAreWanted'
  BY <1>1, <1>2 DEF GatewayInv, ParametersAreWanted, GatewayTypeOK
<1>10. SentAsHeld'
  BY DEF RemoveHeader, SentAsHeld, NothingSent
<1> QED BY <1>3, <1>8, <1>9, <1>10 DEF GatewayInv

LEMMA ClearsHeaders ==
  ASSUME GatewayInv, ClearHeaders
  PROVE  GatewayInv'
<1>1. DOMAIN EmptyBag = {}
  BY DEF EmptyBag, SetToBag
<1>2. /\ apigw'.headers = EmptyBag
      /\ wanted'.headers = EmptyBag
      /\ wanted'.agent = ""
  BY DEF ClearHeaders, GatewayInv, GatewayTypeOK
<1>3. GatewayTypeOK'
  <2>1. EmptyBag \in MultiMaps(HeaderNames \cup {"User-Agent"}, HeaderValues)
    BY EmptyBagType
  <2> QED BY <2>1 DEF ClearHeaders, GatewayInv, GatewayTypeOK
<1>4. HeadersAreWanted'
  <2>1. NoEmptyHalves(EmptyBag) /\ NothingReserved(EmptyBag)
    BY <1>1 DEF NoEmptyHalves, NothingReserved
  <2>2. Part(EmptyBag, {LowAgent}) = EmptyBag /\ Others(EmptyBag, LowSdk) = EmptyBag
    BY NothingOfEmpty
  <2> QED BY <1>2, <2>1, <2>2 DEF HeadersAreWanted, AgentHeld
<1>5. ParametersAreWanted'
  BY DEF ClearHeaders, GatewayInv, ParametersAreWanted, GatewayTypeOK
<1>6. SentAsHeld'
  BY DEF ClearHeaders, SentAsHeld, NothingSent
<1> QED BY <1>3, <1>4, <1>5, <1>6 DEF GatewayInv

LEMMA ParametersKeepInv ==
  ASSUME GatewayInv,
         \/ \E name \in ParamNames, value \in HeaderValues : AddParameter(name, value)
         \/ \E name \in ParamNames : RemoveParameter(name)
         \/ ClearParameters
         \/ \E type \in HeaderValues : SetContentType(type)
  PROVE  GatewayInv'
<1>1. /\ GatewayTypeOK
      /\ NoEmptyHalves(apigw.parameters)
      /\ apigw.parameters = wanted.parameters
  BY DEF GatewayInv, ParametersAreWanted
<1>2. SentAsHeld'
  <2>1. sent' = NothingSent
    BY DEF AddParameter, RemoveParameter, ClearParameters, SetContentType
  <2> QED BY <2>1 DEF SentAsHeld, NothingSent
<1>3. HeadersAreWanted'
  <2>1. /\ apigw'.headers = apigw.headers
        /\ wanted'.headers = wanted.headers
        /\ wanted'.agent = wanted.agent
    BY <1>1 DEF AddParameter, RemoveParameter, ClearParameters, SetContentType, GatewayTypeOK
  <2> QED BY <2>1 DEF GatewayInv, HeadersAreWanted
<1>4. GatewayTypeOK' /\ ParametersAreWanted'
  <2>1. ASSUME NEW name \in ParamNames, NEW value \in HeaderValues, AddParameter(name, value)
        PROVE  GatewayTypeOK' /\ ParametersAreWanted'
    <3> DEFINE more == Insert(apigw.parameters, name, value)
    <3>1. NoEmptyHalves(more)
      <4>1. name # "" /\ value # ""
        BY <2>1 DEF AddParameter
      <4> QED BY <1>1, <4>1, InsertKeeps
    <3>2. more \in MultiMaps(ParamNames, HeaderValues)
      BY <1>1, InsertType DEF GatewayTypeOK
    <3> QED BY <1>1, <2>1, <3>1, <3>2
            DEF AddParameter, GatewayInv, GatewayTypeOK, ParametersAreWanted
  <2>2. ASSUME NEW name \in ParamNames, RemoveParameter(name)
        PROVE  GatewayTypeOK' /\ ParametersAreWanted'
    <3>1. NoEmptyHalves(Erase(apigw.parameters, name))
      BY <1>1, EraseKeeps
    <3>2. Erase(apigw.parameters, name) \in MultiMaps(ParamNames, HeaderValues)
      BY <1>1, EraseType DEF GatewayTypeOK
    <3> QED BY <1>1, <2>2, <3>1, <3>2
            DEF RemoveParameter, GatewayInv, GatewayTypeOK, ParametersAreWanted
  <2>3. CASE ClearParameters
    <3>1. EmptyBag \in MultiMaps(ParamNames, HeaderValues)
      BY EmptyBagType
    <3>2. NoEmptyHalves(EmptyBag)
      BY DEF NoEmptyHalves, EmptyBag, SetToBag
    <3> QED BY <1>1, <2>3, <3>1, <3>2
            DEF ClearParameters, GatewayInv, GatewayTypeOK, ParametersAreWanted
  <2>4. ASSUME NEW type \in HeaderValues, SetContentType(type)
        PROVE  GatewayTypeOK' /\ ParametersAreWanted'
    BY <1>1, <2>4 DEF SetContentType, GatewayInv, GatewayTypeOK, ParametersAreWanted
  <2> QED BY <2>1, <2>2, <2>3, <2>4
<1> QED BY <1>2, <1>3, <1>4 DEF GatewayInv

LEMMA Executes ==
  ASSUME GatewayInv, NEW body, NEW token, ExecuteCustomApi(body, token)
  PROVE  GatewayInv'
<1>1. apigw' = apigw /\ wanted' = wanted
  BY DEF ExecuteCustomApi
<1>2. ASSUME sent'.code = "NB_OK"
      PROVE  sent' = [code |-> "NB_OK", body |-> body, token |-> token,
                      request |-> RequestOf(New(token), body)] /\ CheckContentType(body)
  BY <1>2 DEF ExecuteCustomApi
<1>3. RequestOf(New(token), body)' = RequestOf(New(token), body)
  BY <1>1 DEF RequestOf, AppendContentType
<1>4. ASSUME sent'.code = "NB_OK" PROVE SentAsHeld'
  <2>1. /\ sent'.body = body
        /\ sent'.token = token
        /\ sent'.request = RequestOf(New(token), body)
        /\ CheckContentType(body)
    BY <1>2, <1>4
  <2> QED BY <1>1, <2>1 DEF SentAsHeld, RequestOf, AppendContentType, CheckContentType
<1>5. SentAsHeld'
  BY <1>4 DEF SentAsHeld
<1> QED BY <1>1, <1>5 DEF GatewayInv, GatewayTypeOK, HeadersAreWanted, ParametersAreWanted

LEMMA NextKeepsInv == GatewayInv /\ [GatewayNext]_gatewayVars => GatewayInv'
<1> SUFFICES ASSUME GatewayInv, [GatewayNext]_gatewayVars PROVE GatewayInv'
  OBVIOUS
<1>1. CASE UNCHANGED gatewayVars
  BY <1>1 DEF gatewayVars, GatewayInv, GatewayTypeOK, HeadersAreWanted, ParametersAreWanted,
              SentAsHeld, CheckContentType, RequestOf, AppendContentType
<1>2. CASE GatewayNext
  BY <1>2, AddsHeader, RemovesHeader, ClearsHeaders, ParametersKeepInv, Executes DEF GatewayNext
<1> QED BY <1>1, <1>2
-----------------------------------------------------------------------------
(* What the server receives.  The SDK inserts a header of its own at most  *)
(* once, and into a multimap that has none of that name.                   *)
LEMMA SdkInsert ==
  ASSUME NEW map, NEW n \in SdkHeaderNames, NEW v, Part(map, {Lower[n]}) = EmptyBag
  PROVE  Part(Insert(map, n, v), {Lower[n]}) = SetToBag({<<n, v>>})
BY PartOfInsert, InsertFirst

LEMMA SdkInsertElsewhere ==
  ASSUME NEW map, NEW n \in SdkHeaderNames, NEW v, NEW m \in SdkHeaderNames, m # n
  PROVE  Part(Insert(map, n, v), {Lower[m]}) = Part(map, {Lower[m]})
<1>1. Lower[n] \notin {Lower[m]}
  BY GatewayAssumption
<1> QED BY <1>1, PartOfInsert

LEMMA SdkInsertOthers ==
  ASSUME NEW map, NEW n \in SdkHeaderNames, NEW v
  PROVE  Others(Insert(map, n, v), LowSdk) = Others(map, LowSdk)
<1>1. Lower[n] \in LowSdk
  BY DEF LowSdk
<1> QED BY <1>1, OthersOfInsert

LEMMA NothingReservedHeld ==
  ASSUME NEW map, NothingReserved(map), NEW n \in ReservedHeaderNames
  PROVE  Part(map, {Lower[n]}) = EmptyBag
<1>1. \A p \in DOMAIN map : Lower[p[1]] \notin {Lower[n]}
  BY DEF NothingReserved, MayBeHeld, LowReserved
<1>2. {p \in DOMAIN map : Lower[p[1]] \in {Lower[n]}} = {}
  BY <1>1
<1> QED BY <1>2 DEF Part, EmptyBag, SetToBag

LEMMA ReceivedIsPart ==
  ASSUME NEW request, NEW name
  PROVE  Received(request, name) = Part(request.headers, {Lower[name]})
<1>1. {p \in DOMAIN request.headers : Lower[p[1]] = Lower[name]}
      = {p \in DOMAIN request.headers : Lower[p[1]] \in {Lower[name]}}
  OBVIOUS
<1> QED BY <1>1 DEF Received, Part

LEMMA OneValue ==
  ASSUME NEW request, NEW name, NEW n, NEW value,
         Part(request.headers, {Lower[name]}) = SetToBag({<<n, value>>})
  PROVE  OnlyValue(request, name, value)
<1> DEFINE pair == <<n, value>>
<1>1. pair[2] = value
  OBVIOUS
<1> HIDE DEF pair
<1>2. Received(request, name) = SetToBag({pair})
  BY ReceivedIsPart DEF pair
<1>3. pair \in DOMAIN Received(request, name)
  BY <1>2 DEF SetToBag
<1>4. pair \in DOMAIN request.headers
  BY <1>3 DEF Received
<1> QED BY <1>1, <1>2, <1>4 DEF OnlyValue

(* The headers of a request, as its factory completes them.                *)
WithType(held, typed, type) == IF typed THEN Insert(held, "Content-Type", type) ELSE held

WithIds(map) == Insert(Insert(map, "X-Application-Id", AppId), "X-Application-Key", AppKey)

WithAgent(map) ==
  IF Has(map, "User-Agent") THEN map ELSE Insert(map, "User-Agent", UserAgentDefault)

WithToken(map, token) == IF token = "" THEN map ELSE Insert(map, "X-Session-Token", token)

Completed(held, typed, type, token) ==
  WithToken(WithAgent(WithIds(WithType(held, typed, type))), token)

LEMMA TypeReceived ==
  ASSUME NEW held, NothingReserved(held), NEW typed \in BOOLEAN, NEW type
  PROVE  LET map == WithType(held, typed, type)
         IN /\ Part(map, {Lower["Content-Type"]}) =
                 IF typed THEN SetToBag({<<"Content-Type", type>>}) ELSE EmptyBag
            /\ \A n \in SdkHeaderNames \ {"Content-Type"} :
                 Part(map, {Lower[n]}) = Part(held, {Lower[n]})
            /\ Others(map, LowSdk) = Others(held, LowSdk)
<1>1. "Content-Type" \in ReservedHeaderNames /\ "Content-Type" \in SdkHeaderNames
  BY DEF ReservedHeaderNames, SdkHeaderNames
<1>2. Part(held, {Lower["Content-Type"]}) = EmptyBag
  BY <1>1, NothingReservedHeld
<1>3. CASE typed
  BY <1>1, <1>2, <1>3, SdkInsert, SdkInsertElsewhere, SdkInsertOthers DEF WithType
<1>4. CASE ~typed
  BY <1>2, <1>4 DEF WithType
<1> QED BY <1>3, <1>4

LEMMA IdsReceived ==
  ASSUME NEW held, Part(held, {Lower["X-Application-Id"]}) = EmptyBag,
                   Part(held, {Lower["X-Application-Key"]}) = EmptyBag
  PROVE  LET map == WithIds(held)
         IN /\ Part(map, {Lower["X-Application-Id"]}) = SetToBag({<<"X-Application-Id", AppId>>})
            /\ Part(map, {Lower["X-Application-Key"]}) = SetToBag({<<"X-Application-Key", AppKey>>})
            /\ \A n \in SdkHeaderNames \ {"X-Application-Id", "X-Application-Key"} :
                 Part(map, {Lower[n]}) = Part(held, {Lower[n]})
            /\ Others(map, LowSdk) = Others(held, LowSdk)
<1>1. /\ "X-Application-Id" \in SdkHeaderNames
      /\ "X-Application-Key" \in SdkHeaderNames
      /\ "X-Application-Id" # "X-Application-Key"
  BY DEF ReservedHeaderNames, SdkHeaderNames
<1> DEFINE id == Insert(held, "X-Application-Id", AppId)
<1>2. /\ Part(id, {Lower["X-Application-Id"]}) = SetToBag({<<"X-Application-Id", AppId>>})
      /\ \A n \in SdkHeaderNames \ {"X-Application-Id"} :
           Part(id, {Lower[n]}) = Part(held, {Lower[n]})
      /\ Others(id, LowSdk) = Others(held, LowSdk)
  BY <1>1, SdkInsert, SdkInsertElsewhere, SdkInsertOthers
<1> HIDE DEF id
<1>3. Part(id, {Lower["X-Application-Key"]}) = EmptyBag
  BY <1>1, <1>2
<1> DEFINE map == Insert(id, "X-Application-Key", AppKey)
<1>4. /\ Part(map, {Lower["X-Application-Key"]}) = SetToBag({<<"X-Application-Key", AppKey>>})
      /\ \A n \in SdkHeaderNames \ {"X-Application-Key"} : Part(map, {Lower[n]}) = Part(id, {Lower[n]})
      /\ Others(map, LowSdk) = Others(id, LowSdk)
  BY <1>1, <1>3, SdkInsert, SdkInsertElsewhere, SdkInsertOthers
<1>5. WithIds(held) = map
  BY DEF WithIds, id
<1> HIDE DEF map
<1> QED BY <1>1, <1>2, <1>4, <1>5

LEMMA AgentReceived ==
  ASSUME NEW held, NEW agent, AgentHeld(held, agent)
  PROVE  LET map == WithAgent(held)
         IN /\ Part(map, {LowAgent}) =
                 SetToBag({<<"User-Agent", IF agent = "" THEN UserAgentDefault ELSE agent>>})
            /\ \A n \in SdkHeaderNames \ {"User-Agent"} :
                 Part(map, {Lower[n]}) = Part(held, {Lower[n]})
            /\ Others(map, LowSdk) = Others(held, LowSdk)
<1>0. "User-Agent" \in SdkHeaderNames
  BY SdkNames
<1>1. CASE agent = ""
  <2>1. DOMAIN Part(held, {LowAgent}) = {}
    BY <1>1 DEF AgentHeld, EmptyBag, SetToBag
  <2>2. ~Has(held, "User-Agent")
    BY <2>1 DEF Has, Part, LowAgent
  <2>3. Part(held, {Lower["User-Agent"]}) = EmptyBag
    BY <1>1 DEF LowAgent, AgentHeld
  <2>4. WithAgent(held) = Insert(held, "User-Agent", UserAgentDefault)
    BY <2>2 DEF WithAgent
  <2> DEFINE more == Insert(held, "User-Agent", UserAgentDefault)
  <2>5. Part(more, {Lower["User-Agent"]}) = SetToBag({<<"User-Agent", UserAgentDefault>>})
    BY <1>0, <2>3, SdkInsert
  <2>6. /\ \A n \in SdkHeaderNames \ {"User-Agent"} :
             Part(more, {Lower[n]}) = Part(held, {Lower[n]})
        /\ Others(more, LowSdk) = Others(held, LowSdk)
    <3>1. ASSUME NEW n \in SdkHeaderNames, n # "User-Agent"
          PROVE  Part(more, {Lower[n]}) = Part(held, {Lower[n]})
      BY <1>0, <3>1, SdkInsertElsewhere
    <3>2. Others(more, LowSdk) = Others(held, LowSdk)
      BY <1>0, SdkInsertOthers
    <3> QED BY <3>1, <3>2
  <2> HIDE DEF more
  <2>7. WithAgent(held) = more
    BY <2>4 DEF more
  <2> QED BY <1>1, <2>5, <2>6, <2>7 DEF LowAgent
<1>2. CASE agent # ""
  <2> DEFINE pair == <<"User-Agent", agent>>
  <2>1. pair[1] = "User-Agent"
    OBVIOUS
  <2>2. Part(held, {LowAgent}) = SetToBag({pair})
    BY <1>2 DEF AgentHeld
  <2> HIDE DEF pair
  <2>3. pair \in DOMAIN Part(held, {LowAgent})
    BY <2>2 DEF SetToBag
  <2>4. pair \in DOMAIN held
    BY <2>3 DEF Part
  <2>5. WithAgent(held) = held
    BY <2>1, <2>4 DEF Has, WithAgent
  <2> QED BY <1>2, <2>5 DEF AgentHeld
<1> QED BY <1>1, <1>2

LEMMA TokenReceived ==
  ASSUME NEW held, NEW token, Part(held, {Lower["X-Session-Token"]}) = EmptyBag
  PROVE  LET map == WithToken(held, token)
         IN /\ Part(map, {Lower["X-Session-Token"]}) =
                 IF token = "" THEN EmptyBag ELSE SetToBag({<<"X-Session-Token", token>>})
            /\ \A n \in SdkHeaderNames \ {"X-Session-Token"} :
                 Part(map, {Lower[n]}) = Part(held, {Lower[n]})
            /\ Others(map, LowSdk) = Others(held, LowSdk)
<1>1. "X-Session-Token" \in SdkHeaderNames
  BY DEF ReservedHeaderNames, SdkHeaderNames
<1>2. CASE token = ""
  BY <1>2 DEF WithToken
<1>3. CASE token # ""
  <2>1. WithToken(held, token) = Insert(held, "X-Session-Token", token)
    BY <1>3 DEF WithToken
  <2>2. Part(WithToken(held, token), {Lower["X-Session-Token"]}) = SetToBag({<<"X-Session-Token", token>>})
    BY <1>1, <2>1, SdkInsert
  <2>3. /\ \A n \in SdkHeaderNames \ {"X-Session-Token"} :
             Part(WithToken(held, token), {Lower[n]}) = Part(held, {Lower[n]})
        /\ Others(WithToken(held, token), LowSdk) = Others(held, LowSdk)
    BY <1>1, <2>1, SdkInsertElsewhere, SdkInsertOthers
  <2> QED BY <1>3, <2>2, <2>3
<1> QED BY <1>2, <1>3

LEMMA NamesOfTheSdk ==
  /\ {"X-Application-Id", "X-Application-Key", "X-Session-Token", "Content-Type"} \subseteq ReservedHeaderNames
  /\ {"X-Application-Id", "X-Application-Key", "X-Session-Token", "Content-Type", "User-Agent"}
       \subseteq SdkHeaderNames
BY DEF ReservedHeaderNames, SdkHeaderNames

SdkHeadersOnce(map, held, agent, typed, type, token) ==
  /\ Part(map, {Lower["X-Application-Id"]}) = SetToBag({<<"X-Application-Id", AppId>>})
  /\ Part(map, {Lower["X-Application-Key"]}) = SetToBag({<<"X-Application-Key", AppKey>>})
  /\ Part(map, {Lower["User-Agent"]}) =
       SetToBag({<<"User-Agent", IF agent = "" THEN UserAgentDefault ELSE agent>>})
  /\ Part(map, {Lower["X-Session-Token"]}) =
       IF token = "" THEN EmptyBag ELSE SetToBag({<<"X-Session-Token", token>>})
  /\ Part(map, {Lower["Content-Type"]}) =
       IF typed THEN SetToBag({<<"Content-Type", type>>}) ELSE EmptyBag
  /\ Others(map, LowSdk) = Others(held, LowSdk)

LEMMA CompletedReceived ==
  ASSUME NEW held, NothingReserved(held), NEW agent, AgentHeld(held, agent),
         NEW typed \in BOOLEAN, NEW type, NEW token
  PROVE  SdkHeadersOnce(Completed(held, typed, type, token), held, agent, typed, type, token)
<1> DEFINE t == WithType(held, typed, type)
           i == WithIds(t)
           a == WithAgent(i)
           s == WithToken(a, token)
<1>1. /\ Part(t, {Lower["Content-Type"]}) =
           IF typed THEN SetToBag({<<"Content-Type", type>>}) ELSE EmptyBag
      /\ \A n \in SdkHeaderNames \ {"Content-Type"} : Part(t, {Lower[n]}) = Part(held, {Lower[n]})
      /\ Others(t, LowSdk) = Others(held, LowSdk)
  BY TypeReceived
<1>2. \A n \in ReservedHeaderNames : Part(held, {Lower[n]}) = EmptyBag
  BY NothingReservedHeld
<1> HIDE DEF t
<1>3. /\ Part(t, {Lower["X-Application-Id"]}) = EmptyBag
      /\ Part(t, {Lower["X-Application-Key"]}) = EmptyBag
      /\ Part(t, {Lower["X-Session-Token"]}) = EmptyBag
      /\ Part(t, {Lower["User-Agent"]}) = Part(held, {Lower["User-Agent"]})
  BY <1>1, <1>2, NamesOfTheSdk
<1>4. /\ Part(i, {Lower["X-Application-Id"]}) = SetToBag({<<"X-Application-Id", AppId>>})
      /\ Part(i, {Lower["X-Application-Key"]}) = SetToBag({<<"X-Application-Key", AppKey>>})
      /\ \A n \in SdkHeaderNames \ {"X-Application-Id", "X-Application-Key"} :
           Part(i, {Lower[n]}) = Part(t, {Lower[n]})
      /\ Others(i, LowSdk) = Others(t, LowSdk)
  BY <1>3, IdsReceived
<1> HIDE DEF i
<1>5. /\ Part(i, {Lower["X-Session-Token"]}) = EmptyBag
      /\ AgentHeld(i, agent)
  BY <1>3, <1>4, NamesOfTheSdk DEF LowAgent, AgentHeld
<1>6. /\ Part(a, {LowAgent}) =
           SetToBag({<<"User-Agent", IF agent = "" THEN UserAgentDefault ELSE agent>>})
      /\ \A n \in SdkHeaderNames \ {"User-Agent"} : Part(a, {Lower[n]}) = Part(i, {Lower[n]})
      /\ Others(a, LowSdk) = Others(i, LowSdk)
  BY <1>5, AgentReceived
<1> HIDE DEF a
<1>7. Part(a, {Lower["X-Session-Token"]}) = EmptyBag
  BY <1>5, <1>6, NamesOfTheSdk
<1>8. /\ Part(s, {Lower["X-Session-Token"]}) =
           IF token = "" THEN EmptyBag ELSE SetToBag({<<"X-Session-Token", token>>})
      /\ \A n \in SdkHeaderNames \ {"X-Session-Token"} : Part(s, {Lower[n]}) = Part(a, {Lower[n]})
      /\ Others(s, LowSdk) = Others(a, LowSdk)
  BY <1>7, TokenReceived
<1>9. s = Completed(held, typed, type, token)
  BY DEF Completed, a, i, t
<1> HIDE DEF s
<1>10. Part(s, {Lower["X-Application-Id"]}) = SetToBag({<<"X-Application-Id", AppId>>})
  BY <1>4, <1>6, <1>8, NamesOfTheSdk
<1>11. Part(s, {Lower["X-Application-Key"]}) = SetToBag({<<"X-Application-Key", AppKey>>})
  BY <1>4, <1>6, <1>8, NamesOfTheSdk
<1>12. Part(s, {Lower["User-Agent"]}) =
         SetToBag({<<"User-Agent", IF agent = "" THEN UserAgentDefault ELSE agent>>})
  BY <1>6, <1>8, NamesOfTheSdk DEF LowAgent
<1>13. Part(s, {Lower["Content-Type"]}) =
         IF typed THEN SetToBag({<<"Content-Type", type>>}) ELSE EmptyBag
  BY <1>1, <1>4, <1>6, <1>8, NamesOfTheSdk
<1>14. Others(s, LowSdk) = Others(held, LowSdk)
  BY <1>1, <1>4, <1>6, <1>8
<1> QED BY <1>8, <1>9, <1>10, <1>11, <1>12, <1>13, <1>14 DEF SdkHeadersOnce

(* None of the lines is left out: no half is empty.                        *)
LEMMA InsertMultiMap ==
  ASSUME NEW map, NEW n, NEW v
  PROVE  IsMultiMap(Insert(map, n, v))
BY DEF IsMultiMap, Insert, BagAdd

LEMMA CompletedLines ==
  ASSUME NEW held, NoEmptyHalves(held), IsMultiMap(held),
         NEW typed \in BOOLEAN, NEW type, typed => type # "", NEW token
  PROVE  Lines(Completed(held, typed, type, token)) = Completed(held, typed, type, token)
<1> DEFINE Good(map) == NoEmptyHalves(map) /\ IsMultiMap(map)
<1>1. ASSUME NEW map, Good(map), NEW n, NEW v, n # "", v # ""
      PROVE  Good(Insert(map, n, v))
  BY <1>1, InsertKeeps, InsertMultiMap
<1> DEFINE t == WithType(held, typed, type)
           i == WithIds(t)
           a == WithAgent(i)
           s == WithToken(a, token)
<1> HIDE DEF Good
<1>2. Good(t)
  <2>1. Good(held)
    BY DEF Good
  <2>2. CASE typed
    <3>1. Good(Insert(held, "Content-Type", type))
      BY <1>1, <2>1, <2>2
    <3> QED BY <2>2, <3>1 DEF WithType
  <2>3. CASE ~typed
    BY <2>1, <2>3 DEF WithType
  <2> QED BY <2>2, <2>3
<1>3. Good(i)
  <2>1. Good(Insert(t, "X-Application-Id", AppId))
    BY <1>1, <1>2 DEF AppId
  <2>2. Good(Insert(Insert(t, "X-Application-Id", AppId), "X-Application-Key", AppKey))
    BY <1>1, <2>1 DEF AppKey
  <2> QED BY <2>2 DEF WithIds
<1>4. Good(a)
  <2>1. Good(Insert(i, "User-Agent", UserAgentDefault))
    BY <1>1, <1>3 DEF UserAgentDefault
  <2> QED BY <1>3, <2>1 DEF WithAgent
<1>5. Good(s)
  <2>1. CASE token = ""
    BY <1>4, <2>1 DEF WithToken
  <2>2. CASE token # ""
    <3>1. Good(Insert(a, "X-Session-Token", token))
      BY <1>1, <1>4, <2>2
    <3> QED BY <2>2, <3>1 DEF WithToken
  <2> QED BY <2>1, <2>2
<1>6. s = Completed(held, typed, type, token)
  BY DEF Completed
<1> QED BY <1>5, <1>6, AllLines DEF Good

(* What each setter of a factory leaves alone.                             *)
IsFactory(f) ==
  f = [request_method |-> f.request_method, request_params |-> f.request_params,
       headers |-> f.headers, body |-> f.body, session_token |-> f.session_token]

LEMMA NewFactory ==
  ASSUME NEW token
  PROVE  /\ IsFactory(New(token))
         /\ New(token).request_params = EmptyBag
         /\ New(token).body = ""
         /\ New(token).session_token = token
BY DEF IsFactory, New

LEMMA MethodSet ==
  ASSUME NEW f, IsFactory(f), NEW method
  PROVE  Method(f, method) =
           [request_method |-> method, request_params |-> f.request_params,
            headers |-> f.headers, body |-> f.body, session_token |-> f.session_token]
BY DEF IsFactory, Method

LEMMA HeadersSet ==
  ASSUME NEW f, IsFactory(f), NEW headers
  PROVE  Headers(f, headers) =
           [request_method |-> f.request_method, request_params |-> f.request_params,
            headers |-> headers, body |-> f.body, session_token |-> f.session_token]
BY DEF IsFactory, Headers

(* A request is built from what the gateway holds.                         *)
SaysWhatIsHeld(request, token, body) ==
  LET takes == TakesBody(apigw.http_method)
  IN /\ request.method = apigw.http_method
     /\ request.params = IF takes THEN EmptyBag ELSE apigw.parameters
     /\ request.body = IF takes THEN body ELSE ""
     /\ request.headers = Completed(apigw.headers, takes /\ body # "", apigw.content_type, token)

LEMMA RequestBuilt ==
  ASSUME NEW token, NEW body, GatewayTypeOK, NoEmptyHalves(apigw.headers),
         NoEmptyHalves(apigw.parameters), CheckContentType(body)
  PROVE  SaysWhatIsHeld(RequestOf(New(token), body), token, body)
<1> DEFINE takes   == TakesBody(apigw.http_method)
           start   == Headers(Method(New(token), apigw.http_method), apigw.headers)
           factory == IF takes THEN AppendContentType(Body(start, body), body)
                      ELSE Params(start, apigw.parameters)
           typed   == takes /\ body # ""
<1>1. RequestOf(New(token), body) = Build(factory)
  BY DEF RequestOf
<1>2. start = [request_method |-> apigw.http_method, request_params |-> EmptyBag,
               headers |-> apigw.headers, body |-> "", session_token |-> token]
  <2> DEFINE new == New(token)
             set == Method(new, apigw.http_method)
  <2>1. /\ IsFactory(new)
        /\ new.request_params = EmptyBag
        /\ new.body = ""
        /\ new.session_token = token
    BY NewFactory
  <2> HIDE DEF new
  <2>2. set = [request_method |-> apigw.http_method, request_params |-> new.request_params,
               headers |-> new.headers, body |-> new.body, session_token |-> new.session_token]
    <3> HIDE DEF set
    <3>1. IsFactory(new)
      BY <2>1
    <3> QED BY <3>1, MethodSet DEF set
  <2> HIDE DEF set
  <2>3. IsFactory(set)
    BY <2>2 DEF IsFactory
  <2>4. start = [request_method |-> set.request_method, request_params |-> set.request_params,
                 headers |-> apigw.headers, body |-> set.body, session_token |-> set.session_token]
    BY <2>3, HeadersSet DEF set, new
  <2> QED BY <2>1, <2>2, <2>4
<1> HIDE DEF start
<1>3. typed => apigw.content_type # ""
  BY DEF CheckContentType
<1>4. /\ factory.request_method = apigw.http_method
      /\ factory.request_params = IF takes THEN EmptyBag ELSE apigw.parameters
      /\ factory.body = IF takes THEN body ELSE ""
      /\ factory.session_token = token
      /\ factory.headers = WithType(apigw.headers, typed, apigw.content_type)
  BY <1>2, <1>3 DEF AppendContentType, AppendHeader, Body, Params, WithType
<1>5. takes \in BOOLEAN /\ typed \in BOOLEAN
  BY DEF TakesBody
<1> HIDE DEF factory, takes, typed
<1>6. Lines(Completed(apigw.headers, typed, apigw.content_type, token))
      = Completed(apigw.headers, typed, apigw.content_type, token)
  <2>1. IsMultiMap(apigw.headers)
    BY MultiMapType DEF GatewayTypeOK
  <2> QED BY <1>3, <1>5, <2>1, CompletedLines
<1>7. Lines(EmptyBag) = EmptyBag /\ Lines(apigw.parameters) = apigw.parameters
  <2>1. NoEmptyHalves(EmptyBag) /\ IsMultiMap(EmptyBag)
    BY DEF NoEmptyHalves, IsMultiMap, EmptyBag, SetToBag
  <2>2. IsMultiMap(apigw.parameters)
    BY MultiMapType DEF GatewayTypeOK
  <2> QED BY <2>1, <2>2, AllLines
<1>8. Build(factory) = [method |-> factory.request_method,
                        params |-> Lines(factory.request_params),
                        headers |-> Lines(Completed(apigw.headers, typed, apigw.content_type, token)),
                        body |-> factory.body]
  BY <1>4 DEF Build, Completed, WithToken, WithAgent, WithIds
<1> DEFINE request == RequestOf(New(token), body)
<1>9. request = [method |-> factory.request_method,
                 params |-> Lines(factory.request_params),
                 headers |-> Completed(apigw.headers, typed, apigw.content_type, token),
                 body |-> factory.body]
  BY <1>1, <1>6, <1>8
<1> HIDE DEF request
<1>10. /\ request.method = factory.request_method
       /\ request.params = Lines(factory.request_params)
       /\ request.headers = Completed(apigw.headers, typed, apigw.content_type, token)
       /\ request.body = factory.body
  BY <1>9
<1>11. request.params = IF takes THEN EmptyBag ELSE apigw.parameters
  BY <1>4, <1>7, <1>10
<1> QED BY <1>4, <1>10, <1>11 DEF SaysWhatIsHeld, request, takes, typed

(* Whatever the application adds, removes and calls, and however it spells *)
(* the names, what is sent is what it wants and what the SDK adds, once.   *)
LEMMA InvSends == GatewayInv => GatewaySendsWanted
<1> SUFFICES ASSUME GatewayInv, sent.code = "NB_OK" PROVE GatewaySendsWanted
  BY DEF GatewaySendsWanted
<1> DEFINE r     == sent.request
           takes == TakesBody(apigw.http_method)
           typed == takes /\ sent.body # ""
           map   == Completed(apigw.headers, typed, apigw.content_type, sent.token)
<1>1. /\ GatewayTypeOK
      /\ NoEmptyHalves(apigw.headers)
      /\ NothingReserved(apigw.headers)
      /\ NoEmptyHalves(apigw.parameters)
      /\ Others(apigw.headers, LowSdk) = wanted.headers
      /\ AgentHeld(apigw.headers, wanted.agent)
      /\ apigw.parameters = wanted.parameters
      /\ apigw.content_type = wanted.type
  BY DEF GatewayInv, HeadersAreWanted, ParametersAreWanted
<1>2. CheckContentType(sent.body) /\ r = RequestOf(New(sent.token), sent.body)
  BY DEF GatewayInv, SentAsHeld
<1>3. /\ r.method = apigw.http_method
      /\ r.params = IF takes THEN EmptyBag ELSE apigw.parameters
      /\ r.body = IF takes THEN sent.body ELSE ""
      /\ r.headers = map
  <2>1. SaysWhatIsHeld(RequestOf(New(sent.token), sent.body), sent.token, sent.body)
    BY <1>1, <1>2, RequestBuilt
  <2> QED BY <1>2, <2>1 DEF SaysWhatIsHeld
<1>4. typed \in BOOLEAN
  BY DEF TakesBody
<1>5. /\ Part(map, {Lower["X-Application-Id"]}) = SetToBag({<<"X-Application-Id", AppId>>})
      /\ Part(map, {Lower["X-Application-Key"]}) = SetToBag({<<"X-Application-Key", AppKey>>})
      /\ Part(map, {Lower["User-Agent"]}) =
           SetToBag({<<"User-Agent", IF wanted.agent = "" THEN UserAgentDefault ELSE wanted.agent>>})
      /\ Part(map, {Lower["X-Session-Token"]}) =
           IF sent.token = "" THEN EmptyBag ELSE SetToBag({<<"X-Session-Token", sent.token>>})
      /\ Part(map, {Lower["Content-Type"]}) =
           IF typed THEN SetToBag({<<"Content-Type", apigw.content_type>>}) ELSE EmptyBag
      /\ Others(map, LowSdk) = Others(apigw.headers, LowSdk)
  <2> HIDE DEF typed, map
  <2>1. SdkHeadersOnce(map, apigw.headers, wanted.agent, typed, apigw.content_type, sent.token)
    BY <1>1, <1>4, CompletedReceived DEF map
  <2> QED BY <2>1 DEF SdkHeadersOnce
<1> HIDE DEF r, map
<1>6. OnlyValue(r, "X-Application-Id", AppId) /\ OnlyValue(r, "X-Application-Key", AppKey)
  BY <1>3, <1>5, OneValue
<1>7. OnlyValue(r, "User-Agent", IF wanted.agent = "" THEN UserAgentDefault ELSE wanted.agent)
  BY <1>3, <1>5, OneValue
<1>8. IF sent.token = "" THEN Nothing(r, "X-Session-Token")
      ELSE OnlyValue(r, "X-Session-Token", sent.token)
  BY <1>3, <1>5, OneValue, ReceivedIsPart DEF Nothing
<1>9. IF takes /\ sent.body # "" THEN OnlyValue(r, "Content-Type", wanted.type)
      ELSE Nothing(r, "Content-Type")
  BY <1>1, <1>3, <1>5, OneValue, ReceivedIsPart DEF Nothing
<1>10. [p \in {q \in DOMAIN r.headers : Lower[q[1]] \notin {Lower[n] : n \in SdkHeaderNames}}
          |-> r.headers[p]] = wanted.headers
  BY <1>1, <1>3, <1>5 DEF Others, LowSdk
<1>11. r.params = IF takes THEN EmptyBag ELSE wanted.parameters
  BY <1>1, <1>3
<1> QED BY <1>3, <1>6, <1>7, <1>8, <1>9, <1>10, <1>11 DEF GatewaySendsWanted, r

(* The invariant: types, what the gateway holds, what was sent.            *)
THEOREM GatewayInvariant == GatewaySpec => []GatewayInv
<1>1. GatewayInit => GatewayInv
  BY InitInv
<1>2. GatewayInv /\ [GatewayNext]_gatewayVars => GatewayInv'
  BY NextKeepsInv
<1> QED BY <1>1, <1>2, PTL DEF GatewaySpec

(* Each header of the SDK's arrives once, with the SDK's value; the rest   *)
(* is what the application has added and not removed.                      *)
THEOREM GatewaySends == GatewaySpec => []GatewaySendsWanted
<1>1. GatewayInv => GatewaySendsWanted
  BY InvSends
<1> QED BY <1>1, GatewayInvariant, PTL
=============================================================================
