---------------------------- MODULE NbApiGateway ----------------------------
(***************************************************************************)
(* The API gateway (src/src/nb_api_gateway.cc).  An application adds       *)
(* headers and parameters to an NbApiGateway and calls its API, any number *)
(* of times and in any order.  What it adds may be spelled in any case and *)
(* share a name with what the SDK adds on its own.                         *)
(***************************************************************************)
EXTENDS NbHttpRequestFactory

CONSTANTS ApiNames,      \* names of APIs, "" among them
          HeaderNames,   \* names of headers, as an application spells them
          HeaderValues,  \* values of headers and parameters, and types
          ParamNames,    \* names of parameters
          Bodies,        \* bodies of requests
          Tokens,        \* session tokens of the service, "" when logged out
          MaxHeaders     \* bounds the headers, and the parameters, added

ReservedHeaderNames == {"Content-Type", "Content-Length", "X-Application-Id",
                        "X-Application-Key", "X-Session-Token", "Host"}

SdkHeaderNames == ReservedHeaderNames \cup {"User-Agent"}

ASSUME GatewayAssumption ==
  /\ MaxHeaders \in Nat
  /\ HeaderNames \cup ParamNames \cup SdkHeaderNames \subseteq DOMAIN Lower
  /\ \A a, b \in SdkHeaderNames : Lower[a] = Lower[b] => a = b

VARIABLES apigw,   \* the NbApiGateway
          wanted,  \* what the application has added and not removed
          sent     \* the result of the last call, if nothing was called since

gatewayVars == <<apigw, wanted, sent>>

HttpMethods == {"GET", "POST", "PUT", "DELETE"}
NothingSent == [code |-> "None"]

GatewayInit ==
  /\ apigw \in [api_name : ApiNames, http_method : HttpMethods,
                parameters : {EmptyBag}, headers : {EmptyBag}, content_type : {""}]
  /\ wanted = [headers |-> EmptyBag, agent |-> "", parameters |-> EmptyBag, type |-> ""]
  /\ sent = NothingSent

IsReservedAsSpelled(name) == name \in ReservedHeaderNames    \* compares with ==

IsReservedHeaderName(name) ==
  \E reserved \in ReservedHeaderNames : CompareCaseInsensitiveString(name, reserved)

IsUserAgent(name) == CompareCaseInsensitiveString(name, "User-Agent")

HeadersWith(headers, name, value) ==
  IF name = "" \/ value = "" \/ IsReservedHeaderName(name) THEN headers
  ELSE IF IsUserAgent(name)
       THEN Insert(Erase(headers, "User-Agent"), "User-Agent", value)
       ELSE Insert(headers, name, value)

AddHeader(name, value) ==
  /\ BagCardinality(apigw.headers) < MaxHeaders
  /\ apigw' = [apigw EXCEPT !.headers = HeadersWith(@, name, value)]
  /\ wanted' =
       IF name = "" \/ value = "" \/ Lower[name] \in {Lower[r] : r \in ReservedHeaderNames}
       THEN wanted
       ELSE IF IsUserAgent(name) THEN [wanted EXCEPT !.agent = value]
            ELSE [wanted EXCEPT !.headers = Insert(@, name, value)]
  /\ sent' = NothingSent

RemoveHeader(name) ==
  /\ apigw' = [apigw EXCEPT !.headers = Erase(@, name)]
  /\ wanted' = [wanted EXCEPT !.headers = Erase(@, name),
                              !.agent = IF name = "User-Agent" THEN "" ELSE @]
  /\ sent' = NothingSent

ClearHeaders ==
  /\ apigw' = [apigw EXCEPT !.headers = EmptyBag]
  /\ wanted' = [wanted EXCEPT !.headers = EmptyBag, !.agent = ""]
  /\ sent' = NothingSent

AddParameter(name, value) ==
  /\ BagCardinality(apigw.parameters) < MaxHeaders
  /\ name # "" /\ value # ""             \* ignored otherwise
  /\ apigw' = [apigw EXCEPT !.parameters = Insert(@, name, value)]
  /\ wanted' = [wanted EXCEPT !.parameters = Insert(@, name, value)]
  /\ sent' = NothingSent

RemoveParameter(name) ==
  /\ apigw' = [apigw EXCEPT !.parameters = Erase(@, name)]
  /\ wanted' = [wanted EXCEPT !.parameters = Erase(@, name)]
  /\ sent' = NothingSent

ClearParameters ==
  /\ apigw' = [apigw EXCEPT !.parameters = EmptyBag]
  /\ wanted' = [wanted EXCEPT !.parameters = EmptyBag]
  /\ sent' = NothingSent

SetContentType(content_type) ==
  /\ apigw' = [apigw EXCEPT !.content_type = content_type]
  /\ wanted' = [wanted EXCEPT !.type = content_type]
  /\ sent' = NothingSent

TakesBody(method) == method \in {"POST", "PUT"}

CheckContentType(body) ==
  TakesBody(apigw.http_method) => body = "" \/ apigw.content_type # ""

AppendContentType(factory, body) ==
  IF body = "" THEN factory
  ELSE AppendHeader(factory, "Content-Type", apigw.content_type)

(* The lambda that fills in the factory.                                   *)
RequestOf(factory, body) ==
  LET start == Headers(Method(factory, apigw.http_method), apigw.headers)
  IN Build(IF TakesBody(apigw.http_method) THEN AppendContentType(Body(start, body), body)
           ELSE Params(start, apigw.parameters))

ExecuteCustomApi(body, session_token) ==
  /\ sent' = CASE apigw.api_name = ""      -> [code |-> "NB_ERROR_API_NAME"]
               [] apigw.api_name # "" /\ ~CheckContentType(body) ->
                                              [code |-> "NB_ERROR_CONTENT_TYPE"]
               [] OTHER -> [code |-> "NB_OK", body |-> body, token |-> session_token,
                            request |-> RequestOf(New(session_token), body)]
  /\ UNCHANGED <<apigw, wanted>>

GatewayNext ==
  \/ \E name \in HeaderNames, value \in HeaderValues : AddHeader(name, value)
  \/ \E name \in HeaderNames : RemoveHeader(name)
  \/ ClearHeaders
  \/ \E name \in ParamNames, value \in HeaderValues : AddParameter(name, value)
  \/ \E name \in ParamNames : RemoveParameter(name)
  \/ ClearParameters
  \/ \E type \in HeaderValues : SetContentType(type)
  \/ \E body \in Bodies, token \in Tokens : ExecuteCustomApi(body, token)

GatewaySpec == GatewayInit /\ [][GatewayNext]_gatewayVars
-----------------------------------------------------------------------------
(* The server compares names of headers without regard to case.            *)
Received(request, name) ==
  LET pairs == {p \in DOMAIN request.headers : Lower[p[1]] = Lower[name]}
  IN [pair \in pairs |-> request.headers[pair]]

OnlyValue(request, name, value) ==
  \E pair \in DOMAIN request.headers : /\ pair[2] = value
                                       /\ Received(request, name) = SetToBag({pair})

Nothing(request, name) == Received(request, name) = EmptyBag

(* However an application spells what it adds and in whatever order it     *)
(* adds, removes and calls (nb_api_gateway.h:85-160): each header that is  *)
(* the SDK's arrives once and with the SDK's value, the application's user *)
(* agent replaces that of the SDK, the rest of what it has added and not   *)
(* removed arrives, and nothing of one call gets into the next.            *)
GatewaySendsWanted ==
  sent.code = "NB_OK" =>
    LET r == sent.request
        takes == TakesBody(apigw.http_method)
    IN /\ r.method = apigw.http_method
       /\ OnlyValue(r, "X-Application-Id", AppId)
       /\ OnlyValue(r, "X-Application-Key", AppKey)
       /\ OnlyValue(r, "User-Agent", IF wanted.agent = "" THEN UserAgentDefault
                                     ELSE wanted.agent)
       /\ IF sent.token = "" THEN Nothing(r, "X-Session-Token")
          ELSE OnlyValue(r, "X-Session-Token", sent.token)
       /\ IF takes /\ sent.body # "" THEN OnlyValue(r, "Content-Type", wanted.type)
          ELSE Nothing(r, "Content-Type")
       /\ [p \in {q \in DOMAIN r.headers :
                    Lower[q[1]] \notin {Lower[n] : n \in SdkHeaderNames}} |-> r.headers[p]]
          = wanted.headers
       /\ r.params = IF takes THEN EmptyBag ELSE wanted.parameters
       /\ r.body = IF takes THEN sent.body ELSE ""
=============================================================================
