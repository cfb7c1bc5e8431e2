------------------------ MODULE NbHttpRequestFactory ------------------------
(***************************************************************************)
(* The factory of HTTP requests                                            *)
(* (src/src/internal/nb_http_request_factory.cc).  ExecuteCommon makes one *)
(* for each call, with the session token of that moment, and the caller's  *)
(* lambda fills it in.  A factory is a record; the multimaps of headers    *)
(* and parameters are bags of pairs of a name and a value.                 *)
(*                                                                         *)
(* The URL is left out (it is a concatenation), and so are the checks of   *)
(* the service's own parameters, which NbService models.                   *)
(***************************************************************************)
EXTENDS Naturals, FiniteSets, Bags, BagsExt

CONSTANT Lower   \* Lower[name]: the name in lower case

CompareCaseInsensitiveString(a, b) == Lower[a] = Lower[b]

Insert(map, name, value) == BagAdd(map, <<name, value>>)
Erase(map, name) == [pair \in {p \in DOMAIN map : p[1] # name} |-> map[pair]]
Has(map, name) == \E pair \in DOMAIN map : pair[1] = name

AppId      == "the application's ID"
AppKey     == "the application's key"
UserAgentDefault == "baas embedded sdk"

New(session_token) ==
  [request_method |-> "None", request_params |-> EmptyBag, headers |-> EmptyBag,
   body |-> "", session_token |-> session_token]

Method(factory, method)   == [factory EXCEPT !.request_method = method]
Params(factory, params)   == [factory EXCEPT !.request_params = params]
Headers(factory, headers) == [factory EXCEPT !.headers = headers]
Body(factory, body)       == [factory EXCEPT !.body = body]

AppendHeader(factory, key, value) ==
  IF key = "" \/ value = "" THEN factory
  ELSE [factory EXCEPT !.headers = Insert(@, key, value)]

(* Pairs with an empty half get no line, and no place in the URL.          *)
Lines(map) ==
  [pair \in {p \in DOMAIN map : p[1] # "" /\ p[2] # ""} |-> map[pair]]

Build(factory) ==
  LET common  == Insert(Insert(factory.headers, "X-Application-Id", AppId),
                        "X-Application-Key", AppKey)
      agent   == IF Has(common, "User-Agent") THEN common
                 ELSE Insert(common, "User-Agent", UserAgentDefault)
      session == IF factory.session_token = "" THEN agent
                 ELSE Insert(agent, "X-Session-Token", factory.session_token)
  IN [method  |-> factory.request_method,
      params  |-> Lines(factory.request_params),
      headers |-> Lines(session),
      body    |-> factory.body]
=============================================================================
