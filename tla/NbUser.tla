------------------------------- MODULE NbUser -------------------------------
(***************************************************************************)
(* Login, logout, export and import of the login session                   *)
(* (src/src/nb_user.cc), and the requests of the other classes, called by  *)
(* several threads on one service.  NbUser's operations are static: all    *)
(* they share is the service.  Each lock-protected access to the service   *)
(* is one step; between two of them other threads and the clock run.       *)
(*                                                                         *)
(* The server is modelled from what the code sends and expects: POST       *)
(* /login issues a session, DELETE /login ends the session in the header.  *)
(***************************************************************************)
EXTENDS NbService, FiniteSets

CONSTANTS Offered,     \* the operations the application calls
          Lifetimes,   \* how long the sessions a server issues are valid
          Faults,      \* "lost": a request or its reply may be lost
                       \* "malformed": a 2xx reply may carry no session
          IntMax       \* the largest int (2^31 - 1 on the target)

ASSUME OfferedAssumption == Offered \subseteq Operations
ASSUME NumbersAssumption == Lifetimes \subseteq Nat \ {0} /\ IntMax \in Nat

VARIABLES
  user,      \* user[t]: the account thread t passed to Login
  saved,     \* the string Export returned last, kept by the application
  issued,    \* server: the sessions it has issued
  ended,     \* server: the tokens of those a logout has ended
  imported   \* history: the tokens Import has put into the service

serverVars == <<issued, ended>>
userVars   == <<user, saved, imported>>
vars       == <<serviceVars, userVars, serverVars>>

(* A string saved by an earlier process may be there to import.            *)
Init ==
  /\ ServiceInit
  /\ user = [t \in Threads |-> NoUser]
  /\ ended = {}
  /\ imported = {}
  /\ \/ issued = {} /\ saved = EmptySession
     \/ \E k \in Tokens, u \in Users, e \in Lifetimes :
          /\ saved = [session_token |-> k, expire_at |-> e, user_entity |-> u]
          /\ issued = {saved}
-----------------------------------------------------------------------------
(* The server.                                                             *)
Unused == {k \in Tokens : \A s \in issued : s.session_token # k}

(* Any request may be refused, and be lost, or its reply be, on the way.   *)
ServerFails(t) ==
  /\ \/ Perform(t, "NB_ERROR_RESPONSE", EmptySession)
     \/ "lost" \in Faults /\ Perform(t, "NB_ERROR_CURL_RUNTIME", EmptySession)
  /\ UNCHANGED serverVars

ServerLogin(t) ==
  /\ op[t] = "Login"
  /\ \E k \in Unused, d \in Lifetimes :
       LET s == [session_token |-> k, expire_at |-> now + d,
                 user_entity |-> user[t]]
       IN  /\ issued' = issued \cup {s}
           /\ \/ Perform(t, "NB_OK", s)
              \/ "lost" \in Faults
                   /\ Perform(t, "NB_ERROR_CURL_RUNTIME", EmptySession)
  /\ UNCHANGED ended

MalformedReply(t) ==
  /\ "malformed" \in Faults
  /\ Perform(t, "NB_OK", EmptySession)
  /\ UNCHANGED serverVars

ServerLogout(t) ==
  /\ op[t] = "Logout"
  /\ request[t] # NoToken
  /\ request[t] \notin ended
  /\ ended' = ended \cup {request[t]}
  /\ \/ Perform(t, "NB_OK", EmptySession)
     \/ "lost" \in Faults /\ Perform(t, "NB_ERROR_CURL_RUNTIME", EmptySession)
  /\ UNCHANGED issued

ServerRequest(t) ==
  /\ op[t] = "Request"
  /\ Perform(t, "NB_OK", EmptySession)
  /\ UNCHANGED serverVars

Server(t) ==
  /\ \/ ServerFails(t) \/ ServerLogin(t) \/ ServerLogout(t) \/ ServerRequest(t)
     \/ op[t] = "Login" /\ MalformedReply(t)
  /\ UNCHANGED userVars
-----------------------------------------------------------------------------
(* Any call of the other classes: it ends when ExecuteCommon does.         *)
Request(t) ==
  /\ "Request" \in Offered
  /\ Call(t, "Request", "create", "NB_FATAL", EmptySession)
  /\ UNCHANGED <<session_token, poolVars, now, userVars, serverVars>>

(* The local steps of a call, which leave the service and the server alone.*)
Locally(t, step) ==
  /\ Goto(t, step)
  /\ UNCHANGED <<op, request, poolVars, now, saved, user, serverVars>>

(* Return at the end of a call, or right after ExecuteCommon where nothing *)
(* follows it.                                                             *)
Finished(t) ==
  \/ pc[t] = "return"
  \/ pc[t] = "done" /\ op[t] = "Request"
  \/ pc[t] = "done" /\ op[t] = "Login" /\ result_code[t] # "NB_OK"

EndCall(t) ==
  /\ Finished(t)
  /\ Return(t)
  /\ user' = [user EXCEPT ![t] = NoUser]
  /\ UNCHANGED <<session_token, poolVars, now, saved, imported, serverVars>>

(* Login: an empty account or password (NoUser) is refused without a       *)
(* request.                                                                *)
LoginRefused(t) ==
  /\ "Login" \in Offered
  /\ Call(t, "Login", "return", "NB_ERROR_INVALID_ARGUMENT", EmptySession)
  /\ user' = [user EXCEPT ![t] = NoUser]
  /\ UNCHANGED <<session_token, poolVars, now, saved, imported, serverVars>>

Login(t) ==
  /\ "Login" \in Offered
  /\ Call(t, "Login", "create", "NB_FATAL", EmptySession)
  /\ \E u \in Users : user' = [user EXCEPT ![t] = u]
  /\ UNCHANGED <<session_token, poolVars, now, saved, imported, serverVars>>

(* LoginSetCurrentUser that forgets SetSessionUserEntity.                  *)
LoginKeepsEntity(t) ==
  /\ pc[t] = "done" /\ op[t] = "Login" /\ result_code[t] = "NB_OK"
  /\ SetSessionToken([json[t] EXCEPT !.user_entity = session_token.user_entity])
  /\ Locally(t, "get")
  /\ UNCHANGED <<result_code, json, imported>>

(* LoginSetCurrentUser without the test of IsSuccess().                    *)
LoginSetsAnyway(t) ==
  /\ pc[t] = "done" /\ op[t] = "Login"
  /\ SetSessionToken(json[t])
  /\ Locally(t, "get")
  /\ UNCHANGED <<result_code, json, imported>>

(* LoginSetCurrentUser that keeps the session the service already has.     *)
LoginKeepsFirst(t) ==
  /\ pc[t] = "done" /\ op[t] = "Login" /\ result_code[t] = "NB_OK"
  /\ SetSessionToken(IF IsValid(session_token) THEN session_token ELSE json[t])
  /\ Locally(t, "get")
  /\ UNCHANGED <<result_code, json, imported>>

(* SetCurrentUser on a 2xx reply, whatever it carries ...                  *)
LoginSetCurrentUser(t) ==
  /\ pc[t] = "done" /\ op[t] = "Login" /\ result_code[t] = "NB_OK"
  /\ SetSessionToken(json[t])
  /\ Locally(t, "get")
  /\ UNCHANGED <<result_code, json, imported>>

(* ... and then, under the lock again, the user to return is read back.    *)
GetCurrentUser(t) ==
  /\ pc[t] = "get"
  /\ json' = [json EXCEPT ![t].user_entity = GetSessionUserEntity(session_token)]
  /\ Locally(t, "return")
  /\ UNCHANGED <<session_token, result_code, imported>>

(* Logout: the check and the request each look at the service's session,   *)
(* and the session is cleared whatever became of the request.              *)
LogoutRefused(t) ==
  /\ "Logout" \in Offered
  /\ ~IsValid(session_token)
  /\ Call(t, "Logout", "return", "NB_ERROR_NOT_LOGGED_IN", EmptySession)
  /\ UNCHANGED <<session_token, poolVars, now, userVars, serverVars>>

Logout(t) ==
  /\ "Logout" \in Offered
  /\ IsValid(session_token)
  /\ Call(t, "Logout", "create", "NB_FATAL", EmptySession)
  /\ UNCHANGED <<session_token, poolVars, now, userVars, serverVars>>

EndLogoutIfOk(t) ==      \* EndLogout that clears only after a success
  /\ pc[t] = "done" /\ op[t] = "Logout"
  /\ IF result_code[t] = "NB_OK" THEN ClearSessionToken ELSE UNCHANGED session_token
  /\ Locally(t, "return")
  /\ UNCHANGED <<result_code, json, imported>>

EndLogoutOk(t) ==        \* EndLogout that reports what the clearing did
  /\ pc[t] = "done" /\ op[t] = "Logout"
  /\ ClearSessionToken
  /\ Result(t, "NB_OK")
  /\ Locally(t, "return")
  /\ UNCHANGED <<json, imported>>

EndLogout(t) ==
  /\ pc[t] = "done" /\ op[t] = "Logout"
  /\ ClearSessionToken
  /\ Locally(t, "return")
  /\ UNCHANGED <<result_code, json, imported>>
-----------------------------------------------------------------------------
(* ExportCurrentLogin takes the lock four times: for the check, the user,  *)
(* the token and the expiration.                                           *)
ExportRefused(t) ==
  /\ "Export" \in Offered
  /\ ~IsValid(session_token)
  /\ Call(t, "Export", "return", "NB_OK", EmptySession)
  /\ saved' = EmptySession
  /\ UNCHANGED <<session_token, poolVars, now, user, imported, serverVars>>

ExportNoUser(t) ==       \* Export that starts from an empty JSON object
  /\ "Export" \in Offered
  /\ IsValid(session_token)
  /\ Call(t, "Export", "token", "NB_OK", EmptySession)
  /\ UNCHANGED <<session_token, poolVars, now, userVars, serverVars>>

Export(t) ==
  /\ "Export" \in Offered
  /\ IsValid(session_token)
  /\ Call(t, "Export", "user", "NB_OK", EmptySession)
  /\ UNCHANGED <<session_token, poolVars, now, userVars, serverVars>>

ExportUser(t) ==
  /\ pc[t] = "user"
  /\ json' = [json EXCEPT ![t].user_entity = GetSessionUserEntity(session_token)]
  /\ Locally(t, "token")
  /\ UNCHANGED <<session_token, result_code, imported>>

ExportToken(t) ==
  /\ pc[t] = "token"
  /\ json' = [json EXCEPT ![t].session_token = GetSessionToken(session_token)]
  /\ Locally(t, "expire")
  /\ UNCHANGED <<session_token, result_code, imported>>

(* The cast (int)GetSessionTokenExpiration(service).                       *)
ToInt(n) == ((n + IntMax + 1) % (2 * (IntMax + 1))) - (IntMax + 1)

ExportExpire(t) ==
  /\ pc[t] = "expire"
  /\ saved' = [json[t] EXCEPT !.expire_at = ToInt(GetExpireAt(session_token))]
  /\ Goto(t, "return")
  /\ UNCHANGED <<session_token, op, request, result_code, json, poolVars, now,
                 user, imported, serverVars>>

(* ImportCode that expires a session one second early.                     *)
ImportCodeEarly ==
  IF saved.session_token = NoToken THEN "NB_ERROR_INVALID_ARGUMENT"
  ELSE IF saved.expire_at <= now + 1 THEN "NB_ERROR_SESSION_EXPIRED"
  ELSE "NB_OK"

(* ImportCurrentLogin of the string the application has kept.              *)
ImportCode ==
  IF saved.session_token = NoToken THEN "NB_ERROR_INVALID_ARGUMENT"
  ELSE IF IsExpired(saved.expire_at) THEN "NB_ERROR_SESSION_EXPIRED"
  ELSE "NB_OK"

Import(t) ==
  /\ "Import" \in Offered
  /\ Call(t, "Import", IF ImportCode = "NB_OK" THEN "set" ELSE "return",
          ImportCode, saved)
  /\ UNCHANGED <<session_token, poolVars, now, userVars, serverVars>>

ImportSetCurrentUser(t) ==
  /\ pc[t] = "set"
  /\ SetSessionToken(json[t])
  /\ imported' = imported \cup {json[t].session_token}
  /\ Locally(t, "return")
  /\ UNCHANGED <<result_code, json>>
-----------------------------------------------------------------------------
Service(t) ==
  /\ CreateRequest(t) \/ TakeExecutor(t) \/ ReturnExecutor(t)
  /\ UNCHANGED <<userVars, serverVars>>

(* A call in progress takes its next step.                                 *)
Step(t) ==
  \/ Service(t) \/ Server(t)
  \/ EndCall(t) \/ LoginSetCurrentUser(t)
  \/ GetCurrentUser(t) \/ EndLogout(t)
  \/ ExportUser(t) \/ ExportToken(t) \/ ExportExpire(t)
  \/ ImportSetCurrentUser(t)

Start(t) ==
  \/ Request(t) \/ LoginRefused(t) \/ Login(t)
  \/ LogoutRefused(t) \/ Logout(t)
  \/ ExportRefused(t) \/ Export(t) \/ Import(t)

Next ==
  \/ \E t \in Threads : Start(t) \/ Step(t)
  \/ Tick /\ UNCHANGED <<userVars, serverVars>>

(* A thread that has entered the SDK is scheduled, and libcurl's timeout   *)
(* (60 s unless the caller gives 0) ends every transfer; nothing obliges   *)
(* an application to make a call.                                          *)
Spec == Init /\ [][Next]_vars /\ \A t \in Threads : WF_vars(Step(t))
-----------------------------------------------------------------------------
TypeOK ==
  /\ ServiceTypeOK
  /\ user \in [Threads -> Users \cup {NoUser}]
  /\ saved \in NbSessionTokens
  /\ issued \in SUBSET NbSessionTokens
  /\ ended \in SUBSET Tokens
  /\ imported \in SUBSET (Tokens \cup {NoToken})

(* nb_user.h:48, "one login per NbService": what the service holds is one   *)
(* session some server issued, never the token of one login with the user  *)
(* or the expiration of another, whatever logs in, out and imports at the  *)
(* same time.  (An import puts back what it is given: see ExportIsOne.)    *)
SessionIsOne == session_token \in issued \cup {EmptySession}

(* Lines 104-105 of nb_user.cc clear the session whether or not the logout *)
(* request succeeded.  They have to: a session the server has ended is     *)
(* held by the service only while the logout that ended it is still        *)
(* returning, unless an import has put it there.                           *)
EndedOnlyWhileLogout ==
  \A k \in ended :
    session_token.session_token = k =>
      \/ k \in imported
      \/ \E t \in Threads : /\ op[t] = "Logout" /\ request[t] = k
                           /\ pc[t] \in {"push", "done"}

(* A logout that reports success has ended a session at the server, even   *)
(* if the session changed or expired between the check that somebody is    *)
(* logged in and the request.                                              *)
LogoutOkEnded ==
  \A t \in Threads :
    op[t] = "Logout" /\ pc[t] = "return" /\ result_code[t] = "NB_OK"
      => request[t] \in ended

(* A request carries a session token only if the service held that token,  *)
(* unexpired, at the moment the request was built.                         *)
SendsOnlyValid ==
  [][\A t \in Threads : request'[t] \notin {NoToken, request[t]}
       => /\ session_token.session_token = request'[t]
          /\ ~IsExpired(session_token.expire_at)]_vars

(* nb_user.h:49-50: the login is kept until a logout or the next login     *)
(* that succeeds (or an import).  A login that fails, at whatever step,    *)
(* and every other call leave it alone.                                    *)
KeptUntil ==
  [][session_token' # session_token =>
       \E t \in Threads :
         /\ pc'[t] # pc[t]
         /\ \/ op[t] = "Login" /\ result_code[t] = "NB_OK"
            \/ op[t] = "Logout" /\ result_code[t] # "NB_FATAL"
            \/ op[t] = "Import" /\ result_code[t] = "NB_OK"]_vars

(* A call is told NB_ERROR_CONNECTION_OVER only while HttpConnectionMax    *)
(* other calls use a connection: no path through ExecuteCommon keeps one.  *)
OverOnlyAtLimit ==
  [][\A t \in Threads :
       result_code'[t] = "NB_ERROR_CONNECTION_OVER" /\ result_code'[t] # result_code[t]
         => Cardinality(Connected) = HttpConnectionMax]_vars

(* A service with an empty required parameter fails every call with an     *)
(* error that names one, and nothing is sent (nb_service.h:26).            *)
RequiredParameters == {"endpoint_url", "tenant_id", "app_id", "app_key"}

ParameterErrors == {"NB_ERROR_ENDPOINT_URL", "NB_ERROR_TENANT_ID",
                    "NB_ERROR_APP_ID", "NB_ERROR_APP_KEY"}

NothingSent ==
  ~(RequiredParameters \subseteq Parameters) =>
    \A t \in Threads :
      /\ executor[t] = NoExecutor
      /\ pc[t] = "done" => result_code[t] \in ParameterErrors

(* Every call returns.                                                     *)
CallsReturn == \A t \in Threads : pc[t] # "idle" ~> pc[t] = "idle"
-----------------------------------------------------------------------------
(* What the headers promise of single calls.  All of it holds of a service *)
(* used by one thread at a time, as long as an int can hold the time (run  *)
(* "sequential" and the end of NbUserProofs), whatever replies get lost or *)
(* carry no session.  Other threads break it (run "export_torn").          *)

(* nb_user.h:126-127: Export returns the login of the current user, or     *)
(* nothing; fields may go missing only because the session expired during  *)
(* the export.                                                             *)
ExportIsOne ==
  saved \in issued \cup {EmptySession} \/
  \E s \in issued :
    /\ IsExpired(s.expire_at)
    /\ saved.session_token \in {s.session_token, NoToken}
    /\ saved.expire_at \in {s.expire_at, 0}
    /\ saved.user_entity \in {s.user_entity, NoUser}

(* nb_user.h:137: Import reports an expired session only for a session     *)
(* that has expired.                                                       *)
ExpiredOnlyIfSo ==
  \A t \in Threads :
    result_code[t] = "NB_ERROR_SESSION_EXPIRED" =>
      \E s \in issued : /\ s.session_token = json[t].session_token
                        /\ IsExpired(s.expire_at)

LoggedIn(t) == pc[t] = "return" /\ op[t] = "Login" /\ result_code[t] = "NB_OK"

(* unit_tests/nb_user_test.cc:66: the data of a successful Login is the    *)
(* user who logged in, unless that session has already expired.            *)
LoginReturnsOwn ==
  \A t \in Threads : LoggedIn(t) =>
    \/ json[t].user_entity = user[t]
    \/ IsExpired(json[t].expire_at)
=============================================================================
