------------------------------ MODULE NbService ------------------------------
(***************************************************************************)
(* A service shared by the threads of an application                       *)
(* (src/src/nb_service.cc): the login session, guarded by                  *)
(* session_token_mutex_, the executor pool, and ExecuteCommon, the path    *)
(* every REST call takes:                                                  *)
(*   create  - copy the session token under the lock and build the request *)
(*   pop     - take an executor                                            *)
(*   perform - run the request                                             *)
(*   push    - give the executor back                                      *)
(* The mutexes are held for one of these steps at a time and never across  *)
(* two, so the threads interleave between any two of them.                 *)
(*                                                                         *)
(* The callers of ExecuteCommon (NbUser, and every class that sends        *)
(* requests) start it by setting pc[t] to "create" and go on from "done".  *)
(***************************************************************************)
EXTENDS NbRestExecutorPool, NbSessionToken

CONSTANTS Parameters,   \* the service parameters that are not empty strings
          MaxTime       \* bounds the clock

ASSUME TimeAssumption == MaxTime \in Nat

VARIABLES
  session_token,  \* session_token_, the login session of the service
  pc,             \* pc[t]: where thread t is in the call it makes
  op,             \* op[t]: the operation it calls
  request,        \* request[t]: the session token header of the request
  result_code,    \* result_code[t]: the result of ExecuteCommon, then of op
  json            \* json[t]: the session in the JSON the call works on

callVars    == <<pc, op, request, result_code, json>>
serviceVars == <<session_token, callVars, poolVars, now>>

Operations == {"Request", "Login", "Logout", "Export", "Import"}

Steps == {"idle", "create", "pop", "perform", "push", "done",
          "set", "get", "user", "token", "expire", "return"}

(* NB_ERROR_CURL_RUNTIME stands for every error that libcurl may report.   *)
ResultCodes == {"NB_OK", "NB_ERROR_RESPONSE", "NB_ERROR_CURL_RUNTIME",
                "NB_ERROR_CONNECTION_OVER", "NB_ERROR_INVALID_ARGUMENT",
                "NB_ERROR_NOT_LOGGED_IN", "NB_ERROR_SESSION_EXPIRED",
                "NB_ERROR_ENDPOINT_URL", "NB_ERROR_TENANT_ID",
                "NB_ERROR_APP_ID", "NB_ERROR_APP_KEY", "NB_FATAL"}

ServiceInit ==
  /\ PoolInit
  /\ now = 0
  /\ session_token = EmptySession
  /\ pc = [t \in Threads |-> "idle"]
  /\ op = [t \in Threads |-> "None"]
  /\ request = [t \in Threads |-> NoToken]
  /\ result_code = [t \in Threads |-> "NB_FATAL"]
  /\ json = [t \in Threads |-> EmptySession]

Goto(t, step) == pc' = [pc EXCEPT ![t] = step]

Result(t, code) == result_code' = [result_code EXCEPT ![t] = code]

(* Thread t calls operation o and enters it at the given step, with new    *)
(* locals.  At step "return" the result is in the caller's hands.          *)
Call(t, o, step, code, body) ==
  /\ pc[t] = "idle"
  /\ op' = [op EXCEPT ![t] = o]
  /\ request' = [request EXCEPT ![t] = NoToken]
  /\ json' = [json EXCEPT ![t] = body]
  /\ Result(t, code)
  /\ Goto(t, step)

(* The caller has used the result; the locals of the call are gone.        *)
Return(t) ==
  /\ op' = [op EXCEPT ![t] = "None"]
  /\ request' = [request EXCEPT ![t] = NoToken]
  /\ json' = [json EXCEPT ![t] = EmptySession]
  /\ Result(t, "NB_FATAL")
  /\ Goto(t, "idle")

(* The clock is not under the program's control.                           *)
Tick ==
  /\ now < MaxTime
  /\ now' = now + 1
  /\ UNCHANGED <<session_token, callVars, poolVars>>
-----------------------------------------------------------------------------
(* Bugs the properties are shown to catch, each in the place of the        *)
(* definition named in its comment.                                        *)

(* SessionHeader by the wrong getter.                                      *)
HeaderIsExpiration(t) ==
  IF op[t] = "Login" THEN NoToken ELSE GetExpireAt(session_token)

(* SessionHeader with SessionNone() for both uses of /login.               *)
HeaderNone(t) ==
  IF op[t] \in {"Login", "Logout"} THEN NoToken ELSE GetSessionToken(session_token)

(* TakeExecutor that waits until there is one.                             *)
TakeExecutorWaits(t) ==
  /\ pc[t] = "pop"
  /\ PopRestExecutor(t)
  /\ executor'[t] # NullExecutor
  /\ Goto(t, "perform")
  /\ UNCHANGED <<session_token, op, request, result_code, json, now>>

(* ReturnExecutor after an early return on errors.                         *)
ReturnOnlyOnSuccess(t) ==
  /\ pc[t] = "push"
  /\ \/ result_code[t] = "NB_OK" /\ PushRestExecutor(t)
     \/ result_code[t] # "NB_OK" /\ PushForgotten(t)
     \/ GiveUp(t)
  /\ Goto(t, "done")
  /\ UNCHANGED <<session_token, op, request, result_code, json, now>>
-----------------------------------------------------------------------------
(* NbHttpRequestFactory::CheckParameter: the first empty parameter counts. *)
CheckParameter ==
  CASE "endpoint_url" \notin Parameters -> "NB_ERROR_ENDPOINT_URL"
    [] "endpoint_url" \in Parameters /\ "tenant_id" \notin Parameters
         -> "NB_ERROR_TENANT_ID"
    [] {"endpoint_url", "tenant_id"} \subseteq Parameters
         /\ "app_id" \notin Parameters -> "NB_ERROR_APP_ID"
    [] {"endpoint_url", "tenant_id", "app_id"} \subseteq Parameters
         /\ "app_key" \notin Parameters -> "NB_ERROR_APP_KEY"
    [] OTHER -> "NB_OK"

(* The session header of the request: none after SessionNone(), which only *)
(* Login calls, and none when the factory was given an empty token.        *)
SessionHeader(t) ==
  IF op[t] = "Login" THEN NoToken ELSE GetSessionToken(session_token)

(* GetHttpRequestFactory and create_request, or the factory's error.       *)
CreateRequest(t) ==
  /\ pc[t] = "create"
  /\ \/ /\ CheckParameter = "NB_OK"
        /\ request' = [request EXCEPT ![t] = SessionHeader(t)]
        /\ Goto(t, "pop")
        /\ UNCHANGED result_code
     \/ /\ CheckParameter # "NB_OK"
        /\ Result(t, CheckParameter)
        /\ Goto(t, "done")
        /\ UNCHANGED request
  /\ UNCHANGED <<session_token, op, json, poolVars, now>>

TakeExecutor(t) ==
  /\ pc[t] = "pop"
  /\ PopRestExecutor(t)
  /\ \/ /\ executor'[t] # NullExecutor
        /\ Goto(t, "perform")
        /\ UNCHANGED result_code
     \/ /\ executor'[t] = NullExecutor
        /\ Result(t, "NB_ERROR_CONNECTION_OVER")
        /\ Goto(t, "push")
  /\ UNCHANGED <<session_token, op, request, json, now>>

(* executor_method returns the given result; body is what the JSON of a    *)
(* successful response says of a session.                                  *)
Perform(t, code, body) ==
  /\ pc[t] = "perform"
  /\ Result(t, code)
  /\ json' = [json EXCEPT ![t] = body]
  /\ Goto(t, "push")
  /\ UNCHANGED <<session_token, op, request, poolVars, now>>

(* The executor goes back, or there was none to give back.                 *)
ReturnExecutor(t) ==
  /\ pc[t] = "push"
  /\ PushRestExecutor(t) \/ GiveUp(t)
  /\ Goto(t, "done")
  /\ UNCHANGED <<session_token, op, request, result_code, json, now>>

(* SetSessionToken and ClearSessionToken.                                  *)
SetSessionToken(s) == session_token' = s
ClearSessionToken  == session_token' = EmptySession
-----------------------------------------------------------------------------
ServiceTypeOK ==
  /\ PoolTypeOK
  /\ now \in Nat
  /\ session_token \in NbSessionTokens
  /\ pc \in [Threads -> Steps]
  /\ op \in [Threads -> Operations \cup {"None"}]
  /\ request \in [Threads -> Tokens \cup {NoToken}]
  /\ result_code \in [Threads -> ResultCodes]
  /\ json \in [Threads -> NbSessionTokens]

(* Calls that are using a connection.                                      *)
Connected == {t \in Threads : pc[t] \in {"perform", "push"}
                                /\ result_code[t] # "NB_ERROR_CONNECTION_OVER"}
=============================================================================
