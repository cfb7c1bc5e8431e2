---------------------------- MODULE NbUserProofs ----------------------------
(***************************************************************************)
(* Proofs about NbUser, for every set of threads, tokens and users, every  *)
(* limit of connections, every choice of operations and of faults.         *)
(***************************************************************************)
EXTENDS NbUserRaces, NbRestExecutorPoolProofs

-----------------------------------------------------------------------------
(* The service uses the pool as the pool's own specification allows: what  *)
(* is proved of PoolSpec holds of every service.                           *)

(* The steps that do not touch the pool.                                   *)
LEMMA PoolLeftAlone ==
  ASSUME NEW t \in Threads,
         \/ Start(t) \/ CreateRequest(t) \/ Server(t) \/ EndCall(t)
         \/ LoginSetCurrentUser(t) \/ GetCurrentUser(t) \/ EndLogout(t)
         \/ ExportUser(t) \/ ExportToken(t) \/ ExportExpire(t)
         \/ ImportSetCurrentUser(t)
  PROVE  UNCHANGED poolVars
<1>1. ASSUME Start(t) PROVE UNCHANGED poolVars
  BY <1>1 DEF Start, Request, LoginRefused, Login, LogoutRefused, Logout,
              ExportRefused, Export, Import
<1>2. ASSUME Server(t) PROVE UNCHANGED poolVars
  BY <1>2 DEF Server, ServerFails, ServerLogin, ServerLogout, ServerRequest,
              MalformedReply, Perform
<1>3. ASSUME \/ LoginSetCurrentUser(t) \/ GetCurrentUser(t) \/ EndLogout(t)
             \/ ExportUser(t) \/ ExportToken(t) \/ ImportSetCurrentUser(t)
      PROVE  UNCHANGED poolVars
  BY <1>3 DEF LoginSetCurrentUser, GetCurrentUser, EndLogout, ExportUser,
              ExportToken, ImportSetCurrentUser, Locally
<1>4. ASSUME CreateRequest(t) \/ EndCall(t) \/ ExportExpire(t)
      PROVE  UNCHANGED poolVars
  BY <1>4 DEF CreateRequest, EndCall, ExportExpire
<1> QED BY <1>1, <1>2, <1>3, <1>4

LEMMA PoolStep == [Next]_vars => [PoolNext]_poolVars
<1>1. ASSUME NEW t \in Threads, TakeExecutor(t) \/ ReturnExecutor(t)
      PROVE  PoolNext
  BY <1>1 DEF TakeExecutor, ReturnExecutor, PoolNext
<1>2. ASSUME NEW t \in Threads, Start(t) \/ Step(t)
      PROVE  [PoolNext]_poolVars
  BY <1>1, <1>2, PoolLeftAlone DEF Step, Service
<1>3. ASSUME Tick PROVE UNCHANGED poolVars
  BY <1>3 DEF Tick
<1>4. ASSUME UNCHANGED vars PROVE UNCHANGED poolVars
  BY <1>4 DEF vars, serviceVars
<1> QED BY <1>2, <1>3, <1>4 DEF Next

(* A service with any number of threads implements its pool ...            *)
THEOREM ServiceImplementsPool == Spec => PoolSpec
<1>1. Init => PoolInit
  BY DEF Init, ServiceInit
<1> QED BY <1>1, PoolStep, PTL DEF Spec, PoolSpec

(* ... and so conserves its executors.                                     *)
LEMMA ServicePoolInvariant == Spec => []PoolInv
  BY ServiceImplementsPool, PoolInvariant, PTL
-----------------------------------------------------------------------------
(* Type correctness.                                                       *)
LEMMA GettersType ==
  ASSUME NEW s \in NbSessionTokens, now \in Nat
  PROVE  /\ GetSessionToken(s) \in Tokens \cup {NoToken}
         /\ GetExpireAt(s) \in Int
         /\ GetSessionUserEntity(s) \in Users \cup {NoUser}
  BY DEF NbSessionTokens, GetSessionToken, GetExpireAt, GetSessionUserEntity

LEMMA EmptySessionType == EmptySession \in NbSessionTokens
  BY DEF EmptySession, NbSessionTokens

LEMMA CheckParameterCodes ==
  CheckParameter \in {"NB_OK", "NB_ERROR_ENDPOINT_URL", "NB_ERROR_TENANT_ID",
                      "NB_ERROR_APP_ID", "NB_ERROR_APP_KEY"}
  BY DEF CheckParameter

LEMMA ToIntType == \A n \in Int : ToInt(n) \in Int
  BY NumbersAssumption DEF ToInt

(* What a step does to a function of the threads.                          *)
LEMMA UpdateType ==
  ASSUME NEW S, NEW f \in [Threads -> S], NEW t \in Threads, NEW e \in S
  PROVE  [f EXCEPT ![t] = e] \in [Threads -> S]
  OBVIOUS

LEMMA InitType == Init => TypeOK
<1> SUFFICES ASSUME Init PROVE TypeOK
  OBVIOUS
<1>1. PoolTypeOK
  BY PoolInitInv DEF Init, ServiceInit, PoolInv
<1>2. ServiceTypeOK
  BY <1>1, EmptySessionType
     DEF Init, ServiceInit, ServiceTypeOK, Steps, ResultCodes
<1>3. saved \in NbSessionTokens /\ issued \in SUBSET NbSessionTokens
  <2>1. CASE issued = {} /\ saved = EmptySession
    BY <2>1, EmptySessionType
  <2>2. ASSUME NEW k \in Tokens, NEW u \in Users, NEW e \in Lifetimes,
               saved = [session_token |-> k, expire_at |-> e, user_entity |-> u],
               issued = {saved}
        PROVE  saved \in NbSessionTokens /\ issued \in SUBSET NbSessionTokens
    BY <2>2, NumbersAssumption DEF NbSessionTokens
  <2> QED BY <2>1, <2>2 DEF Init
<1> QED BY <1>2, <1>3 DEF Init, TypeOK

(* The types of the locals of a call, and of everything else that is not   *)
(* in the pool.                                                            *)
LocalTypeOK ==
  /\ pc \in [Threads -> Steps]
  /\ op \in [Threads -> Operations \cup {"None"}]
  /\ request \in [Threads -> Tokens \cup {NoToken}]
  /\ result_code \in [Threads -> ResultCodes]
  /\ json \in [Threads -> NbSessionTokens]

GlobalTypeOK ==
  /\ now \in Nat
  /\ session_token \in NbSessionTokens
  /\ user \in [Threads -> Users \cup {NoUser}]
  /\ saved \in NbSessionTokens
  /\ issued \in SUBSET NbSessionTokens
  /\ ended \in SUBSET Tokens
  /\ imported \in SUBSET (Tokens \cup {NoToken})

LEMMA TypeParts == TypeOK <=> PoolTypeOK /\ LocalTypeOK /\ GlobalTypeOK
  BY DEF TypeOK, ServiceTypeOK, LocalTypeOK, GlobalTypeOK

LEMMA CallType ==
  ASSUME LocalTypeOK, NEW t \in Threads, NEW o \in Operations, NEW p \in Steps,
         NEW c \in ResultCodes, NEW b \in NbSessionTokens, Call(t, o, p, c, b)
  PROVE  LocalTypeOK'
  BY DEF LocalTypeOK, Call, Result, Goto

LEMMA PerformType ==
  ASSUME LocalTypeOK, NEW t \in Threads, NEW c \in ResultCodes,
         NEW b \in NbSessionTokens, Perform(t, c, b)
  PROVE  LocalTypeOK' /\ UNCHANGED <<session_token, now>>
  BY DEF LocalTypeOK, Perform, Result, Goto, Steps

LEMMA StartType ==
  ASSUME LocalTypeOK, GlobalTypeOK, NEW t \in Threads, Start(t)
  PROVE  LocalTypeOK' /\ GlobalTypeOK'
<1> USE DEF Operations, Steps, ResultCodes
<1> USE EmptySessionType
<1>1. ASSUME Request(t) \/ LogoutRefused(t) \/ Logout(t) \/ Export(t)
      PROVE  LocalTypeOK' /\ GlobalTypeOK'
  <2>1. LocalTypeOK'
    BY <1>1, CallType DEF Request, LogoutRefused, Logout, Export
  <2> QED BY <1>1, <2>1 DEF Request, LogoutRefused, Logout, Export,
                            GlobalTypeOK, userVars, serverVars
<1>2. ASSUME LoginRefused(t) \/ Login(t)
      PROVE  LocalTypeOK' /\ GlobalTypeOK'
  <2>1. LocalTypeOK'
    BY <1>2, CallType DEF LoginRefused, Login
  <2>2. user' \in [Threads -> Users \cup {NoUser}]
    BY <1>2 DEF LoginRefused, Login, GlobalTypeOK
  <2> QED BY <1>2, <2>1, <2>2 DEF LoginRefused, Login, GlobalTypeOK, serverVars
<1>3. ASSUME ExportRefused(t)
      PROVE  LocalTypeOK' /\ GlobalTypeOK'
  <2>1. LocalTypeOK'
    BY <1>3, CallType DEF ExportRefused
  <2> QED BY <1>3, <2>1 DEF ExportRefused, GlobalTypeOK, serverVars
<1>4. ASSUME Import(t)
      PROVE  LocalTypeOK' /\ GlobalTypeOK'
  <2>1. ImportCode \in ResultCodes /\ saved \in NbSessionTokens
    BY DEF ImportCode, GlobalTypeOK
  <2>2. LocalTypeOK'
    BY <1>4, <2>1, CallType DEF Import
  <2> QED BY <1>4, <2>2 DEF Import, GlobalTypeOK, userVars, serverVars
<1> QED BY <1>1, <1>2, <1>3, <1>4 DEF Start

LEMMA ServerType ==
  ASSUME LocalTypeOK, GlobalTypeOK, NEW t \in Threads, Server(t)
  PROVE  LocalTypeOK' /\ GlobalTypeOK'
<1> USE DEF ResultCodes
<1> USE EmptySessionType
<1>1. ASSUME ServerFails(t) \/ ServerRequest(t) \/ MalformedReply(t)
      PROVE  LocalTypeOK' /\ GlobalTypeOK'
  <2>1. LocalTypeOK' /\ UNCHANGED <<session_token, now>>
    BY <1>1, PerformType DEF ServerFails, ServerRequest, MalformedReply
  <2> QED BY <1>1, <2>1 DEF Server, ServerFails, ServerRequest, MalformedReply,
                            GlobalTypeOK, userVars, serverVars
<1>2. ASSUME ServerLogin(t)
      PROVE  LocalTypeOK' /\ GlobalTypeOK'
  <2>1. PICK k \in Unused, d \in Lifetimes :
          LET s == [session_token |-> k, expire_at |-> now + d,
                    user_entity |-> user[t]]
          IN  /\ issued' = issued \cup {s}
              /\ \/ Perform(t, "NB_OK", s)
                 \/ Perform(t, "NB_ERROR_CURL_RUNTIME", EmptySession)
    BY <1>2 DEF ServerLogin
  <2> DEFINE s == [session_token |-> k, expire_at |-> now + d,
                   user_entity |-> user[t]]
  <2>2. s \in NbSessionTokens
    BY NumbersAssumption DEF Unused, GlobalTypeOK, NbSessionTokens
  <2>3. LocalTypeOK' /\ UNCHANGED <<session_token, now>>
    BY <2>1, <2>2, PerformType
  <2> QED BY <1>2, <2>1, <2>2, <2>3 DEF ServerLogin, Server, GlobalTypeOK, userVars
<1>3. ASSUME ServerLogout(t)
      PROVE  LocalTypeOK' /\ GlobalTypeOK'
  <2>1. LocalTypeOK' /\ UNCHANGED <<session_token, now>>
    BY <1>3, PerformType DEF ServerLogout
  <2>2. ended' \in SUBSET Tokens
    BY <1>3 DEF ServerLogout, LocalTypeOK, GlobalTypeOK
  <2> QED BY <1>3, <2>1, <2>2 DEF ServerLogout, Server, GlobalTypeOK, userVars
<1> QED BY <1>1, <1>2, <1>3 DEF Server

LEMMA ServiceStepType ==
  ASSUME LocalTypeOK, GlobalTypeOK, NEW t \in Threads, Service(t)
  PROVE  LocalTypeOK' /\ GlobalTypeOK'
<1>1. GlobalTypeOK'
  BY DEF Service, CreateRequest, TakeExecutor, ReturnExecutor, GlobalTypeOK,
         userVars, serverVars
<1>2. ASSUME CreateRequest(t) PROVE LocalTypeOK'
  <2>1. SessionHeader(t) \in Tokens \cup {NoToken}
    BY GettersType DEF SessionHeader, GlobalTypeOK
  <2>2. CheckParameter \in ResultCodes
    BY CheckParameterCodes DEF ResultCodes
  <2> QED BY <1>2, <2>1, <2>2
         DEF CreateRequest, Goto, Result, LocalTypeOK, Steps
<1>3. ASSUME TakeExecutor(t) \/ ReturnExecutor(t) PROVE LocalTypeOK'
  BY <1>3 DEF TakeExecutor, ReturnExecutor, Goto, Result, LocalTypeOK, Steps,
              ResultCodes
<1> QED BY <1>1, <1>2, <1>3 DEF Service

LEMMA LocalStepType ==
  ASSUME LocalTypeOK, GlobalTypeOK, NEW t \in Threads,
         \/ EndCall(t) \/ LoginSetCurrentUser(t) \/ GetCurrentUser(t)
         \/ EndLogout(t) \/ ExportUser(t) \/ ExportToken(t) \/ ExportExpire(t)
         \/ ImportSetCurrentUser(t)
  PROVE  LocalTypeOK' /\ GlobalTypeOK'
<1> USE DEF Goto, Steps
<1> USE EmptySessionType
<1>0. json[t] \in NbSessionTokens
  BY DEF LocalTypeOK
<1>1. ASSUME EndCall(t) PROVE LocalTypeOK' /\ GlobalTypeOK'
  BY <1>1 DEF EndCall, Return, Result, LocalTypeOK, GlobalTypeOK, ResultCodes,
              serverVars
<1>2. ASSUME LoginSetCurrentUser(t) \/ EndLogout(t)
      PROVE  LocalTypeOK' /\ GlobalTypeOK'
  BY <1>0, <1>2 DEF LoginSetCurrentUser, EndLogout, SetSessionToken,
       ClearSessionToken, Locally, LocalTypeOK, GlobalTypeOK, serverVars
<1>3. ASSUME GetCurrentUser(t) \/ ExportUser(t)
      PROVE  LocalTypeOK' /\ GlobalTypeOK'
  <2>1. json' \in [Threads -> NbSessionTokens]
    <3> DEFINE u == GetSessionUserEntity(session_token)
    <3>1. u \in Users \cup {NoUser}
      BY GettersType DEF GlobalTypeOK
    <3>2. json' = [json EXCEPT ![t].user_entity = u]
      BY <1>3 DEF GetCurrentUser, ExportUser
    <3> HIDE DEF u
    <3> QED BY <1>0, <3>1, <3>2 DEF LocalTypeOK, NbSessionTokens
  <2> QED BY <1>3, <2>1 DEF GetCurrentUser, ExportUser, Locally, LocalTypeOK,
                            GlobalTypeOK, serverVars
<1>4. ASSUME ExportToken(t) PROVE LocalTypeOK' /\ GlobalTypeOK'
  <2>1. json' \in [Threads -> NbSessionTokens]
    <3> DEFINE k == GetSessionToken(session_token)
    <3>1. k \in Tokens \cup {NoToken}
      BY GettersType DEF GlobalTypeOK
    <3>2. json' = [json EXCEPT ![t].session_token = k]
      BY <1>4 DEF ExportToken
    <3> HIDE DEF k
    <3> QED BY <1>0, <3>1, <3>2 DEF LocalTypeOK, NbSessionTokens
  <2> QED BY <1>4, <2>1 DEF ExportToken, Locally, LocalTypeOK, GlobalTypeOK,
                            serverVars
<1>5. ASSUME ExportExpire(t) PROVE LocalTypeOK' /\ GlobalTypeOK'
  <2>1. saved' \in NbSessionTokens
    <3> DEFINE n == ToInt(GetExpireAt(session_token))
    <3>1. n \in Int
      BY GettersType, ToIntType DEF GlobalTypeOK
    <3>2. saved' = [json[t] EXCEPT !.expire_at = n]
      BY <1>5 DEF ExportExpire
    <3> HIDE DEF n
    <3> QED BY <1>0, <3>1, <3>2 DEF NbSessionTokens
  <2> QED BY <1>5, <2>1 DEF ExportExpire, LocalTypeOK, GlobalTypeOK, serverVars
<1>6. ASSUME ImportSetCurrentUser(t) PROVE LocalTypeOK' /\ GlobalTypeOK'
  <2>1. json[t].session_token \in Tokens \cup {NoToken}
    BY <1>0 DEF NbSessionTokens
  <2> QED BY <1>0, <1>6, <2>1 DEF ImportSetCurrentUser, SetSessionToken, Locally,
                                  LocalTypeOK, GlobalTypeOK, serverVars
<1> QED BY <1>1, <1>2, <1>3, <1>4, <1>5, <1>6

LEMMA NextType ==
  LocalTypeOK /\ GlobalTypeOK /\ [Next]_vars => LocalTypeOK' /\ GlobalTypeOK'
<1> SUFFICES ASSUME LocalTypeOK, GlobalTypeOK, [Next]_vars
             PROVE  LocalTypeOK' /\ GlobalTypeOK'
  OBVIOUS
<1>1. ASSUME NEW t \in Threads, Start(t) \/ Step(t)
      PROVE  LocalTypeOK' /\ GlobalTypeOK'
  BY <1>1, StartType, ServerType, ServiceStepType, LocalStepType DEF Step
<1>2. ASSUME Tick, UNCHANGED <<userVars, serverVars>>
      PROVE  LocalTypeOK' /\ GlobalTypeOK'
  BY <1>2 DEF Tick, LocalTypeOK, GlobalTypeOK, callVars, userVars, serverVars
<1>3. ASSUME UNCHANGED vars PROVE LocalTypeOK' /\ GlobalTypeOK'
  BY <1>3 DEF vars, serviceVars, callVars, userVars, serverVars, LocalTypeOK,
              GlobalTypeOK
<1> QED BY <1>1, <1>2, <1>3 DEF Next

(* The type invariant, for a service of any size.                          *)
THEOREM TypeCorrect == Spec => []TypeOK
<1>1. Init => LocalTypeOK /\ GlobalTypeOK
  BY InitType, TypeParts
<1>2. Spec => [](LocalTypeOK /\ GlobalTypeOK)
  BY <1>1, NextType, PTL DEF Spec
<1>3. PoolInv => PoolTypeOK
  BY DEF PoolInv
<1> QED BY <1>2, <1>3, ServicePoolInvariant, TypeParts, PTL
-----------------------------------------------------------------------------
(* A step of one thread leaves the locals of every other alone.            *)
LEMMA OthersLocals ==
  ASSUME LocalTypeOK, GlobalTypeOK, PoolTypeOK,
         NEW t \in Threads, Start(t) \/ Step(t),
         NEW u \in Threads, u # t
  PROVE  /\ pc'[u] = pc[u] /\ op'[u] = op[u] /\ request'[u] = request[u]
         /\ result_code'[u] = result_code[u] /\ json'[u] = json[u]
         /\ user'[u] = user[u] /\ executor'[u] = executor[u]
<1> USE DEF LocalTypeOK, GlobalTypeOK, PoolTypeOK, Goto, Result
<1>1. ASSUME Start(t)
      PROVE  /\ pc'[u] = pc[u] /\ op'[u] = op[u] /\ request'[u] = request[u]
             /\ result_code'[u] = result_code[u] /\ json'[u] = json[u]
             /\ user'[u] = user[u]
  BY <1>1 DEF Start, Request, LoginRefused, Login, LogoutRefused, Logout,
              ExportRefused, Export, Import, Call, userVars
<1>2. ASSUME Server(t)
      PROVE  /\ pc'[u] = pc[u] /\ op'[u] = op[u] /\ request'[u] = request[u]
             /\ result_code'[u] = result_code[u] /\ json'[u] = json[u]
             /\ user'[u] = user[u]
  BY <1>2 DEF Server, ServerFails, ServerLogin, ServerLogout, ServerRequest,
              MalformedReply, Perform, userVars
<1>3. ASSUME Service(t)
      PROVE  /\ pc'[u] = pc[u] /\ op'[u] = op[u] /\ request'[u] = request[u]
             /\ result_code'[u] = result_code[u] /\ json'[u] = json[u]
             /\ user'[u] = user[u]
  BY <1>3 DEF Service, CreateRequest, TakeExecutor, ReturnExecutor, userVars
<1>4. ASSUME \/ LoginSetCurrentUser(t) \/ EndLogout(t) \/ ImportSetCurrentUser(t)
             \/ ExportExpire(t)
      PROVE  /\ pc'[u] = pc[u] /\ op'[u] = op[u] /\ request'[u] = request[u]
             /\ result_code'[u] = result_code[u] /\ json'[u] = json[u]
             /\ user'[u] = user[u]
  BY <1>4 DEF LoginSetCurrentUser, EndLogout, ImportSetCurrentUser,
              ExportExpire, Locally
<1>5. ASSUME EndCall(t)
      PROVE  /\ pc'[u] = pc[u] /\ op'[u] = op[u] /\ request'[u] = request[u]
             /\ result_code'[u] = result_code[u] /\ json'[u] = json[u]
             /\ user'[u] = user[u]
  BY <1>5 DEF EndCall, Return
<1>6. ASSUME GetCurrentUser(t) \/ ExportUser(t) \/ ExportToken(t)
      PROVE  /\ pc'[u] = pc[u] /\ op'[u] = op[u] /\ request'[u] = request[u]
             /\ result_code'[u] = result_code[u] /\ json'[u] = json[u]
             /\ user'[u] = user[u]
  BY <1>6 DEF GetCurrentUser, ExportUser, ExportToken, Locally
<1>7. executor'[u] = executor[u]
  <2>1. ASSUME TakeExecutor(t) \/ ReturnExecutor(t)
        PROVE  executor'[u] = executor[u]
    BY <2>1 DEF TakeExecutor, ReturnExecutor, PopRestExecutor, PopIdle, PopNew,
                PopNull, PushRestExecutor, GiveUp
  <2> QED BY <2>1, PoolLeftAlone DEF Step, Service, poolVars
<1> QED BY <1>1, <1>2, <1>3, <1>4, <1>5, <1>6, <1>7 DEF Step
-----------------------------------------------------------------------------
(* Connections.  What a call holds follows from where it is: an executor   *)
(* between pop and push, nothing elsewhere, and nullptr only on the way    *)
(* out of a call that was told NB_ERROR_CONNECTION_OVER.                   *)
UseOK(t) ==
  /\ pc[t] \in {"create", "pop"} => result_code[t] = "NB_FATAL"
  /\ pc[t] = "perform" => /\ executor[t] \in Executors
                          /\ result_code[t] # "NB_ERROR_CONNECTION_OVER"
  /\ pc[t] = "push" /\ result_code[t] = "NB_ERROR_CONNECTION_OVER"
       => executor[t] = NullExecutor
  /\ pc[t] = "push" /\ result_code[t] # "NB_ERROR_CONNECTION_OVER"
       => executor[t] \in Executors
  /\ pc[t] \notin {"perform", "push"} => executor[t] = NoExecutor

UseInv == \A t \in Threads : UseOK(t)

LEMMA PopAnswers ==
  ASSUME PoolInv, NEW t \in Threads, PopRestExecutor(t)
  PROVE  \E e \in Executors \cup {NullExecutor} :
           executor' = [executor EXCEPT ![t] = e]
<1>1. CASE PopIdle(t)
  BY <1>1, PoppedStack DEF PopIdle, PoolInv, PoolTypeOK
<1>2. CASE PopNew(t)
  <2>1. HttpConnectionMax - creatable_num + 1 \in Executors
    BY <1>2, MaxAssumption DEF PopNew, PoolInv, PoolTypeOK, Executors
  <2> QED BY <1>2, <2>1 DEF PopNew
<1>3. CASE PopNull(t)
  BY <1>3 DEF PopNull
<1> QED BY <1>1, <1>2, <1>3 DEF PopRestExecutor

LEMMA UseOfActor ==
  ASSUME PoolInv, LocalTypeOK, GlobalTypeOK, NEW t \in Threads, UseOK(t),
         Start(t) \/ Step(t)
  PROVE  UseOK(t)'
<1> USE DEF LocalTypeOK, PoolInv, PoolTypeOK, UseOK, Goto, Result
<1>1. CASE Start(t)
  <2>1. executor' = executor
    BY <1>1, PoolLeftAlone DEF poolVars
  <2>2. ImportCode # "NB_FATAL"
    BY DEF ImportCode
  <2> QED BY <1>1, <2>1 DEF Start, Request, LoginRefused, Login, LogoutRefused,
            Logout, ExportRefused, Export, Import, Call
<1>2. CASE Server(t)
  <2>1. executor' = executor
    BY <1>2, PoolLeftAlone DEF poolVars
  <2> QED BY <1>2, <2>1 DEF Server, ServerFails, ServerLogin, ServerLogout,
            ServerRequest, MalformedReply, Perform
<1>3. CASE CreateRequest(t)
  BY <1>3 DEF CreateRequest, poolVars
<1>4. CASE TakeExecutor(t)
  <2>1. PICK e \in Executors \cup {NullExecutor} :
          executor' = [executor EXCEPT ![t] = e]
    BY <1>4, PopAnswers DEF TakeExecutor
  <2> QED BY <1>4, <2>1 DEF TakeExecutor, Executors, NullExecutor
<1>5. CASE ReturnExecutor(t)
  <2>1. executor' = [executor EXCEPT ![t] = NoExecutor]
    BY <1>5 DEF ReturnExecutor, PushRestExecutor, GiveUp
  <2> QED BY <1>5, <2>1 DEF ReturnExecutor
<1>6. CASE \/ LoginSetCurrentUser(t) \/ EndLogout(t) \/ ImportSetCurrentUser(t)
           \/ GetCurrentUser(t) \/ ExportUser(t) \/ ExportToken(t)
           \/ ExportExpire(t) \/ EndCall(t)
  <2>1. executor' = executor
    BY <1>6, PoolLeftAlone DEF poolVars
  <2> QED BY <1>6, <2>1 DEF LoginSetCurrentUser, EndLogout,
            ImportSetCurrentUser, GetCurrentUser, ExportUser, ExportToken,
            ExportExpire, EndCall, Finished, Return, Locally
<1> QED BY <1>1, <1>2, <1>3, <1>4, <1>5, <1>6 DEF Step, Service

LEMMA UseStep ==
  PoolInv /\ LocalTypeOK /\ GlobalTypeOK /\ UseInv /\ [Next]_vars => UseInv'
<1> SUFFICES ASSUME PoolInv, LocalTypeOK, GlobalTypeOK, UseInv, [Next]_vars
             PROVE  UseInv'
  OBVIOUS
<1>1. ASSUME NEW t \in Threads, Start(t) \/ Step(t) PROVE UseInv'
  <2>1. UseOK(t)'
    BY <1>1, UseOfActor DEF UseInv
  <2>2. ASSUME NEW u \in Threads, u # t PROVE UseOK(u)'
    BY <1>1, <2>2, OthersLocals DEF UseInv, UseOK, PoolInv
  <2> QED BY <2>1, <2>2 DEF UseInv
<1>2. ASSUME Tick \/ UNCHANGED vars PROVE UseInv'
  BY <1>2 DEF Tick, vars, serviceVars, callVars, poolVars, UseInv, UseOK
<1> QED BY <1>1, <1>2 DEF Next

(* The types, the pool and the use made of it, together.                   *)
BaseInv == PoolInv /\ LocalTypeOK /\ GlobalTypeOK /\ UseInv

LEMMA BaseInvariant == Spec => []BaseInv
<1>1. ASSUME Init, NEW t \in Threads PROVE UseOK(t)
  <2>1. pc[t] = "idle" /\ executor[t] = NoExecutor
    BY <1>1 DEF Init, ServiceInit, PoolInit
  <2> QED BY <2>1 DEF UseOK
<1>2. Init => LocalTypeOK /\ GlobalTypeOK
  BY InitType, TypeParts
<1>3. Init => LocalTypeOK /\ GlobalTypeOK /\ UseInv
  BY <1>1, <1>2 DEF UseInv
<1>4. Spec => [](PoolInv /\ LocalTypeOK /\ GlobalTypeOK /\ UseInv)
  BY <1>3, NextType, UseStep, ServicePoolInvariant, PTL DEF Spec
<1> QED BY <1>4 DEF BaseInv

LEMMA ConnectedHold ==
  ASSUME LocalTypeOK, UseInv PROVE Connected = Holders
<1>1. ASSUME NEW t \in Threads
      PROVE  t \in Connected <=> executor[t] \in Executors
  BY DEF UseInv, UseOK, Connected, Executors, NoExecutor, NullExecutor
<1> QED BY <1>1 DEF Connected, Holders

(* A call is told NB_ERROR_CONNECTION_OVER only when HttpConnectionMax     *)
(* others are using a connection, for any number of threads.               *)
THEOREM OverOnlyWhenFull == Spec => OverOnlyAtLimit
<1> DEFINE Told ==
      \A t \in Threads :
        result_code'[t] = "NB_ERROR_CONNECTION_OVER" /\ result_code'[t] # result_code[t]
          => Cardinality(Connected) = HttpConnectionMax
<1>1. ASSUME BaseInv, Next PROVE Told
  <2> SUFFICES ASSUME NEW t \in Threads,
                      result_code'[t] = "NB_ERROR_CONNECTION_OVER",
                      result_code'[t] # result_code[t]
               PROVE  Cardinality(Connected) = HttpConnectionMax
    OBVIOUS
  <2> USE <1>1 DEF BaseInv, LocalTypeOK
  <2>1. Start(t) \/ Step(t)
    <3>1. ASSUME NEW u \in Threads, Start(u) \/ Step(u) PROVE u = t
      BY <3>1, OthersLocals DEF PoolInv
    <3>2. ~Tick
      BY DEF Tick, callVars
    <3> QED BY <3>1, <3>2 DEF Next
  <2>2. TakeExecutor(t)
    <3> USE DEF Goto, Result
    <3>1. ~Start(t)
      BY DEF Start, Request, LoginRefused, Login, LogoutRefused, Logout,
             ExportRefused, Export, Import, ImportCode, Call
    <3>2. ~Server(t)
      BY DEF Server, ServerFails, ServerLogin, ServerLogout, ServerRequest,
             MalformedReply, Perform
    <3>3. ~CreateRequest(t)
      BY CheckParameterCodes DEF CreateRequest
    <3>4. ~ReturnExecutor(t) /\ ~EndCall(t)
      BY DEF ReturnExecutor, EndCall, Return
    <3>5. /\ ~LoginSetCurrentUser(t) /\ ~EndLogout(t) /\ ~ImportSetCurrentUser(t)
          /\ ~GetCurrentUser(t) /\ ~ExportUser(t) /\ ~ExportToken(t)
          /\ ~ExportExpire(t)
      BY DEF LoginSetCurrentUser, EndLogout, ImportSetCurrentUser,
             GetCurrentUser, ExportUser, ExportToken, ExportExpire
    <3> QED BY <2>1, <3>1, <3>2, <3>3, <3>4, <3>5 DEF Step, Service
  <2>3. idle_stack = <<>> /\ creatable_num <= 0 /\ ~destroyed
    <3>1. PopRestExecutor(t) /\ executor'[t] = NullExecutor
      BY <2>2 DEF TakeExecutor
    <3>2. PopNull(t)
      <4>1. ASSUME PopIdle(t) PROVE executor'[t] \in Executors
        BY <4>1, PoppedStack DEF PopIdle, PoolInv, PoolTypeOK
      <4>2. ASSUME PopNew(t) PROVE executor'[t] \in Executors
        BY <4>2, MaxAssumption DEF PopNew, PoolInv, PoolTypeOK, Executors
      <4> QED BY <3>1, <4>1, <4>2
             DEF PopRestExecutor, Executors, NullExecutor
    <3> QED BY <3>1, <3>2 DEF PopRestExecutor, PopNull
  <2>4. Cardinality(Limiter!Granted) = HttpConnectionMax
    BY <2>3, RoomLeft
  <2>5. Limiter!Granted = Connected
    BY GrantedIsHolders, ConnectedHold DEF PoolInv
  <2> QED BY <2>4, <2>5
<1>2. BaseInv /\ [Next]_vars => [Told]_vars
  BY <1>1
<1> HIDE DEF Told
<1>3. Spec => [][Told]_vars
  BY <1>2, BaseInvariant, PTL DEF Spec
<1> QED BY <1>3 DEF Told, OverOnlyAtLimit
-----------------------------------------------------------------------------
(* What a call has been told, by where it is.                              *)
ToldOK(t) ==
  /\ pc[t] \in {"push", "done"} => result_code[t] # "NB_FATAL"
  /\ pc[t] = "set" => op[t] = "Import" /\ result_code[t] = "NB_OK"
  /\ pc[t] = "get" => op[t] = "Login"
  /\ pc[t] \in {"user", "token", "expire"} => op[t] = "Export"
  /\ op[t] = "Logout" /\ pc[t] \in {"push", "done", "return"}
       => (result_code[t] = "NB_OK" => request[t] \in ended)
  /\ CheckParameter # "NB_OK" =>
       /\ pc[t] \notin {"pop", "perform", "push"}
       /\ pc[t] = "done" => result_code[t] = CheckParameter

ToldInv == \A t \in Threads : ToldOK(t)

LEMMA EndedGrows == BaseInv /\ [Next]_vars => ended \subseteq ended'
<1>1. ASSUME NEW t \in Threads, Start(t) PROVE ended' = ended
  BY <1>1 DEF Start, Request, LoginRefused, Login, LogoutRefused, Logout,
              ExportRefused, Export, Import, serverVars
<1>2. ASSUME NEW t \in Threads, Server(t) PROVE ended \subseteq ended'
  BY <1>2 DEF Server, ServerFails, ServerLogin, ServerLogout, ServerRequest,
              MalformedReply, serverVars
<1>3. ASSUME NEW t \in Threads, Step(t), ~Server(t) PROVE ended' = ended
  BY <1>3 DEF Step, Service, EndCall, LoginSetCurrentUser, GetCurrentUser,
              EndLogout, ExportUser, ExportToken, ExportExpire,
              ImportSetCurrentUser, Locally, serverVars
<1> QED BY <1>1, <1>2, <1>3 DEF Next, vars, serverVars

LEMMA ToldOfActor ==
  ASSUME BaseInv, NEW t \in Threads, ToldOK(t), Start(t) \/ Step(t)
  PROVE  ToldOK(t)'
<1> USE CheckParameterCodes DEF BaseInv, LocalTypeOK, ToldOK, Goto, Result
<1>1. CASE Start(t)
  <2>1. ImportCode = "NB_OK" \/ ImportCode # "NB_OK"
    OBVIOUS
  <2> QED BY <1>1, <2>1 DEF Start, Request, LoginRefused, Login,
            LogoutRefused, Logout, ExportRefused, Export, Import, Call
<1>2. CASE Server(t)
  BY <1>2 DEF Server, ServerFails, ServerLogin, ServerLogout, ServerRequest,
              MalformedReply, Perform, serverVars
<1>3. CASE Service(t)
  <2>1. result_code[t] # "NB_OK" \/ pc[t] = "push"
    BY <1>3 DEF Service, CreateRequest, TakeExecutor, ReturnExecutor, UseInv,
                UseOK
  <2> QED BY <1>3, <2>1 DEF Service, CreateRequest, TakeExecutor,
                            ReturnExecutor, serverVars
<1>4. CASE \/ LoginSetCurrentUser(t) \/ EndLogout(t) \/ ImportSetCurrentUser(t)
           \/ GetCurrentUser(t) \/ ExportUser(t) \/ ExportToken(t)
           \/ ExportExpire(t) \/ EndCall(t)
  BY <1>4 DEF LoginSetCurrentUser, EndLogout, ImportSetCurrentUser,
            GetCurrentUser, ExportUser, ExportToken, ExportExpire, EndCall,
            Return, Locally, serverVars
<1> QED BY <1>1, <1>2, <1>3, <1>4 DEF Step

LEMMA ToldStep == BaseInv /\ ToldInv /\ [Next]_vars => ToldInv'
<1> SUFFICES ASSUME BaseInv, ToldInv, [Next]_vars PROVE ToldInv'
  OBVIOUS
<1>0. ended \subseteq ended'
  BY EndedGrows
<1>1. ASSUME NEW t \in Threads, Start(t) \/ Step(t) PROVE ToldInv'
  <2>1. ToldOK(t)'
    BY <1>1, ToldOfActor DEF ToldInv
  <2>2. ASSUME NEW u \in Threads, u # t PROVE ToldOK(u)'
    BY <1>0, <1>1, <2>2, OthersLocals DEF BaseInv, PoolInv, ToldInv, ToldOK
  <2> QED BY <2>1, <2>2 DEF ToldInv
<1>2. ASSUME Tick \/ UNCHANGED vars PROVE ToldInv'
  BY <1>0, <1>2 DEF Tick, vars, serviceVars, callVars, ToldInv, ToldOK
<1> QED BY <1>1, <1>2 DEF Next

LEMMA ToldInvariant == Spec => [](BaseInv /\ ToldInv)
<1>1. ASSUME Init, NEW t \in Threads PROVE ToldOK(t)
  <2>1. pc[t] = "idle"
    BY <1>1 DEF Init, ServiceInit
  <2> QED BY <2>1 DEF ToldOK
<1>2. Init => ToldInv
  BY <1>1 DEF ToldInv
<1> QED BY <1>2, ToldStep, BaseInvariant, PTL DEF Spec

(* A logout that reports success has ended a session at the server.        *)
THEOREM LogoutOkHasEnded == Spec => []LogoutOkEnded
<1>1. ToldInv => LogoutOkEnded
  BY DEF ToldInv, ToldOK, LogoutOkEnded
<1> QED BY <1>1, ToldInvariant, PTL

(* A service with an empty required parameter sends nothing.               *)
THEOREM NothingSentUnconfigured == Spec => []NothingSent
<1>1. ~(RequiredParameters \subseteq Parameters)
        => CheckParameter \in ParameterErrors
  BY DEF CheckParameter, RequiredParameters, ParameterErrors
<1>2. "NB_OK" \notin ParameterErrors
  BY DEF ParameterErrors
<1>3. BaseInv /\ ToldInv => NothingSent
  BY <1>1, <1>2 DEF BaseInv, ToldInv, ToldOK, UseInv, UseOK, NothingSent
<1> QED BY <1>3, ToldInvariant, PTL

(* The session changes only by a login that succeeded, a logout that got   *)
(* its result, or an import of a valid string.                             *)
THEOREM SessionKept == Spec => KeptUntil
<1> DEFINE Kept ==
      session_token' # session_token =>
        \E t \in Threads :
          /\ pc'[t] # pc[t]
          /\ \/ op[t] = "Login" /\ result_code[t] = "NB_OK"
             \/ op[t] = "Logout" /\ result_code[t] # "NB_FATAL"
             \/ op[t] = "Import" /\ result_code[t] = "NB_OK"
<1>1. ASSUME BaseInv, ToldInv, Next PROVE Kept
  <2> USE <1>1 DEF BaseInv, LocalTypeOK, ToldInv, ToldOK, Goto
  <2>1. ASSUME NEW t \in Threads, LoginSetCurrentUser(t) PROVE Kept
    BY <2>1 DEF LoginSetCurrentUser, Locally
  <2>2. ASSUME NEW t \in Threads, EndLogout(t) PROVE Kept
    BY <2>2 DEF EndLogout, Locally
  <2>3. ASSUME NEW t \in Threads, ImportSetCurrentUser(t) PROVE Kept
    BY <2>3 DEF ImportSetCurrentUser, Locally
  <2>4. ASSUME NEW t \in Threads, Start(t) PROVE session_token' = session_token
    BY <2>4 DEF Start, Request, LoginRefused, Login, LogoutRefused, Logout,
                ExportRefused, Export, Import
  <2>5. ASSUME NEW t \in Threads, Service(t) \/ Server(t)
        PROVE  session_token' = session_token
    BY <2>5 DEF Service, CreateRequest, TakeExecutor, ReturnExecutor, Server,
                ServerFails, ServerLogin, ServerLogout, ServerRequest,
                MalformedReply, Perform
  <2>6. ASSUME NEW t \in Threads,
               \/ GetCurrentUser(t) \/ ExportUser(t) \/ ExportToken(t)
               \/ ExportExpire(t) \/ EndCall(t)
        PROVE  session_token' = session_token
    BY <2>6 DEF GetCurrentUser, ExportUser, ExportToken, ExportExpire, EndCall
  <2>7. ASSUME Tick PROVE session_token' = session_token
    BY <2>7 DEF Tick
  <2> HIDE DEF Kept
  <2>8. ASSUME session_token' = session_token PROVE Kept
    BY <2>8 DEF Kept
  <2> QED BY <2>1, <2>2, <2>3, <2>4, <2>5, <2>6, <2>7, <2>8 DEF Next, Step
<1>2. BaseInv /\ ToldInv /\ [Next]_vars => [Kept]_vars
  BY <1>1
<1> HIDE DEF Kept
<1>3. Spec => [][Kept]_vars
  BY <1>2, ToldInvariant, PTL DEF Spec
<1> QED BY <1>3 DEF Kept, KeptUntil
-----------------------------------------------------------------------------
(* How session tokens move.  The server gives each login a token nobody    *)
(* knows; from the reply it goes to the service, and from there to the     *)
(* requests and the exported strings of other calls.  EndedOnlyWhileLogout *)
(* holds because a token that is still on its way to the service cannot be *)
(* in a logout's request, so it cannot have been ended yet.                *)
Replied(t) ==
  op[t] = "Login" /\ pc[t] \in {"push", "done"} /\ result_code[t] = "NB_OK"

Known ==
  /\ session_token.session_token \notin Unused
  /\ saved.session_token \notin Unused
  /\ ended \cap Unused = {}
  /\ \A t \in Threads : /\ request[t] \notin Unused
                        /\ json[t].session_token \notin Unused

FreshFor(t, k) ==
  /\ k \notin ended
  /\ session_token.session_token # k
  /\ saved.session_token # k
  /\ \A u \in Threads : request[u] # k
  /\ \A u \in Threads \ {t} : json[u].session_token # k

Fresh ==
  \A t \in Threads : Replied(t) /\ json[t].session_token # NoToken
                       => FreshFor(t, json[t].session_token)

(* The step of a call that is not the server's answer to a login copies    *)
(* tokens from one place to another.                                       *)
Copies(t) ==
  /\ issued' = issued
  /\ json'[t].session_token \in {json[t].session_token, NoToken,
                                 session_token.session_token, saved.session_token}
  /\ request'[t] \in {request[t], NoToken, session_token.session_token}
  /\ session_token'.session_token \in {session_token.session_token, NoToken,
                                       json[t].session_token}
  /\ saved'.session_token \in {saved.session_token, NoToken, json[t].session_token}
  /\ ended' \subseteq ended \cup ({request[t]} \cap Tokens)
  /\ Replied(t)' => \/ json'[t].session_token = NoToken
                    \/ /\ Replied(t) /\ json'[t] = json[t]
                       /\ UNCHANGED <<session_token, saved, ended, request>>

LEMMA StartCopies ==
  ASSUME BaseInv, NEW t \in Threads, Start(t) PROVE Copies(t)
<1> USE DEF BaseInv, LocalTypeOK, Goto, Result
<1>1. pc'[t] \notin {"push", "done"}
  BY DEF Start, Request, LoginRefused, Login, LogoutRefused, Logout,
         ExportRefused, Export, Import, Call
<1>2. request'[t] = NoToken /\ UNCHANGED <<session_token, issued, ended>>
  BY DEF Start, Request, LoginRefused, Login, LogoutRefused, Logout,
         ExportRefused, Export, Import, Call, serverVars
<1>3. json'[t] = EmptySession \/ json'[t] = saved
  BY DEF Start, Request, LoginRefused, Login, LogoutRefused, Logout,
         ExportRefused, Export, Import, Call
<1>4. saved' = saved \/ saved' = EmptySession
  BY DEF Start, Request, LoginRefused, Login, LogoutRefused, Logout,
         ExportRefused, Export, Import, userVars
<1>5. EmptySession.session_token = NoToken
  BY DEF EmptySession
<1> QED BY <1>1, <1>2, <1>3, <1>4, <1>5 DEF Copies, Replied

LEMMA ServerCopies ==
  ASSUME BaseInv, NEW t \in Threads, Server(t), ~ServerLogin(t)
  PROVE  Copies(t)
<1> USE DEF BaseInv, LocalTypeOK, Goto, Result
<1>1. EmptySession.session_token = NoToken
  BY DEF EmptySession
<1>2. json'[t] = EmptySession
  BY DEF Server, ServerFails, ServerLogout, ServerRequest, MalformedReply,
         Perform
<1>3. UNCHANGED <<session_token, saved, request, issued>>
  BY DEF Server, ServerFails, ServerLogout, ServerRequest, MalformedReply,
         Perform, serverVars, userVars
<1>4. ended' \subseteq ended \cup ({request[t]} \cap Tokens)
  BY DEF Server, ServerFails, ServerLogout, ServerRequest, MalformedReply,
         serverVars
<1> QED BY <1>1, <1>2, <1>3, <1>4 DEF Copies

LEMMA ServiceCopies ==
  ASSUME BaseInv, NEW t \in Threads, Service(t) PROVE Copies(t)
<1> USE DEF BaseInv, LocalTypeOK, Goto, Result
<1>1. UNCHANGED <<session_token, saved, issued, ended, json, op>>
  BY DEF Service, CreateRequest, TakeExecutor, ReturnExecutor, userVars,
         serverVars
<1>2. CASE CreateRequest(t)
  <2>1. SessionHeader(t) \in {NoToken, session_token.session_token}
    BY DEF SessionHeader, GetSessionToken
  <2>2. request'[t] \in {request[t], NoToken, session_token.session_token}
    BY <1>2, <2>1 DEF CreateRequest
  <2>3. ~Replied(t)'
    BY <1>2, CheckParameterCodes DEF CreateRequest, Replied
  <2> QED BY <1>1, <2>2, <2>3 DEF Copies
<1>3. CASE TakeExecutor(t)
  <2>1. ~Replied(t)'
    BY <1>3 DEF TakeExecutor, Replied
  <2> QED BY <1>1, <1>3, <2>1 DEF Copies, TakeExecutor
<1>4. CASE ReturnExecutor(t)
  <2>1. Replied(t)' => Replied(t)
    BY <1>4 DEF ReturnExecutor, Replied
  <2> QED BY <1>1, <1>4, <2>1 DEF Copies, ReturnExecutor
<1> QED BY <1>2, <1>3, <1>4 DEF Service

LEMMA LocalCopies ==
  ASSUME BaseInv, NEW t \in Threads,
         \/ EndCall(t) \/ LoginSetCurrentUser(t) \/ GetCurrentUser(t)
         \/ EndLogout(t) \/ ExportUser(t) \/ ExportToken(t) \/ ExportExpire(t)
         \/ ImportSetCurrentUser(t)
  PROVE  Copies(t)
<1> USE DEF BaseInv, LocalTypeOK, Goto, Result
<1>0. EmptySession.session_token = NoToken /\ json[t] \in NbSessionTokens
  BY DEF EmptySession
<1>1. issued' = issued /\ ended' = ended
  BY DEF EndCall, LoginSetCurrentUser, GetCurrentUser, EndLogout, ExportUser,
         ExportToken, ExportExpire, ImportSetCurrentUser, Locally, serverVars
<1>2. ~Replied(t)'
  BY DEF EndCall, Return, LoginSetCurrentUser, GetCurrentUser, EndLogout,
         ExportUser, ExportToken, ExportExpire, ImportSetCurrentUser, Locally,
         Replied
<1>3. request'[t] \in {request[t], NoToken}
  BY DEF EndCall, Return, LoginSetCurrentUser, GetCurrentUser, EndLogout,
         ExportUser, ExportToken, ExportExpire, ImportSetCurrentUser, Locally
<1>4. session_token' \in {session_token, EmptySession, json[t]}
  BY DEF EndCall, LoginSetCurrentUser, GetCurrentUser, EndLogout, ExportUser,
         ExportToken, ExportExpire, ImportSetCurrentUser, SetSessionToken,
         ClearSessionToken
<1>5. saved'.session_token \in {saved.session_token, json[t].session_token}
  <2>1. CASE ExportExpire(t)
    <3> DEFINE n == ToInt(GetExpireAt(session_token))
    <3>1. saved' = [json[t] EXCEPT !.expire_at = n]
      BY <2>1 DEF ExportExpire
    <3> HIDE DEF n
    <3> QED BY <1>0, <3>1 DEF NbSessionTokens
  <2> QED BY <2>1 DEF EndCall, LoginSetCurrentUser, GetCurrentUser, EndLogout,
            ExportUser, ExportToken, ImportSetCurrentUser, Locally
<1>6. json'[t].session_token \in {json[t].session_token, NoToken,
                                  session_token.session_token}
  <2>1. CASE GetCurrentUser(t) \/ ExportUser(t)
    <3> DEFINE u == GetSessionUserEntity(session_token)
    <3>1. json' = [json EXCEPT ![t].user_entity = u]
      BY <2>1 DEF GetCurrentUser, ExportUser
    <3> HIDE DEF u
    <3> QED BY <1>0, <3>1 DEF NbSessionTokens
  <2>2. CASE ExportToken(t)
    <3> DEFINE k == GetSessionToken(session_token)
    <3>1. json' = [json EXCEPT ![t].session_token = k]
      BY <2>2 DEF ExportToken
    <3>2. k \in {NoToken, session_token.session_token}
      BY DEF GetSessionToken
    <3> HIDE DEF k
    <3> QED BY <1>0, <3>1, <3>2 DEF NbSessionTokens
  <2>3. CASE EndCall(t)
    BY <1>0, <2>3 DEF EndCall, Return
  <2>4. CASE \/ LoginSetCurrentUser(t) \/ EndLogout(t) \/ ExportExpire(t)
             \/ ImportSetCurrentUser(t)
    BY <2>4 DEF LoginSetCurrentUser, EndLogout, ExportExpire,
                ImportSetCurrentUser
  <2> QED BY <2>1, <2>2, <2>3, <2>4
<1> QED BY <1>0, <1>1, <1>2, <1>3, <1>4, <1>5, <1>6 DEF Copies

LEMMA CopiesKeepFresh ==
  ASSUME BaseInv, Known, Fresh, NEW t \in Threads, Start(t) \/ Step(t), Copies(t)
  PROVE  Known' /\ Fresh'
<1> USE DEF BaseInv
<1>1. Unused' = Unused /\ NoToken \notin Unused
  BY EmptyAssumption DEF Copies, Unused
<1>2. ASSUME NEW u \in Threads, u # t
      PROVE  /\ request'[u] = request[u] /\ json'[u] = json[u]
             /\ Replied(u)' <=> Replied(u)
  BY <1>2, OthersLocals DEF PoolInv, Replied
<1>3. request[t] \notin Unused /\ json[t].session_token \notin Unused
  BY DEF Known
<1>4. Known'
  <2>1. /\ session_token'.session_token \notin Unused
        /\ saved'.session_token \notin Unused
        /\ request'[t] \notin Unused /\ json'[t].session_token \notin Unused
        /\ ended' \cap Unused = {}
    BY <1>1, <1>3 DEF Copies, Known
  <2>2. \A u \in Threads : /\ request'[u] \notin Unused
                           /\ json'[u].session_token \notin Unused
    BY <1>2, <2>1 DEF Known
  <2> QED BY <1>1, <2>1, <2>2 DEF Known
<1>5. ASSUME Replied(t)', json'[t].session_token # NoToken
      PROVE  FreshFor(t, json[t].session_token)'
  <2>1. /\ Replied(t) /\ json'[t] = json[t]
        /\ UNCHANGED <<session_token, saved, ended, request>>
    BY <1>5 DEF Copies
  <2>2. FreshFor(t, json[t].session_token)
    BY <1>5, <2>1 DEF Fresh
  <2> QED BY <1>2, <2>1, <2>2 DEF FreshFor
<1>6. ASSUME NEW u \in Threads, u # t, Replied(u)', json'[u].session_token # NoToken
      PROVE  FreshFor(u, json[u].session_token)'
  <2> DEFINE k == json[u].session_token
  <2>1. json'[u].session_token = k /\ k # NoToken /\ FreshFor(u, k)
    BY <1>2, <1>6 DEF Fresh
  <2>2. /\ request[t] # k /\ json[t].session_token # k
        /\ session_token.session_token # k /\ saved.session_token # k
        /\ k \notin ended
    BY <1>6, <2>1 DEF FreshFor
  <2>3. /\ request'[t] # k /\ json'[t].session_token # k
        /\ session_token'.session_token # k /\ saved'.session_token # k
        /\ k \notin ended'
    BY <2>1, <2>2 DEF Copies
  <2>4. /\ \A v \in Threads : request'[v] # k
        /\ \A v \in Threads \ {u} : json'[v].session_token # k
    BY <1>2, <2>1, <2>3 DEF FreshFor
  <2>5. FreshFor(u, k)'
    BY <2>3, <2>4, <1>2, <1>6 DEF FreshFor
  <2> QED BY <2>5
<1> QED BY <1>4, <1>5, <1>6 DEF Fresh

LEMMA LoginKeepsFresh ==
  ASSUME BaseInv, Known, Fresh, NEW t \in Threads, Server(t), ServerLogin(t)
  PROVE  Known' /\ Fresh'
<1> USE DEF BaseInv
<1>0. Step(t) /\ op[t] = "Login"
  BY DEF Step, ServerLogin
<1>1. PICK k \in Unused, d \in Lifetimes :
        LET s == [session_token |-> k, expire_at |-> now + d,
                  user_entity |-> user[t]]
        IN  /\ issued' = issued \cup {s}
            /\ \/ Perform(t, "NB_OK", s)
               \/ Perform(t, "NB_ERROR_CURL_RUNTIME", EmptySession)
  BY DEF ServerLogin
<1>2. /\ k \in Tokens /\ k # NoToken
      /\ Unused' = Unused \ {k} /\ NoToken \notin Unused
  BY <1>1, EmptyAssumption DEF Unused
<1>3. json'[t].session_token \in {k, NoToken}
  BY <1>1 DEF Perform, LocalTypeOK, EmptySession
<1>4. UNCHANGED <<session_token, saved, ended, request>>
  BY <1>1 DEF ServerLogin, Server, Perform, userVars
<1>5. ASSUME NEW u \in Threads, u # t
      PROVE  json'[u] = json[u] /\ (Replied(u)' <=> Replied(u))
  BY <1>0, <1>5, OthersLocals DEF PoolInv, Replied
<1>6. Known'
  <2>1. \A u \in Threads : json'[u].session_token \notin Unused'
    BY <1>2, <1>3, <1>5 DEF Known
  <2> QED BY <1>2, <1>4, <2>1 DEF Known
<1>7. ASSUME json'[t].session_token = k
      PROVE  FreshFor(t, k)'
  BY <1>1, <1>2, <1>4, <1>5 DEF Known, FreshFor
<1>8. ASSUME NEW u \in Threads, u # t, Replied(u), json[u].session_token # NoToken
      PROVE  FreshFor(u, json[u].session_token)'
  <2> DEFINE l == json[u].session_token
  <2>1. l \notin Unused /\ l # k
    BY <1>1 DEF Known
  <2>2. json'[t].session_token # l
    BY <1>3, <1>8, <2>1
  <2>3. FreshFor(u, l)
    BY <1>8 DEF Fresh
  <2> QED BY <1>4, <1>5, <1>8, <2>2, <2>3 DEF FreshFor
<1> QED BY <1>3, <1>5, <1>6, <1>7, <1>8 DEF Fresh

LEMMA FreshStep ==
  BaseInv /\ Known /\ Fresh /\ [Next]_vars => Known' /\ Fresh'
<1> SUFFICES ASSUME BaseInv, Known, Fresh, [Next]_vars PROVE Known' /\ Fresh'
  OBVIOUS
<1>1. ASSUME NEW t \in Threads, Start(t) \/ Step(t) PROVE Known' /\ Fresh'
  <2>1. CASE ~(Server(t) /\ ServerLogin(t))
    <3>1. Copies(t)
      BY <1>1, <2>1, StartCopies, ServerCopies, ServiceCopies, LocalCopies
         DEF Step
    <3> QED BY <1>1, <3>1, CopiesKeepFresh
  <2>2. CASE Server(t) /\ ServerLogin(t)
    BY <2>2, LoginKeepsFresh
  <2> QED BY <2>1, <2>2
<1>2. ASSUME (Tick /\ UNCHANGED <<userVars, serverVars>>) \/ UNCHANGED vars
      PROVE  Known' /\ Fresh'
  <2>1. UNCHANGED <<session_token, callVars, userVars, serverVars>>
    BY <1>2 DEF Tick, vars, serviceVars
  <2>2. Unused' = Unused
    BY <2>1 DEF serverVars, Unused
  <2> QED BY <2>1, <2>2 DEF callVars, userVars, serverVars, Known, Fresh,
                            FreshFor, Replied
<1> QED BY <1>1, <1>2 DEF Next

LEMMA FreshInvariant == Spec => [](BaseInv /\ Known /\ Fresh)
<1>1. ASSUME Init PROVE Known /\ Fresh
  <2>1. /\ \A t \in Threads : /\ op[t] = "None" /\ request[t] = NoToken
                              /\ json[t] = EmptySession
        /\ session_token = EmptySession /\ ended = {}
        /\ EmptySession.session_token = NoToken
    BY <1>1 DEF Init, ServiceInit, EmptySession
  <2>2. NoToken \notin Unused
    BY EmptyAssumption DEF Unused
  <2>3. saved.session_token \notin Unused
    <3>1. CASE saved = EmptySession
      BY <2>1, <2>2, <3>1
    <3>2. CASE issued = {saved}
      BY <3>2 DEF Unused
    <3> QED BY <1>1, <3>1, <3>2 DEF Init
  <2> QED BY <2>1, <2>2, <2>3 DEF Known, Fresh, Replied
<1> QED BY <1>1, FreshStep, BaseInvariant, PTL DEF Spec

(* The clearing of lines 104-105 suffices: whatever the calls in progress, *)
(* the service does not keep a session the server has ended.               *)
THEOREM EndedIsDropped == Spec => []EndedOnlyWhileLogout
<1> DEFINE Excused(t, k) == /\ op[t] = "Logout" /\ request[t] = k
                            /\ pc[t] \in {"push", "done"}
<1> USE DEF BaseInv, LocalTypeOK, Goto
<1>1. ASSUME BaseInv, Known, Fresh, EndedOnlyWhileLogout,
             NEW t \in Threads, Start(t) \/ Step(t)
      PROVE  EndedOnlyWhileLogout'
  <2> SUFFICES ASSUME NEW k \in ended', session_token'.session_token = k,
                      k \notin imported'
               PROVE  \E u \in Threads : Excused(u, k)'
    BY DEF EndedOnlyWhileLogout
  <2> USE <1>1
  <2>0. k # NoToken
    <3>1. ended' \subseteq Tokens
      BY NextType DEF Next, GlobalTypeOK
    <3> QED BY <3>1, EmptyAssumption
  <2>1. ASSUME NEW u \in Threads, u # t, Excused(u, k) PROVE Excused(u, k)'
    BY <2>1, OthersLocals DEF PoolInv
  <2>2. ASSUME Start(t) PROVE \E u \in Threads : Excused(u, k)'
    <3>1. UNCHANGED <<session_token, ended, imported>> /\ pc[t] = "idle"
      BY <2>2 DEF Start, Request, LoginRefused, Login, LogoutRefused, Logout,
              ExportRefused, Export, Import, Call, userVars, serverVars
    <3> QED BY <2>1, <3>1 DEF EndedOnlyWhileLogout
  <2>3. ASSUME Server(t) PROVE \E u \in Threads : Excused(u, k)'
    <3>1. /\ UNCHANGED <<session_token, op, request, imported>>
          /\ pc[t] = "perform" /\ pc'[t] = "push"
      BY <2>3 DEF Server, ServerFails, ServerLogin, ServerLogout, ServerRequest,
                  MalformedReply, Perform, userVars
    <3>2. CASE k \in ended
      BY <2>1, <3>1, <3>2 DEF EndedOnlyWhileLogout
    <3>3. CASE k \notin ended
      <4>1. op[t] = "Logout" /\ request[t] = k
        BY <2>3, <3>3 DEF Server, ServerFails, ServerLogin, ServerLogout,
             ServerRequest, MalformedReply, serverVars
      <4> QED BY <3>1, <4>1
    <3> QED BY <3>2, <3>3
  <2>4. ASSUME Service(t) PROVE \E u \in Threads : Excused(u, k)'
    <3>1. UNCHANGED <<session_token, op, ended, imported>>
      BY <2>4 DEF Service, CreateRequest, TakeExecutor, ReturnExecutor,
                  userVars, serverVars
    <3>2. ASSUME Excused(t, k) PROVE Excused(t, k)'
      BY <2>4, <3>2 DEF Service, CreateRequest, TakeExecutor, ReturnExecutor
    <3> QED BY <2>1, <3>1, <3>2 DEF EndedOnlyWhileLogout
  <2>5. ASSUME LoginSetCurrentUser(t) PROVE FALSE
    <3>1. Replied(t) /\ session_token' = json[t] /\ ended' = ended
      BY <2>5 DEF LoginSetCurrentUser, Replied, SetSessionToken, Locally,
                  serverVars
    <3> QED BY <2>0, <3>1 DEF Fresh, FreshFor
  <2>6. ASSUME EndLogout(t) PROVE FALSE
    BY <2>0, <2>6 DEF EndLogout, ClearSessionToken, EmptySession
  <2>7. ASSUME ImportSetCurrentUser(t) PROVE FALSE
    BY <2>7 DEF ImportSetCurrentUser, SetSessionToken
  <2>8. ASSUME \/ GetCurrentUser(t) \/ ExportUser(t) \/ ExportToken(t)
               \/ ExportExpire(t)
        PROVE  \E u \in Threads : Excused(u, k)'
    <3>1. UNCHANGED <<session_token, ended, imported>>
      BY <2>8 DEF GetCurrentUser, ExportUser, ExportToken, ExportExpire,
                  Locally, serverVars
    <3>2. ~Excused(t, k)
      BY <2>8 DEF GetCurrentUser, ExportUser, ExportToken, ExportExpire
    <3> QED BY <2>1, <3>1, <3>2 DEF EndedOnlyWhileLogout
  <2>9. ASSUME EndCall(t) PROVE \E u \in Threads : Excused(u, k)'
    <3>1. UNCHANGED <<session_token, ended, imported>> /\ ~Excused(t, k)
      BY <2>9 DEF EndCall, Finished, serverVars
    <3> QED BY <2>1, <3>1 DEF EndedOnlyWhileLogout
  <2> QED BY <2>2, <2>3, <2>4, <2>5, <2>6, <2>7, <2>8, <2>9 DEF Step
<1>2. ASSUME EndedOnlyWhileLogout,
             (Tick /\ UNCHANGED <<userVars, serverVars>>) \/ UNCHANGED vars
      PROVE  EndedOnlyWhileLogout'
  BY <1>2 DEF Tick, vars, serviceVars, callVars, userVars, serverVars,
              EndedOnlyWhileLogout
<1>3. BaseInv /\ Known /\ Fresh /\ EndedOnlyWhileLogout /\ [Next]_vars
        => EndedOnlyWhileLogout'
  BY <1>1, <1>2 DEF Next
<1>4. Init => EndedOnlyWhileLogout
  BY DEF Init, EndedOnlyWhileLogout
<1> QED BY <1>3, <1>4, FreshInvariant, PTL DEF Spec
-----------------------------------------------------------------------------
(* A session is one.  What the service gets comes whole from a reply or    *)
(* from a saved string; ExportCurrentLogin, which puts a string together   *)
(* from three reads, is the one operation that can break this.             *)
WholeOrNone == issued \cup {EmptySession}

SessionInv ==
  /\ session_token \in WholeOrNone
  /\ saved \in WholeOrNone
  /\ \A t \in Threads :
       /\ op[t] # "Export" /\ pc[t] \notin {"user", "token", "expire"}
       /\ Replied(t) \/ pc[t] = "set" => json[t] \in WholeOrNone

LEMMA WholeStep ==
  ASSUME "Export" \notin Offered, BaseInv, ToldInv, SessionInv,
         NEW t \in Threads, Start(t) \/ Step(t)
  PROVE  SessionInv'
<1> USE DEF BaseInv, LocalTypeOK, Goto, Result
<1> DEFINE OwnOK == /\ op[t] # "Export" /\ pc[t] \notin {"user", "token", "expire"}
                    /\ Replied(t) \/ pc[t] = "set" => json[t] \in WholeOrNone
<1>1. SUFFICES /\ issued \subseteq issued'
               /\ session_token' \in WholeOrNone /\ saved' \in WholeOrNone
               /\ OwnOK'
  BY OthersLocals DEF SessionInv, WholeOrNone, Replied, PoolInv
<1> USE DEF SessionInv
<1>2. CASE Start(t)
  <2>1. UNCHANGED <<session_token, issued, saved>>
    BY <1>2 DEF Start, Request, LoginRefused, Login, LogoutRefused, Logout,
                ExportRefused, Export, Import, userVars, serverVars
  <2>2. op'[t] # "Export" /\ pc'[t] \in {"create", "return", "set"}
    BY <1>2 DEF Start, Request, LoginRefused, Login, LogoutRefused, Logout,
                ExportRefused, Export, Import, Call, Operations
  <2>3. pc'[t] = "set" => json'[t] = saved
    BY <1>2 DEF Start, Request, LoginRefused, Login, LogoutRefused, Logout,
                ExportRefused, Export, Import, Call
  <2> QED BY <2>1, <2>2, <2>3 DEF Replied, WholeOrNone
<1>3. CASE Server(t) /\ ServerLogin(t)
  <2>1. PICK k \in Unused, d \in Lifetimes :
          LET s == [session_token |-> k, expire_at |-> now + d,
                    user_entity |-> user[t]]
          IN  /\ issued' = issued \cup {s}
              /\ \/ Perform(t, "NB_OK", s)
                 \/ Perform(t, "NB_ERROR_CURL_RUNTIME", EmptySession)
    BY <1>3 DEF ServerLogin
  <2>2. /\ json'[t] \in issued' \cup {EmptySession} /\ pc'[t] = "push"
        /\ UNCHANGED <<session_token, saved, op>>
    BY <1>3, <2>1 DEF Perform, Server, userVars
  <2> QED BY <2>1, <2>2 DEF WholeOrNone
<1>4. CASE Server(t) /\ ~ServerLogin(t)
  <2>1. json'[t] = EmptySession /\ pc'[t] = "push" /\ op' = op
    BY <1>4 DEF Server, ServerFails, ServerLogout, ServerRequest,
                MalformedReply, Perform
  <2>2. UNCHANGED <<session_token, saved, issued>>
    BY <1>4 DEF Server, ServerFails, ServerLogout, ServerRequest,
                MalformedReply, Perform, serverVars, userVars
  <2> QED BY <2>1, <2>2 DEF WholeOrNone
<1>5. CASE Service(t)
  <2>1. UNCHANGED <<session_token, saved, issued, op, json>>
    BY <1>5 DEF Service, CreateRequest, TakeExecutor, ReturnExecutor, userVars,
                serverVars
  <2>2. pc'[t] \in {"pop", "perform", "push", "done"}
    BY <1>5 DEF Service, CreateRequest, TakeExecutor, ReturnExecutor
  <2>3. Replied(t)' => Replied(t)
    BY <1>5, CheckParameterCodes
       DEF Service, CreateRequest, TakeExecutor, ReturnExecutor, Replied
  <2> QED BY <2>1, <2>2, <2>3 DEF WholeOrNone
<1>6. CASE LoginSetCurrentUser(t) \/ ImportSetCurrentUser(t)
  <2>1. session_token' = json[t] /\ json[t] \in WholeOrNone
    BY <1>6 DEF LoginSetCurrentUser, ImportSetCurrentUser, SetSessionToken,
                Replied
  <2>2. UNCHANGED <<saved, issued, op>> /\ pc'[t] \in {"get", "return"}
    BY <1>6 DEF LoginSetCurrentUser, ImportSetCurrentUser, Locally, serverVars
  <2> QED BY <2>1, <2>2 DEF WholeOrNone, Replied
<1>7. CASE EndLogout(t) \/ GetCurrentUser(t)
  <2>1. session_token' \in {session_token, EmptySession}
    BY <1>7 DEF EndLogout, GetCurrentUser, ClearSessionToken
  <2>2. UNCHANGED <<saved, issued, op>> /\ pc'[t] = "return"
    BY <1>7 DEF EndLogout, GetCurrentUser, Locally, serverVars
  <2> QED BY <2>1, <2>2 DEF WholeOrNone, Replied
<1>8. CASE EndCall(t)
  BY <1>8 DEF EndCall, Return, WholeOrNone, Replied, serverVars
<1>9. CASE ExportUser(t) \/ ExportToken(t) \/ ExportExpire(t)
  BY <1>9 DEF ExportUser, ExportToken, ExportExpire
<1> QED BY <1>2, <1>3, <1>4, <1>5, <1>6, <1>7, <1>8, <1>9 DEF Step

(* In an application that does not export, the service never holds the     *)
(* token of one login with the user or the expiration of another.          *)
THEOREM SessionIsOneWithoutExport ==
  ASSUME "Export" \notin Offered PROVE Spec => []SessionIsOne
<1>1. Init => SessionInv
  <2> SUFFICES ASSUME Init PROVE SessionInv
    OBVIOUS
  <2>1. \A t \in Threads : pc[t] = "idle" /\ op[t] = "None"
    BY DEF Init, ServiceInit
  <2> QED BY <2>1 DEF Init, ServiceInit, SessionInv, WholeOrNone, Replied
<1>2. BaseInv /\ ToldInv /\ SessionInv /\ [Next]_vars => SessionInv'
  <2>1. ASSUME SessionInv,
               (Tick /\ UNCHANGED <<userVars, serverVars>>) \/ UNCHANGED vars
        PROVE  SessionInv'
    BY <2>1 DEF Tick, vars, serviceVars, callVars, userVars, serverVars,
                SessionInv, WholeOrNone, Replied
  <2> QED BY <2>1, WholeStep DEF Next
<1>3. SessionInv => SessionIsOne
  BY DEF SessionInv, WholeOrNone, SessionIsOne
<1> QED BY <1>1, <1>2, <1>3, ToldInvariant, PTL DEF Spec

(* A request carries a session token only if the service held it,          *)
(* unexpired, when the request was built.                                  *)
THEOREM RequestsCarryValid == Spec => SendsOnlyValid
<1> DEFINE Valid ==
      \A t \in Threads : request'[t] \notin {NoToken, request[t]}
        => /\ session_token.session_token = request'[t]
           /\ ~IsExpired(session_token.expire_at)
<1>1. ASSUME BaseInv, Next PROVE Valid
  <2> SUFFICES ASSUME NEW t \in Threads, request'[t] \notin {NoToken, request[t]}
               PROVE  /\ session_token.session_token = request'[t]
                      /\ ~IsExpired(session_token.expire_at)
    OBVIOUS
  <2> USE <1>1 DEF BaseInv, LocalTypeOK
  <2>1. Start(t) \/ Step(t)
    <3>1. ASSUME NEW u \in Threads, Start(u) \/ Step(u) PROVE u = t
      BY <3>1, OthersLocals DEF PoolInv
    <3>2. ~Tick
      BY DEF Tick, callVars
    <3> QED BY <3>1, <3>2 DEF Next
  <2>2. CreateRequest(t)
    <3>1. ~Start(t)
      BY DEF Start, Request, LoginRefused, Login, LogoutRefused, Logout,
             ExportRefused, Export, Import, Call
    <3>2. ~Server(t)
      BY DEF Server, ServerFails, ServerLogin, ServerLogout, ServerRequest,
             MalformedReply, Perform
    <3>3. /\ ~TakeExecutor(t) /\ ~ReturnExecutor(t) /\ ~EndCall(t)
          /\ ~LoginSetCurrentUser(t) /\ ~EndLogout(t) /\ ~ImportSetCurrentUser(t)
          /\ ~GetCurrentUser(t) /\ ~ExportUser(t) /\ ~ExportToken(t)
          /\ ~ExportExpire(t)
      BY DEF TakeExecutor, ReturnExecutor, EndCall, Return,
             LoginSetCurrentUser, EndLogout, ImportSetCurrentUser,
             GetCurrentUser, ExportUser, ExportToken, ExportExpire, Locally
    <3> QED BY <2>1, <3>1, <3>2, <3>3 DEF Step, Service
  <2>3. request'[t] = SessionHeader(t)
    BY <2>2 DEF CreateRequest
  <2> QED BY <2>3 DEF SessionHeader, GetSessionToken, IsValid
<1>2. BaseInv /\ [Next]_vars => [Valid]_vars
  BY <1>1
<1> HIDE DEF Valid
<1>3. Spec => [][Valid]_vars
  BY <1>2, BaseInvariant, PTL DEF Spec
<1> QED BY <1>3 DEF Valid, SendsOnlyValid
-----------------------------------------------------------------------------
(* Logouts and the logins that race them.  From the moment its request is  *)
(* built, a logout finds in the service the session of the request, or one *)
(* that was stored since, or none that is valid.  A service with an empty  *)
(* parameter builds no request at all, and clears a session it has not     *)
(* asked the server to end.                                                *)
LogoutOK(t) == InLogout(t) => GetSessionToken(session_token) \in {request[t], NoToken}

RaceInv ==
  \A t \in Threads :
    /\ LogoutOK(t) \/ t \in overtaken
    /\ pc[t] = "set" => json[t].session_token # NoToken

(* The history takes nothing away from NbUser and adds nothing to it.      *)
LEMMA RacesAreSteps ==
  /\ RaceInit => Init
  /\ [RaceNext]_raceVars => [Next]_vars
BY DEF RaceInit, RaceNext, raceVars

LEMMA LogoutOfActor ==
  ASSUME RequiredParameters \subseteq Parameters,
         BaseInv, NEW t \in Threads, LogoutOK(t), Start(t) \/ Step(t)
  PROVE  LogoutOK(t)'
<1> USE DEF BaseInv, LocalTypeOK, Goto, Result
<1> DEFINE InRequest(p) == p \in {"pop", "perform", "push", "done"}
<1>1. CASE Start(t)
  <2>1. ~InRequest(pc'[t])
    BY <1>1 DEF Start, Request, LoginRefused, Login, LogoutRefused, Logout,
                ExportRefused, Export, Import, Call
  <2> QED BY <2>1 DEF LogoutOK, InLogout
<1>2. CASE CreateRequest(t)
  <2>1. CheckParameter = "NB_OK"
    BY DEF RequiredParameters, CheckParameter
  <2>2. /\ request'[t] = SessionHeader(t)
        /\ UNCHANGED <<session_token, op, now>>
    BY <1>2, <2>1 DEF CreateRequest
  <2> QED BY <2>2 DEF LogoutOK, InLogout, SessionHeader, GetSessionToken, IsValid, IsExpired
<1>3. CASE Server(t) \/ TakeExecutor(t) \/ ReturnExecutor(t)
  <2>1. InRequest(pc[t]) /\ UNCHANGED <<session_token, op, request, now>>
    BY <1>3 DEF Server, ServerFails, ServerLogin, ServerLogout, ServerRequest,
                MalformedReply, Perform, TakeExecutor, ReturnExecutor
  <2> QED BY <2>1 DEF LogoutOK, InLogout, GetSessionToken, IsValid, IsExpired
<1>4. CASE \/ LoginSetCurrentUser(t) \/ GetCurrentUser(t) \/ EndLogout(t)
           \/ ExportUser(t) \/ ExportToken(t) \/ ExportExpire(t)
           \/ ImportSetCurrentUser(t) \/ EndCall(t)
  <2>1. ~InRequest(pc'[t])
    BY <1>4 DEF LoginSetCurrentUser, GetCurrentUser, EndLogout, ExportUser,
                ExportToken, ExportExpire, ImportSetCurrentUser, EndCall,
                Return, Locally
  <2> QED BY <2>1 DEF LogoutOK, InLogout
<1> QED BY <1>1, <1>2, <1>3, <1>4 DEF Step, Service

LEMMA ImportOfActor ==
  ASSUME BaseInv, NEW t \in Threads, Start(t) \/ Step(t),
         pc[t] = "set" => json[t].session_token # NoToken
  PROVE  pc'[t] = "set" => json'[t].session_token # NoToken
<1> USE DEF BaseInv, LocalTypeOK, Goto, Result
<1>1. CASE Start(t)
  <2>1. CASE Import(t)
    BY <2>1 DEF Import, Call, ImportCode
  <2>2. CASE ~Import(t)
    <3>1. pc'[t] # "set"
      BY <1>1, <2>2 DEF Start, Request, LoginRefused, Login, LogoutRefused, Logout,
                        ExportRefused, Export, Call
    <3> QED BY <3>1
  <2> QED BY <2>1, <2>2
<1>2. CASE Step(t)
  <2>1. pc'[t] # "set"
    BY <1>2 DEF Step, Service, CreateRequest, TakeExecutor, ReturnExecutor, Server,
                ServerFails, ServerLogin, ServerLogout, ServerRequest, MalformedReply,
                Perform, LoginSetCurrentUser, GetCurrentUser, EndLogout, ExportUser,
                ExportToken, ExportExpire, ImportSetCurrentUser, EndCall, Return,
                Locally
  <2> QED BY <2>1
<1> QED BY <1>1, <1>2

(* Who sets the session of the service, and to what.                       *)
LEMMA WhoSets ==
  ASSUME NEW t \in Threads, Start(t) \/ Step(t), session_token' # session_token
  PROVE  LoginSetCurrentUser(t) \/ EndLogout(t) \/ ImportSetCurrentUser(t)
<1>1. ASSUME Start(t) PROVE FALSE
  BY <1>1 DEF Start, Request, LoginRefused, Login, LogoutRefused, Logout,
              ExportRefused, Export, Import
<1>2. ASSUME Service(t) \/ Server(t) PROVE FALSE
  BY <1>2 DEF Service, CreateRequest, TakeExecutor, ReturnExecutor, Server,
              ServerFails, ServerLogin, ServerLogout, ServerRequest,
              MalformedReply, Perform
<1>3. ASSUME \/ GetCurrentUser(t) \/ ExportUser(t) \/ ExportToken(t)
             \/ ExportExpire(t) \/ EndCall(t)
      PROVE  FALSE
  BY <1>3 DEF GetCurrentUser, ExportUser, ExportToken, ExportExpire, EndCall
<1> QED BY <1>1, <1>2, <1>3 DEF Step

(* A session stored by another thread overtakes the logout; without one,   *)
(* the session is the same, or gone.                                       *)
LEMMA LogoutOfOther ==
  ASSUME BaseInv, NEW t \in Threads, Start(t) \/ Step(t),
         NEW u \in Threads, u # t, LogoutOK(u), ~Stores
  PROVE  LogoutOK(u)'
<1>1. pc'[u] = pc[u] /\ op'[u] = op[u] /\ request'[u] = request[u]
  BY OthersLocals DEF BaseInv, PoolInv
<1>2. UNCHANGED now
  BY DEF Start, Request, LoginRefused, Login, LogoutRefused, Logout,
         ExportRefused, Export, Import, Step, Service, CreateRequest, TakeExecutor,
         ReturnExecutor, Server, ServerFails, ServerLogin, ServerLogout,
         ServerRequest, MalformedReply, Perform, LoginSetCurrentUser,
         GetCurrentUser, EndLogout, ExportUser, ExportToken, ExportExpire,
         ImportSetCurrentUser, EndCall, Locally
<1>3. GetSessionToken(session_token)' \in {GetSessionToken(session_token), NoToken}
  BY <1>2 DEF Stores, GetSessionToken, IsValid, IsExpired, EmptySession
<1> QED BY <1>1, <1>3 DEF LogoutOK, InLogout

LEMMA RaceStep ==
  ASSUME RequiredParameters \subseteq Parameters, BaseInv, RaceInv,
         [RaceNext]_raceVars
  PROVE  RaceInv'
<1>1. ASSUME RaceNext, NEW t \in Threads, Start(t) \/ Step(t), NEW u \in Threads
      PROVE  /\ LogoutOK(u)' \/ u \in overtaken'
             /\ pc'[u] = "set" => json'[u].session_token # NoToken
  <2>1. InLogout(u)' /\ (u \in overtaken \/ Stores) => u \in overtaken'
    BY <1>1 DEF RaceNext
  <2>2. CASE u = t
    BY <1>1, <2>1, <2>2, LogoutOfActor, ImportOfActor DEF RaceInv, LogoutOK
  <2>3. CASE u # t
    <3>1. LogoutOK(u)' \/ u \in overtaken'
      BY <1>1, <2>1, <2>3, LogoutOfOther DEF RaceInv, LogoutOK
    <3>2. pc'[u] = pc[u] /\ json'[u] = json[u]
      BY <1>1, <2>3, OthersLocals DEF BaseInv, PoolInv
    <3> QED BY <3>1, <3>2 DEF RaceInv
  <2> QED BY <2>2, <2>3
<1>2. ASSUME RaceNext, Tick, UNCHANGED <<userVars, serverVars>>, NEW u \in Threads
      PROVE  /\ LogoutOK(u)' \/ u \in overtaken'
             /\ pc'[u] = "set" => json'[u].session_token # NoToken
  <2>1. /\ UNCHANGED <<session_token, callVars>>
        /\ now \in Nat /\ session_token.expire_at \in Int
        /\ now' = now + 1
    BY <1>2 DEF Tick, BaseInv, GlobalTypeOK, NbSessionTokens
  <2>2. GetSessionToken(session_token)' \in {GetSessionToken(session_token), NoToken}
    BY <2>1 DEF GetSessionToken, IsValid, IsExpired
  <2>3. InLogout(u)' /\ u \in overtaken => u \in overtaken'
    BY <1>2 DEF RaceNext
  <2> QED BY <2>1, <2>2, <2>3 DEF RaceInv, LogoutOK, InLogout, callVars
<1>3. CASE UNCHANGED raceVars
  BY <1>3 DEF raceVars, vars, serviceVars, callVars, RaceInv, LogoutOK, InLogout,
              GetSessionToken, IsValid, IsExpired
<1>4. CASE RaceNext
  BY <1>1, <1>2, <1>4 DEF RaceNext, Next, RaceInv
<1> QED BY <1>3, <1>4

(* A valid session is lost only to a logout whose request names it, to one *)
(* during which it was stored, or to the reply to a login without one.     *)
THEOREM LogoutsDropOnlyRacing ==
  ASSUME RequiredParameters \subseteq Parameters
  PROVE  RaceSpec => LostOnlyIfEndedOrRaced
<1> DEFINE Lost ==
      IsValid(session_token) /\ session_token' = EmptySession =>
        \E t \in Threads :
          /\ pc'[t] # pc[t]
          /\ \/ InLogout(t) /\ request[t] = session_token.session_token
             \/ InLogout(t) /\ t \in overtaken
             \/ EmptyLogin(t)
<1>1. RaceInit => RaceInv
  BY DEF RaceInit, Init, ServiceInit, RaceInv, LogoutOK, InLogout
<1>2. ASSUME BaseInv, RaceInv, RaceNext PROVE Lost
  <2> SUFFICES ASSUME IsValid(session_token), session_token' = EmptySession
               PROVE  \E t \in Threads :
                        /\ pc'[t] # pc[t]
                        /\ \/ InLogout(t) /\ request[t] = session_token.session_token
                           \/ InLogout(t) /\ t \in overtaken
                           \/ EmptyLogin(t)
    OBVIOUS
  <2>1. session_token' # session_token
    BY DEF IsValid, EmptySession
  <2>2. PICK t \in Threads : Start(t) \/ Step(t)
    BY <1>2, <2>1 DEF RaceNext, Next, Tick
  <2>3. pc \in [Threads -> Steps]
    BY <1>2 DEF BaseInv, LocalTypeOK
  <2>4. CASE LoginSetCurrentUser(t)
    <3>1. pc'[t] # pc[t] /\ op[t] = "Login" /\ json[t] = EmptySession
      BY <2>3, <2>4 DEF LoginSetCurrentUser, SetSessionToken, Locally, Goto
    <3> QED BY <3>1 DEF EmptyLogin
  <2>5. CASE EndLogout(t)
    <3>1. pc'[t] # pc[t] /\ InLogout(t)
      BY <2>3, <2>5 DEF EndLogout, Locally, Goto, InLogout
    <3>2. request[t] = session_token.session_token \/ t \in overtaken
      BY <1>2, <3>1 DEF RaceInv, LogoutOK, GetSessionToken, IsValid
    <3> QED BY <3>1, <3>2
  <2>6. CASE ImportSetCurrentUser(t)
    <3>1. json[t].session_token # NoToken /\ json[t] = EmptySession
      BY <1>2, <2>6 DEF ImportSetCurrentUser, SetSessionToken, RaceInv
    <3> QED BY <3>1 DEF EmptySession
  <2> QED BY <2>1, <2>2, <2>4, <2>5, <2>6, WhoSets
<1> HIDE DEF Lost
<1>3. BaseInv /\ RaceInv /\ [RaceNext]_raceVars => [Lost]_raceVars
  BY <1>2
<1>4. RaceSpec => Spec
  BY RacesAreSteps, PTL DEF RaceSpec, Spec
<1>5. BaseInv /\ RaceInv /\ [RaceNext]_raceVars => RaceInv'
  BY RaceStep
<1>6. RaceSpec => [][Lost]_raceVars
  BY <1>1, <1>3, <1>4, <1>5, BaseInvariant, PTL DEF RaceSpec
<1> QED BY <1>6 DEF Lost, LostOnlyIfEndedOrRaced
-----------------------------------------------------------------------------
(* A service used by one thread at a time.  The clock still runs between   *)
(* the steps of a call, and the application may call in any order.         *)
OneCaller == \A s, t \in Threads : s = t

(* Login.  The reply is this login's own, whole or without a session, and  *)
(* nobody else puts a session into the service before it is read back.     *)
OwnReply(t) ==
  \/ json[t] = EmptySession
  \/ json[t].session_token # NoToken /\ json[t].user_entity = user[t]

LoginOK(t) ==
  /\ Replied(t) => OwnReply(t)
  /\ pc[t] = "get" => session_token = json[t] /\ OwnReply(t)
  /\ LoggedIn(t) => \/ json[t].user_entity = user[t]
                    \/ IsExpired(json[t].expire_at)

LEMMA LoginReadsBack ==
  ASSUME BaseInv, NEW t \in Threads, LoginOK(t), GetCurrentUser(t)
  PROVE  (json[t].user_entity = user[t] \/ IsExpired(json[t].expire_at))'
<1> USE DEF BaseInv, LocalTypeOK, GlobalTypeOK
<1> DEFINE u == GetSessionUserEntity(session_token)
<1>1. /\ session_token = json[t] /\ OwnReply(t)
      /\ json' = [json EXCEPT ![t].user_entity = u]
      /\ UNCHANGED <<user, now>>
  BY DEF GetCurrentUser, LoginOK, Locally
<1>2. u = json[t].user_entity \/ json[t].session_token = NoToken
        \/ IsExpired(json[t].expire_at)
  BY <1>1 DEF GetSessionUserEntity, IsValid
<1>3. CASE json[t] = EmptySession
  <2>1. json[t].expire_at = 0
    BY <1>3 DEF EmptySession
  <2>2. json'[t].expire_at = 0 /\ now' \in Nat
    <3> HIDE DEF u
    <3> QED BY <1>1, <2>1 DEF NbSessionTokens
  <2> QED BY <2>2 DEF IsExpired
<1>4. CASE json[t] # EmptySession
  <2>1. u = user[t] \/ IsExpired(json[t].expire_at)
    BY <1>1, <1>2, <1>4 DEF OwnReply
  <2>2. json'[t].user_entity = u /\ json'[t].expire_at = json[t].expire_at
    <3> HIDE DEF u
    <3> QED BY <1>1 DEF NbSessionTokens
  <2> QED BY <1>1, <2>1, <2>2 DEF IsExpired
<1> QED BY <1>3, <1>4

LEMMA LoginOfActor ==
  ASSUME BaseInv, ToldInv, NEW t \in Threads, LoginOK(t), Start(t) \/ Step(t)
  PROVE  LoginOK(t)'
<1> USE DEF BaseInv, LocalTypeOK, Goto, Result
<1>1. CASE Start(t)
  <2>1. pc'[t] \notin {"push", "done", "get"}
    BY <1>1 DEF Start, Request, LoginRefused, Login, LogoutRefused, Logout,
                ExportRefused, Export, Import, Call
  <2>2. op'[t] = "Login" => result_code'[t] # "NB_OK"
    BY <1>1 DEF Start, Request, LoginRefused, Login, LogoutRefused, Logout,
                ExportRefused, Export, Import, Call
  <2> QED BY <2>1, <2>2 DEF LoginOK, Replied, LoggedIn
<1>2. CASE Server(t)
  <2>1. pc'[t] = "push" /\ op' = op /\ user' = user
    BY <1>2 DEF Server, ServerFails, ServerLogin, ServerLogout, ServerRequest,
                MalformedReply, Perform, userVars
  <2>2. OwnReply(t)'
    <3>1. CASE ServerLogin(t)
      <4>1. PICK k \in Unused, d \in Lifetimes :
              LET s == [session_token |-> k, expire_at |-> now + d,
                        user_entity |-> user[t]]
              IN  \/ Perform(t, "NB_OK", s)
                  \/ Perform(t, "NB_ERROR_CURL_RUNTIME", EmptySession)
        BY <3>1 DEF ServerLogin
      <4>2. k # NoToken
        BY EmptyAssumption DEF Unused
      <4> QED BY <2>1, <4>1, <4>2 DEF Perform, OwnReply
    <3>2. CASE ~ServerLogin(t)
      <4>1. json'[t] = EmptySession
        BY <1>2, <3>2 DEF Server, ServerFails, ServerLogout, ServerRequest,
                          MalformedReply, Perform
      <4> QED BY <4>1 DEF OwnReply
    <3> QED BY <3>1, <3>2
  <2> QED BY <2>1, <2>2 DEF LoginOK, LoggedIn
<1>3. CASE Service(t)
  <2>1. UNCHANGED <<json, user, op>>
    BY <1>3 DEF Service, CreateRequest, TakeExecutor, ReturnExecutor, userVars
  <2>2. pc'[t] \notin {"get", "return"} /\ (Replied(t)' => Replied(t))
    BY <1>3 DEF Service, CreateRequest, TakeExecutor, ReturnExecutor, Replied
  <2> QED BY <2>1, <2>2 DEF LoginOK, LoggedIn, OwnReply
<1>4. CASE LoginSetCurrentUser(t)
  <2>1. /\ Replied(t) /\ pc'[t] = "get" /\ session_token' = json[t]
        /\ UNCHANGED <<json, user>>
    BY <1>4 DEF LoginSetCurrentUser, SetSessionToken, Locally, Replied
  <2> QED BY <2>1 DEF LoginOK, LoggedIn, OwnReply, Replied
<1>5. CASE GetCurrentUser(t)
  <2>1. pc'[t] = "return"
    BY <1>5 DEF GetCurrentUser, Locally
  <2> QED BY <1>5, <2>1, LoginReadsBack DEF LoginOK, Replied
<1>6. CASE \/ EndLogout(t) \/ ImportSetCurrentUser(t) \/ ExportUser(t)
           \/ ExportToken(t) \/ ExportExpire(t)
  <2>1. op'[t] # "Login" /\ pc'[t] # "get"
    BY <1>6 DEF EndLogout, ImportSetCurrentUser, ExportUser, ExportToken,
                ExportExpire, Locally, ToldInv, ToldOK
  <2> QED BY <2>1 DEF LoginOK, Replied, LoggedIn
<1>7. CASE EndCall(t)
  <2>1. pc'[t] = "idle"
    BY <1>7 DEF EndCall, Return
  <2> QED BY <2>1 DEF LoginOK, Replied, LoggedIn
<1> QED BY <1>1, <1>2, <1>3, <1>4, <1>5, <1>6, <1>7 DEF Step

(* A login that succeeds returns the user who logged in, unless the        *)
(* session it got has expired before the call returned.                    *)
THEOREM LoginReturnsItsUser ==
  ASSUME OneCaller PROVE Spec => []LoginReturnsOwn
<1> DEFINE LoginInv == \A t \in Threads : LoginOK(t)
<1>1. Init => LoginInv
  BY DEF Init, ServiceInit, LoginOK, Replied, LoggedIn
<1>2. BaseInv /\ ToldInv /\ LoginInv /\ [Next]_vars => LoginInv'
  <2>1. ASSUME BaseInv, ToldInv, LoginInv,
               NEW t \in Threads, Start(t) \/ Step(t)
        PROVE  LoginInv'
    BY <2>1, LoginOfActor DEF OneCaller
  <2>2. ASSUME BaseInv, LoginInv,
               (Tick /\ UNCHANGED <<userVars, serverVars>>) \/ UNCHANGED vars,
               NEW t \in Threads
        PROVE  LoginOK(t)'
    <3>1. /\ UNCHANGED <<session_token, callVars, user>>
          /\ now \in Nat /\ json[t].expire_at \in Int
          /\ now' = now \/ now' = now + 1
      BY <2>2 DEF Tick, vars, serviceVars, userVars, BaseInv, LocalTypeOK,
                  GlobalTypeOK, NbSessionTokens
    <3>2. IsExpired(json[t].expire_at) => IsExpired(json[t].expire_at)'
      BY <3>1 DEF IsExpired, callVars
    <3> QED BY <2>2, <3>1, <3>2 DEF callVars, LoginOK, Replied, LoggedIn, OwnReply
  <2> QED BY <2>1, <2>2 DEF Next
<1>3. LoginInv => LoginReturnsOwn
  BY DEF LoginOK, LoginReturnsOwn
<1> HIDE DEF LoginInv
<1> QED BY <1>1, <1>2, <1>3, ToldInvariant, PTL DEF Spec

(* Export and import.  A session expires at a time that an int can hold:   *)
(* expire_at is a std::time_t in the service and an int in the saved JSON. *)
WideEnough == \A d \in Lifetimes : MaxTime + d <= IntMax

LEMMA ToIntKeeps ==
  ASSUME NEW n \in 0 .. IntMax PROVE ToInt(n) = n
<1> DEFINE m == 2 * (IntMax + 1)
           x == n + IntMax + 1
<1>1. m \in Nat \ {0} /\ x \in 0 .. m - 1
  BY NumbersAssumption
<1>2. x % m = x
  <2> HIDE DEF m, x
  <2>1. /\ x = m * (x \div m) + (x % m)
        /\ x % m \in 0 .. m - 1 /\ x \div m \in Int
    BY <1>1
  <2>2. ~(x \div m >= 1) /\ ~(x \div m <= -1)
    <3>1. ASSUME x \div m >= 1 PROVE FALSE
      BY <1>1, <2>1, <3>1
    <3>2. ASSUME x \div m <= -1 PROVE FALSE
      BY <1>1, <2>1, <3>2
    <3> QED BY <3>1, <3>2
  <2>3. x \div m = 0
    BY <2>1, <2>2
  <2> QED BY <1>1, <2>1, <2>3
<1> QED BY <1>2, NumbersAssumption DEF ToInt

(* While a thread exports, the session it reads stays; what a read did not *)
(* get is missing because the session has expired.  What a call is about   *)
(* to put into the service is a session of the server's, whole, or none.   *)
IssuedOK ==
  /\ now <= MaxTime
  /\ \A s \in issued : s.session_token # NoToken /\ s.expire_at \in 0 .. IntMax

Read(value, read, none) ==
  value = read \/ (value = none /\ IsExpired(session_token.expire_at))

ReadOK(t) ==
  /\ pc[t] \in {"user", "token", "expire"} => session_token \in issued
  /\ pc[t] \in {"token", "expire"} =>
       Read(json[t].user_entity, session_token.user_entity, NoUser)
  /\ pc[t] = "expire" =>
       Read(json[t].session_token, session_token.session_token, NoToken)

CarriesOK(t) ==
  /\ Replied(t) \/ pc[t] = "set" => json[t] \in WholeOrNone
  /\ result_code[t] = "NB_ERROR_SESSION_EXPIRED" =>
       /\ pc[t] = "return"
       /\ \E s \in issued : /\ s.session_token = json[t].session_token
                            /\ IsExpired(s.expire_at)

OneSessionInv ==
  /\ IssuedOK /\ ExportIsOne
  /\ session_token \in WholeOrNone
  /\ \A t \in Threads : ReadOK(t) /\ CarriesOK(t)

LEMMA StillExpired ==
  ASSUME GlobalTypeOK, now' \in Nat, now <= now', NEW e \in Int, IsExpired(e)
  PROVE  IsExpired(e)'
  BY DEF IsExpired, GlobalTypeOK

LEMMA StillOne ==
  ASSUME GlobalTypeOK, ExportIsOne, now' \in Nat, now <= now',
         issued \subseteq issued', saved' = saved
  PROVE  ExportIsOne'
<1>1. CASE saved \in issued \cup {EmptySession}
  BY <1>1 DEF ExportIsOne
<1>2. ASSUME NEW s \in issued, IsExpired(s.expire_at),
             saved.session_token \in {s.session_token, NoToken},
             saved.expire_at \in {s.expire_at, 0},
             saved.user_entity \in {s.user_entity, NoUser}
      PROVE  ExportIsOne'
  <2>1. s.expire_at \in Int /\ s \in issued'
    BY <1>2 DEF GlobalTypeOK, NbSessionTokens
  <2>2. IsExpired(s.expire_at)'
    BY <1>2, <2>1, StillExpired
  <2> QED BY <1>2, <2>1, <2>2 DEF ExportIsOne
<1> QED BY <1>1, <1>2 DEF ExportIsOne

(* What an import takes is a whole session; a refused one has expired.     *)
LEMMA ImportTakesOne ==
  ASSUME GlobalTypeOK, ExportIsOne, saved.session_token # NoToken
  PROVE  /\ ~IsExpired(saved.expire_at) => saved \in issued
         /\ IsExpired(saved.expire_at) =>
              \E s \in issued : /\ s.session_token = saved.session_token
                                /\ IsExpired(s.expire_at)
<1>1. saved # EmptySession
  BY DEF EmptySession
<1>2. CASE saved \in issued
  BY <1>2
<1>3. ASSUME NEW s \in issued, IsExpired(s.expire_at),
             saved.session_token \in {s.session_token, NoToken},
             saved.expire_at \in {s.expire_at, 0}
      PROVE  IsExpired(saved.expire_at) /\ s.session_token = saved.session_token
  BY <1>3 DEF IsExpired, GlobalTypeOK
<1> QED BY <1>1, <1>2, <1>3 DEF ExportIsOne

(* What a saved string holds once the expiration has been read as well.    *)
LEMMA ExportWritesOne ==
  ASSUME LocalTypeOK, GlobalTypeOK, IssuedOK, NEW t \in Threads, ReadOK(t),
         ExportExpire(t)
  PROVE  ExportIsOne'
<1> USE DEF GlobalTypeOK, LocalTypeOK
<1> DEFINE s == session_token
           n == GetExpireAt(session_token)
<1>1. /\ s \in issued /\ s.session_token # NoToken /\ s.expire_at \in 0 .. IntMax
      /\ Read(json[t].user_entity, s.user_entity, NoUser)
      /\ Read(json[t].session_token, s.session_token, NoToken)
  BY DEF ExportExpire, ReadOK, IssuedOK
<1>2. n = s.expire_at \/ (n = 0 /\ IsExpired(s.expire_at))
  BY <1>1 DEF GetExpireAt, IsValid
<1>3. ToInt(n) = n
  <2>1. n \in 0 .. IntMax
    BY <1>1, <1>2, NumbersAssumption
  <2> QED BY <2>1, ToIntKeeps
<1>4. saved' = [json[t] EXCEPT !.expire_at = n]
  BY <1>3 DEF ExportExpire
<1>5. /\ saved'.session_token = json[t].session_token
      /\ saved'.user_entity = json[t].user_entity
      /\ saved'.expire_at = n
      /\ UNCHANGED <<issued, now>>
  <2>1. UNCHANGED <<issued, now>>
    BY DEF ExportExpire, serverVars
  <2> HIDE DEF n
  <2> QED BY <1>4, <2>1 DEF NbSessionTokens
<1>6. CASE IsExpired(s.expire_at)
  BY <1>1, <1>2, <1>5, <1>6 DEF Read, ExportIsOne, IsExpired
<1>7. CASE ~IsExpired(s.expire_at)
  <2>1. /\ json[t].user_entity = s.user_entity
        /\ json[t].session_token = s.session_token /\ n = s.expire_at
    BY <1>1, <1>2, <1>7 DEF Read
  <2>2. saved' = s
    <3>1. s \in NbSessionTokens /\ json[t] \in NbSessionTokens
      OBVIOUS
    <3> HIDE DEF s, n
    <3> QED BY <1>4, <2>1, <3>1 DEF NbSessionTokens
  <2> QED BY <1>1, <1>5, <2>2 DEF ExportIsOne
<1> QED BY <1>6, <1>7

(* The facts a step of the one caller establishes.                         *)
OwnOK(t) == /\ IssuedOK /\ ExportIsOne /\ session_token \in WholeOrNone
            /\ ReadOK(t) /\ CarriesOK(t)

LEMMA OneAfterStart ==
  ASSUME BaseInv, NEW t \in Threads, OwnOK(t), Start(t)
  PROVE  OwnOK(t)'
<1> USE DEF BaseInv, LocalTypeOK, Goto, Result, OwnOK
<1>1. UNCHANGED <<session_token, issued, now>>
  BY DEF Start, Request, LoginRefused, Login, LogoutRefused, Logout,
         ExportRefused, Export, Import, userVars, serverVars
<1>2. ExportIsOne'
  <2>1. CASE ExportRefused(t)
    BY <2>1 DEF ExportRefused, ExportIsOne
  <2>2. CASE ~ExportRefused(t)
    <3>1. saved' = saved
      BY <2>2 DEF Start, Request, LoginRefused, Login, LogoutRefused, Logout,
                  Export, Import, userVars
    <3> QED BY <1>1, <3>1, StillOne DEF GlobalTypeOK
  <2> QED BY <2>1, <2>2
<1>3. pc'[t] \in {"create", "return", "user", "set"}
  BY DEF Start, Request, LoginRefused, Login, LogoutRefused, Logout,
         ExportRefused, Export, Import, Call
<1>4. pc'[t] = "user" => session_token \in issued
  <2>1. pc'[t] = "user" => IsValid(session_token)
    BY DEF Start, Request, LoginRefused, Login, LogoutRefused, Logout,
           ExportRefused, Export, Import, Call
  <2>2. ~IsValid(EmptySession)
    BY DEF EmptySession, IsValid
  <2> QED BY <2>1, <2>2 DEF WholeOrNone
<1>5. CASE Import(t)
  <2>1. /\ json'[t] = saved /\ result_code'[t] = ImportCode
        /\ pc'[t] = IF ImportCode = "NB_OK" THEN "set" ELSE "return"
    BY <1>5 DEF Import, Call
  <2>2. ImportCode = "NB_OK" => saved \in issued
    BY ImportTakesOne DEF ImportCode
  <2>3. ImportCode = "NB_ERROR_SESSION_EXPIRED" =>
          \E s \in issued : /\ s.session_token = saved.session_token
                            /\ IsExpired(s.expire_at)
    BY ImportTakesOne DEF ImportCode
  <2> QED BY <1>1, <1>2, <1>3, <1>4, <2>1, <2>2, <2>3
          DEF ReadOK, CarriesOK, Replied, WholeOrNone, IssuedOK, IsExpired
<1>6. CASE ~Import(t)
  <2>1. pc'[t] # "set" /\ result_code'[t] # "NB_ERROR_SESSION_EXPIRED"
    BY <1>6 DEF Start, Request, LoginRefused, Login, LogoutRefused, Logout,
                ExportRefused, Export, Call
  <2> QED BY <1>1, <1>2, <1>3, <1>4, <2>1
          DEF ReadOK, CarriesOK, Replied, WholeOrNone, IssuedOK
<1> QED BY <1>5, <1>6

LEMMA OneAfterServer ==
  ASSUME WideEnough, BaseInv, NEW t \in Threads, OwnOK(t), Server(t)
  PROVE  OwnOK(t)'
<1> USE DEF BaseInv, LocalTypeOK, GlobalTypeOK, OwnOK
<1>1. /\ pc'[t] = "push" /\ result_code'[t] # "NB_ERROR_SESSION_EXPIRED"
      /\ UNCHANGED <<session_token, saved, now>>
  BY DEF Server, ServerFails, ServerLogin, ServerLogout, ServerRequest,
         MalformedReply, Perform, Goto, Result, userVars
<1>2. /\ issued \subseteq issued' /\ json'[t] \in issued' \cup {EmptySession}
      /\ \A s \in issued' : s.session_token # NoToken /\ s.expire_at \in 0 .. IntMax
  <2>1. CASE ServerLogin(t)
    <3>1. PICK k \in Unused, d \in Lifetimes :
            LET s == [session_token |-> k, expire_at |-> now + d,
                      user_entity |-> user[t]]
            IN  /\ issued' = issued \cup {s}
                /\ \/ Perform(t, "NB_OK", s)
                   \/ Perform(t, "NB_ERROR_CURL_RUNTIME", EmptySession)
      BY <2>1 DEF ServerLogin
    <3>2. k # NoToken /\ now + d \in 0 .. IntMax
      BY EmptyAssumption, NumbersAssumption, TimeAssumption
         DEF Unused, WideEnough, IssuedOK
    <3> QED BY <3>1, <3>2 DEF Perform, IssuedOK
  <2>2. CASE ~ServerLogin(t)
    <3>1. json'[t] = EmptySession /\ issued' = issued
      BY <2>2 DEF Server, ServerFails, ServerLogout, ServerRequest,
                  MalformedReply, Perform, serverVars
    <3> QED BY <3>1 DEF IssuedOK
  <2> QED BY <2>1, <2>2
<1>3. ExportIsOne'
  BY <1>1, <1>2, StillOne
<1> QED BY <1>1, <1>2, <1>3 DEF ReadOK, CarriesOK, Replied, WholeOrNone, IssuedOK

LEMMA OneAfterService ==
  ASSUME BaseInv, NEW t \in Threads, OwnOK(t), Service(t)
  PROVE  OwnOK(t)'
<1> USE DEF BaseInv, LocalTypeOK, GlobalTypeOK, Goto, Result, OwnOK
<1>1. UNCHANGED <<session_token, saved, issued, json, now>>
  BY DEF Service, CreateRequest, TakeExecutor, ReturnExecutor, userVars,
         serverVars
<1>2. /\ pc'[t] \in {"pop", "perform", "push", "done"}
      /\ Replied(t)' => Replied(t)
  BY DEF Service, CreateRequest, TakeExecutor, ReturnExecutor, Replied
<1>3. result_code'[t] # "NB_ERROR_SESSION_EXPIRED"
  BY CheckParameterCodes
     DEF Service, CreateRequest, TakeExecutor, ReturnExecutor, CarriesOK
<1>4. ExportIsOne'
  BY <1>1, StillOne
<1> QED BY <1>1, <1>2, <1>3, <1>4 DEF ReadOK, CarriesOK, WholeOrNone, IssuedOK

LEMMA OneAfterSet ==
  ASSUME BaseInv, NEW t \in Threads, OwnOK(t),
         \/ LoginSetCurrentUser(t) \/ GetCurrentUser(t) \/ EndLogout(t)
         \/ ImportSetCurrentUser(t) \/ EndCall(t)
  PROVE  OwnOK(t)'
<1> USE DEF BaseInv, LocalTypeOK, GlobalTypeOK, Goto, Result, OwnOK
<1>1. UNCHANGED <<saved, issued, now>> /\ pc'[t] \in {"get", "return", "idle"}
  BY DEF LoginSetCurrentUser, GetCurrentUser, EndLogout, ImportSetCurrentUser,
         EndCall, Return, Locally, serverVars
<1>2. session_token' \in WholeOrNone
  BY DEF LoginSetCurrentUser, GetCurrentUser, EndLogout, ImportSetCurrentUser,
         EndCall, SetSessionToken, ClearSessionToken, WholeOrNone, CarriesOK,
         Replied
<1>3. result_code'[t] # "NB_ERROR_SESSION_EXPIRED"
  BY DEF LoginSetCurrentUser, GetCurrentUser, EndLogout, ImportSetCurrentUser,
         EndCall, Return, CarriesOK
<1>4. ExportIsOne'
  BY <1>1, StillOne
<1> QED BY <1>1, <1>2, <1>3, <1>4
        DEF ReadOK, CarriesOK, Replied, WholeOrNone, IssuedOK

LEMMA OneAfterRead ==
  ASSUME BaseInv, NEW t \in Threads, OwnOK(t),
         ExportUser(t) \/ ExportToken(t) \/ ExportExpire(t)
  PROVE  OwnOK(t)'
<1> USE DEF BaseInv, LocalTypeOK, GlobalTypeOK, Goto, OwnOK
<1>1. /\ UNCHANGED <<session_token, issued, now, result_code>>
      /\ session_token \in issued /\ session_token.session_token # NoToken
      /\ pc[t] # "return" /\ pc'[t] \in {"token", "expire", "return"}
  BY DEF ExportUser, ExportToken, ExportExpire, Locally, serverVars, ReadOK,
         IssuedOK
<1>2. ExportIsOne'
  <2>1. CASE ExportExpire(t)
    BY <2>1, ExportWritesOne
  <2>2. CASE ExportUser(t) \/ ExportToken(t)
    BY <1>1, <2>2, StillOne DEF ExportUser, ExportToken, Locally
  <2> QED BY <2>1, <2>2
<1>3. ReadOK(t)'
  <2>1. CASE ExportUser(t)
    <3> DEFINE u == GetSessionUserEntity(session_token)
    <3>1. Read(u, session_token.user_entity, NoUser)
      BY <1>1 DEF Read, GetSessionUserEntity, IsValid
    <3>2. json' = [json EXCEPT ![t].user_entity = u] /\ pc'[t] = "token"
      BY <2>1 DEF ExportUser, Locally
    <3>3. json'[t].user_entity = u
      <4> HIDE DEF u
      <4> QED BY <3>2 DEF NbSessionTokens
    <3> QED BY <1>1, <3>1, <3>2, <3>3 DEF ReadOK, Read, IsExpired
  <2>2. CASE ExportToken(t)
    <3> DEFINE k == GetSessionToken(session_token)
    <3>1. Read(k, session_token.session_token, NoToken)
      BY <1>1 DEF Read, GetSessionToken, IsValid
    <3>2. json' = [json EXCEPT ![t].session_token = k] /\ pc[t] = "token"
      BY <2>2 DEF ExportToken
    <3>3. /\ json'[t].session_token = k
          /\ json'[t].user_entity = json[t].user_entity
      <4> HIDE DEF k
      <4> QED BY <3>2 DEF NbSessionTokens
    <3> QED BY <1>1, <3>1, <3>2, <3>3 DEF ReadOK, Read, IsExpired
  <2>3. CASE ExportExpire(t)
    <3>1. pc'[t] = "return"
      BY <2>3 DEF ExportExpire
    <3> QED BY <3>1 DEF ReadOK
  <2> QED BY <2>1, <2>2, <2>3
<1> QED BY <1>1, <1>2, <1>3 DEF CarriesOK, Replied, WholeOrNone, IssuedOK

LEMMA OneSessionInit == WideEnough /\ Init => OneSessionInv
<1> SUFFICES ASSUME WideEnough, Init PROVE OneSessionInv
  OBVIOUS
<1>1. /\ now = 0 /\ session_token = EmptySession
      /\ \A t \in Threads : pc[t] = "idle" /\ result_code[t] = "NB_FATAL"
  BY DEF Init, ServiceInit
<1>2. saved \in issued \cup {EmptySession}
  BY DEF Init
<1>3. \A s \in issued : s.session_token # NoToken /\ s.expire_at \in 0 .. IntMax
  BY EmptyAssumption, NumbersAssumption, TimeAssumption DEF Init, WideEnough
<1> QED BY <1>1, <1>2, <1>3, TimeAssumption
        DEF OneSessionInv, IssuedOK, ExportIsOne, WholeOrNone, ReadOK,
            CarriesOK, Replied

LEMMA OneSessionStep ==
  ASSUME OneCaller, WideEnough, BaseInv, OneSessionInv, [Next]_vars
  PROVE  OneSessionInv'
<1>1. ASSUME NEW t \in Threads, Start(t) \/ Step(t) PROVE OneSessionInv'
  <2>1. OwnOK(t)
    BY DEF OneSessionInv, OwnOK
  <2>2. OwnOK(t)'
    BY <1>1, <2>1, OneAfterStart, OneAfterServer, OneAfterService, OneAfterSet,
       OneAfterRead DEF Step
  <2> QED BY <2>2 DEF OwnOK, OneSessionInv, OneCaller
<1>2. ASSUME (Tick /\ UNCHANGED <<userVars, serverVars>>) \/ UNCHANGED vars
      PROVE  OneSessionInv'
  <2>1. /\ UNCHANGED <<session_token, saved, issued, pc, op, result_code, json>>
        /\ now \in Nat /\ now' \in Nat /\ now <= now' /\ now' <= MaxTime
    BY <1>2, TimeAssumption
       DEF Tick, vars, serviceVars, callVars, userVars, serverVars, BaseInv,
           GlobalTypeOK, OneSessionInv, IssuedOK
  <2>2. ExportIsOne'
    BY <2>1, StillOne DEF BaseInv, OneSessionInv
  <2>3. \A s \in NbSessionTokens : IsExpired(s.expire_at) => IsExpired(s.expire_at)'
    BY <2>1 DEF IsExpired, NbSessionTokens
  <2>4. issued \subseteq NbSessionTokens /\ session_token \in NbSessionTokens
    BY DEF BaseInv, GlobalTypeOK
  <2>5. ASSUME NEW t \in Threads PROVE ReadOK(t)' /\ CarriesOK(t)'
    BY <2>1, <2>3, <2>4
       DEF OneSessionInv, ReadOK, Read, CarriesOK, Replied, WholeOrNone
  <2> QED BY <2>1, <2>2, <2>5 DEF OneSessionInv, IssuedOK, WholeOrNone
<1> QED BY <1>1, <1>2 DEF Next

LEMMA OneSessionInvariant ==
  ASSUME OneCaller, WideEnough PROVE Spec => []OneSessionInv
<1>1. Init => OneSessionInv
  BY OneSessionInit
<1>2. BaseInv /\ OneSessionInv /\ [Next]_vars => OneSessionInv'
  BY OneSessionStep
<1> QED BY <1>1, <1>2, BaseInvariant, PTL DEF Spec

(* What an application exports is one login, whole, or nothing, or what is *)
(* left of one that expired while it was exported.                         *)
THEOREM ExportsOneLogin ==
  ASSUME OneCaller, WideEnough PROVE Spec => []ExportIsOne
<1>1. Spec => []OneSessionInv
  BY OneSessionInvariant
<1>2. OneSessionInv => ExportIsOne
  BY DEF OneSessionInv
<1> QED BY <1>1, <1>2, PTL

(* An import is told that a session has expired only if it has.            *)
THEOREM ExpiredIsSo ==
  ASSUME OneCaller, WideEnough PROVE Spec => []ExpiredOnlyIfSo
<1>1. Spec => []OneSessionInv
  BY OneSessionInvariant
<1>2. OneSessionInv => ExpiredOnlyIfSo
  BY DEF OneSessionInv, CarriesOK, ExpiredOnlyIfSo
<1> QED BY <1>1, <1>2, PTL

(* With one caller, the service never holds the token of one login with    *)
(* the user or the expiration of another, whatever it exports and imports. *)
THEOREM SessionIsOneWithExport ==
  ASSUME OneCaller, WideEnough PROVE Spec => []SessionIsOne
<1>1. Spec => []OneSessionInv
  BY OneSessionInvariant
<1>2. OneSessionInv => SessionIsOne
  BY DEF OneSessionInv, WholeOrNone, SessionIsOne
<1> QED BY <1>1, <1>2, PTL
=============================================================================
