----------------------------- MODULE NbRequests -----------------------------
(***************************************************************************)
(* What an application builds before a request is sent: the conditions and *)
(* the parameters of a query, a call of the API gateway, the ACL of an     *)
(* object.  All of them are edited call by call, and only the server sees  *)
(* what came of it.  They share no state, so that each behaviour has the   *)
(* calls of one of them, the one the variable builder names.               *)
(***************************************************************************)
EXTENDS NbQuery, NbQueryParameters, NbApiGateway, NbAcl

VARIABLE builder

requestVars == <<queryVars, parameterVars, gatewayVars, aclVars, builder>>

RequestsInit ==
  /\ builder \in {"conditions", "parameters", "gateway", "acl"}
  /\ QueryInit
  /\ ParametersInit
  /\ IF builder = "gateway" THEN GatewayInit
     ELSE apigw = "None" /\ wanted = "None" /\ sent = NothingSent
  /\ AclInit

Conditions ==
  /\ builder = "conditions" /\ QueryNext
  /\ UNCHANGED <<parameterVars, gatewayVars, aclVars, builder>>

Parameters ==
  /\ builder = "parameters" /\ ParametersNext
  /\ UNCHANGED <<queryVars, gatewayVars, aclVars, builder>>

Gateway ==
  /\ builder = "gateway" /\ GatewayNext
  /\ UNCHANGED <<queryVars, parameterVars, aclVars, builder>>

Acl ==
  /\ builder = "acl" /\ AclNext
  /\ UNCHANGED <<queryVars, parameterVars, gatewayVars, builder>>

RequestsNext == Conditions \/ Parameters \/ Gateway \/ Acl

RequestsSpec == RequestsInit /\ [][RequestsNext]_requestVars
-----------------------------------------------------------------------------
(* The server accepts the query that a chain of calls has built, selects   *)
(* what the calls have asked for, in the order and on the page they have.  *)
QueryIsAnswered ==
  /\ IsAccepted
  /\ SelectsWhatIsAsked
  /\ AppliesWhatIsMeant
=============================================================================
