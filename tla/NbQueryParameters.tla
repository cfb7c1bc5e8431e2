------------------------- MODULE NbQueryParameters -------------------------
(***************************************************************************)
(* The rest of a query: order, page, projection and the like, set in       *)
(* src/src/nb_query.cc and turned into parameters of the request by        *)
(* NbObjectBucket::GetParams (src/src/nb_object_bucket.cc).  A parameter   *)
(* is sent only if it says something: the others are left to the server,   *)
(* whose default must then be what was meant.  The conditions are those of *)
(* NbQuery.                                                                *)
(***************************************************************************)
EXTENDS Integers, Sequences

CONSTANTS Orders,       \* lists of keys to sort by
          Projections,  \* functions from the names of fields to BOOLEAN
          Numbers       \* numbers given to Skip, Limit and Timeout

ASSUME ParametersAssumption ==
  Numbers \subseteq Int /\ \A p \in Projections : p \in [DOMAIN p -> BOOLEAN]

VARIABLES query,   \* the members of NbQuery
          meant    \* what the application has asked for

parameterVars == <<query, meant>>

LimitDefault == 100

Default == [order |-> <<>>, skip |-> 0, limit |-> LimitDefault, deleteMark |-> FALSE,
            projection |-> <<>>, readPreference |-> "primary", timeout |-> 0]

ParametersInit == query = Default /\ meant = Default

Set(member, value, asked) ==
  /\ query' = [query EXCEPT ![member] = value]
  /\ meant' = [meant EXCEPT ![member] = asked]

(* Both leave what was there when there is nothing, or an empty name.      *)
OrderBy(order) ==
  LET kept == order = <<>> \/ "" \in {order[i] : i \in DOMAIN order}
  IN Set("order", IF kept THEN query.order ELSE order, IF kept THEN meant.order ELSE order)

Projection(projection) ==
  LET kept == projection = <<>> \/ "" \in DOMAIN projection
  IN Set("projection", IF kept THEN query.projection ELSE projection,
         IF kept THEN meant.projection ELSE projection)

Skip(skip) == Set("skip", skip, IF skip < 0 THEN 0 ELSE skip)

Limit(limit) == Set("limit", limit, IF limit \in -1..100 THEN limit ELSE 100)

DeleteMark(delete_mark) == Set("deleteMark", delete_mark, delete_mark)

ReadPreference(preference) == Set("readPreference", preference, preference)

Timeout(timeout) == Set("timeout", timeout, IF timeout < 0 THEN 0 ELSE timeout)

ParametersNext ==
  \/ \E order \in Orders : OrderBy(order)
  \/ \E projection \in Projections : Projection(projection)
  \/ \E n \in Numbers : Skip(n) \/ Limit(n) \/ Timeout(n)
  \/ \E mark \in BOOLEAN : DeleteMark(mark)
  \/ \E preference \in {"primary", "secondaryPreferred"} : ReadPreference(preference)

LimitSent(limit) == limit >= -1 /\ limit < LimitDefault

(* Those of the Get...String of NbQuery that are not empty.                *)
GetParams(q) ==
  LET sent == [order |-> q.order # <<>>, skip |-> q.skip > 0, limit |-> LimitSent(q.limit),
               deleteMark |-> q.deleteMark, projection |-> q.projection # <<>>,
               readPreference |-> q.readPreference # "primary", timeout |-> q.timeout > 0]
  IN [name \in {n \in DOMAIN sent : sent[n]} |-> q[name]]

(* The server's default stands for every parameter it is not sent.         *)
Applied(params) ==
  [name \in DOMAIN Default |->
     IF name \in DOMAIN params THEN params[name] ELSE Default[name]]
-----------------------------------------------------------------------------
(* Whatever was set before and however often, the server applies what the  *)
(* last call that the headers do not declare void asked for, or its own    *)
(* default where that was out of range (nb_query.h:211-286).               *)
AppliesWhatIsMeant == Applied(GetParams(query)) = meant
=============================================================================
