------------------------------ MODULE NbQuery ------------------------------
(***************************************************************************)
(* The conditions of queries (src/src/nb_query.cc).  An application builds *)
(* NbQuery objects by chained calls and combines them with Or and And,     *)
(* which copy the conditions of their arguments.  What such a chain means  *)
(* is known only to the server, which evaluates the JSON it ends up in.    *)
(*                                                                         *)
(* The JSON of the conditions is a function from its members, keys and     *)
(* "$or" and "$and", to nodes: an operator with the value it is applied    *)
(* to, or with the conditions it combines.  A member that is not there is  *)
(* an Absent node.                                                         *)
(*                                                                         *)
(* The server is external: MongoDB's operators.  The clauses modelled      *)
(* stand for those that set a condition in the same way ("$in", "$regex"). *)
(* An empty key is ignored, and so is an empty list.                       *)
(***************************************************************************)
EXTENDS Naturals, Sequences

CONSTANTS Queries,    \* the NbQuery objects
          Keys,       \* the fields conditions are set on
          Values,     \* their values in documents
          Given,      \* the values compared with
          Repeats,    \* whether a second condition is set on the same key
          MaxCalls    \* bounds the calls

ASSUME QueryAssumption ==
  /\ Values \subseteq Nat /\ Given \subseteq Nat
  /\ Repeats \in BOOLEAN /\ MaxCalls \in Nat
  /\ {"$or", "$and"} \cap Keys = {}

VARIABLES conditions_,  \* conditions_[q]: the JSON of query q
          asked,        \* asked[q]: what the application has asked for
          calls         \* the number of calls so far

queryVars == <<conditions_, asked, calls>>

Ops       == {"", "$eq", "$lt", "$exists"}
Groups    == {"$or", "$and"}
Members   == Keys \cup Groups
Documents == UNION {[fields -> Values] : fields \in SUBSET Keys}

Node(op, value, parts) == [op |-> op, value |-> value, parts |-> parts]

Nodes(parts) == [op    : Ops \cup Groups \cup {"$not", "absent"},
                 value : Given \cup {0},
                 parts : Seq(parts)]

Absent    == Node("absent", 0, <<>>)
NoneGiven == [member \in Members |-> Absent]
-----------------------------------------------------------------------------
(* The server.  The documents a clause on a key selects.                   *)
Satisfy(key, op, value) ==
  CASE op = "$exists" -> {d \in Documents : key \in DOMAIN d}
    [] op = "$lt"     -> {d \in Documents : key \in DOMAIN d /\ d[key] < value}
    [] OTHER          -> {d \in Documents : key \in DOMAIN d /\ d[key] = value}

(* Whether document d satisfies the node of a member, and whether the      *)
(* server takes that node: it refuses a "$not" of a bare value, and groups *)
(* of no conditions.  What it makes of the node's parts is in below.       *)
NodeHolds(below, d, member, node) ==
  LET PartHolds(i) == d \in below[node.parts[i]].selected
  IN CASE node.op = "absent" -> TRUE
       [] node.op = "$not"   -> \A i \in DOMAIN node.parts : ~ PartHolds(i)
       [] node.op = "$or"    -> \E i \in DOMAIN node.parts : PartHolds(i)
       [] node.op = "$and"   -> \A i \in DOMAIN node.parts : PartHolds(i)
       [] OTHER              -> d \in Satisfy(member, node.op, node.value)

NodeTaken(below, node) ==
  /\ node.op \in Groups => node.parts # <<>>
  /\ \A i \in DOMAIN node.parts :
       /\ below[node.parts[i]].accepted
       /\ node.op \in Groups => node.parts[i] # NoneGiven
       /\ node.op = "$not" => \A member \in Members : node.parts[i][member].op # ""

Answer(below) ==
  [c \in [Members -> Nodes(DOMAIN below)] |->
     [selected |-> {d \in Documents : \A m \in Members : NodeHolds(below, d, m, c[m])},
      accepted |-> \A m \in Members : NodeTaken(below, c[m])]]

(* The conditions that nest n deep or less, each with the server's answer. *)
Server[n \in Nat] == Answer(IF n = 0 THEN <<>> ELSE Server[n - 1])

Selected(conditions) == Server[MaxCalls][conditions].selected
Accepted(conditions) == Server[MaxCalls][conditions].accepted
-----------------------------------------------------------------------------
(* A condition replaces the one there is on the same key.                  *)
AddSimpleOp(conditions, op, key, value) ==
  [conditions EXCEPT ![key] = Node(op, value, <<>>)]

(* A bare value becomes an "$eq" first.                                    *)
Not(conditions, key) ==
  LET clause == IF conditions[key].op = "" THEN [conditions[key] EXCEPT !.op = "$eq"]
                ELSE conditions[key]
  IN [conditions EXCEPT ![key] =
        Node("$not", 0, <<[NoneGiven EXCEPT ![key] = clause]>>)]

(* The conditions there are, if any, and those of the queries given.       *)
Concat(conditions, queries) ==
  (IF conditions = NoneGiven THEN <<>> ELSE <<conditions>>) \o queries

ConcatUncleared(conditions, op, queries) ==   \* without conditions_.clear()
  [conditions EXCEPT ![op] = Node(op, 0, Concat(conditions, queries))]

ConcatQueries(conditions, op, queries) ==
  [NoneGiven EXCEPT ![op] = Node(op, 0, Concat(conditions, queries))]

(* What the headers say of the calls: "own" are the documents asked for    *)
(* by the clauses of each key, "rest" those asked for by groups.           *)
NothingAsked == [own |-> [key \in Keys |-> Documents], rest |-> Documents]

Meaning(a) == {d \in a.rest : \A key \in Keys : d \in a.own[key]}

QueryInit ==
  /\ conditions_ = [q \in Queries |-> NoneGiven]
  /\ asked = [q \in Queries |-> NothingAsked]
  /\ calls = 0

Call(q, conditions, a) ==
  /\ calls < MaxCalls /\ calls' = calls + 1
  /\ conditions_' = [conditions_ EXCEPT ![q] = conditions]
  /\ asked' = [asked EXCEPT ![q] = a]

(* EqualTo (two forms, one of them for JSON objects), LessThan, Exists.    *)
Compare(q, op, key, value) ==
  /\ Repeats \/ conditions_[q][key] = Absent
  /\ Call(q, AddSimpleOp(conditions_[q], op, key, value),
          [asked[q] EXCEPT !.own[key] = @ \cap Satisfy(key, op, value)])

Invert(q, key) ==
  /\ conditions_[q][key] # Absent
  /\ Call(q, Not(conditions_[q], key),
          [asked[q] EXCEPT !.own[key] = Documents \ @])

(* Or and And: a query may be an argument twice, and its own.  One without *)
(* conditions is not, since the server refuses what it would become.       *)
Combine(q, op, args) ==
  LET all == (IF conditions_[q] = NoneGiven THEN {} ELSE {q}) \cup {args[i] : i \in DOMAIN args}
      meanings == {Meaning(asked[p]) : p \in all}
  IN /\ \A i \in DOMAIN args : conditions_[args[i]] # NoneGiven
     /\ Call(q, ConcatQueries(conditions_[q], op, [i \in DOMAIN args |-> conditions_[args[i]]]),
             [own  |-> NothingAsked.own,
              rest |-> IF op = "$or" THEN UNION meanings
                       ELSE {d \in Documents : \A m \in meanings : d \in m}])

QueryNext ==
  \E q \in Queries :
    \/ \E op \in Ops, key \in Keys, value \in Given : Compare(q, op, key, value)
    \/ \E key \in Keys : Invert(q, key)
    \/ \E op \in Groups, args \in Queries \X Queries : Combine(q, op, args)
    \/ \E op \in Groups, p \in Queries : Combine(q, op, <<p>>)

-----------------------------------------------------------------------------
(* The server accepts whatever a chain of calls has built                  *)
(* (nb_query.cc:82 and 108).                                               *)
IsAccepted == \A q \in Queries : Accepted(conditions_[q])

(* However the calls were chained and the queries nested, a query selects  *)
(* the documents its calls have asked for (nb_query.h): each comparison    *)
(* adds a condition, Not inverts those of a key, Or and And combine what   *)
(* there is with the queries given, and the calls after that add to it.    *)
SelectsWhatIsAsked == \A q \in Queries : Selected(conditions_[q]) = Meaning(asked[q])
=============================================================================
