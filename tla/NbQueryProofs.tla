--------------------------- MODULE NbQueryProofs ---------------------------
(***************************************************************************)
(* Proofs about NbQuery and NbQueryParameters, and about NbRequests, which *)
(* composes them with NbApiGateway and NbAcl: for any number of queries,   *)
(* any fields, documents and values to compare with, and calls in any      *)
(* order and nesting.                                                      *)
(***************************************************************************)
EXTENDS NbRequests, NbAclProofs

-----------------------------------------------------------------------------
(* The server's answers are defined by recursion over the depth to which   *)
(* conditions nest.  Such a definition denotes a function only if there is *)
(* one that satisfies it: it is put together from chains, the functions    *)
(* that satisfy it up to some depth.                                       *)
Below(f, n) == IF n = 0 THEN <<>> ELSE f[n - 1]

Chain(f, n) ==
  f = [i \in 0 .. n |-> f[i]] /\ \A i \in 0 .. n : f[i] = Answer(Below(f, i))

LEMMA ChainsAgree ==
  ASSUME NEW m \in Nat, NEW f, Chain(f, m), NEW n \in Nat, NEW g, Chain(g, n),
         NEW k \in Nat, k <= m, k <= n
  PROVE  f[k] = g[k]
<1> DEFINE Differ == {i \in Nat : i <= m /\ i <= n /\ f[i] # g[i]}
<1> SUFFICES ASSUME k \in Differ PROVE FALSE
  OBVIOUS
<1>1. PICK i \in Differ : \A j \in Differ : i <= j
  <2> HIDE DEF Differ
  <2>1. Differ \in SUBSET Nat
    BY DEF Differ
  <2> QED BY <2>1, LeastElement
<1>2. i \in 0 .. m /\ i \in 0 .. n /\ i \in Nat /\ f[i] # g[i]
  OBVIOUS
<1>3. Below(f, i) = Below(g, i)
  <2>1. CASE i = 0
    BY <2>1 DEF Below
  <2>2. CASE i # 0
    <3>1. i - 1 \in Nat /\ i - 1 <= m /\ i - 1 <= n /\ ~(i <= i - 1)
      BY <1>2, <2>2
    <3>2. i - 1 \notin Differ
      BY <1>1, <3>1
    <3> QED BY <2>2, <3>1, <3>2 DEF Below
  <2> QED BY <2>1, <2>2
<1>4. f[i] = Answer(Below(f, i)) /\ g[i] = Answer(Below(g, i))
  BY <1>2 DEF Chain
<1> QED BY <1>2, <1>3, <1>4

LEMMA ChainGrows ==
  ASSUME NEW n \in Nat, NEW f, Chain(f, n)
  PROVE  \E g : Chain(g, n + 1)
<1> DEFINE g == [i \in 0 .. n + 1 |-> IF i = n + 1 THEN Answer(f[n]) ELSE f[i]]
<1>1. ASSUME NEW i \in 0 .. n PROVE g[i] = f[i]
  OBVIOUS
<1>2. ASSUME NEW i \in 0 .. n + 1 PROVE g[i] = Answer(Below(g, i))
  <2>1. CASE i = n + 1
    <3>1. i # 0 /\ i - 1 = n
      BY <2>1
    <3>2. g[i] = Answer(f[n]) /\ g[n] = f[n]
      BY <2>1
    <3> QED BY <3>1, <3>2 DEF Below
  <2>2. CASE i # n + 1
    <3>1. i \in 0 .. n
      BY <2>2
    <3>2. f[i] = Answer(Below(f, i))
      BY <3>1 DEF Chain
    <3>3. Below(g, i) = Below(f, i)
      <4>1. CASE i = 0
        BY <4>1 DEF Below
      <4>2. CASE i # 0
        <5>1. i - 1 \in 0 .. n
          BY <3>1, <4>2
        <5> HIDE DEF g
        <5> QED BY <1>1, <4>2, <5>1 DEF Below
      <4> QED BY <4>1, <4>2
    <3> HIDE DEF g
    <3> QED BY <1>1, <3>1, <3>2, <3>3
  <2> QED BY <2>1, <2>2
<1>3. Chain(g, n + 1)
  <2>1. g = [i \in 0 .. n + 1 |-> g[i]]
    OBVIOUS
  <2> HIDE DEF g
  <2> QED BY <1>2, <2>1 DEF Chain
<1> QED BY <1>3

LEMMA ChainExists == \A n \in Nat : \E f : Chain(f, n)
<1> DEFINE Without == {n \in Nat : ~ \E f : Chain(f, n)}
<1> SUFFICES ASSUME NEW n \in Without PROVE FALSE
  OBVIOUS
<1>1. PICK m \in Without : \A j \in Without : m <= j
  <2> HIDE DEF Without
  <2>1. Without \in SUBSET Nat
    BY DEF Without
  <2> QED BY <2>1, LeastElement
<1>2. CASE m = 0
  <2> DEFINE f == [i \in 0 .. 0 |-> Answer(<<>>)]
  <2>1. f = [i \in 0 .. 0 |-> f[i]]
    OBVIOUS
  <2>2. \A i \in 0 .. 0 : f[i] = Answer(<<>>) /\ Below(f, i) = <<>>
    BY DEF Below
  <2> HIDE DEF f
  <2>3. Chain(f, 0)
    BY <2>1, <2>2 DEF Chain
  <2> QED BY <1>2, <2>3
<1>3. CASE m # 0
  <2>1. m - 1 \in Nat /\ ~(m <= m - 1) /\ (m - 1) + 1 = m
    BY <1>3
  <2>2. PICK f : Chain(f, m - 1)
    BY <1>1, <2>1
  <2>3. \E g : Chain(g, m)
    BY <2>1, <2>2, ChainGrows
  <2> QED BY <2>3
<1> QED BY <1>2, <1>3

LEMMA ServerIsDefined ==
  \A n \in Nat : Server[n] = Answer(IF n = 0 THEN <<>> ELSE Server[n - 1])
<1> DEFINE Of(n) == CHOOSE f : Chain(f, n)
           s     == [n \in Nat |-> Of(n)[n]]
<1>1. ASSUME NEW n \in Nat PROVE Chain(Of(n), n)
  BY ChainExists
<1>2. ASSUME NEW n \in Nat
      PROVE  s[n] = Answer(IF n = 0 THEN <<>> ELSE s[n - 1])
  <2>1. s[n] = Answer(Below(Of(n), n))
    <3>1. n \in 0 .. n
      OBVIOUS
    <3> HIDE DEF Of
    <3> QED BY <1>1, <3>1 DEF Chain
  <2>2. CASE n = 0
    BY <2>1, <2>2 DEF Below
  <2>3. CASE n # 0
    <3>1. n - 1 \in Nat /\ n - 1 <= n
      BY <2>3
    <3>2. Of(n)[n - 1] = Of(n - 1)[n - 1]
      <4> HIDE DEF Of
      <4> QED BY <1>1, <3>1, ChainsAgree
    <3> HIDE DEF Of
    <3> QED BY <2>1, <2>3, <3>1, <3>2 DEF Below
  <2> QED BY <2>2, <2>3
<1>3. s = [n \in Nat |-> Answer(IF n = 0 THEN <<>> ELSE s[n - 1])]
  <2> HIDE DEF Of
  <2>1. s = [n \in Nat |-> s[n]]
    OBVIOUS
  <2> HIDE DEF s
  <2> QED BY <1>2, <2>1
<1>4. Server = [n \in Nat |-> Answer(IF n = 0 THEN <<>> ELSE Server[n - 1])]
  <2> HIDE DEF s
  <2> QED BY <1>3 DEF Server
<1> QED BY <1>4
-----------------------------------------------------------------------------
(* Conditions that nest n deep or less, and what the server makes of them. *)
Deep(n) == DOMAIN Server[n]

LEMMA AnswerDomain ==
  ASSUME NEW f PROVE DOMAIN Answer(f) = [Members -> Nodes(DOMAIN f)]
  BY DEF Answer

LEMMA AnswerSelected ==
  ASSUME NEW f, NEW c \in [Members -> Nodes(DOMAIN f)]
  PROVE  Answer(f)[c].selected =
           {d \in Documents : \A m \in Members : NodeHolds(f, d, m, c[m])}
  BY DEF Answer

LEMMA AnswerAccepted ==
  ASSUME NEW f, NEW c \in [Members -> Nodes(DOMAIN f)]
  PROVE  Answer(f)[c].accepted = \A m \in Members : NodeTaken(f, c[m])
  BY DEF Answer

LEMMA AnswerIs ==
  ASSUME NEW f, NEW c \in [Members -> Nodes(DOMAIN f)]
  PROVE  Answer(f)[c] =
           [selected |-> {d \in Documents : \A m \in Members : NodeHolds(f, d, m, c[m])},
            accepted |-> \A m \in Members : NodeTaken(f, c[m])]
  BY DEF Answer

LEMMA NodesGrow ==
  ASSUME NEW S, NEW T, S \subseteq T PROVE Nodes(S) \subseteq Nodes(T)
<1>1. Seq(S) \subseteq Seq(T)
  OBVIOUS
<1> QED BY <1>1 DEF Nodes

LEMMA NodeParts ==
  ASSUME NEW S, NEW node \in Nodes(S), NEW i \in DOMAIN node.parts
  PROVE  node.parts[i] \in S
<1>1. node.parts \in Seq(S)
  BY DEF Nodes
<1> QED BY <1>1

(* The answer about a condition depends on those about its parts only.     *)
LEMMA SameBelow ==
  ASSUME NEW f, NEW g, DOMAIN f \subseteq DOMAIN g,
         \A c \in DOMAIN f : g[c] = f[c]
  PROVE  /\ DOMAIN Answer(f) \subseteq DOMAIN Answer(g)
         /\ \A c \in DOMAIN Answer(f) : Answer(g)[c] = Answer(f)[c]
<1>1. Nodes(DOMAIN f) \subseteq Nodes(DOMAIN g)
  BY NodesGrow
<1>2. [Members -> Nodes(DOMAIN f)] \subseteq [Members -> Nodes(DOMAIN g)]
  BY <1>1
<1>3. ASSUME NEW c \in [Members -> Nodes(DOMAIN f)]
      PROVE  Answer(g)[c] = Answer(f)[c]
  <2>1. ASSUME NEW m \in Members, NEW i \in DOMAIN c[m].parts
        PROVE  g[c[m].parts[i]] = f[c[m].parts[i]]
    <3>1. c[m] \in Nodes(DOMAIN f)
      OBVIOUS
    <3> QED BY <3>1, NodeParts
  <2>2. ASSUME NEW m \in Members, NEW d
        PROVE  NodeHolds(g, d, m, c[m]) = NodeHolds(f, d, m, c[m])
    BY <2>1 DEF NodeHolds
  <2>3. ASSUME NEW m \in Members
        PROVE  NodeTaken(g, c[m]) = NodeTaken(f, c[m])
    BY <2>1 DEF NodeTaken
  <2>4. c \in [Members -> Nodes(DOMAIN g)]
    BY <1>2
  <2>5. {d \in Documents : \A m \in Members : NodeHolds(g, d, m, c[m])}
          = {d \in Documents : \A m \in Members : NodeHolds(f, d, m, c[m])}
    BY <2>2
  <2>6. (\A m \in Members : NodeTaken(g, c[m])) = (\A m \in Members : NodeTaken(f, c[m]))
    BY <2>3
  <2> DEFINE S(h) == {d \in Documents : \A m \in Members : NodeHolds(h, d, m, c[m])}
             A(h) == \A m \in Members : NodeTaken(h, c[m])
  <2>7. Answer(g)[c] = [selected |-> S(g), accepted |-> A(g)]
    BY <2>4, AnswerIs
  <2>8. Answer(f)[c] = [selected |-> S(f), accepted |-> A(f)]
    BY AnswerIs
  <2>9. S(g) = S(f) /\ A(g) = A(f)
    BY <2>5, <2>6
  <2> HIDE DEF S, A
  <2> QED BY <2>7, <2>8, <2>9
<1> QED BY <1>2, <1>3, AnswerDomain

LEMMA DeepZero == Deep(0) = [Members -> Nodes({})]
<1>1. Server[0] = Answer(<<>>)
  BY ServerIsDefined
<1>2. DOMAIN <<>> = {}
  OBVIOUS
<1> QED BY <1>1, <1>2, AnswerDomain DEF Deep

LEMMA DeepNext ==
  ASSUME NEW n \in Nat
  PROVE  Deep(n + 1) = [Members -> Nodes(Deep(n))] /\ Server[n + 1] = Answer(Server[n])
<1>1. n + 1 \in Nat /\ n + 1 # 0 /\ (n + 1) - 1 = n
  OBVIOUS
<1>2. Server[n + 1] = Answer(Server[n])
  BY <1>1, ServerIsDefined
<1> QED BY <1>2, AnswerDomain DEF Deep

(* What conditions are taken for does not depend on how deep the server    *)
(* looks, once it looks deep enough.                                       *)
Agree(i, j) == Deep(i) \subseteq Deep(j) /\ \A c \in Deep(i) : Server[j][c] = Server[i][c]

LEMMA Deeper == \A n \in Nat : Agree(n, n + 1)
<1> DEFINE Wrong == {n \in Nat : ~Agree(n, n + 1)}
<1> SUFFICES ASSUME NEW x \in Wrong PROVE FALSE
  OBVIOUS
<1>1. PICK n \in Wrong : \A j \in Wrong : n <= j
  <2> HIDE DEF Wrong
  <2>1. Wrong \in SUBSET Nat
    BY DEF Wrong
  <2> QED BY <2>1, LeastElement
<1>2. Server[n + 1] = Answer(Server[n])
  BY DeepNext
<1>3. CASE n = 0
  <2>1. Server[0] = Answer(<<>>)
    BY ServerIsDefined
  <2>2. DOMAIN <<>> = {}
    OBVIOUS
  <2>3. /\ DOMAIN Answer(<<>>) \subseteq DOMAIN Answer(Server[0])
        /\ \A c \in DOMAIN Answer(<<>>) : Answer(Server[0])[c] = Answer(<<>>)[c]
    BY <2>2, SameBelow
  <2> QED BY <1>1, <1>2, <1>3, <2>1, <2>3 DEF Agree, Deep
<1>4. CASE n # 0
  <2>1. n - 1 \in Nat /\ ~(n <= n - 1) /\ (n - 1) + 1 = n
    BY <1>4
  <2>2. Agree(n - 1, n)
    BY <1>1, <2>1
  <2>3. Server[n] = Answer(Server[n - 1])
    BY <2>1, DeepNext
  <2>4. /\ DOMAIN Answer(Server[n - 1]) \subseteq DOMAIN Answer(Server[n])
        /\ \A c \in DOMAIN Answer(Server[n - 1]) :
             Answer(Server[n])[c] = Answer(Server[n - 1])[c]
    BY <2>2, SameBelow DEF Agree, Deep
  <2> QED BY <1>1, <1>2, <2>3, <2>4 DEF Agree, Deep
<1> QED BY <1>3, <1>4

LEMMA DeepGrows ==
  ASSUME NEW i \in Nat, NEW j \in Nat, i <= j PROVE Deep(i) \subseteq Deep(j)
<1> DEFINE Wrong == {k \in Nat : i <= k /\ ~(Deep(i) \subseteq Deep(k))}
<1> SUFFICES ASSUME j \in Wrong PROVE FALSE
  OBVIOUS
<1>1. PICK k \in Wrong : \A l \in Wrong : k <= l
  <2> HIDE DEF Wrong
  <2>1. Wrong \in SUBSET Nat
    BY DEF Wrong
  <2> QED BY <2>1, LeastElement
<1>2. k # i
  BY <1>1
<1>3. k - 1 \in Nat /\ i <= k - 1 /\ ~(k <= k - 1) /\ (k - 1) + 1 = k
  BY <1>1, <1>2
<1>4. Deep(i) \subseteq Deep(k - 1)
  BY <1>1, <1>3
<1>5. Deep(k - 1) \subseteq Deep(k)
  BY <1>3, Deeper DEF Agree
<1> QED BY <1>1, <1>4, <1>5

(* The answers to all the conditions an application can build.             *)
Full == Server[MaxCalls]

LEMMA SelectedIs ==
  ASSUME NEW c \in Deep(MaxCalls)
  PROVE  Selected(c) = {d \in Documents : \A m \in Members : NodeHolds(Full, d, m, c[m])}
<1>1. Server[MaxCalls + 1][c] = Server[MaxCalls][c]
  BY Deeper, QueryAssumption DEF Agree
<1>2. /\ c \in Deep(MaxCalls + 1) /\ Server[MaxCalls + 1] = Answer(Full)
      /\ Deep(MaxCalls + 1) = [Members -> Nodes(DOMAIN Full)]
  BY Deeper, DeepNext, QueryAssumption DEF Agree, Full, Deep
<1>3. Answer(Full)[c].selected
        = {d \in Documents : \A m \in Members : NodeHolds(Full, d, m, c[m])}
  BY <1>2, AnswerSelected
<1> QED BY <1>1, <1>2, <1>3 DEF Selected

LEMMA AcceptedIs ==
  ASSUME NEW c \in Deep(MaxCalls)
  PROVE  Accepted(c) = \A m \in Members : NodeTaken(Full, c[m])
<1>1. Server[MaxCalls + 1][c] = Server[MaxCalls][c]
  BY Deeper, QueryAssumption DEF Agree
<1>2. /\ c \in Deep(MaxCalls + 1) /\ Server[MaxCalls + 1] = Answer(Full)
      /\ Deep(MaxCalls + 1) = [Members -> Nodes(DOMAIN Full)]
  BY Deeper, DeepNext, QueryAssumption DEF Agree, Full, Deep
<1>3. Answer(Full)[c].accepted = \A m \in Members : NodeTaken(Full, c[m])
  BY <1>2, AnswerAccepted
<1> QED BY <1>1, <1>2, <1>3 DEF Accepted
-----------------------------------------------------------------------------
(* What a query has been asked for, member by member of its conditions.    *)
Wishes == [own : [Keys -> SUBSET Documents], rest : SUBSET Documents]

Asks(c, a) ==
  /\ a \in Wishes
  /\ \A key \in Keys : a.own[key] = {d \in Documents : NodeHolds(Full, d, key, c[key])}
  /\ a.rest = {d \in Documents : \A g \in Groups : NodeHolds(Full, d, g, c[g])}
  /\ \A m \in Members : NodeTaken(Full, c[m])

LEMMA KeysAndGroups == Members = Keys \cup Groups /\ Keys \cap Groups = {}
  BY QueryAssumption DEF Members, Groups

LEMMA SelectedIsMeaning ==
  ASSUME NEW c \in Deep(MaxCalls), NEW a, Asks(c, a)
  PROVE  Selected(c) = Meaning(a) /\ Accepted(c) = TRUE
<1>1. Selected(c) = {d \in Documents : \A m \in Members : NodeHolds(Full, d, m, c[m])}
  BY SelectedIs
<1>2. Meaning(a) = {d \in Documents : \A m \in Members : NodeHolds(Full, d, m, c[m])}
  BY KeysAndGroups DEF Asks, Meaning
<1>3. Accepted(c) = TRUE
  BY AcceptedIs DEF Asks
<1> QED BY <1>1, <1>2, <1>3

LEMMA AbsentHolds ==
  ASSUME NEW f, NEW d, NEW m
  PROVE  NodeHolds(f, d, m, Absent) /\ NodeTaken(f, Absent)
  BY DEF NodeHolds, NodeTaken, Absent, Node, Groups

LEMMA AbsentIsNode == ASSUME NEW S PROVE Absent \in Nodes(S)
<1>1. <<>> \in Seq(S)
  OBVIOUS
<1> QED BY <1>1 DEF Absent, Node, Nodes

LEMMA NoneIsDeep == ASSUME NEW n \in Nat PROVE NoneGiven \in Deep(n)
<1>1. NoneGiven \in Deep(0)
  BY DeepZero, AbsentIsNode DEF NoneGiven
<1> QED BY <1>1, DeepGrows

LEMMA NoneAsks == Asks(NoneGiven, NothingAsked)
<1>1. \A m \in Members : NoneGiven[m] = Absent
  BY DEF NoneGiven
<1>2. /\ NothingAsked \in Wishes
      /\ \A key \in Keys : NothingAsked.own[key] = Documents
      /\ NothingAsked.rest = Documents
  BY DEF NothingAsked, Wishes
<1> QED BY <1>1, <1>2, AbsentHolds, KeysAndGroups DEF Asks

(* A member of conditions that nest n deep is a node that nests as deep.   *)
LEMMA DeepNodes ==
  ASSUME NEW n \in Nat, NEW c \in Deep(n)
  PROVE  c \in [Members -> Nodes(Deep(n))]
<1>1. Deep(n) \subseteq Deep(n + 1)
  BY DeepGrows
<1> QED BY <1>1, DeepNext

LEMMA DeepUpdate ==
  ASSUME NEW n \in Nat, NEW c \in Deep(n), NEW m \in Members,
         NEW node \in Nodes(Deep(n))
  PROVE  [c EXCEPT ![m] = node] \in Deep(n + 1)
<1>1. c \in [Members -> Nodes(Deep(n))]
  BY DeepNodes
<1>2. [c EXCEPT ![m] = node] \in [Members -> Nodes(Deep(n))]
  BY <1>1
<1> QED BY <1>2, DeepNext

(* Comparisons.                                                            *)
LEMMA ClauseHolds ==
  ASSUME NEW f, NEW d, NEW key, NEW op \in Ops, NEW value
  PROVE  /\ NodeHolds(f, d, key, Node(op, value, <<>>)) <=> d \in Satisfy(key, op, value)
         /\ NodeTaken(f, Node(op, value, <<>>))
<1>1. op \notin {"absent", "$not", "$or", "$and"}
  BY DEF Ops
<1>2. /\ Node(op, value, <<>>).op = op /\ Node(op, value, <<>>).value = value
      /\ Node(op, value, <<>>).parts = <<>>
  BY DEF Node
<1>3. NodeHolds(f, d, key, Node(op, value, <<>>)) <=> d \in Satisfy(key, op, value)
  BY <1>1, <1>2 DEF NodeHolds
<1>4. NodeTaken(f, Node(op, value, <<>>))
  <2> DEFINE node == Node(op, value, <<>>)
  <2>1. node.op \notin Groups /\ DOMAIN node.parts = {}
    BY <1>1, <1>2 DEF Groups
  <2> HIDE DEF node
  <2>2. NodeTaken(f, node)
    BY <2>1 DEF NodeTaken
  <2> QED BY <2>2 DEF node
<1> QED BY <1>3, <1>4

LEMMA ClauseIsNode ==
  ASSUME NEW S, NEW op \in Ops, NEW value \in Given
  PROVE  Node(op, value, <<>>) \in Nodes(S)
<1>1. <<>> \in Seq(S)
  OBVIOUS
<1> QED BY <1>1 DEF Node, Nodes

(* A key gets a node that holds for the documents it is asked for.         *)
LEMMA KeyAsks ==
  ASSUME NEW n \in Nat, NEW c \in Deep(n), NEW a, Asks(c, a), NEW key \in Keys,
         NEW node, NodeTaken(Full, node), NEW documents \in SUBSET Documents,
         \A d \in Documents : d \in documents <=> NodeHolds(Full, d, key, node)
  PROVE  Asks([c EXCEPT ![key] = node], [a EXCEPT !.own[key] = documents])
<1> DEFINE e == [c EXCEPT ![key] = node]
           b == [a EXCEPT !.own[key] = documents]
<1>1. /\ e[key] = node /\ \A m \in Members : m # key => e[m] = c[m]
      /\ key \in Members
  BY DeepNodes, KeysAndGroups
<1>2. /\ b \in Wishes /\ b.rest = a.rest /\ b.own[key] = documents
      /\ \A k \in Keys : k # key => b.own[k] = a.own[k]
  BY DEF Asks, Wishes
<1>3. \A g \in Groups : e[g] = c[g]
  BY <1>1, KeysAndGroups
<1> HIDE DEF e, b
<1>4. ASSUME NEW k \in Keys
      PROVE  b.own[k] = {d \in Documents : NodeHolds(Full, d, k, e[k])}
  <2>1. CASE k = key
    BY <1>1, <1>2, <2>1
  <2>2. CASE k # key
    <3>1. e[k] = c[k] /\ b.own[k] = a.own[k]
      BY <1>1, <1>2, <2>2, KeysAndGroups
    <3> QED BY <3>1 DEF Asks
  <2> QED BY <2>1, <2>2
<1>5. b.rest = {d \in Documents : \A g \in Groups : NodeHolds(Full, d, g, e[g])}
  BY <1>2, <1>3 DEF Asks
<1>6. \A m \in Members : NodeTaken(Full, e[m])
  BY <1>1 DEF Asks
<1> QED BY <1>2, <1>4, <1>5, <1>6 DEF Asks, e, b

LEMMA CompareAsks ==
  ASSUME NEW n \in Nat, NEW c \in Deep(n), NEW a, Asks(c, a), NEW key \in Keys,
         c[key] = Absent, NEW op \in Ops, NEW value \in Given
  PROVE  Asks(AddSimpleOp(c, op, key, value),
              [a EXCEPT !.own[key] = @ \cap Satisfy(key, op, value)])
<1> DEFINE node == Node(op, value, <<>>)
           documents == a.own[key] \cap Satisfy(key, op, value)
<1>1. a.own[key] = Documents
  BY AbsentHolds DEF Asks
<1>2. NodeTaken(Full, node)
  BY ClauseHolds
<1>3. \A d \in Documents : d \in documents <=> NodeHolds(Full, d, key, node)
  BY <1>1, ClauseHolds
<1>4. documents \in SUBSET Documents
  BY <1>1
<1> HIDE DEF node, documents
<1>5. Asks([c EXCEPT ![key] = node], [a EXCEPT !.own[key] = documents])
  BY <1>2, <1>3, <1>4, KeyAsks
<1>6. [a EXCEPT !.own[key] = documents]
        = [a EXCEPT !.own[key] = @ \cap Satisfy(key, op, value)]
  BY DEF documents
<1> QED BY <1>5, <1>6 DEF AddSimpleOp, node

(* Not.  The clause that is inverted means what the node meant.            *)
Clause(node) == IF node.op = "" THEN [node EXCEPT !.op = "$eq"] ELSE node

LEMMA SatisfyBare ==
  ASSUME NEW key, NEW value PROVE Satisfy(key, "", value) = Satisfy(key, "$eq", value)
  BY DEF Satisfy

LEMMA ClauseMeans ==
  ASSUME NEW S, NEW node \in Nodes(S), NodeTaken(Full, node), NEW key
  PROVE  /\ Clause(node) \in Nodes(S) /\ Clause(node).op # ""
         /\ NodeTaken(Full, Clause(node))
         /\ \A d : NodeHolds(Full, d, key, Clause(node)) <=> NodeHolds(Full, d, key, node)
<1>1. CASE node.op # ""
  BY <1>1 DEF Clause
<1>2. CASE node.op = ""
  <2> DEFINE e == [node EXCEPT !.op = "$eq"]
  <2>1. e.op = "$eq" /\ e.value = node.value /\ e.parts = node.parts
    BY DEF Nodes
  <2>2. e \in Nodes(S)
    BY DEF Nodes, Ops
  <2>3. Clause(node) = e
    BY <1>2 DEF Clause
  <2> HIDE DEF e
  <2>4. NodeTaken(Full, e)
    BY <1>2, <2>1 DEF NodeTaken, Groups
  <2>5. ASSUME NEW d
        PROVE  NodeHolds(Full, d, key, e) <=> NodeHolds(Full, d, key, node)
    BY <1>2, <2>1, SatisfyBare DEF NodeHolds
  <2> QED BY <2>1, <2>2, <2>3, <2>4, <2>5
<1> QED BY <1>1, <1>2

LEMMA OneElement == ASSUME NEW x PROVE DOMAIN <<x>> = {1} /\ <<x>>[1] = x
<1>1. Len(<<x>>) = 1 /\ DOMAIN <<x>> = 1 .. Len(<<x>>) /\ <<x>>[1] = x
  OBVIOUS
<1>2. 1 .. 1 = {1}
  OBVIOUS
<1> QED BY <1>1, <1>2

LEMMA NotNode ==
  ASSUME NEW n \in Nat, n <= MaxCalls, NEW clause \in Nodes(Deep(n)), NEW key \in Keys,
         [NoneGiven EXCEPT ![key] = clause] \in Deep(n),
         clause.op # "", NodeTaken(Full, clause)
  PROVE  LET node == Node("$not", 0, <<[NoneGiven EXCEPT ![key] = clause]>>)
         IN  /\ NodeTaken(Full, node)
             /\ \A d \in Documents :
                  NodeHolds(Full, d, key, node) <=> ~ NodeHolds(Full, d, key, clause)
<1> DEFINE part == [NoneGiven EXCEPT ![key] = clause]
           node == Node("$not", 0, <<part>>)
<1>1. part \in Deep(MaxCalls)
  BY DeepGrows, QueryAssumption
<1>2. \A m \in Members : part[m] = IF m = key THEN clause ELSE Absent
  BY DEF NoneGiven
<1>3. key \in Members
  BY KeysAndGroups
<1> HIDE DEF part
<1>4. \A d \in Documents : d \in Selected(part) <=> NodeHolds(Full, d, key, clause)
  <2>1. Selected(part) = {d \in Documents : \A m \in Members : NodeHolds(Full, d, m, part[m])}
    BY <1>1, SelectedIs
  <2>2. ASSUME NEW d \in Documents
        PROVE  (\A m \in Members : NodeHolds(Full, d, m, part[m]))
                 <=> NodeHolds(Full, d, key, clause)
    BY <1>2, <1>3, AbsentHolds
  <2> QED BY <2>1, <2>2
<1>5. Accepted(part) = TRUE
  BY <1>1, <1>2, AcceptedIs, AbsentHolds
<1>6. node.op = "$not" /\ DOMAIN node.parts = {1} /\ node.parts[1] = part
  <2>1. node.op = "$not" /\ node.parts = <<part>>
    BY DEF Node
  <2>2. DOMAIN <<part>> = {1} /\ <<part>>[1] = part
    BY OneElement
  <2> HIDE DEF node
  <2> QED BY <2>1, <2>2
<1>7. Full[part].accepted = TRUE /\ Full[part].selected = Selected(part)
  BY <1>5 DEF Accepted, Selected, Full
<1>8. \A m \in Members : part[m].op # ""
  <2>1. Absent.op # ""
    BY DEF Absent, Node
  <2> QED BY <1>2, <2>1
<1> HIDE DEF node
<1>9. NodeTaken(Full, node)
  BY <1>6, <1>7, <1>8 DEF NodeTaken, Groups
<1>10. \A d \in Documents :
         NodeHolds(Full, d, key, node) <=> ~ NodeHolds(Full, d, key, clause)
  BY <1>4, <1>6, <1>7 DEF NodeHolds
<1> QED BY <1>9, <1>10 DEF node, part

(* Conditions with one node of a deep condition are as deep.               *)
LEMMA DeepShape ==
  ASSUME NEW n \in Nat PROVE \E U : Deep(n) = [Members -> Nodes(U)]
<1>1. CASE n = 0
  BY <1>1, DeepZero
<1>2. CASE n # 0
  <2>1. n - 1 \in Nat /\ (n - 1) + 1 = n
    BY <1>2
  <2>2. Deep((n - 1) + 1) = [Members -> Nodes(Deep(n - 1))]
    BY <2>1, DeepNext
  <2> QED BY <2>1, <2>2
<1> QED BY <1>1, <1>2

LEMMA NotAsks ==
  ASSUME NEW n \in Nat, n <= MaxCalls, NEW c \in Deep(n), NEW a, Asks(c, a),
         NEW key \in Keys
  PROVE  /\ Not(c, key) \in Deep(n + 1)
         /\ Asks(Not(c, key), [a EXCEPT !.own[key] = Documents \ @])
<1> DEFINE clause == Clause(c[key])
           part == [NoneGiven EXCEPT ![key] = clause]
           node == Node("$not", 0, <<part>>)
           documents == Documents \ a.own[key]
<1>1. key \in Members /\ c[key] \in Nodes(Deep(n)) /\ NodeTaken(Full, c[key])
  BY DeepNodes, KeysAndGroups DEF Asks
<1>2. /\ clause \in Nodes(Deep(n)) /\ clause.op # "" /\ NodeTaken(Full, clause)
      /\ \A d : NodeHolds(Full, d, key, clause) <=> NodeHolds(Full, d, key, c[key])
  BY <1>1, ClauseMeans
<1>3. part \in Deep(n)
  <2>1. PICK U : Deep(n) = [Members -> Nodes(U)]
    BY DeepShape
  <2>2. c[key] \in Nodes(U)
    BY <1>1, <2>1
  <2>3. clause \in Nodes(U)
    BY <1>1, <2>2, ClauseMeans
  <2>4. NoneGiven \in [Members -> Nodes(U)]
    BY <2>1, NoneIsDeep
  <2> HIDE DEF clause
  <2> QED BY <2>1, <2>3, <2>4
<1>4. /\ NodeTaken(Full, node)
      /\ \A d \in Documents :
           NodeHolds(Full, d, key, node) <=> ~ NodeHolds(Full, d, key, clause)
  <2> HIDE DEF clause
  <2> QED BY <1>2, <1>3, NotNode
<1>5. node \in Nodes(Deep(n))
  <2>1. <<part>> \in Seq(Deep(n))
    <3> HIDE DEF part
    <3> QED BY <1>3
  <2> HIDE DEF part
  <2> QED BY <2>1 DEF Node, Nodes
<1>6. Not(c, key) = [c EXCEPT ![key] = node]
  BY DEF Not, Clause
<1>7. documents \in SUBSET Documents
  OBVIOUS
<1>8. \A d \in Documents : d \in documents <=> NodeHolds(Full, d, key, node)
  <2>1. a.own[key] = {d \in Documents : NodeHolds(Full, d, key, c[key])}
    BY DEF Asks
  <2> HIDE DEF node, clause
  <2> QED BY <1>2, <1>4, <2>1
<1>9. [a EXCEPT !.own[key] = documents] = [a EXCEPT !.own[key] = Documents \ @]
  OBVIOUS
<1> HIDE DEF node, documents
<1>10. Asks([c EXCEPT ![key] = node], [a EXCEPT !.own[key] = documents])
  BY <1>4, <1>7, <1>8, KeyAsks
<1>11. [c EXCEPT ![key] = node] \in Deep(n + 1)
  BY <1>1, <1>5, DeepUpdate
<1> QED BY <1>6, <1>9, <1>10, <1>11

(* Or and And.  The conditions that a group combines.                      *)
IsPart(p, parts) == \E i \in DOMAIN parts : parts[i] = p

LEMMA ConcatType ==
  ASSUME NEW S, NEW c \in S, NEW cs \in Seq(S)
  PROVE  Concat(c, cs) \in Seq(S)
  BY DEF Concat

LEMMA ConcatParts ==
  ASSUME NEW S, NEW c \in S, NEW cs \in Seq(S), NEW p
  PROVE  IsPart(p, Concat(c, cs)) <=> (c # NoneGiven /\ p = c) \/ IsPart(p, cs)
<1> USE DEF IsPart
<1>1. CASE c = NoneGiven
  <2>1. Concat(c, cs) = cs
    BY <1>1 DEF Concat
  <2> QED BY <1>1, <2>1
<1>2. CASE c # NoneGiven
  <2> DEFINE e == <<c>> \o cs
  <2>1. Concat(c, cs) = e
    BY <1>2 DEF Concat
  <2>2. /\ e \in Seq(S) /\ Len(e) = 1 + Len(cs) /\ e[1] = c
        /\ \A i \in 1 .. Len(cs) : e[i + 1] = cs[i]
    OBVIOUS
  <2>3. DOMAIN cs = 1 .. Len(cs) /\ Len(cs) \in Nat /\ DOMAIN e = 1 .. 1 + Len(cs)
    BY <2>2
  <2> HIDE DEF e
  <2>4. ASSUME NEW i \in DOMAIN e
        PROVE  e[i] = c \/ \E j \in DOMAIN cs : cs[j] = e[i]
    <3>1. CASE i = 1
      BY <2>2, <3>1
    <3>2. CASE i # 1
      <4>1. i - 1 \in 1 .. Len(cs) /\ (i - 1) + 1 = i
        BY <2>3, <3>2
      <4> QED BY <2>2, <2>3, <4>1
    <3> QED BY <3>1, <3>2
  <2>5. \E i \in DOMAIN e : e[i] = c
    BY <2>2, <2>3
  <2>6. ASSUME NEW j \in DOMAIN cs PROVE \E i \in DOMAIN e : e[i] = cs[j]
    <3>1. j + 1 \in DOMAIN e /\ e[j + 1] = cs[j]
      BY <2>2, <2>3
    <3> QED BY <3>1
  <2> QED BY <1>2, <2>1, <2>2, <2>4, <2>5, <2>6
<1> QED BY <1>1, <1>2

GroupOf(op, parts) == Node(op, 0, parts)

LEMMA GroupIsNode ==
  ASSUME NEW S, NEW op \in Groups, NEW parts \in Seq(S)
  PROVE  GroupOf(op, parts) \in Nodes(S)
  BY DEF GroupOf, Node, Nodes

LEMMA GroupFields ==
  ASSUME NEW op, NEW parts
  PROVE  GroupOf(op, parts).op = op /\ GroupOf(op, parts).parts = parts
  BY DEF GroupOf, Node

LEMMA GroupTaken ==
  ASSUME NEW op \in Groups, NEW parts, parts # <<>>,
         \A i \in DOMAIN parts : parts[i] # NoneGiven /\ Accepted(parts[i]) = TRUE
  PROVE  NodeTaken(Full, GroupOf(op, parts))
<1>1. op # "$not"
  BY DEF Groups
<1>2. \A i \in DOMAIN parts : Full[parts[i]].accepted
  BY DEF Accepted, Full
<1> DEFINE node == GroupOf(op, parts)
<1>3. node.op = op /\ node.parts = parts
  BY GroupFields
<1> HIDE DEF node
<1>4. NodeTaken(Full, node)
  BY <1>1, <1>2, <1>3 DEF NodeTaken
<1> QED BY <1>4 DEF node

LEMMA GroupHolds ==
  ASSUME NEW op \in Groups, NEW parts, NEW d, NEW m
  PROVE  NodeHolds(Full, d, m, GroupOf(op, parts))
           <=> IF op = "$or" THEN \E i \in DOMAIN parts : d \in Selected(parts[i])
               ELSE \A i \in DOMAIN parts : d \in Selected(parts[i])
<1>1. \A i \in DOMAIN parts : Full[parts[i]].selected = Selected(parts[i])
  BY DEF Selected, Full
<1>2. op = "$or" \/ op = "$and"
  BY DEF Groups
<1>3. CASE op = "$or"
  BY <1>1, <1>3, GroupFields DEF NodeHolds
<1>4. CASE op = "$and"
  BY <1>1, <1>4, GroupFields DEF NodeHolds
<1> QED BY <1>2, <1>3, <1>4

LEMMA GroupAsks ==
  ASSUME NEW op \in Groups, NEW node, NodeTaken(Full, node),
         NEW documents \in SUBSET Documents,
         \A d \in Documents : d \in documents <=> NodeHolds(Full, d, op, node)
  PROVE  Asks([NoneGiven EXCEPT ![op] = node],
              [own |-> NothingAsked.own, rest |-> documents])
<1> DEFINE e == [NoneGiven EXCEPT ![op] = node]
           b == [own |-> NothingAsked.own, rest |-> documents]
<1>1. op \in Members /\ \A key \in Keys : key # op
  BY KeysAndGroups
<1>2. \A m \in Members : e[m] = IF m = op THEN node ELSE Absent
  BY DEF NoneGiven
<1>3. b \in Wishes /\ (\A key \in Keys : b.own[key] = Documents) /\ b.rest = documents
  BY DEF NothingAsked, Wishes
<1> HIDE DEF e, b
<1>4. \A key \in Keys : b.own[key] = {d \in Documents : NodeHolds(Full, d, key, e[key])}
  <2>1. \A key \in Keys : e[key] = Absent
    BY <1>1, <1>2, KeysAndGroups
  <2> QED BY <1>3, <2>1, AbsentHolds
<1>5. b.rest = {d \in Documents : \A g \in Groups : NodeHolds(Full, d, g, e[g])}
  <2>1. \A g \in Groups : e[g] = IF g = op THEN node ELSE Absent
    BY <1>2, KeysAndGroups
  <2>2. ASSUME NEW d \in Documents
        PROVE  (\A g \in Groups : NodeHolds(Full, d, g, e[g])) <=> d \in documents
    BY <2>1, AbsentHolds
  <2> QED BY <1>3, <2>2
<1>6. \A m \in Members : NodeTaken(Full, e[m])
  BY <1>2, AbsentHolds
<1> QED BY <1>3, <1>4, <1>5, <1>6 DEF Asks, e, b
-----------------------------------------------------------------------------
(* The inductive invariant of the conditions: they nest no deeper than     *)
(* there were calls, and each of their members selects what it is asked    *)
(* for.                                                                    *)
QueryInv ==
  /\ calls \in 0 .. MaxCalls
  /\ conditions_ \in [Queries -> Deep(calls)]
  /\ asked \in [Queries -> Wishes]
  /\ \A q \in Queries : Asks(conditions_[q], asked[q])

LEMMA QueryInitially == QueryInit => QueryInv
<1> SUFFICES ASSUME QueryInit PROVE QueryInv
  OBVIOUS
<1>1. NoneGiven \in Deep(0)
  BY NoneIsDeep
<1>2. NothingAsked \in Wishes
  BY DEF NothingAsked, Wishes
<1> QED BY <1>1, <1>2, NoneAsks, QueryAssumption DEF QueryInit, QueryInv

LEMMA CallKeeps ==
  ASSUME QueryInv, NEW q \in Queries, NEW c, NEW a,
         calls < MaxCalls => c \in Deep(calls + 1) /\ Asks(c, a), Call(q, c, a)
  PROVE  QueryInv'
<1>1. /\ calls' = calls + 1 /\ calls \in Nat /\ calls' \in 0 .. MaxCalls
      /\ c \in Deep(calls + 1) /\ Asks(c, a) /\ a \in Wishes
  BY QueryAssumption DEF QueryInv, Call, Asks
<1>2. \A p \in Queries : conditions_[p] \in Deep(calls')
  <2>1. Deep(calls) \subseteq Deep(calls + 1)
    BY <1>1, DeepGrows
  <2> QED BY <1>1, <2>1 DEF QueryInv
<1>3. \A p \in Queries : /\ conditions_'[p] = IF p = q THEN c ELSE conditions_[p]
                         /\ asked'[p] = IF p = q THEN a ELSE asked[p]
  BY DEF QueryInv, Call
<1>4. conditions_' = [conditions_ EXCEPT ![q] = c] /\ asked' = [asked EXCEPT ![q] = a]
  BY DEF Call
<1>5. conditions_' \in [Queries -> Deep(calls')]
  <2>1. c \in Deep(calls')
    BY <1>1
  <2>2. conditions_ \in [Queries -> Deep(calls')]
    BY <1>2 DEF QueryInv
  <2> QED BY <1>4, <2>1, <2>2
<1>6. asked' \in [Queries -> Wishes]
  BY <1>1, <1>4 DEF QueryInv
<1>7. \A p \in Queries : Asks(conditions_'[p], asked'[p])
  BY <1>1, <1>3 DEF QueryInv
<1> QED BY <1>1, <1>5, <1>6, <1>7 DEF QueryInv

LEMMA CombineKeeps ==
  ASSUME QueryInv, NEW q \in Queries, NEW op \in Groups,
         NEW args \in Seq(Queries), args # <<>>, Combine(q, op, args)
  PROVE  QueryInv'
<1> DEFINE cs == [i \in DOMAIN args |-> conditions_[args[i]]]
           parts == Concat(conditions_[q], cs)
           node == GroupOf(op, parts)
           all == (IF conditions_[q] = NoneGiven THEN {} ELSE {q})
                    \cup {args[i] : i \in DOMAIN args}
           meanings == {Meaning(asked[p]) : p \in all}
           documents == IF op = "$or" THEN UNION meanings
                        ELSE {d \in Documents : \A m \in meanings : d \in m}
           a == [own |-> NothingAsked.own, rest |-> documents]
<1>1. /\ \A i \in DOMAIN args : conditions_[args[i]] # NoneGiven
      /\ Call(q, ConcatQueries(conditions_[q], op, cs), a)
  BY DEF Combine
<1>2. calls \in Nat /\ calls <= MaxCalls /\ Deep(calls) \subseteq Deep(MaxCalls)
  BY QueryAssumption, DeepGrows DEF QueryInv
<1>3. \A i \in DOMAIN args : args[i] \in Queries
  OBVIOUS
<1>4. cs \in Seq(Deep(calls)) /\ DOMAIN cs = DOMAIN args /\ conditions_[q] \in Deep(calls)
  <2>1. /\ DOMAIN args = 1 .. Len(args) /\ Len(args) \in Nat
        /\ \A i \in DOMAIN args : conditions_[args[i]] \in Deep(calls)
    BY <1>3 DEF QueryInv
  <2> QED BY <2>1 DEF QueryInv
<1>5. \A i \in DOMAIN args : cs[i] = conditions_[args[i]]
  OBVIOUS
<1> HIDE DEF cs
<1>6. parts \in Seq(Deep(calls))
  BY <1>4, ConcatType
<1>7. ASSUME NEW p PROVE IsPart(p, parts) <=> \E r \in all : conditions_[r] = p
  <2>1. IsPart(p, parts) <=> (conditions_[q] # NoneGiven /\ p = conditions_[q]) \/ IsPart(p, cs)
    <3> HIDE DEF cs
    <3> QED BY <1>4, ConcatParts
  <2>2. IsPart(p, cs) <=> \E i \in DOMAIN args : conditions_[args[i]] = p
    BY <1>4, <1>5 DEF IsPart
  <2>3. (\E r \in all : conditions_[r] = p)
          <=> \/ conditions_[q] # NoneGiven /\ p = conditions_[q]
              \/ \E i \in DOMAIN args : conditions_[args[i]] = p
    OBVIOUS
  <2> HIDE DEF parts, all
  <2> QED BY <2>1, <2>2, <2>3
<1>8. all \subseteq Queries /\ \A r \in all : conditions_[r] # NoneGiven
  BY <1>1, <1>3
<1>9. \A r \in Queries : /\ Selected(conditions_[r]) = Meaning(asked[r])
                         /\ Accepted(conditions_[r]) = TRUE
                         /\ Meaning(asked[r]) \subseteq Documents
  <2>1. ASSUME NEW r \in Queries
        PROVE  conditions_[r] \in Deep(MaxCalls) /\ Asks(conditions_[r], asked[r])
    BY <1>2 DEF QueryInv
  <2>2. \A r \in Queries : Meaning(asked[r]) \subseteq Documents
    BY DEF QueryInv, Meaning, Wishes
  <2> QED BY <2>1, <2>2, SelectedIsMeaning
<1>10. \E r \in all : TRUE
  <2>1. 1 \in DOMAIN args
    BY EmptySeq
  <2> QED BY <2>1
<1> HIDE DEF parts, all
<1>11. parts # <<>>
  <2>1. \E i \in DOMAIN parts : TRUE
    BY <1>7, <1>10 DEF IsPart
  <2> QED BY <2>1
<1>12. \A i \in DOMAIN parts : parts[i] # NoneGiven /\ Accepted(parts[i]) = TRUE
  BY <1>7, <1>8, <1>9 DEF IsPart
<1>13. NodeTaken(Full, node)
  BY <1>11, <1>12, GroupTaken
<1>14. documents \in SUBSET Documents
  BY <1>8, <1>9
<1>15. \A d \in Documents : d \in documents <=> NodeHolds(Full, d, op, node)
  <2> SUFFICES ASSUME NEW d \in Documents
               PROVE  d \in documents <=> NodeHolds(Full, d, op, node)
    OBVIOUS
  <2>1. ASSUME NEW i \in DOMAIN parts
        PROVE  \E r \in all : Selected(parts[i]) = Meaning(asked[r])
    <3>1. PICK r \in all : conditions_[r] = parts[i]
      BY <1>7 DEF IsPart
    <3> QED BY <1>8, <1>9, <3>1
  <2>2. ASSUME NEW r \in all
        PROVE  \E i \in DOMAIN parts : Selected(parts[i]) = Meaning(asked[r])
    <3>1. PICK i \in DOMAIN parts : parts[i] = conditions_[r]
      BY <1>7 DEF IsPart
    <3> QED BY <1>8, <1>9, <3>1
  <2>3. CASE op = "$or"
    BY <2>1, <2>2, <2>3, GroupHolds
  <2>4. CASE op # "$or"
    BY <2>1, <2>2, <2>4, GroupHolds
  <2> QED BY <2>3, <2>4
<1> HIDE DEF documents
<1>16. Asks([NoneGiven EXCEPT ![op] = node], a)
  <2> HIDE DEF node
  <2> QED BY <1>13, <1>14, <1>15, GroupAsks
<1>17. node \in Nodes(Deep(calls))
  BY <1>6, GroupIsNode
<1>18. [NoneGiven EXCEPT ![op] = node] \in Deep(calls + 1)
  <2> HIDE DEF node
  <2> QED BY <1>2, <1>17, NoneIsDeep, KeysAndGroups, DeepUpdate
<1>19. ConcatQueries(conditions_[q], op, cs) = [NoneGiven EXCEPT ![op] = node]
  BY DEF ConcatQueries, GroupOf, parts
<1> HIDE DEF a, node
<1> QED BY <1>1, <1>16, <1>18, <1>19, CallKeeps

LEMMA QueryKeeps == ~Repeats /\ QueryInv /\ QueryNext => QueryInv'
<1> SUFFICES ASSUME ~Repeats, QueryInv, QueryNext PROVE QueryInv'
  OBVIOUS
<1>1. calls \in Nat /\ calls <= MaxCalls
  BY QueryAssumption DEF QueryInv
<1>2. \A q \in Queries : conditions_[q] \in Deep(calls) /\ Asks(conditions_[q], asked[q])
  BY DEF QueryInv
<1>3. ASSUME NEW q \in Queries, NEW op \in Ops, NEW key \in Keys, NEW value \in Given,
             Compare(q, op, key, value)
      PROVE  QueryInv'
  <2> DEFINE c == AddSimpleOp(conditions_[q], op, key, value)
             a == [asked[q] EXCEPT !.own[key] = @ \cap Satisfy(key, op, value)]
  <2>1. conditions_[q][key] = Absent /\ Call(q, c, a)
    BY <1>3 DEF Compare
  <2>2. Asks(c, a)
    BY <1>1, <1>2, <2>1, CompareAsks
  <2>3. c \in Deep(calls + 1)
    BY <1>1, <1>2, ClauseIsNode, KeysAndGroups, DeepUpdate DEF AddSimpleOp
  <2> HIDE DEF c, a
  <2> QED BY <2>1, <2>2, <2>3, CallKeeps
<1>4. ASSUME NEW q \in Queries, NEW key \in Keys, Invert(q, key)
      PROVE  QueryInv'
  <2> DEFINE c == Not(conditions_[q], key)
             a == [asked[q] EXCEPT !.own[key] = Documents \ @]
  <2>1. Call(q, c, a)
    BY <1>4 DEF Invert
  <2>2. c \in Deep(calls + 1) /\ Asks(c, a)
    BY <1>1, <1>2, NotAsks
  <2> HIDE DEF c, a
  <2> QED BY <2>1, <2>2, CallKeeps
<1>5. ASSUME NEW q \in Queries, NEW op \in Groups, NEW args \in Queries \X Queries,
             Combine(q, op, args)
      PROVE  QueryInv'
  <2>1. args \in Seq(Queries) /\ args # <<>>
    <3>1. args = <<args[1], args[2]>> /\ args[1] \in Queries /\ args[2] \in Queries
      OBVIOUS
    <3>2. <<args[1], args[2]>> \in Seq(Queries) /\ <<args[1], args[2]>> # <<>>
      BY <3>1
    <3> QED BY <3>1, <3>2
  <2> QED BY <1>5, <2>1, CombineKeeps
<1>6. ASSUME NEW q \in Queries, NEW op \in Groups, NEW p \in Queries,
             Combine(q, op, <<p>>)
      PROVE  QueryInv'
  <2>1. <<p>> \in Seq(Queries) /\ <<p>> # <<>>
    OBVIOUS
  <2> QED BY <1>6, <2>1, CombineKeeps
<1> QED BY <1>3, <1>4, <1>5, <1>6 DEF QueryNext

LEMMA QueryInvMeans == QueryInv => IsAccepted /\ SelectsWhatIsAsked
<1> SUFFICES ASSUME QueryInv, NEW q \in Queries
             PROVE  Accepted(conditions_[q]) /\ Selected(conditions_[q]) = Meaning(asked[q])
  BY DEF IsAccepted, SelectsWhatIsAsked
<1>1. calls \in Nat /\ calls <= MaxCalls /\ conditions_[q] \in Deep(calls)
  BY QueryAssumption DEF QueryInv
<1>2. conditions_[q] \in Deep(MaxCalls)
  BY <1>1, QueryAssumption, DeepGrows
<1> QED BY <1>2, SelectedIsMeaning DEF QueryInv
-----------------------------------------------------------------------------
(* The parameters.  What is kept of a call differs from what it asked for  *)
(* only by numbers out of range, and those are not sent.                   *)
Queried == [order : Orders \cup {<<>>}, skip : Int, limit : Int,
            deleteMark : BOOLEAN, projection : Projections \cup {<<>>},
            readPreference : {"primary", "secondaryPreferred"}, timeout : Int]

AtLeast0(n) == IF n < 0 THEN 0 ELSE n

InRange(n) == IF n \in -1 .. 100 THEN n ELSE 100

Meant(q, m) ==
  /\ m.order = q.order /\ m.deleteMark = q.deleteMark
  /\ m.projection = q.projection /\ m.readPreference = q.readPreference
  /\ m.skip = AtLeast0(q.skip) /\ m.timeout = AtLeast0(q.timeout)
  /\ m.limit = InRange(q.limit)

ParametersInv == query \in Queried /\ meant \in Queried /\ Meant(query, meant)

LEMMA ParametersInitially == ParametersInit => ParametersInv
  BY DEF ParametersInit, ParametersInv, Default, LimitDefault, Queried, Meant,
         AtLeast0, InRange

LEMMA ParametersKeep == ParametersInv /\ ParametersNext => ParametersInv'
<1> SUFFICES ASSUME ParametersInv, ParametersNext PROVE ParametersInv'
  OBVIOUS
<1> USE DEF Set, Queried
<1>1. ASSUME NEW order \in Orders, OrderBy(order) PROVE ParametersInv'
  <2>1. PICK v \in Orders \cup {<<>>} : /\ query' = [query EXCEPT !.order = v]
                                       /\ meant' = [meant EXCEPT !.order = v]
    BY <1>1 DEF OrderBy, ParametersInv, Meant
  <2> QED BY <2>1 DEF ParametersInv, Meant
<1>2. ASSUME NEW projection \in Projections, Projection(projection)
      PROVE  ParametersInv'
  <2>1. PICK v \in Projections \cup {<<>>} :
          /\ query' = [query EXCEPT !.projection = v]
          /\ meant' = [meant EXCEPT !.projection = v]
    BY <1>2 DEF Projection, ParametersInv, Meant
  <2> QED BY <2>1 DEF ParametersInv, Meant
<1>3. ASSUME NEW n \in Numbers, Skip(n) \/ Limit(n) \/ Timeout(n)
      PROVE  ParametersInv'
  <2>1. n \in Int /\ AtLeast0(n) \in Int /\ InRange(n) \in Int
    BY ParametersAssumption DEF AtLeast0, InRange
  <2>2. CASE Skip(n)
    <3>1. query' = [query EXCEPT !.skip = n] /\ meant' = [meant EXCEPT !.skip = AtLeast0(n)]
      BY <2>2 DEF Skip, AtLeast0
    <3> QED BY <2>1, <3>1 DEF ParametersInv, Meant
  <2>3. CASE Limit(n)
    <3>1. query' = [query EXCEPT !.limit = n] /\ meant' = [meant EXCEPT !.limit = InRange(n)]
      BY <2>3 DEF Limit, InRange
    <3> QED BY <2>1, <3>1 DEF ParametersInv, Meant
  <2>4. CASE Timeout(n)
    <3>1. /\ query' = [query EXCEPT !.timeout = n]
          /\ meant' = [meant EXCEPT !.timeout = AtLeast0(n)]
      BY <2>4 DEF Timeout, AtLeast0
    <3> QED BY <2>1, <3>1 DEF ParametersInv, Meant
  <2> QED BY <1>3, <2>2, <2>3, <2>4
<1>4. ASSUME NEW mark \in BOOLEAN, DeleteMark(mark) PROVE ParametersInv'
  BY <1>4 DEF DeleteMark, ParametersInv, Meant
<1>5. ASSUME NEW preference \in {"primary", "secondaryPreferred"},
             ReadPreference(preference)
      PROVE  ParametersInv'
  BY <1>5 DEF ReadPreference, ParametersInv, Meant
<1> QED BY <1>1, <1>2, <1>3, <1>4, <1>5 DEF ParametersNext

Names == {"order", "skip", "limit", "deleteMark", "projection", "readPreference",
          "timeout"}

SentOf(q) ==
  [order |-> q.order # <<>>, skip |-> q.skip > 0, limit |-> LimitSent(q.limit),
   deleteMark |-> q.deleteMark, projection |-> q.projection # <<>>,
   readPreference |-> q.readPreference # "primary", timeout |-> q.timeout > 0]

(* What the server applies is what was sent, or its default.               *)
LEMMA AppliedIs ==
  ASSUME NEW q
  PROVE  Applied(GetParams(q)) =
           [n \in Names |-> IF SentOf(q)[n] THEN q[n] ELSE Default[n]]
<1> DEFINE sent_names == {n \in DOMAIN SentOf(q) : SentOf(q)[n]}
           params == [n \in sent_names |-> q[n]]
<1>1. DOMAIN SentOf(q) = Names
  BY DEF SentOf, Names
<1>2. GetParams(q) = params
  BY DEF GetParams, SentOf
<1>3. DOMAIN Default = Names
  BY DEF Default, Names
<1>4. Applied(params) =
        [n \in Names |-> IF n \in DOMAIN params THEN params[n] ELSE Default[n]]
  BY <1>3 DEF Applied
<1>5. \A n \in Names : n \in DOMAIN params <=> SentOf(q)[n]
  BY <1>1
<1>6. \A n \in DOMAIN params : params[n] = q[n]
  OBVIOUS
<1> HIDE DEF params
<1> QED BY <1>2, <1>4, <1>5, <1>6

(* A number that goes out only if it says something is what it means.      *)
LEMMA SaysSomething ==
  ASSUME NEW n \in Int
  PROVE  /\ (IF n > 0 THEN n ELSE 0) = AtLeast0(n)
         /\ (IF LimitSent(n) THEN n ELSE 100) = InRange(n)
BY DEF AtLeast0, InRange, LimitSent, LimitDefault

LEMMA ParametersApplied == ParametersInv => AppliesWhatIsMeant
<1> SUFFICES ASSUME ParametersInv PROVE Applied(GetParams(query)) = meant
  BY DEF AppliesWhatIsMeant
<1>1. query.skip \in Int /\ query.limit \in Int /\ query.timeout \in Int
  BY DEF ParametersInv, Queried
<1>2. /\ (IF SentOf(query)["order"] THEN query.order ELSE Default.order) = meant.order
      /\ (IF SentOf(query)["projection"] THEN query.projection ELSE Default.projection)
           = meant.projection
  BY DEF ParametersInv, Meant, SentOf, Default
<1>3. (IF SentOf(query)["skip"] THEN query.skip ELSE Default.skip) = meant.skip
  <2>1. (IF SentOf(query)["skip"] THEN query.skip ELSE Default.skip)
          = (IF query.skip > 0 THEN query.skip ELSE 0)
    BY DEF SentOf, Default
  <2>2. meant.skip = AtLeast0(query.skip)
    BY DEF ParametersInv, Meant
  <2> QED BY <1>1, <2>1, <2>2, SaysSomething
<1>4. (IF SentOf(query)["timeout"] THEN query.timeout ELSE Default.timeout) = meant.timeout
  <2>1. (IF SentOf(query)["timeout"] THEN query.timeout ELSE Default.timeout)
          = (IF query.timeout > 0 THEN query.timeout ELSE 0)
    BY DEF SentOf, Default
  <2>2. meant.timeout = AtLeast0(query.timeout)
    BY DEF ParametersInv, Meant
  <2> QED BY <1>1, <2>1, <2>2, SaysSomething
<1>5. (IF SentOf(query)["limit"] THEN query.limit ELSE Default.limit) = meant.limit
  <2>1. (IF SentOf(query)["limit"] THEN query.limit ELSE Default.limit)
          = (IF LimitSent(query.limit) THEN query.limit ELSE 100)
    BY DEF SentOf, Default, LimitDefault
  <2>2. meant.limit = InRange(query.limit)
    BY DEF ParametersInv, Meant
  <2> QED BY <1>1, <2>1, <2>2, SaysSomething
<1>6. (IF SentOf(query)["deleteMark"] THEN query.deleteMark ELSE Default.deleteMark)
        = meant.deleteMark
  BY DEF ParametersInv, Meant, SentOf, Default, Queried
<1>7. (IF SentOf(query)["readPreference"] THEN query.readPreference
       ELSE Default.readPreference) = meant.readPreference
  BY DEF ParametersInv, Meant, SentOf, Default
<1>8. meant = [n \in Names |-> meant[n]]
  BY DEF ParametersInv, Queried, Names
<1>9. \A n \in Names : (IF SentOf(query)[n] THEN query[n] ELSE Default[n]) = meant[n]
  BY <1>2, <1>3, <1>4, <1>5, <1>6, <1>7 DEF Names
<1> QED BY <1>8, <1>9, AppliedIs
-----------------------------------------------------------------------------
(* However an application chains its calls, nests its queries and repeats  *)
(* its settings, the server accepts the query, selects what was asked for  *)
(* and applies what was meant, as long as no key is given two conditions.  *)
THEOREM QueriesAreAnswered ==
  ASSUME ~Repeats PROVE RequestsSpec => []QueryIsAnswered
<1>1. RequestsInit => QueryInv /\ ParametersInv
  BY QueryInitially, ParametersInitially DEF RequestsInit
<1>2. QueryInv /\ ParametersInv /\ [RequestsNext]_requestVars
        => QueryInv' /\ ParametersInv'
  <2> SUFFICES ASSUME QueryInv, ParametersInv, [RequestsNext]_requestVars
               PROVE  QueryInv' /\ ParametersInv'
    OBVIOUS
  <2>1. UNCHANGED queryVars => QueryInv'
    BY DEF queryVars, QueryInv
  <2>2. UNCHANGED parameterVars => ParametersInv'
    BY DEF parameterVars, ParametersInv
  <2>3. CASE Conditions
    BY <2>2, <2>3, QueryKeeps DEF Conditions
  <2>4. CASE Parameters
    BY <2>1, <2>4, ParametersKeep DEF Parameters
  <2>5. CASE Gateway \/ Acl \/ UNCHANGED requestVars
    BY <2>1, <2>2, <2>5 DEF Gateway, Acl, requestVars
  <2> QED BY <2>3, <2>4, <2>5 DEF RequestsNext
<1>3. QueryInv /\ ParametersInv => QueryIsAnswered
  BY QueryInvMeans, ParametersApplied DEF QueryIsAnswered
<1> QED BY <1>1, <1>2, <1>3, PTL DEF RequestsSpec
=============================================================================
