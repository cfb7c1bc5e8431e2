---------------------- MODULE NbRestExecutorPoolProofs ----------------------
(***************************************************************************)
(* Proofs about NbRestExecutorPool, for every set of threads and every     *)
(* limit: type correctness, the conservation of executors, and that the    *)
(* pool implements ConnectionLimiter.                                      *)
(***************************************************************************)
EXTENDS NbRestExecutorPool, FiniteSetTheorems, TLAPS

(* The inductive invariant.  NoneLost alone is not inductive: that a newly *)
(* created executor is a new one needs Created to bound what is on the     *)
(* stack and lent, and that a pushed one is not there twice needs          *)
(* HeldByOne.                                                              *)
PoolInv == PoolTypeOK /\ HeldByOne /\ NoneLost /\ AllDeleted

(* One stack operation at a time: what the elements of the stack are after *)
(* a push and after a pop.                                                 *)
LEMMA PushedStack ==
  ASSUME NEW S, NEW s \in Seq(S), NEW e \in S
  PROVE  /\ Append(s, e) \in Seq(S)
         /\ DOMAIN Append(s, e) = 1 .. Len(s) + 1
         /\ DOMAIN s = 1 .. Len(s)
         /\ \A i \in DOMAIN s : Append(s, e)[i] = s[i]
         /\ Append(s, e)[Len(s) + 1] = e
  OBVIOUS

LEMMA PoppedStack ==
  ASSUME NEW S, NEW s \in Seq(S), s # <<>>
  PROVE  /\ SubSeq(s, 1, Len(s) - 1) \in Seq(S)
         /\ DOMAIN SubSeq(s, 1, Len(s) - 1) = 1 .. Len(s) - 1
         /\ DOMAIN s = 1 .. Len(s)
         /\ Len(s) \in Nat /\ Len(s) > 0
         /\ \A i \in 1 .. Len(s) - 1 : SubSeq(s, 1, Len(s) - 1)[i] = s[i]
         /\ s[Len(s)] \in S
  OBVIOUS

(* The empty stack holds nothing.                                          *)
LEMMA EmptyStack == ASSUME NEW S PROVE <<>> \in Seq(S) /\ DOMAIN <<>> = {}
  OBVIOUS

-----------------------------------------------------------------------------
(* The initial state and each step keep the invariant.                     *)
LEMMA PoolInitInv == PoolInit => PoolInv
<1> SUFFICES ASSUME PoolInit PROVE PoolInv
  OBVIOUS
<1>1. Idle = {} /\ Holders = {} /\ Lent = {} /\ Created = {}
  BY MaxAssumption, EmptyStack
     DEF PoolInit, Idle, Holders, Lent, Created, Executors, NoExecutor
<1>2. PoolTypeOK
  <2>1. idle_stack \in Seq(Executors)
    BY EmptyStack DEF PoolInit
  <2>2. creatable_num \in 0 .. HttpConnectionMax
    BY MaxAssumption DEF PoolInit
  <2> QED BY <2>1, <2>2 DEF PoolInit, PoolTypeOK
<1> QED BY <1>1, <1>2, EmptyStack
       DEF PoolInit, PoolInv, HeldByOne, NoneLost, AllDeleted

LEMMA PopIdleInv ==
  ASSUME PoolInv, NEW t \in Threads, PopRestExecutor(t), PopIdle(t)
  PROVE  PoolInv'
<1> DEFINE n == Len(idle_stack)
           e == idle_stack[n]
<1>1. /\ idle_stack \in Seq(Executors) /\ idle_stack # <<>>
      /\ n \in Nat /\ n > 0 /\ DOMAIN idle_stack = 1 .. n
      /\ e \in Executors
  BY PoppedStack DEF PoolInv, PoolTypeOK, PopIdle
<1>2. /\ idle_stack' \in Seq(Executors)
      /\ DOMAIN idle_stack' = 1 .. n - 1
      /\ \A i \in 1 .. n - 1 : idle_stack'[i] = idle_stack[i]
  BY <1>1, PoppedStack DEF PopIdle
<1>3. /\ executor' = [executor EXCEPT ![t] = e]
      /\ executor[t] = NoExecutor
      /\ UNCHANGED <<creatable_num, destroyed, deleted>>
      /\ ~destroyed
  BY DEF PopIdle, PopRestExecutor
<1>4. PoolTypeOK'
  BY <1>1, <1>2, <1>3 DEF PoolInv, PoolTypeOK
<1>5. Idle = Idle' \cup {e} /\ e \notin Idle'
  BY <1>1, <1>2 DEF Idle, PoolInv, HeldByOne
<1>6. Holders' = Holders \cup {t} /\ t \notin Holders
  BY <1>1, <1>3 DEF Holders, PoolInv, PoolTypeOK, Executors, NoExecutor
<1>7. \A u \in Holders : executor'[u] = executor[u]
  BY <1>3, <1>6 DEF Holders, PoolInv, PoolTypeOK
<1>8. executor'[t] = e
  BY <1>3 DEF PoolInv, PoolTypeOK
<1>9. Lent' = Lent \cup {e} /\ e \notin Lent
  <2>1. e \notin Lent
    BY <1>5 DEF PoolInv, HeldByOne
  <2>2. Lent' = Lent \cup {e}
    BY <1>6, <1>7, <1>8 DEF Lent
  <2> QED BY <2>1, <2>2
<1>10. HeldByOne'
  <2>1. ASSUME NEW u \in Holders', NEW v \in Holders',
               executor'[u] = executor'[v]
        PROVE  u = v
    BY <2>1, <1>6, <1>7, <1>8, <1>9 DEF PoolInv, HeldByOne, Lent
  <2>2. Idle' \cap Lent' = {}
    BY <1>5, <1>9 DEF PoolInv, HeldByOne
  <2>3. \A i, j \in DOMAIN idle_stack' : idle_stack'[i] = idle_stack'[j] => i = j
    BY <1>1, <1>2 DEF PoolInv, HeldByOne
  <2> QED BY <2>1, <2>2, <2>3 DEF HeldByOne
<1>11. NoneLost'
  BY <1>3, <1>5, <1>9 DEF PoolInv, NoneLost, Created
<1>12. AllDeleted'
  BY <1>3 DEF AllDeleted
<1> QED BY <1>4, <1>10, <1>11, <1>12 DEF PoolInv

LEMMA PopNewInv ==
  ASSUME PoolInv, NEW t \in Threads, PopRestExecutor(t), PopNew(t)
  PROVE  PoolInv'
<1> DEFINE e == HttpConnectionMax - creatable_num + 1
<1>1. /\ idle_stack = <<>> /\ idle_stack' = idle_stack
      /\ creatable_num > 0 /\ creatable_num' = creatable_num - 1
      /\ executor' = [executor EXCEPT ![t] = e]
      /\ executor[t] = NoExecutor
      /\ ~destroyed /\ UNCHANGED <<destroyed, deleted>>
  BY DEF PopNew, PopRestExecutor
<1>2. /\ HttpConnectionMax \in Nat /\ creatable_num \in 1 .. HttpConnectionMax
      /\ e \in Executors /\ e \notin Created
  BY <1>1, MaxAssumption DEF PoolInv, PoolTypeOK, Executors, Created
<1>3. PoolTypeOK'
  BY <1>1, <1>2 DEF PoolInv, PoolTypeOK
<1>4. Created' = Created \cup {e}
  BY <1>1, <1>2 DEF Created
<1>5. Idle = {} /\ Idle' = {} /\ Lent = Created
  BY <1>1, EmptyStack DEF Idle, PoolInv, NoneLost
<1>6. Holders' = Holders \cup {t} /\ t \notin Holders
  BY <1>1, <1>2 DEF Holders, PoolInv, PoolTypeOK, Executors, NoExecutor
<1>7. /\ \A u \in Holders : executor'[u] = executor[u]
      /\ executor'[t] = e
  BY <1>1, <1>6 DEF Holders, PoolInv, PoolTypeOK
<1>8. Lent' = Lent \cup {e} /\ e \notin Lent
  BY <1>2, <1>5, <1>6, <1>7 DEF Lent
<1>9. HeldByOne'
  <2>1. ASSUME NEW u \in Holders', NEW v \in Holders',
               executor'[u] = executor'[v]
        PROVE  u = v
    BY <2>1, <1>6, <1>7, <1>8 DEF PoolInv, HeldByOne, Lent
  <2> QED BY <2>1, <1>1, <1>5 DEF PoolInv, HeldByOne
<1>10. NoneLost' /\ AllDeleted'
  BY <1>1, <1>4, <1>5, <1>8 DEF NoneLost, AllDeleted
<1> QED BY <1>3, <1>9, <1>10 DEF PoolInv

LEMMA PopNullInv ==
  ASSUME PoolInv, NEW t \in Threads, PopRestExecutor(t), PopNull(t)
  PROVE  PoolInv'
<1>1. /\ executor' = [executor EXCEPT ![t] = NullExecutor]
      /\ executor[t] = NoExecutor
      /\ UNCHANGED <<idle_stack, creatable_num, destroyed, deleted>>
  BY DEF PopNull, PopRestExecutor
<1>2. Holders' = Holders /\ \A u \in Holders : executor'[u] = executor[u]
  BY <1>1 DEF Holders, PoolInv, PoolTypeOK, Executors, NoExecutor, NullExecutor
<1>3. Lent' = Lent /\ Idle' = Idle /\ Created' = Created
  BY <1>1, <1>2 DEF Lent, Idle, Created
<1> QED BY <1>1, <1>2, <1>3
       DEF PoolInv, PoolTypeOK, HeldByOne, NoneLost, AllDeleted

LEMMA GiveUpInv ==
  ASSUME PoolInv, NEW t \in Threads, GiveUp(t)
  PROVE  PoolInv'
<1>1. /\ executor' = [executor EXCEPT ![t] = NoExecutor]
      /\ executor[t] = NullExecutor
      /\ UNCHANGED <<idle_stack, creatable_num, destroyed, deleted>>
  BY DEF GiveUp
<1>2. Holders' = Holders /\ \A u \in Holders : executor'[u] = executor[u]
  BY <1>1 DEF Holders, PoolInv, PoolTypeOK, Executors, NoExecutor, NullExecutor
<1>3. Lent' = Lent /\ Idle' = Idle /\ Created' = Created
  BY <1>1, <1>2 DEF Lent, Idle, Created
<1> QED BY <1>1, <1>2, <1>3
       DEF PoolInv, PoolTypeOK, HeldByOne, NoneLost, AllDeleted

LEMMA PushInv ==
  ASSUME PoolInv, NEW t \in Threads, PushRestExecutor(t)
  PROVE  PoolInv'
<1> DEFINE n == Len(idle_stack)
           e == executor[t]
<1>1. /\ e \in Executors
      /\ executor' = [executor EXCEPT ![t] = NoExecutor]
      /\ idle_stack' = Append(idle_stack, e)
      /\ UNCHANGED <<creatable_num, destroyed, deleted>>
  BY DEF PushRestExecutor
<1>2. /\ idle_stack' \in Seq(Executors)
      /\ n \in Nat
      /\ DOMAIN idle_stack = 1 .. n /\ DOMAIN idle_stack' = 1 .. n + 1
      /\ \A i \in 1 .. n : idle_stack'[i] = idle_stack[i]
      /\ idle_stack'[n + 1] = e
  BY <1>1, PushedStack DEF PoolInv, PoolTypeOK
<1>3. PoolTypeOK'
  BY <1>1, <1>2 DEF PoolInv, PoolTypeOK
<1>4. Idle' = Idle \cup {e}
  BY <1>2 DEF Idle
<1>5. t \in Holders /\ Holders' = Holders \ {t}
  BY <1>1 DEF Holders, PoolInv, PoolTypeOK, Executors, NoExecutor
<1>6. \A u \in Holders' : executor'[u] = executor[u]
  BY <1>1, <1>5 DEF Holders, PoolInv, PoolTypeOK
<1>7. e \in Lent /\ e \notin Idle /\ Lent' = Lent \ {e}
  BY <1>5, <1>6 DEF Lent, PoolInv, HeldByOne
<1>8. HeldByOne'
  <2>1. \A u, v \in Holders' : executor'[u] = executor'[v] => u = v
    BY <1>5, <1>6 DEF PoolInv, HeldByOne
  <2>2. Idle' \cap Lent' = {}
    BY <1>4, <1>7 DEF PoolInv, HeldByOne
  <2>3. \A i \in 1 .. n : idle_stack[i] # e
    BY <1>2, <1>7 DEF Idle
  <2>4. \A i, j \in DOMAIN idle_stack' : idle_stack'[i] = idle_stack'[j] => i = j
    BY <1>2, <2>3 DEF PoolInv, HeldByOne
  <2> QED BY <2>1, <2>2, <2>4 DEF HeldByOne
<1>9. NoneLost'
  BY <1>1, <1>4, <1>7 DEF PoolInv, NoneLost, Created
<1>10. AllDeleted'
  BY <1>1, <1>7 DEF PoolInv, AllDeleted
<1> QED BY <1>3, <1>8, <1>9, <1>10 DEF PoolInv

LEMMA DestroyInv ==
  ASSUME PoolInv, DestroyPool
  PROVE  PoolInv'
<1>1. /\ idle_stack' = <<>> /\ deleted' = Idle /\ destroyed' = TRUE
      /\ ~destroyed
      /\ \A t \in Threads : executor[t] = NoExecutor
      /\ UNCHANGED <<creatable_num, executor>>
  BY DEF DestroyPool
<1>2. Holders = {} /\ Lent = {} /\ Holders' = {} /\ Lent' = {}
  BY <1>1 DEF Holders, Lent, Executors, NoExecutor
<1>3. Idle = Created /\ Created' = Created /\ Idle' = {}
  BY <1>1, <1>2, EmptyStack DEF PoolInv, NoneLost, Created, Idle
<1>4. Idle \subseteq Executors
  BY DEF PoolInv, PoolTypeOK, Idle
<1> QED BY <1>1, <1>2, <1>3, <1>4, EmptyStack
       DEF PoolInv, PoolTypeOK, HeldByOne, NoneLost, AllDeleted

(* Every step keeps the invariant, whichever thread takes it.              *)
LEMMA PoolNextInv == PoolInv /\ [PoolNext]_poolVars => PoolInv'
<1> SUFFICES ASSUME PoolInv, [PoolNext]_poolVars PROVE PoolInv'
  OBVIOUS
<1>1. ASSUME NEW t \in Threads, PopRestExecutor(t) PROVE PoolInv'
  BY <1>1, PopIdleInv, PopNewInv, PopNullInv DEF PopRestExecutor
<1>2. ASSUME NEW t \in Threads, PushRestExecutor(t) PROVE PoolInv'
  BY <1>2, PushInv
<1>3. ASSUME NEW t \in Threads, GiveUp(t) PROVE PoolInv'
  BY <1>3, GiveUpInv
<1>4. ASSUME DestroyPool PROVE PoolInv'
  BY <1>4, DestroyInv
<1>5. ASSUME UNCHANGED poolVars PROVE PoolInv'
  <2>1. UNCHANGED <<idle_stack, creatable_num, executor, destroyed, deleted>>
    BY <1>5 DEF poolVars
  <2>2. Idle' = Idle /\ Created' = Created /\ Holders' = Holders /\ Lent' = Lent
    BY <2>1 DEF Idle, Created, Holders, Lent
  <2> QED BY <2>1, <2>2
         DEF PoolInv, PoolTypeOK, HeldByOne, NoneLost, AllDeleted
<1> QED BY <1>1, <1>2, <1>3, <1>4, <1>5 DEF PoolNext

(* The conservation of executors: in every reachable state each executor   *)
(* ever created is on the stack or lent to exactly one thread.             *)
LEMMA PoolInvariant == PoolSpec => []PoolInv
  BY PoolInitInv, PoolNextInv, PTL DEF PoolSpec

THEOREM PoolTypeCorrect == PoolSpec => []PoolTypeOK
<1>1. PoolInv => PoolTypeOK
  BY DEF PoolInv
<1> QED BY <1>1, PoolInvariant, PTL

THEOREM ExecutorsHeldByOne == PoolSpec => []HeldByOne
<1>1. PoolInv => HeldByOne
  BY DEF PoolInv
<1> QED BY <1>1, PoolInvariant, PTL

THEOREM ExecutorsNoneLost == PoolSpec => []NoneLost
<1>1. PoolInv => NoneLost
  BY DEF PoolInv
<1> QED BY <1>1, PoolInvariant, PTL

THEOREM ExecutorsAllDeleted == PoolSpec => []AllDeleted
<1>1. PoolInv => AllDeleted
  BY DEF PoolInv
<1> QED BY <1>1, PoolInvariant, PTL

(* The pool creates an executor only when every one it has is lent.        *)
THEOREM PoolGrowsOnlyWhenAllLent == PoolSpec => GrowsOnlyWhenAllLent
<1> DEFINE Grows == creatable_num' # creatable_num
                      => Created = Lent /\ idle_stack = <<>>
<1>1. ASSUME PoolInv, PoolNext PROVE Grows
  <2>1. ASSUME NEW t \in Threads, PopRestExecutor(t), PopNew(t) PROVE Grows
    <3>1. idle_stack = <<>> /\ ~destroyed
      BY <2>1 DEF PopRestExecutor, PopNew
    <3>2. Idle = {}
      BY <3>1, EmptyStack DEF Idle
    <3> QED BY <1>1, <3>1, <3>2 DEF PoolInv, NoneLost
  <2>2. ASSUME NEW t \in Threads, PopRestExecutor(t), ~PopNew(t)
        PROVE  creatable_num' = creatable_num
    BY <2>2 DEF PopRestExecutor, PopIdle, PopNull
  <2>3. ASSUME NEW t \in Threads, PushRestExecutor(t) \/ GiveUp(t)
        PROVE  creatable_num' = creatable_num
    BY <2>3 DEF PushRestExecutor, GiveUp
  <2>4. ASSUME DestroyPool PROVE creatable_num' = creatable_num
    BY <2>4 DEF DestroyPool
  <2> QED BY <1>1, <2>1, <2>2, <2>3, <2>4 DEF PoolNext
<1>2. PoolInv /\ [PoolNext]_poolVars => [Grows]_poolVars
  BY <1>1
<1> HIDE DEF Grows
<1>3. PoolSpec => [][Grows]_poolVars
  BY <1>2, PoolInvariant, PTL DEF PoolSpec
<1> QED BY <1>3 DEF Grows, GrowsOnlyWhenAllLent
-----------------------------------------------------------------------------
(* The refinement.  HeldByOne makes the pointers held a bijection between  *)
(* the threads that hold one and the executors lent; NoneLost says that    *)
(* what is not lent is idle or not yet created.                            *)
(* The instance carries its own copy of the definition of Cardinality.     *)
LEMMA SameCardinality == \A S : Limiter!Cardinality(S) = Cardinality(S)
  BY DEF Cardinality, Limiter!Cardinality

LEMMA GrantedIsHolders ==
  ASSUME PoolTypeOK
  PROVE  Limiter!Granted = Holders
<1>1. ASSUME NEW t \in Threads
      PROVE  Answer(executor[t]) = "granted" <=> executor[t] \in Executors
  BY MaxAssumption
     DEF PoolTypeOK, Answer, Executors, NoExecutor, NullExecutor
<1> QED BY <1>1 DEF Limiter!Granted, Holders

LEMMA CardinalityOfHolders ==
  ASSUME PoolInv
  PROVE  /\ IsFiniteSet(Lent) /\ IsFiniteSet(Holders)
         /\ Cardinality(Holders) = Cardinality(Lent)
<1>1. IsFiniteSet(Executors)
  BY FS_Interval, MaxAssumption DEF Executors
<1>2. IsFiniteSet(Lent)
  <2>1. Lent \subseteq Executors
    BY DEF Lent, Holders
  <2> QED BY <1>1, <2>1, FS_Subset
<1> DEFINE f == [e \in Lent |-> CHOOSE t \in Holders : executor[t] = e]
<1>3. f \in Bijection(Lent, Holders)
  <2>1. \A e \in Lent : f[e] \in Holders /\ executor[f[e]] = e
    BY DEF Lent
  <2>2. \A t \in Holders : executor[t] \in Lent /\ f[executor[t]] = t
    BY <2>1 DEF PoolInv, HeldByOne, Lent
  <2> HIDE DEF f
  <2>3. f \in [Lent -> Holders]
    BY <2>1 DEF f
  <2>4. \A a, b \in Lent : f[a] = f[b] => a = b
    BY <2>1
  <2>5. \A t \in Holders : \E e \in Lent : f[e] = t
    BY <2>2
  <2> QED BY <2>3, <2>4, <2>5
         DEF Bijection, Injection, IsInjective, Surjection
<1> HIDE DEF f
<1>4. ExistsBijection(Lent, Holders)
  BY <1>3 DEF ExistsBijection
<1> QED BY <1>2, <1>4, FS_Bijection

(* Room is left exactly when the pool can serve the next call.             *)
LEMMA RoomLeft ==
  ASSUME PoolInv, ~destroyed
  PROVE  /\ idle_stack # <<>> \/ creatable_num > 0
              => Cardinality(Limiter!Granted) < HttpConnectionMax
         /\ idle_stack = <<>> /\ creatable_num <= 0
              => Cardinality(Limiter!Granted) = HttpConnectionMax
<1>1. IsFiniteSet(Executors) /\ Cardinality(Executors) = HttpConnectionMax
  BY FS_Interval, MaxAssumption DEF Executors
<1>2. Lent \subseteq Executors
  BY DEF Lent, Holders
<1>3. /\ Cardinality(Limiter!Granted) = Cardinality(Lent)
      /\ IsFiniteSet(Lent) /\ Cardinality(Lent) \in Nat
  BY GrantedIsHolders, CardinalityOfHolders, FS_CardinalityType DEF PoolInv
<1>4. /\ creatable_num \in 0 .. HttpConnectionMax
      /\ Idle \cap Lent = {} /\ Idle \cup Lent = Created
  BY DEF PoolInv, PoolTypeOK, HeldByOne, NoneLost
<1>5. ASSUME idle_stack # <<>> \/ creatable_num > 0
      PROVE  \E e \in Executors : e \notin Lent
  <2>1. CASE idle_stack # <<>>
    <3>1. idle_stack[Len(idle_stack)] \in Idle \cap Executors
      BY <2>1, PoppedStack DEF Idle, PoolInv, PoolTypeOK
    <3> QED BY <3>1, <1>4
  <2>2. CASE creatable_num > 0
    <3>1. HttpConnectionMax \in Executors \ Created
      BY <2>2, <1>4, MaxAssumption DEF Executors, Created
    <3> QED BY <3>1, <1>4
  <2> QED BY <1>5, <2>1, <2>2
<1>6. ASSUME NEW e \in Executors, e \notin Lent
      PROVE  Cardinality(Lent) < HttpConnectionMax
  <2>1. /\ Cardinality(Lent) <= Cardinality(Executors)
        /\ Cardinality(Executors) = Cardinality(Lent) => Executors = Lent
    BY <1>1, <1>2, FS_Subset
  <2> QED BY <1>1, <1>3, <1>6, <2>1, MaxAssumption
<1>7. ASSUME idle_stack = <<>>, creatable_num <= 0
      PROVE  Lent = Executors
  <2>1. Idle = {}
    BY <1>7, EmptyStack DEF Idle
  <2>2. Created = Executors
    BY <1>4, <1>7, MaxAssumption DEF Created, Executors
  <2> QED BY <2>1, <2>2, <1>4
<1> QED BY <1>1, <1>3, <1>5, <1>6, <1>7

LEMMA AnswerToStep ==
  ASSUME PoolTypeOK, NEW t \in Threads, NEW e,
         executor' = [executor EXCEPT ![t] = e]
  PROVE  [u \in Threads |-> Answer(executor[u])]'
           = [[u \in Threads |-> Answer(executor[u])] EXCEPT ![t] = Answer(e)]
  BY DEF PoolTypeOK, Answer

LEMMA LimiterStep ==
  ASSUME PoolInv, PoolNext
  PROVE  [Limiter!LimiterNext]_[t \in Threads |-> Answer(executor[t])]
<1> DEFINE use == [t \in Threads |-> Answer(executor[t])]
<1> USE MaxAssumption
<1>0. Answer(NoExecutor) = "none" /\ Answer(NullExecutor) = "refused"
  BY DEF Answer, NoExecutor, NullExecutor
<1>1. \A e \in Executors : Answer(e) = "granted"
  BY DEF Answer, Executors, NoExecutor, NullExecutor
<1>2. ASSUME NEW t \in Threads, PopRestExecutor(t), ~PopNull(t)
      PROVE  Limiter!Admit(t)
  <2>1. PICK e \in Executors : executor' = [executor EXCEPT ![t] = e]
    <3>1. CASE PopIdle(t)
      BY <3>1, PoppedStack DEF PopIdle, PoolInv, PoolTypeOK
    <3>2. CASE PopNew(t)
      <4>1. HttpConnectionMax - creatable_num + 1 \in Executors
        BY <3>2 DEF PopNew, PoolInv, PoolTypeOK, Executors
      <4> QED BY <3>2, <4>1 DEF PopNew
    <3> QED BY <1>2, <3>1, <3>2 DEF PopRestExecutor
  <2>2. idle_stack # <<>> \/ creatable_num > 0
    BY <1>2 DEF PopRestExecutor, PopIdle, PopNew
  <2>3. Cardinality(Limiter!Granted) < HttpConnectionMax
    BY <1>2, <2>2, RoomLeft DEF PopRestExecutor
  <2>4. use' = [use EXCEPT ![t] = "granted"] /\ use[t] = "none"
    <3>1. executor[t] = NoExecutor /\ PoolTypeOK /\ Answer(e) = "granted"
      BY <1>1, <1>2 DEF PopRestExecutor, PoolInv
    <3> QED BY <1>0, <2>1, <3>1, AnswerToStep
  <2> QED BY <2>3, <2>4, SameCardinality DEF Limiter!Admit
<1>3. ASSUME NEW t \in Threads, PopRestExecutor(t), PopNull(t)
      PROVE  Limiter!Refuse(t)
  <2>1. Cardinality(Limiter!Granted) = HttpConnectionMax
    BY <1>3, RoomLeft DEF PopRestExecutor, PopNull
  <2>2. use' = [use EXCEPT ![t] = "refused"] /\ use[t] = "none"
    BY <1>0, <1>3, AnswerToStep DEF PopRestExecutor, PopNull, PoolInv
  <2> QED BY <2>1, <2>2, SameCardinality DEF Limiter!Refuse
<1>4. ASSUME NEW t \in Threads, PushRestExecutor(t) \/ GiveUp(t)
      PROVE  Limiter!Leave(t)
  <2>1. executor' = [executor EXCEPT ![t] = NoExecutor]
    BY <1>4 DEF PushRestExecutor, GiveUp
  <2>2. executor[t] \in Executors \/ executor[t] = NullExecutor
    BY <1>4 DEF PushRestExecutor, GiveUp
  <2>3. use' = [use EXCEPT ![t] = "none"] /\ use[t] # "none"
    BY <1>0, <1>1, <2>1, <2>2, AnswerToStep DEF PoolInv
  <2> QED BY <2>3 DEF Limiter!Leave
<1>5. ASSUME DestroyPool PROVE use' = use
  BY <1>5 DEF DestroyPool
<1>6. Limiter!LimiterNext \/ use' = use
  BY <1>2, <1>3, <1>4, <1>5 DEF PoolNext, Limiter!LimiterNext
<1> QED BY <1>6

(* The pool implements ConnectionLimiter: a call is refused only while     *)
(* HttpConnectionMax others hold an executor.                              *)
THEOREM PoolImplementsLimiter == PoolSpec => ImplementsLimiter
<1>1. PoolInit => Limiter!LimiterInit
  BY DEF PoolInit, Limiter!LimiterInit, Answer
<1>2. PoolInv /\ [PoolNext]_poolVars
        => [Limiter!LimiterNext]_[t \in Threads |-> Answer(executor[t])]
  BY LimiterStep DEF poolVars
<1> QED BY <1>1, <1>2, PoolInvariant, PTL
       DEF PoolSpec, ImplementsLimiter, Limiter!LimiterSpec
=============================================================================
