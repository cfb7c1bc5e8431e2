------------------------- MODULE NbRestExecutorPool -------------------------
(***************************************************************************)
(* The pool of REST executors of one NbService                             *)
(* (src/src/internal/nb_rest_executor_pool.cc), with the calls that borrow *)
(* from it.  An executor is a libcurl handle: it is not thread-safe, so    *)
(* two calls must never hold the same one.                                 *)
(*                                                                         *)
(* PopRestExecutor and PushRestExecutor each run under stack_mutex_ from   *)
(* their first line to their last, so each is one step.  Executors are     *)
(* numbered in the order in which the pool creates them.                   *)
(***************************************************************************)
EXTENDS Integers, Sequences

CONSTANTS Threads,             \* the application threads calling the service
          HttpConnectionMax    \* http_connection_max (kHttpConnectionMax = 20)

ASSUME MaxAssumption == HttpConnectionMax \in Nat

Executors    == 1 .. HttpConnectionMax
NoExecutor   == 0              \* the thread has not asked for an executor
NullExecutor == -1             \* PopRestExecutor returned nullptr

VARIABLES
  idle_stack,      \* the idle executors, the top of the stack last
  creatable_num,   \* how many executors may still be created
  executor,        \* executor[t]: the pointer thread t got from the pool
  destroyed,       \* the pool's destructor has run
  deleted          \* the executors it deleted

poolVars == <<idle_stack, creatable_num, executor, destroyed, deleted>>

Idle    == {idle_stack[i] : i \in DOMAIN idle_stack}
Created == 1 .. (HttpConnectionMax - creatable_num)
Holders == {t \in Threads : executor[t] \in Executors}
Lent    == {executor[t] : t \in Holders}

PoolInit ==
  /\ idle_stack = <<>>
  /\ creatable_num = HttpConnectionMax
  /\ executor = [t \in Threads |-> NoExecutor]
  /\ destroyed = FALSE
  /\ deleted = {}
-----------------------------------------------------------------------------
(* Bugs the properties below are shown to catch: each replaces the         *)
(* definition named in its comment in a run of its own.                    *)

(* PopIdle without idle_stack_.pop().                                      *)
PopIdleKeepsTop(t) ==
  /\ idle_stack # <<>>
  /\ executor' = [executor EXCEPT ![t] = idle_stack[Len(idle_stack)]]
  /\ UNCHANGED <<idle_stack, creatable_num>>

(* PopNew that creates before it looks at the stack.                       *)
PopNewEager(t) ==
  /\ creatable_num > 0
  /\ executor' = [executor EXCEPT ![t] = HttpConnectionMax - creatable_num + 1]
  /\ creatable_num' = creatable_num - 1
  /\ UNCHANGED idle_stack

(* PopNew with >= for >.                                                   *)
PopNewOneMore(t) ==
  /\ idle_stack = <<>>
  /\ creatable_num >= 0
  /\ executor' = [executor EXCEPT ![t] = HttpConnectionMax - creatable_num + 1]
  /\ creatable_num' = creatable_num - 1
  /\ UNCHANGED idle_stack

(* PopNull that refuses while one executor could still be created.         *)
PopNullEarly(t) ==
  /\ idle_stack = <<>>
  /\ creatable_num <= 1
  /\ executor' = [executor EXCEPT ![t] = NullExecutor]
  /\ UNCHANGED <<idle_stack, creatable_num>>

(* PushRestExecutor that forgets the push.                                 *)
PushForgotten(t) ==
  /\ executor[t] \in Executors
  /\ executor' = [executor EXCEPT ![t] = NoExecutor]
  /\ UNCHANGED <<idle_stack, creatable_num, destroyed, deleted>>

(* DestroyPool whose loop stops with one executor left.                    *)
DestroyAllButOne ==
  /\ ~destroyed
  /\ \A t \in Threads : executor[t] = NoExecutor
  /\ deleted' = Idle \ {idle_stack[i] : i \in DOMAIN idle_stack \cap {1}}
  /\ idle_stack' = <<>>
  /\ destroyed' = TRUE
  /\ UNCHANGED <<creatable_num, executor>>
-----------------------------------------------------------------------------
(* PopRestExecutor, by the branch it takes.                                *)
PopIdle(t) ==
  /\ idle_stack # <<>>
  /\ executor' = [executor EXCEPT ![t] = idle_stack[Len(idle_stack)]]
  /\ idle_stack' = SubSeq(idle_stack, 1, Len(idle_stack) - 1)
  /\ UNCHANGED creatable_num

PopNew(t) ==
  /\ idle_stack = <<>>
  /\ creatable_num > 0
  /\ executor' = [executor EXCEPT ![t] = HttpConnectionMax - creatable_num + 1]
  /\ creatable_num' = creatable_num - 1
  /\ UNCHANGED idle_stack

PopNull(t) ==
  /\ idle_stack = <<>>
  /\ creatable_num <= 0
  /\ executor' = [executor EXCEPT ![t] = NullExecutor]
  /\ UNCHANGED <<idle_stack, creatable_num>>

PopRestExecutor(t) ==
  /\ ~destroyed
  /\ executor[t] = NoExecutor
  /\ PopIdle(t) \/ PopNew(t) \/ PopNull(t)
  /\ UNCHANGED <<destroyed, deleted>>

PushRestExecutor(t) ==
  /\ executor[t] \in Executors
  /\ idle_stack' = Append(idle_stack, executor[t])
  /\ executor' = [executor EXCEPT ![t] = NoExecutor]
  /\ UNCHANGED <<creatable_num, destroyed, deleted>>

(* A call that got nullptr returns NB_ERROR_CONNECTION_OVER.               *)
GiveUp(t) ==
  /\ executor[t] = NullExecutor
  /\ executor' = [executor EXCEPT ![t] = NoExecutor]
  /\ UNCHANGED <<idle_stack, creatable_num, destroyed, deleted>>

(* The pool dies with its service, which callers keep alive until their    *)
(* calls return; the destructor deletes what is in the stack.              *)
DestroyPool ==
  /\ ~destroyed
  /\ \A t \in Threads : executor[t] = NoExecutor
  /\ deleted' = Idle
  /\ idle_stack' = <<>>
  /\ destroyed' = TRUE
  /\ UNCHANGED <<creatable_num, executor>>

PoolNext ==
  \/ \E t \in Threads : PopRestExecutor(t) \/ PushRestExecutor(t) \/ GiveUp(t)
  \/ DestroyPool

PoolSpec == PoolInit /\ [][PoolNext]_poolVars
-----------------------------------------------------------------------------
PoolTypeOK ==
  /\ idle_stack \in Seq(Executors)
  /\ creatable_num \in 0 .. HttpConnectionMax
  /\ executor \in [Threads -> Executors \cup {NoExecutor, NullExecutor}]
  /\ destroyed \in BOOLEAN
  /\ deleted \in SUBSET Executors

(* Every pointer is in one place: no two threads hold the same executor,   *)
(* none that a thread holds is idle, and none is twice on the stack.       *)
HeldByOne ==
  /\ \A t, u \in Holders : executor[t] = executor[u] => t = u
  /\ Idle \cap Lent = {}
  /\ \A i, j \in DOMAIN idle_stack : idle_stack[i] = idle_stack[j] => i = j

(* Until the pool is destroyed no executor it has created is lost: each is *)
(* either idle, and will be lent again, or lent.                           *)
NoneLost == ~destroyed => Idle \cup Lent = Created

(* The destructor deletes only what is on the stack (lines 14-21); that is *)
(* all there is to delete, so no libcurl handle outlives the pool.         *)
AllDeleted == destroyed => deleted = Created /\ Lent = {} /\ Idle = {}

(* A second executor is opened only when no idle connection can be reused: *)
(* the pool never grows beyond the largest number of simultaneous calls.   *)
GrowsOnlyWhenAllLent ==
  [][creatable_num' # creatable_num => Created = Lent /\ idle_stack = <<>>]_poolVars

(* The pool implements the limiter its header documents.                   *)
Answer(e) == IF e = NoExecutor THEN "none"
             ELSE IF e = NullExecutor THEN "refused" ELSE "granted"
Limiter == INSTANCE ConnectionLimiter
             WITH Clients <- Threads, Max <- HttpConnectionMax,
                  use <- [t \in Threads |-> Answer(executor[t])]
ImplementsLimiter == Limiter!LimiterSpec
=============================================================================
