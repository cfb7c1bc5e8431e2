-------------------------- MODULE ConnectionLimiter --------------------------
(***************************************************************************)
(* What the executor pool of an NbService promises to the calls that share *)
(* the service (nb_rest_executor_pool.h: "a limit on the number of         *)
(* executors lent at the same time; lending fails once it is reached"):    *)
(*   - at most Max calls use a connection at any moment,                   *)
(*   - a call is refused only while Max others use one, and is never made  *)
(*     to wait,                                                            *)
(*   - a call that is done makes room for another.                         *)
(* Which connection a call gets, and how connections are kept, is left to  *)
(* the implementation.                                                     *)
(***************************************************************************)
EXTENDS Naturals, FiniteSets

CONSTANTS Clients,   \* the calls that compete for a connection
          Max        \* the limit

VARIABLE use         \* use[c] : what call c has been told

Answers == {"none", "granted", "refused"}

Granted == {c \in Clients : use[c] = "granted"}

LimiterInit == use = [c \in Clients |-> "none"]

Admit(c) ==
  /\ use[c] = "none"
  /\ Cardinality(Granted) < Max
  /\ use' = [use EXCEPT ![c] = "granted"]

Refuse(c) ==
  /\ use[c] = "none"
  /\ Cardinality(Granted) = Max
  /\ use' = [use EXCEPT ![c] = "refused"]

Leave(c) ==
  /\ use[c] # "none"
  /\ use' = [use EXCEPT ![c] = "none"]

LimiterNext == \E c \in Clients : Admit(c) \/ Refuse(c) \/ Leave(c)

LimiterSpec == LimiterInit /\ [][LimiterNext]_use
=============================================================================
