---------------------------- MODULE NbUserRaces ----------------------------
(***************************************************************************)
(* NbUser with the history that a property of racing calls needs: which    *)
(* logouts another call has overtaken.  No guard reads it.                 *)
(***************************************************************************)
EXTENDS NbUser

VARIABLE overtaken   \* history: the threads in a logout during which a login
                     \* or an import has given the service its session

raceVars == <<vars, overtaken>>

(* From the request, which takes the session along, to the clearing.       *)
InLogout(t) == op[t] = "Logout" /\ pc[t] \in {"pop", "perform", "push", "done"}

Stores == session_token' \notin {session_token, EmptySession}

RaceInit == Init /\ overtaken = {}

RaceNext ==
  /\ Next
  /\ overtaken' = {t \in Threads : InLogout(t)' /\ (t \in overtaken \/ Stores)}

RaceSpec == RaceInit /\ [][RaceNext]_raceVars /\ \A t \in Threads : WF_vars(Step(t))
-----------------------------------------------------------------------------
(* A 2xx reply to a login that carries no session clears the one there is. *)
EmptyLogin(t) == op[t] = "Login" /\ json[t] = EmptySession

(* nb_user.h:49-50: a login is kept until a logout or the next login.  The *)
(* logout of another thread may throw it away (nb_user.cc:104-105), but    *)
(* only if its request names that very session, or if the session was      *)
(* stored while the logout was on its way: a login that is complete when a *)
(* logout builds its request is dropped by no logout that names another,   *)
(* whoever logs in, out and imports at the same time and whatever gets     *)
(* lost.  The one other way to lose a valid session is EmptyLogin.         *)
LostOnlyIfEndedOrRaced ==
  [][IsValid(session_token) /\ session_token' = EmptySession =>
       \E t \in Threads :
         /\ pc'[t] # pc[t]
         /\ \/ InLogout(t) /\ request[t] = session_token.session_token
            \/ InLogout(t) /\ t \in overtaken
            \/ EmptyLogin(t)]_raceVars
=============================================================================
