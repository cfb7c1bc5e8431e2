--------------------------- MODULE NbSessionToken ---------------------------
(***************************************************************************)
(* The login session a service keeps                                       *)
(* (src/src/internal/nb_session_token.cc): a session token, the time at    *)
(* which it expires and the user it was issued to.  Every getter answers   *)
(* with the initial value when the session is not valid at the moment of   *)
(* the call, so two getters called one after the other can disagree.       *)
(***************************************************************************)
EXTENDS Integers

CONSTANTS Tokens,    \* the session tokens servers issue
          Users,     \* the users that may log in
          NoToken,   \* the empty string as a session token
          NoUser     \* an NbUserEntity with every field empty

ASSUME EmptyAssumption == NoToken \notin Tokens /\ NoUser \notin Users

VARIABLE now         \* time(nullptr)

NbSessionTokens == [session_token : Tokens \cup {NoToken},
                    expire_at     : Int,
                    user_entity   : Users \cup {NoUser}]

(* A default-constructed token; ClearSessionToken makes any token this.    *)
EmptySession == [session_token |-> NoToken,
                 expire_at     |-> 0,
                 user_entity   |-> NoUser]

IsExpired(expire_at) == expire_at <= now

IsValid(s) == s.session_token # NoToken /\ ~IsExpired(s.expire_at)

GetSessionToken(s)      == IF IsValid(s) THEN s.session_token ELSE NoToken
GetExpireAt(s)          == IF IsValid(s) THEN s.expire_at ELSE 0
GetSessionUserEntity(s) == IF IsValid(s) THEN s.user_entity ELSE NoUser
=============================================================================
