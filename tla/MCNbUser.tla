------------------------------ MODULE MCNbUser ------------------------------
(* Instances of NbUser for TLC.                                            *)
EXTENDS NbUser, TLC

CONSTANTS t1, t2, k1, k2, u1, u2

OneThread    == {t1}
TwoThreads   == {t1, t2}
OneToken     == {k1}
TwoTokens    == {k1, k2}
OneUser      == {u1}
TwoUsers     == {u1, u2}

AllParameters == {"endpoint_url", "tenant_id", "app_id", "app_key"}

SessionOps == {"Request", "Login", "Logout", "Import"}
LoginExport       == {"Login", "Export"}

BothFaults == {"lost", "malformed"}
Losses     == {"lost"}
NoFaults   == {}

(* Sessions outlive two ticks, or expire at the first one.                 *)
Short      == {1}
ShortLong  == {1, 3}

(* An int wide enough for every time of the run.                           *)
WideInt    == 15

(* Threads, tokens and users are interchangeable.                          *)
Symmetry == Permutations(Threads) \cup Permutations(Tokens)
              \cup Permutations(Users)
=============================================================================
