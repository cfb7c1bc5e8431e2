--------------------------- MODULE MCNbUserRaces ---------------------------
(* NbUserRaces with the instances of MCNbUser.                             *)
EXTENDS MCNbUser, NbUserRaces
=============================================================================
