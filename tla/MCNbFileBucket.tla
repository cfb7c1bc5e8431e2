--------------------------- MODULE MCNbFileBucket ---------------------------
(* Instances of NbFileBucket for TLC.                                      *)
EXTENDS NbFileBucket, TLC

NoneOrBoth == {{}, Parts}

Symmetry == Permutations(Clients) \cup Permutations(Types)
=============================================================================
