----------------------------- MODULE MCNbObject -----------------------------
(* Instances of NbObject for TLC.                                          *)
EXTENDS NbObject, TLC

(* {"name": true} leaves out the ETag and the mark, {"_id": false} the ID  *)
(* (functional_tests/nb_object_ft.cc:1448 and 1521).                       *)
PartOfThem == {{}, {"_id"}, {"etag", "_deleted"}}

Symmetry == Permutations(Copies) \cup Permutations(ObjectIds) \cup Permutations(Edits)
=============================================================================
