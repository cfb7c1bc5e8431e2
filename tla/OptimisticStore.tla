-------------------------- MODULE OptimisticStore --------------------------
(***************************************************************************)
(* What the SDK promises of the objects and files it keeps on the server   *)
(* (necbaas/nb_object.h, nb_file_bucket.h): although a client first reads, *)
(* then changes its copy and then writes it back, a write under the ETag   *)
(* of what was read is one atomic step, which keeps whatever others have   *)
(* stored and adds to it.  Only a client that names no ETag overwrites     *)
(* what is there, whatever it is.                                          *)
(*                                                                         *)
(* The content of an entry is the set of the edits made to it.             *)
(***************************************************************************)
CONSTANTS Names,   \* of the entries
          Edits    \* what may be stored in them

VARIABLE store     \* store[n]: state and content of n, and how it was written

States == {"none", "live", "marked", "gone"}
Exists(n) == store[n].state \in {"live", "marked"}

Write(n, state, value, guarded) ==
  store' = [store EXCEPT ![n] = [state |-> state, value |-> value, guarded |-> guarded]]

Init == store = [n \in Names |-> [state |-> "none", value |-> {}, guarded |-> FALSE]]

(* A name is free when nothing, or only something deleted, has it.         *)
Create(n, value) == store[n].state # "live" /\ Write(n, "live", value, FALSE)

(* An update under an ETag; that of something marked may take the mark off.*)
Modify(n, added) ==
  /\ Exists(n)
  /\ \E state \in {"live", store[n].state} :
       Write(n, state, store[n].value \cup added, TRUE)

(* A delete, which may leave a mark.                                       *)
Delete(n, guarded) ==
  /\ Exists(n)
  /\ \/ Write(n, "marked", store[n].value, guarded)
     \/ Write(n, "gone", store[n].value, guarded)

(* An update under no ETag.                                                *)
Overwrite(n, value) ==
  /\ Exists(n)
  /\ \E state \in {"live", store[n].state} : Write(n, state, value, FALSE)

Next ==
  \E n \in Names :
    \/ \E value \in SUBSET Edits : Create(n, value) \/ Modify(n, value) \/ Overwrite(n, value)
    \/ \E guarded \in BOOLEAN : Delete(n, guarded)

Spec == Init /\ [][Next]_store
=============================================================================
