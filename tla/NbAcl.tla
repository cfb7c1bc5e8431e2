------------------------------- MODULE NbAcl -------------------------------
(***************************************************************************)
(* Access control lists (src/src/nb_acl_base.cc and nb_acl.cc), with the   *)
(* lists of strings in JSON they are read from and written to              *)
(* (src/include/necbaas/nb_json_array.h).  An NbAcl is edited, sent to the *)
(* server with an object, and set again from the JSON of a reply.  Its     *)
(* owner, a string that is copied, is left out.                            *)
(*                                                                         *)
(* An entry, a user or a group, is a number that stands for its place in   *)
(* the order of strings; 0 is the empty string, and in JSON a negative     *)
(* number is what is not a string.  RemoveEntry erases one entry only:     *)
(* that this revokes the permission depends on every other operation       *)
(* keeping the lists free of duplicates.                                   *)
(***************************************************************************)
EXTENDS Integers, Sequences, SequencesExt, FiniteSetsExt, Functions

CONSTANTS Permissions,   \* those modelled, in the order they are put into JSON
          Entries,       \* users and groups
          Foreign        \* elements of lists in JSON that other clients wrote

ASSUME AclAssumption ==
  /\ Permissions \in Seq({"READ", "WRITE", "CREATE", "UPDATE", "DELETE", "ADMIN"})
  /\ Entries \subseteq Nat \ {0} /\ Foreign \subseteq Int

VARIABLES acl,      \* acl[p]: the list of permission p
          granted   \* granted[p]: who has been granted p, and not been revoked it

aclVars == <<acl, granted>>

PermissionsOf == Range(Permissions)

AclInit ==
  /\ acl = [p \in PermissionsOf |-> <<>>]
  /\ granted = [p \in PermissionsOf |-> {}]
-----------------------------------------------------------------------------
SortedOnly(list) == SortSeq(list, <)                     \* without unique()

(* The elements of a set of numbers in order: the i-th has i of them up to *)
(* itself.                                                                 *)
InOrder(S) ==
  [i \in 1..Cardinality(S) |-> CHOOSE x \in S : Cardinality({y \in S : y <= x}) = i]

SortUnique(list) == InOrder(Range(list))

GetAllString(array) == [i \in DOMAIN array |-> IF array[i] < 0 THEN 0 ELSE array[i]]

(* The array has the size of the list, whatever it held before.            *)
PutAllList(array, list) == [i \in DOMAIN list |-> list[i]]

WithEntry(list, entry) == IF entry = 0 THEN list ELSE SortUnique(Append(list, entry))

(* The first entry that is equal is erased, and no other.                  *)
WithoutEntry(list, entry) ==
  IF entry = 0 \/ entry \notin Range(list) THEN list
  ELSE RemoveAt(list, SelectInSeq(list, LAMBDA e : e = entry))

ListOf(entries) == InOrder(Range(entries) \ {0})   \* SetEntries

(* ToJsonObject: one NbJsonArray is filled with each list in turn, and     *)
(* another with that of ADMIN.                                             *)
ToJsonObject(lists) ==
  LET array[i \in 0..Len(Permissions)] ==
        IF i = 0 THEN <<>>
        ELSE PutAllList(IF Permissions[i] = "ADMIN" THEN <<>> ELSE array[i - 1],
                        lists[Permissions[i]])
  IN [p \in PermissionsOf |-> array[SelectInSeq(Permissions, LAMBDA q : q = p)]]
-----------------------------------------------------------------------------
AddEntry(p, entry) ==
  /\ acl' = [acl EXCEPT ![p] = WithEntry(@, entry)]
  /\ granted' = [granted EXCEPT ![p] = @ \cup ({entry} \ {0})]

RemoveEntry(p, entry) ==
  /\ acl' = [acl EXCEPT ![p] = WithoutEntry(@, entry)]
  /\ granted' = [granted EXCEPT ![p] = @ \ {entry}]

(* SetRead, SetWrite, SetCreate, SetUpdate, SetDelete and SetAdmin.        *)
SetEntries(p, entries) ==
  /\ acl' = [acl EXCEPT ![p] = ListOf(entries)]
  /\ granted' = [granted EXCEPT ![p] = Range(entries) \ {0}]

(* CreateAclFor an entry, or a list of them.                               *)
CreateAclFor(entries) ==
  LET Kept(p)  == p \in {"READ", "WRITE", "ADMIN"}
  IN /\ acl' = [p \in PermissionsOf |-> IF Kept(p) THEN ListOf(entries) ELSE <<>>]
     /\ granted' = [p \in PermissionsOf |-> IF Kept(p) THEN Range(entries) \ {0} ELSE {}]

(* What is not a string becomes an empty one, and stays.                   *)
SetJson(json, grants) ==
  /\ acl' = [p \in PermissionsOf |-> SortUnique(GetAllString(json[p]))]
  /\ granted' = grants

(* The reply to a Save has what was sent.                                  *)
SetSaved == SetJson(ToJsonObject(acl), granted)

(* Any other reply has the lists of another client.                        *)
SetForeign(json) == SetJson(json, [p \in PermissionsOf |-> {e \in Range(json[p]) : e > 0}])

AclNext ==
  \/ \E p \in PermissionsOf, entry \in Entries \cup {0} : AddEntry(p, entry)
  \/ \E p \in PermissionsOf, entry \in Entries \cup {0} : RemoveEntry(p, entry)
  \/ \E p \in PermissionsOf, entries \in SeqOf(Entries \cup {0}, 2) : SetEntries(p, entries)
  \/ \E entries \in SeqOf(Entries \cup {0}, 2) : CreateAclFor(entries)
  \/ SetSaved
  \/ \E json \in [PermissionsOf -> SeqOf(Foreign, 2)] : SetForeign(json)

AclSpec == AclInit /\ [][AclNext]_aclVars
-----------------------------------------------------------------------------
(* A permission is held by those it was granted to and not revoked from    *)
(* since (nb_acl_base.h:35-77, 131-146), in the lists the application sees *)
(* and in the JSON the server is sent: whatever calls and replies came     *)
(* before, one RemoveEntry revokes it, and a list made shorter stays so.   *)
GrantsAreAsked ==
  \A p \in PermissionsOf :
    /\ Range(acl[p]) \ {0} = granted[p]
    /\ Range(ToJsonObject(acl)[p]) \ {0} = granted[p]
=============================================================================
