---------------------------- MODULE NbFileBucket ----------------------------
(***************************************************************************)
(* Files in one bucket of the server (src/src/nb_file_bucket.cc) and what  *)
(* applications hold of them: the metadata (src/src/nb_file_metadata.cc)   *)
(* that a call returned and the file on their own disk.  A client is one   *)
(* thread of one device, working on one file at a time.  As in NbObject, a *)
(* call sends one request, and a request that was given up may still be    *)
(* performed later.                                                        *)
(*                                                                         *)
(* The server is external.  A file has two ETags: of its body and of its   *)
(* metadata (functional_tests/nb_file_bucket_ft.cc:413); it refuses a      *)
(* request that names another one (ft.cc:537 and 1031), a new file of a    *)
(* name in use, and any request at all while somebody locks the file       *)
(* (ft.cc:1008).  An update takes the mark off a deleted file (ft.cc:514). *)
(*                                                                         *)
(* The body of a file is the set of the edits in it, the Content-Type      *)
(* stands for all of the metadata.  The early returns for an empty bucket, *)
(* name or path send nothing; they are guards here.                        *)
(***************************************************************************)
EXTENDS Naturals, FiniteSets

CONSTANTS Clients,
          FileNames, NoName,  \* the names of files; the empty one
          Types, NoType,      \* Content-Types; the empty one
          Edits,              \* what is written into files
          Named,              \* the choices of ETags that updates and deletes name
          Garbled,            \* whether the body of a 2xx reply may not parse
          MaxETag,            \* bounds the ETags
          MaxCalls,           \* bounds the calls of all clients together
          MaxAdrift           \* bounds the requests that are late at a time

Parts   == {"meta", "file"}   \* the ETags a request may name
Methods == {"POST", "PUT", "DELETE", "download", "list"}

ASSUME FileAssumption ==
  /\ NoName \notin FileNames /\ NoType \notin Types
  /\ Named \subseteq SUBSET Parts /\ Garbled \in BOOLEAN
  /\ MaxETag \in Nat /\ MaxCalls \in Nat /\ MaxAdrift \in Nat

VARIABLES
  metadata,   \* metadata[c]: the NbFileMetadata c has
  local,      \* local[c]: the body of c's own file
  fresh,      \* fresh[c]: that file is as it was at metadata[c] or later, or
              \*   has edits of c on top of that
  call,       \* call[c]: the request of the call c is in
  calls,      \* how many calls the clients have made
  adrift,     \* requests of calls that gave up, which may still arrive
  files,      \* the server's files, with what their last changes were
  etags       \* the newest ETag

clientVars == <<metadata, local, fresh>>
vars == <<metadata, local, fresh, call, calls, adrift, files, etags>>

NoETag == 0
NoCall == [method |-> "none"]

Metadata(name, type, meta_etag, file_etag) ==
  [file_name |-> name, type |-> type, meta_etag |-> meta_etag, file_etag |-> file_etag]

NoMetadata == Metadata(NoName, NoType, NoETag, NoETag)

ReadMetadataSwapped(file) ==             \* ReadMetadata with the ETags swapped
  Metadata(file.file_name, file.type, file.file_etag, file.meta_etag)

(* NbFileMetadata's constructor.                                           *)
ReadMetadata(file) ==
  Metadata(file.file_name, file.type, file.meta_etag, file.file_etag)

Init ==
  /\ metadata = [c \in Clients |-> NoMetadata]
  /\ local = [c \in Clients |-> {}]
  /\ fresh = [c \in Clients |-> FALSE]
  /\ call = [c \in Clients |-> NoCall]
  /\ calls = 0 /\ adrift = {} /\ etags = 0
  /\ files = [n \in FileNames |->
       [file_name |-> n, state |-> "none", value |-> {}, type |-> NoType,
        meta_etag |-> NoETag, file_etag |-> NoETag,
        by |-> {}, guarded |-> FALSE, typed |-> FALSE, seen |-> {}]]
-----------------------------------------------------------------------------
(* Requests.  Not sent are "guarded", that it names an ETag, of what its   *)
(* caller has seen; "typed", that it names the metadata's; and "seen", the *)
(* body that its caller has seen.                                          *)
Request(method, name) ==
  [number |-> calls + 1, method |-> method, name |-> name, type |-> NoType,
   meta_etag |-> NoETag, file_etag |-> NoETag, value |-> {}, mark |-> FALSE,
   guarded |-> FALSE, typed |-> FALSE, seen |-> {}]

NameETags(c, r, named) ==
  [r EXCEPT
    !.meta_etag = IF "meta" \in named THEN metadata[c].meta_etag ELSE NoETag,
    !.file_etag = IF "file" \in named THEN metadata[c].file_etag ELSE NoETag,
    !.guarded   = named # {} /\ fresh[c],
    !.typed     = "meta" \in named,
    !.seen      = local[c]]

UpdateRequestNoMeta(c, named) ==         \* UpdateRequest without the metadata's ETag
  [NameETags(c, Request("PUT", metadata[c].file_name), named) EXCEPT
    !.type = metadata[c].type, !.value = local[c], !.meta_etag = NoETag]

UpdateRequestBlind(c, named) ==          \* UpdateRequest without any ETag
  [NameETags(c, Request("PUT", metadata[c].file_name), named) EXCEPT
    !.type = metadata[c].type, !.value = local[c],
    !.meta_etag = NoETag, !.file_etag = NoETag]

UpdateRequest(c, named) ==
  [NameETags(c, Request("PUT", metadata[c].file_name), named) EXCEPT
    !.type = metadata[c].type, !.value = local[c]]

DeleteRequestBlind(c, named, mark) ==    \* DeleteRequest without any ETag
  [NameETags(c, Request("DELETE", metadata[c].file_name), named) EXCEPT
    !.mark = mark, !.meta_etag = NoETag, !.file_etag = NoETag]

DeleteRequest(c, named, mark) ==
  [NameETags(c, Request("DELETE", metadata[c].file_name), named) EXCEPT !.mark = mark]

Idle(c) == call[c] = NoCall

Call(c, request) ==
  /\ Idle(c) /\ calls < MaxCalls
  /\ call' = [call EXCEPT ![c] = request]
  /\ calls' = calls + 1
  /\ UNCHANGED <<adrift, files, etags>>

Send(c, request) == Call(c, request) /\ UNCHANGED clientVars

(* The application writes into its file.                                   *)
Edit(c, e) ==
  /\ Idle(c)
  /\ local' = [local EXCEPT ![c] = @ \cup {e}]
  /\ UNCHANGED <<metadata, fresh, call, calls, adrift, files, etags>>

UploadNewFile(c, name, type) ==
  Send(c, [Request("POST", name) EXCEPT !.type = type, !.value = local[c]])

(* With the metadata, both ETags are named; with the form that takes them  *)
(* as strings, the application may leave out either.                       *)
UploadUpdateFile(c, named) ==
  metadata[c].file_name # NoName /\ Send(c, UpdateRequest(c, named))

DeleteFileUnnamed(c, named, delete_mark) ==   \* DeleteFile of an empty name, too
  Send(c, DeleteRequest(c, named, delete_mark))

DeleteFile(c, named, delete_mark) ==
  metadata[c].file_name # NoName /\ Send(c, DeleteRequest(c, named, delete_mark))

(* The file is opened, and so emptied, before the request is sent.         *)
DownloadFile(c) ==
  /\ metadata[c].file_name # NoName
  /\ Call(c, Request("download", metadata[c].file_name))
  /\ local' = [local EXCEPT ![c] = {}]
  /\ fresh' = [fresh EXCEPT ![c] = FALSE]
  /\ UNCHANGED metadata

GetFiles(c, delete_mark) == Send(c, [Request("list", NoName) EXCEPT !.mark = delete_mark])
-----------------------------------------------------------------------------
(* The server.                                                             *)
Exists(n) == files[n].state \in {"live", "marked"}

Accepted(r) ==
  /\ Exists(r.name)
  /\ r.meta_etag \in {NoETag, files[r.name].meta_etag}
  /\ r.file_etag \in {NoETag, files[r.name].file_etag}

Changed(r, state, value, type, file_etag) ==
  [file_name |-> r.name, state |-> state, value |-> value, type |-> type,
   meta_etag |-> etags + 1, file_etag |-> file_etag,
   by |-> {}, guarded |-> r.guarded, typed |-> r.typed, seen |-> r.seen]

(* What a request makes of the file it names.                              *)
Written(r) ==
  LET file == files[r.name]
  IN CASE r.method = "POST" /\ file.state # "live" ->
            {Changed(r, "live", r.value, r.type, etags + 1)}
       [] r.method = "PUT" /\ Accepted(r) ->
            {Changed(r, "live", r.value, IF r.type = NoType THEN file.type ELSE r.type, etags + 1)}
       [] r.method = "DELETE" /\ Accepted(r) ->
            {Changed(r, IF r.mark THEN "marked" ELSE "gone", file.value, file.type, file.file_etag)}
       [] OTHER -> {}

(* A bound on the ETags is a refusal here.                                 *)
Store(file) ==
  /\ etags < MaxETag /\ etags' = etags + 1
  /\ files' = [files EXCEPT ![file.file_name] = file]

(* Somebody else changes the metadata of a file, its ACL for instance.     *)
OtherChanges(n, type) ==
  /\ Exists(n)
  /\ Store([files[n] EXCEPT !.type = type, !.meta_etag = etags + 1, !.by = {},
                            !.guarded = TRUE, !.typed = FALSE, !.seen = files[n].value])
  /\ UNCHANGED <<clientVars, call, calls, adrift>>
-----------------------------------------------------------------------------
(* What the application takes over from a reply.  That to a physical       *)
(* delete has no metadata.  An upload leaves the application with the file *)
(* that is now on the server, so does a delete under an ETag.              *)
TakeOver(c, r, file) ==
  /\ metadata' \in {[metadata EXCEPT ![c] = m] :
       m \in IF r.method = "DELETE" /\ ~r.mark THEN {metadata[c]}
             ELSE {ReadMetadata(file)} \cup (IF Garbled THEN {NoMetadata} ELSE {})}
  /\ fresh' = [fresh EXCEPT ![c] = r.method # "DELETE" \/ r.guarded]
  /\ UNCHANGED local

(* An upload or a delete is performed; its reply arrives, or gets lost.    *)
PerformWrite(c) ==
  /\ ~Idle(c)
  /\ \E file \in Written(call[c]) :
       \/ Store([file EXCEPT !.by = {c}]) /\ TakeOver(c, call[c], file)
       \/ Store(file) /\ UNCHANGED clientVars
  /\ call' = [call EXCEPT ![c] = NoCall]
  /\ UNCHANGED <<calls, adrift>>

(* The application picks one of the files listed.                          *)
PerformList(c) ==
  /\ ~Idle(c) /\ call[c].method = "list"
  /\ \E n \in FileNames :
       /\ files[n].state = "live" \/ (call[c].mark /\ files[n].state = "marked")
       /\ metadata' = [metadata EXCEPT ![c] = ReadMetadata(files[n])]
  /\ fresh' = [fresh EXCEPT ![c] = FALSE]
  /\ call' = [call EXCEPT ![c] = NoCall]
  /\ UNCHANGED <<local, calls, adrift, files, etags>>

(* All of the body arrives, or the part of it that came before an error.   *)
PerformDownload(c) ==
  /\ ~Idle(c) /\ call[c].method = "download" /\ Exists(call[c].name)
  /\ \E part \in SUBSET files[call[c].name].value :
       /\ local' = [local EXCEPT ![c] = part]
       /\ fresh' = [fresh EXCEPT ![c] = part = files[call[c].name].value]
  /\ call' = [call EXCEPT ![c] = NoCall]
  /\ UNCHANGED <<metadata, calls, adrift, files, etags>>

(* The server refuses; or the call times out, or the connection breaks,    *)
(* and the server may perform the request later.                           *)
Fail(c) ==
  /\ ~Idle(c)
  /\ \/ UNCHANGED adrift
     \/ /\ call[c].method \in {"POST", "PUT", "DELETE"} /\ Cardinality(adrift) < MaxAdrift
        /\ adrift' = adrift \cup {call[c]}
  /\ call' = [call EXCEPT ![c] = NoCall]
  /\ UNCHANGED <<clientVars, calls, files, etags>>

ServerLate ==
  \E r \in adrift :
    /\ adrift' = adrift \ {r}
    /\ UNCHANGED <<files, etags>> \/ \E file \in Written(r) : Store(file)
    /\ UNCHANGED <<clientVars, call, calls>>

Start(c) ==
  \/ \E e \in Edits : Edit(c, e)
  \/ \E name \in FileNames, type \in Types : UploadNewFile(c, name, type)
  \/ \E named \in Named :
       UploadUpdateFile(c, named) \/ \E mark \in BOOLEAN : DeleteFile(c, named, mark)
  \/ DownloadFile(c)
  \/ \E mark \in BOOLEAN : GetFiles(c, mark)

Next ==
  \/ \E c \in Clients : Start(c) \/ PerformWrite(c) \/ PerformList(c) \/ PerformDownload(c) \/ Fail(c)
  \/ ServerLate
  \/ \E n \in FileNames, type \in Types : OtherChanges(n, type)

Spec == Init /\ [][Next]_vars
-----------------------------------------------------------------------------
File == [file_name : FileNames, state : {"none", "live", "marked", "gone"},
         value : SUBSET Edits, type : Types \cup {NoType}, meta_etag : Nat, file_etag : Nat,
         by : SUBSET Clients, guarded : BOOLEAN, typed : BOOLEAN, seen : SUBSET Edits]
Record == [number : Nat, method : Methods, name : FileNames \cup {NoName},
           type : Types \cup {NoType}, meta_etag : Nat, file_etag : Nat,
           value : SUBSET Edits, mark : BOOLEAN,
           guarded : BOOLEAN, typed : BOOLEAN, seen : SUBSET Edits]
Sent == {r \in Record : r.method # "list" => r.name \in FileNames}

(* Among it that no request about one file goes to the path of the bucket. *)
FilesTypeOK ==
  /\ metadata \in [Clients -> [file_name : FileNames \cup {NoName}, type : Types \cup {NoType},
                               meta_etag : 0..MaxETag, file_etag : 0..MaxETag]]
  /\ local \in [Clients -> SUBSET Edits] /\ fresh \in [Clients -> BOOLEAN]
  /\ call \in [Clients -> Sent \cup {NoCall}] /\ calls \in 0..MaxCalls
  /\ adrift \subseteq Sent /\ etags \in 0..MaxETag
  /\ files \in [FileNames -> File] /\ \A n \in FileNames : files[n].file_name = n

(* No update or delete of a file under an ETag of it throws away what      *)
(* somebody else has written into it unseen (nb_file_bucket.cc:160, 216),  *)
(* not even one that arrives late.  DownloadFile returns no ETag, so this  *)
(* holds for an application that has the metadata before it downloads the  *)
(* file; it may even get a later one then, whose update is refused.        *)
NothingLost ==
  [][\A n \in FileNames :
       LET new == files'[n]
       IN Exists(n) /\ new # files[n] /\ new.guarded =>
            /\ new.state \in {"live", "marked"} => files[n].value \subseteq new.value
            /\ new.state = "gone" => files[n].value \subseteq new.seen]_vars

(* UploadUpdateFile sends the Content-Type of the metadata along           *)
(* (nb_file_bucket.cc:126); under the metadata's ETag that sets back none  *)
(* that somebody else has given the file since.                            *)
TypeKept ==
  [][\A n \in FileNames :
       Exists(n) /\ files'[n] # files[n] /\ files'[n].typed => files'[n].type = files[n].type]_vars

(* Together the clients and the server are a store with atomic updates.    *)
Atomic == INSTANCE OptimisticStore WITH
  Names <- FileNames,
  store <- [n \in FileNames |-> [state |-> files[n].state, value |-> files[n].value,
                                 guarded |-> files[n].guarded]]

ImplementsStore == Atomic!Spec

(* A client's metadata is up to date with what it has done itself: its     *)
(* next update is not refused (409) because of an earlier one of its own,  *)
(* unless the reply to that was lost.                                      *)
KnowsOwn ==
  \A c \in Clients, n \in FileNames :
    /\ metadata[c].file_name = n
    /\ files[n].by = {c}
    /\ files[n].state # "gone"
    => /\ metadata[c].meta_etag = files[n].meta_etag
       /\ metadata[c].file_etag = files[n].file_etag
       /\ metadata[c].type = files[n].type
=============================================================================
