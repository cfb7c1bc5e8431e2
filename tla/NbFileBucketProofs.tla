------------------------- MODULE NbFileBucketProofs -------------------------
(***************************************************************************)
(* Proofs about NbFileBucket, for every set of clients, files, types and   *)
(* edits, every bound, and replies that can or cannot be read.             *)
(***************************************************************************)
EXTENDS NbFileBucket, TLAPS

USE DEF NoETag
-----------------------------------------------------------------------------
(* The inductive invariant, part by part, of what there is in a state or   *)
(* after a step: f and all are files, newest is the newest ETag.           *)
Alive(f) == f.state \in {"live", "marked"}

(* Whoever has one ETag of a file knows of all in its body, whoever has    *)
(* the metadata's knows the Content-Type; m is a request or metadata.      *)
Covers(m, value, f) ==
  Alive(f) /\ (m.meta_etag = f.meta_etag \/ m.file_etag = f.file_etag) => f.value \subseteq value

Agrees(m, f) == Alive(f) /\ m.meta_etag = f.meta_etag => m.type = f.type

Known(m, newest) == m.meta_etag <= newest /\ m.file_etag <= newest

FileOK(f, newest) == Known(f, newest) /\ (Alive(f) => f.meta_etag # NoETag /\ f.file_etag # NoETag)

(* What a request that names ETags of a file has behind it.                *)
Backed(r, all, newest) ==
  /\ r.method = "POST" => ~r.guarded /\ ~r.typed
  /\ r.method \in {"PUT", "DELETE"} =>
       /\ Known(r, newest)
       /\ r.guarded => /\ r.meta_etag # NoETag \/ r.file_etag # NoETag
                       /\ Covers(r, r.seen, all[r.name])
       /\ r.method = "PUT" => r.value = r.seen
       /\ r.typed => r.meta_etag # NoETag
       /\ r.typed /\ r.method = "PUT" => Agrees(r, all[r.name])

(* While its call lasts a client has the metadata and the file it had.     *)
Pending(r, m, value) ==
  /\ r.method \in {"POST", "PUT"} => r.value = value
  /\ r.method \in {"PUT", "DELETE"} => r.seen = value
  /\ r.method \in {"PUT", "DELETE", "download"} => r.name = m.file_name

UpToDate(m, c, f) ==
  f.by = {c} /\ f.state # "gone" =>
    m.meta_etag = f.meta_etag /\ m.file_etag = f.file_etag /\ m.type = f.type

GoodMetadata(m, c, value, isfresh, all, newest) ==
  /\ Known(m, newest)
  /\ m.file_name # NoName =>
       /\ m.meta_etag # NoETag /\ m.file_etag # NoETag
       /\ isfresh => Covers(m, value, all[m.file_name])
       /\ Agrees(m, all[m.file_name])
       /\ UpToDate(m, c, all[m.file_name])

Requests ==
  /\ \A r \in adrift : Backed(r, files, etags)
  /\ \A c \in Clients : call[c] # NoCall =>
       Backed(call[c], files, etags) /\ Pending(call[c], metadata[c], local[c])

FileInv ==
  /\ FilesTypeOK
  /\ \A n \in FileNames : FileOK(files[n], etags)
  /\ Requests
  /\ \A c \in Clients : GoodMetadata(metadata[c], c, local[c], fresh[c], files, etags)
-----------------------------------------------------------------------------
(* What a request makes of a file.                                         *)

(* The body of a file changes with both of its ETags.                      *)
Renewed(f, old, newest) ==
  /\ f.meta_etag = newest + 1
  /\ \/ f.file_etag = newest + 1
     \/ Alive(old) /\ f.file_etag = old.file_etag /\ f.value = old.value

Harmless(f, old) ==
  Alive(old) =>
    /\ f.guarded /\ Alive(f) => old.value \subseteq f.value
    /\ f.guarded /\ f.state = "gone" => old.value \subseteq f.seen
    /\ f.typed => f.type = old.type

(* Create; Modify or Overwrite; Delete of OptimisticStore.                 *)
StoreStep(f, old) ==
  \/ old.state # "live" /\ f.state = "live" /\ ~f.guarded
  \/ Alive(old) /\ f.state \in {"live", old.state} /\ (f.guarded => old.value \subseteq f.value)
  \/ Alive(old) /\ f.state \in {"marked", "gone"} /\ f.value = old.value

Made(f, n, old, newest) ==
  /\ f \in File /\ f.file_name = n
  /\ Renewed(f, old, newest) /\ Harmless(f, old) /\ StoreStep(f, old)

LEMMA NoCallIsNotSent == NoCall \notin Sent
BY DEF NoCall, Sent, Record, Methods

LEMMA WrittenIs ==
  ASSUME FilesTypeOK, NEW r \in Sent, Backed(r, files, etags), NEW f \in Written(r),
         r.name \in FileNames => FileOK(files[r.name], etags)
  PROVE  /\ r.name \in FileNames /\ r.method \in {"POST", "PUT", "DELETE"}
         /\ Made(f, r.name, files[r.name], etags) /\ f.by = {}
         /\ f.value = IF r.method = "DELETE" THEN files[r.name].value ELSE r.value
         /\ f.state \in {"live", "marked", "gone"}
         /\ f.state = "gone" <=> r.method = "DELETE" /\ ~r.mark
         /\ r.method = "DELETE" => (r.guarded => files[r.name].value \subseteq r.seen)
         /\ Alive(f) => f.meta_etag # NoETag /\ f.file_etag # NoETag
<1> DEFINE old == files[r.name]
<1>0. /\ r.method \in Methods /\ r.type \in Types \cup {NoType} /\ r.value \in SUBSET Edits
      /\ r.mark \in BOOLEAN /\ r.guarded \in BOOLEAN /\ r.typed \in BOOLEAN
      /\ r.seen \in SUBSET Edits /\ (r.method # "list" => r.name \in FileNames)
      /\ r.meta_etag \in Nat /\ r.file_etag \in Nat
  BY DEF Sent, Record
<1>1. r.method \in {"POST", "PUT", "DELETE"} /\ r.name \in FileNames
  BY <1>0 DEF Written, Methods
<1>2. old \in File /\ etags \in Nat
  BY <1>1 DEF FilesTypeOK
<1>3. /\ old.state \in {"none", "live", "marked", "gone"} /\ old.value \in SUBSET Edits
      /\ old.type \in Types \cup {NoType} /\ old.meta_etag \in Nat /\ old.file_etag \in Nat
  BY <1>2 DEF File
<1>4. ASSUME Accepted(r)
      PROVE  /\ Alive(old)
             /\ r.guarded => old.value \subseteq r.seen
             /\ r.typed => r.meta_etag = old.meta_etag
  BY <1>1, <1>4, <1>0 DEF Accepted, Exists, Alive, Backed, Covers
<1> DEFINE type == IF r.type = NoType THEN old.type ELSE r.type
<1>5. CASE /\ r.method = "POST" /\ old.state # "live"
           /\ f = Changed(r, "live", r.value, r.type, etags + 1)
  <2>1. f \in File /\ f.file_name = r.name /\ f.by = {}
    BY <1>0, <1>1, <1>2, <1>5 DEF Changed, File
  <2>2. ~f.guarded /\ ~f.typed /\ f.state = "live" /\ f.value = r.value
        /\ f.meta_etag = etags + 1 /\ f.file_etag = etags + 1
    BY <1>5 DEF Changed, Backed
  <2>3. Renewed(f, old, etags) /\ Harmless(f, old) /\ StoreStep(f, old)
    BY <2>2, <1>5 DEF Renewed, Harmless, StoreStep
  <2> QED BY <2>1, <2>2, <2>3, <1>1, <1>2, <1>5 DEF Made
<1>6. CASE /\ r.method = "PUT" /\ Accepted(r)
           /\ f = Changed(r, "live", r.value, type, etags + 1)
  <2>1. f \in File /\ f.file_name = r.name /\ f.by = {}
    BY <1>0, <1>1, <1>2, <1>3, <1>6 DEF Changed, File
  <2>2. f.guarded = r.guarded /\ f.typed = r.typed /\ f.state = "live" /\ f.value = r.value
        /\ f.meta_etag = etags + 1 /\ f.file_etag = etags + 1 /\ f.type = type
    BY <1>6 DEF Changed
  <2>3. r.value = r.seen /\ (r.typed => Agrees(r, old))
    BY <1>6 DEF Backed
  <2>4. r.typed => type = old.type
    BY <2>3, <1>4, <1>6 DEF Agrees
  <2>5. Renewed(f, old, etags) /\ Harmless(f, old) /\ StoreStep(f, old)
    BY <2>2, <2>3, <2>4, <1>4, <1>6 DEF Renewed, Harmless, StoreStep
  <2> QED BY <2>1, <2>2, <2>5, <1>1, <1>2, <1>6 DEF Made
<1>7. CASE /\ r.method = "DELETE" /\ Accepted(r)
           /\ f = Changed(r, IF r.mark THEN "marked" ELSE "gone", old.value, old.type, old.file_etag)
  <2>1. f \in File /\ f.file_name = r.name /\ f.by = {}
    BY <1>0, <1>1, <1>2, <1>3, <1>7 DEF Changed, File
  <2>2. f.guarded = r.guarded /\ f.value = old.value /\ f.seen = r.seen /\ f.type = old.type
        /\ f.meta_etag = etags + 1 /\ f.file_etag = old.file_etag
        /\ f.state = IF r.mark THEN "marked" ELSE "gone"
    BY <1>7 DEF Changed
  <2>3. Renewed(f, old, etags) /\ Harmless(f, old) /\ StoreStep(f, old)
    BY <2>2, <1>4, <1>7 DEF Renewed, Harmless, StoreStep
  <2>4. old.file_etag # NoETag
    BY <1>4, <1>7, <1>1 DEF FileOK
  <2> QED BY <2>1, <2>2, <2>3, <2>4, <1>0, <1>1, <1>2, <1>4, <1>7 DEF Made
<1> QED BY <1>1, <1>5, <1>6, <1>7 DEF Written
-----------------------------------------------------------------------------
(* What is known of the files stays known when one of them changes.        *)

LEMMA BackedStays ==
  ASSUME FilesTypeOK, NEW r \in Sent, Backed(r, files, etags), NEW n \in FileNames,
         NEW f \in File, Renewed(f, files[n], etags), FileOK(files[n], etags)
  PROVE  Backed(r, [files EXCEPT ![n] = f], etags + 1)
<1> DEFINE new == [files EXCEPT ![n] = f]
<1>1. etags \in Nat /\ files[n] \in File /\ r.meta_etag \in Nat /\ r.file_etag \in Nat
  BY DEF FilesTypeOK, Sent, Record
<1>2. files[n].meta_etag \in Nat /\ files[n].file_etag \in Nat
  BY <1>1 DEF File
<1>3. \A m \in FileNames : new[m] = IF m = n THEN f ELSE files[m]
  BY DEF FilesTypeOK
<1>4. r.method \in {"PUT", "DELETE"} => r.name \in FileNames
  BY DEF Sent
<1> HIDE DEF new
<1>5. ASSUME Known(r, etags), r.name = n, NEW value, Covers(r, value, files[n])
      PROVE  Covers(r, value, f)
  BY <1>1, <1>2, <1>5 DEF Known, Covers, Renewed
<1>6. ASSUME Known(r, etags), r.name = n PROVE Agrees(r, f)
  BY <1>1, <1>6 DEF Known, Agrees, Renewed
<1>7. Known(r, etags) => Known(r, etags + 1)
  BY <1>1 DEF Known
<1>8. Backed(r, new, etags + 1)
  BY <1>3, <1>4, <1>5, <1>6, <1>7 DEF Backed
<1> QED BY <1>8 DEF new

LEMMA MetadataStays ==
  ASSUME FilesTypeOK, NEW c \in Clients, NEW value, NEW isfresh,
         GoodMetadata(metadata[c], c, value, isfresh, files, etags),
         NEW n \in FileNames, NEW f \in File, Renewed(f, files[n], etags), f.by # {c}
  PROVE  GoodMetadata(metadata[c], c, value, isfresh, [files EXCEPT ![n] = f], etags + 1)
<1> DEFINE new == [files EXCEPT ![n] = f]
           m == metadata[c]
<1>1. /\ etags \in Nat /\ files[n] \in File /\ m.meta_etag \in Nat /\ m.file_etag \in Nat
      /\ m.file_name # NoName => m.file_name \in FileNames
  BY DEF FilesTypeOK
<1>2. files[n].meta_etag \in Nat /\ files[n].file_etag \in Nat
  BY <1>1 DEF File
<1>3. \A k \in FileNames : new[k] = IF k = n THEN f ELSE files[k]
  BY DEF FilesTypeOK
<1> HIDE DEF new, m
<1>4. Known(m, etags)
  BY DEF GoodMetadata, m
<1>5. Covers(m, value, files[n]) => Covers(m, value, f)
  BY <1>1, <1>2, <1>4 DEF Known, Covers, Renewed
<1>6. Agrees(m, f)
  BY <1>1, <1>4 DEF Known, Agrees, Renewed
<1>7. Known(m, etags + 1)
  BY <1>1, <1>4 DEF Known
<1>8. UpToDate(m, c, f)
  BY DEF UpToDate
<1>9. GoodMetadata(m, c, value, isfresh, new, etags + 1)
  BY <1>1, <1>3, <1>5, <1>6, <1>7, <1>8 DEF GoodMetadata, m
<1> QED BY <1>9 DEF new, m

(* All of it together; the client "by" is the one that changed the file.   *)
Kept(by, all, newest) ==
  /\ \A n \in FileNames : FileOK(all[n], newest)
  /\ \A r \in Sent : Backed(r, files, etags) => Backed(r, all, newest)
  /\ \A c \in Clients : by # {c} =>
       GoodMetadata(metadata[c], c, local[c], fresh[c], all, newest)

LEMMA StoreKeeps ==
  ASSUME FileInv, NEW n \in FileNames, NEW f \in File, Renewed(f, files[n], etags),
         Alive(f) => f.meta_etag # NoETag /\ f.file_etag # NoETag
  PROVE  Kept(f.by, [files EXCEPT ![n] = f], etags + 1)
<1> DEFINE new == [files EXCEPT ![n] = f]
<1>1. FilesTypeOK /\ FileOK(files[n], etags) /\ etags \in Nat
  BY DEF FileInv, FilesTypeOK
<1>2. ASSUME NEW k \in FileNames PROVE FileOK(new[k], etags + 1)
  <2>1. CASE k = n
    <3>1. new[k] = f /\ files[n].file_etag \in Nat
      BY <2>1, <1>1 DEF FilesTypeOK, File
    <3> QED BY <3>1, <1>1 DEF FileOK, Known, Renewed
  <2>2. CASE k # n
    <3>1. new[k] = files[k] /\ FileOK(files[k], etags)
          /\ files[k].meta_etag \in Nat /\ files[k].file_etag \in Nat
      BY <2>2, <1>1 DEF FilesTypeOK, File, FileInv
    <3> QED BY <3>1, <1>1 DEF FileOK, Known
  <2> QED BY <2>1, <2>2
<1>3. \A r \in Sent : Backed(r, files, etags) => Backed(r, new, etags + 1)
  BY <1>1, BackedStays
<1>4. ASSUME NEW c \in Clients, f.by # {c}
      PROVE  GoodMetadata(metadata[c], c, local[c], fresh[c], new, etags + 1)
  BY <1>1, <1>4, MetadataStays DEF FileInv
<1> HIDE DEF new
<1>5. Kept(f.by, new, etags + 1)
  BY <1>2, <1>3, <1>4 DEF Kept
<1> QED BY <1>5 DEF new
-----------------------------------------------------------------------------
(* Steps that start a call.                                                *)

LEMMA InitFileInv == FileAssumption /\ Init => FileInv
<1> SUFFICES ASSUME FileAssumption, Init PROVE FileInv
  OBVIOUS
<1>1. FilesTypeOK
  BY DEF FileAssumption, Init, FilesTypeOK, NoMetadata, Metadata, NoCall, File
<1>2. \A n \in FileNames : FileOK(files[n], etags)
  BY DEF Init, FileOK, Known, Alive
<1>3. Requests
  BY DEF Init, Requests
<1>4. \A c \in Clients : GoodMetadata(metadata[c], c, local[c], fresh[c], files, etags)
  BY DEF Init, NoMetadata, Metadata, GoodMetadata, Known
<1> QED BY <1>1, <1>2, <1>3, <1>4 DEF FileInv

LEMMA RequestIs ==
  ASSUME FilesTypeOK, NEW method \in Methods, NEW name \in FileNames \cup {NoName}
  PROVE  Request(method, name) \in Record
<1>1. calls + 1 \in Nat
  BY DEF FilesTypeOK
<1> QED BY <1>1 DEF Request, Record

LEMMA NamedIs ==
  ASSUME FilesTypeOK, NEW c \in Clients, NEW r \in Record, NEW named
  PROVE  NameETags(c, r, named) \in Record
<1>1. /\ metadata[c].meta_etag \in Nat /\ metadata[c].file_etag \in Nat
      /\ (named # {} /\ fresh[c]) \in BOOLEAN /\ ("meta" \in named) \in BOOLEAN
      /\ local[c] \in SUBSET Edits
  BY DEF FilesTypeOK
<1> QED BY <1>1 DEF NameETags, Record

LEMMA CallKeeps ==
  ASSUME FileInv, NEW c \in Clients, NEW r \in Sent, Backed(r, files, etags),
         Pending(r, metadata'[c], local'[c]), Call(c, r),
         FilesTypeOK', \A d \in Clients : d # c => local'[d] = local[d] /\ metadata'[d] = metadata[d],
         \A d \in Clients : GoodMetadata(metadata'[d], d, local'[d], fresh'[d], files, etags)
  PROVE  FileInv'
<1>1. /\ call' = [call EXCEPT ![c] = r] /\ UNCHANGED <<adrift, files, etags>>
      /\ FilesTypeOK /\ DOMAIN call = Clients
  BY DEF Call, FileInv, FilesTypeOK
<1>2. ASSUME NEW d \in Clients, call'[d] # NoCall
      PROVE  Backed(call'[d], files, etags) /\ Pending(call'[d], metadata'[d], local'[d])
  BY <1>1, <1>2 DEF FileInv, Requests
<1>3. Requests'
  BY <1>1, <1>2 DEF FileInv, Requests
<1>4. \A n \in FileNames : FileOK(files'[n], etags')
  BY <1>1 DEF FileInv
<1>5. \A d \in Clients : GoodMetadata(metadata'[d], d, local'[d], fresh'[d], files', etags')
  BY <1>1
<1> QED BY <1>3, <1>4, <1>5 DEF FileInv

LEMMA SendKeeps ==
  ASSUME FileAssumption, FileInv, NEW c \in Clients, NEW r \in Sent, Backed(r, files, etags),
         Pending(r, metadata[c], local[c]), Send(c, r)
  PROVE  FileInv'
<1>1. Call(c, r) /\ UNCHANGED clientVars
  BY DEF Send
<1>2. FilesTypeOK'
  BY <1>1 DEF FileInv, FilesTypeOK, Call, clientVars, FileAssumption
<1>3. metadata' = metadata /\ local' = local /\ fresh' = fresh
  BY <1>1 DEF clientVars
<1>4. \A d \in Clients : GoodMetadata(metadata[d], d, local[d], fresh[d], files, etags)
  BY DEF FileInv
<1> QED BY <1>1, <1>2, <1>3, <1>4, CallKeeps

(* An update or delete is backed by what its client knows.                 *)
LEMMA NamedIsBacked ==
  ASSUME FileInv, NEW c \in Clients, metadata[c].file_name # NoName, NEW named \in SUBSET Parts,
         NEW method \in {"PUT", "DELETE"}, NEW r \in Sent, r.method = method,
         r.name = metadata[c].file_name, r.seen = local[c],
         r.meta_etag = IF "meta" \in named THEN metadata[c].meta_etag ELSE NoETag,
         r.file_etag = IF "file" \in named THEN metadata[c].file_etag ELSE NoETag,
         r.guarded = (named # {} /\ fresh[c]), r.typed = ("meta" \in named),
         method = "PUT" => r.value = local[c] /\ r.type = metadata[c].type
  PROVE  Backed(r, files, etags) /\ Pending(r, metadata[c], local[c])
<1> DEFINE m == metadata[c]
           f == files[m.file_name]
<1>1. GoodMetadata(m, c, local[c], fresh[c], files, etags)
  BY DEF FileInv
<1>2. m.file_name \in FileNames /\ etags \in Nat
  BY DEF FileInv, FilesTypeOK
<1>3. f.meta_etag \in Nat /\ f.file_etag \in Nat /\ FileOK(f, etags)
  BY <1>2 DEF FileInv, FilesTypeOK, File
<1>4. /\ Known(m, etags) /\ m.meta_etag # NoETag /\ m.file_etag # NoETag
      /\ fresh[c] => Covers(m, local[c], f)
      /\ Agrees(m, f)
  BY <1>1 DEF GoodMetadata
<1> HIDE DEF m, f
<1>5. Known(r, etags)
  BY <1>2, <1>4 DEF Known, m
<1>6. r.guarded => r.meta_etag # NoETag \/ r.file_etag # NoETag
  BY <1>4 DEF Parts, m
<1>7. r.guarded => Covers(r, r.seen, f)
  BY <1>3, <1>4 DEF Covers, FileOK, m
<1>8. r.typed => r.meta_etag # NoETag /\ (method = "PUT" => Agrees(r, f))
  BY <1>4 DEF Agrees, m
<1>9. Backed(r, files, etags)
  BY <1>5, <1>6, <1>7, <1>8 DEF Backed, f, m
<1> QED BY <1>9 DEF Pending, m

LEMMA EditKeeps ==
  ASSUME FileInv, NEW c \in Clients, NEW e \in Edits, Edit(c, e)
  PROVE  FileInv'
<1>1. /\ local' = [local EXCEPT ![c] = @ \cup {e}] /\ call[c] = NoCall
      /\ UNCHANGED <<metadata, fresh, call, calls, adrift, files, etags>>
  BY DEF Edit, Idle
<1>2. FilesTypeOK'
  BY <1>1 DEF FileInv, FilesTypeOK
<1>3. Requests'
  BY <1>1 DEF FileInv, FilesTypeOK, Requests
<1>4. ASSUME NEW d \in Clients
      PROVE  GoodMetadata(metadata[d], d, local'[d], fresh[d], files, etags)
  <2>1. local[d] \subseteq local'[d]
    BY <1>1 DEF FileInv, FilesTypeOK
  <2>2. GoodMetadata(metadata[d], d, local[d], fresh[d], files, etags)
    BY DEF FileInv
  <2> QED BY <2>1, <2>2 DEF GoodMetadata, Covers
<1> QED BY <1>1, <1>2, <1>3, <1>4 DEF FileInv

LEMMA StartKeeps ==
  ASSUME FileAssumption, FileInv, NEW c \in Clients, Start(c)
  PROVE  FileInv'
<1>0. FilesTypeOK /\ metadata[c].file_name \in FileNames \cup {NoName} /\ local[c] \in SUBSET Edits
      /\ metadata[c].type \in Types \cup {NoType}
      /\ metadata[c].meta_etag \in Nat /\ metadata[c].file_etag \in Nat /\ fresh[c] \in BOOLEAN
  BY DEF FileInv, FilesTypeOK
<1>1. ASSUME NEW e \in Edits, Edit(c, e) PROVE FileInv'
  BY <1>1, EditKeeps
<1>2. ASSUME NEW name \in FileNames, NEW type \in Types, UploadNewFile(c, name, type)
      PROVE  FileInv'
  <2> DEFINE r == [Request("POST", name) EXCEPT !.type = type, !.value = local[c]]
  <2>0. Request("POST", name) \in Record
    BY <1>0, RequestIs DEF Methods
  <2>1. r \in Record
    BY <1>0, <2>0 DEF Record
  <2>4. r \in Sent
    BY <2>1 DEF Sent, Request
  <2>2. Backed(r, files, etags) /\ Pending(r, metadata[c], local[c])
    BY DEF Request, Backed, Pending
  <2>3. Send(c, r)
    BY <1>2 DEF UploadNewFile
  <2> QED BY <2>4, <2>2, <2>3, SendKeeps
<1>3. ASSUME NEW named \in Named, UploadUpdateFile(c, named) PROVE FileInv'
  <2> DEFINE r == UpdateRequest(c, named)
  <2>1. metadata[c].file_name # NoName /\ named \in SUBSET Parts /\ Send(c, r)
    BY <1>3 DEF UploadUpdateFile, FileAssumption
  <2>2. NameETags(c, Request("PUT", metadata[c].file_name), named) \in Record
    BY <1>0, RequestIs, NamedIs DEF Methods
  <2>3. r \in Record
    BY <1>0, <2>2 DEF UpdateRequest, Record
  <2>4. /\ r.method = "PUT" /\ r.name = metadata[c].file_name /\ r.seen = local[c]
        /\ r.meta_etag = IF "meta" \in named THEN metadata[c].meta_etag ELSE NoETag
        /\ r.file_etag = IF "file" \in named THEN metadata[c].file_etag ELSE NoETag
        /\ r.guarded = (named # {} /\ fresh[c]) /\ r.typed = ("meta" \in named)
        /\ r.value = local[c] /\ r.type = metadata[c].type
    BY DEF UpdateRequest, NameETags, Request
  <2> HIDE DEF r
  <2>5. r \in Sent
    BY <1>0, <2>1, <2>3, <2>4 DEF Sent
  <2>6. Backed(r, files, etags) /\ Pending(r, metadata[c], local[c])
    BY <2>1, <2>4, <2>5, NamedIsBacked
  <2> QED BY <2>1, <2>5, <2>6, SendKeeps
<1>4. ASSUME NEW named \in Named, NEW mark \in BOOLEAN, DeleteFile(c, named, mark)
      PROVE  FileInv'
  <2> DEFINE r == DeleteRequest(c, named, mark)
  <2>1. metadata[c].file_name # NoName /\ named \in SUBSET Parts /\ Send(c, r)
    BY <1>4 DEF DeleteFile, FileAssumption
  <2>2. NameETags(c, Request("DELETE", metadata[c].file_name), named) \in Record
    BY <1>0, RequestIs, NamedIs DEF Methods
  <2>3. r \in Record
    BY <1>0, <2>2 DEF DeleteRequest, Record
  <2>4. /\ r.method = "DELETE" /\ r.name = metadata[c].file_name /\ r.seen = local[c]
        /\ r.meta_etag = IF "meta" \in named THEN metadata[c].meta_etag ELSE NoETag
        /\ r.file_etag = IF "file" \in named THEN metadata[c].file_etag ELSE NoETag
        /\ r.guarded = (named # {} /\ fresh[c]) /\ r.typed = ("meta" \in named)
    BY DEF DeleteRequest, NameETags, Request
  <2> HIDE DEF r
  <2>5. r \in Sent
    BY <1>0, <2>1, <2>3, <2>4 DEF Sent
  <2>6. Backed(r, files, etags) /\ Pending(r, metadata[c], local[c])
    BY <2>1, <2>4, <2>5, NamedIsBacked
  <2> QED BY <2>1, <2>5, <2>6, SendKeeps
<1>5. CASE DownloadFile(c)
  <2> DEFINE r == Request("download", metadata[c].file_name)
  <2>1. /\ metadata[c].file_name # NoName /\ Call(c, r) /\ metadata' = metadata
        /\ local' = [local EXCEPT ![c] = {}] /\ fresh' = [fresh EXCEPT ![c] = FALSE]
    BY <1>5 DEF DownloadFile
  <2>2. r \in Sent
    BY <1>0, <2>1, RequestIs DEF Methods, Request, Sent
  <2>3. Backed(r, files, etags) /\ Pending(r, metadata[c], {})
    BY DEF Request, Backed, Pending
  <2>4. local'[c] = {}
    BY <1>0, <2>1 DEF FilesTypeOK
  <2> HIDE DEF r
  <2>5. FilesTypeOK'
    BY <1>0, <2>1, <2>2 DEF FilesTypeOK, Call, FileAssumption
  <2>6. \A d \in Clients : GoodMetadata(metadata[d], d, local'[d], fresh'[d], files, etags)
    <3> SUFFICES ASSUME NEW d \in Clients
                 PROVE  GoodMetadata(metadata[d], d, local'[d], fresh'[d], files, etags)
      OBVIOUS
    <3>1. GoodMetadata(metadata[d], d, local[d], fresh[d], files, etags)
      BY DEF FileInv
    <3>2. fresh'[d] => fresh[d] /\ local'[d] = local[d]
      BY <1>0, <2>1 DEF FilesTypeOK
    <3> QED BY <3>1, <3>2 DEF GoodMetadata
  <2>7. \A d \in Clients : d # c => local'[d] = local[d] /\ metadata'[d] = metadata[d]
    BY <1>0, <2>1 DEF FilesTypeOK
  <2> QED BY <2>1, <2>2, <2>3, <2>4, <2>5, <2>6, <2>7, CallKeeps
<1>6. ASSUME NEW mark \in BOOLEAN, GetFiles(c, mark) PROVE FileInv'
  <2> DEFINE r == [Request("list", NoName) EXCEPT !.mark = mark]
  <2>0. Request("list", NoName) \in Record
    BY <1>0, RequestIs DEF Methods
  <2>1. r \in Record
    BY <1>0, <2>0 DEF Record
  <2>4. r \in Sent
    BY <2>1 DEF Sent, Request
  <2>2. Backed(r, files, etags) /\ Pending(r, metadata[c], local[c])
    BY DEF Request, Backed, Pending
  <2>3. Send(c, r)
    BY <1>6 DEF GetFiles
  <2> QED BY <2>4, <2>2, <2>3, SendKeeps
<1> QED BY <1>1, <1>2, <1>3, <1>4, <1>5, <1>6 DEF Start

LEMMA StartKeepsFiles ==
  ASSUME NEW c \in Clients, Start(c) PROVE files' = files
BY DEF Start, Edit, UploadNewFile, UploadUpdateFile, DeleteFile, DownloadFile, GetFiles, Send, Call
-----------------------------------------------------------------------------
(* Steps of the server.  Each keeps the files, or makes one new as the     *)
(* store, and the properties about what a step may do, would have it.      *)

FilesStep ==
  \/ UNCHANGED files
  \/ \E n \in FileNames, f \in File :
       /\ files' = [files EXCEPT ![n] = f]
       /\ Harmless(f, files[n]) /\ StoreStep(f, files[n])

(* What a step has done that stores a file.                                *)
StoredBy(by) ==
  /\ Kept(by, files', etags') /\ FilesStep
  /\ etags' \in 0..MaxETag
  /\ files' \in [FileNames -> File] /\ \A k \in FileNames : files'[k].file_name = k

LEMMA StoreStepIs ==
  ASSUME FileAssumption, FileInv, NEW n \in FileNames, NEW f, Made(f, n, files[n], etags),
         Alive(f) => f.meta_etag # NoETag /\ f.file_etag # NoETag, Store(f)
  PROVE  StoredBy(f.by)
<1>1. f \in File /\ f.file_name = n /\ Renewed(f, files[n], etags)
      /\ Harmless(f, files[n]) /\ StoreStep(f, files[n])
  BY DEF Made
<1>2. etags < MaxETag /\ etags' = etags + 1 /\ files' = [files EXCEPT ![n] = f]
  BY <1>1 DEF Store
<1>3. FilesTypeOK
  BY DEF FileInv
<1>4. Kept(f.by, files', etags')
  BY <1>1, <1>2, StoreKeeps
<1>5. FilesStep
  BY <1>1, <1>2 DEF FilesStep
<1>6. etags' \in 0..MaxETag
  BY <1>2, <1>3 DEF FilesTypeOK, FileAssumption
<1>7. files' \in [FileNames -> File] /\ \A k \in FileNames : files'[k].file_name = k
  BY <1>1, <1>2, <1>3 DEF FilesTypeOK
<1> QED BY <1>4, <1>5, <1>6, <1>7 DEF StoredBy

LEMMA FailKeeps ==
  ASSUME FileInv, NEW c \in Clients, Fail(c) PROVE FileInv'
<1>1. /\ call' = [call EXCEPT ![c] = NoCall] /\ call[c] # NoCall
      /\ UNCHANGED <<metadata, local, fresh, calls, files, etags>>
      /\ adrift' = adrift \/ adrift' = adrift \cup {call[c]}
      /\ FilesTypeOK
  BY DEF Fail, clientVars, Idle, FileInv
<1>2. FilesTypeOK'
  BY <1>1 DEF FilesTypeOK
<1>3. Requests'
  BY <1>1 DEF FileInv, Requests, FilesTypeOK
<1> QED BY <1>1, <1>2, <1>3 DEF FileInv

LEMMA OtherChangesKeeps ==
  ASSUME FileAssumption, FileInv, NEW n \in FileNames, NEW type \in Types, OtherChanges(n, type)
  PROVE  FileInv' /\ FilesStep
<1> DEFINE f == [files[n] EXCEPT !.type = type, !.meta_etag = etags + 1, !.by = {},
                                 !.guarded = TRUE, !.typed = FALSE, !.seen = files[n].value]
<1>1. /\ Alive(files[n]) /\ Store(f) /\ UNCHANGED <<metadata, local, fresh, call, calls, adrift>>
      /\ FilesTypeOK /\ files[n] \in File /\ etags \in Nat /\ FileOK(files[n], etags)
  BY DEF OtherChanges, Exists, Alive, clientVars, FileInv, FilesTypeOK
<1>2. /\ files[n].state \in {"none", "live", "marked", "gone"} /\ files[n].value \in SUBSET Edits
      /\ files[n].file_etag \in Nat /\ files[n].file_name = n
  BY <1>1 DEF File, FilesTypeOK
<1>3. /\ f.state = files[n].state /\ f.value = files[n].value /\ f.file_etag = files[n].file_etag
      /\ f.meta_etag = etags + 1 /\ f.by = {} /\ f.guarded /\ ~f.typed /\ f.seen = files[n].value
      /\ f.file_name = n
  BY <1>1, <1>2 DEF File
<1>4. f \in File
  <2>1. etags + 1 \in Nat /\ {} \in SUBSET Clients /\ type \in Types \cup {NoType}
    BY <1>1
  <2>2. files[n] \in File /\ files[n].value \in SUBSET Edits
    BY <1>1, <1>2
  <2> QED BY <2>1, <2>2 DEF File
<1> HIDE DEF f
<1>5. Made(f, n, files[n], etags)
  BY <1>1, <1>3, <1>4 DEF Made, Renewed, Harmless, StoreStep, Alive
<1>6. Alive(f) => f.meta_etag # NoETag /\ f.file_etag # NoETag
  BY <1>1, <1>3 DEF FileOK, Alive
<1>7. StoredBy({})
  BY <1>1, <1>3, <1>5, <1>6, StoreStepIs
<1>11. FilesTypeOK'
  BY <1>1, <1>7 DEF FilesTypeOK, StoredBy
<1>8. Requests'
  BY <1>1, <1>7 DEF Requests, FileInv, FilesTypeOK, Kept, StoredBy
<1>9. \A c \in Clients : GoodMetadata(metadata'[c], c, local'[c], fresh'[c], files', etags')
  BY <1>1, <1>7 DEF Kept, StoredBy
<1> QED BY <1>7, <1>8, <1>9, <1>11 DEF FileInv, Kept, StoredBy

LEMMA ServerLateKeeps ==
  ASSUME FileAssumption, FileInv, ServerLate PROVE FileInv' /\ FilesStep
<1>1. PICK r \in adrift :
        /\ adrift' = adrift \ {r} /\ UNCHANGED <<metadata, local, fresh, call, calls>>
        /\ UNCHANGED <<files, etags>> \/ \E f \in Written(r) : Store(f)
  BY DEF ServerLate, clientVars
<1>2. FilesTypeOK /\ r \in Sent /\ Backed(r, files, etags)
  BY DEF FileInv, FilesTypeOK, Requests
<1>3. CASE UNCHANGED <<files, etags>>
  <2>1. FilesTypeOK' /\ Requests'
    BY <1>1, <1>2, <1>3 DEF FilesTypeOK, FileInv, Requests
  <2> QED BY <1>1, <1>3, <2>1 DEF FileInv, FilesStep
<1>4. ASSUME NEW f \in Written(r), Store(f) PROVE FileInv' /\ FilesStep
  <2>1. /\ r.name \in FileNames /\ Made(f, r.name, files[r.name], etags)
        /\ Alive(f) => f.meta_etag # NoETag /\ f.file_etag # NoETag
        /\ f.by = {} /\ f \in File
    BY <1>2, WrittenIs DEF FileInv, Made
  <2>3. StoredBy({})
    BY <1>4, <2>1, StoreStepIs
  <2>4. FilesTypeOK'
    BY <1>1, <1>2, <2>3 DEF FilesTypeOK, StoredBy
  <2>5. Requests'
    BY <1>1, <1>2, <2>3 DEF Requests, FileInv, FilesTypeOK, Kept, StoredBy
  <2>6. \A c \in Clients : GoodMetadata(metadata'[c], c, local'[c], fresh'[c], files', etags')
    BY <1>1, <2>3 DEF Kept, StoredBy
  <2> QED BY <2>3, <2>4, <2>5, <2>6 DEF FileInv, Kept, StoredBy
<1> QED BY <1>1, <1>3, <1>4

(* The reply to a call that wrote arrives.                                 *)
LEMMA HeardKeeps ==
  ASSUME FileAssumption, FileInv, NEW c \in Clients, NEW r \in Sent, call[c] = r, r # NoCall,
         NEW f \in Written(r), Store([f EXCEPT !.by = {c}]), TakeOver(c, r, f),
         call' = [call EXCEPT ![c] = NoCall], UNCHANGED <<calls, adrift>>
  PROVE  FileInv' /\ FilesStep
<1> DEFINE g == [f EXCEPT !.by = {c}]
           n == r.name
<1>1. FilesTypeOK /\ Backed(r, files, etags) /\ Pending(r, metadata[c], local[c])
  BY DEF FileInv, Requests
<1>2. /\ n \in FileNames /\ r.method \in {"POST", "PUT", "DELETE"}
      /\ Made(f, n, files[n], etags)
      /\ f.value = IF r.method = "DELETE" THEN files[n].value ELSE r.value
      /\ f.state \in {"live", "marked", "gone"}
      /\ f.state = "gone" <=> r.method = "DELETE" /\ ~r.mark
      /\ r.method = "DELETE" => (r.guarded => files[n].value \subseteq r.seen)
      /\ Alive(f) => f.meta_etag # NoETag /\ f.file_etag # NoETag
      /\ f \in File
  BY <1>1, WrittenIs DEF FileInv, Made
<1>3. /\ g.file_name = f.file_name /\ g.state = f.state /\ g.value = f.value
      /\ g.type = f.type /\ g.meta_etag = f.meta_etag /\ g.file_etag = f.file_etag
      /\ g.by = {c} /\ g.guarded = f.guarded /\ g.typed = f.typed /\ g.seen = f.seen
  BY <1>2 DEF File
<1>4. g \in File
  BY <1>2 DEF File
<1> HIDE DEF g
<1>5. Made(g, n, files[n], etags)
  BY <1>2, <1>3, <1>4 DEF Made, Renewed, Harmless, StoreStep, Alive
<1>6. Alive(g) => g.meta_etag # NoETag /\ g.file_etag # NoETag
  BY <1>2, <1>3 DEF Alive
<1>7. StoredBy({c}) /\ files'[n] = g /\ etags' = etags + 1 /\ etags \in Nat
  <2>1. StoredBy(g.by)
    BY <1>2, <1>5, <1>6, StoreStepIs DEF g
  <2>2. files' = [files EXCEPT ![n] = g] /\ etags' = etags + 1
    BY <1>2, <1>3 DEF Store, Made, g
  <2> QED BY <1>1, <1>2, <1>3, <2>1, <2>2 DEF FilesTypeOK
<1> DEFINE physical == r.method = "DELETE" /\ ~r.mark
           isfresh == r.method # "DELETE" \/ r.guarded
<1>8. /\ \E m : /\ metadata' = [metadata EXCEPT ![c] = m]
                /\ \/ physical /\ m = metadata[c]
                   \/ ~physical /\ m = ReadMetadata(f)
                   \/ ~physical /\ m = NoMetadata
      /\ fresh' = [fresh EXCEPT ![c] = isfresh] /\ local' = local
  BY DEF TakeOver
<1>9. PICK m : /\ metadata' = [metadata EXCEPT ![c] = m]
               /\ \/ physical /\ m = metadata[c]
                  \/ ~physical /\ m = ReadMetadata(f)
                  \/ ~physical /\ m = NoMetadata
  BY <1>8
<1>10. FileOK(g, etags') /\ etags' \in 0..MaxETag
  BY <1>2, <1>7 DEF StoredBy, Kept
<1>11. g.meta_etag \in 0..MaxETag /\ g.file_etag \in 0..MaxETag
  BY <1>4, <1>10, FileAssumption DEF FileOK, Known, File
<1>12. /\ m \in [file_name : FileNames \cup {NoName}, type : Types \cup {NoType},
                  meta_etag : 0..MaxETag, file_etag : 0..MaxETag]
       /\ GoodMetadata(m, c, local[c], isfresh, files', etags')
  <2>1. CASE physical /\ m = metadata[c]
    <3>1. ~Alive(g) /\ g.state = "gone" /\ metadata[c].file_name = n
      BY <1>1, <1>2, <1>3, <2>1 DEF Alive, Pending
    <3>2. GoodMetadata(m, c, local[c], fresh[c], files, etags) /\ m.meta_etag \in Nat
          /\ m.file_etag \in Nat
      BY <1>1, <2>1 DEF FileInv, FilesTypeOK
    <3>3. Known(m, etags')
      BY <1>7, <3>2 DEF GoodMetadata, Known
    <3> QED BY <1>1, <1>7, <2>1, <3>1, <3>2, <3>3
             DEF GoodMetadata, Covers, Agrees, UpToDate, FilesTypeOK
  <2>2. CASE ~physical /\ m = ReadMetadata(f)
    <3>1. /\ m.file_name = n /\ m.type = g.type /\ m.meta_etag = g.meta_etag
          /\ m.file_etag = g.file_etag
      BY <1>2, <1>3, <2>2 DEF ReadMetadata, Metadata, Made
    <3>2. Alive(g)
      BY <1>2, <1>3, <2>2 DEF Alive
    <3>3. isfresh => g.value \subseteq local[c]
      BY <1>1, <1>2, <1>3 DEF Pending
    <3>4. GoodMetadata(m, c, local[c], isfresh, files', etags')
      BY <1>6, <1>7, <1>10, <3>1, <3>2, <3>3
      DEF GoodMetadata, Covers, Agrees, UpToDate, FileOK, Known
    <3>5. g.type \in Types \cup {NoType}
      BY <1>4 DEF File
    <3> QED BY <1>2, <1>3, <1>11, <2>2, <3>4, <3>5 DEF ReadMetadata, Metadata, Made
  <2>3. CASE ~physical /\ m = NoMetadata
    BY <1>10, <2>3, FileAssumption DEF NoMetadata, Metadata, GoodMetadata, Known
  <2> QED BY <1>9, <2>1, <2>2, <2>3
<1> HIDE DEF physical, isfresh
<1>13. isfresh \in BOOLEAN
  BY DEF isfresh, Sent, Record
<1>14. FilesTypeOK'
  <2>1. metadata' \in [Clients -> [file_name : FileNames \cup {NoName}, type : Types \cup {NoType},
                                   meta_etag : 0..MaxETag, file_etag : 0..MaxETag]]
    BY <1>1, <1>9, <1>12 DEF FilesTypeOK
  <2>2. fresh' \in [Clients -> BOOLEAN] /\ call' \in [Clients -> Sent \cup {NoCall}]
    BY <1>1, <1>8, <1>13 DEF FilesTypeOK
  <2> QED BY <1>1, <1>7, <1>8, <2>1, <2>2 DEF FilesTypeOK, StoredBy
<1>15. \A d \in Clients : GoodMetadata(metadata'[d], d, local'[d], fresh'[d], files', etags')
  <2> SUFFICES ASSUME NEW d \in Clients
               PROVE  GoodMetadata(metadata'[d], d, local'[d], fresh'[d], files', etags')
    OBVIOUS
  <2>1. CASE d = c
    <3>1. metadata'[c] = m /\ local'[c] = local[c] /\ fresh'[c] = isfresh
      BY <1>1, <1>8, <1>9 DEF FilesTypeOK
    <3> QED BY <1>12, <2>1, <3>1
  <2>2. CASE d # c
    <3>1. metadata'[d] = metadata[d] /\ local'[d] = local[d] /\ fresh'[d] = fresh[d]
      BY <1>1, <1>8, <1>9, <2>2 DEF FilesTypeOK
    <3>2. GoodMetadata(metadata[d], d, local[d], fresh[d], files', etags')
      BY <1>7, <2>2 DEF StoredBy, Kept
    <3> QED BY <3>1, <3>2
  <2> QED BY <2>1, <2>2
<1>16. Requests'
  BY <1>1, <1>7, <1>8, <1>9 DEF Requests, FileInv, FilesTypeOK, Kept, StoredBy
<1> QED BY <1>7, <1>14, <1>15, <1>16 DEF FileInv, Kept, StoredBy

LEMMA PerformWriteKeeps ==
  ASSUME FileAssumption, FileInv, NEW c \in Clients, PerformWrite(c)
  PROVE  FileInv' /\ FilesStep
<1> DEFINE r == call[c]
<1>1. /\ r # NoCall /\ call' = [call EXCEPT ![c] = NoCall] /\ UNCHANGED <<calls, adrift>>
      /\ \E f \in Written(r) : \/ Store([f EXCEPT !.by = {c}]) /\ TakeOver(c, r, f)
                               \/ Store(f) /\ UNCHANGED clientVars
  BY DEF PerformWrite, Idle
<1>2. FilesTypeOK /\ r \in Sent /\ Backed(r, files, etags)
  BY <1>1 DEF FileInv, FilesTypeOK, Requests
<1> HIDE DEF r
<1>3. ASSUME NEW f \in Written(r), Store([f EXCEPT !.by = {c}]), TakeOver(c, r, f)
      PROVE  FileInv' /\ FilesStep
  BY <1>1, <1>2, <1>3, HeardKeeps DEF r
<1>4. ASSUME NEW f \in Written(r), Store(f), UNCHANGED clientVars
      PROVE  FileInv' /\ FilesStep
  <2>1. /\ r.name \in FileNames /\ Made(f, r.name, files[r.name], etags)
        /\ Alive(f) => f.meta_etag # NoETag /\ f.file_etag # NoETag
        /\ f.by = {}
    BY <1>2, WrittenIs DEF FileInv
  <2>2. StoredBy({}) /\ metadata' = metadata /\ local' = local /\ fresh' = fresh
    BY <1>4, <2>1, StoreStepIs DEF clientVars
  <2>3. FilesTypeOK'
    BY <1>1, <1>2, <2>2 DEF FilesTypeOK, StoredBy
  <2>4. Requests'
    BY <1>1, <1>2, <2>2 DEF Requests, FileInv, FilesTypeOK, Kept, StoredBy
  <2>5. \A d \in Clients : GoodMetadata(metadata'[d], d, local'[d], fresh'[d], files', etags')
    BY <2>2 DEF Kept, StoredBy
  <2> QED BY <2>2, <2>3, <2>4, <2>5 DEF FileInv, Kept, StoredBy
<1> QED BY <1>1, <1>3, <1>4

LEMMA PerformListKeeps ==
  ASSUME FileAssumption, FileInv, NEW c \in Clients, PerformList(c) PROVE FileInv'
<1>1. PICK n \in FileNames :
        /\ Alive(files[n])
        /\ metadata' = [metadata EXCEPT ![c] = ReadMetadata(files[n])]
  BY DEF PerformList, Alive
<1>2. /\ fresh' = [fresh EXCEPT ![c] = FALSE] /\ call' = [call EXCEPT ![c] = NoCall]
      /\ UNCHANGED <<local, calls, adrift, files, etags>> /\ FilesTypeOK
  BY DEF PerformList, FileInv
<1> DEFINE m == ReadMetadata(files[n])
<1>3. files[n] \in File /\ files[n].file_name = n /\ FileOK(files[n], etags) /\ etags \in 0..MaxETag
  BY <1>2 DEF FileInv, FilesTypeOK
<1>4. /\ m.file_name = n /\ m.type = files[n].type /\ m.meta_etag = files[n].meta_etag
      /\ m.file_etag = files[n].file_etag
  BY <1>3 DEF ReadMetadata, Metadata
<1>5. m \in [file_name : FileNames \cup {NoName}, type : Types \cup {NoType},
             meta_etag : 0..MaxETag, file_etag : 0..MaxETag]
  <2>1. /\ files[n].type \in Types \cup {NoType} /\ files[n].meta_etag \in 0..MaxETag
        /\ files[n].file_etag \in 0..MaxETag
    BY <1>3, FileAssumption DEF File, FileOK, Known
  <2> QED BY <1>3, <2>1 DEF ReadMetadata, Metadata
<1>6. GoodMetadata(m, c, local[c], FALSE, files, etags)
  BY <1>1, <1>3, <1>4 DEF GoodMetadata, FileOK, Known, Agrees, UpToDate
<1> HIDE DEF m
<1>7. FilesTypeOK'
  BY <1>1, <1>2, <1>5 DEF FilesTypeOK, m
<1>8. Requests'
  BY <1>1, <1>2 DEF Requests, FileInv, FilesTypeOK
<1>9. \A d \in Clients : GoodMetadata(metadata'[d], d, local'[d], fresh'[d], files', etags')
  BY <1>1, <1>2, <1>6 DEF FileInv, FilesTypeOK, m
<1> QED BY <1>2, <1>7, <1>8, <1>9 DEF FileInv

LEMMA PerformDownloadKeeps ==
  ASSUME FileInv, NEW c \in Clients, PerformDownload(c) PROVE FileInv'
<1> DEFINE n == call[c].name
<1>1. PICK part \in SUBSET files[n].value :
        /\ local' = [local EXCEPT ![c] = part]
        /\ fresh' = [fresh EXCEPT ![c] = part = files[n].value]
  BY DEF PerformDownload
<1>2. /\ call[c] # NoCall /\ call[c].method = "download" /\ call' = [call EXCEPT ![c] = NoCall]
      /\ UNCHANGED <<metadata, calls, adrift, files, etags>> /\ FilesTypeOK
  BY DEF PerformDownload, Idle, FileInv
<1>3. n = metadata[c].file_name /\ n \in FileNames
  BY <1>2 DEF FileInv, Requests, Pending, FilesTypeOK, Sent
<1>4. files[n].value \in SUBSET Edits
  BY <1>2, <1>3 DEF FilesTypeOK, File
<1>5. FilesTypeOK'
  BY <1>1, <1>2, <1>4 DEF FilesTypeOK
<1>6. GoodMetadata(metadata[c], c, part, part = files[n].value, files, etags)
  <2>1. GoodMetadata(metadata[c], c, local[c], fresh[c], files, etags)
    BY DEF FileInv
  <2> QED BY <1>3, <2>1 DEF GoodMetadata, Covers
<1> HIDE DEF n
<1>7. Requests'
  BY <1>1, <1>2 DEF Requests, FileInv, FilesTypeOK
<1>8. \A d \in Clients : GoodMetadata(metadata'[d], d, local'[d], fresh'[d], files', etags')
  BY <1>1, <1>2, <1>6 DEF FileInv, FilesTypeOK
<1> QED BY <1>2, <1>5, <1>7, <1>8 DEF FileInv

LEMMA NextKeeps == FileAssumption /\ FileInv /\ [Next]_vars => FileInv' /\ FilesStep
<1> SUFFICES ASSUME FileAssumption, FileInv, [Next]_vars PROVE FileInv' /\ FilesStep
  OBVIOUS
<1>1. ASSUME NEW c \in Clients, Start(c) PROVE FileInv' /\ FilesStep
  BY <1>1, StartKeeps, StartKeepsFiles DEF FilesStep
<1>2. ASSUME NEW c \in Clients, PerformWrite(c) PROVE FileInv' /\ FilesStep
  BY <1>2, PerformWriteKeeps
<1>3. ASSUME NEW c \in Clients, PerformList(c) PROVE FileInv' /\ FilesStep
  BY <1>3, PerformListKeeps DEF PerformList, FilesStep
<1>4. ASSUME NEW c \in Clients, PerformDownload(c) PROVE FileInv' /\ FilesStep
  BY <1>4, PerformDownloadKeeps DEF PerformDownload, FilesStep
<1>5. ASSUME NEW c \in Clients, Fail(c) PROVE FileInv' /\ FilesStep
  BY <1>5, FailKeeps DEF Fail, FilesStep
<1>6. CASE ServerLate
  BY <1>6, ServerLateKeeps
<1>7. ASSUME NEW n \in FileNames, NEW type \in Types, OtherChanges(n, type)
      PROVE  FileInv' /\ FilesStep
  BY <1>7, OtherChangesKeeps
<1>8. CASE UNCHANGED vars
  <2>1. FilesStep
    BY <1>8 DEF vars, FilesStep
  <2>2. UNCHANGED <<metadata, local, fresh, call, calls, adrift, files, etags>>
    BY <1>8 DEF vars
  <2>3. FilesTypeOK' /\ Requests'
    BY <2>2 DEF FileInv, FilesTypeOK, Requests
  <2> QED BY <2>1, <2>2, <2>3 DEF FileInv
<1> QED BY <1>1, <1>2, <1>3, <1>4, <1>5, <1>6, <1>7, <1>8 DEF Next
-----------------------------------------------------------------------------
(* The invariant holds of every run of the files.                          *)
THEOREM FilesAreInv == Spec => []FileInv
<1>1. FileInv /\ [Next]_vars => FileInv'
  BY NextKeeps, FileAssumption
<1> QED BY <1>1, InitFileInv, FileAssumption, PTL DEF Spec

(* Every variable has its type, and no request about one file names none.  *)
THEOREM FileTypeOK == Spec => []FilesTypeOK
<1>1. FileInv => FilesTypeOK
  BY DEF FileInv
<1> QED BY <1>1, FilesAreInv, PTL

(* A client's metadata is up to date with what it is known to have done.   *)
THEOREM MetadataKnowsOwn == Spec => []KnowsOwn
<1>1. FileInv => KnowsOwn
  BY FileAssumption DEF FileInv, GoodMetadata, UpToDate, KnowsOwn
<1> QED BY <1>1, FilesAreInv, PTL

(* An update or delete under an ETag throws away nothing unseen.           *)
THEOREM NoFileIsLost == Spec => NothingLost
<1> DEFINE Safe == \A n \in FileNames :
                      LET new == files'[n]
                      IN Exists(n) /\ new # files[n] /\ new.guarded =>
                           /\ new.state \in {"live", "marked"} => files[n].value \subseteq new.value
                           /\ new.state = "gone" => files[n].value \subseteq new.seen
<1>1. FileInv /\ [Next]_vars => [Safe]_vars
  <2> SUFFICES ASSUME FileInv, [Next]_vars PROVE Safe
    OBVIOUS
  <2>1. FilesStep /\ FilesTypeOK
    BY FileAssumption, NextKeeps DEF FileInv
  <2> QED BY <2>1 DEF FilesStep, Harmless, Exists, Alive, FilesTypeOK
<1>2. Spec => [][Safe]_vars
  BY <1>1, FilesAreInv, PTL DEF Spec
<1> QED BY <1>2 DEF NothingLost

(* An update under the metadata's ETag sets no Content-Type back.          *)
THEOREM TypesAreKept == Spec => TypeKept
<1> DEFINE Safe == \A n \in FileNames :
       Exists(n) /\ files'[n] # files[n] /\ files'[n].typed => files'[n].type = files[n].type
<1>1. FileInv /\ [Next]_vars => [Safe]_vars
  <2> SUFFICES ASSUME FileInv, [Next]_vars PROVE Safe
    OBVIOUS
  <2>1. FilesStep /\ FilesTypeOK
    BY FileAssumption, NextKeeps DEF FileInv
  <2> QED BY <2>1 DEF FilesStep, Harmless, Exists, Alive, FilesTypeOK
<1>2. Spec => [][Safe]_vars
  BY <1>1, FilesAreInv, PTL DEF Spec
<1> QED BY <1>2 DEF TypeKept

Mapped == [n \in FileNames |-> [state |-> files[n].state, value |-> files[n].value,
                                guarded |-> files[n].guarded]]

LEMMA FilesStepImplements == FilesTypeOK /\ FilesStep => Atomic!Next \/ Mapped' = Mapped
<1> SUFFICES ASSUME FilesTypeOK, FilesStep PROVE Atomic!Next \/ Mapped' = Mapped
  OBVIOUS
<1>1. CASE UNCHANGED files
  BY <1>1 DEF Mapped
<1>2. ASSUME NEW n \in FileNames, NEW f \in File, files' = [files EXCEPT ![n] = f],
             StoreStep(f, files[n])
      PROVE  Atomic!Next
  <2> DEFINE Wrote(state, value, guarded) ==
               Mapped' = [Mapped EXCEPT ![n] = [state |-> state, value |-> value,
                                               guarded |-> guarded]]
  <2>1. Wrote(f.state, f.value, f.guarded)
    BY <1>2 DEF Mapped, FilesTypeOK
  <2>2. Mapped[n].state = files[n].state /\ Mapped[n].value = files[n].value
    BY DEF Mapped
  <2>3. f.value \in SUBSET Edits /\ f.guarded \in BOOLEAN
    BY DEF File
  <2> HIDE DEF Wrote
  <2>4. CASE files[n].state # "live" /\ f.state = "live" /\ ~f.guarded
    <3>1. Wrote("live", f.value, FALSE) /\ Mapped[n].state # "live"
      BY <2>1, <2>2, <2>3, <2>4
    <3>2. Atomic!Create(n, f.value)
      BY <3>1 DEF Wrote, Atomic!Create, Atomic!Write, Mapped
    <3> QED BY <2>3, <3>2 DEF Atomic!Next
  <2>5. CASE /\ Alive(files[n]) /\ f.state \in {"live", files[n].state} /\ f.guarded
             /\ files[n].value \subseteq f.value
    <3>1. Wrote(f.state, Mapped[n].value \cup f.value, TRUE) /\ f.state \in {"live", Mapped[n].state}
      <4>1. f.value = Mapped[n].value \cup f.value
        BY <2>2, <2>5
      <4>2. Wrote(f.state, f.value, TRUE)
        BY <2>1, <2>3, <2>5
      <4> QED BY <2>2, <2>5, <4>1, <4>2
    <3>2. Atomic!Exists(n)
      BY <2>2, <2>5 DEF Atomic!Exists, Mapped, Alive
    <3>3. Atomic!Modify(n, f.value)
      BY <3>1, <3>2 DEF Wrote, Atomic!Modify, Atomic!Write, Mapped
    <3> QED BY <2>3, <3>3 DEF Atomic!Next
  <2>6. CASE Alive(files[n]) /\ f.state \in {"live", files[n].state} /\ ~f.guarded
    <3>1. Wrote(f.state, f.value, FALSE) /\ f.state \in {"live", Mapped[n].state}
      BY <2>1, <2>2, <2>3, <2>6
    <3>2. Atomic!Exists(n)
      BY <2>2, <2>6 DEF Atomic!Exists, Mapped, Alive
    <3>3. Atomic!Overwrite(n, f.value)
      BY <3>1, <3>2 DEF Wrote, Atomic!Overwrite, Atomic!Write, Mapped
    <3> QED BY <2>3, <3>3 DEF Atomic!Next
  <2>7. CASE Alive(files[n]) /\ f.state \in {"marked", "gone"} /\ f.value = files[n].value
    <3>1. Wrote(f.state, Mapped[n].value, f.guarded)
      BY <2>1, <2>2, <2>7
    <3>2. Atomic!Exists(n)
      BY <2>2, <2>7 DEF Atomic!Exists, Mapped, Alive
    <3>3. Atomic!Delete(n, f.guarded)
      BY <2>7, <3>1, <3>2 DEF Wrote, Atomic!Delete, Atomic!Write, Mapped
    <3> QED BY <2>3, <3>3 DEF Atomic!Next
  <2> QED BY <1>2, <2>3, <2>4, <2>5, <2>6, <2>7 DEF StoreStep
<1> QED BY <1>1, <1>2 DEF FilesStep

(* The clients, their late requests, somebody else and the server together *)
(* implement a store whose updates are atomic.                             *)
THEOREM FilesImplementStore == Spec => ImplementsStore
<1>1. Init => Atomic!Init
  BY DEF Init, Atomic!Init
<1>2. FileInv /\ [Next]_vars => [Atomic!Next]_Mapped
  BY FileAssumption, NextKeeps, FilesStepImplements DEF FileInv
<1>3. FileInv /\ [Next]_vars => [Atomic!Next]_[n \in FileNames |->
        [state |-> files[n].state, value |-> files[n].value, guarded |-> files[n].guarded]]
  BY <1>2 DEF Mapped
<1> QED BY <1>1, <1>3, FilesAreInv, PTL DEF Spec, ImplementsStore, Atomic!Spec
=============================================================================
