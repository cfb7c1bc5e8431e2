# TLA+ models of the embedded BaaS SDK (necbaas)

The SDK is a C++ library through which an application on a small device talks
to an MBaaS server over HTTP. This directory models the parts of it where
something can go wrong that a unit test would hardly reach: the state that the
threads of one application share, the handle that calls use one after another,
the files that are transferred, the copies of objects and files that several
devices have, the requests that are built call by call, and what becomes of all
of them when calls interleave, sessions expire, transfers break off and replies
get lost. Paths in this file are relative to the repository.

## Inventory

| component | source | state | operations |
|---|---|---|---|
| NbService | `src/nb_service.cc` | the login session and its mutex, the executor pool, the service parameters | ExecuteRequest / FileDownload / FileUpload (all through ExecuteCommon), Get/Set/ClearSessionToken |
| NbRestExecutorPool | `src/internal/nb_rest_executor_pool.cc` | a stack of idle executors, the number that may still be created, one mutex | PopRestExecutor, PushRestExecutor, destruction |
| NbSessionToken | `src/internal/nb_session_token.cc` | token, expiration, user | getters that answer "nothing" after the expiration, clear |
| NbUser | `src/nb_user.cc` | none of its own: static operations on a service | Login, Logout, ExportCurrentLogin, ImportCurrentLogin, getters |
| NbHttpRequestFactory | `src/internal/nb_http_request_factory.cc` | one request being built | CheckParameter, setters, Build |
| NbRestExecutor | `src/internal/nb_rest_executor.cc` | a curlpp handle, reused from call to call | ExecuteRequest, ExecuteFileDownload, ExecuteFileUpload |
| NbHttpHandler, file handlers | `src/internal/nb_http_*handler.cc` | the response being received, the file | libcurl's header, write and read callbacks |
| NbObject | `src/nb_object.cc` | an object's JSON, ID, ETag, times, ACL | Save, PartUpdate, Delete |
| NbObjectBucket, NbQuery | `src/nb_object_bucket.cc`, `src/nb_query.cc` | a query being built | GetObject, Query, clauses |
| NbFileBucket, NbFileMetadata | `src/nb_file_bucket.cc`, `src/nb_file_metadata.cc` | none of its own; the metadata a call returned: name, Content-Type, two ETags | UploadNewFile, UploadUpdateFile, DownloadFile, DeleteFile, GetFiles |
| NbApiGateway | `src/nb_api_gateway.cc` | API name, method, headers, parameters, Content-Type | Add/Remove/ClearHeaders and Parameters, SetContentType, ExecuteCustomApi |
| NbAcl, NbAclBase | `src/nb_acl.cc`, `src/nb_acl_base.cc` | per permission a sorted list of groups and users | Add/Remove/SetEntries, CreateAclFor, from and to JSON |
| JSON wrappers, NbUserEntity, NbLogger, NbUtility, NbResult | | values | formatting, parsing |

How they interact. An application creates one NbService and calls it from any
number of threads; objects, buckets and gateways hold a shared pointer to it
and are themselves documented as not thread-safe. Every call that reaches the
server goes through `NbService::ExecuteCommon`: copy the session token under
`session_token_mutex_`, build the request, pop an executor from the pool under
`stack_mutex_`, run the request on libcurl, push the executor. The two mutexes
are the only synchronisation; each protects one member function at a time, so
between any two of them other threads run and the clock advances.

Hard behaviours, and where they bite, are listed with their lines in
`PROJECT.json` under "hazards". The most important: the session changes between
two reads of it (Logout, Login, Export), a reply is lost after the server has
acted, the pool is at its limit, a session expires in the middle of a call.

What makes the components correct:

* pool: executors (libcurl handles, not thread-safe) are conserved, each is with
  at most one call, a call is refused only at the limit, and nothing leaks;
* session: it is always one session some server issued; it is not kept once the
  server has ended it; only logins, logouts and imports change it; requests
  carry only tokens that were valid when the request was built;
* calls: every call returns; its result tells the truth about what happened;
* transfers: a call uses the options of its own request, its result is that of
  the server's final response, and a download or upload that reports success is
  of the whole file;
* objects: no update throws away another one, a copy does not forget or
  duplicate its object, and never mixes two;
* files: the same of files, whose body and metadata are versioned separately
  and are read by different calls;
* requests: what a chain of calls builds (conditions and parameters of a query,
  headers of the gateway, permissions of an ACL) means to the server what the
  calls say.

## Modules

| module | models | run with |
|---|---|---|
| `ConnectionLimiter` | abstract: what the pool promises to its callers | (refined by `NbRestExecutorPool`) |
| `NbRestExecutorPool` | the pool and its borrowers | `pool.cfg` |
| `NbRestExecutorPoolProofs` | theorems about the pool | TLAPS |
| `NbSessionToken` | the session record and its getters | through `NbUser` |
| `NbService` | ExecuteCommon, the session under its lock | through `NbUser` |
| `NbUser` | login, logout, export, import and other requests by several threads, with the server's sessions | `service.cfg`, `sequential.cfg`, `export_torn.cfg` |
| `NbUserRaces` | `NbUser` with the history of the logouts that a login overtakes | `session.cfg` |
| `NbUserProofs` | theorems about the service | TLAPS |
| `NbHttpHandler` | the search for the status line in the header lines received | through `NbRestExecutor` |
| `NbRestExecutor` | one executor: requests, downloads and uploads one after another, with libcurl's callbacks | `transfer.cfg` |
| `NbRestExecutorProofs` | theorems about transfers: handles, status codes, downloads, types, uploads | TLAPS |
| `OptimisticStore` | abstract: a store whose updates under an ETag are atomic | (refined by `NbObject` and `NbFileBucket`) |
| `NbObject` | copies of objects of NbObject and NbObjectBucket, against a server with ETags | `object.cfg` |
| `NbObjectProofs` | theorems about objects, and about how many a copy creates | TLAPS |
| `NbFileBucket` | files of NbFileBucket, with their metadata and the clients' own files, against a server with two ETags per file | `files.cfg` |
| `NbFileBucketProofs` | theorems about files | TLAPS |
| `NbHttpRequestFactory` | the factory's headers and parameters, and what Build sends of them | through `NbApiGateway` |
| `NbApiGateway` | headers and parameters under colliding names, over several calls | through `NbRequests` |
| `NbApiGatewayProofs` | theorems about what a gateway sends | TLAPS |
| `NbAcl` | the lists of entries of an ACL, with NbJsonArray | through `NbRequests` |
| `NbAclProofs` | theorems about the lists and the permissions they grant | TLAPS |
| `NbQuery` | the conditions of queries, and what the server selects by them | through `NbRequests` |
| `NbQueryParameters` | order, page, projection and the other parameters of a query | through `NbRequests` |
| `NbRequests` | the four of them, an application building one of them at a time | `requests.cfg` |
| `NbQueryProofs` | theorems about queries, their parameters and `NbRequests` | TLAPS |
| `MCNbRestExecutorPool`, `MCNbUser`, `MCNbUserRaces`, `MCNbRestExecutor`, `MCNbObject`, `MCNbFileBucket`, `MCNbRequests` | the finite instances | |

Composition: `NbService` extends `NbRestExecutorPool` and `NbSessionToken`;
`NbUser` extends `NbService` and adds the callers and the server. The
refinement `NbUser => NbRestExecutorPool => ConnectionLimiter` is checked and
proved. `NbUserRaces` extends `NbUser` by a history variable that no guard reads.
`NbRestExecutor` extends `NbHttpHandler`. By the pool's theorem
`ExecutorsHeldByOne` an executor is with one call at a time, so
`NbRestExecutor` has one call at a time; `NbUser`, `NbObject` and `NbFileBucket`
see of a transfer only its outcome. `NbObject` and `NbFileBucket` both implement
`OptimisticStore`. `NbRequests` extends the four modules about requests being
built; they share no state in the code, so that `builder` picks the one a
behaviour is about. `NbApiGateway` extends `NbHttpRequestFactory`.

### Correspondence: the service

*State.* `idle_stack`, `creatable_num`, `session_token` are the members of the
same name. `executor[t]` is the pointer a thread's call has got (`NoExecutor`
before it asked, `NullExecutor` for nullptr). `pc[t]`, `op[t]`, `request[t]`,
`result_code[t]` and `json[t]` are the locals of the call thread `t` is in: the
session header of its request, its NbResult and the JSON it works on, reduced
to token, expiration and user. `now` is `time(nullptr)`. `issued` and `ended`
are the server's sessions; `saved` is the exported string the application
keeps; `imported` is a history variable, and so is `overtaken` of `NbUserRaces`: the
threads in a logout, from its request to ClearSessionToken, during which a
session was stored.

*Steps.* One action per stretch of code between two lock acquisitions:

| step | code |
|---|---|
| `CreateRequest` | GetHttpRequestFactory (lock), CheckParameter, create_request |
| `TakeExecutor` / `ReturnExecutor` | PopRestExecutor / PushRestExecutor (lock) |
| `Server` | executor_method: what the server did and what came back of it |
| `Login`, `LoginSetCurrentUser`, `GetCurrentUser` | NbUser::Login: argument check; SetCurrentUser (lock); the user read back (lock) |
| `Logout`, `EndLogout` | NbUser::Logout: IsLoggedIn (lock); ClearSessionToken (lock) |
| `Export`, `ExportUser`, `ExportToken`, `ExportExpire` | ExportCurrentLogin's four locks |
| `Import`, `ImportSetCurrentUser` | ImportCurrentLogin's checks; SetCurrentUser (lock) |

Between `TakeExecutor` returning nullptr and the return of
NB_ERROR_CONNECTION_OVER the code does nothing with the pool; the model passes
through step "push", where `GiveUp` forgets the nullptr.

A user is an account (NoUser when every field is empty), so username and e-mail
login are one operation; an empty account or password is `LoginRefused`. The
several libcurl errors are one code, NB_ERROR_CURL_RUNTIME: no caller tells
them apart. The server is external: it issues a fresh token for a login it
accepts, ends the session in the header of an accepted DELETE, may refuse
anything, and requests and replies may be lost ("lost" in `Faults`) or a 2xx
reply may carry no session ("malformed").

### Correspondence: transfers

*State.* `curlpp_easy_` is the handle: the options that matter for the
properties, those of its callbacks that are bound to a handler that no longer
exists ("dangling"), and the time limit. `response_headers_`, `response_body_`,
`tmp_status_code_` and `file_stream_` are the members of the handler of the
call; a body is a number of chunks, and a header line a name and a number.
`file` is the file system's. `peer`, `origin`, `sent` and `received` are
libcurl's connection: who talks to it (the proxy, the server, the server after
a 100), the final response as the server meant it, and the chunks that went
each way.

*Steps.* `ExecuteRequest`, `ExecuteFileDownload`, `ExecuteFileUpload` and
`UploadOpen` are the functions up to `perform()`, with their early returns
(`DownloadOpenFails`, `UploadOpenFails`, the refused methods). Reading the size
of a file to upload and opening it are two steps, as in the code. While libcurl
performs, `WriteHeaderCallback`, `WriteCallback` and `ReadCallback` are called
in every order the protocol allows; `Complete`, `Breaks`, `TimesOut` and
`WriteFails` end it, each with all of MakeResult and, for a download,
ValidateFileSize (`Finish`). `Return` destroys the handler and leaves its
callbacks bound, as the code does.

*Assumptions on the environment.* libcurl keeps a time limit that is positive;
it fails when a proxy refuses the tunnel and when a framed body ends early, and
takes a body without a frame as complete when the connection closes. A server
takes the Content-Length of an upload at its word; its X-Content-Length, if it
sends one, is right. `int` wraps; `atoi` beyond `int` wraps or saturates. A file
does not change while it is transferred.

### Correspondence: objects

`copy[c]` is an NbObject: `object_id_`, `etag_`, `deleted_` and its JSON as a set
of edits. A call is two steps: the request is built (`Save`, `PartUpdateObject`,
`DeleteObject`, `GetObject`, `Query`), and `Perform` is what the server does with
it and what SetCurrentParam makes of the reply. One step suffices for the two:
the caller is blocked until the reply is there, and nobody else has a pointer
to its copy. The reply may also get lost, or be a 2xx whose body does not parse
("garbled"), which SetCurrentParam takes over as an object without members.
`GiveUp` is a call that ends with an error of libcurl before the server has
acted; its request may still arrive (`ServerLate`), after any number of others.
The results of `Query` are built by one NbObject that is filled with each in turn
(`QueryResult`, a recursive function); the copy of the model is the result the
application picks. The server's ETags: every version has its own, a request
that names another than the current one is refused. `guarded`, `seen`, `by` and
`unheard` are history: whether a request named an ETag and what its caller had
seen, who made a version, and which calls did what their caller cannot know.

### Correspondence: files

`metadata[c]` is the NbFileMetadata that client `c` has, `local[c]` the body of the
file on its own disk, `fresh[c]` whether that body is at least as new as the
metadata. Downloading empties the file first, as NbHttpFileDownloadHandler
does, and an interrupted download leaves any part. Uploads replace the
metadata by that of the reply (NbFileMetadata's constructor), so do deletes
that leave a mark; a reply that does not parse makes metadata without a name,
from which no request can be sent (`nb_file_bucket.cc:138` and `193`). `Named` are
the ETags a request names: both with the forms that take metadata, any with
those that take strings. `OtherChanges` is another client that changes the
metadata of a file only. A download gives no ETag: `fresh` becomes true only for
a body downloaded after the metadata was read, whose version may then be newer.

### Correspondence: requests

`conditions_[q]` is the JSON of a query: a function from its members, keys and
groups, to operators; a member it has not is `Absent`. `Server[n]` is MongoDB's
answer to every JSON that nests n deep or less, a recursive function whose value
at n is made from that at n - 1; each call adds a level at most, so that
`Selected` and `Accepted` ask it at `MaxCalls`. `asked` is what the headers say of
the calls made so far, kept in terms of sets of documents only. `query` has the
other members of NbQuery; `GetParams` sends those that differ from what the
server assumes; `meant` is what the headers say of the calls. `apigw` is an
NbApiGateway; its headers and parameters are multimaps, modelled as bags of
pairs, with names in any spelling (`Lower` is the comparison the server makes).
`sent` is the request of the last ExecuteCustomApi, through the whole factory;
`wanted` what the application has added and not removed. `acl` has the sorted
lists of NbAclBase, whose entries are numbers in the order of the strings;
`ToJsonObject` fills one NbJsonArray with each list in turn, as the code does;
`granted` is who has been granted a permission and not been revoked it.

## Runs

| run | instance | question |
|---|---|---|
| `pool` | 4 threads, 3 executors | is every executor conserved, is the limiter implemented? |
| `session` | 2 threads, 1 connection, 2 tokens, 2 users, sessions of 1 tick, all faults | does the session stay one session, is an ended one dropped, does anything else touch it, does a logout drop a login it neither names nor races? |
| `service` | 2 threads, all operations, 1 connection, lost replies, no clock | is a call refused only at the limit, on every path; is the pool used as specified; does every call return? |
| `sequential` | 1 thread, all operations, sessions of 1 and 3 ticks, 3 ticks, lost replies and replies without a session | does a login, an export or an import keep what the headers promise of it? |
| `transfer` | one executor, all operations and methods, a proxy, all faults, files and bodies of up to 2 chunks | do results tell the truth, are files whole, does nothing of a call survive, does every call return? |
| `object` | 2 copies, 2 object IDs, 3 versions, 4 calls, replies lost or garbled, late requests, queries that leave out IDs or ETags and marks | is an update ever lost, an object created twice, a copy outdated by itself or mixed from two versions; is the store implemented? |
| `files` | 2 clients, 1 file, 2 Content-Types, 3 ETags, 4 calls, the same faults, partial downloads | is a body or a Content-Type ever set back unseen, is metadata outdated by its own client, does a request ever go to the wrong path; is the store implemented? |
| `requests` | 2 queries, 2 keys, 4 calls; parameters at their bounds; 2 headers and 2 parameters under 6 spellings; 3 permissions, 2 users | does the server get what the calls asked for? |
| `export_torn`, `tunnel_status`, `upload_int`, `timeout_zero` | the least that shows it | expected violations, see Findings |

Why the bounds are enough. The pool's threads differ only in the executor they
hold; four threads on three executors have stacks of every size up to the
limit and a refused caller next to three holders. In the session runs two
threads give every pair of racing operations, one connection makes the limit
reachable by two of them; two tokens and two users are what it takes to mix up
two logins; sessions of one tick can expire between any two steps. A server
that has no token left answers with an error. `sequential` adds time (three
ticks, long and short sessions) because one thread is cheap. Threads, tokens
and users are interchangeable in `session`, which uses symmetry; `service` checks
liveness and uses none. `IntMax` stands for 2^31-1; 15 is beyond every time of a
run.

In `transfer` two chunks are what it takes to stop in the middle; two status
codes are a success and an error (the code asks only for 2xx and for < 300; 100
and 407 come from the interim response and the proxy). All sequences of calls
on the handle are explored, since nothing but the handle and the file survives
a call. `WideInt` is an int that can measure every file of the run; `TwoGiB`
with chunks of 1 GiB is the int of the real program. In the object runs two
copies are two devices that race; four calls make create, read, update and a
late request; `MaxETag` = 3 versions are two updates to confuse. One edit is
enough to be lost, since edits do not interact; when two are needed to tell
contents apart, that a copy has the edit and the server has not, or the other
way round, does it. `Projections` are nothing, all but the ID, all but ETag and
mark: the three kinds of copies that exist apart from full ones. In `files` one
file suffices because no action relates two; one request is late at a time
(`MaxAdrift`), and a request names no ETag or both. The proofs cover every choice
of these constants. A run that has used up its calls can still edit or perform,
so deadlock is checked in both.

In `requests` four calls on queries nest groups three deep; the values of
documents are below, at and above the one compared with; `Numbers` has both sides
of each bound of Limit, Skip and Timeout. Two headers are two of one name, or
one in each of two spellings; lists in JSON have up to two elements, among
which what is not a string (-1). READ, CREATE and ADMIN stand for the permissions of
each kind that the code treats differently (CreateAclFor sets the first and
last of them; ADMIN has an array of its own in ToJsonObject). Conditions stop
when their calls are used up: an application may stop calling, so deadlock is
not checked there.

Fairness of transfers: `Opening`, `TimesOut` and `Return` are weakly fair, since
the thread in the call is scheduled and libcurl keeps its time limit; nothing
obliges a proxy or a server to answer, so every step of theirs is unfair.

Fairness of the service: `WF_vars(Step(t))` for each thread: a thread inside the SDK is
scheduled, and its transfer ends, which is what `CallsReturn` of `NbRestExecutor`
shows for time limits other than 0. Starting a call is not fair, nor
is the clock. Since no step of a call ever waits for another thread, weak
fairness suffices; the mutant `TakeExecutorWaits` shows the run notices a wait.

## Findings

Each is a run that TLC refutes, with a counterexample of a few steps.

* `export_torn`: an export racing a login yields the user of one login with the
  token of another (`nb_user.cc:145-148`).
* `tunnel_status`: behind a proxy, a final response that is not HTTP/1.1 is
  reported with the 200 of the CONNECT (`nb_http_handler.cc:95`).
* `upload_int`: a file of 4 GiB is announced with length 0, and its upload
  reports success (`nb_utility.cc:54`).
* `timeout_zero`: a time limit of 0 is not replaced by the default, contrary to
  the headers, and the call may never return (`nb_rest_executor.cc:253`).

The limits of what the passing runs show. The properties of `sequential` are
promises of the headers to one caller, and proved for one caller; with a second thread
(`Threads <- TwoThreads`) they fail: Login may return the user of another login
that completes between its two locks (`nb_user.cc:77`), and an export is torn
(`export_torn`). A logout discards a login of another thread that completed while
it waited for its reply (`nb_user.cc:105`); `session` shows that it discards no
login but such a one and the one it was to end. With an `IntMax` below the end of a session, as after 2038, an exported session cannot
be imported although it is valid (`nb_user.cc:148`). A 2xx reply to a login that
carries no session counts as a login and clears the current one
(`nb_user.cc:73-75`); `session` has such replies, and the session is not torn by
them. With `Repeats = TRUE`, `requests` fails: a second comparison of the same key
replaces the first instead of being added (`nb_query.h:387`).

What the models assume of applications, since the code does not see to it:

* A projection that leaves out content but keeps the ETag makes the next Save
  drop that content, guarded as it is: `Projections` has none that does. A copy
  whose projection left out the ETag overwrites unguarded, which `NothingLost`
  does not exclude (`guarded`).
* An application that reads the metadata of a file after it downloaded the
  body may overwrite, under both ETags, a version it has never seen:
  DownloadFile returns only a size (`nb_file_bucket.cc:50`). `fresh` is false then,
  and `NothingLost` is about the other order.
* The user agent an application adds is stored as `User-Agent`; RemoveHeader of
  another spelling removes nothing (`nb_api_gateway.cc:126`). `RemoveHeader` says so,
  and so does `wanted`.
* Elements of an ACL's JSON that are not strings become empty entries, which
  RemoveEntry cannot remove (`nb_acl_base.cc:74`); `GrantsAreAsked` ignores them.
* OrderBy and Projection with an empty list or an empty name keep what was
  there (`nb_query.cc:123` and `152`), which the headers say of neither clearly.
* Or and And of an argument without conditions put a null into the list
  (`nb_query.cc:113`), which the server refuses; `Combine` takes no such argument.
* Names of response headers are looked up as spelled
  (`nb_rest_executor.cc:164`): a lower-case x-content-length counts as missing,
  and a download without X-Content-Length fails even if all of it arrived.
  `transfer` has servers that send none.

## Proofs

All proofs hold for every value of the constants, under the named assumptions
of the modules: `HttpConnectionMax \in Nat`, `Offered \subseteq Operations`,
lifetimes positive, `MaxTime \in Nat`, the null values outside their sets. Threads
may be infinite.

*Pool.* `PoolInv` = type, `HeldByOne`, `NoneLost`, `AllDeleted` is inductive;
`NoneLost` alone is not: that a created executor is new needs `Created` to
bound what is around, and that a pushed one is not on the stack already needs
`HeldByOne`. The refinement of `ConnectionLimiter` compares cardinalities:
`HeldByOne` makes `executor` a bijection between the threads that hold one and
the executors lent, and by `NoneLost` these are all `1..HttpConnectionMax`
exactly when the stack is empty and none can be created (`RoomLeft`).

*Service.* `ServiceImplementsPool`: every step of `NbUser` is a step of the pool
or leaves it alone, so `PoolInv` holds of the service (PTL). `OthersLocals`: a
step of one thread leaves the locals of every other alone; with it each
per-thread invariant is proved for the acting thread only. `UseInv` relates what
a call holds to where it is, which gives `OverOnlyWhenFull` from `RoomLeft`.
`ToldInv` relates results to where a call is and gives `LogoutOkHasEnded`,
`NothingSentUnconfigured` and `SessionKept`. `EndedIsDropped` needs to know how
tokens move: every step but the server's answer to a login copies tokens
(`Copies`); a token in a reply that has not reached the service is known to
nobody else (`Fresh`), so no logout can have ended it. `SessionIsOne` is proved
for applications that do not export, the one operation that can assemble a
session from two; a run without exports (`session`) checks the same.

*Racing logouts.* `LogoutsDropOnlyRacing` is about `RaceSpec`, every behaviour of which
is one of `NbUser` (`RacesAreSteps`), and about any number of threads. That a logout
finds the session its request names, or none, is not invariant: another thread's
login may come between. `RaceInv` says that it holds of every logout that is not
in `overtaken`: the logout's own steps keep it (`LogoutOfActor`), and those of
others, unless they store a session (`LogoutOfOther`). The theorem assumes a
configured service (`RequiredParameters \subseteq Parameters`), since a logout whose
request cannot be built names no session and drops the one there is.

*One caller.* What the headers promise of single calls is proved for
applications with one thread (`OneCaller`), with any faults, operations and
lifetimes. None of it is inductive. `LoginReturnsItsUser` needs that the reply on
its way is this login's own (`OwnReply`) and that the session just set is what it
said. `OneSessionInv` follows a
session around the loop from login through export, the saved string and import
back into the service: at each of the export's locks, what has been read is that
of one session, or empty from the moment it expired on. It gives
`ExportsOneLogin`, `ExpiredIsSo` and `SessionIsOneWithExport`, for times that an int
can hold (`WideEnough`; past 2038 they fail).

*Transfers.* Three invariants, each on top of the one before. `HandleInv`
(`TransfersOwnTheirHandle`): `SetOptCommon` makes a handle that does not depend
on what it was, so nothing about earlier calls is needed; it assumes nothing of
servers. `StatusInv`: who has talked to libcurl decides which status the search
from the back finds, and the status a download has looked up is that of the
final response; `Told` alone is not inductive, since it only speaks of calls
that have ended. It gives `OkIsTheServers`, `ErrorsAreReported` and `FilesAreClean`
for servers that speak HTTP/1.1 (`OneVersion`; `tunnel_status` shows that this is
needed). `DownloadInv`: there is no X-Content-Length before the final response,
it is the size of its body, and the file has no more chunks than have come;
with files that an int can measure (`SmallFiles`) it gives `DownloadsAreWhole`.
`UploadInv` adds that nothing is kept or written that was not received (without
which the counts have no bound) and that an upload is announced with the length
of its file and stored at that length. It gives `TransferTypeOK` for servers that
speak HTTP/1.1, and with `SmallFiles`, where the cast in GetFileSize loses nothing,
`UploadsAreWhole`.

*Objects.* `ObjectInv` = `TypeOK`, `ETags`, `Requests`, `GoodCopies` is inductive.
`CopyIsOne` alone is not: that a request under an ETag does not throw away what
its caller has not seen needs the version of that ETag, which `ETags` says is
one, and that the caller's copy had all of it, which `Requests` keeps for as long
as the request may be late. `QueryResultIs` shows that a result of a query does
not depend on the results before it. From `ObjectInv` follow `CopiesAreOne`,
`CopiesKnowOwn`, `NothingIsLost`, and `ObjectsImplementStore`: every step that changes
`objects` is a Create, Modify, Delete or Overwrite of the store, and a Modify only
because of `Requests`. The sets may be infinite, the number of versions is bounded
by any `MaxETag`.

`CreationInv` adds how many objects a copy has created. `CreatedOnce` is not
inductive: every object a copy has created is paid for, either by a call its
caller does not know to be done or by the ID the copy has (`Paid`); a Save
creates only for a copy without an ID, which stays without one for as long as
the call takes (`Posting`), and a call is done once, so that it pays once: its
number is not among those counted (`Fresh`). `Creates` shows that a request creates
one object at most and only a POST does: any other names an object that already
has a version (`ETags`). From this follows `CopiesCreateOnce`.

*Files.* `FileInv` has the types, that the newest ETag bounds all of them
(`FileOK`), what a request has behind it (`Backed`, `Pending`), and what metadata
says of the file on the server (`GoodMetadata`): if an ETag of it is current then
so is the part of the file it is about (`Agrees`, `Covers`). That is a statement
about a server that has moved on, which is why it is inductive also for late
requests. It gives `NoFileIsLost`, `TypesAreKept`, `MetadataKnowsOwn`, and
`FilesImplementStore`.

*Gateway.* A factory gets the gateway's headers first and the SDK's own after
them, and every step of `Build` inserts into the same multimap. `Part` and `Others`
split a multimap by the names in lower case: an insertion changes the part of
its own name only (`PartOfInsert`, `OthersOfInsert`). `GatewayInv` says that what is
held is what is wanted, that no header is held whose name is reserved in any
spelling, that an agent is held at most once and spelled `User-Agent`, and that
the request sent last was built from what was held. The first alone
does not suffice: what Build adds is told from what was held by the names.
`GatewaySends` then
follows `Build` from part to part (`TypeReceived`, `IdsReceived`, `AgentReceived`,
`TokenReceived`, `CompletedLines`). `Lower` may be any function that tells the names
of the SDK's own headers apart (`GatewayAssumption`), the names and values may be
infinitely many.

*ACLs.* `SortUnique` is defined by what it returns: the list of the set in
ascending order. That there is one is `InOrderIs`: the rank of a number in a
finite set is a bijection with `1..Cardinality`. `WithoutEntry` erases the first
occurrence, which there is by the well-ordering of the naturals
(`LeastElement`); that no other is left needs lists without duplicates.
So the invariant `AclInv` is that every list is in order and holds what was
granted. For the JSON, `ToJsonObjectIs` shows that refilling one array with list
after list leaves nothing of the list before.

*Queries.* A recursive function denotes one only if there is a function that
satisfies its equation: `ServerIsDefined` builds it from finite chains
(`ChainExists`, `ChainsAgree`). `Deeper` shows that a server that looks deeper
answers the same, so that the depth does not matter once it is enough (`SelectedIs`,
`AcceptedIs`). `Asks` relates a query to what was asked of it, key by key, and is
preserved by each of the calls: `CompareAsks`, `NotAsks` (whose `"$not"` has one
clause within, never a bare value), `GroupAsks` and `CombineKeeps`. `QueryInv` adds
that after n calls no query nests deeper than n. `ParametersInv` relates each
member of the query to what was meant by it, so that leaving it out is right.
`QueriesAreAnswered` puts both together for `NbRequests`, for any number of queries,
keys, values and calls. It assumes `~Repeats`: no second comparison is made of a
key that has one, for which it is false (see Findings).

Only model-checked: the two `CallsReturn`, which are liveness. Every other property
of the passing runs is stated by a theorem. The three of `sequential`, which
are false for two threads, are proved for one; `SessionIsOne` is proved without exports
for many and with them for one; those of transfers, where servers are what they
assume, are proved under the assumptions named above. Only proved:
`SendsOnlyValid` (`RequestsCarryValid`), every token in a request was valid when the
request was built, and `NothingSentUnconfigured`.

## Not modelled, and the plan

Done so far, in this order: the pool, the service and its session, transfers,
objects, queries; then files, the abstract store that objects and files
implement, the gateway with the request factory, ACLs, the parameters of
queries, the proofs about objects and files; then the proofs about the gateway,
ACLs, queries and single-threaded sessions. Left: a file that changes while it
is uploaded, and the liveness of calls, which needs ENABLED and stays with TLC.

Not modelled, and why: the bodies of NbJsonObject and NbJsonArray are typed accessors
over the bundled JSON library without state of their own (the two operations
whose state matters, GetAllString and PutAllList, are in `NbAcl`). NbUserEntity,
NbHttpRequest, NbHttpResponse, NbResult and the constants hold values. NbLogger,
and the dates of NbUtility, are formatting. The destruction of the service is the
pool's; curlpp's global initialisation is one sequential step. The rest of the
repository is third-party code (gtest, gmock, curlpp, a JSON library) and tests.

Out of scope: JSON parsing, URL and header formatting, date formatting,
logging, curl's global initialisation, memory exhaustion, tests and builds.
