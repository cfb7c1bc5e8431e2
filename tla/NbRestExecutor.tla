--------------------------- MODULE NbRestExecutor ---------------------------
(***************************************************************************)
(* One executor (src/src/internal/nb_rest_executor.cc): a libcurl handle   *)
(* that lives in the pool and carries out one call after another, each     *)
(* with a handler of its own on the stack of the call, to which libcurl    *)
(* hands what it receives and from which it reads what it uploads.         *)
(*                                                                         *)
(* libcurl, the proxy, the server and the file system are external: the    *)
(* actions between the start of a transfer and its end are the callbacks   *)
(* libcurl makes, in every order and number it may make them, and a        *)
(* transfer may fail at any point.                                         *)
(*                                                                         *)
(* Bodies and files are counted in chunks.  A chunk of the file downloaded *)
(* or uploaded is "data", a chunk of an error reply is "error".            *)
(***************************************************************************)
EXTENDS NbHttpHandler, FiniteSets

CONSTANTS Offered,    \* the operations callers use
          Timeouts,   \* the time limits they give, in seconds
          Versions,   \* how the status lines of the server start
          Codes,      \* the status codes of its final responses
          Proxied,    \* whether requests go through a proxy's tunnel
          Faults,     \* what may go wrong: see Fault
          MaxFile,    \* bounds the chunks of a file or body
          IntMax      \* the largest int, in chunks

Executions == {"ExecuteRequest", "ExecuteFileDownload", "ExecuteFileUpload"}
Methods    == {"GET", "POST", "PUT", "DELETE"}

(* "curl": a transfer fails; "open", "disk": a file cannot be opened, read *)
(* or written.                                                             *)
Fault == {"curl", "open", "disk"}

ASSUME ExecutorAssumption ==
  /\ Offered \subseteq Executions /\ Faults \subseteq Fault
  /\ Timeouts \subseteq Int /\ Codes \subseteq 200..599
  /\ Proxied \in BOOLEAN /\ MaxFile \in Nat /\ IntMax \in Nat

VARIABLES
  curlpp_easy_,      \* the options set on the handle: see SetOpt
  pc, call,          \* where the call is, and what it is
  result,            \* its result code and the status code in it
  response_headers_, \* the handler: the header lines received,
  response_body_,    \*   the chunks of body kept in memory,
  tmp_status_code_,  \*   the status code its body callback has looked up,
  file_stream_,      \*   its stream on the file
  file,              \* the file the call reads or writes
  file_size,         \* file_size in ExecuteFileUpload
  peer, origin,      \* who is talking to libcurl, and the final response
  sent, received     \* chunks of body sent to it and received from it

handlerVars == <<response_headers_, response_body_, tmp_status_code_, file_stream_>>
wireVars    == <<peer, origin, sent, received>>
vars == <<curlpp_easy_, pc, call, result, handlerVars, file, file_size, wireVars>>

NoCall   == [op |-> "none", method |-> "none"]
NoResult == [code |-> "NB_FATAL", status |-> 0]
NoAnswer == [code |-> 0, size |-> 0, framed |-> FALSE, stored |-> 0]
NoFile   == [exists |-> FALSE, data |-> 0, error |-> 0]

Files    == {NoFile} \cup [exists : {TRUE}, data : 0..MaxFile, error : {0}]
Size(f)  == f.data + f.error

CurlErrors == {"NB_ERROR_CURL_RUNTIME", "NB_ERROR_CURL_LOGIC", "NB_ERROR_CURL_FATAL"}

ResultCodes ==
  CurlErrors \cup {"NB_OK", "NB_ERROR_RESPONSE", "NB_ERROR_INCORRECT_RESPONSE",
                  "NB_ERROR_OPEN_FILE", "NB_ERROR_FILE_DOWNLOAD", "NB_FATAL"}

Success(status) == status \div 100 = 2
-----------------------------------------------------------------------------
(* int GetFileSize: the cast wraps.  atoi of a number beyond int: glibc    *)
(* wraps where long is wider than int and saturates where it is not.       *)
ToInt(n) == ((n + IntMax + 1) % (2 * (IntMax + 1))) - (IntMax + 1)
GetFileSize(f) == ToInt(Size(f))
Atoi(n) == {ToInt(n)} \cup (IF n > IntMax THEN {IntMax} ELSE {})

Callbacks == {"HeaderFunction", "WriteFunction", "ReadFunction"}

(* The handle remembers the options set on it, the time limit, and which   *)
(* of its callbacks are bound to a handler that no longer exists.          *)
NewHandle == [options |-> {}, dangling |-> {}, timeout |-> 0]

SetOpt(easy, options) ==
  [easy EXCEPT !.options = @ \cup options, !.dangling = @ \ options]

SetOptNoReset(easy, timeout) ==      \* SetOptCommon without reset()
  [SetOpt(easy, {"HeaderFunction"}) EXCEPT
     !.timeout = IF timeout < 0 THEN 60 ELSE timeout]

SetOptRawTimeout(easy, timeout) ==   \* SetOptCommon that passes on what it got
  [SetOpt(NewHandle, {"HeaderFunction"}) EXCEPT !.timeout = timeout]

SetOptPlainTimeout(easy, timeout) == \* SetOptCommon without the default
  [SetOpt(NewHandle, {"HeaderFunction"}) EXCEPT
     !.timeout = IF timeout < 0 THEN 0 ELSE timeout]

SetOptCommon(easy, timeout) ==
  [SetOpt(NewHandle, {"HeaderFunction"}) EXCEPT
     !.timeout = IF timeout < 0 THEN 60 ELSE timeout]

MethodOptions(m) ==
  CASE m = "GET"    -> {"HttpGet"}
    [] m = "PUT"    -> {"CustomRequest PUT", "PostFields"}
    [] m = "POST"   -> {"Post", "PostFields"}
    [] m = "DELETE" -> {"CustomRequest DELETE"}

UploadNoLength(m) ==      \* UploadOptions without the Content-Length header
  IF m = "PUT" THEN {"Upload"} ELSE {"Post"}

Options ==
  Callbacks \cup {"HttpGet", "CustomRequest PUT", "CustomRequest DELETE", "Post",
                 "PostFields", "Upload", "Content-Length"}

UploadOptions(m) ==
  (IF m = "PUT" THEN {"Upload"} ELSE {"Post"}) \cup {"Content-Length"}

(* What libcurl makes of the options: the method it sends, and whether it  *)
(* asks the read callback for a body.                                      *)
MethodSent(options) ==
  IF "CustomRequest DELETE" \in options THEN "DELETE"
  ELSE IF {"CustomRequest PUT", "Upload"} \cap options # {} THEN "PUT"
  ELSE IF "Post" \in options THEN "POST" ELSE "GET"

ReadsBody(options) ==
  "PostFields" \notin options /\ {"Upload", "Post"} \cap options # {}
-----------------------------------------------------------------------------
MakeResultFatalFirst(headers, code) ==   \* an error of libcurl outranks the reply
  LET status == ParseStatusLine(headers)
  IN IF code # "NB_OK" THEN [code |-> code, status |-> 0]
     ELSE IF status = 0 THEN [code |-> "NB_ERROR_INCORRECT_RESPONSE", status |-> 0]
     ELSE IF ~Success(status) THEN [code |-> "NB_ERROR_RESPONSE", status |-> status]
     ELSE [code |-> code, status |-> status]

(* An error of libcurl is overruled by a status code of 300 or more.       *)
MakeResult(headers, code) ==
  LET status == ParseStatusLine(headers)
  IN IF code # "NB_OK" /\ status < 300 THEN [code |-> code, status |-> 0]
     ELSE IF status = 0 THEN [code |-> "NB_ERROR_INCORRECT_RESPONSE", status |-> 0]
     ELSE IF ~Success(status) THEN [code |-> "NB_ERROR_RESPONSE", status |-> status]
     ELSE [code |-> code, status |-> status]

ValidateIfGiven(headers, f, valid) ==    \* X-Content-Length not required
  \/ XContentLength(headers) = {} /\ valid = TRUE
  \/ \E n \in XContentLength(headers) : \E header_value \in Atoi(n) :
       valid = (header_value = GetFileSize(f))

(* The length the server gave is required, and that of the file.           *)
ValidateFileSize(headers, f, valid) ==
  \/ XContentLength(headers) = {} /\ valid = FALSE
  \/ \E n \in XContentLength(headers) : \E header_value \in Atoi(n) :
       valid = (header_value = GetFileSize(f))

Init ==
  /\ curlpp_easy_ = NewHandle
  /\ pc = "idle" /\ call = NoCall /\ result = NoResult
  /\ response_headers_ = <<>> /\ response_body_ = 0
  /\ tmp_status_code_ = 0 /\ file_stream_ = "closed"
  /\ file \in Files /\ file_size = 0
  /\ peer = "none" /\ origin = NoAnswer /\ sent = 0 /\ received = 0

Begin(o, m) ==
  /\ pc = "idle" /\ o \in Offered
  /\ call' = [op |-> o, method |-> m]

(* The method was refused or the file could not be opened.                 *)
Refuse(code) ==
  /\ pc' = "return"
  /\ result' = MakeResult(response_headers_, code)
  /\ UNCHANGED wireVars

Execute ==
  /\ pc' = "perform"
  /\ peer' = IF Proxied THEN "proxy" ELSE "origin"
  /\ UNCHANGED <<result, origin, sent, received>>

ExecuteRequest(m, timeout) ==
  /\ Begin("ExecuteRequest", m)
  /\ curlpp_easy_' = SetOpt(SetOptCommon(curlpp_easy_, timeout),
                            {"WriteFunction"} \cup MethodOptions(m))
  /\ Execute
  /\ UNCHANGED <<handlerVars, file, file_size>>

(* The target is opened, and truncated, before anything else.              *)
DownloadOpenFails(m) ==
  /\ Begin("ExecuteFileDownload", m)
  /\ "open" \in Faults
  /\ file_stream_' = "bad"
  /\ Refuse("NB_ERROR_OPEN_FILE")
  /\ UNCHANGED <<curlpp_easy_, response_headers_, response_body_,
                 tmp_status_code_, file, file_size>>

ExecuteFileDownload(m, timeout) ==
  /\ Begin("ExecuteFileDownload", m)
  /\ file_stream_' = "good"
  /\ file' = [NoFile EXCEPT !.exists = TRUE]
  /\ LET easy == SetOpt(SetOptCommon(curlpp_easy_, timeout), {"WriteFunction"})
     IN IF m = "GET"
        THEN curlpp_easy_' = SetOpt(easy, {"HttpGet"}) /\ Execute
        ELSE curlpp_easy_' = easy /\ Refuse("NB_FATAL")
  /\ UNCHANGED <<response_headers_, response_body_, tmp_status_code_, file_size>>

(* The size of the file is read first, the file opened afterwards.         *)
ExecuteFileUpload(m) ==
  /\ Begin("ExecuteFileUpload", m)
  /\ file_size' = GetFileSize(file)
  /\ pc' = "open"
  /\ UNCHANGED <<curlpp_easy_, result, handlerVars, file, wireVars>>

UploadOpenFails ==
  /\ pc = "open"
  /\ ~file.exists \/ "open" \in Faults
  /\ file_stream_' = "bad"
  /\ Refuse("NB_ERROR_OPEN_FILE")
  /\ UNCHANGED <<curlpp_easy_, call, response_headers_, response_body_,
                 tmp_status_code_, file, file_size>>

UploadOpen(timeout) ==
  /\ pc = "open" /\ file.exists
  /\ file_stream_' = "good"
  /\ LET easy == SetOpt(SetOptCommon(curlpp_easy_, timeout),
                        {"ReadFunction", "WriteFunction"})
     IN IF call.method \in {"PUT", "POST"}
        THEN curlpp_easy_' = SetOpt(easy, UploadOptions(call.method)) /\ Execute
        ELSE curlpp_easy_' = easy /\ Refuse("NB_FATAL")
  /\ UNCHANGED <<call, response_headers_, response_body_, tmp_status_code_,
                 file, file_size>>
-----------------------------------------------------------------------------
(* perform() comes back, with or without an exception.  What it returns is *)
(* for a download also checked against the file.                           *)
Finish(code) ==
  /\ pc' = "return"
  /\ \E valid \in BOOLEAN :
       LET made == MakeResult(response_headers_, code)
       IN IF call.op = "ExecuteFileDownload" /\ made.code = "NB_OK"
          THEN /\ ValidateFileSize(response_headers_, file, valid)
               /\ result' = IF valid THEN made
                            ELSE [made EXCEPT !.code = "NB_ERROR_FILE_DOWNLOAD"]
          ELSE result' = made
  /\ UNCHANGED <<curlpp_easy_, call, response_headers_, response_body_, file_size>>

Performing(who) == pc = "perform" /\ peer \in who

WriteHeaderCallback(lines) ==
  /\ response_headers_' = response_headers_ \o lines
  /\ UNCHANGED <<curlpp_easy_, pc, call, result, response_body_,
                 tmp_status_code_, file_stream_, file, file_size, sent, received>>

TunnelOpened ==
  /\ Performing({"proxy"})
  /\ WriteHeaderCallback(<<Line("HTTP/1.1", 200)>>)
  /\ peer' = "origin"
  /\ UNCHANGED origin

(* libcurl fails when the proxy refuses the tunnel.                        *)
TunnelRefused ==
  /\ Performing({"proxy"})
  /\ WriteHeaderCallback(<<Line("HTTP/1.1", 407)>>)
  /\ peer' = "refused"
  /\ UNCHANGED origin

Continue ==
  /\ Performing({"origin"}) /\ ReadsBody(curlpp_easy_.options)
  /\ WriteHeaderCallback(<<Line("HTTP/1.1", 100)>>)
  /\ peer' = "continued"
  /\ UNCHANGED origin

(* NbHttpFileUploadHandler::ReadCallback: a chunk, or 0 at the end of the  *)
(* file and after an error, which libcurl takes as the end of the body.    *)
ReadCallback ==
  /\ Performing({"origin", "continued"}) /\ ReadsBody(curlpp_easy_.options)
  /\ file_stream_ = "good"
  /\ \/ /\ sent < Size(file)
        /\ sent' = sent + 1
        /\ UNCHANGED file_stream_
     \/ /\ sent >= Size(file)
        /\ file_stream_' = "eof"
        /\ UNCHANGED sent
     \/ /\ "disk" \in Faults
        /\ file_stream_' = "bad"
        /\ UNCHANGED sent
  /\ UNCHANGED <<curlpp_easy_, pc, call, result, response_headers_,
                 response_body_, tmp_status_code_, file, file_size, peer, origin, received>>

(* The server takes the length it is told at its word: it accepts an       *)
(* upload when it has that many chunks and keeps those.  If it were told   *)
(* none it would take what comes until the body ends.                      *)
Accepts ==
  IF "Content-Length" \in curlpp_easy_.options
  THEN 0 <= file_size /\ file_size <= sent
  ELSE file_stream_ # "good"

Stored ==
  IF "Content-Length" \in curlpp_easy_.options THEN file_size ELSE sent

(* The header lines of the final response.  The end of its body is framed  *)
(* by a Content-Length or by chunking, or else is where the connection     *)
(* closes.                                                                 *)
Answer(version, code, n, framed) ==
  LET accepted == call.op = "ExecuteFileUpload" /\ Success(code)
      found    == call.op = "ExecuteFileDownload" /\ Success(code)
  IN /\ Performing({"origin", "continued"})
     /\ accepted => Accepts
     /\ origin' = [code |-> code, size |-> n, framed |-> framed,
                   stored |-> IF accepted THEN Stored ELSE 0]
     /\ \E fields \in {<<>>} \cup (IF found THEN {<<Line("X-Content-Length", n)>>}
                                   ELSE {}) :
          WriteHeaderCallback(<<Line(version, code)>> \o fields)
     /\ peer' = "body"

(* WriteCallback: to memory, or to the file if this is a download and the  *)
(* status code, looked up at the first chunk, is that of a success.        *)
GetStatusCode ==
  IF tmp_status_code_ = 0 THEN ParseStatusLine(response_headers_)
  ELSE tmp_status_code_

Write(f) ==
  IF Success(origin.code) THEN [f EXCEPT !.data = @ + 1]
  ELSE [f EXCEPT !.error = @ + 1]

BodyArrives ==
  /\ Performing({"body"}) /\ received < origin.size
  /\ received' = received + 1
  /\ UNCHANGED <<curlpp_easy_, pc, call, result, response_headers_, file_stream_,
                 file_size, peer, origin, sent>>

WriteToMemory ==
  /\ response_body_' = response_body_ + 1
  /\ UNCHANGED file

WriteCallback ==
  /\ BodyArrives
  /\ IF call.op = "ExecuteFileDownload"
     THEN /\ tmp_status_code_' = GetStatusCode
          /\ IF Success(GetStatusCode)
             THEN file' = Write(file) /\ UNCHANGED response_body_
             ELSE WriteToMemory
     ELSE WriteToMemory /\ UNCHANGED tmp_status_code_

(* A chunk that cannot be written to the file: libcurl gives up.           *)
WriteFails ==
  /\ Performing({"body"}) /\ received < origin.size
  /\ "disk" \in Faults
  /\ call.op = "ExecuteFileDownload" /\ Success(GetStatusCode)
  /\ tmp_status_code_' = GetStatusCode
  /\ file_stream_' = "bad"
  /\ Finish("NB_ERROR_CURL_RUNTIME")
  /\ UNCHANGED <<file, wireVars>>

(* A body without a frame is complete where the connection closes.         *)
Complete ==
  /\ Performing({"body"})
  /\ origin.framed => received = origin.size
  /\ Finish("NB_OK")
  /\ UNCHANGED <<tmp_status_code_, file_stream_, file, wireVars>>

Fail ==
  /\ pc = "perform"
  /\ \E code \in CurlErrors : Finish(code)
  /\ UNCHANGED <<tmp_status_code_, file_stream_, file, wireVars>>

(* CURLOPT_TIMEOUT: 0 is no limit.                                         *)
TimesOut == curlpp_easy_.timeout > 0 /\ Fail

Breaks == ("curl" \in Faults \/ peer = "refused") /\ Fail

(* The caller has the result; the handler is gone, not what the handle is  *)
(* bound to.                                                               *)
Return ==
  /\ pc = "return"
  /\ pc' = "idle" /\ call' = NoCall /\ result' = NoResult
  /\ curlpp_easy_' = [curlpp_easy_ EXCEPT !.dangling = @ \cup
                                (Callbacks \cap curlpp_easy_.options)]
  /\ response_headers_' = <<>> /\ response_body_' = 0
  /\ tmp_status_code_' = 0 /\ file_stream_' = "closed" /\ file_size' = 0
  /\ peer' = "none" /\ origin' = NoAnswer /\ sent' = 0 /\ received' = 0
  /\ UNCHANGED file

(* Between two calls the application puts another file in its place.       *)
ChangeFile ==
  /\ pc = "idle"
  /\ file' \in Files
  /\ UNCHANGED <<curlpp_easy_, pc, call, result, handlerVars, file_size, wireVars>>

Start(m, timeout) ==
  \/ ExecuteRequest(m, timeout)
  \/ DownloadOpenFails(m) \/ ExecuteFileDownload(m, timeout)
  \/ ExecuteFileUpload(m)

Opening == UploadOpenFails \/ \E timeout \in Timeouts : UploadOpen(timeout)

Network ==
  \/ TunnelOpened \/ TunnelRefused \/ Continue \/ ReadCallback
  \/ \E version \in Versions, code \in Codes, n \in 0..MaxFile, framed \in BOOLEAN :
       Answer(version, code, n, framed)
  \/ WriteCallback \/ WriteFails \/ Complete \/ Breaks

Next ==
  \/ \E m \in Methods, timeout \in Timeouts : Start(m, timeout)
  \/ Opening \/ Network \/ TimesOut \/ Return \/ ChangeFile

(* The thread inside a call is scheduled and libcurl keeps its time limit; *)
(* nothing obliges the server to answer.                                   *)
Spec == Init /\ [][Next]_vars /\ WF_vars(Opening) /\ WF_vars(TimesOut) /\ WF_vars(Return)
-----------------------------------------------------------------------------
HandlerTypeOK ==
  /\ response_headers_ \in
       Seq([name : Versions \cup {"HTTP/1.1", "X-Content-Length"}, value : Nat])
  /\ response_body_ \in 0..MaxFile
  /\ tmp_status_code_ \in {0, 200} \cup Codes
  /\ file_stream_ \in {"closed", "good", "eof", "bad"}

TypeOK ==
  /\ curlpp_easy_ \in [options : SUBSET Options, dangling : SUBSET Callbacks,
                       timeout : Nat]
  /\ pc \in {"idle", "open", "perform", "return"}
  /\ call \in [op : Offered, method : Methods] \cup {NoCall}
  /\ result \in [code : ResultCodes, status : Nat]
  /\ HandlerTypeOK
  /\ file \in [exists : BOOLEAN, data : 0..MaxFile, error : 0..MaxFile]
  /\ file_size \in -(IntMax + 1)..IntMax
  /\ peer \in {"none", "proxy", "refused", "origin", "continued", "body"}
  /\ origin \in [code : Codes \cup {0}, size : 0..MaxFile, framed : BOOLEAN,
                 stored : Nat]
  /\ sent \in 0..MaxFile /\ received \in 0..MaxFile

(* The handle is reused (nb_rest_executor.cc:237).  Whatever the calls     *)
(* before this one were and however they ended, a transfer sends the       *)
(* method of its own request, takes a body from the read callback only if  *)
(* it is an upload, and never calls a handler that is gone.                *)
HandleIsOwn ==
  pc = "perform" =>
    /\ curlpp_easy_.dangling = {}
    /\ MethodSent(curlpp_easy_.options) = call.method
    /\ ReadsBody(curlpp_easy_.options) <=> call.op = "ExecuteFileUpload"

Succeeded == pc = "return" /\ result.code = "NB_OK"

(* nb_result.h:45: success is a status code of 2xx.  It is that of the     *)
(* server, not of the proxy's CONNECT or of an interim response, and the   *)
(* body is all libcurl could know it should get.                           *)
OkIsAnswered ==
  Succeeded =>
    /\ peer = "body" /\ Success(origin.code)
    /\ result.status = origin.code
    /\ origin.framed => received = origin.size

(* The comment at nb_rest_executor.cc:266: when the server, or the proxy,  *)
(* has answered with an error, the caller is told its status code, even if *)
(* the transfer breaks off afterwards.                                     *)
ErrorIsReported ==
  pc = "return" =>
    /\ peer = "refused" => result = [code |-> "NB_ERROR_RESPONSE", status |-> 407]
    /\ peer = "body" /\ ~Success(origin.code) =>
         result = [code |-> "NB_ERROR_RESPONSE", status |-> origin.code]

(* A download that reports success has written the whole file, also when   *)
(* libcurl could not know the length of the body.                          *)
DownloadIsWhole ==
  Succeeded /\ call.op = "ExecuteFileDownload" =>
    file = [exists |-> TRUE, data |-> origin.size, error |-> 0]

(* The body of an error reply never gets into the file.                    *)
NoErrorInFile == call.op = "ExecuteFileDownload" => file.error = 0

(* An upload that reports success has stored the whole file, also when     *)
(* reading it failed on the way, which libcurl takes for its end.          *)
UploadIsWhole ==
  Succeeded /\ call.op = "ExecuteFileUpload" => origin.stored = Size(file)

(* Every call returns, whether or not anybody answers.                     *)
CallsReturn == pc # "idle" ~> pc = "idle"
=============================================================================
