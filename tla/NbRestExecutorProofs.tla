------------------------ MODULE NbRestExecutorProofs ------------------------
(***************************************************************************)
(* Proofs about NbRestExecutor, for every choice of operations, faults,    *)
(* status codes, time limits and sizes, with and without a proxy.          *)
(***************************************************************************)
EXTENDS NbRestExecutor, TLAPS

-----------------------------------------------------------------------------
(* The handle.  While an upload opens its file the call is an upload, and  *)
(* what the handle is bound to is settled before perform().                *)
HandleInv ==
  /\ HandleIsOwn
  /\ pc = "open" => call.op = "ExecuteFileUpload"

Handle(options, timeout) ==
  [options |-> options, dangling |-> {}, timeout |-> timeout]

LEMMA SetOptOnFresh ==
  ASSUME NEW options, NEW timeout, NEW more
  PROVE  SetOpt(Handle(options, timeout), more) = Handle(options \cup more, timeout)
<1> DEFINE old == Handle(options, timeout)
           new == Handle(options \cup more, timeout)
<1>1. [old EXCEPT !.options = old.options \cup more] = new
  BY DEF Handle
<1>2. [new EXCEPT !.dangling = old.dangling \ more] = new
  <2>1. old.dangling \ more = {}
    BY DEF Handle
  <2> HIDE DEF old
  <2> QED BY <2>1 DEF Handle
<1> HIDE DEF old, new
<1>3. SetOpt(old, more) = [[old EXCEPT !.options = old.options \cup more]
                             EXCEPT !.dangling = old.dangling \ more]
  BY Zenon DEF SetOpt
<1>4. SetOpt(old, more) = new
  BY <1>1, <1>2, <1>3
<1> QED BY <1>4 DEF old, new

LEMMA SetOptCommonIsFresh ==
  ASSUME NEW easy, NEW timeout
  PROVE  \E limit : SetOptCommon(easy, timeout) = Handle({"HeaderFunction"}, limit)
<1>1. SetOpt(NewHandle, {"HeaderFunction"}) = Handle({"HeaderFunction"}, 0)
  <2>1. NewHandle = Handle({}, 0) /\ {} \cup {"HeaderFunction"} = {"HeaderFunction"}
    BY DEF NewHandle, Handle
  <2> QED BY <2>1, SetOptOnFresh
<1>2. SetOptCommon(easy, timeout) =
        Handle({"HeaderFunction"}, IF timeout < 0 THEN 60 ELSE timeout)
  BY <1>1 DEF SetOptCommon, Handle
<1> QED BY <1>2

LEMMA SetOptTwice ==
  ASSUME NEW easy, NEW timeout, NEW options, NEW more
  PROVE  \E limit : SetOpt(SetOpt(SetOptCommon(easy, timeout), options), more) =
                      Handle(({"HeaderFunction"} \cup options) \cup more, limit)
<1>1. PICK limit : SetOptCommon(easy, timeout) = Handle({"HeaderFunction"}, limit)
  BY SetOptCommonIsFresh
<1>2. SetOpt(Handle({"HeaderFunction"}, limit), options) =
        Handle({"HeaderFunction"} \cup options, limit)
  BY SetOptOnFresh
<1>3. SetOpt(Handle({"HeaderFunction"} \cup options, limit), more) =
        Handle(({"HeaderFunction"} \cup options) \cup more, limit)
  BY SetOptOnFresh
<1> QED BY <1>1, <1>2, <1>3

LEMMA RequestHandle ==
  ASSUME NEW m \in Methods, NEW timeout, ExecuteRequest(m, timeout)
  PROVE  HandleInv'
<1>1. /\ pc' = "perform" /\ call' = [op |-> "ExecuteRequest", method |-> m]
      /\ curlpp_easy_' = SetOpt(SetOptCommon(curlpp_easy_, timeout),
                                {"WriteFunction"} \cup MethodOptions(m))
  BY DEF ExecuteRequest, Begin, Execute
<1>2. PICK limit :
        curlpp_easy_' = Handle({"HeaderFunction"} \cup
                                 ({"WriteFunction"} \cup MethodOptions(m)), limit)
  BY <1>1, SetOptCommonIsFresh, SetOptOnFresh
<1>3. /\ curlpp_easy_'.dangling = {}
      /\ curlpp_easy_'.options =
           {"HeaderFunction", "WriteFunction"} \cup MethodOptions(m)
  BY <1>2 DEF Handle
<1> QED BY <1>1, <1>3 DEF HandleInv, HandleIsOwn, MethodOptions, MethodSent, ReadsBody, Methods

LEMMA DownloadHandle ==
  ASSUME NEW m \in Methods, NEW timeout, ExecuteFileDownload(m, timeout)
  PROVE  HandleInv'
<1>1. CASE m = "GET"
  <2>1. /\ pc' = "perform" /\ call' = [op |-> "ExecuteFileDownload", method |-> m]
        /\ curlpp_easy_' = SetOpt(SetOpt(SetOptCommon(curlpp_easy_, timeout),
                                         {"WriteFunction"}), {"HttpGet"})
    BY <1>1 DEF ExecuteFileDownload, Begin, Execute
  <2>2. PICK limit :
          curlpp_easy_' = Handle(({"HeaderFunction"} \cup {"WriteFunction"})
                                   \cup {"HttpGet"}, limit)
    BY <2>1, SetOptTwice
  <2>3. /\ curlpp_easy_'.dangling = {}
        /\ curlpp_easy_'.options = {"HeaderFunction", "WriteFunction", "HttpGet"}
    BY <2>2 DEF Handle
  <2> QED BY <1>1, <2>1, <2>3 DEF HandleInv, HandleIsOwn, MethodSent, ReadsBody
<1>2. CASE m # "GET"
  BY <1>2 DEF ExecuteFileDownload, Refuse, HandleInv, HandleIsOwn
<1> QED BY <1>1, <1>2

LEMMA UploadHandle ==
  ASSUME NEW timeout, UploadOpen(timeout), HandleInv
  PROVE  HandleInv'
<1>1. CASE call.method \in {"PUT", "POST"}
  <2>1. /\ pc' = "perform" /\ UNCHANGED call /\ call.op = "ExecuteFileUpload"
        /\ curlpp_easy_' = SetOpt(SetOpt(SetOptCommon(curlpp_easy_, timeout),
                                         {"ReadFunction", "WriteFunction"}),
                                  UploadOptions(call.method))
    BY <1>1 DEF UploadOpen, Execute, HandleInv
  <2>2. PICK limit :
          curlpp_easy_' = Handle(({"HeaderFunction"} \cup {"ReadFunction", "WriteFunction"})
                                   \cup UploadOptions(call.method), limit)
    BY <2>1, SetOptTwice
  <2>3. /\ curlpp_easy_'.dangling = {}
        /\ curlpp_easy_'.options = {"HeaderFunction", "ReadFunction", "WriteFunction"}
                                     \cup UploadOptions(call.method)
    BY <2>2 DEF Handle
  <2> QED BY <1>1, <2>1, <2>3
            DEF HandleInv, HandleIsOwn, UploadOptions, MethodSent, ReadsBody
<1>2. CASE call.method \notin {"PUT", "POST"}
  BY <1>2 DEF UploadOpen, Refuse, HandleInv, HandleIsOwn
<1> QED BY <1>1, <1>2

(* Nothing libcurl does with a transfer changes its options or its call.   *)
LEMMA PerformLeavesHandle ==
  ASSUME Network \/ TimesOut
  PROVE  UNCHANGED <<curlpp_easy_, call>> /\ (pc = "perform" /\ pc' \in {"perform", "return"})
<1> USE DEF WriteHeaderCallback, Finish, Performing
<1>1. ASSUME TunnelOpened \/ TunnelRefused \/ Continue \/ ReadCallback
      PROVE  UNCHANGED <<curlpp_easy_, call, pc>> /\ pc = "perform"
  BY <1>1 DEF TunnelOpened, TunnelRefused, Continue, ReadCallback
<1>2. ASSUME NEW version, NEW code, NEW n, NEW framed, Answer(version, code, n, framed)
      PROVE  UNCHANGED <<curlpp_easy_, call, pc>> /\ pc = "perform"
  BY <1>2 DEF Answer
<1>3. ASSUME WriteCallback \/ WriteFails \/ Complete \/ Fail
      PROVE  /\ UNCHANGED <<curlpp_easy_, call>>
             /\ pc = "perform" /\ pc' \in {"perform", "return"}
  BY <1>3 DEF WriteCallback, BodyArrives, WriteFails, Complete, Fail
<1> QED BY <1>1, <1>2, <1>3 DEF Network, Breaks, TimesOut

LEMMA HandleInvInductive == HandleInv /\ [Next]_vars => HandleInv'
<1> SUFFICES ASSUME HandleInv, [Next]_vars PROVE HandleInv'
  OBVIOUS
<1>1. ASSUME NEW m \in Methods, NEW timeout \in Timeouts, Start(m, timeout)
      PROVE  HandleInv'
  <2>1. ASSUME DownloadOpenFails(m) \/ ExecuteFileUpload(m) PROVE HandleInv'
    BY <2>1 DEF DownloadOpenFails, ExecuteFileUpload, Begin, Refuse, HandleInv, HandleIsOwn
  <2> QED BY <1>1, <2>1, RequestHandle, DownloadHandle DEF Start
<1>2. CASE Opening
  <2>1. ASSUME UploadOpenFails PROVE HandleInv'
    BY <2>1 DEF UploadOpenFails, Refuse, HandleInv, HandleIsOwn
  <2> QED BY <1>2, <2>1, UploadHandle DEF Opening
<1>3. CASE Network \/ TimesOut
  BY <1>3, PerformLeavesHandle DEF HandleInv, HandleIsOwn
<1>4. CASE Return \/ ChangeFile
  BY <1>4 DEF Return, ChangeFile, HandleInv, HandleIsOwn
<1>5. CASE UNCHANGED vars
  BY <1>5 DEF vars, HandleInv, HandleIsOwn
<1> QED BY <1>1, <1>2, <1>3, <1>4, <1>5 DEF Next

(* No option, method or callback of an earlier call reaches a transfer,    *)
(* whatever that call was and however it ended: the reset() that           *)
(* SetOptCommon begins with (nb_rest_executor.cc:237) is enough.           *)
THEOREM TransfersOwnTheirHandle == Spec => []HandleIsOwn
<1>1. Init => HandleInv
  BY DEF Init, HandleInv, HandleIsOwn
<1> QED BY <1>1, HandleInvInductive, PTL DEF Spec, HandleInv
-----------------------------------------------------------------------------
(* The status code.  It is that of the last status line; an X-Content-     *)
(* Length behind it does not hide it.                                      *)
Lines == [name : {"HTTP/1.1", "X-Content-Length"}, value : Nat]

LEMMA NoStatusLine == ParseStatusLine(<<>>) = 0
<1>1. SearchStatusLine(<<>>) = 0
  BY DEF SearchStatusLine, SelectLastInSeq
<1> QED BY <1>1 DEF ParseStatusLine

Fields(n) == {<<>>, <<Line("X-Content-Length", n)>>}

AfterReply(h, c, fields) == h \o (<<Line("HTTP/1.1", c)>> \o fields)

LEMMA LastReply ==
  ASSUME NEW h \in Seq(Lines), NEW c \in Nat, NEW n \in Nat,
         NEW fields \in Fields(n)
  PROVE  /\ AfterReply(h, c, fields) \in Seq(Lines)
         /\ ParseStatusLine(AfterReply(h, c, fields)) = c
         /\ \A x \in XContentLength(AfterReply(h, c, fields)) : fields # <<>> /\ x = n
<1> DEFINE reply == <<Line("HTTP/1.1", c)>> \o fields
           s == h \o reply
           I == {i \in 1..Len(s) : s[i].name = "HTTP/1.1"}
           last == Len(h) + 1
<1>1. Line("HTTP/1.1", c) \in Lines /\ Line("X-Content-Length", n) \in Lines
  BY DEF Line, Lines
<1>2. /\ reply \in Seq(Lines) /\ reply[1] = Line("HTTP/1.1", c)
      /\ \/ Len(reply) = 1
         \/ Len(reply) = 2 /\ fields # <<>> /\ reply[2] = Line("X-Content-Length", n)
  <2>0. fields = <<>> \/ fields = <<Line("X-Content-Length", n)>>
    BY DEF Fields
  <2>1. CASE fields = <<>>
    BY <1>1, <2>1
  <2>2. CASE fields = <<Line("X-Content-Length", n)>>
    BY <1>1, <2>2
  <2> QED BY <2>0, <2>1, <2>2
<1> HIDE DEF reply
<1>3. /\ s \in Seq(Lines) /\ last \in Nat /\ last \in 1..Len(s)
      /\ Len(s) \in Nat /\ Len(h) \in Nat /\ s[last] = reply[1]
      /\ Len(s) = Len(h) + Len(reply)
      /\ Len(reply) = 2 => s[last + 1] = reply[2]
  BY <1>2
<1> HIDE DEF s, last
<1>4. I # {} /\ last \in I
  BY <1>2, <1>3 DEF Line
<1>5. \A i \in I : i \in Nat /\ last >= i
  <2> SUFFICES ASSUME NEW i \in I, ~ (last >= i) PROVE FALSE
    BY <1>3
  <2>0. i \in Nat /\ i <= Len(s)
    BY <1>3
  <2>1. Len(reply) = 2 /\ i = last + 1
    <3>1. last = Len(h) + 1
      BY DEF last
    <3>2. Len(reply) = 1 \/ Len(reply) = 2
      BY <1>2
    <3> HIDE DEF I
    <3>3. Len(s) = Len(h) + Len(reply) /\ Len(h) \in Nat /\ i > last
      BY <1>3, <2>0
    <3>4. ASSUME NEW l \in Nat, NEW k \in Nat, NEW j \in Nat,
                 k = 1 \/ k = 2, j <= l + k, j > l + 1
          PROVE  k = 2 /\ j = (l + 1) + 1
      BY <3>4
    <3>5. Len(reply) \in Nat /\ i <= Len(h) + Len(reply) /\ i > Len(h) + 1
      BY <2>0, <3>1, <3>2, <3>3
    <3> QED BY <2>0, <3>1, <3>2, <3>3, <3>4, <3>5
  <2>2. s[i] = Line("X-Content-Length", n)
    BY <1>2, <1>3, <2>1
  <2> QED BY <2>2 DEF Line
<1> HIDE DEF I
<1>6. Max(I) \in I /\ \A i \in I : Max(I) >= i
  BY <1>4, <1>5 DEF Max
<1>7. Max(I) = last
  <2>1. Max(I) \in Nat /\ last >= Max(I) /\ Max(I) >= last
    BY <1>4, <1>5, <1>6
  <2> QED BY <1>3, <2>1
<1>8. SearchStatusLine(s) = last
  BY <1>4, <1>7 DEF SearchStatusLine, SelectLastInSeq, I
<1>9. ParseStatusLine(s) = c
  BY <1>2, <1>3, <1>8 DEF ParseStatusLine, Line
<1>10. ASSUME NEW x \in XContentLength(s)
       PROVE  fields # <<>> /\ x = n
  <2>1. PICK k \in DOMAIN s : last < k /\ x = s[k].value
    BY <1>8 DEF XContentLength
  <2>2. DOMAIN s = 1..Len(s)
    BY <1>3
  <2>3. k \in Nat /\ k <= Len(s) /\ Len(reply) \in Nat
    BY <1>2, <1>3, <2>1, <2>2
  <2>4. Len(s) = (last - 1) + Len(reply)
    BY <1>3 DEF last
  <2>5. ASSUME NEW l \in Nat, NEW r \in Nat, NEW j \in Nat,
               r = 1 \/ r = 2, j <= (l - 1) + r, l < j
        PROVE  r = 2 /\ j = l + 1
    BY <2>5
  <2>6. Len(reply) = 2 /\ k = last + 1
    <3>1. Len(reply) = 1 \/ Len(reply) = 2
      BY <1>2
    <3>2. last \in Nat /\ k <= (last - 1) + Len(reply) /\ last < k
      BY <1>3, <2>1, <2>3, <2>4
    <3> QED BY <2>3, <2>5, <3>1, <3>2
  <2>7. x = Line("X-Content-Length", n).value /\ fields # <<>>
    BY <1>2, <1>3, <2>1, <2>6
  <2> QED BY <2>7 DEF Line
<1>11. s = AfterReply(h, c, fields)
  BY DEF s, reply, AfterReply
<1> QED BY <1>3, <1>9, <1>10, <1>11

-----------------------------------------------------------------------------
(* What MakeResult makes of a status code: success only of a 2xx and a     *)
(* transfer that ended well, and an error of 300 or more in any case.      *)
LEMMA MakeResultTells ==
  ASSUME NEW headers, NEW code \in ResultCodes, ParseStatusLine(headers) \in Nat
  PROVE  LET made   == MakeResult(headers, code)
             status == ParseStatusLine(headers)
         IN /\ made \in [code : ResultCodes, status : Nat]
            /\ made.code = "NB_OK" =>
                 code = "NB_OK" /\ Success(status) /\ made.status = status
            /\ status >= 300 =>
                 made = [code |-> "NB_ERROR_RESPONSE", status |-> status]
<1> DEFINE status == ParseStatusLine(headers)
           made   == MakeResult(headers, code)
<1>1. status >= 300 => ~Success(status)
  BY DEF Success
<1>2. made = IF code # "NB_OK" /\ status < 300 THEN [code |-> code, status |-> 0]
             ELSE IF status = 0
                  THEN [code |-> "NB_ERROR_INCORRECT_RESPONSE", status |-> 0]
             ELSE IF ~Success(status)
                  THEN [code |-> "NB_ERROR_RESPONSE", status |-> status]
             ELSE [code |-> code, status |-> status]
  BY DEF MakeResult
<1>3. status \in Nat
  OBVIOUS
<1> HIDE DEF status, made
<1>4. /\ made \in [code : ResultCodes, status : Nat]
      /\ made.code = "NB_OK" =>
           code = "NB_OK" /\ Success(status) /\ made.status = status
      /\ status >= 300 => made = [code |-> "NB_ERROR_RESPONSE", status |-> status]
  <2>1. CASE code # "NB_OK" /\ status < 300
    BY <1>2, <1>3, <2>1
  <2>2. CASE ~(code # "NB_OK" /\ status < 300) /\ status = 0
    <3>1. made = [code |-> "NB_ERROR_INCORRECT_RESPONSE", status |-> 0] /\ ~(status >= 300)
      BY <1>2, <2>2
    <3> QED BY <3>1 DEF ResultCodes
  <2>3. CASE ~(code # "NB_OK" /\ status < 300) /\ status # 0 /\ ~Success(status)
    <3>1. made = [code |-> "NB_ERROR_RESPONSE", status |-> status]
      BY <1>2, <2>3
    <3> QED BY <1>3, <3>1 DEF ResultCodes
  <2>4. CASE ~(code # "NB_OK" /\ status < 300) /\ status # 0 /\ Success(status)
    BY <1>1, <1>2, <1>3, <2>4
  <2> QED BY <2>1, <2>2, <2>3, <2>4
<1> QED BY <1>4 DEF status, made

(* Who has spoken so far decides what the parser finds.                    *)
StatusIs(who, status, code) ==
  /\ who \in {"none", "proxy"} => status = 0
  /\ who = "origin"            => status \in {0, 200}
  /\ who = "refused"           => status = 407
  /\ who = "continued"         => status = 100
  /\ who = "body"              => status = code /\ code \in Codes

(* The status code the download handler remembers is that of the server,   *)
(* because libcurl passes it no body before the final status line.         *)
StatusInv ==
  /\ response_headers_ \in Seq(Lines)
  /\ peer \in {"none", "proxy", "refused", "origin", "continued", "body"}
  /\ peer = "none" => response_headers_ = <<>>
  /\ pc \in {"idle", "open"} => peer = "none"
  /\ StatusIs(peer, ParseStatusLine(response_headers_), origin.code)
  /\ tmp_status_code_ \in {0} \cup (IF peer = "body" THEN {origin.code} ELSE {})
  /\ file \in [exists : BOOLEAN, data : Nat, error : {0}]

OneVersion == Versions = {"HTTP/1.1"}

LEMMA StatusIsNat ==
  ASSUME StatusInv
  PROVE  /\ ParseStatusLine(response_headers_) \in Nat
         /\ peer = "body" => ParseStatusLine(response_headers_) = origin.code
         /\ peer = "body" => origin.code \in 200..599
         /\ peer = "refused" => ParseStatusLine(response_headers_) = 407
         /\ peer = "none" => ParseStatusLine(response_headers_) = 0
<1> DEFINE status == ParseStatusLine(response_headers_)
<1>1. /\ StatusIs(peer, status, origin.code)
      /\ peer \in {"none", "proxy", "refused", "origin", "continued", "body"}
  BY DEF StatusInv
<1>2. peer = "body" => origin.code \in 200..599
  BY <1>1, ExecutorAssumption DEF StatusIs
<1> HIDE DEF status
<1>3. peer = "body" => status \in Nat
  BY <1>1, <1>2 DEF StatusIs
<1> QED BY <1>1, <1>2, <1>3 DEF StatusIs, status

Told == OkIsAnswered /\ ErrorIsReported

(* A refused call has heard of nobody.                                     *)
LEMMA RefuseTells ==
  ASSUME StatusInv, peer = "none", NEW code \in ResultCodes, code # "NB_OK", Refuse(code)
  PROVE  Told'
<1>1. UNCHANGED peer /\ result' = MakeResult(response_headers_, code)
  BY DEF Refuse, wireVars
<1>2. result'.code # "NB_OK"
  BY <1>1, StatusIsNat, MakeResultTells
<1> QED BY <1>1, <1>2 DEF Told, OkIsAnswered, ErrorIsReported, Succeeded

(* A transfer that ends tells what it has heard.                           *)
LEMMA FinishTells ==
  ASSUME StatusInv, NEW code \in ResultCodes, Finish(code), UNCHANGED wireVars,
         code = "NB_OK" =>
           peer = "body" /\ (origin.framed => received = origin.size)
  PROVE  Told'
<1> DEFINE made   == MakeResult(response_headers_, code)
           status == ParseStatusLine(response_headers_)
<1>1. /\ made \in [code : ResultCodes, status : Nat]
      /\ made.code = "NB_OK" =>
           code = "NB_OK" /\ Success(status) /\ made.status = status
      /\ status >= 300 => made = [code |-> "NB_ERROR_RESPONSE", status |-> status]
  BY StatusIsNat, MakeResultTells
<1>2. \/ result' = made
      \/ made.code = "NB_OK" /\ result' = [made EXCEPT !.code = "NB_ERROR_FILE_DOWNLOAD"]
  BY DEF Finish
<1>3. UNCHANGED <<peer, origin, received>>
  BY DEF wireVars
<1> HIDE DEF made
<1>4. OkIsAnswered'
  <2> SUFFICES ASSUME result'.code = "NB_OK"
               PROVE  /\ peer = "body" /\ Success(origin.code)
                      /\ result'.status = origin.code
                      /\ origin.framed => received = origin.size
    BY <1>3 DEF OkIsAnswered, Succeeded
  <2>1. result' = made
    BY <1>1, <1>2
  <2> QED BY <1>1, <2>1, StatusIsNat
<1>5. ErrorIsReported'
  <2>1. ASSUME peer = "refused" PROVE result' = [code |-> "NB_ERROR_RESPONSE", status |-> 407]
    BY <1>1, <1>2, <2>1, StatusIsNat
  <2>2. ASSUME peer = "body", ~Success(origin.code)
        PROVE  result' = [code |-> "NB_ERROR_RESPONSE", status |-> origin.code]
    <3>1. status = origin.code /\ origin.code \in 200..599
      BY <2>2, StatusIsNat
    <3>2. status >= 300
      BY <2>2, <3>1 DEF Success
    <3> QED BY <1>1, <1>2, <3>1, <3>2
  <2> QED BY <1>3, <2>1, <2>2 DEF ErrorIsReported
<1> QED BY <1>4, <1>5 DEF Told

(* Where no result has been made yet there is nothing to tell.             *)
LEMMA NothingToTell == ASSUME pc' # "return" PROVE Told'
  BY DEF Told, OkIsAnswered, ErrorIsReported, Succeeded

LEMMA StartTells ==
  ASSUME StatusInv, NEW m \in Methods, NEW timeout, Start(m, timeout)
  PROVE  (StatusInv /\ Told)'
<1>1. ASSUME ExecuteRequest(m, timeout)
      PROVE  (StatusInv /\ Told)'
  <2>1. pc' = "perform" /\ peer' \in {"proxy", "origin"} /\ peer = "none"
    BY <1>1 DEF ExecuteRequest, Begin, Execute, StatusInv
  <2>2. UNCHANGED <<response_headers_, tmp_status_code_, file, origin>>
    BY <1>1 DEF ExecuteRequest, Execute, handlerVars
  <2> QED BY <2>1, <2>2, NothingToTell DEF StatusInv, StatusIs
<1>2. ASSUME DownloadOpenFails(m)
      PROVE  (StatusInv /\ Told)'
  <2>0. "NB_ERROR_OPEN_FILE" \in ResultCodes /\ "NB_ERROR_OPEN_FILE" # "NB_OK"
    BY DEF ResultCodes
  <2>1. pc' = "return" /\ peer = "none" /\ Refuse("NB_ERROR_OPEN_FILE")
    BY <1>2 DEF DownloadOpenFails, Begin, Refuse, StatusInv
  <2>2. UNCHANGED <<response_headers_, tmp_status_code_, file, peer, origin>>
    BY <1>2 DEF DownloadOpenFails, Refuse, wireVars
  <2>3. Told'
    BY <2>0, <2>1, RefuseTells
  <2> QED BY <2>1, <2>2, <2>3 DEF StatusInv, StatusIs
<1>3. ASSUME ExecuteFileDownload(m, timeout)
      PROVE  (StatusInv /\ Told)'
  <2>1. /\ UNCHANGED <<response_headers_, tmp_status_code_, origin>> /\ peer = "none"
        /\ file' \in [exists : BOOLEAN, data : Nat, error : {0}]
    <3>1. [NoFile EXCEPT !.exists = TRUE] \in [exists : BOOLEAN, data : Nat, error : {0}]
      BY DEF NoFile
    <3> QED BY <1>3, <3>1 DEF ExecuteFileDownload, Begin, Execute, Refuse, wireVars, StatusInv
  <2>2. CASE m = "GET"
    <3>1. pc' = "perform" /\ peer' \in {"proxy", "origin"}
      BY <1>3, <2>2 DEF ExecuteFileDownload, Execute
    <3> QED BY <2>1, <3>1, NothingToTell DEF StatusInv, StatusIs
  <2>3. CASE m # "GET"
    <3>0. "NB_FATAL" \in ResultCodes /\ "NB_FATAL" # "NB_OK"
      BY DEF ResultCodes
    <3>1. pc' = "return" /\ Refuse("NB_FATAL") /\ UNCHANGED peer
      BY <1>3, <2>3 DEF ExecuteFileDownload, Refuse, wireVars
    <3>2. Told'
      BY <2>1, <3>0, <3>1, RefuseTells
    <3> QED BY <2>1, <3>1, <3>2 DEF StatusInv, StatusIs
  <2> QED BY <2>2, <2>3
<1>4. ASSUME ExecuteFileUpload(m)
      PROVE  (StatusInv /\ Told)'
  <2>1. pc' = "open" /\ peer = "none"
    BY <1>4 DEF ExecuteFileUpload, Begin, StatusInv
  <2>2. UNCHANGED <<response_headers_, tmp_status_code_, file, peer, origin>>
    BY <1>4 DEF ExecuteFileUpload, handlerVars, wireVars
  <2> QED BY <2>1, <2>2, NothingToTell DEF StatusInv, StatusIs
<1> QED BY <1>1, <1>2, <1>3, <1>4 DEF Start

LEMMA OpeningTells ==
  ASSUME StatusInv, Opening
  PROVE  (StatusInv /\ Told)'
<1>1. ASSUME UploadOpenFails PROVE (StatusInv /\ Told)'
  <2>0. "NB_ERROR_OPEN_FILE" \in ResultCodes /\ "NB_ERROR_OPEN_FILE" # "NB_OK"
    BY DEF ResultCodes
  <2>1. pc' = "return" /\ peer = "none" /\ Refuse("NB_ERROR_OPEN_FILE")
    BY <1>1 DEF UploadOpenFails, Refuse, StatusInv
  <2>2. UNCHANGED <<response_headers_, tmp_status_code_, file, peer, origin>>
    BY <1>1 DEF UploadOpenFails, Refuse, wireVars
  <2>3. Told'
    BY <2>0, <2>1, RefuseTells
  <2> QED BY <2>1, <2>2, <2>3 DEF StatusInv, StatusIs
<1>2. ASSUME NEW timeout, UploadOpen(timeout) PROVE (StatusInv /\ Told)'
  <2>1. /\ UNCHANGED <<response_headers_, tmp_status_code_, file, origin>>
        /\ peer = "none"
    BY <1>2 DEF UploadOpen, Execute, Refuse, wireVars, StatusInv
  <2>2. CASE call.method \in {"PUT", "POST"}
    <3>1. pc' = "perform" /\ peer' \in {"proxy", "origin"}
      BY <1>2, <2>2 DEF UploadOpen, Execute
    <3> QED BY <2>1, <3>1, NothingToTell DEF StatusInv, StatusIs
  <2>3. CASE call.method \notin {"PUT", "POST"}
    <3>0. "NB_FATAL" \in ResultCodes /\ "NB_FATAL" # "NB_OK"
      BY DEF ResultCodes
    <3>1. pc' = "return" /\ Refuse("NB_FATAL") /\ UNCHANGED peer
      BY <1>2, <2>3 DEF UploadOpen, Refuse, wireVars
    <3>2. Told'
      BY <2>1, <3>0, <3>1, RefuseTells
    <3> QED BY <2>1, <3>1, <3>2 DEF StatusInv, StatusIs
  <2> QED BY <2>2, <2>3
<1> QED BY <1>1, <1>2 DEF Opening

(* An interim response, or that of the proxy: its status line alone.       *)
LEMMA StatusLineAlone ==
  ASSUME StatusInv, NEW c \in Nat, WriteHeaderCallback(<<Line("HTTP/1.1", c)>>)
  PROVE  /\ response_headers_' \in Seq(Lines)
         /\ ParseStatusLine(response_headers_') = c
         /\ XContentLength(response_headers_') = {}
<1>1. response_headers_ \in Seq(Lines) /\ 0 \in Nat
      /\ <<>> \in Fields(0)
  BY DEF StatusInv, Fields
<1>2. <<Line("HTTP/1.1", c)>> \o <<>> = <<Line("HTTP/1.1", c)>>
  OBVIOUS
<1>3. response_headers_' = AfterReply(response_headers_, c, <<>>)
  BY <1>2 DEF WriteHeaderCallback, AfterReply
<1> QED BY <1>1, <1>3, LastReply

LEMMA AnswerTells ==
  ASSUME StatusInv, OneVersion, NEW version \in Versions, NEW code \in Codes,
         NEW n \in 0..MaxFile, NEW framed, Answer(version, code, n, framed)
  PROVE  (StatusInv /\ Told)'
<1>1. /\ pc' = "perform" /\ peer' = "body" /\ origin'.code = code /\ peer # "body"
      /\ UNCHANGED <<tmp_status_code_, file>>
  BY DEF Answer, Performing, WriteHeaderCallback
<1>2. PICK fields \in Fields(n) :
        response_headers_' = AfterReply(response_headers_, code, fields)
  <2>1. version = "HTTP/1.1"
    BY DEF OneVersion
  <2> QED BY <2>1 DEF Answer, WriteHeaderCallback, AfterReply, Fields
<1>3. code \in Nat /\ n \in Nat
  BY ExecutorAssumption
<1>4. response_headers_' \in Seq(Lines) /\ ParseStatusLine(response_headers_') = code
  <2>1. response_headers_ \in Seq(Lines)
    BY DEF StatusInv
  <2> QED BY <1>2, <1>3, <2>1, LastReply
<1> QED BY <1>1, <1>4, NothingToTell DEF StatusInv, StatusIs

(* Everything else libcurl does until a transfer ends.                     *)
LEMMA ProgressTells ==
  ASSUME StatusInv,
         TunnelOpened \/ TunnelRefused \/ Continue \/ ReadCallback \/ WriteCallback
  PROVE  (StatusInv /\ Told)'
<1>1. ASSUME TunnelOpened PROVE (StatusInv /\ Told)'
  <2>1. /\ pc' = "perform" /\ peer' = "origin" /\ peer # "body"
        /\ WriteHeaderCallback(<<Line("HTTP/1.1", 200)>>)
        /\ UNCHANGED <<tmp_status_code_, file, origin>>
    BY <1>1 DEF TunnelOpened, Performing, WriteHeaderCallback
  <2>2. response_headers_' \in Seq(Lines) /\ ParseStatusLine(response_headers_') = 200
    BY <2>1, StatusLineAlone
  <2> QED BY <2>1, <2>2, NothingToTell DEF StatusInv, StatusIs
<1>2. ASSUME TunnelRefused PROVE (StatusInv /\ Told)'
  <2>1. /\ pc' = "perform" /\ peer' = "refused" /\ peer # "body"
        /\ WriteHeaderCallback(<<Line("HTTP/1.1", 407)>>)
        /\ UNCHANGED <<tmp_status_code_, file, origin>>
    BY <1>2 DEF TunnelRefused, Performing, WriteHeaderCallback
  <2>2. response_headers_' \in Seq(Lines) /\ ParseStatusLine(response_headers_') = 407
    BY <2>1, StatusLineAlone
  <2> QED BY <2>1, <2>2, NothingToTell DEF StatusInv, StatusIs
<1>3. ASSUME Continue PROVE (StatusInv /\ Told)'
  <2>1. /\ pc' = "perform" /\ peer' = "continued" /\ peer # "body"
        /\ WriteHeaderCallback(<<Line("HTTP/1.1", 100)>>)
        /\ UNCHANGED <<tmp_status_code_, file, origin>>
    BY <1>3 DEF Continue, Performing, WriteHeaderCallback
  <2>2. response_headers_' \in Seq(Lines) /\ ParseStatusLine(response_headers_') = 100
    BY <2>1, StatusLineAlone
  <2> QED BY <2>1, <2>2, NothingToTell DEF StatusInv, StatusIs
<1>4. ASSUME ReadCallback PROVE (StatusInv /\ Told)'
  <2>1. /\ pc' = "perform"
        /\ UNCHANGED <<response_headers_, tmp_status_code_, file, peer, origin>>
    BY <1>4 DEF ReadCallback, Performing
  <2> QED BY <2>1, NothingToTell DEF StatusInv, StatusIs
<1>5. ASSUME WriteCallback PROVE (StatusInv /\ Told)'
  <2>1. /\ pc' = "perform" /\ peer = "body"
        /\ UNCHANGED <<response_headers_, peer, origin>>
    BY <1>5 DEF WriteCallback, BodyArrives, Performing
  <2>2. GetStatusCode = origin.code
    BY <2>1, StatusIsNat DEF StatusInv, GetStatusCode
  <2>3. tmp_status_code_' \in {0, origin.code}
    BY <1>5, <2>1, <2>2 DEF WriteCallback, WriteToMemory, StatusInv
  <2>4. file' \in [exists : BOOLEAN, data : Nat, error : {0}]
    <3>1. CASE Success(origin.code)
      <4>1. file' = file \/ file' = [file EXCEPT !.data = @ + 1]
        BY <1>5, <2>2, <3>1 DEF WriteCallback, WriteToMemory, Write
      <4> QED BY <4>1 DEF StatusInv
    <3>2. CASE ~Success(origin.code)
      <4>1. file' = file
        BY <1>5, <2>2, <3>2 DEF WriteCallback, WriteToMemory
      <4> QED BY <4>1 DEF StatusInv
    <3> QED BY <3>1, <3>2
  <2> QED BY <2>1, <2>3, <2>4, NothingToTell DEF StatusInv, StatusIs
<1> QED BY <1>1, <1>2, <1>3, <1>4, <1>5

(* The ends of a transfer.                                                 *)
LEMMA EndTells ==
  ASSUME StatusInv, WriteFails \/ Complete \/ Fail
  PROVE  (StatusInv /\ Told)'
<1>1. ASSUME WriteFails PROVE (StatusInv /\ Told)'
  <2>1. /\ pc' = "return" /\ peer = "body" /\ Finish("NB_ERROR_CURL_RUNTIME")
        /\ UNCHANGED <<response_headers_, file, peer, origin, wireVars>>
        /\ tmp_status_code_' = GetStatusCode
    BY <1>1 DEF WriteFails, Performing, Finish, wireVars
  <2>2. GetStatusCode = origin.code
    BY <2>1, StatusIsNat DEF StatusInv, GetStatusCode
  <2>3. "NB_ERROR_CURL_RUNTIME" \in ResultCodes /\ "NB_ERROR_CURL_RUNTIME" # "NB_OK"
    BY DEF ResultCodes, CurlErrors
  <2>4. Told'
    BY <2>1, <2>3, FinishTells
  <2> QED BY <2>1, <2>2, <2>4 DEF StatusInv, StatusIs
<1>2. ASSUME Complete PROVE (StatusInv /\ Told)'
  <2>1. /\ pc' = "return" /\ peer = "body" /\ Finish("NB_OK")
        /\ origin.framed => received = origin.size
        /\ UNCHANGED <<response_headers_, tmp_status_code_, file, peer, origin, wireVars>>
    BY <1>2 DEF Complete, Performing, Finish, wireVars
  <2>2. "NB_OK" \in ResultCodes
    BY DEF ResultCodes
  <2>3. Told'
    BY <2>1, <2>2, FinishTells
  <2> QED BY <2>1, <2>3 DEF StatusInv, StatusIs
<1>3. ASSUME Fail PROVE (StatusInv /\ Told)'
  <2>1. PICK code \in CurlErrors : Finish(code)
    BY <1>3 DEF Fail
  <2>2. /\ pc' = "return"
        /\ UNCHANGED <<response_headers_, tmp_status_code_, file, peer, origin, wireVars>>
    BY <1>3, <2>1 DEF Fail, Finish, wireVars
  <2>3. code \in ResultCodes /\ code # "NB_OK"
    BY <2>1 DEF ResultCodes, CurlErrors
  <2>4. Told'
    BY <2>1, <2>2, <2>3, FinishTells
  <2> QED BY <2>2, <2>4 DEF StatusInv, StatusIs
<1> QED BY <1>1, <1>2, <1>3

LEMMA FilesType == Files \subseteq [exists : BOOLEAN, data : Nat, error : {0}]
<1>1. 0..MaxFile \subseteq Nat
  BY ExecutorAssumption
<1>2. NoFile \in [exists : BOOLEAN, data : Nat, error : {0}]
  BY DEF NoFile
<1>3. ASSUME NEW f \in [exists : {TRUE}, data : 0..MaxFile, error : {0}]
      PROVE  f \in [exists : BOOLEAN, data : Nat, error : {0}]
  BY <1>1
<1> QED BY <1>2, <1>3 DEF Files

LEMMA IdleTells ==
  ASSUME StatusInv, Return \/ ChangeFile
  PROVE  (StatusInv /\ Told)'
<1>1. ASSUME Return PROVE (StatusInv /\ Told)'
  <2>1. /\ pc' = "idle" /\ peer' = "none" /\ response_headers_' = <<>>
        /\ tmp_status_code_' = 0 /\ UNCHANGED file
    BY <1>1 DEF Return
  <2>2. ParseStatusLine(response_headers_') = 0 /\ response_headers_' \in Seq(Lines)
    BY <2>1, NoStatusLine
  <2> QED BY <2>1, <2>2, NothingToTell DEF StatusInv, StatusIs
<1>2. ASSUME ChangeFile PROVE (StatusInv /\ Told)'
  <2>1. /\ pc = "idle" /\ UNCHANGED <<pc, response_headers_, tmp_status_code_, peer, origin>>
        /\ file' \in Files
    BY <1>2 DEF ChangeFile, handlerVars, wireVars
  <2>2. Files \subseteq [exists : BOOLEAN, data : Nat, error : {0}]
    BY FilesType
  <2>3. pc' # "return"
    BY <2>1
  <2> QED BY <2>1, <2>2, <2>3, NothingToTell DEF StatusInv, StatusIs
<1> QED BY <1>1, <1>2

LEMMA StatusInit == Init => StatusInv /\ Told
<1> SUFFICES ASSUME Init PROVE StatusInv /\ Told
  OBVIOUS
<1>1. /\ pc = "idle" /\ peer = "none" /\ response_headers_ = <<>>
      /\ tmp_status_code_ = 0 /\ file \in Files
  BY DEF Init
<1>2. Files \subseteq [exists : BOOLEAN, data : Nat, error : {0}]
  BY FilesType
<1>3. ParseStatusLine(response_headers_) = 0 /\ response_headers_ \in Seq(Lines)
  BY <1>1, NoStatusLine
<1>4. Told
  BY <1>1 DEF Told, OkIsAnswered, ErrorIsReported, Succeeded
<1> QED BY <1>1, <1>2, <1>3, <1>4 DEF StatusInv, StatusIs

LEMMA StatusInductive ==
  ASSUME OneVersion
  PROVE  StatusInv /\ Told /\ [Next]_vars => (StatusInv /\ Told)'
<1> SUFFICES ASSUME StatusInv, Told, [Next]_vars PROVE (StatusInv /\ Told)'
  OBVIOUS
<1>1. ASSUME NEW m \in Methods, NEW timeout \in Timeouts, Start(m, timeout)
      PROVE  (StatusInv /\ Told)'
  BY <1>1, StartTells
<1>2. CASE Opening
  BY <1>2, OpeningTells
<1>3. CASE Network
  <2>1. ASSUME NEW version \in Versions, NEW code \in Codes, NEW n \in 0..MaxFile,
               NEW framed \in BOOLEAN, Answer(version, code, n, framed)
        PROVE  (StatusInv /\ Told)'
    BY <2>1, AnswerTells
  <2> QED BY <1>3, <2>1, ProgressTells, EndTells DEF Network, Breaks
<1>4. CASE TimesOut
  BY <1>4, EndTells DEF TimesOut
<1>5. CASE Return \/ ChangeFile
  BY <1>5, IdleTells
<1>6. CASE UNCHANGED vars
  <2>1. UNCHANGED <<pc, call, result, response_headers_, tmp_status_code_, file,
                    peer, origin, received>>
    BY <1>6 DEF vars, handlerVars, wireVars
  <2> QED BY <2>1 DEF StatusInv, StatusIs, Told, OkIsAnswered, ErrorIsReported, Succeeded
<1> QED BY <1>1, <1>2, <1>3, <1>4, <1>5, <1>6 DEF Next

LEMMA StatusInvariant ==
  ASSUME OneVersion
  PROVE  Spec => [](StatusInv /\ Told)
  BY StatusInit, StatusInductive, PTL DEF Spec

(* Where every status line starts with "HTTP/1.1", success means that the  *)
(* server itself answered 2xx and that the body it framed is complete:     *)
(* neither a proxy's CONNECT nor a 100 is taken for its answer.            *)
THEOREM OkIsTheServers ==
  ASSUME OneVersion
  PROVE  Spec => []OkIsAnswered
  BY StatusInvariant, PTL DEF Told

(* Under the same assumption an error the server or the proxy has answered *)
(* with reaches the caller, whatever becomes of the transfer afterwards.   *)
THEOREM ErrorsAreReported ==
  ASSUME OneVersion
  PROVE  Spec => []ErrorIsReported
  BY StatusInvariant, PTL DEF Told

(* And nothing but the file asked for is ever written to the target.       *)
THEOREM FilesAreClean ==
  ASSUME OneVersion
  PROVE  Spec => []NoErrorInFile
<1>1. StatusInv => NoErrorInFile
  BY DEF StatusInv, NoErrorInFile
<1> QED BY <1>1, StatusInvariant, PTL
-----------------------------------------------------------------------------
(* Downloads.  The file grows with what is received, X-Content-Length is   *)
(* that of the last response, and where an int can hold the size of every  *)
(* file the comparison of the two is exact.                                *)
SmallFiles == MaxFile <= IntMax

LEMMA ToIntExact ==
  ASSUME SmallFiles, NEW n \in 0..MaxFile
  PROVE  ToInt(n) = n /\ \A value \in Atoi(n) : value = n
<1> DEFINE k == 2 * (IntMax + 1)
<1>1. IntMax \in Nat /\ MaxFile \in Nat /\ MaxFile <= IntMax
  BY ExecutorAssumption DEF SmallFiles
<1>2. k \in Nat \ {0} /\ n + IntMax + 1 \in 0..(k - 1)
  BY <1>1
<1>3. ASSUME NEW d \in Nat \ {0}, NEW x \in 0..(d - 1) PROVE x % d = x
  OBVIOUS
<1>4. (n + IntMax + 1) % k = n + IntMax + 1
  BY <1>2, <1>3
<1>5. ToInt(n) = n
  BY <1>1, <1>4 DEF ToInt
<1> QED BY <1>1, <1>5 DEF Atoi

Downloading == pc = "perform" /\ call.op = "ExecuteFileDownload"

DownloadInv ==
  /\ peer # "body" => received = 0
  /\ peer = "body" => origin.size \in 0..MaxFile /\ received \in 0..origin.size
  /\ peer # "body" => XContentLength(response_headers_) = {}
  /\ \A n \in XContentLength(response_headers_) : n = origin.size
  /\ Downloading => file.exists = TRUE /\ file.data <= received

(* What validates a download is what DownloadIsWhole says.                 *)
LEMMA FinishIsWhole ==
  ASSUME SmallFiles, StatusInv, DownloadInv, pc = "perform",
         NEW code \in ResultCodes, Finish(code), UNCHANGED <<origin, file>>,
         code = "NB_OK" => peer = "body"
  PROVE  DownloadIsWhole'
<1> SUFFICES ASSUME call.op = "ExecuteFileDownload", result'.code = "NB_OK"
             PROVE  file = [exists |-> TRUE, data |-> origin.size, error |-> 0]
  BY DEF DownloadIsWhole, Succeeded, Finish
<1> DEFINE made == MakeResult(response_headers_, code)
<1>1. /\ made \in [code : ResultCodes, status : Nat]
      /\ made.code = "NB_OK" => code = "NB_OK"
  BY StatusIsNat, MakeResultTells
<1>2. made.code = "NB_OK" /\ peer = "body" /\ ValidateFileSize(response_headers_, file, TRUE)
  <2> HIDE DEF made
  <2>1. \/ result' = made /\ made.code # "NB_OK"
        \/ /\ made.code = "NB_OK"
           /\ \E valid \in BOOLEAN :
                /\ ValidateFileSize(response_headers_, file, valid)
                /\ result' = IF valid THEN made
                             ELSE [made EXCEPT !.code = "NB_ERROR_FILE_DOWNLOAD"]
    BY DEF Finish, made
  <2>2. [made EXCEPT !.code = "NB_ERROR_FILE_DOWNLOAD"].code = "NB_ERROR_FILE_DOWNLOAD"
    BY <1>1
  <2>3. made.code = "NB_OK" /\ ValidateFileSize(response_headers_, file, TRUE)
    BY <2>1, <2>2
  <2> QED BY <1>1, <2>3
<1>3. PICK n \in XContentLength(response_headers_) :
        \E value \in Atoi(n) : value = GetFileSize(file)
  BY <1>2 DEF ValidateFileSize
<1>4. n = origin.size /\ n \in 0..MaxFile
  BY <1>2, <1>3 DEF DownloadInv
<1>5. GetFileSize(file) = n
  BY <1>3, <1>4, ToIntExact
<1>6. /\ file \in [exists : BOOLEAN, data : Nat, error : {0}] /\ file.exists = TRUE
      /\ file.data \in 0..MaxFile
  <2>1. file \in [exists : BOOLEAN, data : Nat, error : {0}]
    BY DEF StatusInv
  <2>2. file.exists = TRUE /\ file.data <= received /\ received \in 0..n
    BY <1>2, <1>4 DEF DownloadInv, Downloading
  <2> QED BY <1>4, <2>1, <2>2, ExecutorAssumption
<1>7. Size(file) = file.data
  BY <1>6 DEF Size
<1>8. file.data = origin.size
  BY <1>4, <1>5, <1>6, <1>7, ToIntExact DEF GetFileSize
<1> QED BY <1>6, <1>8

Whole == DownloadInv /\ DownloadIsWhole

LEMMA NothingDownloaded ==
  ASSUME pc' # "return" \/ result'.code # "NB_OK" PROVE DownloadIsWhole'
  BY DEF DownloadIsWhole, Succeeded

LEMMA RefuseIsNotOk ==
  ASSUME StatusInv, peer = "none", NEW code \in ResultCodes, code # "NB_OK", Refuse(code)
  PROVE  result'.code # "NB_OK"
  BY StatusIsNat, MakeResultTells DEF Refuse

LEMMA StartIsWhole ==
  ASSUME StatusInv, DownloadInv, NEW m \in Methods, NEW timeout, Start(m, timeout)
  PROVE  Whole'
<1>0. "NB_ERROR_OPEN_FILE" \in ResultCodes \ {"NB_OK"} /\ "NB_FATAL" \in ResultCodes \ {"NB_OK"}
  BY DEF ResultCodes
<1>1. peer = "none" /\ peer' # "body" /\ UNCHANGED <<response_headers_, received, origin>>
  <2>1. pc = "idle"
    BY DEF Start, ExecuteRequest, DownloadOpenFails, ExecuteFileDownload,
           ExecuteFileUpload, Begin
  <2>2. peer = "none"
    BY <2>1 DEF StatusInv
  <2> QED BY <2>2 DEF Start, ExecuteRequest, DownloadOpenFails, ExecuteFileDownload,
             ExecuteFileUpload, Refuse, Execute, handlerVars, wireVars
<1>2. received = 0 /\ XContentLength(response_headers_) = {}
  BY <1>1 DEF DownloadInv
<1>3. ASSUME ExecuteRequest(m, timeout) PROVE Whole'
  <2>1. pc' = "perform" /\ call'.op = "ExecuteRequest"
    BY <1>3 DEF ExecuteRequest, Begin, Execute
  <2> QED BY <1>1, <1>2, <2>1, NothingDownloaded DEF Whole, DownloadInv, Downloading
<1>4. ASSUME DownloadOpenFails(m) PROVE Whole'
  <2>1. pc' = "return" /\ Refuse("NB_ERROR_OPEN_FILE")
    BY <1>4 DEF DownloadOpenFails, Refuse
  <2>2. result'.code # "NB_OK"
    BY <1>0, <1>1, <2>1, RefuseIsNotOk
  <2> QED BY <1>1, <1>2, <2>1, <2>2, NothingDownloaded DEF Whole, DownloadInv, Downloading
<1>5. ASSUME ExecuteFileDownload(m, timeout) PROVE Whole'
  <2>1. file' = [exists |-> TRUE, data |-> 0, error |-> 0]
    BY <1>5 DEF ExecuteFileDownload, NoFile
  <2>2. pc' = "perform" \/ Refuse("NB_FATAL")
    BY <1>5 DEF ExecuteFileDownload, Execute
  <2>3. pc' # "return" \/ result'.code # "NB_OK"
    BY <1>0, <1>1, <2>2, RefuseIsNotOk
  <2> QED BY <1>1, <1>2, <2>1, <2>3, NothingDownloaded DEF Whole, DownloadInv, Downloading
<1>6. ASSUME ExecuteFileUpload(m) PROVE Whole'
  <2>1. pc' = "open"
    BY <1>6 DEF ExecuteFileUpload
  <2> QED BY <1>1, <1>2, <2>1, NothingDownloaded DEF Whole, DownloadInv, Downloading
<1> QED BY <1>3, <1>4, <1>5, <1>6 DEF Start

LEMMA OpeningIsWhole ==
  ASSUME StatusInv, HandleInv, DownloadInv, Opening
  PROVE  Whole'
<1>1. /\ peer = "none" /\ peer' # "body" /\ call' = call /\ call.op = "ExecuteFileUpload"
      /\ UNCHANGED <<response_headers_, received, origin>>
  <2>1. pc = "open" /\ call' = call
    BY DEF Opening, UploadOpenFails, UploadOpen
  <2>2. peer = "none" /\ call.op = "ExecuteFileUpload"
    BY <2>1 DEF StatusInv, HandleInv
  <2> QED BY <2>1, <2>2 DEF Opening, UploadOpenFails, UploadOpen, Refuse, Execute, wireVars
<1>2. received = 0 /\ XContentLength(response_headers_) = {}
  BY <1>1 DEF DownloadInv
<1> QED BY <1>1, <1>2 DEF Whole, DownloadInv, Downloading, DownloadIsWhole

(* The file and what was received, while header lines arrive.              *)
LEMMA HeadersAreWhole ==
  ASSUME OneVersion, StatusInv, DownloadInv,
         \/ TunnelOpened \/ TunnelRefused \/ Continue
         \/ \E version \in Versions, code \in Codes, n \in 0..MaxFile, framed \in BOOLEAN :
              Answer(version, code, n, framed)
  PROVE  Whole'
<1>1. ASSUME NEW c \in Nat, WriteHeaderCallback(<<Line("HTTP/1.1", c)>>),
             Performing({"proxy", "origin"}), peer' # "body"
      PROVE  Whole'
  <2>1. /\ pc = "perform" /\ pc' = "perform" /\ peer # "body"
        /\ UNCHANGED <<call, file, received>>
    BY <1>1 DEF WriteHeaderCallback, Performing
  <2>2. XContentLength(response_headers_') = {}
    BY <1>1, StatusLineAlone
  <2> QED BY <1>1, <2>1, <2>2, NothingDownloaded DEF Whole, DownloadInv, Downloading
<1>2. CASE TunnelOpened \/ TunnelRefused \/ Continue
  <2>1. Performing({"proxy", "origin"}) /\ peer' # "body"
    BY <1>2 DEF TunnelOpened, TunnelRefused, Continue, Performing
  <2>2. \E c \in {200, 407, 100} : WriteHeaderCallback(<<Line("HTTP/1.1", c)>>)
    BY <1>2 DEF TunnelOpened, TunnelRefused, Continue
  <2> QED BY <1>1, <2>1, <2>2
<1>3. ASSUME NEW version \in Versions, NEW code \in Codes, NEW n \in 0..MaxFile,
             NEW framed \in BOOLEAN, Answer(version, code, n, framed)
      PROVE  Whole'
  <2>1. /\ pc = "perform" /\ pc' = "perform" /\ peer # "body" /\ peer' = "body"
        /\ origin'.size = n /\ UNCHANGED <<call, file, received>>
    BY <1>3 DEF Answer, Performing, WriteHeaderCallback
  <2>2. PICK fields \in Fields(n) :
          response_headers_' = AfterReply(response_headers_, code, fields)
    <3>1. version = "HTTP/1.1"
      BY DEF OneVersion
    <3> QED BY <1>3, <3>1 DEF Answer, WriteHeaderCallback, AfterReply, Fields
  <2>3. \A x \in XContentLength(response_headers_') : x = n
    <3>1. response_headers_ \in Seq(Lines) /\ code \in Nat /\ n \in Nat
      BY ExecutorAssumption DEF StatusInv
    <3> QED BY <2>2, <3>1, LastReply
  <2>4. received = 0 /\ 0 \in 0..n
    BY <2>1, ExecutorAssumption DEF DownloadInv
  <2> QED BY <2>1, <2>3, <2>4, NothingDownloaded DEF Whole, DownloadInv, Downloading
<1> QED BY <1>2, <1>3

LEMMA BodyIsWhole ==
  ASSUME StatusInv, DownloadInv, ReadCallback \/ WriteCallback
  PROVE  Whole'
<1>1. ASSUME ReadCallback PROVE Whole'
  <2>1. pc' = "perform" /\ pc = "perform"
        /\ UNCHANGED <<call, response_headers_, file, peer, origin, received>>
    BY <1>1 DEF ReadCallback, Performing
  <2> QED BY <2>1, NothingDownloaded DEF Whole, DownloadInv, Downloading
<1>2. ASSUME WriteCallback PROVE Whole'
  <2>1. /\ pc' = "perform" /\ pc = "perform" /\ peer = "body"
        /\ received < origin.size /\ received' = received + 1
        /\ UNCHANGED <<call, response_headers_, peer, origin>>
    BY <1>2 DEF WriteCallback, BodyArrives, Performing
  <2>2. origin.size \in 0..MaxFile /\ received' \in 0..origin.size /\ received \in Nat
    BY <2>1, ExecutorAssumption DEF DownloadInv
  <2>3. ASSUME Downloading PROVE file'.exists = TRUE /\ file'.data <= received'
    <3>1. file \in [exists : BOOLEAN, data : Nat, error : {0}]
      BY DEF StatusInv
    <3>2. file.exists = TRUE /\ file.data <= received
      BY <2>3 DEF DownloadInv
    <3>3. \/ file' = file \/ file' = [file EXCEPT !.data = @ + 1]
          \/ file' = [file EXCEPT !.error = @ + 1]
      BY <1>2 DEF WriteCallback, WriteToMemory, Write
    <3> QED BY <2>1, <2>2, <3>1, <3>2, <3>3
  <2> QED BY <2>1, <2>2, <2>3, NothingDownloaded DEF Whole, DownloadInv, Downloading
<1> QED BY <1>1, <1>2

LEMMA EndIsWhole ==
  ASSUME SmallFiles, StatusInv, DownloadInv, WriteFails \/ Complete \/ Fail
  PROVE  Whole'
<1>1. PICK code \in ResultCodes : Finish(code) /\ (code = "NB_OK" => peer = "body")
  <2>1. ASSUME WriteFails
        PROVE  \E code \in ResultCodes : Finish(code) /\ (code = "NB_OK" => peer = "body")
    <3>1. "NB_ERROR_CURL_RUNTIME" \in ResultCodes /\ "NB_ERROR_CURL_RUNTIME" # "NB_OK"
      BY DEF ResultCodes, CurlErrors
    <3> QED BY <2>1, <3>1 DEF WriteFails
  <2>2. ASSUME Complete
        PROVE  \E code \in ResultCodes : Finish(code) /\ (code = "NB_OK" => peer = "body")
    <3>1. "NB_OK" \in ResultCodes
      BY DEF ResultCodes
    <3> QED BY <2>2, <3>1 DEF Complete, Performing
  <2>3. ASSUME Fail
        PROVE  \E code \in ResultCodes : Finish(code) /\ (code = "NB_OK" => peer = "body")
    <3>1. \A code \in CurlErrors : code \in ResultCodes /\ code # "NB_OK"
      BY DEF ResultCodes, CurlErrors
    <3> QED BY <2>3, <3>1 DEF Fail
  <2> QED BY <2>1, <2>2, <2>3
<1>2. /\ pc = "perform" /\ pc' = "return"
      /\ UNCHANGED <<file, peer, origin, received, response_headers_>>
  BY DEF WriteFails, Complete, Fail, Finish, Performing, wireVars
<1>3. DownloadIsWhole'
  BY <1>1, <1>2, FinishIsWhole
<1> QED BY <1>2, <1>3 DEF Whole, DownloadInv, Downloading

LEMMA NoFields == XContentLength(<<>>) = {}
<1>1. SearchStatusLine(<<>>) = 0
  BY DEF SearchStatusLine, SelectLastInSeq
<1> QED BY <1>1 DEF XContentLength

LEMMA IdleIsWhole ==
  ASSUME StatusInv, DownloadInv, Return \/ ChangeFile
  PROVE  Whole'
<1>1. ASSUME Return PROVE Whole'
  <2>1. /\ pc' = "idle" /\ peer' = "none" /\ response_headers_' = <<>> /\ received' = 0
    BY <1>1 DEF Return
  <2> QED BY <2>1, NoFields, NothingDownloaded DEF Whole, DownloadInv, Downloading
<1>2. ASSUME ChangeFile PROVE Whole'
  <2>1. pc' = "idle" /\ UNCHANGED <<response_headers_, peer, origin, received>>
    BY <1>2 DEF ChangeFile, handlerVars, wireVars
  <2> QED BY <2>1, NothingDownloaded DEF Whole, DownloadInv, Downloading
<1> QED BY <1>1, <1>2

LEMMA WholeInductive ==
  ASSUME OneVersion, SmallFiles
  PROVE  StatusInv /\ HandleInv /\ Whole /\ [Next]_vars => Whole'
<1> SUFFICES ASSUME StatusInv, HandleInv, Whole, [Next]_vars PROVE Whole'
  OBVIOUS
<1>0. DownloadInv
  BY DEF Whole
<1>1. ASSUME NEW m \in Methods, NEW timeout \in Timeouts, Start(m, timeout)
      PROVE  Whole'
  BY <1>0, <1>1, StartIsWhole
<1>2. CASE Opening
  BY <1>0, <1>2, OpeningIsWhole
<1>3. CASE Network
  BY <1>0, <1>3, HeadersAreWhole, BodyIsWhole, EndIsWhole DEF Network, Breaks
<1>4. CASE TimesOut
  BY <1>0, <1>4, EndIsWhole DEF TimesOut
<1>5. CASE Return \/ ChangeFile
  BY <1>0, <1>5, IdleIsWhole
<1>6. CASE UNCHANGED vars
  <2>1. UNCHANGED <<pc, call, result, response_headers_, file, peer, origin, received>>
    BY <1>6 DEF vars, handlerVars, wireVars
  <2> QED BY <2>1 DEF Whole, DownloadInv, Downloading, DownloadIsWhole, Succeeded
<1> QED BY <1>1, <1>2, <1>3, <1>4, <1>5, <1>6 DEF Next

(* Where an int can hold the size of every file, a download that reports   *)
(* success has written the whole file, framed or not: X-Content-Length is  *)
(* compared with what is on the disk.                                      *)
THEOREM DownloadsAreWhole ==
  ASSUME OneVersion, SmallFiles
  PROVE  Spec => []DownloadIsWhole
<1>1. Init => HandleInv
  BY DEF Init, HandleInv, HandleIsOwn
<1>2. Init => Whole
  BY NoFields DEF Init, Whole, DownloadInv, Downloading, DownloadIsWhole, Succeeded
<1>3. Whole => DownloadIsWhole
  BY DEF Whole
<1> QED BY <1>1, <1>2, <1>3, HandleInvInductive, WholeInductive, StatusInvariant,
           PTL DEF Spec
-----------------------------------------------------------------------------
(* The type invariant, and that uploads are whole, on top of what was      *)
(* shown of status codes.                                                  *)
Easy   == [options : SUBSET Options, dangling : SUBSET Callbacks, timeout : Nat]
Result == [code : ResultCodes, status : Nat]
Origin == [code : Codes \cup {0}, size : 0..MaxFile, framed : BOOLEAN, stored : Nat]

(* The types that StatusInv does not settle.  What is written, to memory   *)
(* or to the file, has been received, and that is part of the response.    *)
RestOK ==
  /\ curlpp_easy_ \in Easy
  /\ pc \in {"idle", "open", "perform", "return"}
  /\ call \in [op : Offered, method : Methods] \cup {NoCall}
  /\ result \in Result
  /\ file_stream_ \in {"closed", "good", "eof", "bad"}
  /\ file_size \in -(IntMax + 1)..IntMax
  /\ origin \in Origin /\ sent \in 0..MaxFile

Counts ==
  /\ received \in Nat /\ received <= origin.size /\ (peer # "body" => received = 0)
  /\ response_body_ \in Nat /\ response_body_ <= received
  /\ file.data <= MaxFile
  /\ Downloading => file.data <= received

(* An upload is announced with the length of its file, and what the server *)
(* stores is what was announced.                                           *)
Uploading == call.op = "ExecuteFileUpload"

Announced ==
  /\ pc = "idle" => call = NoCall
  /\ Uploading => file_size = GetFileSize(file)
  /\ Uploading /\ pc = "perform" => "Content-Length" \in curlpp_easy_.options
  /\ Uploading /\ peer = "body" /\ Success(origin.code) => origin.stored = file_size

UploadInv == RestOK /\ Counts /\ Announced
-----------------------------------------------------------------------------
LEMMA NumbersAre == MaxFile \in Nat /\ IntMax \in Nat /\ Codes \subseteq 200..599 /\ Timeouts \subseteq Int
BY ExecutorAssumption

LEMMA ToIntIsInt == ASSUME NEW n \in Nat PROVE ToInt(n) \in -(IntMax + 1)..IntMax
<1> DEFINE k == 2 * (IntMax + 1)
<1>1. k \in Nat \ {0} /\ n + IntMax + 1 \in Nat
  BY NumbersAre
<1>2. ASSUME NEW d \in Nat \ {0}, NEW x \in Nat PROVE x % d \in 0..(d - 1)
  OBVIOUS
<1>3. (n + IntMax + 1) % k \in 0..(k - 1)
  BY <1>1, <1>2
<1> QED BY <1>3, NumbersAre DEF ToInt

LEMMA FilesFit == ASSUME NEW f \in Files PROVE f.data <= MaxFile
<1>1. CASE f = NoFile
  BY <1>1, NumbersAre DEF NoFile
<1>2. CASE f \in [exists : {TRUE}, data : 0..MaxFile, error : {0}]
  BY <1>2, NumbersAre
<1> QED BY <1>1, <1>2 DEF Files

LEMMA SetOptIsEasy ==
  ASSUME NEW easy \in Easy, NEW options \in SUBSET Options
  PROVE  SetOpt(easy, options) \in Easy
BY DEF SetOpt, Easy

LEMMA SetOptCommonIsEasy ==
  ASSUME NEW easy, NEW timeout \in Timeouts
  PROVE  SetOptCommon(easy, timeout) \in Easy
<1>1. timeout \in Int
  BY NumbersAre
<1>2. NewHandle \in Easy /\ {"HeaderFunction"} \in SUBSET Options
  BY DEF NewHandle, Easy, Options, Callbacks
<1>3. SetOpt(NewHandle, {"HeaderFunction"}) \in Easy
  BY <1>2, SetOptIsEasy
<1>4. (IF timeout < 0 THEN 60 ELSE timeout) \in Nat
  BY <1>1
<1> QED BY <1>3, <1>4 DEF SetOptCommon, Easy

LEMMA OptionsAre ==
  ASSUME NEW m \in Methods
  PROVE  /\ MethodOptions(m) \in SUBSET Options /\ UploadOptions(m) \in SUBSET Options
         /\ "Content-Length" \in UploadOptions(m)
BY DEF MethodOptions, UploadOptions, Options, Methods

LEMMA RefuseIsResult ==
  ASSUME StatusInv, NEW code \in ResultCodes, Refuse(code)
  PROVE  result' \in Result
BY StatusIsNat, MakeResultTells DEF Refuse, Result

LEMMA FinishIsResult ==
  ASSUME StatusInv, NEW code \in ResultCodes, Finish(code)
  PROVE  result' \in Result
<1> DEFINE made == MakeResult(response_headers_, code)
<1>1. made \in Result
  BY StatusIsNat, MakeResultTells DEF Result
<1>2. result' = made \/ result' = [made EXCEPT !.code = "NB_ERROR_FILE_DOWNLOAD"]
  BY DEF Finish
<1>3. "NB_ERROR_FILE_DOWNLOAD" \in ResultCodes
  BY DEF ResultCodes
<1> QED BY <1>1, <1>2, <1>3 DEF Result

(* What StatusInv and UploadInv say together.                              *)
LEMMA UploadInvIsTypeOK == StatusInv /\ UploadInv => TypeOK
<1> SUFFICES ASSUME StatusInv, UploadInv PROVE TypeOK
  OBVIOUS
<1> DEFINE R == [name : Versions \cup {"HTTP/1.1", "X-Content-Length"}, value : Nat]
<1>1. response_headers_ \in Seq(R)
  <2>1. response_headers_ \in Seq(Lines)
    BY DEF StatusInv
  <2>2. Lines \subseteq R
    BY DEF Lines
  <2> HIDE DEF R
  <2> QED BY <2>1, <2>2
<1>2. tmp_status_code_ \in {0, 200} \cup Codes
  BY DEF StatusInv, StatusIs
<1>3. origin.size \in 0..MaxFile
  BY DEF UploadInv, RestOK, Origin
<1>4. received \in 0..MaxFile /\ response_body_ \in 0..MaxFile
  BY <1>3, NumbersAre DEF UploadInv, Counts
<1>5. file \in [exists : BOOLEAN, data : 0..MaxFile, error : 0..MaxFile]
  <2>1. file \in [exists : BOOLEAN, data : Nat, error : {0}] /\ file.data <= MaxFile
    BY DEF StatusInv, UploadInv, Counts
  <2>2. file.data \in 0..MaxFile /\ 0 \in 0..MaxFile
    BY <2>1, NumbersAre
  <2> QED BY <2>1, <2>2
<1> QED BY <1>1, <1>2, <1>4, <1>5
      DEF UploadInv, RestOK, StatusInv, TypeOK, HandlerTypeOK, Easy, Result, Origin
-----------------------------------------------------------------------------
LEMMA InitUploadInv == Init => UploadInv
<1> SUFFICES ASSUME Init PROVE UploadInv
  OBVIOUS
<1>1. NewHandle \in Easy /\ NoResult \in Result /\ NoAnswer \in Origin
  BY NumbersAre DEF NewHandle, NoResult, NoAnswer, Easy, Result, Origin, ResultCodes
<1>2. file.data <= MaxFile
  BY FilesFit DEF Init
<1>3. NoCall.op = "none" /\ NoAnswer.size = 0
  BY DEF NoCall, NoAnswer
<1> QED BY <1>1, <1>2, <1>3, NumbersAre
      DEF Init, UploadInv, RestOK, Counts, Announced, Uploading, Downloading

LEMMA StartUploads ==
  ASSUME StatusInv, UploadInv, NEW m \in Methods, NEW timeout \in Timeouts, Start(m, timeout)
  PROVE  UploadInv'
<1> USE NumbersAre
<1>0. /\ pc = "idle" /\ peer = "none" /\ received = 0 /\ response_body_ = 0
      /\ UNCHANGED <<origin, sent, received, response_body_>> /\ peer' # "body"
  <2>1. pc = "idle"
    BY DEF Start, ExecuteRequest, DownloadOpenFails, ExecuteFileDownload,
           ExecuteFileUpload, Begin
  <2>2. peer = "none" /\ received = 0 /\ response_body_ = 0
    BY <2>1 DEF StatusInv, UploadInv, Counts
  <2>3. UNCHANGED <<origin, sent, received, response_body_>>
    BY DEF Start, ExecuteRequest, DownloadOpenFails, ExecuteFileDownload,
           ExecuteFileUpload, Refuse, Execute, handlerVars, wireVars
  <2>4. peer' # "body"
    BY <2>2 DEF Start, ExecuteRequest, DownloadOpenFails, ExecuteFileDownload,
           ExecuteFileUpload, Refuse, Execute, wireVars
  <2> QED BY <2>1, <2>2, <2>3, <2>4
<1>1. ASSUME NEW o \in Executions, Begin(o, m)
      PROVE  call'.op = o /\ call' \in [op : Offered, method : Methods] \cup {NoCall}
  BY <1>1 DEF Begin
<1>2. ASSUME ExecuteRequest(m, timeout) PROVE UploadInv'
  <2>1. curlpp_easy_' \in Easy
    <3>1. {"WriteFunction"} \cup MethodOptions(m) \in SUBSET Options
      BY OptionsAre DEF Options, Callbacks
    <3> QED BY <1>2, <3>1, SetOptCommonIsEasy, SetOptIsEasy DEF ExecuteRequest
  <2>2. /\ call'.op = "ExecuteRequest" /\ pc' = "perform"
        /\ call' \in [op : Offered, method : Methods] \cup {NoCall}
        /\ UNCHANGED <<result, file_stream_, file_size, file>>
    BY <1>1, <1>2 DEF ExecuteRequest, Execute, handlerVars, Executions
  <2> QED BY <1>0, <2>1, <2>2 DEF UploadInv, RestOK, Counts, Announced, Uploading, Downloading
<1>3. ASSUME DownloadOpenFails(m) PROVE UploadInv'
  <2>1. result' \in Result
    BY <1>3, RefuseIsResult DEF DownloadOpenFails, ResultCodes
  <2>2. /\ call'.op = "ExecuteFileDownload" /\ pc' = "return" /\ file_stream_' = "bad"
        /\ call' \in [op : Offered, method : Methods] \cup {NoCall}
        /\ UNCHANGED <<curlpp_easy_, file_size, file>>
    BY <1>1, <1>3 DEF DownloadOpenFails, Refuse, Executions
  <2> QED BY <1>0, <2>1, <2>2 DEF UploadInv, RestOK, Counts, Announced, Uploading, Downloading
<1>4. ASSUME ExecuteFileDownload(m, timeout) PROVE UploadInv'
  <2>1. curlpp_easy_' \in Easy
    <3>1. {"WriteFunction"} \in SUBSET Options /\ {"HttpGet"} \in SUBSET Options
      BY DEF Options, Callbacks
    <3> QED BY <1>4, <3>1, SetOptCommonIsEasy, SetOptIsEasy DEF ExecuteFileDownload
  <2>2. result' \in Result
    <3>1. UNCHANGED result \/ Refuse("NB_FATAL")
      BY <1>4 DEF ExecuteFileDownload, Execute
    <3> QED BY <3>1, RefuseIsResult DEF UploadInv, RestOK, ResultCodes
  <2>3. /\ call'.op = "ExecuteFileDownload" /\ pc' \in {"perform", "return"}
        /\ call' \in [op : Offered, method : Methods] \cup {NoCall}
        /\ file_stream_' = "good" /\ file'.data = 0 /\ UNCHANGED file_size
    BY <1>1, <1>4 DEF ExecuteFileDownload, Execute, Refuse, NoFile, Executions
  <2> QED BY <1>0, <2>1, <2>2, <2>3 DEF UploadInv, RestOK, Counts, Announced, Uploading, Downloading
<1>5. ASSUME ExecuteFileUpload(m) PROVE UploadInv'
  <2>1. /\ call'.op = "ExecuteFileUpload" /\ pc' = "open"
        /\ call' \in [op : Offered, method : Methods] \cup {NoCall}
        /\ file_size' = GetFileSize(file)
        /\ UNCHANGED <<curlpp_easy_, result, file_stream_, file>>
    BY <1>1, <1>5 DEF ExecuteFileUpload, handlerVars, Executions
  <2>2. GetFileSize(file)' = GetFileSize(file)
    BY <2>1 DEF GetFileSize, Size
  <2>3. GetFileSize(file) \in -(IntMax + 1)..IntMax
    <3>1. Size(file) \in Nat
      BY DEF StatusInv, Size
    <3> QED BY <3>1, ToIntIsInt DEF GetFileSize
  <2> QED BY <1>0, <2>1, <2>2, <2>3
          DEF UploadInv, RestOK, Counts, Announced, Uploading, Downloading
<1> QED BY <1>2, <1>3, <1>4, <1>5 DEF Start

LEMMA OpeningUploads ==
  ASSUME StatusInv, HandleInv, UploadInv, Opening
  PROVE  UploadInv'
<1> USE NumbersAre
<1>0. /\ pc = "open" /\ peer = "none" /\ Uploading /\ file_stream_' \in {"good", "bad"}
      /\ UNCHANGED <<call, origin, sent, received, response_body_, file, file_size>>
      /\ peer' # "body" /\ pc' # "idle"
  <2>1. pc = "open"
    BY DEF Opening, UploadOpenFails, UploadOpen
  <2>2. peer = "none" /\ Uploading
    BY <2>1 DEF StatusInv, HandleInv, Uploading
  <2>3. ASSUME UploadOpenFails
        PROVE  /\ file_stream_' = "bad" /\ peer' = peer /\ pc' = "return"
               /\ UNCHANGED <<call, origin, sent, received, response_body_, file, file_size>>
    BY <2>3 DEF UploadOpenFails, Refuse, wireVars
  <2>4. ASSUME NEW timeout \in Timeouts, UploadOpen(timeout)
        PROVE  /\ file_stream_' = "good" /\ peer' \in {"none", "proxy", "origin"}
               /\ pc' \in {"perform", "return"}
               /\ UNCHANGED <<call, origin, sent, received, response_body_, file, file_size>>
    BY <2>2, <2>4 DEF UploadOpen, Refuse, Execute, wireVars
  <2> QED BY <2>1, <2>2, <2>3, <2>4 DEF Opening
<1>1. GetFileSize(file)' = GetFileSize(file)
  BY <1>0 DEF GetFileSize, Size
<1>2. ASSUME UploadOpenFails
      PROVE  UNCHANGED curlpp_easy_ /\ pc' = "return" /\ result' \in Result
  BY <1>2, RefuseIsResult DEF UploadOpenFails, Refuse, ResultCodes
<1>3. ASSUME NEW timeout \in Timeouts, UploadOpen(timeout)
      PROVE  /\ curlpp_easy_' \in Easy /\ pc' \in {"perform", "return"} /\ result' \in Result
             /\ pc' = "perform" => "Content-Length" \in curlpp_easy_'.options
  <2> DEFINE easy == SetOpt(SetOptCommon(curlpp_easy_, timeout), {"ReadFunction", "WriteFunction"})
  <2>1. easy \in Easy
    <3>1. {"ReadFunction", "WriteFunction"} \in SUBSET Options
      BY DEF Options, Callbacks
    <3> QED BY <3>1, SetOptCommonIsEasy, SetOptIsEasy
  <2>2. CASE call.method \in {"PUT", "POST"}
    <3>1. /\ curlpp_easy_' = SetOpt(easy, UploadOptions(call.method))
          /\ pc' = "perform" /\ result' = result
      BY <1>3, <2>2 DEF UploadOpen, Execute
    <3>2. /\ UploadOptions(call.method) \in SUBSET Options
          /\ "Content-Length" \in UploadOptions(call.method)
      BY <2>2, OptionsAre DEF Methods
    <3> HIDE DEF easy
    <3>3. curlpp_easy_' \in Easy
      BY <2>1, <3>1, <3>2, SetOptIsEasy
    <3>4. "Content-Length" \in curlpp_easy_'.options
      BY <2>1, <3>1, <3>2 DEF SetOpt, Easy
    <3> QED BY <3>1, <3>3, <3>4 DEF UploadInv, RestOK
  <2>3. CASE call.method \notin {"PUT", "POST"}
    <3>1. curlpp_easy_' = easy /\ pc' = "return" /\ Refuse("NB_FATAL")
      BY <1>3, <2>3 DEF UploadOpen, Refuse
    <3>2. result' \in Result
      BY <3>1, RefuseIsResult DEF ResultCodes
    <3> QED BY <2>1, <3>1, <3>2
  <2> QED BY <2>2, <2>3
<1>4. /\ curlpp_easy_' \in Easy /\ pc' \in {"perform", "return"} /\ result' \in Result
      /\ pc' = "perform" => "Content-Length" \in curlpp_easy_'.options
  BY <1>2, <1>3 DEF Opening, UploadInv, RestOK
<1> QED BY <1>0, <1>1, <1>4 DEF UploadInv, RestOK, Counts, Announced, Uploading, Downloading

(* While a transfer goes on the call, its handle and its result stay.      *)
LEMMA ProgressUploads ==
  ASSUME StatusInv, UploadInv,
         TunnelOpened \/ TunnelRefused \/ Continue \/ ReadCallback
  PROVE  UploadInv'
<1> USE NumbersAre
<1>1. /\ pc = "perform" /\ pc' = "perform" /\ peer # "body" /\ peer' # "body"
      /\ UNCHANGED <<curlpp_easy_, call, result, response_body_, file, file_size, origin, received>>
  BY DEF TunnelOpened, TunnelRefused, Continue, ReadCallback, Performing, WriteHeaderCallback
<1>2. file_stream_' \in {"closed", "good", "eof", "bad"} /\ sent' \in 0..MaxFile
  <2>1. CASE TunnelOpened \/ TunnelRefused \/ Continue
    BY <2>1 DEF TunnelOpened, TunnelRefused, Continue, WriteHeaderCallback, UploadInv, RestOK
  <2>2. CASE ReadCallback
    <3>1. Size(file) \in Nat /\ Size(file) <= MaxFile
      BY DEF StatusInv, UploadInv, Counts, Size
    <3>2. file_stream_' \in {"good", "eof", "bad"}
      BY <2>2 DEF ReadCallback
    <3>3. sent' = sent \/ (sent < Size(file) /\ sent' = sent + 1)
      BY <2>2 DEF ReadCallback
    <3>4. sent \in 0..MaxFile
      BY DEF UploadInv, RestOK
    <3> QED BY <3>1, <3>2, <3>3, <3>4
  <2> QED BY <2>1, <2>2
<1>3. GetFileSize(file)' = GetFileSize(file)
  BY <1>1 DEF GetFileSize, Size
<1> QED BY <1>1, <1>2, <1>3 DEF UploadInv, RestOK, Counts, Announced, Uploading, Downloading

LEMMA AnswerUploads ==
  ASSUME StatusInv, UploadInv, NEW version \in Versions, NEW code \in Codes,
         NEW n \in 0..MaxFile, NEW framed \in BOOLEAN, Answer(version, code, n, framed)
  PROVE  UploadInv'
<1> USE NumbersAre
<1> DEFINE accepted == call.op = "ExecuteFileUpload" /\ Success(code)
<1>1. /\ pc = "perform" /\ pc' = "perform" /\ peer # "body" /\ peer' = "body"
      /\ UNCHANGED <<curlpp_easy_, call, result, response_body_, file_stream_, file, file_size,
                     sent, received>>
      /\ origin' = [code |-> code, size |-> n, framed |-> framed,
                    stored |-> IF accepted THEN Stored ELSE 0]
      /\ accepted => Accepts
  BY DEF Answer, Performing, WriteHeaderCallback
<1>2. accepted => Stored = file_size /\ file_size \in Nat
  BY <1>1 DEF UploadInv, RestOK, Announced, Uploading, Accepts, Stored
<1>3. origin' \in Origin /\ origin'.size = n
  BY <1>1, <1>2 DEF Origin
<1>4. accepted => origin'.stored = file_size
  BY <1>1, <1>2
<1>5. origin'.code = code
  BY <1>1
<1>6. GetFileSize(file)' = GetFileSize(file)
  BY <1>1 DEF GetFileSize, Size
<1> QED BY <1>1, <1>3, <1>4, <1>5, <1>6
      DEF UploadInv, RestOK, Counts, Announced, Uploading, Downloading

LEMMA WriteUploads ==
  ASSUME StatusInv, UploadInv, WriteCallback
  PROVE  UploadInv'
<1> USE NumbersAre
<1>1. /\ pc = "perform" /\ pc' = "perform" /\ peer = "body" /\ peer' = "body"
      /\ received < origin.size /\ received' = received + 1
      /\ UNCHANGED <<curlpp_easy_, call, result, file_stream_, file_size, origin, sent>>
  BY DEF WriteCallback, BodyArrives, Performing
<1>2. /\ file \in [exists : BOOLEAN, data : Nat, error : {0}]
      /\ origin.size \in 0..MaxFile /\ received \in Nat
      /\ response_body_ \in Nat /\ response_body_ <= received
      /\ file.data <= MaxFile
      /\ Downloading => file.data <= received
  BY DEF StatusInv, UploadInv, RestOK, Origin, Counts
<1>3. /\ response_body_' \in Nat /\ response_body_' <= received'
      /\ \/ file' = file
         \/ Downloading /\ file' = [file EXCEPT !.data = @ + 1]
         \/ Downloading /\ file' = [file EXCEPT !.error = @ + 1]
  BY <1>1, <1>2 DEF WriteCallback, WriteToMemory, Write, Downloading
<1>4. file'.data <= MaxFile /\ (Downloading => file'.data <= received')
  BY <1>1, <1>2, <1>3
<1>5. Uploading => GetFileSize(file)' = GetFileSize(file)
  BY <1>3 DEF GetFileSize, Size, Downloading, Uploading
<1>6. Downloading' => Downloading
  BY <1>1 DEF Downloading
<1>7. RestOK'
  BY <1>1 DEF UploadInv, RestOK
<1>8. Counts'
  BY <1>1, <1>2, <1>3, <1>4, <1>6 DEF Counts
<1>9. Announced'
  BY <1>1, <1>5 DEF UploadInv, Announced, Uploading
<1> QED BY <1>7, <1>8, <1>9 DEF UploadInv

LEMMA EndUploads ==
  ASSUME StatusInv, UploadInv, WriteFails \/ Complete \/ Fail
  PROVE  UploadInv'
<1>1. /\ pc' = "return" /\ file_stream_' \in {file_stream_, "bad"}
      /\ UNCHANGED <<curlpp_easy_, call, response_body_, file, file_size,
                     peer, origin, sent, received>>
  BY DEF WriteFails, Complete, Fail, Finish, wireVars
<1>2. result' \in Result
  <2>1. PICK code \in ResultCodes : Finish(code)
    BY DEF WriteFails, Complete, Fail, ResultCodes, CurlErrors
  <2> QED BY <2>1, FinishIsResult
<1>3. GetFileSize(file)' = GetFileSize(file)
  BY <1>1 DEF GetFileSize, Size
<1> QED BY <1>1, <1>2, <1>3 DEF UploadInv, RestOK, Counts, Announced, Uploading, Downloading

LEMMA IdleUploads ==
  ASSUME StatusInv, UploadInv, Return \/ ChangeFile
  PROVE  UploadInv'
<1> USE NumbersAre
<1>0. NoCall.op = "none" /\ NoAnswer.size = 0 /\ NoAnswer \in Origin /\ NoResult \in Result
  BY DEF NoCall, NoAnswer, NoResult, Origin, Result, ResultCodes
<1>1. ASSUME Return PROVE UploadInv'
  <2>1. [curlpp_easy_ EXCEPT !.dangling = @ \cup (Callbacks \cap curlpp_easy_.options)] \in Easy
    BY DEF UploadInv, RestOK, Easy
  <2> QED BY <1>0, <1>1, <2>1
        DEF Return, UploadInv, RestOK, Counts, Announced, Uploading, Downloading
<1>2. ASSUME ChangeFile PROVE UploadInv'
  <2>1. /\ pc = "idle" /\ file'.data <= MaxFile
        /\ UNCHANGED <<curlpp_easy_, pc, call, result, response_body_, file_stream_, file_size,
                       peer, origin, sent, received>>
    BY <1>2, FilesFit DEF ChangeFile, handlerVars, wireVars
  <2> QED BY <1>0, <2>1 DEF UploadInv, RestOK, Counts, Announced, Uploading, Downloading
<1> QED BY <1>1, <1>2

LEMMA UploadInvInductive == StatusInv /\ HandleInv /\ UploadInv /\ [Next]_vars => UploadInv'
<1> SUFFICES ASSUME StatusInv, HandleInv, UploadInv, [Next]_vars PROVE UploadInv'
  OBVIOUS
<1>1. ASSUME NEW m \in Methods, NEW timeout \in Timeouts, Start(m, timeout)
      PROVE  UploadInv'
  BY <1>1, StartUploads
<1>2. CASE Opening
  BY <1>2, OpeningUploads
<1>3. CASE Network
  <2>1. ASSUME NEW version \in Versions, NEW code \in Codes, NEW n \in 0..MaxFile,
               NEW framed \in BOOLEAN, Answer(version, code, n, framed)
        PROVE  UploadInv'
    BY <2>1, AnswerUploads
  <2> QED BY <1>3, <2>1, ProgressUploads, WriteUploads, EndUploads DEF Network, Breaks
<1>4. CASE TimesOut
  BY <1>4, EndUploads DEF TimesOut
<1>5. CASE Return \/ ChangeFile
  BY <1>5, IdleUploads
<1>6. CASE UNCHANGED vars
  <2>1. UNCHANGED <<curlpp_easy_, pc, call, result, response_body_, file_stream_, file, file_size,
                    peer, origin, sent, received>>
    BY <1>6 DEF vars, handlerVars, wireVars
  <2>2. GetFileSize(file)' = GetFileSize(file)
    BY <2>1 DEF GetFileSize, Size
  <2> QED BY <2>1, <2>2 DEF UploadInv, RestOK, Counts, Announced, Uploading, Downloading
<1> QED BY <1>1, <1>2, <1>3, <1>4, <1>5, <1>6 DEF Next

LEMMA UploadInvariant ==
  ASSUME OneVersion
  PROVE  Spec => [](StatusInv /\ Told /\ UploadInv)
<1>1. Init => HandleInv
  BY DEF Init, HandleInv, HandleIsOwn
<1> QED BY <1>1, InitUploadInv, HandleInvInductive, UploadInvInductive, StatusInvariant,
           PTL DEF Spec
-----------------------------------------------------------------------------
(* Every variable has its type: nothing is written that was not received,  *)
(* nothing sent that the file does not have.                               *)
THEOREM TransferTypeOK ==
  ASSUME OneVersion
  PROVE  Spec => []TypeOK
  BY UploadInvariant, UploadInvIsTypeOK, PTL

(* Where an int can hold the size of every file, an upload that reports    *)
(* success has stored the whole file, whatever happened when it was read:  *)
(* the length announced is that of the file.                               *)
THEOREM UploadsAreWhole ==
  ASSUME OneVersion, SmallFiles
  PROVE  Spec => []UploadIsWhole
<1>1. StatusInv /\ Told /\ UploadInv => UploadIsWhole
  <2> SUFFICES ASSUME StatusInv, Told, UploadInv, Succeeded, Uploading
               PROVE  origin.stored = Size(file)
    BY DEF UploadIsWhole, Uploading
  <2>1. peer = "body" /\ Success(origin.code)
    BY DEF Told, OkIsAnswered
  <2>2. origin.stored = GetFileSize(file)
    BY <2>1 DEF UploadInv, Announced
  <2>3. Size(file) \in 0..MaxFile
    BY NumbersAre DEF StatusInv, UploadInv, Counts, Size
  <2> QED BY <2>2, <2>3, ToIntExact DEF GetFileSize
<1> QED BY <1>1, UploadInvariant, PTL
=============================================================================
