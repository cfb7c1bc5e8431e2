--------------------------- MODULE NbHttpHandler ---------------------------
(***************************************************************************)
(* The parser of received headers (src/src/internal/nb_http_handler.cc).   *)
(* libcurl hands over the header lines of every response of a transfer one *)
(* after the other: that of a proxy's CONNECT, an interim 100, the final   *)
(* one.  A line is reduced to what it starts with and a number: the HTTP   *)
(* version and status code of a status line, X-Content-Length and its      *)
(* value.  Other fields, reason phrases and blank lines are left out.      *)
(***************************************************************************)
EXTENDS Integers, Sequences, SequencesExt

Line(name, value) == [name |-> name, value |-> value]

FirstStatusLine(response_headers_) ==      \* SearchStatusLine, forwards
  SelectInSeq(response_headers_, LAMBDA line : line.name = "HTTP/1.1")

(* The last line that starts with "HTTP/1.1 ", or 0 when there is none.    *)
SearchStatusLine(response_headers_) ==
  SelectLastInSeq(response_headers_, LAMBDA line : line.name = "HTTP/1.1")

(* The status code it carries, or 0.                                       *)
ParseStatusLine(response_headers_) ==
  LET i == SearchStatusLine(response_headers_)
  IN IF i = 0 THEN 0 ELSE response_headers_[i].value

(* Parse: the values of X-Content-Length after the status line.            *)
XContentLength(response_headers_) ==
  LET i == SearchStatusLine(response_headers_)
  IN {response_headers_[j].value : j \in
        {k \in DOMAIN response_headers_ :
           0 < i /\ i < k /\ response_headers_[k].name = "X-Content-Length"}}
=============================================================================
