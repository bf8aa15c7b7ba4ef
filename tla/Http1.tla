------------------------------- MODULE Http1 --------------------------------
(***************************************************************************)
(* The HTTP/1.1 sessions: Http1ServerSession, whose run() reads, parses,   *)
(* calls the handler for each parsed request and writes its response, and  *)
(* Http1ClientSession, whose request() writes one request and reads until  *)
(* a response is complete.                                                 *)
(*                                                                         *)
(* llhttp is fed whatever a read returned and calls the sessions back for  *)
(* each part of a message; the callbacks are steps of one fold.            *)
(***************************************************************************)
EXTENDS HttpTypes

VARIABLES
  h1,         \* the server's session; made, written: ghosts, the responses
              \* it composed and the bytes it put on the wire
  c1          \* the client's session; results: ghost, what request() returned

\* The bytes of message m.  A POST begins like the preface; the first header's
\* name has two bytes and the last header ends the block.
Headers(m) == << <<m, "name a">>, <<m, "name b">>, <<m, "value">>,
                 <<m, "name c">>, <<m, "value">> >>
Body(m) == << <<m, "body">>, <<m, "body end">> >>
Block(m, body) == IF body THEN <<<<m, "body follows">>>> \o Body(m) ELSE <<<<m, "end">>>>

SerializeRequest(rs, m) ==
  << IF rs[m].method = Post THEN <<0, "P">> ELSE <<m, "method">>, <<m, "url">> >>
    \o Headers(m) \o Block(m, rs[m].body)

-----------------------------------------------------------------------------
(* The callbacks.  A session aggregates the message it is in; the parser   *)
(* (external) is between messages, in one, past a message that ends the    *)
(* connection, or in error.                                                *)

OnMessageBegin(s) ==
  [s EXCEPT !.at = "message", !.url = <<>>, !.field = <<>>, !.value = <<>>,
            !.headers = <<>>, !.body = <<>>, !.reading = FALSE]

FinalizeHeaderIfReady(s) ==
  IF s.field = <<>> THEN s
  ELSE [s EXCEPT !.headers = Put(@, s.field, s.value), !.field = <<>>, !.value = <<>>]

OnHeaderField(s, t) ==
  LET f == IF s.reading THEN [FinalizeHeaderIfReady(s) EXCEPT !.reading = FALSE] ELSE s
  IN  [f EXCEPT !.field = Append(@, t)]

OnHeaderValue(s, t) == [s EXCEPT !.reading = TRUE, !.value = Append(@, t)]

OnHeadersComplete(s) == FinalizeHeaderIfReady(s)

OnBody(s, t) == [s EXCEPT !.body = Append(@, t)]

\* A message is queued with what it says about the connection; llhttp takes
\* nothing more after one that closes it.
OnMessageComplete(s, m, keep) ==
  [s EXCEPT !.at = IF keep THEN "start" ELSE "closed",
            !.pending = Append(@, [message |-> m, url |-> s.url, headers |-> s.headers,
                                   body |-> s.body, keep |-> keep])]

\* What llhttp makes of one byte.  Bytes it does not expect are an error, and
\* after an error it calls nothing back.
Callbacks(s, t, begins, keep) ==
  CASE t[2] \in begins /\ s.at = "start" -> OnMessageBegin(s)
    [] t[2] = "url" /\ s.at = "message" -> [s EXCEPT !.url = Append(@, t)]
    [] t[2] \in {"name a", "name b", "name c"} /\ s.at = "message" -> OnHeaderField(s, t)
    [] t[2] = "value" /\ s.at = "message" -> OnHeaderValue(s, t)
    [] t[2] = "body follows" /\ s.at = "message" -> OnHeadersComplete(s)
    [] t[2] = "body" /\ s.at = "message" -> OnBody(s, t)
    [] t[2] = "end" /\ s.at = "message" ->
         OnMessageComplete(OnHeadersComplete(s), t[1], keep)
    [] t[2] = "body end" /\ s.at = "message" -> OnMessageComplete(OnBody(s, t), t[1], keep)
    [] OTHER -> [s EXCEPT !.at = "error"]

RequestByte(s, t) ==
  Callbacks(s, t, {"P", "method"}, t[1] \in DOMAIN requests /\ ~requests[t[1]].close)

ProcessReceivedData(s, bytes) == FoldLeft(RequestByte, s, bytes)

\* The client's parser, of responses.  One that says 'connection: close' is the
\* session's last, so that what the parser would make of another is left out.
ResponseByte(s, t) == Callbacks(s, t, {"status"}, TRUE)

ProcessResponse(s, bytes) == FoldLeft(ResponseByte, s, bytes)

-----------------------------------------------------------------------------
(* The server's session.                                                   *)

NewServer1 ==
  [at |-> "start", url |-> <<>>, field |-> <<>>, value |-> <<>>, headers |-> <<>>,
   body |-> <<>>, reading |-> FALSE, pending |-> <<>>, pc |-> "new", phase |-> "initial",
   keepAlive |-> TRUE, current |-> 0, keep |-> TRUE, head |-> <<>>, rest |-> <<>>,
   made |-> <<>>, written |-> <<>>]

\* run() begins with the bytes the protocol was told from.  An error before
\* the loop returns without close(): the stream's destructor closes it.
Started1(initial) ==
  LET s == ProcessReceivedData(h1, initial)
  IN  [s EXCEPT !.pc = IF s.at = "error" THEN "return" ELSE "consume"]

TakeRequest1 ==
  /\ h1.pc = "consume" /\ h1.pending # <<>>
  /\ h1' = [h1 EXCEPT !.pc = "handle", !.pending = Tail(@),
                      !.current = Head(h1.pending).message, !.keep = Head(h1.pending).keep]
  /\ UNCHANGED <<wire, requests, c1>>

ConsumedAll1 ==
  /\ h1.pc = "consume" /\ h1.pending = <<>>
  /\ h1' = [h1 EXCEPT !.phase = "loop",
              !.pc = IF h1.phase # "eof" /\ h1.keepAlive THEN "read"
                     ELSE IF h1.phase = "initial" THEN "return" ELSE "close"]
  /\ UNCHANGED <<wire, requests, c1>>

\* The handler has answered: write_response composes the head; a response
\* with a body is written by write_v, one without by write_all.
Respond1(body) ==
  /\ h1.pc = "handle"
  /\ LET m == h1.current
     IN  h1' = [h1 EXCEPT !.pc = "write", !.made = Append(@, <<m, body>>),
                  !.head = <<<<m, "status">>>> \o Headers(m) \o SubSeq(Block(m, body), 1, 1),
                  !.rest = IF body THEN Body(m) ELSE <<>>]
  /\ UNCHANGED <<wire, requests, c1>>

\* Mutant of Advance: a short write that ends in the body skips the body's bytes.
AdvanceWrong(n) ==
  [h1 EXCEPT !.head = Rest(@, n), !.rest = IF n < Len(h1.head) THEN @ ELSE Rest(@, n)]

\* What remains after n bytes: the head is served first.
Advance(n) ==
  IF n < Len(h1.head) THEN [h1 EXCEPT !.head = Rest(@, n)]
  ELSE [h1 EXCEPT !.head = <<>>, !.rest = Rest(@, n - Len(h1.head))]

WriteResponse ==
  /\ h1.pc = "write"
  /\ LET bytes == h1.head \o h1.rest
         n == Fitting("down", bytes)
     IN  /\ CanSend("down", bytes)
         /\ wire' = Sent("down", bytes)
         /\ h1' = [Advance(n) EXCEPT !.written = @ \o SubSeq(bytes, 1, n)]
  /\ UNCHANGED <<requests, c1>>

Responded1 ==
  /\ h1.pc = "write" /\ h1.head \o h1.rest = <<>>
  /\ h1' = [h1 EXCEPT !.keepAlive = h1.keep, !.pc = "consume"]
  /\ UNCHANGED <<wire, requests, c1>>

WriteFails1 ==
  /\ h1.pc = "write" /\ SendFails /\ h1.head \o h1.rest # <<>>
  /\ h1' = [h1 EXCEPT !.pc = IF h1.phase = "initial" THEN "return" ELSE "close"]
  /\ UNCHANGED <<wire, requests, c1>>

\* A malformed byte ends the session before the requests parsed with it.
Read1 == \E n \in Readable("up") :
  /\ h1.pc = "read"
  /\ LET s == ProcessReceivedData(h1, Arrived("up", n))
     IN  h1' = [s EXCEPT !.pc = IF s.at = "error" THEN "close" ELSE "consume"]
  /\ wire' = Taken("up", n)
  /\ UNCHANGED <<requests, c1>>

ReadEnd1 ==
  /\ h1.pc = "read" /\ AtEnd("up")
  /\ h1' = [h1 EXCEPT !.phase = "eof", !.pc = "consume"]
  /\ UNCHANGED <<wire, requests, c1>>

ReadFails1 ==
  /\ h1.pc = "read" /\ ReadFails("up")
  /\ h1' = [h1 EXCEPT !.pc = "close"]
  /\ UNCHANGED <<wire, requests, c1>>

\* close() in the one case, the destructor in the other.
Leave1 ==
  /\ h1.pc \in {"close", "return"}
  /\ h1' = [h1 EXCEPT !.pc = "left"]
  /\ wire' = Closed("up", "down")
  /\ UNCHANGED <<requests, c1>>

Server1 ==
  \/ TakeRequest1 \/ ConsumedAll1 \/ WriteResponse \/ Responded1 \/ WriteFails1
  \/ Read1 \/ ReadEnd1 \/ ReadFails1 \/ Leave1

-----------------------------------------------------------------------------
(* The client's session.                                                   *)

NewClient1 ==
  [at |-> "start", url |-> <<>>, field |-> <<>>, value |-> <<>>, headers |-> <<>>,
   body |-> <<>>, reading |-> FALSE, pending |-> <<>>, pc |-> "idle", out |-> <<>>,
   results |-> <<>>]

Failed1 == [c1 EXCEPT !.pc = "failed"]

Request1 ==
  /\ c1.pc = "idle" /\ Len(c1.results) < Len(requests)
  /\ c1' = [c1 EXCEPT !.pc = "write", !.out = SerializeRequest(requests, Len(c1.results) + 1)]
  /\ UNCHANGED <<wire, requests, h1>>

WriteRequest ==
  /\ c1.pc = "write" /\ CanSend("up", c1.out)
  /\ LET rest == Rest(c1.out, Fitting("up", c1.out))
     IN  c1' = [c1 EXCEPT !.out = rest, !.pc = IF rest = <<>> THEN "await" ELSE "write"]
  /\ wire' = Sent("up", c1.out)
  /\ UNCHANGED <<requests, h1>>

\* The read loop ends with a response in the queue, one left over from an
\* earlier request included; the parser starts afresh.
TakeResponse ==
  /\ c1.pc = "await" /\ c1.pending # <<>>
  /\ c1' = [c1 EXCEPT !.pc = "idle", !.at = "start", !.pending = Tail(@),
                      !.results = Append(@, Head(c1.pending))]
  /\ UNCHANGED <<wire, requests, h1>>

ReadResponse == \E n \in Readable("down") :
  /\ c1.pc = "await" /\ c1.pending = <<>>
  /\ LET s == ProcessResponse(c1, Arrived("down", n))
     IN  c1' = IF s.at = "error" THEN [s EXCEPT !.pc = "failed"] ELSE s
  /\ wire' = Taken("down", n)
  /\ UNCHANGED <<requests, h1>>

\* The end of the stream in a response, before one, or an error.
ClientFails1 ==
  /\ \/ c1.pc = "await" /\ c1.pending = <<>> /\ (AtEnd("down") \/ ReadFails("down"))
     \/ c1.pc = "write" /\ SendFails
  /\ c1' = Failed1
  /\ UNCHANGED <<wire, requests, h1>>

Client1 == Request1 \/ WriteRequest \/ TakeResponse \/ ReadResponse \/ ClientFails1
=============================================================================
