------------------------------- MODULE Http2 --------------------------------
(***************************************************************************)
(* The HTTP/2 sessions and their callbacks (http/v2): Http2ServerSession,  *)
(* whose run() feeds nghttp2 what it reads, calls the handler for each     *)
(* request the callbacks queued, submits its response for the request's    *)
(* stream and flushes; Http2ClientSession, whose request() submits one     *)
(* request and reads until its stream has closed.                          *)
(*                                                                         *)
(* nghttp2 is external: it frames, keeps each direction's flow-control     *)
(* window (the server's sending one is modelled), and says which frames    *)
(* are ready to be sent.  A frame is a token <<stream, type>>; a type with *)
(* a '!' ends its stream, "data" is a DATA frame's part.                   *)
(***************************************************************************)
EXTENDS HttpTypes

CONSTANTS
  Window,      \* the DATA frames a server may send unacknowledged
  MaxReads     \* the turns of the client's read loop (2048)

ASSUME Http2Assumption == Window \in Nat \ {0} /\ MaxReads \in Nat \ {0}

VARIABLES
  h2,          \* the server's session; made, written: ghosts, <<stream, body>>
               \* of each response the handler made, and the frames sent
  c2           \* the client's session; results: ghost

Preface == << <<0, "P">>, <<0, "RI">> >>
Settings == <<0, "SETTINGS">>
Update == <<0, "WINDOW_UPDATE">>

-----------------------------------------------------------------------------
(* The server's callbacks: a slot per stream, its body as it comes, and a  *)
(* place in the queue when the stream's last frame is in.                  *)

Slot == [headers |-> FALSE, body |-> <<>>, complete |-> FALSE]
SlotOf(s, stream) == IF stream \in DOMAIN s.requests THEN s.requests[stream] ELSE Slot

ServerOnHeaders(s, stream) ==
  [s EXCEPT !.requests = Put(@, stream, [SlotOf(s, stream) EXCEPT !.headers = TRUE])]

ServerOnDataChunk(s, t) ==
  [s EXCEPT !.requests = Put(@, t[1], [SlotOf(s, t[1]) EXCEPT !.body = Append(@, t)])]

\* Of a frame with END_STREAM: only with its headers is a request whole.
ServerOnFrameRecv(s, stream) ==
  LET slot == s.requests[stream]
      done == [s EXCEPT !.requests[stream].complete = TRUE]
  IN  IF ~slot.headers THEN done
      ELSE [done EXCEPT !.pending = Append(@, [stream |-> stream, body |-> slot.body])]

\* A stream the client has reset: nghttp2 sends nothing more on it.
StreamReset(s, stream) == [s EXCEPT !.dropped = @ \cup {stream}]

Received(s, t) ==
  CASE t[2] = "HEADERS" -> ServerOnHeaders(s, t[1])
    [] t[2] = "HEADERS!" -> ServerOnFrameRecv(ServerOnHeaders(s, t[1]), t[1])
    [] t[2] \in {"data", "DATA"} -> ServerOnDataChunk(s, t)
    [] t[2] = "DATA!" -> ServerOnFrameRecv(ServerOnDataChunk(s, t), t[1])
    [] t[2] = "RST" -> StreamReset(s, t[1])
    [] t = Update -> [s EXCEPT !.window = @ + 1]
    [] OTHER -> s       \* the preface and SETTINGS

\* nghttp2 passes on nothing of a stream behind the frame that ended it, but its
\* reset, and nothing at all behind that.
Refused(s, t) ==
  t[1] \in s.dropped \/ (SlotOf(s, t[1]).complete /\ t[2] # "RST")
ServerFrame(s, t) == IF Refused(s, t) THEN s ELSE Received(s, t)

ProcessFrames(s, bytes) == FoldLeft(ServerFrame, s, bytes)

-----------------------------------------------------------------------------
(* The server's session.  Its queue holds what nghttp2 has to send:        *)
(* SETTINGS, and for each submitted response its HEADERS and how much of   *)
(* its body is left.                                                       *)

NewServer2 ==
  [pc |-> "new", phase |-> "initialize", requests |-> <<>>, pending |-> <<>>,
   queue |-> <<>>, dropped |-> {}, window |-> Window, copy |-> <<>>, current |-> 0,
   body |-> <<>>, made |-> <<>>, written |-> <<>>]

\* initialize(): a session and its SETTINGS, flushed before run().
Initialized2 ==
  [h2 EXCEPT !.pc = "send",
             !.queue = <<[stream |-> 0, head |-> Settings, left |-> 0]>>]

\* run() begins with the bytes the protocol was told from.
Started2(initial) ==
  [ProcessFrames(h2, initial) EXCEPT !.pc = "consume", !.phase = "initial"]

TakeRequest2 ==
  /\ h2.pc = "consume" /\ h2.pending # <<>>
  /\ h2' = [h2 EXCEPT !.pc = "handle", !.pending = Tail(@),
                      !.current = Head(h2.pending).stream, !.body = Head(h2.pending).body]
  /\ UNCHANGED <<wire, requests, c2>>

ConsumedAll2 ==
  /\ h2.pc = "consume" /\ h2.pending = <<>>
  /\ h2' = [h2 EXCEPT !.pc = "send"]
  /\ UNCHANGED <<wire, requests, c2>>

\* submit_response: nghttp2 takes it for any stream.
SubmitResponse(stream, body) ==
  Append(h2.queue, [stream |-> stream, left |-> IF body THEN 2 ELSE 0,
                    head |-> <<stream, IF body THEN "HEADERS" ELSE "HEADERS!">>])

Respond2(body) ==
  /\ h2.pc = "handle"
  /\ h2' = [h2 EXCEPT !.pc = "consume", !.made = Append(@, <<h2.current, body>>),
                      !.queue = SubmitResponse(h2.current, body)]
  /\ UNCHANGED <<wire, requests, c2>>

\* What entry i of the queue gives nghttp2_session_mem_send2 next: its head,
\* or as much of its body as its source has left, with END_STREAM on the last.
Sendable(i) == /\ h2.queue[i].stream \notin h2.dropped
               /\ h2.queue[i].head # <<>> \/ h2.window > 0

Batch(i) ==
  LET e == h2.queue[i]
  IN  IF e.head # <<>> THEN e.head
      ELSE <<e.stream, IF e.left = 1 THEN "DATA!" ELSE "DATA">>

AfterBatch(i) ==
  LET e == h2.queue[i]
      n == IF e.head # <<>> THEN [e EXCEPT !.head = <<>>] ELSE [e EXCEPT !.left = @ - 1]
  IN  IF n.left = 0 THEN RemoveAt(h2.queue, i) ELSE ReplaceAt(h2.queue, i, n)

\* One turn of send_data(): the batch is copied before the write is awaited.
SendBatch ==
  /\ h2.pc = "send"
  /\ \E i \in DOMAIN h2.queue :
       /\ Sendable(i)
       /\ h2' = [h2 EXCEPT !.pc = "write", !.copy = <<Batch(i)>>, !.queue = AfterBatch(i),
                           !.window = @ - (IF h2.queue[i].head = <<>> THEN 1 ELSE 0)]
  /\ UNCHANGED <<wire, requests, c2>>

WriteBatch ==
  /\ h2.pc = "write" /\ CanSend("down", h2.copy)
  /\ wire' = Sent("down", h2.copy)
  /\ h2' = [h2 EXCEPT !.pc = "send", !.copy = <<>>, !.written = @ \o h2.copy]
  /\ UNCHANGED <<requests, c2>>

\* Nothing more may be sent now: initialize() is over, or run() reads on.
SentAll ==
  /\ h2.pc = "send" /\ ~\E i \in DOMAIN h2.queue : Sendable(i)
  /\ h2' = [h2 EXCEPT !.pc = IF h2.phase = "initialize" THEN "initialized" ELSE "read",
                      !.phase = IF h2.phase = "initialize" THEN @ ELSE "loop"]
  /\ UNCHANGED <<wire, requests, c2>>

Read2 == \E n \in Readable("up") :
  /\ h2.pc = "read"
  /\ h2' = [ProcessFrames(h2, Arrived("up", n)) EXCEPT !.pc = "consume"]
  /\ wire' = Taken("up", n)
  /\ UNCHANGED <<requests, c2>>

\* nghttp2 refuses what was read (external), and process_received_data fails.
ReadRefused2 == \E n \in Readable("up") :
  /\ h2.pc = "read"
  /\ h2' = [h2 EXCEPT !.pc = "refused"]
  /\ wire' = Taken("up", n)
  /\ UNCHANGED <<requests, c2>>

\* The end of the stream or an error, of the bytes run() begins with, too, ends
\* it wherever it is; there is no close(): the stream's destructor closes the
\* connection.
Leave2 ==
  /\ \/ h2.pc = "read" /\ (AtEnd("up") \/ ReadFails("up"))
     \/ h2.pc \in {"initialized", "refused"}
     \/ h2.pc = "write" /\ SendFails
  /\ h2' = [h2 EXCEPT !.pc = "left"]
  /\ wire' = Closed("up", "down")
  /\ UNCHANGED <<requests, c2>>

Server2 == \/ TakeRequest2 \/ ConsumedAll2 \/ SendBatch \/ WriteBatch \/ SentAll
           \/ Read2 \/ ReadRefused2 \/ Leave2

-----------------------------------------------------------------------------
(* The client's callbacks and session.                                     *)

NewClient2 ==
  [pc |-> "new", responses |-> <<>>, queue |-> <<>>, copy |-> <<>>, reads |-> 0,
   then |-> "idle", results |-> <<>>]

NoResponse == [status |-> 0, body |-> <<>>, complete |-> FALSE]
ResponseOf(s, stream) ==
  IF stream \in DOMAIN s.responses THEN s.responses[stream] ELSE NoResponse

ClientOnHeader(s, stream) ==
  [s EXCEPT !.responses = Put(@, stream, [ResponseOf(s, stream) EXCEPT !.status = stream])]

ClientOnDataChunk(s, t) ==
  [s EXCEPT !.responses = Put(@, t[1], [ResponseOf(s, t[1]) EXCEPT !.body = Append(@, t)]),
            !.queue = Append(@, Update)]

\* Closing an unknown stream leaves nothing behind.
ClientOnStreamClose(s, stream) ==
  IF stream \in DOMAIN s.responses THEN [s EXCEPT !.responses[stream].complete = TRUE] ELSE s

\* The request has ended its side, so that the server's last frame closes.
ClientFrame(s, t) ==
  CASE t[2] = "HEADERS" -> ClientOnHeader(s, t[1])
    [] t[2] = "HEADERS!" -> ClientOnStreamClose(ClientOnHeader(s, t[1]), t[1])
    [] t[2] = "DATA" -> ClientOnDataChunk(s, t)
    [] t[2] = "DATA!" -> ClientOnStreamClose(ClientOnDataChunk(s, t), t[1])
    [] OTHER -> s

InitializeClient2 ==
  /\ c2.pc = "new"
  /\ c2' = [c2 EXCEPT !.pc = "send", !.queue = Preface \o <<Settings>>]
  /\ UNCHANGED <<wire, requests, h2>>

\* submit_request: HEADERS, with END_STREAM if there is no body, whose source
\* gives its parts to DATA frames.
Request2 ==
  /\ c2.pc = "idle" /\ Len(c2.results) < Len(requests)
  /\ LET m == Len(c2.results) + 1
     IN  c2' = [c2 EXCEPT !.pc = "send", !.then = "read", !.reads = 0,
                  !.queue = @ \o (IF requests[m].body
                                  THEN << <<m, "HEADERS">>, <<m, "DATA">>, <<m, "DATA!">> >>
                                  ELSE << <<m, "HEADERS!">> >>)]
  /\ UNCHANGED <<wire, requests, h2>>

SendBatchClient ==
  /\ c2.pc = "send" /\ c2.queue # <<>>
  /\ c2' = [c2 EXCEPT !.pc = "write", !.copy = <<Head(c2.queue)>>, !.queue = Tail(@)]
  /\ UNCHANGED <<wire, requests, h2>>

WriteBatchClient ==
  /\ c2.pc = "write" /\ CanSend("up", c2.copy)
  /\ wire' = Sent("up", c2.copy)
  /\ c2' = [c2 EXCEPT !.pc = "send", !.copy = <<>>]
  /\ UNCHANGED <<requests, h2>>

SentAllClient ==
  /\ c2.pc = "send" /\ c2.queue = <<>>
  /\ c2' = [c2 EXCEPT !.pc = c2.then]
  /\ UNCHANGED <<wire, requests, h2>>

\* Mutant of ReadFrames: what nghttp2 answers to a read waits for the next request.
ReadFramesOnly == \E n \in Readable("down") :
  /\ c2.pc = "read" /\ c2.reads < MaxReads
  /\ c2' = [FoldLeft(ClientFrame, c2, Arrived("down", n))
              EXCEPT !.pc = "check", !.reads = @ + 1]
  /\ wire' = Taken("down", n)
  /\ UNCHANGED <<requests, h2>>

\* Mutant of ReadFrames: the loop has no end.
ReadFramesOn == \E n \in Readable("down") :
  /\ c2.pc = "read"
  /\ c2' = [FoldLeft(ClientFrame, c2, Arrived("down", n))
              EXCEPT !.pc = "send", !.then = "check", !.reads = @ + 1]
  /\ wire' = Taken("down", n)
  /\ UNCHANGED <<requests, h2>>

\* What nghttp2 answers to a read is flushed before the response is looked at.
ReadFrames == \E n \in Readable("down") :
  /\ c2.pc = "read" /\ c2.reads < MaxReads
  /\ c2' = [FoldLeft(ClientFrame, c2, Arrived("down", n))
              EXCEPT !.pc = "send", !.then = "check", !.reads = @ + 1]
  /\ wire' = Taken("down", n)
  /\ UNCHANGED <<requests, h2>>

\* Mutant of CheckResponse: a response is taken for complete once it has begun.
CheckResponseEarly ==
  /\ c2.pc = "check"
  /\ LET r == ResponseOf(c2, Len(c2.results) + 1)
     IN  c2' = IF r # NoResponse
               THEN [c2 EXCEPT !.pc = "idle", !.then = "idle", !.results = Append(@, r)]
               ELSE [c2 EXCEPT !.pc = "read"]
  /\ UNCHANGED <<wire, requests, h2>>

\* Complete: a response is made from the stream's slot, which stays.
CheckResponse ==
  /\ c2.pc = "check"
  /\ LET r == ResponseOf(c2, Len(c2.results) + 1)
     IN  c2' = IF r.complete
               THEN [c2 EXCEPT !.pc = "idle", !.then = "idle", !.results = Append(@, r)]
               ELSE [c2 EXCEPT !.pc = "read"]
  /\ UNCHANGED <<wire, requests, h2>>

\* nghttp2 refuses what was read (external).
ReadRefusedClient == \E n \in Readable("down") :
  /\ c2.pc = "read" /\ c2.reads < MaxReads
  /\ c2' = [c2 EXCEPT !.pc = "failed"]
  /\ wire' = Taken("down", n)
  /\ UNCHANGED <<requests, h2>>

\* Out of turns, the end of the stream, an error, or nghttp2 wants neither to
\* read nor to write any more (external) and the response is not complete.
ClientFails2 ==
  /\ \/ c2.pc = "read" /\ (c2.reads = MaxReads \/ AtEnd("down") \/ ReadFails("down"))
     \/ c2.pc = "write" /\ SendFails
     \/ c2.pc = "check" /\ ~ResponseOf(c2, Len(c2.results) + 1).complete
  /\ c2' = [c2 EXCEPT !.pc = "failed"]
  /\ UNCHANGED <<wire, requests, h2>>

Client2 == \/ InitializeClient2 \/ Request2 \/ SendBatchClient \/ WriteBatchClient
           \/ SentAllClient \/ ReadFrames \/ ReadRefusedClient \/ CheckResponse
           \/ ClientFails2
=============================================================================
