----------------------------- MODULE HttpServer -----------------------------
(***************************************************************************)
(* An HttpServer with a router, and a connection to it: the accept loop    *)
(* spawns handle_connection, which reads until it can tell the protocol,   *)
(* gives the bytes read to a session of that protocol and runs it with the *)
(* router's dispatch for its handler.  At the other end is an HttpStream   *)
(* (http/http_stream.hpp) or a client of another make, which writes what   *)
(* bytes it likes, as it likes, and may leave at any time.                 *)
(***************************************************************************)
EXTENDS Router, Http1, Http2

CONSTANTS
  Programs,   \* bound: what clients do: [kind, requests, bytes]; the kind is
              \* h1, h2 or auto (an HttpStream) or raw (bytes, written)
  Served      \* bound: the registrations of the routers that serve them

\* The bytes and frames there are; what is malformed, a client of another make
\* may write.
Parts ==
  {"P", "RI", "SETTINGS", "WINDOW_UPDATE", "RST", "HEADERS", "HEADERS!", "data", "DATA",
   "DATA!", "method", "status", "url", "name a", "name b", "name c", "value",
   "body follows", "body", "body end", "end", "malformed"}
Tokens == Nat \X Parts

ASSUME HttpAssumption == \A p \in Programs :
  p.kind \in {"h1", "h2", "auto", "raw"} /\ p.bytes \in Seq(Tokens)

VARIABLES
  conn,       \* handle_connection: its place, and the bytes read so far
  client      \* the client: its kind, place, the bytes it writes and how many
              \* of them it has

httpVars == <<router, calls, wire, requests, h1, c1, h2, c2, conn, client>>
sessions == <<requests, h1, c1, h2, c2>>

HttpInit ==
  /\ RouterInit
  /\ wire = NewWire
  /\ h1 = NewServer1 /\ c1 = NewClient1
  /\ h2 = NewServer2 /\ c2 = NewClient2
  /\ conn = [pc |-> "setup", data |-> <<>>]
  /\ requests = <<>>
  /\ client = [kind |-> "raw", pc |-> "none", bytes |-> <<>>, sent |-> 0]

-----------------------------------------------------------------------------
(* The client's end.                                                       *)

\* A program that will be a client begins (external).
Begin == \E p \in Programs :
  /\ client.pc = "none" /\ conn.pc = "listening"
  /\ client' = [kind |-> p.kind, pc |-> "start", bytes |-> p.bytes, sent |-> 0]
  /\ requests' = p.requests
  /\ UNCHANGED <<router, calls, wire, h1, c1, h2, c2, conn>>

\* connect(): Auto tries HTTP/2 and, when the connection cannot be made,
\* HTTP/1.1.
Connect ==
  /\ client.pc = "start" /\ conn.pc = "listening"
  /\ client' = [client EXCEPT !.pc = "open", !.kind = IF @ = "auto" THEN "h2" ELSE @]
  /\ conn' = [conn EXCEPT !.pc = "accept"]
  /\ UNCHANGED <<router, calls, wire, sessions>>

ConnectFails ==
  /\ client.pc = "start" /\ conn.pc = "listening"
  /\ client' = IF client.kind = "auto" THEN [client EXCEPT !.kind = "h1"]
               ELSE [client EXCEPT !.pc = "gone"]
  /\ UNCHANGED <<router, calls, wire, sessions, conn>>

\* The client's coroutine awaits one request after another, gives up on an
\* error, and closes the stream.
RunClient ==
  /\ client.pc = "open"
  /\ \/ client.kind = "h1" /\ Client1 /\ UNCHANGED <<h2, c2>>
     \/ client.kind = "h2" /\ Client2 /\ UNCHANGED <<h1, c1>>
  /\ UNCHANGED <<router, calls, conn, client>>

HasFinished(c) ==
  c.pc = "failed" \/ (c.pc = "idle" /\ Len(c.results) = Len(requests))

CloseStream ==
  /\ client.pc = "open"
  /\ \/ client.kind = "h1" /\ HasFinished(c1)
     \/ client.kind = "h2" /\ HasFinished(c2)
  /\ client' = [client EXCEPT !.pc = "gone"]
  /\ wire' = Closed("down", "up")
  /\ UNCHANGED <<router, calls, sessions, conn>>

\* A client of another make (external).
RawWrites ==
  /\ client.pc = "open" /\ client.kind = "raw" /\ client.sent < Len(client.bytes)
  /\ LET byte == <<client.bytes[client.sent + 1]>>
     IN  CanSend("up", byte) /\ wire' = Sent("up", byte)
  /\ client' = [client EXCEPT !.sent = @ + 1]
  /\ UNCHANGED <<router, calls, sessions, conn>>

RawReads == \E n \in Readable("down") :
  /\ client.pc = "open" /\ client.kind = "raw"
  /\ wire' = Taken("down", n)
  /\ UNCHANGED <<router, calls, sessions, conn, client>>

RawShutsDown ==
  /\ client.pc = "open" /\ client.kind = "raw" /\ client.sent = Len(client.bytes)
  /\ "up" \notin wire.ended
  /\ wire' = [wire EXCEPT !.ended = @ \cup {"up"}]
  /\ UNCHANGED <<router, calls, sessions, conn, client>>

RawLeaves ==
  /\ client.pc = "open" /\ client.kind = "raw"
  /\ wire' = Closed("down", "up")
  /\ client' = [client EXCEPT !.pc = "gone"]
  /\ UNCHANGED <<router, calls, sessions, conn>>

-----------------------------------------------------------------------------
(* The server's end.                                                       *)

\* The program registers its routes, then binds and runs.
RegisterRoutes ==
  /\ conn.pc = "setup" /\ Register
  /\ UNCHANGED <<wire, sessions, conn, client>>

Listen ==
  /\ conn.pc = "setup" /\ calls \in Served
  /\ conn' = [conn EXCEPT !.pc = "listening"]
  /\ UNCHANGED <<router, calls, wire, sessions, client>>

\* run(): accept, and a coroutine for the connection.
Accept ==
  /\ conn.pc = "accept"
  /\ conn' = [conn EXCEPT !.pc = "detect"]
  /\ UNCHANGED <<router, calls, wire, sessions, client>>

IsH2PrefacePrefix(data) ==
  \A i \in 1..Min({Len(data), Len(Preface)}) : data[i] = Preface[i]
IsH2PrefaceComplete(data) == IsH2PrefacePrefix(data) /\ Len(data) >= Len(Preface)

\* Mutant of Detect: the session is given what the last read returned.
DetectLastRead == \E n \in Readable("up") :
  /\ conn.pc = "detect"
  /\ LET data == conn.data \o Arrived("up", n)
     IN  conn' = IF ~IsH2PrefacePrefix(data) THEN [pc |-> "http1", data |-> Arrived("up", n)]
                 ELSE IF IsH2PrefaceComplete(data)
                 THEN [pc |-> "http2", data |-> Arrived("up", n)]
                 ELSE [conn EXCEPT !.data = data]
  /\ wire' = Taken("up", n)
  /\ UNCHANGED <<router, calls, sessions, client>>

\* detect_protocol: the bytes are kept until they are no preface any more, or
\* a whole one.
Detect == \E n \in Readable("up") :
  /\ conn.pc = "detect"
  /\ LET data == conn.data \o Arrived("up", n)
     IN  conn' = [data |-> data,
                  pc |-> IF ~IsH2PrefacePrefix(data) THEN "http1"
                         ELSE IF IsH2PrefaceComplete(data) THEN "http2" ELSE "detect"]
  /\ wire' = Taken("up", n)
  /\ UNCHANGED <<router, calls, sessions, client>>

\* An end in the preface's bytes makes them HTTP/1.1; without bytes, or with
\* an error, the connection is closed.
DetectEnds ==
  /\ conn.pc = "detect" /\ (AtEnd("up") \/ ReadFails("up"))
  /\ IF AtEnd("up") /\ conn.data # <<>>
     THEN conn' = [conn EXCEPT !.pc = "http1"] /\ UNCHANGED wire
     ELSE conn' = [conn EXCEPT !.pc = "done"] /\ wire' = Closed("up", "down")
  /\ UNCHANGED <<router, calls, sessions, client>>

\* The session is made and run; HTTP/2 exchanges its SETTINGS first.
StartSession ==
  /\ \/ conn.pc = "http1" /\ h1.pc = "new" /\ h1' = Started1(conn.data) /\ UNCHANGED h2
     \/ conn.pc = "http2" /\ h2.pc = "new" /\ h2' = Initialized2 /\ UNCHANGED h1
     \/ conn.pc = "http2" /\ h2.pc = "initialized" /\ h2' = Started2(conn.data)
        /\ UNCHANGED h1
  /\ UNCHANGED <<router, calls, wire, requests, c1, c2, conn, client>>

RunSession ==
  /\ \/ conn.pc = "http1" /\ Server1 /\ UNCHANGED <<h2, c2>>
     \/ conn.pc = "http2" /\ Server2 /\ UNCHANGED <<h1, c1>>
  /\ UNCHANGED <<router, calls, conn, client>>

\* The handler of a session's request is the router's dispatch.
Current == IF conn.pc = "http1" THEN h1.current ELSE h2.current

DispatchCurrent(fails, stops) ==
  Dispatch(router, requests[Current].method, requests[Current].path, fails, stops)

Handling == \/ conn.pc = "http1" /\ h1.pc = "handle"
            \/ conn.pc = "http2" /\ h2.pc = "handle"

HandleRequest == Handling /\ \E fails, stops \in SUBSET DOMAIN calls, body \in BOOLEAN :
  /\ DispatchCurrent(fails, stops).kind # "throws"
  /\ body \/ DispatchCurrent(fails, stops).kind \in {"reply", "stop", "error"}
  /\ \/ conn.pc = "http1" /\ Respond1(body) /\ UNCHANGED <<h2, c2>>
     \/ conn.pc = "http2" /\ Respond2(body) /\ UNCHANGED <<h1, c1>>
  /\ UNCHANGED <<router, calls, conn, client>>

\* An exception the router lets out leaves the session, the connection and the
\* spawned coroutine, which has no caller: the process terminates.
HandlerThrows == Handling /\ \E fails \in SUBSET DOMAIN calls :
  /\ DispatchCurrent(fails, {}).kind = "throws"
  /\ conn' = [conn EXCEPT !.pc = "terminated"]
  /\ wire' = Closed("up", "down")
  /\ UNCHANGED <<router, calls, sessions, client>>

Client == RunClient \/ CloseStream
Server == \/ Accept \/ Detect \/ DetectEnds \/ StartSession \/ RunSession
          \/ HandleRequest \/ HandlerThrows

HttpNext ==
  \/ RegisterRoutes \/ Listen \/ Begin \/ Connect \/ ConnectFails
  \/ Client \/ RawWrites \/ RawReads \/ RawShutsDown \/ RawLeaves \/ Server

HttpSpec == HttpInit /\ [][HttpNext]_httpVars

\* The coroutines at both ends are resumed when they can go on; a program
\* goes on to listen; a client of another make owes nothing.
HttpFairSpec == HttpSpec /\ WF_httpVars(Client) /\ WF_httpVars(Server)

-----------------------------------------------------------------------------
(* Properties.                                                             *)

HttpTypeOK ==
  /\ conn.pc \in {"setup", "listening", "accept", "detect", "http1", "http2",
                  "done", "terminated"}
  /\ client.kind \in {"h1", "h2", "auto", "raw"}
  /\ client.pc \in {"none", "start", "open", "gone"} /\ client.sent \in 0..Len(client.bytes)
  /\ \A d \in Directions : Len(wire.bytes[d]) <= Space(d)
  /\ h1.pc \in {"new", "consume", "handle", "write", "read", "close", "return", "left"}
  /\ h1.at \in {"start", "message", "closed", "error"}
  /\ c1.pc \in {"idle", "write", "await", "failed"}
  /\ h2.pc \in {"new", "initialized", "consume", "handle", "send", "write", "read",
               "refused", "left"}
  /\ h2.window \in Nat
  /\ c2.pc \in {"new", "idle", "send", "write", "read", "check", "failed"}
  /\ c2.reads \in 0..MaxReads

\* While the program registers its routes, in whatever order: a request finds
\* the callable and the parameters the documentation's priorities give it.
\* (No later step changes the router.)
RequestsFindTheirRoute == conn.pc = "setup" => RoutesByPriority

\* What request m is when every byte of it has come once and in its place.
Whole1(p) ==
  LET m == p.message
  IN  /\ p.url = <<<<m, "url">>>>
      /\ p.headers = (<<<<m, "name a">>, <<m, "name b">>>> :> <<<<m, "value">>>>)
                       @@ (<<<<m, "name c">>>> :> <<<<m, "value">>>>)
      /\ p.body = IF requests[m].body THEN Body(m) ELSE <<>>

\* The frames of a body over HTTP/2.
Data2(stream, body) ==
  IF body THEN << <<stream, "DATA">>, <<stream, "DATA!">> >> ELSE <<>>

IsData(t) == t[2] \in {"data", "DATA", "DATA!"}
SentBody(stream) ==
  IF client.kind = "raw"
  THEN SelectSeq(client.bytes, LAMBDA t : t[1] = stream /\ IsData(t))
  ELSE Data2(stream, requests[stream].body)

\* However the bytes of the connection are cut into reads, those read to tell
\* the protocol included, a session queues each request once, whole, and - for
\* HTTP/1.1 - in the order the client wrote them; what faio's own client writes
\* is never malformed to it.
RequestsArriveWhole ==
  LET handling(s) == IF s.pc = "handle" THEN <<s.current>> ELSE <<>>
      taken1 == [i \in DOMAIN h1.made |-> h1.made[i][1]] \o handling(h1)
                  \o [i \in DOMAIN h1.pending |-> h1.pending[i].message]
      taken2 == [i \in DOMAIN h2.made |-> h2.made[i][1]] \o handling(h2)
                  \o [i \in DOMAIN h2.pending |-> h2.pending[i].stream]
  IN  /\ taken1 = [i \in DOMAIN taken1 |-> i]
      /\ \A i \in DOMAIN h1.pending : Whole1(h1.pending[i])
      /\ client.kind = "h1" => h1.at # "error"
      /\ IsInjective(taken2)
      /\ \A i \in DOMAIN h2.pending :
           h2.pending[i].body = SentBody(h2.pending[i].stream)
      /\ h2.pc = "handle" => h2.body = SentBody(h2.current)

\* The bytes of a response, and the frames of one.
Bytes1(m, body) == <<<<m, "status">>>> \o Headers(m) \o Block(m, body)
Frames2(stream, body) ==
  IF body THEN << <<stream, "HEADERS">>, <<stream, "DATA">>, <<stream, "DATA!">> >>
  ELSE <<<<stream, "HEADERS!">>>>

\* What the responses made so far amount to.
Responses1(made) == FoldLeft(LAMBDA s, r : s \o Bytes1(r[1], r[2]), <<>>, made)

\* Whatever the sends take, HTTP/1.1 puts the responses on the wire one after
\* the other in the requests' order, each byte once; HTTP/2 puts nothing on a
\* stream but the frames of the response to its own request, in order.
ResponsesInOrder ==
  /\ IsPrefix(h1.written, Responses1(h1.made))
  /\ \A i \in DOMAIN h2.written :
       LET stream == h2.written[i][1]
           n == Cardinality({j \in 1..i : h2.written[j][1] = stream})
       IN  stream # 0 => \E k \in DOMAIN h2.made :
             /\ h2.made[k][1] = stream
             /\ n <= Len(Frames2(stream, h2.made[k][2]))
             /\ h2.written[i] = Frames2(stream, h2.made[k][2])[n]

\* What request() returns is the whole of the response the server's handler
\* made to that request: nothing of an earlier one, no part missing.
AnswersAreOwn ==
  /\ \A i \in DOMAIN c1.results :
       /\ c1.results[i].message = i
       /\ c1.results[i].body = IF h1.made[i][2] THEN Body(i) ELSE <<>>
       /\ DOMAIN c1.results[i].headers
            = {<<<<i, "name a">>, <<i, "name b">>>>, <<<<i, "name c">>>>}
  /\ \A i \in DOMAIN c2.results :
       /\ c2.results[i].status = i
       /\ c2.results[i].body = Data2(i, h2.made[i][2])

\* A client of faio that has connected gets an answer or an error to all it
\* asks for and leaves: no side waits for the other for good, although a
\* response is larger than the window and a request than the buffer to the
\* server.  (The buffer to the client has room for what a server has to send.)
RequestsReturn ==
  (client.pc = "open" /\ client.kind # "raw") ~> (client.pc = "gone")

\* The documentation's promise (docs, 5.4): what a handler throws becomes a
\* response of the error handler or a 500 and does not reach the session.
FailuresAreContained == conn.pc # "terminated"
=============================================================================
