------------------------- MODULE HttpAnswers_proofs -------------------------
(***************************************************************************)
(* Proofs about what a client of faio gets from HttpServer, for any        *)
(* programs, routers, buffers, window and turns of the client's read loop: *)
(* request() returns the response that the handler made to that request    *)
(* (AnswersAreOwn).  The inductive invariant says, while the client goes   *)
(* on, that the bytes on their way to the session are the end of the       *)
(* request it is at, and that those on their way back begin where the      *)
(* client's parser is in the response; for HTTP/2, that the frames written *)
(* and not yet read are those the client's slots lack.                     *)
(***************************************************************************)
EXTENDS Http_proofs

-----------------------------------------------------------------------------
(* The answers.  A client of faio and the session that serves it, while    *)
(* the client goes on.                                                     *)

\* HTTP/1.1.  What the client has to say to the session and it has not heard,
\* those bytes included that the protocol is told from.
Path1(h, c, w, data) ==
  (IF h.pc = "new" THEN data ELSE <<>>) \o (w.bytes["up"] \o c.out)
EndOf(path, bytes) == \E u \in Bytes : bytes = u \o path

Asked(c) == Len(c.results) + 1
InHands(h) == IF h.pc = "handle" THEN 1 ELSE 0
TakenUp(h) == Len(h.made) + InHands(h) + Len(h.pending)

\* It is the end of the request that the client is at, of which the session
\* has nothing before it has it all.
Asks1(rs, h, c, path) ==
  LET m == Asked(c)
  IN  /\ EndOf(path, SerializeRequest(rs, m))
      /\ c.pc = "idle" => path = <<>>
      /\ \A i \in DOMAIN h.pending : h.pending[i].message = m
      /\ h.pc = "handle" => h.current = m
      /\ \A i \in DOMAIN h.made : h.made[i][1] = i
      /\ m <= Len(h.made) + 1
      /\ TakenUp(h) <= m
      /\ path # <<>> \/ c.pc = "idle" => TakenUp(h) <= m - 1

\* Where the client's parser is in the response to request m, k bytes of which
\* it has had: what it has of the header at hand and the names of those before.
Name1(m) == <<<<m, "name a">>, <<m, "name b">>>>
Name2(m) == <<<<m, "name c">>>>
FieldAt(m, k) ==
  IF k = 2 THEN <<<<m, "name a">>>> ELSE IF k \in {3, 4} THEN Name1(m)
  ELSE IF k \in {5, 6} THEN Name2(m) ELSE <<>>
NamesAt(m, k) ==
  IF k <= 4 THEN {} ELSE IF k <= 6 THEN {Name1(m)} ELSE {Name1(m), Name2(m)}
Within1(s, m, k) ==
  /\ s.at = "message" /\ s.pending = <<>>
  /\ s.field = FieldAt(m, k) /\ s.reading = (k \in {4, 6, 7, 8})
  /\ DOMAIN s.headers = NamesAt(m, k)
  /\ s.body = IF k = 8 THEN <<<<m, "body">>>> ELSE <<>>

IsAnswer1(r, m, body) ==
  /\ r.message = m
  /\ r.body = IF body THEN Body(m) ELSE <<>>
  /\ DOMAIN r.headers = {Name1(m), Name2(m)}

Size1(body) == IF body THEN 9 ELSE 7
Before1(s) == s.at = "start" /\ s.pending = <<>>
Behind1(s, m, body) ==
  s.at = "start" /\ Len(s.pending) = 1 /\ IsAnswer1(s.pending[1], m, body)
Parsed(s, m, body, k) ==
  IF k = 0 THEN Before1(s)
  ELSE IF k = Size1(body) THEN Behind1(s, m, body) ELSE Within1(s, m, k)

\* What is on its way to the client and what the session has still to write of
\* it are the next bytes of that response.
Unsent(h) == IF h.pc = "write" THEN h.head \o h.rest ELSE <<>>
Hears1(h, c, down) ==
  LET m == Asked(c)
  IN  IF Len(h.made) = m
      THEN \E u, v \in Bytes :
             /\ Bytes1(m, h.made[m][2]) = (u \o down) \o v
             /\ Parsed(c, m, h.made[m][2], Len(u))
      ELSE down = <<>> /\ Before1(c)

\* HTTP/2.  The streams the client has used, and what it has for the session:
\* frames of those, and frames of no stream that begin no request.
Used(c) == IF c.then = "idle" THEN Len(c.results) ELSE Len(c.results) + 1
Control == {<<0, "P">>, <<0, "RI">>, Settings, Update}
Fine(top) == Control \cup ((1 .. top) \X Parts)
Path2(c, w, data) == (data \o w.bytes["up"]) \o (c.copy \o c.queue)

Goes2(c) ==
  /\ c.pc \in {"new", "idle"} => c.then = "idle"
  /\ c.pc \in {"read", "check"} => c.then # "idle"
  /\ c.pc # "write" => c.copy = <<>>
  /\ c.pc = "write" => Len(c.copy) = 1

Asks2(h, c, up, data) ==
  LET top == Used(c)
  IN  /\ data \in Seq(Fine(top)) /\ up \in Seq(Fine(top))
      /\ c.copy \in Seq(Fine(top)) /\ c.queue \in Seq(Fine(top))
      /\ Goes2(c)
      /\ h.pc = "write" => Len(h.copy) = 1
      /\ DOMAIN h.requests \subseteq 1 .. top
      /\ \A i \in DOMAIN h.made : h.made[i][1] = i
      /\ Len(h.made) \in Len(c.results) .. top

\* A session begins with the preface.
Prefaced(c, path) ==
  IF c.pc = "new" THEN path = <<>>
  ELSE Len(path) >= 2 /\ \A i \in 1 .. 2 : path[i] = Preface[i]

\* The client has the slots that the first r frames sent make, and the others
\* are on their way.
Reply2(stream, body, n) ==
  [status |-> stream, body |-> IF n <= 1 THEN <<>> ELSE SubSeq(Data2(stream, body), 1, n - 1),
   complete |-> n = Len(Frames2(stream, body))]

HasSlots(c, made, frames, r) ==
  \A stream \in Nat \ {0} :
    LET n == OnStream(frames, stream, r)
    IN  ResponseOf(c, stream)
          = IF n = 0 THEN NoResponse ELSE Reply2(stream, made[stream][2], n)

Hears2(h, c, down) ==
  \E r \in 0 .. Len(h.written) :
    down = Rest(h.written, r) /\ HasSlots(c, h.made, h.written, r)

-----------------------------------------------------------------------------
(* Answers got stay what they are.  Before the client connects nothing has *)
(* happened, and until there is a session both ends are there.             *)

Answered1(c, made) ==
  \A i \in DOMAIN c.results : i \in DOMAIN made /\ IsAnswer1(c.results[i], i, made[i][2])

IsAnswer2(r, stream, body) == r.status = stream /\ r.body = Data2(stream, body)
Answered2(c, made) ==
  \A i \in DOMAIN c.results : i \in DOMAIN made /\ IsAnswer2(c.results[i], i, made[i][2])

NoSession == h1.pc = "new" /\ h2.pc = "new"
Fresh == (h1.pc = "new" => h1 = NewServer1) /\ (h2.pc = "new" => h2 = NewServer2)

Unconnected ==
  client.pc \in {"none", "start"} =>
    /\ conn.pc \in {"setup", "listening"}
    /\ wire = NewWire /\ conn.data = <<>> /\ NoSession
    /\ c1 = NewClient1 /\ c2 = NewClient2

\* What nobody will read is not kept.
Silent(w) == \A d \in w.deaf : w.bytes[d] = <<>>

Connected ==
  /\ client.pc = "open" => client.kind # "auto"
  /\ Silent(wire)
  /\ conn.pc \in {"accept", "detect"} => NoSession
  /\ client.pc = "open" /\ client.kind # "raw" =>
       /\ "down" \notin wire.deaf /\ "up" \notin wire.ended
       /\ NoSession => wire.deaf = {} /\ ~wire.reset

Talks1(rs, h, c, w, data) ==
  LET path == Path1(h, c, w, data)
  IN  /\ h.pc = "new" => path = <<>> \/ path = SerializeRequest(rs, Asked(c))
      /\ c.pc # "failed" =>
           Asks1(rs, h, c, path) /\ Hears1(h, c, w.bytes["down"] \o Unsent(h))

Talking1 ==
  client.pc = "open" /\ client.kind = "h1" =>
    conn.pc # "http2" /\ h2.pc = "new" /\ Talks1(requests, h1, c1, wire, conn.data)

Talks2(h, c, w, data) ==
  /\ h.pc = "new" => Prefaced(c, Path2(c, w, data))
  /\ c.pc # "failed" =>
       Asks2(h, c, w.bytes["up"], data) /\ Hears2(h, c, w.bytes["down"])

Talking2 ==
  client.pc = "open" /\ client.kind = "h2" =>
    conn.pc # "http1" /\ h1.pc = "new" /\ Talks2(h2, c2, wire, conn.data)

-----------------------------------------------------------------------------
(* Requests and responses, byte by byte.                                   *)

Final == {"end", "body end"}

\* Two sequences joined, place by place.
Joins(c, a, b) ==
  /\ c \in Bytes /\ Len(c) = Len(a) + Len(b)
  /\ \A i \in 1 .. Len(a) : c[i] = a[i]
  /\ \A i \in 1 .. Len(b) : c[Len(a) + i] = b[i]

LEMMA JoinedAt ==
  ASSUME NEW a \in Bytes, NEW b \in Bytes
  PROVE  Joins(a \o b, a, b)
<1> DEFINE c == a \o b
<1>1. c \in Bytes /\ Len(c) = Len(a) + Len(b)
  BY BytesJoined
<1>2. \A i \in 1 .. Len(a) : c[i] = a[i]
  BY JoinedFirst
<1>3. ASSUME NEW i \in 1 .. Len(b) PROVE c[Len(a) + i] = b[i]
  <2>1. /\ a \in Seq(Tokens) /\ b \in Seq(Tokens) /\ Len(a) \in Nat /\ Len(b) \in Nat
        /\ Len(a) + i \in 1 .. Len(a) + Len(b) /\ Len(a) + i > Len(a)
    BY DEF Bytes
  <2>2. c[Len(a) + i] = b[Len(a) + i - Len(a)]
    BY <2>1
  <2>3. Len(a) + i - Len(a) = i
    BY <2>1
  <2> QED
    BY <2>2, <2>3
<1> QED
  BY <1>1, <1>2, <1>3 DEF Joins

\* A few things in a row.
LEMMA FewAt ==
  ASSUME NEW a, NEW b, NEW c, NEW d, NEW e
  PROVE  /\ Len(<<a>>) = 1 /\ <<a>>[1] = a
         /\ Len(<<a, b>>) = 2 /\ <<a, b>>[1] = a /\ <<a, b>>[2] = b
         /\ LET s == <<a, b, c, d, e>>
            IN  Len(s) = 5 /\ s[1] = a /\ s[2] = b /\ s[3] = c /\ s[4] = d /\ s[5] = e
  OBVIOUS

\* The headers with what comes before and behind.
Lays(b, x, y, z) ==
  /\ b \in Bytes /\ Len(b) = Len(x) + 5 + Len(z)
  /\ \A j \in 1 .. Len(x) : b[j] = x[j]
  /\ \A j \in 1 .. 5 : b[Len(x) + j] = y[j]
  /\ \A j \in 1 .. Len(z) : b[Len(x) + 5 + j] = z[j]

LEMMA ThreeJoined ==
  ASSUME NEW x \in Bytes, NEW y \in Bytes, NEW z \in Bytes, Len(y) = 5
  PROVE  Lays((x \o y) \o z, x, y, z)
<1> DEFINE w == x \o y
           b == w \o z
           i == Len(x)
<1>1. Joins(w, x, y)
  BY JoinedAt
<1> HIDE DEF w
<1>2. w \in Bytes /\ Len(w) = i + 5 /\ i \in Nat
  BY <1>1 DEF Joins, Bytes
<1>3. Joins(b, w, z)
  BY <1>2, JoinedAt
<1> HIDE DEF b, i
<1>4. \A j \in 1 .. i : j \in 1 .. i + 5 /\ b[j] = x[j]
  <2>1. \A j \in 1 .. i : j \in 1 .. i + 5
    BY <1>2
  <2> QED
    BY <1>1, <1>2, <1>3, <2>1 DEF Joins, i
<1>5. \A j \in 1 .. 5 : i + j \in 1 .. i + 5 /\ b[i + j] = y[j]
  <2>1. \A j \in 1 .. 5 : i + j \in 1 .. i + 5
    BY <1>2
  <2> QED
    BY <1>1, <1>2, <1>3, <2>1 DEF Joins, i
<1>6. /\ b \in Bytes /\ Len(b) = i + 5 + Len(z)
      /\ \A j \in 1 .. Len(z) : b[i + 5 + j] = z[j]
  BY <1>2, <1>3 DEF Joins
<1>7. Lays(b, x, y, z)
  BY <1>4, <1>5, <1>6 DEF Lays, i
<1> QED
  BY <1>7 DEF b, w

\* What the headers and a body are made of.
LEMMA BlockParts ==
  ASSUME NEW m \in Nat
  PROVE  /\ LET y == Headers(m)
            IN  /\ y \in Bytes /\ Len(y) = 5
                /\ y[1] = <<m, "name a">> /\ y[2] = <<m, "name b">> /\ y[3] = <<m, "value">>
                /\ y[4] = <<m, "name c">> /\ y[5] = <<m, "value">>
         /\ LET z == Block(m, TRUE)
            IN  /\ z \in Bytes /\ Len(z) = 3 /\ z[1] = <<m, "body follows">>
                /\ z[2] = <<m, "body">> /\ z[3] = <<m, "body end">>
         /\ LET z == Block(m, FALSE)
            IN  z \in Bytes /\ Len(z) = 1 /\ z[1] = <<m, "end">>
<1> DEFINE a == <<m, "name a">>
           b == <<m, "name b">>
           c == <<m, "name c">>
           v == <<m, "value">>
           f == <<m, "body follows">>
           g == <<m, "body">>
           h == <<m, "body end">>
           e == <<m, "end">>
<1>1. Headers(m) = <<a, b, v, c, v>> /\ Block(m, FALSE) = <<e>>
  BY DEF Headers, Block
<1>2. Body(m) = <<g, h>> /\ Block(m, TRUE) = <<f>> \o Body(m)
  BY DEF Block, Body
<1>3. /\ Headers(m) \in Bytes /\ Body(m) \in Bytes /\ <<f>> \in Bytes
      /\ Block(m, TRUE) \in Bytes /\ Block(m, FALSE) \in Bytes
  BY ResponseBytes
<1> HIDE DEF a, b, c, v, f, g, h, e
<1>4. LET y == Headers(m)
      IN  Len(y) = 5 /\ y[1] = a /\ y[2] = b /\ y[3] = v /\ y[4] = c /\ y[5] = v
  BY <1>1, FewAt
<1>5. Len(Block(m, FALSE)) = 1 /\ Block(m, FALSE)[1] = e
  BY <1>1, FewAt, ZenonT(40)
<1>6. LET z == Block(m, TRUE)
      IN  Len(z) = 3 /\ z[1] = f /\ z[2] = g /\ z[3] = h
  <2> DEFINE s == Body(m)
             r == <<f>>
             z == Block(m, TRUE)
  <2>1. Len(s) = 2 /\ s[1] = g /\ s[2] = h /\ s \in Bytes
    BY <1>2, <1>3, FewAt
  <2>2. Len(r) = 1 /\ r[1] = f /\ r \in Bytes
    BY <1>3, FewAt
  <2>3. z = r \o s
    BY <1>2
  <2> HIDE DEF s, r, z
  <2>4. Joins(z, r, s)
    BY <2>1, <2>2, <2>3, JoinedAt
  <2>5. Len(z) = 1 + 2 /\ z[1] = r[1] /\ z[1 + 1] = s[1] /\ z[1 + 2] = s[2]
    BY <2>1, <2>2, <2>4 DEF Joins
  <2>6. Len(z) = 3 /\ z[1] = f /\ z[2] = g /\ z[3] = h
    BY <2>1, <2>2, <2>5
  <2> QED
    BY <2>6 DEF z
<1> QED
  BY <1>3, <1>4, <1>5, <1>6 DEF a, b, c, v, f, g, h, e

\* A request is its method, its url, its headers and its body; only its last
\* byte ends it.
LEMMA RequestParts ==
  ASSUME NEW rs, NEW m \in Nat
  PROVE  LET b == SerializeRequest(rs, m)
         IN  /\ b \in Bytes /\ Len(b) \in Nat /\ Len(b) >= 8 /\ b[2] = <<m, "url">>
             /\ \A i \in 1 .. Len(b) : b[i][2] \in Final => i = Len(b) /\ b[i][1] = m
<1> DEFINE first == IF rs[m].method = Post THEN <<0, "P">> ELSE <<m, "method">>
           second == <<m, "url">>
           x == <<first, second>>
           y == Headers(m)
           z == Block(m, rs[m].body)
           b == SerializeRequest(rs, m)
<1>1. b = (x \o y) \o z
  BY DEF SerializeRequest
<1>2. /\ x \in Bytes /\ Len(x) = 2 /\ x[2] = second
      /\ x[1][2] \notin Final /\ x[2][2] \notin Final
  <2>1. <<0, "P">> \in Tokens /\ <<m, "method">> \in Tokens /\ <<m, "url">> \in Tokens
    BY DEF Tokens, Parts
  <2>2. first \in Tokens /\ first[2] \notin Final
    BY <2>1 DEF Final
  <2>3. second \in Tokens /\ second[2] \notin Final
    BY <2>1 DEF Final
  <2> HIDE DEF first, second
  <2>4. x \in Bytes
    BY <2>2, <2>3 DEF Bytes
  <2>5. Len(x) = 2 /\ x[1] = first /\ x[2] = second
    BY FewAt
  <2> HIDE DEF x
  <2> QED
    BY <2>2, <2>3, <2>4, <2>5
<1>3. /\ y \in Bytes /\ Len(y) = 5 /\ \A i \in 1 .. 5 : y[i][2] \notin Final
  <2>1. /\ y \in Bytes /\ Len(y) = 5
        /\ y[1] = <<m, "name a">> /\ y[2] = <<m, "name b">> /\ y[3] = <<m, "value">>
        /\ y[4] = <<m, "name c">> /\ y[5] = <<m, "value">>
    BY BlockParts
  <2>2. /\ <<m, "name a">>[2] \notin Final /\ <<m, "name b">>[2] \notin Final
        /\ <<m, "value">>[2] \notin Final /\ <<m, "name c">>[2] \notin Final
    BY DEF Final
  <2>3. \A i \in 1 .. 5 : i = 1 \/ i = 2 \/ i = 3 \/ i = 4 \/ i = 5
    OBVIOUS
  <2> HIDE DEF y
  <2> QED
    BY <2>1, <2>2, <2>3, Zenon
<1>4. /\ z \in Bytes /\ Len(z) \in {1, 3}
      /\ \A i \in 1 .. Len(z) : z[i][2] \in Final => i = Len(z) /\ z[i][1] = m
  <2>1. CASE rs[m].body
    <3>1. z = Block(m, TRUE)
      BY <2>1 DEF Block
    <3>2. /\ z \in Bytes /\ Len(z) = 3 /\ z[1] = <<m, "body follows">>
          /\ z[2] = <<m, "body">> /\ z[3] = <<m, "body end">>
      BY <3>1, BlockParts
    <3>3. /\ <<m, "body follows">>[2] \notin Final /\ <<m, "body">>[2] \notin Final
          /\ <<m, "body end">>[1] = m
      BY DEF Final
    <3>4. \A i \in 1 .. 3 : i = 1 \/ i = 2 \/ i = 3
      OBVIOUS
    <3> HIDE DEF z
    <3>5. \A i \in 1 .. 3 : z[i][2] \in Final => i = 3 /\ z[i][1] = m
      BY <3>2, <3>3, <3>4, Zenon
    <3> QED
      BY <3>2, <3>5
  <2>2. CASE ~rs[m].body
    <3>1. z = Block(m, FALSE)
      BY <2>2 DEF Block
    <3>2. z \in Bytes /\ Len(z) = 1 /\ z[1] = <<m, "end">>
      BY <3>1, BlockParts
    <3>3. <<m, "end">>[1] = m /\ \A i \in 1 .. 1 : i = 1
      OBVIOUS
    <3> HIDE DEF z
    <3>4. \A i \in 1 .. 1 : i = 1 /\ z[i][1] = m
      BY <3>2, <3>3, Zenon
    <3> QED
      BY <3>2, <3>4
  <2> QED
    BY <2>1, <2>2
<1> HIDE DEF x, y, z, b, second
<1>5. Lays(b, x, y, z)
  BY <1>1, <1>2, <1>3, <1>4, ThreeJoined
<1>6. /\ b \in Bytes /\ Len(b) = 7 + Len(z) /\ b[1] = x[1] /\ b[2] = x[2]
      /\ \A j \in 1 .. 5 : b[2 + j] = y[j]
      /\ \A j \in 1 .. Len(z) : b[7 + j] = z[j]
  BY <1>2, <1>4, <1>5 DEF Lays
<1>7. ASSUME NEW i \in 1 .. Len(b), b[i][2] \in Final PROVE i = Len(b) /\ b[i][1] = m
  <2>1. CASE i \in 1 .. 2
    BY <1>2, <1>6, <1>7, <2>1
  <2>2. CASE i \in 3 .. 7
    <3>1. i - 2 \in 1 .. 5 /\ 2 + (i - 2) = i
      BY <2>2
    <3>2. b[i] = y[i - 2]
      BY <1>6, <3>1
    <3> QED
      BY <1>3, <1>7, <3>1, <3>2
  <2>3. CASE i \in 8 .. Len(b)
    <3>1. i - 7 \in 1 .. Len(z) /\ 7 + (i - 7) = i
      BY <1>4, <1>6, <2>3
    <3>2. b[i] = z[i - 7]
      BY <1>6, <3>1
    <3>3. i - 7 = Len(z) /\ z[i - 7][1] = m
      BY <1>4, <1>7, <3>1, <3>2
    <3> QED
      BY <1>4, <1>6, <3>2, <3>3
  <2> QED
    BY <1>4, <1>6, <2>1, <2>2, <2>3
<1>8. Len(b) \in Nat /\ Len(b) >= 8
  <2>1. Len(z) = 1 \/ Len(z) = 3
    BY <1>4
  <2>2. Len(b) = 7 + Len(z)
    BY <1>6
  <2> QED
    BY <2>1, <2>2
<1> QED
  BY <1>2, <1>6, <1>7, <1>8 DEF b, second

\* A response is its status, its headers and its body.
ResponseIs(b, m, body) ==
  /\ b \in Bytes /\ Len(b) = Size1(body)
  /\ b[1] = <<m, "status">> /\ b[2] = <<m, "name a">> /\ b[3] = <<m, "name b">>
  /\ b[4] = <<m, "value">> /\ b[5] = <<m, "name c">> /\ b[6] = <<m, "value">>
  /\ body => /\ b[7] = <<m, "body follows">> /\ b[8] = <<m, "body">>
             /\ b[9] = <<m, "body end">>
  /\ ~body => b[7] = <<m, "end">>

LEMMA ResponseParts ==
  ASSUME NEW m \in Nat, NEW body \in BOOLEAN
  PROVE  ResponseIs(Bytes1(m, body), m, body)
<1> DEFINE t == <<m, "status">>
           x == <<t>>
           y == Headers(m)
           z == Block(m, body)
           b == Bytes1(m, body)
<1>1. b = (x \o y) \o z
  BY DEF Bytes1
<1>2. x \in Bytes /\ Len(x) = 1 /\ x[1] = t
  <2>1. x \in Bytes
    BY ResponseBytes
  <2> HIDE DEF t
  <2> QED
    BY <2>1, FewAt
<1>3. /\ y \in Bytes /\ Len(y) = 5 /\ y[1] = <<m, "name a">> /\ y[2] = <<m, "name b">>
      /\ y[3] = <<m, "value">> /\ y[4] = <<m, "name c">> /\ y[5] = <<m, "value">>
  BY BlockParts
<1>4. /\ body => /\ z \in Bytes /\ Len(z) = 3 /\ z[1] = <<m, "body follows">>
                 /\ z[2] = <<m, "body">> /\ z[3] = <<m, "body end">>
      /\ ~body => z \in Bytes /\ Len(z) = 1 /\ z[1] = <<m, "end">>
  <2>1. CASE body
    <3>1. z = Block(m, TRUE)
      BY <2>1
    <3> HIDE DEF z
    <3> QED
      BY <2>1, <3>1, BlockParts
  <2>2. CASE ~body
    <3>1. z = Block(m, FALSE)
      BY <2>2
    <3> HIDE DEF z
    <3> QED
      BY <2>2, <3>1, BlockParts
  <2> QED
    BY <2>1, <2>2
<1> HIDE DEF t, x, y, z, b
<1>5. Lays(b, x, y, z)
  BY <1>1, <1>2, <1>3, <1>4, ThreeJoined
<1>6. Len(y) = 5 /\ Len(x) = 1 /\ Len(z) \in {1, 3} /\ Len(z) = IF body THEN 3 ELSE 1
  <2>1. body => Len(z) = 3
    BY <1>4
  <2>2. ~body => Len(z) = 1
    BY <1>4
  <2> QED
    BY <1>2, <1>3, <2>1, <2>2
<1>7. /\ b \in Bytes /\ Len(b) = 6 + Len(z) /\ b[1] = x[1]
      /\ b[2] = y[1] /\ b[3] = y[2] /\ b[4] = y[3] /\ b[5] = y[4] /\ b[6] = y[5]
      /\ \A j \in 1 .. Len(z) : b[6 + j] = z[j]
  BY <1>5, <1>6 DEF Lays
<1>8. b[7] = z[1] /\ (body => b[8] = z[2] /\ b[9] = z[3])
  BY <1>6, <1>7
<1>9. Len(b) = Size1(body)
  BY <1>6, <1>7 DEF Size1
<1>10. x[1] = <<m, "status">>
  BY <1>2 DEF t
<1> QED
  <2>1. /\ b[1] = <<m, "status">> /\ b[2] = <<m, "name a">> /\ b[3] = <<m, "name b">>
        /\ b[4] = <<m, "value">> /\ b[5] = <<m, "name c">> /\ b[6] = <<m, "value">>
    BY <1>3, <1>7, <1>10, Zenon
  <2>2. ~body => b[7] = <<m, "end">>
    BY <1>4, <1>8, Zenon
  <2>3. body => /\ b[7] = <<m, "body follows">> /\ b[8] = <<m, "body">>
               /\ b[9] = <<m, "body end">>
    BY <1>4, <1>8, Zenon
  <2>4. ResponseIs(b, m, body)
    BY <1>7, <1>9, <2>1, <2>2, <2>3, Zenon DEF ResponseIs
  <2> QED
    BY <2>4 DEF b

-----------------------------------------------------------------------------
(* What a parser makes of the bytes of one message.                        *)

\* A byte of a request queues nothing, or the request it ends.
Queues(r, s, m) == \E e : e.message = m /\ r.pending = Append(s.pending, e)

LEMMA RequestByteQueues ==
  ASSUME NEW s \in Server1Type, NEW t \in Tokens
  PROVE  LET r == RequestByte(s, t)
         IN  r.pending = s.pending \/ (t[2] \in Final /\ Queues(r, s, t[1]))
<1> DEFINE keep == t[1] \in DOMAIN requests /\ ~requests[t[1]].close
           r == RequestByte(s, t)
<1>1. r = Callbacks(s, t, {"P", "method"}, keep)
  BY DEF RequestByte
<1> HIDE DEF keep, r
<1>2. /\ OnMessageBegin(s).pending = s.pending
      /\ [s EXCEPT !.url = Append(@, t)].pending = s.pending
      /\ [s EXCEPT !.at = "error"].pending = s.pending
  BY DEF OnMessageBegin, Server1Type
<1>3. FinalizeHeaderIfReady(s).pending = s.pending /\ FinalizeHeaderIfReady(s) \in Server1Type
  <2>1. FinalizeHeaderIfReady(s).pending = s.pending
    BY DEF FinalizeHeaderIfReady, Server1Type
  <2>2. Parsing({x \in Server1Type : Same1(x, s)}) /\ s \in {x \in Server1Type : Same1(x, s)}
    BY ServersParse DEF Same1
  <2>3. FinalizeHeaderIfReady(s) \in {x \in Server1Type : Same1(x, s)}
    BY <2>2, FinalizeHeaderStays
  <2> QED
    BY <2>1, <2>3
<1>4. OnHeaderField(s, t).pending = s.pending
  <2> DEFINE f == FinalizeHeaderIfReady(s)
             g == IF s.reading THEN [f EXCEPT !.reading = FALSE] ELSE s
  <2>1. f \in Server1Type /\ f.pending = s.pending
    BY <1>3
  <2> HIDE DEF f
  <2>2. g \in Server1Type /\ g.pending = s.pending
    BY <2>1, ZenonT(40) DEF Server1Type
  <2>3. OnHeaderField(s, t) = [g EXCEPT !.field = Append(@, t)]
    BY DEF OnHeaderField, f
  <2> HIDE DEF g
  <2> QED
    BY <2>2, <2>3 DEF Server1Type
<1>5. OnHeaderValue(s, t).pending = s.pending /\ OnHeadersComplete(s).pending = s.pending
  BY <1>3 DEF OnHeaderValue, OnHeadersComplete, Server1Type
<1>6. OnBody(s, t).pending = s.pending /\ OnBody(s, t) \in Server1Type
  <2>1. Append(s.body, t) \in Bytes
    BY BytesFacts DEF Server1Type
  <2> QED
    BY <2>1 DEF OnBody, Server1Type
<1>7. ASSUME NEW y \in Server1Type, y.pending = s.pending
      PROVE  Queues(OnMessageComplete(y, t[1], keep), s, t[1])
  <2> DEFINE e == [message |-> t[1], url |-> y.url, headers |-> y.headers,
                   body |-> y.body, keep |-> keep]
  <2>1. OnMessageComplete(y, t[1], keep).pending = Append(s.pending, e)
    BY <1>7 DEF OnMessageComplete, Server1Type
  <2>2. e.message = t[1]
    OBVIOUS
  <2> QED
    BY <2>1, <2>2 DEF Queues
<1>8. /\ Queues(OnMessageComplete(OnHeadersComplete(s), t[1], keep), s, t[1])
      /\ Queues(OnMessageComplete(OnBody(s, t), t[1], keep), s, t[1])
  BY <1>3, <1>6, <1>7 DEF OnHeadersComplete
<1>9. r.pending = s.pending \/ (t[2] \in Final /\ Queues(r, s, t[1]))
  <2>1. CASE t[2] \in Final
    BY <1>1, <1>2, <1>4, <1>5, <1>6, <1>8, <2>1 DEF Callbacks
  <2>2. CASE t[2] \notin Final
    <3>1. t[2] # "end" /\ t[2] # "body end"
      BY <2>2 DEF Final
    <3> QED
      BY <1>1, <1>2, <1>4, <1>5, <1>6, <3>1 DEF Callbacks
  <2> QED
    BY <2>1, <2>2
<1> QED
  BY <1>9 DEF r

\* The next bytes of a request queue nothing, or they are the last and queue it.
Feeds(r, s, m, a, x) == r.pending = s.pending \/ (x = <<>> /\ a # <<>> /\ Queues(r, s, m))

LEMMA RequestFed ==
  ASSUME NEW s \in Server1Type, NEW rs, NEW m \in Nat, NEW u \in Bytes, NEW a \in Bytes,
         NEW x \in Bytes, SerializeRequest(rs, m) = u \o (a \o x)
  PROVE  Feeds(ProcessReceivedData(s, a), s, m, a, x)
<1> DEFINE b == SerializeRequest(rs, m)
           ax == a \o x
           i == Len(u)
           R == {p \in Nat \X Server1Type :
                   \/ p[2].pending = s.pending
                   \/ p[1] # 0 /\ i + p[1] = Len(b) /\ Queues(p[2], s, m)}
<1>1. /\ Len(b) \in Nat
      /\ \A j \in 1 .. Len(b) : b[j][2] \in Final => j = Len(b) /\ b[j][1] = m
  BY RequestParts
<1>2. Joins(ax, a, x)
  BY JoinedAt
<1>3. ax \in Bytes
  BY <1>2 DEF Joins
<1>4. Joins(b, u, ax)
  BY <1>3, JoinedAt
<1>5. i \in Nat /\ Len(a) \in Nat /\ Len(x) \in Nat
  BY DEF Bytes
<1> HIDE DEF b, ax, i
<1>6. Len(b) = i + (Len(a) + Len(x))
  BY <1>2, <1>4, <1>5 DEF Joins, i
<1>7. ASSUME NEW k \in 0 .. Len(a) - 1
      PROVE  b[i + (k + 1)] = a[k + 1] /\ i + (k + 1) \in 1 .. Len(b)
  <2>1. k + 1 \in 1 .. Len(a) /\ k + 1 \in 1 .. Len(a) + Len(x)
    BY <1>5
  <2>2. Len(ax) = Len(a) + Len(x) /\ ax[k + 1] = a[k + 1]
    BY <1>2, <2>1 DEF Joins
  <2>3. b[i + (k + 1)] = ax[k + 1]
    BY <1>4, <2>1, <2>2 DEF Joins, i
  <2>4. i + (k + 1) \in 1 .. Len(b)
    BY <1>5, <1>6, <2>1
  <2> QED
    BY <2>2, <2>3, <2>4
<1>8. ASSUME NEW y \in Server1Type, NEW t \in Tokens PROVE RequestByte(y, t) \in Server1Type
  <2> DEFINE keep == t[1] \in DOMAIN requests /\ ~requests[t[1]].close
             S == {z \in Server1Type : Same1(z, y)}
  <2>1. keep \in BOOLEAN /\ Parsing(S) /\ y \in S
    BY ServersParse DEF Same1
  <2> HIDE DEF keep, S
  <2>2. Callbacks(y, t, {"P", "method"}, keep) \in S
    BY <2>1, CallbacksStay
  <2> QED
    BY <2>2 DEF RequestByte, keep, S
<1>9. ASSUME NEW k \in 0 .. Len(a) - 1, NEW y \in Server1Type, <<k, y>> \in R
      PROVE  <<k + 1, RequestByte(y, a[k + 1])>> \in R
  <2> DEFINE t == a[k + 1]
             z == RequestByte(y, t)
  <2>1. t \in Tokens
    <3>1. k + 1 \in 1 .. Len(a)
      BY <1>5
    <3> QED
      BY <3>1 DEF Bytes
  <2>2. z \in Server1Type /\ k + 1 \in Nat
    BY <1>8, <2>1
  <2>3. y.pending = s.pending
    BY <1>5, <1>6, <1>9
  <2>4. z.pending = y.pending \/ (t[2] \in Final /\ Queues(z, y, t[1]))
    BY <2>1, RequestByteQueues
  <2>5. t[2] \in Final => i + (k + 1) = Len(b) /\ t[1] = m
    BY <1>1, <1>7
  <2> HIDE DEF t, z
  <2>6. Queues(z, y, m) => Queues(z, s, m)
    BY <2>3 DEF Queues
  <2>7. z.pending = s.pending \/ (i + (k + 1) = Len(b) /\ Queues(z, s, m))
    BY <2>3, <2>4, <2>5, <2>6
  <2>8. k + 1 # 0
    BY <1>5
  <2>9. <<k + 1, z>> \in R
    BY <2>2, <2>7, <2>8
  <2> QED
    BY <2>9 DEF z, t
<1>10. <<0, s>> \in R
  OBVIOUS
<1> HIDE DEF R
<1>11. <<Len(a), ProcessReceivedData(s, a)>> \in R
  BY <1>8, <1>9, <1>10, ProcessReceivedDataGoes DEF Bytes
<1>12. (i + Len(a) = Len(b) => x = <<>>) /\ (Len(a) # 0 => a # <<>>)
  <2>1. i + Len(a) = Len(b) => Len(x) = 0
    BY <1>5, <1>6
  <2> QED
    BY <2>1 DEF Bytes
<1> QED
  BY <1>11, <1>12 DEF R, Feeds

\* What the callbacks leave of the client's session.
SameClient1(y, s) == y.results = s.results /\ y.pc = s.pc /\ y.out = s.out

\* The parts of a session that say where its parser is.
PlaceOf(y, at, pending, field, reading, names, body) ==
  /\ y.at = at /\ y.pending = pending /\ y.field = field /\ y.reading = reading
  /\ DOMAIN y.headers = names /\ y.body = body

\* What each callback does to them.
LEMMA CallbackPlaces ==
  ASSUME NEW s \in Client1Type, NEW t \in Tokens, NEW m, NEW keep
  PROVE  /\ LET y == OnMessageBegin(s)
            IN  PlaceOf(y, "message", s.pending, <<>>, FALSE, {}, <<>>) /\ SameClient1(y, s)
         /\ LET y == FinalizeHeaderIfReady(s)
            IN  /\ PlaceOf(y, s.at, s.pending, <<>>, s.reading,
                           DOMAIN s.headers \cup (IF s.field = <<>> THEN {} ELSE {s.field}),
                           s.body)
                /\ SameClient1(y, s)
         /\ LET y == OnHeaderField(s, t)
            IN  /\ s.reading =>
                     PlaceOf(y, s.at, s.pending, <<t>>, FALSE,
                             DOMAIN s.headers \cup (IF s.field = <<>> THEN {} ELSE {s.field}),
                             s.body)
                /\ ~s.reading =>
                     PlaceOf(y, s.at, s.pending, Append(s.field, t), FALSE,
                             DOMAIN s.headers, s.body)
                /\ SameClient1(y, s)
         /\ LET y == OnHeaderValue(s, t)
            IN  /\ PlaceOf(y, s.at, s.pending, s.field, TRUE, DOMAIN s.headers, s.body)
                /\ SameClient1(y, s)
         /\ LET y == OnBody(s, t)
            IN  /\ PlaceOf(y, s.at, s.pending, s.field, s.reading, DOMAIN s.headers,
                           Append(s.body, t))
                /\ SameClient1(y, s)
         /\ LET y == OnMessageComplete(s, m, TRUE)
            IN  /\ y.at = "start" /\ SameClient1(y, s)
                /\ y.pending = Append(s.pending, [message |-> m, url |-> s.url,
                                                  headers |-> s.headers, body |-> s.body,
                                                  keep |-> TRUE])
<1>1. PlaceOf(OnMessageBegin(s), "message", s.pending, <<>>, FALSE, {}, <<>>)
      /\ SameClient1(OnMessageBegin(s), s)
  BY DEF OnMessageBegin, Client1Type, PlaceOf, SameClient1
<1> DEFINE f == FinalizeHeaderIfReady(s)
           names == DOMAIN s.headers \cup (IF s.field = <<>> THEN {} ELSE {s.field})
<1>2. f \in Client1Type
  BY ClientsParse, FinalizeHeaderStays
<1>3. PlaceOf(f, s.at, s.pending, <<>>, s.reading, names, s.body) /\ SameClient1(f, s)
  <2>1. CASE s.field = <<>>
    BY <2>1 DEF FinalizeHeaderIfReady, PlaceOf, SameClient1
  <2>2. CASE s.field # <<>>
    <3>1. f = [s EXCEPT !.headers = Put(@, s.field, s.value), !.field = <<>>, !.value = <<>>]
      BY <2>2 DEF FinalizeHeaderIfReady
    <3>2. DOMAIN Put(s.headers, s.field, s.value) = DOMAIN s.headers \cup {s.field}
      BY DEF Put
    <3> HIDE DEF f
    <3>3. f.headers = Put(s.headers, s.field, s.value)
      BY <3>1 DEF Client1Type
    <3>4. /\ f.at = s.at /\ f.pending = s.pending /\ f.field = <<>> /\ f.reading = s.reading
          /\ f.body = s.body /\ SameClient1(f, s)
      BY <3>1 DEF Client1Type, SameClient1
    <3> QED
      BY <2>2, <3>2, <3>3, <3>4 DEF PlaceOf
  <2> QED
    BY <2>1, <2>2
<1>4. LET y == OnHeaderField(s, t)
      IN  /\ s.reading => PlaceOf(y, s.at, s.pending, <<t>>, FALSE, names, s.body)
          /\ ~s.reading => PlaceOf(y, s.at, s.pending, Append(s.field, t), FALSE,
                                   DOMAIN s.headers, s.body)
          /\ SameClient1(y, s)
  <2> DEFINE y == OnHeaderField(s, t)
  <2>1. CASE s.reading
    <3>1. y = [[f EXCEPT !.reading = FALSE] EXCEPT !.field = Append(@, t)]
      BY <2>1 DEF OnHeaderField
    <3> HIDE DEF f, y
    <3>2. /\ y.at = f.at /\ y.pending = f.pending /\ y.field = Append(f.field, t)
          /\ y.reading = FALSE /\ y.headers = f.headers /\ y.body = f.body
          /\ SameClient1(y, f)
      BY <1>2, <3>1 DEF Client1Type, SameClient1
    <3>3. Append(<<>>, t) = <<t>>
      OBVIOUS
    <3> HIDE DEF names
    <3>4. PlaceOf(y, s.at, s.pending, <<t>>, FALSE, names, s.body)
      BY <1>3, <3>2, <3>3 DEF PlaceOf
    <3>5. SameClient1(y, s)
      BY <1>3, <3>2 DEF SameClient1
    <3> QED
      BY <2>1, <3>4, <3>5 DEF y
  <2>2. CASE ~s.reading
    <3>1. y = [s EXCEPT !.field = Append(@, t)]
      BY <2>2 DEF OnHeaderField
    <3> HIDE DEF y
    <3>2. /\ y.at = s.at /\ y.pending = s.pending /\ y.field = Append(s.field, t)
          /\ y.reading = s.reading /\ y.headers = s.headers /\ y.body = s.body
          /\ SameClient1(y, s)
      BY <3>1 DEF Client1Type, SameClient1
    <3>3. s.reading = FALSE
      BY <2>2 DEF Client1Type
    <3> QED
      BY <2>2, <3>2, <3>3 DEF PlaceOf, y
  <2> QED
    BY <2>1, <2>2
<1>5. PlaceOf(OnHeaderValue(s, t), s.at, s.pending, s.field, TRUE, DOMAIN s.headers, s.body)
      /\ SameClient1(OnHeaderValue(s, t), s)
  BY DEF OnHeaderValue, Client1Type, PlaceOf, SameClient1
<1>6. PlaceOf(OnBody(s, t), s.at, s.pending, s.field, s.reading, DOMAIN s.headers,
              Append(s.body, t))
      /\ SameClient1(OnBody(s, t), s)
  BY DEF OnBody, Client1Type, PlaceOf, SameClient1
<1>7. LET y == OnMessageComplete(s, m, TRUE)
      IN  /\ y.at = "start" /\ SameClient1(y, s)
          /\ y.pending = Append(s.pending, [message |-> m, url |-> s.url,
                                            headers |-> s.headers, body |-> s.body,
                                            keep |-> TRUE])
  BY DEF OnMessageComplete, Client1Type, SameClient1
<1> HIDE DEF f, names
<1> QED
  BY <1>1, <1>3, <1>4, <1>5, <1>6, <1>7 DEF f, names

\* The same from a place in the message of the response, which is all there is.
LEMMA Moves ==
  ASSUME NEW s \in Client1Type, NEW t \in Tokens, NEW m, NEW field, NEW names, NEW body
  PROVE  /\ s.pending = <<>> => PlaceOf(OnMessageBegin(s), "message", <<>>, <<>>, FALSE, {}, <<>>)
         /\ PlaceOf(s, "message", <<>>, field, FALSE, names, body) =>
              PlaceOf(OnHeaderField(s, t), "message", <<>>, Append(field, t), FALSE, names, body)
         /\ PlaceOf(s, "message", <<>>, field, TRUE, names, body) /\ field # <<>> =>
              /\ PlaceOf(OnHeaderField(s, t), "message", <<>>, <<t>>, FALSE,
                         names \cup {field}, body)
              /\ PlaceOf(FinalizeHeaderIfReady(s), "message", <<>>, <<>>, TRUE,
                         names \cup {field}, body)
         /\ PlaceOf(s, "message", <<>>, field, FALSE, names, body) =>
              PlaceOf(OnHeaderValue(s, t), "message", <<>>, field, TRUE, names, body)
         /\ PlaceOf(s, "message", <<>>, field, TRUE, names, body) =>
              PlaceOf(OnBody(s, t), "message", <<>>, field, TRUE, names, Append(body, t))
<1>1. s.pending = <<>> => PlaceOf(OnMessageBegin(s), "message", <<>>, <<>>, FALSE, {}, <<>>)
  <2>1. PlaceOf(OnMessageBegin(s), "message", s.pending, <<>>, FALSE, {}, <<>>)
    BY CallbackPlaces
  <2> QED
    BY <2>1
<1>2. ASSUME PlaceOf(s, "message", <<>>, field, FALSE, names, body)
      PROVE  /\ PlaceOf(OnHeaderField(s, t), "message", <<>>, Append(field, t), FALSE, names, body)
             /\ PlaceOf(OnHeaderValue(s, t), "message", <<>>, field, TRUE, names, body)
  <2>1. /\ s.at = "message" /\ s.pending = <<>> /\ s.field = field /\ ~s.reading
        /\ DOMAIN s.headers = names /\ s.body = body
    BY <1>2 DEF PlaceOf
  <2>2. PlaceOf(OnHeaderField(s, t), s.at, s.pending, Append(s.field, t), FALSE,
                DOMAIN s.headers, s.body)
    BY <2>1, CallbackPlaces
  <2>3. PlaceOf(OnHeaderValue(s, t), s.at, s.pending, s.field, TRUE, DOMAIN s.headers, s.body)
    BY CallbackPlaces
  <2> QED
    BY <2>1, <2>2, <2>3
<1>3. ASSUME PlaceOf(s, "message", <<>>, field, TRUE, names, body)
      PROVE  /\ field # <<>> =>
                  /\ PlaceOf(OnHeaderField(s, t), "message", <<>>, <<t>>, FALSE,
                             names \cup {field}, body)
                  /\ PlaceOf(FinalizeHeaderIfReady(s), "message", <<>>, <<>>, TRUE,
                             names \cup {field}, body)
             /\ PlaceOf(OnBody(s, t), "message", <<>>, field, TRUE, names, Append(body, t))
  <2>1. /\ s.at = "message" /\ s.pending = <<>> /\ s.field = field /\ s.reading = TRUE
        /\ DOMAIN s.headers = names /\ s.body = body
    BY <1>3 DEF PlaceOf
  <2> DEFINE more == DOMAIN s.headers \cup (IF s.field = <<>> THEN {} ELSE {s.field})
  <2>2. PlaceOf(OnHeaderField(s, t), s.at, s.pending, <<t>>, FALSE, more, s.body)
    BY <2>1, CallbackPlaces
  <2>3. PlaceOf(FinalizeHeaderIfReady(s), s.at, s.pending, <<>>, s.reading, more, s.body)
    BY CallbackPlaces
  <2>4. PlaceOf(OnBody(s, t), s.at, s.pending, s.field, s.reading, DOMAIN s.headers,
                Append(s.body, t))
    BY CallbackPlaces
  <2>5. field # <<>> => more = names \cup {field}
    BY <2>1
  <2> HIDE DEF more
  <2> QED
    BY <2>1, <2>2, <2>3, <2>4, <2>5
<1> QED
  BY <1>1, <1>2, <1>3

\* What each of them leaves, ...
LEMMA CallbacksLeave ==
  ASSUME NEW s \in Client1Type, NEW t \in Tokens
  PROVE  /\ SameClient1(OnMessageBegin(s), s) /\ SameClient1(FinalizeHeaderIfReady(s), s)
         /\ SameClient1(OnHeaderField(s, t), s) /\ SameClient1(OnHeaderValue(s, t), s)
         /\ SameClient1(OnBody(s, t), s)
  BY CallbackPlaces

\* ... and the message's end.
LEMMA MovesBehind ==
  ASSUME NEW s \in Client1Type, NEW m \in Nat, NEW body \in BOOLEAN,
         PlaceOf(s, "message", <<>>, <<>>, TRUE, {Name1(m), Name2(m)},
                 IF body THEN Body(m) ELSE <<>>)
  PROVE  LET y == OnMessageComplete(s, m, TRUE)
         IN  Behind1(y, m, body) /\ SameClient1(y, s)
<1> DEFINE y == OnMessageComplete(s, m, TRUE)
           e == [message |-> m, url |-> s.url, headers |-> s.headers, body |-> s.body,
                 keep |-> TRUE]
<1>1. y.at = "start" /\ SameClient1(y, s) /\ y.pending = Append(s.pending, e)
  BY DEF OnMessageComplete, Client1Type, SameClient1
<1>2. s.pending = <<>> /\ s.body = (IF body THEN Body(m) ELSE <<>>)
      /\ DOMAIN s.headers = {Name1(m), Name2(m)}
  BY DEF PlaceOf
<1>3. e.message = m /\ e.headers = s.headers /\ e.body = s.body
  OBVIOUS
<1> HIDE DEF e, y
<1>4. IsAnswer1(e, m, body)
  BY <1>2, <1>3 DEF IsAnswer1
<1>5. Len(y.pending) = 1 /\ y.pending[1] = e
  BY <1>1, <1>2
<1> QED
  BY <1>1, <1>4, <1>5 DEF Behind1, y

\* The place in the response after k bytes, and the next byte's callback.
LEMMA WithinAt ==
  ASSUME NEW s, NEW m
  PROVE  /\ Within1(s, m, 1) <=> PlaceOf(s, "message", <<>>, <<>>, FALSE, {}, <<>>)
         /\ Within1(s, m, 2) <=> PlaceOf(s, "message", <<>>, <<<<m, "name a">>>>, FALSE, {}, <<>>)
         /\ Within1(s, m, 3) <=> PlaceOf(s, "message", <<>>, Name1(m), FALSE, {}, <<>>)
         /\ Within1(s, m, 4) <=> PlaceOf(s, "message", <<>>, Name1(m), TRUE, {}, <<>>)
         /\ Within1(s, m, 5) <=> PlaceOf(s, "message", <<>>, Name2(m), FALSE, {Name1(m)}, <<>>)
         /\ Within1(s, m, 6) <=> PlaceOf(s, "message", <<>>, Name2(m), TRUE, {Name1(m)}, <<>>)
         /\ Within1(s, m, 7)
              <=> PlaceOf(s, "message", <<>>, <<>>, TRUE, {Name1(m), Name2(m)}, <<>>)
         /\ Within1(s, m, 8)
              <=> PlaceOf(s, "message", <<>>, <<>>, TRUE, {Name1(m), Name2(m)},
                          <<<<m, "body">>>>)
<1> DEFINE a == <<<<m, "name a">>>>
           b == <<<<m, "body">>>>
<1>1. /\ FieldAt(m, 1) = <<>> /\ FieldAt(m, 2) = a /\ FieldAt(m, 3) = Name1(m)
      /\ FieldAt(m, 4) = Name1(m) /\ FieldAt(m, 5) = Name2(m) /\ FieldAt(m, 6) = Name2(m)
      /\ FieldAt(m, 7) = <<>> /\ FieldAt(m, 8) = <<>>
  BY DEF FieldAt
<1>2. /\ NamesAt(m, 1) = {} /\ NamesAt(m, 2) = {} /\ NamesAt(m, 3) = {} /\ NamesAt(m, 4) = {}
      /\ NamesAt(m, 5) = {Name1(m)} /\ NamesAt(m, 6) = {Name1(m)}
      /\ NamesAt(m, 7) = {Name1(m), Name2(m)} /\ NamesAt(m, 8) = {Name1(m), Name2(m)}
  BY DEF NamesAt
<1>3. ASSUME NEW k
      PROVE  Within1(s, m, k)
               <=> PlaceOf(s, "message", <<>>, FieldAt(m, k), k \in {4, 6, 7, 8},
                           NamesAt(m, k), IF k = 8 THEN b ELSE <<>>)
  BY DEF Within1, PlaceOf
<1>4. Within1(s, m, 1)
         <=> PlaceOf(s, "message", <<>>, <<>>, FALSE, {}, <<>>)
  <2>1. (1 \in {4, 6, 7, 8}) = FALSE /\ (IF 1 = 8 THEN b ELSE <<>>) = <<>>
    OBVIOUS
  <2>2. Within1(s, m, 1)
          <=> PlaceOf(s, "message", <<>>, FieldAt(m, 1), 1 \in {4, 6, 7, 8},
                      NamesAt(m, 1), IF 1 = 8 THEN b ELSE <<>>)
    BY <1>3
  <2> HIDE DEF a, b
  <2> QED
    BY <1>1, <1>2, <2>1, <2>2
<1>5. Within1(s, m, 2)
         <=> PlaceOf(s, "message", <<>>, a, FALSE, {}, <<>>)
  <2>1. (2 \in {4, 6, 7, 8}) = FALSE /\ (IF 2 = 8 THEN b ELSE <<>>) = <<>>
    OBVIOUS
  <2>2. Within1(s, m, 2)
          <=> PlaceOf(s, "message", <<>>, FieldAt(m, 2), 2 \in {4, 6, 7, 8},
                      NamesAt(m, 2), IF 2 = 8 THEN b ELSE <<>>)
    BY <1>3
  <2> HIDE DEF a, b
  <2> QED
    BY <1>1, <1>2, <2>1, <2>2
<1>6. Within1(s, m, 3)
         <=> PlaceOf(s, "message", <<>>, Name1(m), FALSE, {}, <<>>)
  <2>1. (3 \in {4, 6, 7, 8}) = FALSE /\ (IF 3 = 8 THEN b ELSE <<>>) = <<>>
    OBVIOUS
  <2>2. Within1(s, m, 3)
          <=> PlaceOf(s, "message", <<>>, FieldAt(m, 3), 3 \in {4, 6, 7, 8},
                      NamesAt(m, 3), IF 3 = 8 THEN b ELSE <<>>)
    BY <1>3
  <2> HIDE DEF a, b
  <2> QED
    BY <1>1, <1>2, <2>1, <2>2
<1>7. Within1(s, m, 4)
         <=> PlaceOf(s, "message", <<>>, Name1(m), TRUE, {}, <<>>)
  <2>1. (4 \in {4, 6, 7, 8}) = TRUE /\ (IF 4 = 8 THEN b ELSE <<>>) = <<>>
    OBVIOUS
  <2>2. Within1(s, m, 4)
          <=> PlaceOf(s, "message", <<>>, FieldAt(m, 4), 4 \in {4, 6, 7, 8},
                      NamesAt(m, 4), IF 4 = 8 THEN b ELSE <<>>)
    BY <1>3
  <2> HIDE DEF a, b
  <2> QED
    BY <1>1, <1>2, <2>1, <2>2
<1>8. Within1(s, m, 5)
         <=> PlaceOf(s, "message", <<>>, Name2(m), FALSE, {Name1(m)}, <<>>)
  <2>1. (5 \in {4, 6, 7, 8}) = FALSE /\ (IF 5 = 8 THEN b ELSE <<>>) = <<>>
    OBVIOUS
  <2>2. Within1(s, m, 5)
          <=> PlaceOf(s, "message", <<>>, FieldAt(m, 5), 5 \in {4, 6, 7, 8},
                      NamesAt(m, 5), IF 5 = 8 THEN b ELSE <<>>)
    BY <1>3
  <2> HIDE DEF a, b
  <2> QED
    BY <1>1, <1>2, <2>1, <2>2
<1>9. Within1(s, m, 6)
         <=> PlaceOf(s, "message", <<>>, Name2(m), TRUE, {Name1(m)}, <<>>)
  <2>1. (6 \in {4, 6, 7, 8}) = TRUE /\ (IF 6 = 8 THEN b ELSE <<>>) = <<>>
    OBVIOUS
  <2>2. Within1(s, m, 6)
          <=> PlaceOf(s, "message", <<>>, FieldAt(m, 6), 6 \in {4, 6, 7, 8},
                      NamesAt(m, 6), IF 6 = 8 THEN b ELSE <<>>)
    BY <1>3
  <2> HIDE DEF a, b
  <2> QED
    BY <1>1, <1>2, <2>1, <2>2
<1>10. Within1(s, m, 7)
         <=> PlaceOf(s, "message", <<>>, <<>>, TRUE, {Name1(m), Name2(m)}, <<>>)
  <2>1. (7 \in {4, 6, 7, 8}) = TRUE /\ (IF 7 = 8 THEN b ELSE <<>>) = <<>>
    OBVIOUS
  <2>2. Within1(s, m, 7)
          <=> PlaceOf(s, "message", <<>>, FieldAt(m, 7), 7 \in {4, 6, 7, 8},
                      NamesAt(m, 7), IF 7 = 8 THEN b ELSE <<>>)
    BY <1>3
  <2> HIDE DEF a, b
  <2> QED
    BY <1>1, <1>2, <2>1, <2>2
<1>11. Within1(s, m, 8)
         <=> PlaceOf(s, "message", <<>>, <<>>, TRUE, {Name1(m), Name2(m)}, b)
  <2>1. (8 \in {4, 6, 7, 8}) = TRUE /\ (IF 8 = 8 THEN b ELSE <<>>) = b
    OBVIOUS
  <2>2. Within1(s, m, 8)
          <=> PlaceOf(s, "message", <<>>, FieldAt(m, 8), 8 \in {4, 6, 7, 8},
                      NamesAt(m, 8), IF 8 = 8 THEN b ELSE <<>>)
    BY <1>3
  <2> HIDE DEF a, b
  <2> QED
    BY <1>1, <1>2, <2>1, <2>2
<1> QED
  BY <1>4, <1>5, <1>6, <1>7, <1>8, <1>9, <1>10, <1>11

\* The bytes of a name, of a body, one by one.
LEMMA AppendAt ==
  ASSUME NEW T, NEW x \in Seq(T), NEW b \in T
  PROVE  /\ Append(x, b) \in Seq(T) /\ Len(Append(x, b)) = Len(x) + 1
         /\ Append(x, b)[Len(x) + 1] = b
         /\ \A i \in 1 .. Len(x) : Append(x, b)[i] = x[i]
  OBVIOUS

LEMMA AppendFew ==
  ASSUME NEW a, NEW b
  PROVE  Append(<<>>, a) = <<a>> /\ Append(<<a>>, b) = <<a, b>>
<1> DEFINE T == {a, b}
           x == <<a>>
           y == Append(x, b)
           z == <<a, b>>
<1>1. <<>> \in Seq(T) /\ a \in T /\ b \in T
  OBVIOUS
<1>2. x \in Seq(T) /\ Len(x) = 1 /\ x[1] = a
  OBVIOUS
<1>3. z \in Seq(T) /\ Len(z) = 2 /\ z[1] = a /\ z[2] = b
  OBVIOUS
<1> HIDE DEF T, x, z
<1>4. Append(<<>>, a) = <<a>>
  BY <1>1
<1>5. y \in Seq(T) /\ Len(y) = 2 /\ y[1] = x[1] /\ y[2] = b
  <2>1. x \in Seq(T) /\ b \in T
    BY <1>1, <1>2
  <2>2. /\ y \in Seq(T) /\ Len(y) = Len(x) + 1 /\ y[Len(x) + 1] = b
        /\ \A i \in 1 .. Len(x) : y[i] = x[i]
    BY <2>1, AppendAt
  <2> HIDE DEF y
  <2> QED
    BY <1>2, <2>2
<1> HIDE DEF y
<1>6. \A i \in 1 .. 2 : y[i] = z[i]
  BY <1>2, <1>3, <1>5
<1>7. y = z
  BY <1>3, <1>5, <1>6, SeqEqual
<1> QED
  BY <1>4, <1>7 DEF x, y, z

LEMMA NamesByByte ==
  ASSUME NEW m
  PROVE  /\ Append(<<>>, <<m, "name a">>) = <<<<m, "name a">>>>
         /\ Append(<<<<m, "name a">>>>, <<m, "name b">>) = Name1(m)
         /\ <<<<m, "name c">>>> = Name2(m)
         /\ Append(<<>>, <<m, "body">>) = <<<<m, "body">>>>
         /\ Append(<<<<m, "body">>>>, <<m, "body end">>) = Body(m)
         /\ Name1(m) # <<>> /\ Name2(m) # <<>>
<1> DEFINE a == <<m, "name a">>
           b == <<m, "name b">>
           c == <<m, "name c">>
           g == <<m, "body">>
           h == <<m, "body end">>
<1>1. Name1(m) = <<a, b>> /\ Name2(m) = <<c>> /\ Body(m) = <<g, h>>
  BY DEF Name1, Name2, Body
<1> HIDE DEF a, b, c, g, h
<1>2. <<a, b>> # <<>> /\ <<c>> # <<>>
  OBVIOUS
<1>3. /\ Append(<<>>, a) = <<a>> /\ Append(<<a>>, b) = Name1(m) /\ <<c>> = Name2(m)
      /\ Append(<<>>, g) = <<g>> /\ Append(<<g>>, h) = Body(m)
      /\ Name1(m) # <<>> /\ Name2(m) # <<>>
  BY <1>1, <1>2, AppendFew
<1> QED
  BY <1>3 DEF a, b, c, g, h

LEMMA CallbackOf ==
  ASSUME NEW s, NEW t
  PROVE  /\ t[2] = "status" /\ s.at = "start" => ResponseByte(s, t) = OnMessageBegin(s)
         /\ t[2] \in {"name a", "name b", "name c"} /\ s.at = "message"
              => ResponseByte(s, t) = OnHeaderField(s, t)
         /\ t[2] = "value" /\ s.at = "message" => ResponseByte(s, t) = OnHeaderValue(s, t)
         /\ t[2] = "body follows" /\ s.at = "message"
              => ResponseByte(s, t) = FinalizeHeaderIfReady(s)
         /\ t[2] = "body" /\ s.at = "message" => ResponseByte(s, t) = OnBody(s, t)
         /\ t[2] = "end" /\ s.at = "message"
              => ResponseByte(s, t) = OnMessageComplete(FinalizeHeaderIfReady(s), t[1], TRUE)
         /\ t[2] = "body end" /\ s.at = "message"
              => ResponseByte(s, t) = OnMessageComplete(OnBody(s, t), t[1], TRUE)
  BY DEF ResponseByte, Callbacks, OnHeadersComplete

\* The parser goes from each place in the response to the next.
LEMMA ResponseByteParsed ==
  ASSUME NEW s \in Client1Type, NEW m \in Nat, NEW body \in BOOLEAN,
         NEW k \in 0 .. Size1(body) - 1, Parsed(s, m, body, k)
  PROVE  LET y == ResponseByte(s, Bytes1(m, body)[k + 1])
         IN  Parsed(y, m, body, k + 1) /\ SameClient1(y, s)
<1> DEFINE b == Bytes1(m, body)
           t == b[k + 1]
           y == ResponseByte(s, t)
           Next(j) == Parsed(y, m, body, j + 1) /\ SameClient1(y, s)
<1>1. ResponseIs(b, m, body)
  BY ResponseParts
<1> HIDE DEF b
<1>2. /\ Size1(body) = IF body THEN 9 ELSE 7
      /\ body => Size1(body) = 9
      /\ ~body => Size1(body) = 7
  BY DEF Size1
<1>3. t \in Tokens
  <2>1. b \in Seq(Tokens) /\ Len(b) = Size1(body)
    BY <1>1 DEF ResponseIs, Bytes
  <2>2. k + 1 \in 1 .. Len(b)
    BY <1>2, <2>1
  <2> QED
    BY <2>1, <2>2
<1> HIDE DEF t
<1>4. /\ b[1] = <<m, "status">> /\ b[2] = <<m, "name a">> /\ b[3] = <<m, "name b">>
      /\ b[4] = <<m, "value">> /\ b[5] = <<m, "name c">> /\ b[6] = <<m, "value">>
  BY <1>1, Zenon DEF ResponseIs
<1>5. /\ body => b[7] = <<m, "body follows">> /\ b[8] = <<m, "body">> /\ b[9] = <<m, "body end">>
      /\ ~body => b[7] = <<m, "end">>
  BY <1>1, Zenon DEF ResponseIs
<1>6. \A j : k = j => t = b[j + 1]
  BY DEF t
<1>7. Parsed(s, m, body, 0) => s.at = "start" /\ s.pending = <<>>
  BY DEF Parsed, Before1
<1>8. ASSUME NEW j \in 1 .. 8, j # Size1(body)
      PROVE  Parsed(s, m, body, j) <=> Within1(s, m, j)
  BY <1>2, <1>8 DEF Parsed
<1>9. ASSUME NEW j \in 1 .. 8, j # Size1(body)
      PROVE  Parsed(y, m, body, j) <=> Within1(y, m, j)
  BY <1>2, <1>9 DEF Parsed
<1>10. Parsed(y, m, body, Size1(body)) <=> Behind1(y, m, body)
  BY <1>2 DEF Parsed
<1>11. ASSUME NEW field, NEW reading, NEW names, NEW x,
              PlaceOf(s, "message", <<>>, field, reading, names, x)
       PROVE  s.at = "message"
  BY <1>11 DEF PlaceOf
<1>12. ASSUME k = 0 PROVE Next(0)
  <2>1. t = <<m, "status">> /\ t[2] = "status"
    <3>1. t = b[1]
      BY <1>6, <1>12
    <3>2. <<m, "status">>[2] = "status"
      OBVIOUS
    <3> QED
      BY <1>4, <3>1, <3>2, Zenon
  <2>3. s.at = "start" /\ s.pending = <<>>
    BY <1>7, <1>12
  <2>4. y = OnMessageBegin(s)
    BY <2>1, <2>3, CallbackOf
  <2>6. PlaceOf(y, "message", <<>>, <<>>, FALSE, {}, <<>>) /\ SameClient1(y, s)
    BY <1>3, <2>3, <2>4, Moves, CallbacksLeave
  <2>7. Parsed(y, m, body, 1)
    <3>1. 1 \in 1 .. 8 /\ 1 # Size1(body)
      BY <1>2
    <3>2. Within1(y, m, 1)
      BY <2>6, WithinAt
    <3> QED
      BY <1>9, <3>1, <3>2
  <2>8. 0 + 1 = 1
    OBVIOUS
  <2> QED
    BY <2>6, <2>7, <2>8
<1>13. ASSUME k = 1 PROVE Next(1)
  <2>1. t = <<m, "name a">> /\ t[2] = "name a"
    <3>1. t = b[2]
      BY <1>6, <1>13
    <3>2. <<m, "name a">>[2] = "name a"
      OBVIOUS
    <3> QED
      BY <1>4, <3>1, <3>2, Zenon
  <2>2. PlaceOf(s, "message", <<>>, <<>>, FALSE, {}, <<>>)
    <3>1. 1 \in 1 .. 8 /\ 1 # Size1(body)
      BY <1>2
    <3>2. Within1(s, m, 1)
      BY <1>8, <1>13, <3>1
    <3> QED
      BY <3>2, WithinAt
  <2>3. s.at = "message"
    BY <1>11, <2>2
  <2>4. y = OnHeaderField(s, t)
    BY <2>1, <2>3, CallbackOf
  <2>5. Append(<<>>, t) = <<<<m, "name a">>>>
    BY <2>1, NamesByByte, Zenon
  <2>6. PlaceOf(y, "message", <<>>, <<<<m, "name a">>>>, FALSE, {}, <<>>) /\ SameClient1(y, s)
    BY <1>3, <2>2, <2>4, <2>5, Moves, CallbacksLeave
  <2>7. Parsed(y, m, body, 2)
    <3>1. 2 \in 1 .. 8 /\ 2 # Size1(body)
      BY <1>2
    <3>2. Within1(y, m, 2)
      BY <2>6, WithinAt
    <3> QED
      BY <1>9, <3>1, <3>2
  <2>8. 1 + 1 = 2
    OBVIOUS
  <2> QED
    BY <2>6, <2>7, <2>8
<1>14. ASSUME k = 2 PROVE Next(2)
  <2>1. t = <<m, "name b">> /\ t[2] = "name b"
    <3>1. t = b[3]
      BY <1>6, <1>14
    <3>2. <<m, "name b">>[2] = "name b"
      OBVIOUS
    <3> QED
      BY <1>4, <3>1, <3>2, Zenon
  <2>2. PlaceOf(s, "message", <<>>, <<<<m, "name a">>>>, FALSE, {}, <<>>)
    <3>1. 2 \in 1 .. 8 /\ 2 # Size1(body)
      BY <1>2
    <3>2. Within1(s, m, 2)
      BY <1>8, <1>14, <3>1
    <3> QED
      BY <3>2, WithinAt
  <2>3. s.at = "message"
    BY <1>11, <2>2
  <2>4. y = OnHeaderField(s, t)
    BY <2>1, <2>3, CallbackOf
  <2>5. Append(<<<<m, "name a">>>>, t) = Name1(m)
    BY <2>1, NamesByByte, Zenon
  <2>6. PlaceOf(y, "message", <<>>, Name1(m), FALSE, {}, <<>>) /\ SameClient1(y, s)
    BY <1>3, <2>2, <2>4, <2>5, Moves, CallbacksLeave
  <2>7. Parsed(y, m, body, 3)
    <3>1. 3 \in 1 .. 8 /\ 3 # Size1(body)
      BY <1>2
    <3>2. Within1(y, m, 3)
      BY <2>6, WithinAt
    <3> QED
      BY <1>9, <3>1, <3>2
  <2>8. 2 + 1 = 3
    OBVIOUS
  <2> QED
    BY <2>6, <2>7, <2>8
<1>15. ASSUME k = 3 PROVE Next(3)
  <2>1. t = <<m, "value">> /\ t[2] = "value"
    <3>1. t = b[4]
      BY <1>6, <1>15
    <3>2. <<m, "value">>[2] = "value"
      OBVIOUS
    <3> QED
      BY <1>4, <3>1, <3>2, Zenon
  <2>2. PlaceOf(s, "message", <<>>, Name1(m), FALSE, {}, <<>>)
    <3>1. 3 \in 1 .. 8 /\ 3 # Size1(body)
      BY <1>2
    <3>2. Within1(s, m, 3)
      BY <1>8, <1>15, <3>1
    <3> QED
      BY <3>2, WithinAt
  <2>3. s.at = "message"
    BY <1>11, <2>2
  <2>4. y = OnHeaderValue(s, t)
    BY <2>1, <2>3, CallbackOf
  <2>6. PlaceOf(y, "message", <<>>, Name1(m), TRUE, {}, <<>>) /\ SameClient1(y, s)
    BY <1>3, <2>2, <2>4, Moves, CallbacksLeave
  <2>7. Parsed(y, m, body, 4)
    <3>1. 4 \in 1 .. 8 /\ 4 # Size1(body)
      BY <1>2
    <3>2. Within1(y, m, 4)
      BY <2>6, WithinAt
    <3> QED
      BY <1>9, <3>1, <3>2
  <2>8. 3 + 1 = 4
    OBVIOUS
  <2> QED
    BY <2>6, <2>7, <2>8
<1>16. ASSUME k = 4 PROVE Next(4)
  <2>1. t = <<m, "name c">> /\ t[2] = "name c"
    <3>1. t = b[5]
      BY <1>6, <1>16
    <3>2. <<m, "name c">>[2] = "name c"
      OBVIOUS
    <3> QED
      BY <1>4, <3>1, <3>2, Zenon
  <2>2. PlaceOf(s, "message", <<>>, Name1(m), TRUE, {}, <<>>)
    <3>1. 4 \in 1 .. 8 /\ 4 # Size1(body)
      BY <1>2
    <3>2. Within1(s, m, 4)
      BY <1>8, <1>16, <3>1
    <3> QED
      BY <3>2, WithinAt
  <2>3. s.at = "message"
    BY <1>11, <2>2
  <2>4. y = OnHeaderField(s, t)
    BY <2>1, <2>3, CallbackOf
  <2>5. <<t>> = Name2(m) /\ Name1(m) # <<>> /\ {} \cup {Name1(m)} = {Name1(m)}
    BY <2>1, NamesByByte, Zenon
  <2>6. PlaceOf(y, "message", <<>>, Name2(m), FALSE, {Name1(m)}, <<>>) /\ SameClient1(y, s)
    BY <1>3, <2>2, <2>4, <2>5, Moves, CallbacksLeave
  <2>7. Parsed(y, m, body, 5)
    <3>1. 5 \in 1 .. 8 /\ 5 # Size1(body)
      BY <1>2
    <3>2. Within1(y, m, 5)
      BY <2>6, WithinAt
    <3> QED
      BY <1>9, <3>1, <3>2
  <2>8. 4 + 1 = 5
    OBVIOUS
  <2> QED
    BY <2>6, <2>7, <2>8
<1>17. ASSUME k = 5 PROVE Next(5)
  <2>1. t = <<m, "value">> /\ t[2] = "value"
    <3>1. t = b[6]
      BY <1>6, <1>17
    <3>2. <<m, "value">>[2] = "value"
      OBVIOUS
    <3> QED
      BY <1>4, <3>1, <3>2, Zenon
  <2>2. PlaceOf(s, "message", <<>>, Name2(m), FALSE, {Name1(m)}, <<>>)
    <3>1. 5 \in 1 .. 8 /\ 5 # Size1(body)
      BY <1>2
    <3>2. Within1(s, m, 5)
      BY <1>8, <1>17, <3>1
    <3> QED
      BY <3>2, WithinAt
  <2>3. s.at = "message"
    BY <1>11, <2>2
  <2>4. y = OnHeaderValue(s, t)
    BY <2>1, <2>3, CallbackOf
  <2>6. PlaceOf(y, "message", <<>>, Name2(m), TRUE, {Name1(m)}, <<>>) /\ SameClient1(y, s)
    BY <1>3, <2>2, <2>4, Moves, CallbacksLeave
  <2>7. Parsed(y, m, body, 6)
    <3>1. 6 \in 1 .. 8 /\ 6 # Size1(body)
      BY <1>2
    <3>2. Within1(y, m, 6)
      BY <2>6, WithinAt
    <3> QED
      BY <1>9, <3>1, <3>2
  <2>8. 5 + 1 = 6
    OBVIOUS
  <2> QED
    BY <2>6, <2>7, <2>8
<1>18. ASSUME k = 6 PROVE Next(6)
  <2> DEFINE f == FinalizeHeaderIfReady(s)
  <2>1. PlaceOf(s, "message", <<>>, Name2(m), TRUE, {Name1(m)}, <<>>) /\ s.at = "message"
    <3>1. 6 \in 1 .. 8 /\ 6 # Size1(body)
      BY <1>2
    <3>2. PlaceOf(s, "message", <<>>, Name2(m), TRUE, {Name1(m)}, <<>>)
      BY <1>8, <1>18, <3>1, WithinAt
    <3> QED
      BY <1>11, <3>2
  <2>2. f \in Client1Type /\ SameClient1(f, s)
    BY <1>3, ClientsParse, FinalizeHeaderStays, CallbacksLeave
  <2>3. PlaceOf(f, "message", <<>>, <<>>, TRUE, {Name1(m), Name2(m)}, <<>>)
    <3>1. Name2(m) # <<>>
      BY NamesByByte
    <3>2. PlaceOf(f, "message", <<>>, <<>>, TRUE, {Name1(m)} \cup {Name2(m)}, <<>>)
      BY <1>3, <2>1, <3>1, Moves
    <3>3. {Name1(m)} \cup {Name2(m)} = {Name1(m), Name2(m)}
      OBVIOUS
    <3> QED
      BY <3>2, <3>3, Zenon
  <2>4. t = b[7]
    BY <1>6, <1>18
  <2>5. CASE body
    <3>1. t[2] = "body follows"
      <4>1. <<m, "body follows">>[2] = "body follows"
        OBVIOUS
      <4> QED
        BY <1>5, <2>4, <2>5, <4>1, Zenon
    <3>2. y = f
      BY <2>1, <3>1, CallbackOf
    <3> HIDE DEF f
    <3>3. Within1(y, m, 7)
      BY <2>3, <3>2, WithinAt
    <3>4. 7 \in 1 .. 8 /\ 7 # Size1(body)
      BY <1>2, <2>5
    <3>5. Parsed(y, m, body, 7)
      BY <1>9, <3>3, <3>4
    <3> QED
      BY <2>2, <3>2, <3>5
  <2>6. CASE ~body
    <3>1. t[1] = m /\ t[2] = "end"
      <4>1. <<m, "end">>[1] = m /\ <<m, "end">>[2] = "end"
        OBVIOUS
      <4> QED
        BY <1>5, <2>4, <2>6, <4>1, Zenon
    <3>2. y = OnMessageComplete(f, m, TRUE)
      BY <2>1, <3>1, CallbackOf
    <3> HIDE DEF f
    <3>3. PlaceOf(f, "message", <<>>, <<>>, TRUE, {Name1(m), Name2(m)}, IF body THEN Body(m) ELSE <<>>)
      BY <2>3, <2>6
    <3>4. Behind1(y, m, body) /\ SameClient1(y, f)
      BY <2>2, <3>2, <3>3, MovesBehind
    <3>5. Parsed(y, m, body, 7)
      BY <1>2, <1>10, <2>6, <3>4
    <3> QED
      BY <2>2, <3>4, <3>5 DEF SameClient1
  <2> HIDE DEF Next
  <2> QED
    BY <2>5, <2>6
<1>19. ASSUME k = 7 PROVE Next(7)
  <2>1. body
    BY <1>2, <1>19
  <2>2. t = <<m, "body">> /\ t[2] = "body"
    <3>1. t = b[8]
      BY <1>6, <1>19
    <3>2. <<m, "body">>[2] = "body"
      OBVIOUS
    <3> QED
      BY <1>5, <2>1, <3>1, <3>2, Zenon
  <2>3. 7 \in 1 .. 8 /\ 7 # Size1(body) /\ 8 \in 1 .. 8 /\ 8 # Size1(body)
    BY <1>2, <2>1
  <2>4. PlaceOf(s, "message", <<>>, <<>>, TRUE, {Name1(m), Name2(m)}, <<>>)
    BY <1>8, <1>19, <2>3, WithinAt
  <2>5. s.at = "message"
    BY <1>11, <2>4
  <2>6. y = OnBody(s, t)
    BY <2>2, <2>5, CallbackOf
  <2>7. Append(<<>>, t) = <<<<m, "body">>>>
    BY <2>2, NamesByByte, Zenon
  <2>8. PlaceOf(y, "message", <<>>, <<>>, TRUE, {Name1(m), Name2(m)}, <<<<m, "body">>>>)
        /\ SameClient1(y, s)
    BY <1>3, <2>4, <2>6, <2>7, Moves, CallbacksLeave
  <2>9. Parsed(y, m, body, 8)
    BY <1>9, <2>3, <2>8, WithinAt
  <2> QED
    BY <2>8, <2>9
<1>20. ASSUME k = 8 PROVE Next(8)
  <2> DEFINE f == OnBody(s, t)
  <2>1. body
    BY <1>2, <1>20
  <2>2. t = <<m, "body end">> /\ t[1] = m /\ t[2] = "body end"
    <3>1. t = b[9]
      BY <1>6, <1>20
    <3>2. <<m, "body end">>[1] = m /\ <<m, "body end">>[2] = "body end"
      OBVIOUS
    <3> QED
      BY <1>5, <2>1, <3>1, <3>2, Zenon
  <2>3. 8 \in 1 .. 8 /\ 8 # Size1(body)
    BY <1>2, <2>1
  <2>4. PlaceOf(s, "message", <<>>, <<>>, TRUE, {Name1(m), Name2(m)}, <<<<m, "body">>>>)
    BY <1>8, <1>20, <2>3, WithinAt
  <2>5. s.at = "message"
    BY <1>11, <2>4
  <2>6. y = OnMessageComplete(f, m, TRUE)
    BY <2>2, <2>5, CallbackOf
  <2>7. Append(<<<<m, "body">>>>, t) = Body(m)
    BY <2>2, NamesByByte, Zenon
  <2>8. f \in Client1Type /\ SameClient1(f, s)
    BY <1>3, ClientsParse, OnBodyStays, CallbacksLeave
  <2>9. PlaceOf(f, "message", <<>>, <<>>, TRUE, {Name1(m), Name2(m)}, IF body THEN Body(m) ELSE <<>>)
    <3>1. PlaceOf(f, "message", <<>>, <<>>, TRUE, {Name1(m), Name2(m)}, Body(m))
      BY <1>3, <2>4, <2>7, Moves
    <3> QED
      BY <2>1, <3>1
  <2> HIDE DEF f
  <2>10. Behind1(y, m, body) /\ SameClient1(y, f)
    BY <2>6, <2>8, <2>9, MovesBehind
  <2>11. Parsed(y, m, body, 9)
    BY <1>2, <1>10, <2>1, <2>10
  <2> QED
    BY <2>8, <2>10, <2>11 DEF SameClient1
<1>21. k \in 0 .. 8
  BY <1>2
<1>22. k = 0 \/ k = 1 \/ k = 2 \/ k = 3 \/ k = 4 \/ k = 5 \/ k = 6 \/ k = 7 \/ k = 8
  BY <1>21
<1> HIDE DEF Next
<1>23. Next(k)
  BY <1>12, <1>13, <1>14, <1>15, <1>16, <1>17, <1>18, <1>19, <1>20,
     <1>22
<1> QED
  BY <1>23 DEF Next, y, t, b

\* The next bytes of a response take the parser on by as many places.
Follows(r, s, m, body, u, x) ==
  /\ r \in Client1Type /\ SameClient1(r, s)
  /\ Parsed(r, m, body, Len(u)) /\ Bytes1(m, body) = u \o x

LEMMA ResponseFed ==
  ASSUME NEW s \in Client1Type, NEW m \in Nat, NEW body \in BOOLEAN, NEW u \in Bytes,
         NEW a \in Bytes, NEW x \in Bytes, Bytes1(m, body) = u \o (a \o x),
         Parsed(s, m, body, Len(u))
  PROVE  Follows(ProcessResponse(s, a), s, m, body, u \o a, x)
<1> DEFINE b == Bytes1(m, body)
           ax == a \o x
           i == Len(u)
           R == {p \in Nat \X Client1Type :
                   Parsed(p[2], m, body, i + p[1]) /\ SameClient1(p[2], s)}
           r == ProcessResponse(s, a)
<1>1. b \in Bytes /\ Len(b) = Size1(body)
  BY ResponseParts DEF ResponseIs
<1>2. Joins(ax, a, x)
  BY JoinedAt
<1>3. ax \in Bytes
  BY <1>2 DEF Joins
<1>4. Joins(b, u, ax)
  BY <1>3, JoinedAt
<1>5. i \in Nat /\ Len(a) \in Nat /\ Len(x) \in Nat
  BY DEF Bytes
<1>6. Parsed(s, m, body, i)
  OBVIOUS
<1> HIDE DEF b, ax, i, r
<1>7. Len(b) = i + (Len(a) + Len(x))
  BY <1>2, <1>4, <1>5 DEF Joins, i
<1>8. ASSUME NEW k \in 0 .. Len(a) - 1
      PROVE  b[(i + k) + 1] = a[k + 1] /\ i + k \in 0 .. Size1(body) - 1
  <2>1. k + 1 \in 1 .. Len(a) /\ k + 1 \in 1 .. Len(a) + Len(x) /\ k \in Nat
    BY <1>5
  <2>2. Len(ax) = Len(a) + Len(x) /\ ax[k + 1] = a[k + 1]
    BY <1>2, <2>1 DEF Joins
  <2>3. b[i + (k + 1)] = ax[k + 1]
    BY <1>4, <2>1, <2>2 DEF Joins, i
  <2>4. i + k \in 0 .. Len(b) - 1 /\ i + (k + 1) = (i + k) + 1
    BY <1>5, <1>7, <2>1
  <2> QED
    BY <1>1, <2>2, <2>3, <2>4
<1>9. ASSUME NEW y \in Client1Type, NEW t \in Tokens PROVE ResponseByte(y, t) \in Client1Type
  BY ClientsParse, CallbacksStay DEF ResponseByte
<1>10. ASSUME NEW k \in 0 .. Len(a) - 1, NEW y \in Client1Type, <<k, y>> \in R
       PROVE  <<k + 1, ResponseByte(y, a[k + 1])>> \in R
  <2> DEFINE t == a[k + 1]
             z == ResponseByte(y, t)
  <2>1. t \in Tokens
    <3>1. k + 1 \in 1 .. Len(a)
      BY <1>5
    <3> QED
      BY <3>1 DEF Bytes
  <2>2. z \in Client1Type /\ k + 1 \in Nat
    BY <1>5, <1>9, <2>1
  <2>3. Parsed(y, m, body, i + k) /\ SameClient1(y, s)
    BY <1>10
  <2>4. t = b[(i + k) + 1] /\ i + k \in 0 .. Size1(body) - 1
    BY <1>8
  <2> HIDE DEF t
  <2>5. Parsed(z, m, body, (i + k) + 1) /\ SameClient1(z, y)
    BY <2>3, <2>4, ResponseByteParsed DEF b
  <2>6. (i + k) + 1 = i + (k + 1)
    BY <1>5
  <2> HIDE DEF z
  <2>7. SameClient1(z, s)
    BY <2>3, <2>5 DEF SameClient1
  <2>8. <<k + 1, z>> \in R
    BY <2>2, <2>5, <2>6, <2>7
  <2> QED
    BY <2>8 DEF z, t
<1>11. <<0, s>> \in R
  <2>1. i + 0 = i /\ SameClient1(s, s)
    BY <1>5 DEF SameClient1
  <2> QED
    BY <1>6, <2>1
<1> HIDE DEF R
<1>12. <<Len(a), r>> \in R
  BY <1>9, <1>10, <1>11, ProcessResponseGoes DEF Bytes, r
<1>13. r \in Client1Type /\ Parsed(r, m, body, i + Len(a)) /\ SameClient1(r, s)
  BY <1>12 DEF R
<1>14. Len(u \o a) = i + Len(a)
  BY BytesJoined DEF i
<1>15. b = (u \o a) \o x
  <2>1. Associated(u, a, x)
    BY BytesAssociative
  <2> QED
    BY <2>1 DEF Associated, b
<1> QED
  BY <1>13, <1>14, <1>15 DEF r, b, Follows

-----------------------------------------------------------------------------
(* What the steps of the connection do to the bytes on their way.          *)

LEMMA NoBytes ==
  /\ <<>> \in Bytes /\ Len(<<>>) = 0
  /\ \A b \in Bytes : Len(b) \in Nat /\ <<>> \o b = b /\ b \o <<>> = b /\ (Len(b) = 0 => b = <<>>)
  BY ConcatEmptySeq DEF Bytes

\* Joined bytes that come to nothing were nothing.
LEMMA NothingJoined ==
  ASSUME NEW a \in Bytes, NEW b \in Bytes, a \o b = <<>>
  PROVE  a = <<>> /\ b = <<>>
<1>1. Len(a) + Len(b) = 0 /\ Len(a) \in Nat /\ Len(b) \in Nat
  BY BytesJoined, NoBytes
<1>2. Len(a) = 0 /\ Len(b) = 0
  BY <1>1
<1> QED
  BY <1>2, NoBytes

\* A read takes the first of them.
LEMMA TakenBytes ==
  ASSUME WireOK(wire), NEW d \in Directions, NEW n \in Readable(d)
  PROVE  LET a == Arrived(d, n)
             w == Taken(d, n)
         IN  /\ a \in Bytes /\ w.bytes[d] \in Bytes /\ wire.bytes[d] = a \o w.bytes[d]
             /\ a # <<>>
             /\ \A e \in Directions : e # d => w.bytes[e] = wire.bytes[e]
             /\ w.deaf = wire.deaf /\ w.ended = wire.ended /\ w.reset = wire.reset
<1> DEFINE b == wire.bytes[d]
           a == Arrived(d, n)
           w == Taken(d, n)
<1>1. b \in Bytes /\ wire \in WireType /\ Len(b) \in Nat
  BY DEF WireOK, WireType, Bytes
<1>2. n \in 0 .. Len(b) /\ n \in 1 .. Len(b)
  BY <1>1 DEF Readable
<1>3. a = SubSeq(b, 1, n) /\ w.bytes[d] = Rest(b, n)
  BY <1>1 DEF Arrived, Taken, WireType
<1>4. \A e \in Directions : e # d => w.bytes[e] = wire.bytes[e]
  BY <1>1 DEF Taken, WireType
<1>5. w.deaf = wire.deaf /\ w.ended = wire.ended /\ w.reset = wire.reset
  BY <1>1 DEF Taken, WireType
<1> HIDE DEF a, b, w
<1>6. /\ a \in Bytes /\ Len(a) = n /\ w.bytes[d] \in Bytes /\ a \o w.bytes[d] = b
  BY <1>1, <1>2, <1>3, BytesCut
<1>7. a # <<>>
  BY <1>2, <1>6, NoBytes
<1> QED
  BY <1>4, <1>5, <1>6, <1>7 DEF a, b, w

\* A send appends what fits, unless nobody hears.
LEMMA SentBytes ==
  ASSUME WireOK(wire), NEW d \in Directions, NEW b \in Bytes, CanSend(d, b)
  PROVE  LET w == Sent(d, b)
             x == Rest(b, Fitting(d, b))
         IN  /\ x \in Bytes /\ w.bytes[d] \in Bytes
             /\ d \notin wire.deaf => /\ w.bytes[d] \o x = wire.bytes[d] \o b
                                      /\ w.reset = wire.reset
                                      /\ Len(b) = 1 => w.bytes[d] = wire.bytes[d] \o b
             /\ d \in wire.deaf => w.bytes[d] = wire.bytes[d]
             /\ \E c \in Bytes : b = c \o x
             /\ \A e \in Directions : e # d => w.bytes[e] = wire.bytes[e]
             /\ w.deaf = wire.deaf /\ w.ended = wire.ended
<1> DEFINE n == Fitting(d, b)
           w == Sent(d, b)
           x == Rest(b, n)
           c == SubSeq(b, 1, n)
           y == wire.bytes[d]
<1>1. y \in Bytes /\ wire \in WireType /\ Len(b) \in Nat
  BY DEF WireOK, WireType, Bytes
<1>2. n \in 0 .. Len(b) /\ n \in 1 .. Len(b)
  BY <1>1, FittingType
<1> HIDE DEF n
<1>3. c \in Bytes /\ x \in Bytes /\ c \o x = b /\ Len(x) = Len(b) - n
  BY <1>2, BytesCut
<1>4. d \notin wire.deaf => w.bytes[d] = y \o c /\ w.reset = wire.reset
  BY <1>1 DEF Sent, WireType, n
<1>5. d \in wire.deaf => w.bytes[d] = y
  BY <1>1 DEF Sent, WireType
<1>6. \A e \in Directions : e # d => w.bytes[e] = wire.bytes[e]
  BY <1>1 DEF Sent, WireType
<1>7. w.deaf = wire.deaf /\ w.ended = wire.ended
  BY <1>1 DEF Sent, WireType
<1> HIDE DEF w, x, c, y
<1>8. y \o c \in Bytes /\ (y \o c) \o x = y \o b
  <2>1. y \o c \in Bytes
    BY <1>1, <1>3, BytesJoined
  <2>2. (y \o c) \o x = y \o (c \o x)
    <3>1. Associated(y, c, x)
      BY <1>1, <1>3, BytesAssociative
    <3> QED
      BY <1>1, <1>3, <3>1 DEF Associated
  <2> QED
    BY <1>3, <2>1, <2>2
<1>9. Len(b) = 1 => x = <<>> /\ c = b
  <2>1. Len(b) = 1 => Len(x) = 0
    BY <1>2, <1>3
  <2> QED
    BY <1>3, <2>1, NoBytes
<1> QED
  BY <1>1, <1>3, <1>4, <1>5, <1>6, <1>7, <1>8, <1>9 DEF w, x, n, y

\* An end that closes loses what it has not read.
LEMMA ClosedBytes ==
  ASSUME WireOK(wire), NEW in \in Directions, NEW out \in Directions
  PROVE  LET w == Closed(in, out)
         IN  /\ w.bytes[in] = <<>>
             /\ \A e \in Directions : e # in => w.bytes[e] = wire.bytes[e]
             /\ w.deaf = wire.deaf \cup {in} /\ w.ended = wire.ended \cup {out}
  BY DEF Closed, WireOK, WireType

-----------------------------------------------------------------------------
(* What a client of HTTP/1.1 asks, step by step.                           *)

LEMMA CountsOf ==
  ASSUME NEW h \in Server1Type, NEW c \in Client1Type
  PROVE  /\ Len(c.results) \in Nat /\ Asked(c) \in Nat /\ Asked(c) = Len(c.results) + 1
         /\ Len(h.made) \in Nat /\ Len(h.pending) \in Nat /\ InHands(h) \in 0 .. 1
         /\ TakenUp(h) = Len(h.made) + InHands(h) + Len(h.pending) /\ TakenUp(h) \in Nat
  BY DEF Server1Type, Client1Type, Asked, InHands, TakenUp

\* The first bytes are heard, or lost.
LEMMA AsksLess ==
  ASSUME NEW rs, NEW h, NEW c, NEW a \in Bytes, NEW b \in Bytes, Asks1(rs, h, c, a \o b)
  PROVE  Asks1(rs, h, c, b)
<1> DEFINE m == Asked(c)
           ab == a \o b
           request == SerializeRequest(rs, m)
<1>1. EndOf(b, request)
  <2>1. PICK u \in Bytes : request = u \o ab
    BY DEF Asks1, EndOf
  <2>2. u \o ab = (u \o a) \o b /\ u \o a \in Bytes
    <3>1. Associated(u, a, b)
      BY BytesAssociative
    <3> QED
      BY <3>1, BytesJoined DEF Associated
  <2> HIDE DEF request
  <2> QED
    BY <2>1, <2>2 DEF EndOf
<1>2. ab = <<>> => b = <<>>
  BY NothingJoined
<1> HIDE DEF ab, request
<1>3. Asks1(rs, h, c, ab)
  BY DEF ab
<1> QED
  BY <1>1, <1>2, <1>3 DEF Asks1, request

\* A session that takes nothing up and makes nothing, ...
LEMMA AsksOfServer ==
  ASSUME NEW rs, NEW h, NEW c, NEW path, Asks1(rs, h, c, path), NEW y,
         y.made = h.made, y.pending = h.pending, y.pc = "handle" <=> h.pc = "handle",
         y.pc = "handle" => y.current = h.current
  PROVE  Asks1(rs, y, c, path)
<1>1. TakenUp(y) = TakenUp(h)
  BY DEF TakenUp, InHands
<1> QED
  BY <1>1 DEF Asks1

\* ... and a client that asks and gets nothing.
LEMMA AsksOfClient ==
  ASSUME NEW rs, NEW h, NEW c, NEW path, Asks1(rs, h, c, path), NEW x,
         x.results = c.results, x.pc = "idle" => c.pc = "idle"
  PROVE  Asks1(rs, h, x, path)
<1>1. Asked(x) = Asked(c)
  BY DEF Asked
<1> QED
  BY <1>1 DEF Asks1

\* The session parses what it has read.
LEMMA AsksRead ==
  ASSUME NEW rs, NEW h \in Server1Type, NEW c \in Client1Type, NEW a \in Bytes, NEW b \in Bytes,
         Asks1(rs, h, c, a \o b), h.pc # "handle",
         NEW y \in Server1Type, y.made = h.made, y.pc # "handle",
         y.pending = ProcessReceivedData(h, a).pending
  PROVE  Asks1(rs, y, c, b)
<1> DEFINE m == Asked(c)
           ab == a \o b
           request == SerializeRequest(rs, m)
           r == ProcessReceivedData(h, a)
<1>1. m \in Nat
  BY CountsOf
<1>2. PICK u \in Bytes : request = u \o ab
  BY DEF Asks1, EndOf
<1>3. SerializeRequest(rs, m) = u \o (a \o b)
  BY <1>2
<1> HIDE DEF m
<1> HIDE DEF request
<1>6. Feeds(r, h, m, a, b)
  BY <1>1, <1>3, RequestFed
<1> HIDE DEF r
<1>7. r.pending = h.pending \/ (b = <<>> /\ a # <<>> /\ Queues(r, h, m))
  BY <1>6 DEF Feeds
<1>4. CASE r.pending = h.pending
  <2>1. y.pending = h.pending
    BY <1>4 DEF r
  <2>2. Asks1(rs, y, c, ab)
    BY <2>1, AsksOfServer
  <2> QED
    BY <2>2, AsksLess
<1>5. CASE b = <<>> /\ a # <<>> /\ Queues(r, h, m)
  <2>1. ab # <<>>
    BY <1>5, NothingJoined
  <2> HIDE DEF ab
  <2>2. /\ c.pc # "idle" /\ TakenUp(h) <= m - 1 /\ m <= Len(h.made) + 1
        /\ \A i \in DOMAIN h.pending : h.pending[i].message = m
        /\ \A i \in DOMAIN h.made : h.made[i][1] = i
    <3>1. Asks1(rs, h, c, ab)
      BY DEF ab
    <3> QED
      BY <2>1, <3>1 DEF Asks1, m
  <2>3. PICK e : e.message = m /\ r.pending = Append(h.pending, e)
    BY <1>5 DEF Queues
  <2>4. y.pending = Append(h.pending, e) /\ y.pending \in Seq(Message)
        /\ h.pending \in Seq(Message)
    BY <2>3 DEF r, Server1Type
  <2>5. /\ Len(y.pending) = Len(h.pending) + 1
        /\ \A i \in DOMAIN y.pending : y.pending[i].message = m
    <3> DEFINE p == h.pending
               q == y.pending
    <3>1. q = Append(p, e) /\ q \in Seq(Message) /\ p \in Seq(Message) /\ e.message = m
          /\ \A i \in DOMAIN p : p[i].message = m
      BY <2>2, <2>3, <2>4
    <3> HIDE DEF p, q
    <3>2. Len(q) = Len(p) + 1 /\ DOMAIN q = 1 .. Len(p) + 1 /\ DOMAIN p = 1 .. Len(p)
          /\ Len(p) \in Nat
      BY <3>1
    <3>3. ASSUME NEW i \in DOMAIN q PROVE q[i].message = m
      <4>1. CASE i \in 1 .. Len(p)
        <5>1. q[i] = p[i]
          BY <3>1, <4>1
        <5> QED
          BY <3>1, <3>2, <4>1, <5>1
      <4>2. CASE i = Len(p) + 1
        <5>1. q[i] = e
          BY <3>1, <4>2
        <5> QED
          BY <3>1, <5>1
      <4> QED
        BY <3>2, <4>1, <4>2
    <3> QED
      BY <3>2, <3>3 DEF p, q
  <2>6. TakenUp(y) = TakenUp(h) + 1
    <3>1. InHands(y) = 0 /\ InHands(h) = 0
      BY DEF InHands
    <3>2. /\ TakenUp(h) = Len(h.made) + InHands(h) + Len(h.pending)
          /\ Len(h.made) \in Nat /\ Len(h.pending) \in Nat
      BY CountsOf
    <3>3. TakenUp(y) = Len(y.made) + InHands(y) + Len(y.pending)
      BY CountsOf
    <3>4. Len(y.made) = Len(h.made) /\ Len(y.pending) = Len(h.pending) + 1
      BY <2>5
    <3> DEFINE i == Len(h.made)
               j == Len(h.pending)
               k == TakenUp(h)
               n == TakenUp(y)
    <3>5. i \in Nat /\ j \in Nat /\ k = i + 0 + j /\ n = i + 0 + (j + 1)
      BY <3>1, <3>2, <3>3, <3>4
    <3> HIDE DEF i, j, k, n
    <3>6. n = k + 1
      BY <3>5
    <3> QED
      BY <3>6 DEF k, n
  <2>7. EndOf(b, SerializeRequest(rs, Asked(c)))
    <3>1. request \in Bytes /\ request \o <<>> = request
      BY <1>1, RequestBytes, NoBytes DEF request, m
    <3> QED
      BY <1>5, <3>1 DEF EndOf, request, m
  <2>8. TakenUp(y) <= m
    BY <1>1, <2>2, <2>6, CountsOf
  <2> QED
    BY <1>5, <2>2, <2>5, <2>7, <2>8 DEF Asks1, m
<1> QED
  BY <1>4, <1>5, <1>7

\* The session takes up the request it has parsed, which is in its hands then, ...
LEMMA AsksTaken ==
  ASSUME NEW rs, NEW h \in Server1Type, NEW c \in Client1Type, NEW path,
         Asks1(rs, h, c, path), h.pc # "handle", h.pending # <<>>,
         NEW y, y.pc = "handle", y.made = h.made, y.pending = Tail(h.pending),
         y.current = Head(h.pending).message
  PROVE  Asks1(rs, y, c, path)
<1> DEFINE m == Asked(c)
           p == h.pending
           q == y.pending
<1>1. p \in Seq(Message) /\ p # <<>> /\ q = Tail(p)
  BY DEF Server1Type
<1>2. \A i \in DOMAIN p : p[i].message = m
  BY DEF Asks1
<1>3. y.current = Head(p).message
  OBVIOUS
<1> HIDE DEF p, q, m
<1>4. Len(p) \in Nat \ {0} /\ q \in Seq(Message) /\ Len(q) = Len(p) - 1 /\ Head(p) = p[1]
  BY <1>1
<1>5. \A i \in DOMAIN q : q[i] = p[i + 1] /\ i + 1 \in DOMAIN p
  BY <1>1, <1>4
<1>6. \A i \in DOMAIN q : q[i].message = m
  BY <1>2, <1>5
<1>7. y.current = m
  <2>1. 1 \in DOMAIN p
    BY <1>1, <1>4
  <2> QED
    BY <1>2, <1>3, <1>4, <2>1
<1>8. TakenUp(y) = TakenUp(h)
  <2>1. Len(h.made) \in Nat
    BY DEF Server1Type
  <2>2. TakenUp(y) = Len(h.made) + 1 + Len(q) /\ TakenUp(h) = Len(h.made) + 0 + Len(p)
    BY DEF TakenUp, InHands, p, q
  <2> QED
    BY <1>4, <2>1, <2>2
<1> QED
  BY <1>6, <1>7, <1>8 DEF Asks1, m, p, q

\* ... and makes the response to it: the next one.
MadeNext(h, y, m, body) ==
  h.current = m /\ Len(h.made) = m - 1 /\ Len(y.made) = m /\ y.made[m] = <<m, body>>

LEMMA AsksAnswered ==
  ASSUME NEW rs, NEW h \in Server1Type, NEW c \in Client1Type, NEW path,
         Asks1(rs, h, c, path), h.pc = "handle", NEW body \in BOOLEAN,
         NEW y, y.pc # "handle", y.pending = h.pending,
         y.made = Append(h.made, <<h.current, body>>)
  PROVE  Asks1(rs, y, c, path) /\ MadeNext(h, y, Asked(c), body)
<1> DEFINE m == Asked(c)
           d == h.made
           e == y.made
           r == <<h.current, body>>
<1>1. /\ h.current = m /\ m <= Len(d) + 1 /\ TakenUp(h) <= m
      /\ \A i \in DOMAIN d : d[i][1] = i
      /\ path # <<>> \/ c.pc = "idle" => TakenUp(h) <= m - 1
  BY DEF Asks1
<1>2. r[1] = h.current /\ r \in Nat \X BOOLEAN
  BY DEF Server1Type
<1>3. d \in Seq(Nat \X BOOLEAN) /\ e = Append(d, r) /\ m \in Nat /\ Len(h.pending) \in Nat
  BY CountsOf DEF Server1Type
<1>4. TakenUp(h) = Len(d) + 1 + Len(h.pending) /\ TakenUp(y) = Len(e) + 0 + Len(h.pending)
  BY DEF TakenUp, InHands
<1>5. r = <<m, body>>
  BY <1>1
<1> HIDE DEF m, d, e, r
<1>6. /\ Len(d) \in Nat /\ Len(e) = Len(d) + 1 /\ e[Len(d) + 1] = r
      /\ \A i \in DOMAIN d : i \in DOMAIN e /\ e[i] = d[i]
      /\ DOMAIN e = 1 .. Len(d) + 1 /\ DOMAIN d = 1 .. Len(d)
  BY <1>2, <1>3
<1>7. Len(d) = m - 1 /\ Len(d) + 1 = m /\ Len(e) = m /\ TakenUp(y) = TakenUp(h)
  <2> DEFINE i == Len(d)
             j == Len(h.pending)
             k == TakenUp(h)
             n == TakenUp(y)
  <2>1. /\ i \in Nat /\ j \in Nat /\ m \in Nat /\ m <= i + 1 /\ k <= m
        /\ k = i + 1 + j /\ n = (i + 1) + 0 + j /\ Len(e) = i + 1
    BY <1>1, <1>3, <1>4, <1>6
  <2> HIDE DEF i, j, k, n
  <2>2. i = m - 1 /\ i + 1 = m /\ n = k
    BY <2>1
  <2> QED
    BY <2>1, <2>2 DEF i, k, n
<1>8. e[m] = r
  BY <1>6, <1>7
<1>9. \A i \in DOMAIN e : e[i][1] = i
  <2> SUFFICES ASSUME NEW i \in DOMAIN e PROVE e[i][1] = i
    OBVIOUS
  <2>1. CASE i \in DOMAIN d
    BY <1>1, <1>6, <2>1
  <2>2. CASE i = Len(d) + 1
    BY <1>1, <1>2, <1>6, <1>7, <2>2
  <2> QED
    BY <1>6, <2>1, <2>2
<1>10. Asks1(rs, y, c, path)
  <2>1. m <= Len(e) + 1
    BY <1>3, <1>7
  <2> QED
    BY <1>1, <1>7, <1>9, <2>1 DEF Asks1, m, e
<1> QED
  BY <1>1, <1>5, <1>7, <1>8, <1>10 DEF MadeNext, m, d, e

\* The client asks for the next.
LEMMA AsksAnew ==
  ASSUME NEW rs, NEW h, NEW c \in Client1Type, NEW path, Asks1(rs, h, c, path),
         c.pc = "idle", NEW x, x.results = c.results, x.pc # "idle"
  PROVE  Asks1(rs, h, x, SerializeRequest(rs, Asked(c)))
<1> DEFINE m == Asked(c)
           request == SerializeRequest(rs, m)
<1>1. Asked(x) = m
  BY DEF Asked
<1>2. m \in Nat
  BY DEF Asked, Client1Type
<1>3. request \in Bytes
  BY <1>2, RequestBytes
<1> HIDE DEF request
<1>4. EndOf(request, request)
  BY <1>3, NoBytes DEF EndOf
<1> QED
  BY <1>1, <1>4 DEF Asks1, request

\* The client has its answer, and the session knows of no other request.
LEMMA AsksOn ==
  ASSUME NEW rs, NEW h \in Server1Type, NEW c \in Client1Type, NEW path,
         Asks1(rs, h, c, path), Len(h.made) = Asked(c),
         NEW x \in Client1Type, Len(x.results) = Len(c.results) + 1
  PROVE  path = <<>> /\ Asks1(rs, h, x, <<>>)
<1> DEFINE m == Asked(c)
           n == Asked(x)
<1>1. /\ m \in Nat /\ n = m + 1 /\ n \in Nat
  BY DEF Asked, Client1Type
<1>2. /\ TakenUp(h) = m + InHands(h) + Len(h.pending) /\ InHands(h) \in 0 .. 1
      /\ Len(h.pending) \in Nat /\ h.pending \in Seq(Message)
  BY CountsOf DEF Server1Type
<1>3. /\ TakenUp(h) <= m
      /\ path # <<>> => TakenUp(h) <= m - 1
      /\ \A i \in DOMAIN h.made : h.made[i][1] = i
  BY DEF Asks1
<1> HIDE DEF m, n
<1>4. path = <<>> /\ InHands(h) = 0 /\ Len(h.pending) = 0
  BY <1>1, <1>2, <1>3
<1>5. h.pc # "handle"
  BY <1>4 DEF InHands
<1>6. DOMAIN h.pending = {}
  BY <1>2, <1>4
<1>7. EndOf(<<>>, SerializeRequest(rs, n))
  <2>1. SerializeRequest(rs, n) \in Bytes
    BY <1>1, RequestBytes
  <2> QED
    BY <2>1, NoBytes DEF EndOf
<1>8. n <= Len(h.made) + 1 /\ TakenUp(h) <= n /\ TakenUp(h) <= n - 1
  BY <1>1, <1>2, <1>4 DEF m
<1> QED
  BY <1>3, <1>4, <1>5, <1>6, <1>7, <1>8 DEF Asks1, n

-----------------------------------------------------------------------------
(* What it hears.                                                          *)

\* The parser of the client is where it was.
SameParser(x, c) ==
  /\ x.at = c.at /\ x.pending = c.pending /\ x.field = c.field /\ x.reading = c.reading
  /\ x.headers = c.headers /\ x.body = c.body

LEMMA ParsedSame ==
  ASSUME NEW x, NEW c, SameParser(x, c), NEW m, NEW body, NEW k
  PROVE  Parsed(x, m, body, k) <=> Parsed(c, m, body, k)
  BY DEF SameParser, Parsed, Before1, Behind1, Within1

LEMMA HearsSame ==
  ASSUME NEW h, NEW c, NEW down, Hears1(h, c, down), NEW y, y.made = h.made,
         NEW x, x.results = c.results, SameParser(x, c)
  PROVE  Hears1(y, x, down)
<1>1. Asked(x) = Asked(c)
  BY DEF Asked
<1>2. Before1(x) <=> Before1(c)
  BY DEF SameParser, Before1
<1>3. \A m, body, k : Parsed(x, m, body, k) <=> Parsed(c, m, body, k)
  BY ParsedSame
<1> QED
  BY <1>1, <1>2, <1>3 DEF Hears1

\* The last bytes are not written.
LEMMA HearsLess ==
  ASSUME NEW h, NEW c, NEW a \in Bytes, NEW b \in Bytes, Hears1(h, c, a \o b)
  PROVE  Hears1(h, c, a)
<1> DEFINE m == Asked(c)
           body == h.made[m][2]
           ab == a \o b
           all == Bytes1(m, body)
<1>1. CASE Len(h.made) = m
  <2>1. PICK u \in Bytes, v \in Bytes :
          all = (u \o ab) \o v /\ Parsed(c, m, body, Len(u))
    BY <1>1 DEF Hears1
  <2>2. (u \o ab) \o v = (u \o a) \o (b \o v) /\ b \o v \in Bytes
    <3>1. ab \in Bytes /\ u \o a \in Bytes /\ b \o v \in Bytes
      BY BytesJoined
    <3>2. u \o ab = (u \o a) \o b
      <4>1. Associated(u, a, b)
        BY BytesAssociative
      <4> QED
        BY <4>1 DEF Associated
    <3>3. ((u \o a) \o b) \o v = (u \o a) \o (b \o v)
      <4>1. Associated(u \o a, b, v)
        BY <3>1, BytesAssociative
      <4> QED
        BY <3>1, <4>1 DEF Associated
    <3> QED
      BY <3>1, <3>2, <3>3
  <2> HIDE DEF all, body
  <2>3. all = (u \o a) \o (b \o v)
    BY <2>1, <2>2
  <2> QED
    BY <1>1, <2>1, <2>2, <2>3 DEF Hears1, all, body
<1>2. CASE Len(h.made) # m
  <2>1. ab = <<>> /\ Before1(c)
    BY <1>2 DEF Hears1
  <2>2. a = <<>>
    BY <2>1, NothingJoined
  <2> QED
    BY <1>2, <2>1, <2>2 DEF Hears1
<1> QED
  BY <1>1, <1>2

\* A response is made where there was nothing on its way.
LEMMA HearsAnswer ==
  ASSUME NEW h, NEW c \in Client1Type, NEW down, Hears1(h, c, down),
         Len(h.made) = Asked(c) - 1, NEW body \in BOOLEAN, NEW y,
         Len(y.made) = Asked(c), y.made[Asked(c)] = <<Asked(c), body>>
  PROVE  down = <<>> /\ Hears1(y, c, Bytes1(Asked(c), body))
<1> DEFINE m == Asked(c)
           all == Bytes1(m, body)
<1>1. m \in Nat /\ Len(h.made) # m
  BY DEF Asked, Client1Type
<1>2. down = <<>> /\ Before1(c)
  BY <1>1 DEF Hears1
<1>3. all \in Bytes
  BY <1>1, ResponseBytes
<1>4. Parsed(c, m, body, 0)
  BY <1>2 DEF Parsed
<1>5. y.made[m][2] = body
  OBVIOUS
<1>6. Len(y.made) = m
  OBVIOUS
<1> HIDE DEF all, m
<1>7. all = (<<>> \o all) \o <<>> /\ <<>> \in Bytes /\ Len(<<>>) = 0
  BY <1>3, NoBytes
<1>8. Hears1(y, c, all)
  BY <1>4, <1>5, <1>6, <1>7 DEF Hears1, all, m
<1> QED
  BY <1>2, <1>8 DEF all, m

\* Where the parser is, it has met no error.
LEMMA ParsedAt ==
  ASSUME NEW s, NEW m, NEW body, NEW k, Parsed(s, m, body, k)
  PROVE  /\ s.at # "error"
         /\ s.pending # <<>> => k = Size1(body) /\ Behind1(s, m, body)
  BY DEF Parsed, Before1, Behind1, Within1

\* Some of the bytes arrive.
LEMMA HearsMore ==
  ASSUME NEW h \in Server1Type, NEW c \in Client1Type, NEW a \in Bytes, NEW b \in Bytes,
         a # <<>>, Hears1(h, c, a \o b)
  PROVE  LET r == ProcessResponse(c, a)
         IN  r \in Client1Type /\ SameClient1(r, c) /\ r.at # "error" /\ Hears1(h, r, b)
<1> DEFINE m == Asked(c)
           body == h.made[m][2]
           all == Bytes1(m, body)
           ab == a \o b
           r == ProcessResponse(c, a)
<1>1. m \in Nat \ {0}
  BY DEF Asked, Client1Type
<1>2. Len(h.made) = m
  <2>1. ab # <<>>
    BY NothingJoined
  <2> QED
    BY <2>1 DEF Hears1
<1>3. body \in BOOLEAN
  <2>1. h.made \in Seq(Nat \X BOOLEAN) /\ m \in 1 .. Len(h.made)
    BY <1>1, <1>2 DEF Server1Type
  <2>2. h.made[m] \in Nat \X BOOLEAN
    BY <2>1
  <2> QED
    BY <2>2
<1>4. PICK u \in Bytes, v \in Bytes : all = (u \o ab) \o v /\ Parsed(c, m, body, Len(u))
  BY <1>2 DEF Hears1
<1>5. (u \o ab) \o v = u \o (a \o (b \o v)) /\ b \o v \in Bytes
  <2>1. ab \in Bytes /\ b \o v \in Bytes
    BY BytesJoined
  <2>2. (u \o ab) \o v = u \o (ab \o v)
    <3>1. Associated(u, ab, v)
      BY <2>1, BytesAssociative
    <3> QED
      BY <2>1, <3>1 DEF Associated
  <2>3. ab \o v = a \o (b \o v)
    <3>1. Associated(a, b, v)
      BY BytesAssociative
    <3> QED
      BY <3>1 DEF Associated
  <2> QED
    BY <2>1, <2>2, <2>3
<1> DEFINE x == b \o v
<1>6. x \in Bytes /\ Bytes1(m, body) = u \o (a \o x) /\ Parsed(c, m, body, Len(u))
  BY <1>4, <1>5
<1> HIDE DEF m, body, ab, x
<1>12. Follows(r, c, m, body, u \o a, x)
  BY <1>1, <1>3, <1>6, ResponseFed
<1> HIDE DEF r
<1>7. /\ r \in Client1Type /\ SameClient1(r, c)
      /\ Parsed(r, m, body, Len(u \o a)) /\ Bytes1(m, body) = (u \o a) \o x
  BY <1>12 DEF Follows
<1>8. r.at # "error"
  BY <1>7, ParsedAt
<1>9. (u \o a) \o x = ((u \o a) \o b) \o v /\ u \o a \in Bytes
  <2>1. u \o a \in Bytes
    BY BytesJoined
  <2> QED
    <3>1. Associated(u \o a, b, v)
      BY <2>1, BytesAssociative
    <3> QED
      BY <2>1, <3>1 DEF Associated, x
<1>10. Asked(r) = m
  BY <1>7 DEF SameClient1, Asked, m
<1>11. Hears1(h, r, b)
  BY <1>2, <1>7, <1>9, <1>10 DEF Hears1, body
<1> QED
  BY <1>7, <1>8, <1>11 DEF r

\* The client takes the response it has, of which nothing is left to come.
LEMMA HearsTaken ==
  ASSUME NEW h \in Server1Type, NEW c \in Client1Type, NEW down \in Bytes, Hears1(h, c, down),
         c.pending # <<>>, NEW x \in Client1Type, x.at = "start", x.pending = Tail(c.pending),
         Len(x.results) = Len(c.results) + 1
  PROVE  /\ Len(h.made) = Asked(c) /\ IsAnswer1(Head(c.pending), Asked(c), h.made[Asked(c)][2])
         /\ down = <<>> /\ Hears1(h, x, <<>>)
<1> DEFINE m == Asked(c)
           body == h.made[m][2]
           all == Bytes1(m, body)
<1>1. m \in Nat \ {0} /\ Asked(x) = m + 1
  BY DEF Asked, Client1Type
<1>2. Len(h.made) = m
  BY DEF Hears1, Before1
<1>3. body \in BOOLEAN
  <2>1. h.made \in Seq(Nat \X BOOLEAN) /\ m \in 1 .. Len(h.made)
    BY <1>1, <1>2 DEF Server1Type
  <2>2. h.made[m] \in Nat \X BOOLEAN
    BY <2>1
  <2> QED
    BY <2>2
<1>4. PICK u \in Bytes, v \in Bytes : all = (u \o down) \o v /\ Parsed(c, m, body, Len(u))
  BY <1>2 DEF Hears1
<1>5. Len(u) = Size1(body) /\ Behind1(c, m, body)
  BY <1>4, ParsedAt
<1>6. Len(all) = Size1(body)
  BY <1>1, <1>3, ResponseParts DEF ResponseIs
<1>7. Len(all) = Len(u) + Len(down) + Len(v)
  <2>1. Len(u \o down) = Len(u) + Len(down) /\ u \o down \in Bytes
    BY BytesJoined
  <2>2. Len((u \o down) \o v) = Len(u \o down) + Len(v)
    BY <2>1, BytesJoined
  <2> QED
    BY <1>4, <2>1, <2>2
<1>8. down = <<>>
  <2>1. Len(u) \in Nat /\ Len(v) \in Nat /\ Len(down) \in Nat
    BY NoBytes
  <2>2. Len(down) = 0
    BY <1>5, <1>6, <1>7, <2>1
  <2> QED
    BY <2>2, NoBytes
<1> HIDE DEF m, body
<1>9. Len(c.pending) = 1 /\ IsAnswer1(c.pending[1], m, body)
  BY <1>5 DEF Behind1
<1>10. c.pending \in Seq(Message)
  BY DEF Client1Type
<1>11. Head(c.pending) = c.pending[1] /\ Tail(c.pending) = <<>>
  <2> DEFINE p == c.pending
             n == Len(p)
  <2>1. p \in Seq(Message) /\ p # <<>> /\ n = 1
    BY <1>9, <1>10
  <2> HIDE DEF n
  <2>2. Head(p) = p[1] /\ Tail(p) \in Seq(Message) /\ Len(Tail(p)) = n - 1
    BY <1>10 DEF n
  <2>3. Len(Tail(p)) = 0
    BY <2>1, <2>2
  <2> DEFINE q == Tail(p)
  <2>4. q \in Seq(Message) /\ Len(q) = 0
    BY <2>2, <2>3
  <2> HIDE DEF p, q
  <2>5. q = <<>>
    BY <2>4
  <2> QED
    BY <2>2, <2>5 DEF p, q
<1>12. Hears1(h, x, <<>>)
  <2>1. Before1(x)
    BY <1>11 DEF Before1
  <2>2. Len(h.made) # Asked(x)
    BY <1>1, <1>2
  <2> QED
    BY <2>1, <2>2 DEF Hears1
<1> QED
  BY <1>2, <1>8, <1>9, <1>11, <1>12 DEF m, body

-----------------------------------------------------------------------------
(* The steps of a connection of HTTP/1.1.                                  *)

\* A client's end that is heard, before there is a session and after.
LEMMA PathOf ==
  ASSUME NEW h, NEW c \in Client1Type, NEW w \in WireType, NEW data \in Bytes
  PROVE  LET pre == IF h.pc = "new" THEN data ELSE <<>>
         IN  /\ Path1(h, c, w, data) = pre \o (w.bytes["up"] \o c.out)
             /\ pre \in Bytes /\ w.bytes["up"] \in Bytes /\ w.bytes["down"] \in Bytes
             /\ c.out \in Bytes /\ w.bytes["up"] \o c.out \in Bytes
<1>1. w.bytes["up"] \in Bytes /\ w.bytes["down"] \in Bytes /\ c.out \in Bytes
  BY DEF WireType, Directions, Client1Type
<1>2. w.bytes["up"] \o c.out \in Bytes
  BY <1>1, BytesJoined
<1>3. (IF h.pc = "new" THEN data ELSE <<>>) \in Bytes
  BY NoBytes
<1> QED
  BY <1>1, <1>2, <1>3 DEF Path1

LEMMA UnsentType ==
  ASSUME NEW h \in Server1Type
  PROVE  Unsent(h) \in Bytes
<1>1. h.head \o h.rest \in Bytes
  BY BytesJoined DEF Server1Type
<1> QED
  BY <1>1, NoBytes DEF Unsent

\* Request1 serializes the next request when everything has been heard.
LEMMA Request1Talks ==
  ASSUME c1 \in Client1Type, wire \in WireType, conn.data \in Bytes,
         Talks1(requests, h1, c1, wire, conn.data), Request1
  PROVE  Talks1(requests, h1, c1', wire, conn.data) /\ c1'.results = c1.results
<1> DEFINE pre == IF h1.pc = "new" THEN conn.data ELSE <<>>
           up == wire.bytes["up"]
           path == Path1(h1, c1, wire, conn.data)
           request == SerializeRequest(requests, Asked(c1))
           down == wire.bytes["down"] \o Unsent(h1)
<1>1. /\ path = pre \o (up \o c1.out) /\ pre \in Bytes /\ up \in Bytes /\ c1.out \in Bytes
      /\ up \o c1.out \in Bytes
  BY PathOf
<1>2. c1.pc = "idle" /\ c1' = [c1 EXCEPT !.pc = "write", !.out = request]
  BY DEF Request1, Asked
<1>3. /\ c1'.results = c1.results /\ c1'.pc = "write" /\ c1'.out = request
      /\ SameParser(c1', c1)
  BY <1>2 DEF Client1Type, SameParser
<1>4. Asks1(requests, h1, c1, path) /\ Hears1(h1, c1, down)
  BY <1>2 DEF Talks1
<1>5. path = <<>>
  BY <1>2, <1>4 DEF Asks1
<1>6. request \in Bytes
  <2>1. Asked(c1) \in Nat
    BY DEF Asked, Client1Type
  <2> QED
    BY <2>1, RequestBytes
<1>7. Asks1(requests, h1, c1', request)
  BY <1>2, <1>3, <1>4, AsksAnew
<1>8. Hears1(h1, c1', down)
  BY <1>3, <1>4, HearsSame
<1>9. Asked(c1') = Asked(c1)
  BY <1>3 DEF Asked
<1>10. Path1(h1, c1', wire, conn.data) = pre \o (up \o request)
  BY <1>3 DEF Path1
<1> HIDE DEF request, path, pre, up
<1>11. pre = <<>> /\ up = <<>>
  <2>1. pre = <<>> /\ up \o c1.out = <<>>
    BY <1>1, <1>5, NothingJoined
  <2> QED
    BY <1>1, <2>1, NothingJoined
<1>12. Path1(h1, c1', wire, conn.data) = request
  BY <1>6, <1>10, <1>11, NoBytes
<1>13. request = SerializeRequest(requests, Asked(c1'))
  BY <1>9 DEF request
<1> QED
  BY <1>3, <1>7, <1>8, <1>12, <1>13 DEF Talks1

\* What WriteRequest sends is heard, or the server is gone.
LEMMA WriteRequestTalks ==
  ASSUME c1 \in Client1Type, WireOK(wire), conn.data \in Bytes,
         Talks1(requests, h1, c1, wire, conn.data), WriteRequest,
         "up" \in wire.deaf => wire.bytes["up"] = <<>> /\ h1.pc # "new"
  PROVE  Talks1(requests, h1, c1', wire', conn.data) /\ c1'.results = c1.results
<1> DEFINE pre == IF h1.pc = "new" THEN conn.data ELSE <<>>
           up == wire.bytes["up"]
           out == c1.out
           rest == Rest(out, Fitting("up", out))
           path == Path1(h1, c1, wire, conn.data)
           path1 == Path1(h1, c1', wire', conn.data)
           down == wire.bytes["down"] \o Unsent(h1)
           w == Sent("up", out)
<1>1. wire \in WireType
  BY DEF WireOK
<1>2. /\ path = pre \o (up \o out) /\ pre \in Bytes /\ up \in Bytes /\ out \in Bytes
      /\ up \o out \in Bytes
  BY <1>1, PathOf
<1>3. /\ c1.pc = "write" /\ CanSend("up", out) /\ wire' = w
      /\ c1' = [c1 EXCEPT !.out = rest, !.pc = IF rest = <<>> THEN "await" ELSE "write"]
  BY DEF WriteRequest
<1>4. /\ c1'.results = c1.results /\ c1'.pc \notin {"idle", "failed"} /\ c1'.out = rest
      /\ SameParser(c1', c1)
  BY <1>3 DEF Client1Type, SameParser
<1>5. Asks1(requests, h1, c1, path) /\ Hears1(h1, c1, down)
  BY <1>3 DEF Talks1
<1>6. /\ rest \in Bytes /\ w.bytes["up"] \in Bytes
      /\ "up" \notin wire.deaf => w.bytes["up"] \o rest = up \o out
      /\ "up" \in wire.deaf => w.bytes["up"] = up
      /\ \E c \in Bytes : out = c \o rest
      /\ w.bytes["down"] = wire.bytes["down"]
  BY <1>2, <1>3, SentBytes DEF Directions
<1>7. Hears1(h1, c1', wire'.bytes["down"] \o Unsent(h1))
  BY <1>3, <1>4, <1>5, <1>6, HearsSame
<1>8. Asks1(requests, h1, c1', path)
  BY <1>3, <1>4, <1>5, AsksOfClient
<1>9. path1 = pre \o (w.bytes["up"] \o rest)
  BY <1>3, <1>4 DEF Path1
<1>10. Asked(c1') = Asked(c1)
  BY <1>4 DEF Asked
<1>11. CASE "up" \notin wire.deaf
  <2> HIDE DEF pre, up, out, rest, path, path1, w
  <2>1. path1 = path
    <3>1. w.bytes["up"] \o rest = up \o out
      BY <1>6, <1>11
    <3> QED
      BY <1>2, <1>9, <3>1
  <2>2. Asks1(requests, h1, c1', path1)
    BY <1>8, <2>1
  <2>3. h1.pc = "new" =>
          path1 = <<>> \/ path1 = SerializeRequest(requests, Asked(c1'))
    BY <1>10, <2>1 DEF Talks1, path
  <2> QED
    BY <1>4, <1>7, <2>2, <2>3 DEF Talks1, path1
<1>12. CASE "up" \in wire.deaf
  <2>1. pre = <<>> /\ up = <<>> /\ h1.pc # "new"
    BY <1>12
  <2>2. PICK c \in Bytes : out = c \o rest
    BY <1>6
  <2> HIDE DEF pre, up, out, rest, path, path1, w
  <2>3. path1 = rest /\ path = c \o rest
    BY <1>2, <1>6, <1>9, <1>12, <2>1, <2>2, NoBytes
  <2>4. Asks1(requests, h1, c1', path1)
    BY <1>6, <1>8, <2>2, <2>3, AsksLess
  <2> QED
    BY <1>4, <1>7, <2>1, <2>4 DEF Talks1, path1
<1> QED
  BY <1>11, <1>12

\* TakeResponse: the answer is whole, and its own.
LEMMA TakeResponseTalks ==
  ASSUME h1 \in Server1Type, c1 \in Client1Type, c1' \in Client1Type, wire \in WireType,
         conn.data \in Bytes, h1.pc = "new" => h1.made = <<>>,
         Talks1(requests, h1, c1, wire, conn.data), TakeResponse
  PROVE  /\ Talks1(requests, h1, c1', wire, conn.data)
         /\ c1'.results = Append(c1.results, Head(c1.pending))
         /\ Len(h1.made) = Asked(c1)
         /\ IsAnswer1(Head(c1.pending), Asked(c1), h1.made[Asked(c1)][2])
<1> DEFINE path == Path1(h1, c1, wire, conn.data)
           down == wire.bytes["down"] \o Unsent(h1)
           answer == Head(c1.pending)
           p == c1.results
<1>1. down \in Bytes
  BY BytesJoined, PathOf, UnsentType
<1>2. c1.pc = "await" /\ c1.pending # <<>>
  BY DEF TakeResponse
<1>3. /\ c1'.pc = "idle" /\ c1'.at = "start" /\ c1'.pending = Tail(c1.pending)
      /\ c1'.out = c1.out /\ c1'.results = Append(p, answer)
  BY DEF TakeResponse, Client1Type
<1>4. Asks1(requests, h1, c1, path) /\ Hears1(h1, c1, down)
  BY <1>2 DEF Talks1
<1>5. Len(c1'.results) = Len(c1.results) + 1
  <2>1. p \in Seq(Message) /\ c1'.results = Append(p, answer)
    BY <1>3 DEF Client1Type
  <2> HIDE DEF p, answer
  <2>2. Len(c1'.results) = Len(p) + 1
    BY <2>1
  <2> QED
    BY <2>2 DEF p
<1> HIDE DEF path, down
<1>6. /\ Len(h1.made) = Asked(c1) /\ IsAnswer1(answer, Asked(c1), h1.made[Asked(c1)][2])
      /\ down = <<>> /\ Hears1(h1, c1', <<>>)
  BY <1>1, <1>2, <1>3, <1>4, <1>5, HearsTaken
<1>7. path = <<>> /\ Asks1(requests, h1, c1', <<>>)
  BY <1>4, <1>5, <1>6, AsksOn
<1>8. Path1(h1, c1', wire, conn.data) = path
  BY <1>3 DEF Path1, path
<1>9. h1.pc # "new"
  <2>1. Asked(c1) \in Nat /\ Asked(c1) > 0
    BY DEF Asked, Client1Type
  <2> QED
    BY <1>6, <2>1
<1> QED
  BY <1>3, <1>6, <1>7, <1>8, <1>9 DEF Talks1, down

\* ReadResponse: what has arrived is parsed, with what the parser has had.
LEMMA ReadResponseTalks ==
  ASSUME h1 \in Server1Type, c1 \in Client1Type, WireOK(wire), conn.data \in Bytes,
         Talks1(requests, h1, c1, wire, conn.data), ReadResponse
  PROVE  Talks1(requests, h1, c1', wire', conn.data) /\ c1'.results = c1.results
<1>1. PICK n \in Readable("down") :
        LET s == ProcessResponse(c1, Arrived("down", n))
        IN  /\ c1.pc = "await"
            /\ c1' = IF s.at = "error" THEN [s EXCEPT !.pc = "failed"] ELSE s
            /\ wire' = Taken("down", n)
  BY DEF ReadResponse
<1> DEFINE a == Arrived("down", n)
           b == Taken("down", n).bytes["down"]
           s == ProcessResponse(c1, a)
           path == Path1(h1, c1, wire, conn.data)
           all == wire.bytes["down"]
           rest == Unsent(h1)
<1>2. c1.pc = "await" /\ c1' = (IF s.at = "error" THEN [s EXCEPT !.pc = "failed"] ELSE s)
  BY <1>1
<1>3. /\ a \in Bytes /\ b \in Bytes /\ all = a \o b /\ a # <<>>
      /\ wire'.bytes["down"] = b /\ wire'.bytes["up"] = wire.bytes["up"]
  BY <1>1, TakenBytes DEF Directions
<1>4. Asks1(requests, h1, c1, path) /\ Hears1(h1, c1, all \o rest)
  BY <1>2 DEF Talks1
<1>5. rest \in Bytes
  BY UnsentType
<1> HIDE DEF a, b, s, path, all, rest
<1>6. all \o rest = a \o (b \o rest) /\ b \o rest \in Bytes
  <2>1. Associated(a, b, rest)
    BY <1>3, <1>5, BytesAssociative
  <2> QED
    BY <1>3, <1>5, <2>1, BytesJoined DEF Associated
<1>7. Hears1(h1, c1, a \o (b \o rest))
  BY <1>4, <1>6
<1>8. /\ s \in Client1Type /\ SameClient1(s, c1) /\ s.at # "error"
      /\ Hears1(h1, s, b \o rest)
  BY <1>3, <1>6, <1>7, HearsMore DEF s
<1>9. c1' = s /\ c1'.results = c1.results /\ c1'.pc = "await" /\ c1'.out = c1.out
  BY <1>2, <1>8 DEF SameClient1
<1>10. Path1(h1, c1', wire', conn.data) = path
  BY <1>3, <1>9 DEF Path1, path
<1>11. Asks1(requests, h1, c1', path)
  BY <1>2, <1>4, <1>9, AsksOfClient
<1>12. Asked(c1') = Asked(c1)
  BY <1>9 DEF Asked
<1>13. Hears1(h1, c1', wire'.bytes["down"] \o Unsent(h1))
  BY <1>3, <1>8, <1>9 DEF rest
<1> QED
  BY <1>9, <1>10, <1>11, <1>12, <1>13 DEF Talks1, path

\* ClientFails1: the client asks no more.
LEMMA ClientFails1Talks ==
  ASSUME c1 \in Client1Type, Talks1(requests, h1, c1, wire, conn.data), ClientFails1
  PROVE  Talks1(requests, h1, c1', wire, conn.data) /\ c1'.results = c1.results
<1>1. c1'.pc = "failed" /\ c1'.results = c1.results /\ c1'.out = c1.out
  BY DEF ClientFails1, Failed1, Client1Type
<1>2. Asked(c1') = Asked(c1)
  BY <1>1 DEF Asked
<1> QED
  BY <1>1, <1>2 DEF Talks1, Path1

\* Every step of the client's session.
LEMMA Client1Talks ==
  ASSUME h1 \in Server1Type, c1 \in Client1Type, c1' \in Client1Type, WireOK(wire),
         conn.data \in Bytes, h1.pc = "new" => h1.made = <<>>,
         Talks1(requests, h1, c1, wire, conn.data),
         "up" \in wire.deaf => wire.bytes["up"] = <<>> /\ h1.pc # "new",
         Answered1(c1, h1.made), Client1
  PROVE  Talks1(requests, h1, c1', wire', conn.data) /\ Answered1(c1', h1.made)
<1>1. wire \in WireType
  BY DEF WireOK
<1>2. ASSUME c1'.results = c1.results PROVE Answered1(c1', h1.made)
  BY <1>2 DEF Answered1
<1>3. CASE Request1
  <2>1. wire' = wire
    BY <1>3 DEF Request1
  <2> QED
    BY <1>1, <1>2, <1>3, <2>1, Request1Talks
<1>4. CASE WriteRequest
  BY <1>2, <1>4, WriteRequestTalks
<1>5. CASE TakeResponse
  <2> DEFINE p == c1.results
             q == c1'.results
             e == Head(c1.pending)
             m == Asked(c1)
  <2>1. wire' = wire
    BY <1>5 DEF TakeResponse
  <2>2. /\ Talks1(requests, h1, c1', wire, conn.data)
        /\ q = Append(p, e) /\ Len(h1.made) = m /\ IsAnswer1(e, m, h1.made[m][2])
    BY <1>1, <1>5, TakeResponseTalks
  <2>3. /\ p \in Seq(Message) /\ q \in Seq(Message) /\ m = Len(p) + 1
        /\ h1.made \in Seq(Nat \X BOOLEAN)
    BY DEF Client1Type, Server1Type, Asked
  <2>4. \A i \in DOMAIN p : i \in DOMAIN h1.made /\ IsAnswer1(p[i], i, h1.made[i][2])
    BY DEF Answered1
  <2> HIDE DEF p, q, e, m
  <2>5. DOMAIN q = 1 .. Len(p) + 1 /\ DOMAIN p = 1 .. Len(p) /\ Len(p) \in Nat
    BY <2>2, <2>3
  <2>6. ASSUME NEW i \in DOMAIN q PROVE i \in DOMAIN h1.made /\ IsAnswer1(q[i], i, h1.made[i][2])
    <3>1. CASE i \in 1 .. Len(p)
      <4>1. q[i] = p[i]
        BY <2>2, <2>3, <3>1
      <4> QED
        BY <2>4, <2>5, <3>1, <4>1
    <3>2. CASE i = Len(p) + 1
      <4>1. q[i] = e
        BY <2>2, <2>3, <3>2
      <4>2. i = m /\ m \in DOMAIN h1.made
        BY <2>2, <2>3, <2>5, <3>2
      <4> QED
        BY <2>2, <4>1, <4>2
    <3> QED
      BY <2>5, <3>1, <3>2
  <2> QED
    BY <2>1, <2>2, <2>6 DEF Answered1, q
<1>6. CASE ReadResponse
  BY <1>2, <1>6, ReadResponseTalks
<1>7. CASE ClientFails1
  <2>1. wire' = wire
    BY <1>7 DEF ClientFails1
  <2> QED
    BY <1>2, <1>7, <2>1, ClientFails1Talks
<1> QED
  BY <1>3, <1>4, <1>5, <1>6, <1>7 DEF Client1

\* A session that has begun: of the path, the bytes read at first are behind it.
LEMMA Talked ==
  ASSUME NEW rs, NEW h, NEW c \in Client1Type, NEW w \in WireType, NEW data \in Bytes,
         h.pc # "new"
  PROVE  Talks1(rs, h, c, w, data) <=>
           (c.pc # "failed" => /\ Asks1(rs, h, c, w.bytes["up"] \o c.out)
                               /\ Hears1(h, c, w.bytes["down"] \o Unsent(h)))
<1> DEFINE x == w.bytes["up"] \o c.out
<1>1. Path1(h, c, w, data) = <<>> \o x /\ x \in Bytes
  BY PathOf
<1> HIDE DEF x
<1>2. Path1(h, c, w, data) = x
  BY <1>1, NoBytes
<1> QED
  BY <1>2 DEF Talks1, x

\* Its parser's steps: what it has read is no longer on the path.
LEMMA ParsesTalks ==
  ASSUME NEW rs, NEW h \in Server1Type, NEW c \in Client1Type, NEW w \in WireType,
         NEW data \in Bytes, NEW a \in Bytes, NEW b \in Bytes,
         c.pc # "failed" => /\ Asks1(rs, h, c, a \o b)
                            /\ Hears1(h, c, w.bytes["down"] \o Unsent(h)),
         h.pc \notin {"handle", "write"},
         NEW y \in Server1Type, y.made = h.made, y.pc \notin {"new", "handle", "write"},
         y.pending = ProcessReceivedData(h, a).pending, b = w.bytes["up"] \o c.out
  PROVE  Talks1(rs, y, c, w, data)
<1> SUFFICES ASSUME c.pc # "failed"
             PROVE  /\ Asks1(rs, y, c, w.bytes["up"] \o c.out)
                    /\ Hears1(y, c, w.bytes["down"] \o Unsent(y))
  BY Talked
<1>1. Asks1(rs, y, c, b)
  BY AsksRead
<1>2. Unsent(y) = Unsent(h)
  BY DEF Unsent
<1>3. Hears1(y, c, w.bytes["down"] \o Unsent(y))
  BY <1>2, HearsSame DEF SameParser
<1> QED
  BY <1>1, <1>3

\* Started1 reads the bytes the protocol was told from.
LEMMA Started1Talks ==
  ASSUME h1 \in Server1Type, h1' \in Server1Type, c1 \in Client1Type, wire \in WireType,
         conn.data \in Bytes, Talks1(requests, h1, c1, wire, conn.data),
         h1.pc = "new", h1' = Started1(conn.data)
  PROVE  Talks1(requests, h1', c1, wire, conn.data) /\ h1'.made = h1.made
<1> DEFINE b == wire.bytes["up"] \o c1.out
           s == ProcessReceivedData(h1, conn.data)
<1>1. b \in Bytes
  BY PathOf
<1>2. s \in Server1Type /\ Same1(s, h1)
  BY ProcessReceivedDataType
<1>3. h1' = [s EXCEPT !.pc = IF s.at = "error" THEN "return" ELSE "consume"]
  BY DEF Started1
<1> HIDE DEF s
<1>4. /\ h1'.made = h1.made /\ h1'.pc \notin {"new", "handle", "write"}
      /\ h1'.pending = s.pending
  BY <1>2, <1>3 DEF Server1Type, Same1
<1>5. Path1(h1, c1, wire, conn.data) = conn.data \o b
  BY DEF Path1
<1>6. c1.pc # "failed" => /\ Asks1(requests, h1, c1, conn.data \o b)
                          /\ Hears1(h1, c1, wire.bytes["down"] \o Unsent(h1))
  BY <1>5 DEF Talks1
<1>7. h1'.pending = ProcessReceivedData(h1, conn.data).pending
  BY <1>4 DEF s
<1>8. b = wire.bytes["up"] \o c1.out
  OBVIOUS
<1> HIDE DEF b
<1>9. h1.pc \notin {"handle", "write"}
  OBVIOUS
<1> QED
  BY <1>1, <1>4, <1>6, <1>7, <1>8, <1>9, ParsesTalks

\* Read1 reads on.
LEMMA Read1Talks ==
  ASSUME h1 \in Server1Type, h1' \in Server1Type, c1 \in Client1Type, WireOK(wire),
         wire' \in WireType, conn.data \in Bytes, Talks1(requests, h1, c1, wire, conn.data), Read1
  PROVE  Talks1(requests, h1', c1, wire', conn.data) /\ h1'.made = h1.made
<1>1. PICK n \in Readable("up") :
        LET s == ProcessReceivedData(h1, Arrived("up", n))
        IN  /\ h1.pc = "read"
            /\ h1' = [s EXCEPT !.pc = IF s.at = "error" THEN "close" ELSE "consume"]
            /\ wire' = Taken("up", n)
  BY DEF Read1
<1> DEFINE a == Arrived("up", n)
           s == ProcessReceivedData(h1, a)
           up == wire'.bytes["up"]
           out == c1.out
<1>2. /\ a \in Bytes /\ up \in Bytes /\ wire.bytes["up"] = a \o up
      /\ wire'.bytes["down"] = wire.bytes["down"]
  BY <1>1, TakenBytes DEF Directions
<1>3. out \in Bytes /\ wire \in WireType
  BY DEF Client1Type, WireOK
<1>4. s \in Server1Type /\ Same1(s, h1)
  BY <1>2, ProcessReceivedDataType
<1>5. h1.pc = "read" /\ h1' = [s EXCEPT !.pc = IF s.at = "error" THEN "close" ELSE "consume"]
  BY <1>1
<1>6. c1.pc # "failed" => /\ Asks1(requests, h1, c1, wire.bytes["up"] \o out)
                          /\ Hears1(h1, c1, wire.bytes["down"] \o Unsent(h1))
  BY <1>3, <1>5, Talked
<1> HIDE DEF s
<1>7. /\ h1'.made = h1.made /\ h1'.pc \notin {"new", "handle", "write"}
      /\ h1'.pending = s.pending
  BY <1>4, <1>5 DEF Server1Type, Same1
<1>8. h1'.pending = ProcessReceivedData(h1, a).pending
  BY <1>7 DEF s
<1> DEFINE b == up \o out
<1>9. b = wire'.bytes["up"] \o c1.out
  OBVIOUS
<1> HIDE DEF a, up, out
<1>10. (a \o up) \o out = a \o b /\ b \in Bytes
  <2>1. Associated(a, up, out)
    BY <1>2, <1>3, BytesAssociative
  <2> QED
    BY <1>2, <1>3, <2>1, BytesJoined DEF Associated
<1>11. c1.pc # "failed" => /\ Asks1(requests, h1, c1, a \o b)
                           /\ Hears1(h1, c1, wire'.bytes["down"] \o Unsent(h1))
  BY <1>2, <1>6, <1>10
<1>12. h1.pc \notin {"handle", "write"}
  BY <1>5
<1> HIDE DEF b
<1> QED
  BY <1>2, <1>7, <1>8, <1>9, <1>10, <1>11, <1>12, ParsesTalks

\* Steps that make nothing and leave what is to be heard.
LEMMA QuietTalks ==
  ASSUME NEW rs, NEW h, NEW c \in Client1Type, NEW w \in WireType, NEW data \in Bytes,
         Talks1(rs, h, c, w, data), h.pc # "new",
         NEW y, y.pc # "new", y.made = h.made, y.pending = h.pending,
         h.pc # "handle", y.pc # "handle", Unsent(y) = Unsent(h)
  PROVE  Talks1(rs, y, c, w, data)
<1> SUFFICES ASSUME c.pc # "failed"
             PROVE  /\ Asks1(rs, y, c, w.bytes["up"] \o c.out)
                    /\ Hears1(y, c, w.bytes["down"] \o Unsent(y))
  BY Talked
<1>1. /\ Asks1(rs, h, c, w.bytes["up"] \o c.out)
      /\ Hears1(h, c, w.bytes["down"] \o Unsent(h))
  BY Talked
<1>2. Asks1(rs, y, c, w.bytes["up"] \o c.out)
  BY <1>1, AsksOfServer
<1>3. Hears1(y, c, w.bytes["down"] \o Unsent(y))
  BY <1>1, HearsSame DEF SameParser
<1> QED
  BY <1>2, <1>3

\* TakeRequest1.
LEMMA TakeRequest1Talks ==
  ASSUME h1 \in Server1Type, c1 \in Client1Type, wire \in WireType, conn.data \in Bytes,
         Talks1(requests, h1, c1, wire, conn.data), TakeRequest1
  PROVE  Talks1(requests, h1', c1, wire, conn.data) /\ h1'.made = h1.made
<1> DEFINE path == wire.bytes["up"] \o c1.out
           down == wire.bytes["down"]
<1>1. h1.pc = "consume" /\ h1.pending # <<>>
  BY DEF TakeRequest1
<1>2. /\ h1'.pc = "handle" /\ h1'.made = h1.made /\ h1'.pending = Tail(h1.pending)
      /\ h1'.current = Head(h1.pending).message
  BY DEF TakeRequest1, Server1Type
<1>3. c1.pc # "failed" => Asks1(requests, h1, c1, path) /\ Hears1(h1, c1, down \o Unsent(h1))
  BY <1>1, Talked
<1> HIDE DEF path
<1>4. c1.pc # "failed" => Asks1(requests, h1', c1, path)
  BY <1>1, <1>2, <1>3, AsksTaken
<1>5. Unsent(h1') = Unsent(h1)
  BY <1>1, <1>2 DEF Unsent
<1>6. c1.pc # "failed" => Hears1(h1', c1, down \o Unsent(h1'))
  BY <1>2, <1>3, <1>5, HearsSame DEF SameParser
<1>7. h1'.pc # "new"
  BY <1>2
<1> QED
  BY <1>2, <1>4, <1>6, <1>7, Talked DEF path

\* Respond1: a response is made to the client's request.
LEMMA Respond1Talks ==
  ASSUME h1 \in Server1Type, h1' \in Server1Type, c1 \in Client1Type, wire \in WireType,
         conn.data \in Bytes, Talks1(requests, h1, c1, wire, conn.data),
         NEW body \in BOOLEAN, Respond1(body)
  PROVE  /\ Talks1(requests, h1', c1, wire, conn.data)
         /\ h1'.made = Append(h1.made, <<h1.current, body>>)
<1> DEFINE path == wire.bytes["up"] \o c1.out
           down == wire.bytes["down"]
           m == Asked(c1)
           n == h1.current
           head == <<<<n, "status">>>> \o Headers(n) \o SubSeq(Block(n, body), 1, 1)
           rest == IF body THEN Body(n) ELSE <<>>
<1>1. h1.pc = "handle"
  BY DEF Respond1
<1>2. /\ h1'.pc = "write" /\ h1'.made = Append(h1.made, <<n, body>>)
      /\ h1'.pending = h1.pending /\ h1'.head = head /\ h1'.rest = rest
  BY DEF Respond1, Server1Type
<1>3. n \in Nat /\ m \in Nat
  BY DEF Server1Type, Client1Type, Asked
<1>4. head \o rest = Bytes1(n, body)
  BY <1>3, HeadAndRest
<1> SUFFICES ASSUME c1.pc # "failed" PROVE Talks1(requests, h1', c1, wire, conn.data)
  BY <1>2, Talked
<1>5. Asks1(requests, h1, c1, path) /\ Hears1(h1, c1, down \o Unsent(h1))
  BY <1>1, Talked
<1> HIDE DEF path, head, rest, m
<1>6. /\ Asks1(requests, h1', c1, path) /\ n = m /\ Len(h1.made) = m - 1 /\ Len(h1'.made) = m
      /\ h1'.made[m] = <<m, body>>
  <2>1. h1'.pc # "handle"
    BY <1>2
  <2>2. Asks1(requests, h1', c1, path) /\ MadeNext(h1, h1', Asked(c1), body)
    BY <1>1, <1>2, <1>5, <2>1, AsksAnswered
  <2> QED
    BY <2>2 DEF MadeNext, m
<1> HIDE DEF n
<1>7. down \o Unsent(h1) = <<>> /\ Hears1(h1', c1, Bytes1(m, body))
  BY <1>5, <1>6, HearsAnswer DEF m
<1>8. Unsent(h1') = Bytes1(m, body) /\ Unsent(h1) = <<>>
  BY <1>1, <1>2, <1>4, <1>6 DEF Unsent
<1>9. down = <<>> /\ Bytes1(m, body) \in Bytes
  <2>1. down \in Bytes /\ <<>> \in Bytes
    BY NoBytes DEF WireType, Directions
  <2> QED
    BY <1>3, <1>7, <1>8, <2>1, NothingJoined, ResponseBytes
<1>10. down \o Unsent(h1') = Bytes1(m, body)
  BY <1>8, <1>9, NoBytes
<1>11. h1'.pc # "new"
  BY <1>2
<1> HIDE DEF down
<1>12. Hears1(h1', c1, down \o Unsent(h1'))
  BY <1>7, <1>10
<1> QED
  BY <1>6, <1>11, <1>12, Talked DEF path, down

\* WriteResponse: what is sent is on its way.
LEMMA WriteResponseTalks ==
  ASSUME h1 \in Server1Type, c1 \in Client1Type, WireOK(wire), wire' \in WireType,
         conn.data \in Bytes, "down" \notin wire.deaf,
         Talks1(requests, h1, c1, wire, conn.data), WriteResponse
  PROVE  Talks1(requests, h1', c1, wire', conn.data) /\ h1'.made = h1.made
<1> DEFINE bytes == h1.head \o h1.rest
           n == Fitting("down", bytes)
           y == Advance(n)
           down == wire.bytes["down"]
           path == wire.bytes["up"] \o c1.out
<1>1. /\ h1.pc = "write" /\ CanSend("down", bytes) /\ wire' = Sent("down", bytes)
      /\ h1' = [y EXCEPT !.written = @ \o SubSeq(bytes, 1, n)]
  BY DEF WriteResponse
<1>2. bytes \in Bytes /\ Len(bytes) \in Nat /\ wire \in WireType
  BY BytesJoined DEF Server1Type, WireOK, Bytes
<1>3. n \in 0 .. Len(bytes)
  <2>1. n \in 1 .. Len(bytes)
    BY <1>1, <1>2, FittingType DEF Directions
  <2> DEFINE k == Len(bytes)
  <2>2. k \in Nat /\ n \in 1 .. k
    BY <1>2, <2>1
  <2> HIDE DEF n, k
  <2>3. n \in 0 .. k
    BY <2>2
  <2> QED
    BY <2>3 DEF k
<1>4. /\ y \in Server1Type /\ y.head \o y.rest = Rest(bytes, n) /\ y.made = h1.made
      /\ y.pc = h1.pc
  BY <1>3, AdvanceRest
<1>5. y.pending = h1.pending
  BY DEF Advance, Server1Type
<1>6. /\ Sent("down", bytes).bytes["down"] \o Rest(bytes, n) = down \o bytes
      /\ Sent("down", bytes).bytes["up"] = wire.bytes["up"]
  BY <1>1, <1>2, SentBytes DEF Directions
<1>7. c1.pc # "failed" => Asks1(requests, h1, c1, path) /\ Hears1(h1, c1, down \o Unsent(h1))
  BY <1>1, <1>2, Talked
<1>8. Unsent(h1) = bytes
  BY <1>1 DEF Unsent
<1> HIDE DEF bytes, n, y, down, path
<1>9. /\ h1'.made = h1.made /\ h1'.pc = "write" /\ h1'.pending = h1.pending
      /\ h1'.head = y.head /\ h1'.rest = y.rest
  BY <1>1, <1>4, <1>5 DEF Server1Type
<1>10. Unsent(h1') = Rest(bytes, n)
  BY <1>4, <1>9 DEF Unsent
<1>11. wire'.bytes["down"] \o Unsent(h1') = down \o Unsent(h1)
  BY <1>1, <1>6, <1>8, <1>10
<1>12. c1.pc # "failed" => Asks1(requests, h1', c1, path)
  BY <1>1, <1>7, <1>9, AsksOfServer
<1>13. c1.pc # "failed" => Hears1(h1', c1, wire'.bytes["down"] \o Unsent(h1'))
  BY <1>7, <1>9, <1>11, HearsSame DEF SameParser
<1>14. path = wire'.bytes["up"] \o c1.out /\ h1'.pc # "new"
  BY <1>1, <1>6, <1>9 DEF path
<1> QED
  BY <1>9, <1>12, <1>13, <1>14, Talked

\* WriteFails1: the rest is not written.
LEMMA WriteFails1Talks ==
  ASSUME h1 \in Server1Type, c1 \in Client1Type, wire \in WireType, conn.data \in Bytes,
         Talks1(requests, h1, c1, wire, conn.data), WriteFails1
  PROVE  Talks1(requests, h1', c1, wire, conn.data) /\ h1'.made = h1.made
<1> DEFINE path == wire.bytes["up"] \o c1.out
           down == wire.bytes["down"]
<1>1. h1.pc = "write"
  BY DEF WriteFails1
<1>2. /\ h1'.pc \in {"close", "return"} /\ h1'.made = h1.made /\ h1'.pending = h1.pending
  BY DEF WriteFails1, Server1Type
<1>3. c1.pc # "failed" => Asks1(requests, h1, c1, path) /\ Hears1(h1, c1, down \o Unsent(h1))
  BY <1>1, Talked
<1>4. down \in Bytes /\ Unsent(h1) \in Bytes /\ Unsent(h1') = <<>> /\ down \o <<>> = down
  <2>1. Unsent(h1') = <<>>
    BY <1>2 DEF Unsent
  <2>2. down \in Bytes
    BY DEF WireType, Directions
  <2> QED
    BY <2>1, <2>2, UnsentType, NoBytes
<1> HIDE DEF path, down
<1>5. c1.pc # "failed" => Hears1(h1, c1, down)
  BY <1>3, <1>4, HearsLess
<1>6. c1.pc # "failed" => Hears1(h1', c1, down \o Unsent(h1'))
  BY <1>2, <1>4, <1>5, HearsSame DEF SameParser
<1>7. c1.pc # "failed" => Asks1(requests, h1', c1, path)
  BY <1>1, <1>2, <1>3, AsksOfServer
<1>8. h1'.pc # "new"
  BY <1>2
<1> QED
  BY <1>2, <1>6, <1>7, <1>8, Talked DEF path, down

\* The session's end goes, and with it what it has not read.
LEMMA LeavingTalks ==
  ASSUME NEW h \in Server1Type, c1 \in Client1Type, WireOK(wire), wire' \in WireType,
         conn.data \in Bytes, Talks1(requests, h, c1, wire, conn.data), h.pc # "new",
         wire' = Closed("up", "down"),
         NEW y, y.pc # "new", y.made = h.made, y.pending = h.pending,
         y.pc = "handle" <=> h.pc = "handle", y.pc = "handle" => y.current = h.current,
         Unsent(y) = Unsent(h)
  PROVE  Talks1(requests, y, c1, wire', conn.data)
<1> DEFINE up == wire.bytes["up"]
           out == c1.out
<1>1. up \in Bytes /\ out \in Bytes /\ wire \in WireType
  BY DEF WireOK, WireType, Directions, Client1Type
<1>2. c1.pc # "failed" => /\ Asks1(requests, h, c1, up \o out)
                          /\ Hears1(h, c1, wire.bytes["down"] \o Unsent(h))
  BY <1>1, Talked
<1>3. wire'.bytes["up"] = <<>> /\ wire'.bytes["down"] = wire.bytes["down"]
  BY ClosedBytes DEF Directions
<1> HIDE DEF up, out
<1>4. c1.pc # "failed" => Asks1(requests, h, c1, out)
  BY <1>1, <1>2, AsksLess
<1>5. c1.pc # "failed" => Asks1(requests, y, c1, out)
  BY <1>4, AsksOfServer
<1>6. c1.pc # "failed" => Hears1(y, c1, wire'.bytes["down"] \o Unsent(y))
  BY <1>2, <1>3, HearsSame DEF SameParser
<1>7. wire'.bytes["up"] \o c1.out = out
  BY <1>1, <1>3, NoBytes DEF out
<1> QED
  BY <1>5, <1>6, <1>7, Talked

\* Every step of the server's session.
LEMMA Server1Talks ==
  ASSUME h1 \in Server1Type, h1' \in Server1Type, c1 \in Client1Type, WireOK(wire),
         wire' \in WireType, conn.data \in Bytes, "down" \notin wire.deaf,
         Talks1(requests, h1, c1, wire, conn.data), Server1
  PROVE  Talks1(requests, h1', c1, wire', conn.data) /\ h1'.made = h1.made
<1>1. wire \in WireType
  BY DEF WireOK
<1>2. CASE TakeRequest1
  <2>1. wire' = wire
    BY <1>2 DEF TakeRequest1
  <2> QED
    BY <1>1, <1>2, <2>1, TakeRequest1Talks
<1>3. CASE ConsumedAll1 \/ Responded1 \/ ReadEnd1 \/ ReadFails1
  <2>1. wire' = wire
    BY <1>3 DEF ConsumedAll1, Responded1, ReadEnd1, ReadFails1
  <2>2. /\ h1.pc \notin {"new", "handle"} /\ h1'.pc \in {"consume", "read", "return", "close"}
        /\ h1'.made = h1.made /\ h1'.pending = h1.pending
        /\ h1.pc = "write" => h1.head \o h1.rest = <<>>
    BY <1>3, ZenonT(40) DEF ConsumedAll1, Responded1, ReadEnd1, ReadFails1, Server1Type
  <2>3. Unsent(h1') = Unsent(h1)
    BY <2>2 DEF Unsent
  <2>4. h1.pc # "new" /\ h1.pc # "handle" /\ h1'.pc # "new" /\ h1'.pc # "handle"
    BY <2>2
  <2> QED
    BY <1>1, <2>1, <2>2, <2>3, <2>4, QuietTalks
<1>4. CASE WriteResponse
  BY <1>4, WriteResponseTalks
<1>5. CASE WriteFails1
  <2>1. wire' = wire
    BY <1>5 DEF WriteFails1
  <2> QED
    BY <1>1, <1>5, <2>1, WriteFails1Talks
<1>6. CASE Read1
  BY <1>6, Read1Talks
<1>7. CASE Leave1
  <2>1. /\ h1.pc \in {"close", "return"} /\ h1'.pc = "left" /\ wire' = Closed("up", "down")
        /\ h1'.made = h1.made /\ h1'.pending = h1.pending
    BY <1>7 DEF Leave1, Server1Type
  <2>2. Unsent(h1') = Unsent(h1)
    BY <2>1 DEF Unsent
  <2>3. h1.pc # "new" /\ h1.pc # "handle" /\ h1'.pc # "new" /\ h1'.pc # "handle"
    BY <2>1
  <2> QED
    BY <2>1, <2>2, <2>3, LeavingTalks
<1> QED
  BY <1>2, <1>3, <1>4, <1>5, <1>6, <1>7 DEF Server1

\* What Detect tells by the bytes read so far.
LEMMA PrefaceFacts ==
  ASSUME NEW data \in Bytes
  PROVE  /\ IsH2PrefaceComplete(data) => Len(data) >= 2 /\ data[2] = <<0, "RI">>
         /\ (\A i \in 1 .. 2 : i <= Len(data) => data[i] = Preface[i]) => IsH2PrefacePrefix(data)
<1> DEFINE n == Len(data)
           k == Len(Preface)
<1>1. k = 2 /\ Preface[2] = <<0, "RI">>
  BY DEF Preface
<1>2. n \in Nat
  BY DEF Bytes
<1> HIDE DEF n, k
<1>3. Min({n, k}) = IF n <= 2 THEN n ELSE 2
  BY <1>1, <1>2, MinOfTwo
<1>4. \A i \in 1 .. Min({n, k}) : i \in 1 .. 2 /\ i <= n
  BY <1>2, <1>3
<1>5. n >= 2 => 2 \in 1 .. Min({n, k})
  BY <1>2, <1>3
<1> QED
  BY <1>1, <1>4, <1>5 DEF IsH2PrefacePrefix, IsH2PrefaceComplete, n, k

\* Detect: the bytes read are kept, and they are no preface.
LEMMA Detect1Talks ==
  ASSUME c1 \in Client1Type, WireOK(wire), conn.data \in Bytes, h1.pc = "new",
         Talks1(requests, h1, c1, wire, conn.data), Detect
  PROVE  Talks1(requests, h1, c1, wire', conn'.data) /\ conn'.pc \in {"detect", "http1"}
<1>1. PICK n \in Readable("up") :
        LET data == conn.data \o Arrived("up", n)
        IN  /\ conn' = [data |-> data,
                        pc |-> IF ~IsH2PrefacePrefix(data) THEN "http1"
                               ELSE IF IsH2PrefaceComplete(data) THEN "http2" ELSE "detect"]
            /\ wire' = Taken("up", n)
  BY DEF Detect
<1> DEFINE d == conn.data
           a == Arrived("up", n)
           up == wire'.bytes["up"]
           out == c1.out
           data == d \o a
           m == Asked(c1)
<1>2. /\ conn'.data = data
      /\ conn'.pc \in {"detect", "http1"} \/ (conn'.pc = "http2" /\ IsH2PrefaceComplete(data))
  BY <1>1
<1>3. /\ a \in Bytes /\ up \in Bytes /\ wire.bytes["up"] = a \o up /\ a # <<>>
      /\ wire'.bytes["down"] = wire.bytes["down"]
  BY <1>1, TakenBytes DEF Directions
<1>4. out \in Bytes /\ d \in Bytes /\ m \in Nat
  BY DEF Client1Type, Asked
<1>5. Path1(h1, c1, wire, conn.data) = d \o ((a \o up) \o out)
  BY <1>3 DEF Path1
<1>6. Path1(h1, c1, wire', conn'.data) = data \o (up \o out)
  BY <1>2 DEF Path1
<1>7. Path1(h1, c1, wire, conn.data) = <<>>
        \/ Path1(h1, c1, wire, conn.data) = SerializeRequest(requests, m)
  BY DEF Talks1
<1> DEFINE path == Path1(h1, c1, wire, conn.data)
           path1 == Path1(h1, c1, wire', conn'.data)
           request == SerializeRequest(requests, m)
<1>8. request[2] = <<m, "url">>
  BY <1>4, RequestParts
<1> HIDE DEF d, a, up, out, data, path, path1, request
<1>9. data \in Bytes /\ data # <<>> /\ path1 = data \o (up \o out) /\ up \o out \in Bytes
  <2>1. data \in Bytes /\ up \o out \in Bytes
    BY <1>3, <1>4, BytesJoined DEF data
  <2>2. data # <<>>
    BY <1>3, <1>4, NothingJoined DEF data
  <2> QED
    BY <1>6, <2>1, <2>2 DEF path1
<1>10. path1 = path
  <2>1. (a \o up) \o out = a \o (up \o out)
    <3>1. Associated(a, up, out)
      BY <1>3, <1>4, BytesAssociative
    <3> QED
      BY <1>3, <1>4, <3>1 DEF Associated
  <2>2. d \o (a \o (up \o out)) = (d \o a) \o (up \o out)
    <3>1. Associated(d, a, up \o out)
      BY <1>3, <1>4, <1>9, BytesAssociative
    <3> QED
      BY <1>3, <1>4, <1>9, <3>1 DEF Associated
  <2>3. path = d \o ((a \o up) \o out)
    BY <1>5 DEF path
  <2> QED
    BY <1>9, <2>1, <2>2, <2>3 DEF data
<1>11. path1 = request
  <2>1. path1 # <<>>
    BY <1>9, NothingJoined
  <2> QED
    BY <1>7, <1>10, <2>1 DEF path, request
<1>12. ~IsH2PrefaceComplete(data)
  <2> SUFFICES ASSUME IsH2PrefaceComplete(data) PROVE FALSE
    OBVIOUS
  <2>1. 2 \in 1 .. Len(data) /\ data[2] = <<0, "RI">>
    <3>1. Len(data) \in Nat
      BY <1>9 DEF Bytes
    <3> QED
      BY <1>9, <3>1, PrefaceFacts
  <2>2. (data \o (up \o out))[2] = data[2]
    BY <1>9, <2>1, JoinedFirst
  <2>3. <<0, "RI">> = <<m, "url">>
    BY <1>8, <1>9, <1>11, <2>1, <2>2
  <2> QED
    BY <2>3
<1>13. Talks1(requests, h1, c1, wire', conn'.data)
  BY <1>3, <1>10 DEF Talks1, path, path1
<1> QED
  BY <1>2, <1>12, <1>13

-----------------------------------------------------------------------------
(* What a client of HTTP/2 asks, frame by frame.                           *)

\* The frames it may have used are frames, and the more streams the more.
LEMMA FineFrames ==
  ASSUME NEW top \in Nat
  PROVE  /\ Fine(top) \subseteq Tokens
         /\ Settings \in Fine(top) /\ Update \in Fine(top)
         /\ <<0, "P">> \in Fine(top) /\ <<0, "RI">> \in Fine(top)
         /\ Fine(top) \subseteq Fine(top + 1)
         /\ \A part \in Parts, m \in 1 .. top : <<m, part>> \in Fine(top)
<1>1. Control \subseteq Tokens
  <2>1. /\ <<0, "P">> \in Tokens /\ <<0, "RI">> \in Tokens
        /\ <<0, "SETTINGS">> \in Tokens /\ <<0, "WINDOW_UPDATE">> \in Tokens
    BY DEF Tokens, Parts
  <2> QED
    BY <2>1 DEF Control, Settings, Update
<1>2. (1 .. top) \X Parts \subseteq Tokens
  BY DEF Tokens
<1>3. (1 .. top) \X Parts \subseteq (1 .. top + 1) \X Parts
  OBVIOUS
<1>4. /\ Settings \in Control /\ Update \in Control
      /\ <<0, "P">> \in Control /\ <<0, "RI">> \in Control
  BY DEF Control
<1> QED
  BY <1>1, <1>2, <1>3, <1>4 DEF Fine

\* A sequence of them is one with fewer, and made of such.
LEMMA SeqOfParts ==
  ASSUME NEW S, NEW a \in Bytes, NEW b \in Bytes, a \o b \in Seq(S)
  PROVE  a \in Seq(S) /\ b \in Seq(S)
<1> DEFINE c == a \o b
           i == Len(a)
           k == Len(b)
<1>1. Joins(c, a, b)
  BY JoinedAt
<1> HIDE DEF c
<1>2. i \in Nat /\ k \in Nat /\ a \in [1 .. i -> Tokens] /\ b \in [1 .. k -> Tokens]
  BY LenProperties DEF Bytes
<1>3. /\ Len(c) = i + k /\ \A j \in 1 .. i : c[j] = a[j]
      /\ \A j \in 1 .. k : c[i + j] = b[j]
  BY <1>1 DEF Joins
<1>4. c \in Seq(S)
  BY DEF c
<1> HIDE DEF i, k
<1>5. \A j \in 1 .. i + k : c[j] \in S
  <2>1. \A j \in 1 .. Len(c) : c[j] \in S
    BY <1>4, ElementOfSeq
  <2> QED
    BY <1>3, <2>1
<1>6. \A j \in 1 .. i : a[j] \in S
  <2>1. \A j \in 1 .. i : j \in 1 .. i + k
    BY <1>2
  <2> QED
    BY <1>3, <1>5, <2>1
<1>7. \A j \in 1 .. k : b[j] \in S
  <2>1. \A j \in 1 .. k : i + j \in 1 .. i + k
    BY <1>2
  <2> QED
    BY <1>3, <1>5, <2>1
<1>8. a \in [1 .. i -> S] /\ b \in [1 .. k -> S]
  BY <1>2, <1>6, <1>7
<1> QED
  BY <1>2, <1>8, SeqDef

LEMMA SeqOfMore ==
  ASSUME NEW S, NEW T, S \subseteq T
  PROVE  /\ Seq(S) \subseteq Seq(T)
         /\ \A a, b \in Seq(S) : a \o b \in Seq(S)
         /\ \A a \in Seq(S), t \in S : Append(a, t) \in Seq(S)
         /\ <<>> \in Seq(S)
<1>1. Seq(S) \subseteq Seq(T)
  BY SeqMonotonic
<1>2. \A a, b \in Seq(S) : a \o b \in Seq(S)
  BY ConcatProperties
<1> QED
  BY <1>1, <1>2

\* What the client says further comes after the preface.
LEMMA PrefacedMore ==
  ASSUME NEW c, NEW x, NEW a \in Bytes, NEW b \in Bytes, Prefaced(c, a), c.pc # "new",
         x.pc # "new"
  PROVE  Prefaced(x, a \o b)
<1> DEFINE ab == a \o b
           i == Len(a)
           k == Len(b)
           n == Len(ab)
<1>1. n = i + k /\ i \in Nat /\ k \in Nat
  BY BytesJoined, NoBytes
<1>2. i >= 2 /\ \A j \in 1 .. 2 : a[j] = Preface[j]
  BY DEF Prefaced
<1>3. \A j \in 1 .. i : ab[j] = a[j]
  BY JoinedFirst
<1> HIDE DEF ab, i, k, n
<1>4. n >= 2 /\ \A j \in 1 .. 2 : j \in 1 .. i
  BY <1>1, <1>2
<1>5. \A j \in 1 .. 2 : ab[j] = Preface[j]
  BY <1>2, <1>3, <1>4
<1> QED
  BY <1>4, <1>5 DEF Prefaced, n, ab

Joined(x, a, b) == x = a \o b
Three(a, b, c) == a \o (b \o c)

LEMMA ThreeMore ==
  ASSUME NEW a \in Bytes, NEW b \in Bytes, NEW c \in Bytes, NEW d \in Bytes,
         NEW x, Joined(x, c, d)
  PROVE  Joined(Three(a, b, x), Three(a, b, c), d)
<1> DEFINE bc == b \o c
<1>1. bc \in Bytes
  BY BytesJoined
<1>2. b \o (c \o d) = bc \o d
  <2>1. Associated(b, c, d)
    BY BytesAssociative
  <2> QED
    BY <2>1 DEF Associated
<1> HIDE DEF bc
<1>3. a \o (bc \o d) = (a \o bc) \o d
  <2>1. Associated(a, bc, d)
    BY <1>1, BytesAssociative
  <2> QED
    BY <1>1, <2>1 DEF Associated
<1>4. x = c \o d
  BY DEF Joined
<1> QED
  BY <1>2, <1>3, <1>4 DEF bc, Three, Joined

LEMMA Path2Of ==
  ASSUME NEW c \in Client2Type, NEW w \in WireType, NEW data \in Bytes
  PROVE  /\ w.bytes["up"] \in Bytes /\ w.bytes["down"] \in Bytes
         /\ c.copy \in Bytes /\ c.queue \in Bytes
         /\ data \o w.bytes["up"] \in Bytes /\ c.copy \o c.queue \in Bytes
         /\ Path2(c, w, data) \in Bytes
<1>1. /\ w.bytes["up"] \in Bytes /\ w.bytes["down"] \in Bytes
      /\ c.copy \in Bytes /\ c.queue \in Bytes
  BY DEF WireType, Directions, Client2Type
<1>2. data \o w.bytes["up"] \in Bytes /\ c.copy \o c.queue \in Bytes
  BY <1>1, BytesJoined
<1> QED
  BY <1>1, <1>2, BytesJoined DEF Path2

\* The client's slots are what its callbacks make them, and it hears what it
\* has heard.
LEMMA HearsSame2 ==
  ASSUME NEW h, NEW c, NEW down, Hears2(h, c, down), NEW y, y.made = h.made,
         y.written = h.written, NEW x, x.responses = c.responses
  PROVE  Hears2(y, x, down)
<1>1. \A stream : ResponseOf(x, stream) = ResponseOf(c, stream)
  BY DEF ResponseOf
<1> QED
  BY <1>1 DEF Hears2, HasSlots

LEMMA UsedOf ==
  ASSUME NEW c \in Client2Type
  PROVE  /\ Used(c) \in Nat /\ Len(c.results) \in Nat
         /\ c.then = "idle" => Used(c) = Len(c.results)
         /\ c.then # "idle" => Used(c) = Len(c.results) + 1
  BY DEF Used, Client2Type

\* A client that goes on, on its stream or a new one.
LEMMA AsksClient2 ==
  ASSUME NEW h \in Server2Type, NEW c \in Client2Type, NEW up, NEW data, Asks2(h, c, up, data),
         NEW x \in Client2Type, x.results = c.results, Goes2(x),
         Used(x) = Used(c) \/ Used(x) = Used(c) + 1, NEW up1, up1 \in Seq(Fine(Used(x))),
         x.copy \in Seq(Fine(Used(x))), x.queue \in Seq(Fine(Used(x)))
  PROVE  Asks2(h, x, up1, data)
<1> DEFINE i == Used(c)
           k == Used(x)
           n == Len(h.made)
           l == Len(c.results)
<1>1. i \in Nat /\ k \in Nat /\ n \in Nat /\ l \in Nat /\ l = Len(x.results)
  BY UsedOf DEF Server2Type
<1>2. /\ data \in Seq(Fine(i)) /\ DOMAIN h.requests \subseteq 1 .. i /\ n \in l .. i
      /\ \A j \in DOMAIN h.made : h.made[j][1] = j
      /\ h.pc = "write" => Len(h.copy) = 1
  BY DEF Asks2
<1>3. k = i \/ k = i + 1
  OBVIOUS
<1> HIDE DEF i, k, n, l
<1>4. 1 .. i \subseteq 1 .. k /\ l .. i \subseteq l .. k
  BY <1>1, <1>3
<1>5. data \in Seq(Fine(k))
  <2>1. Fine(i) \subseteq Fine(k)
    BY <1>1, <1>3, FineFrames
  <2> QED
    BY <1>2, <2>1, SeqOfMore
<1>6. DOMAIN h.requests \subseteq 1 .. k /\ n \in l .. k
  BY <1>2, <1>4
<1> QED
  BY <1>1, <1>2, <1>5, <1>6 DEF Asks2, k, n, l

\* InitializeClient2: the preface is said first.
LEMMA InitializeClient2Talks ==
  ASSUME h2 \in Server2Type, c2 \in Client2Type, c2' \in Client2Type, wire \in WireType,
         conn.data \in Bytes, Talks2(h2, c2, wire, conn.data), InitializeClient2
  PROVE  Talks2(h2, c2', wire, conn.data) /\ c2'.results = c2.results
<1> DEFINE q == Preface \o <<Settings>>
           up == wire.bytes["up"]
           top == Used(c2)
<1>1. c2.pc = "new" /\ c2' = [c2 EXCEPT !.pc = "send", !.queue = q]
  BY DEF InitializeClient2
<1>2. /\ Asks2(h2, c2, up, conn.data) /\ Hears2(h2, c2, wire.bytes["down"])
      /\ h2.pc = "new" => Prefaced(c2, Path2(c2, wire, conn.data))
  BY <1>1 DEF Talks2
<1> HIDE DEF q
<1>3. /\ c2'.pc = "send" /\ c2'.queue = q /\ c2'.copy = c2.copy /\ c2'.then = c2.then
      /\ c2'.results = c2.results /\ c2'.responses = c2.responses
  BY <1>1 DEF Client2Type
<1>4. Used(c2') = top /\ top \in Nat
  BY <1>3, UsedOf DEF Used
<1>5. Preface \in Seq(Fine(top)) /\ <<Settings>> \in Seq(Fine(top)) /\ Preface \in Bytes
      /\ <<Settings>> \in Bytes /\ Len(Preface) = 2
  <2>1. /\ <<0, "P">> \in Fine(top) /\ <<0, "RI">> \in Fine(top) /\ Settings \in Fine(top)
        /\ Fine(top) \subseteq Tokens
    BY <1>4, FineFrames
  <2> HIDE DEF top
  <2>2. Preface \in Seq(Fine(top)) /\ <<Settings>> \in Seq(Fine(top)) /\ Len(Preface) = 2
    BY <2>1 DEF Preface
  <2>3. Preface \in Seq(Tokens) /\ <<Settings>> \in Seq(Tokens)
    BY <2>1, <2>2, SeqOfMore
  <2> QED
    BY <2>2, <2>3 DEF Bytes
<1>6. q \in Seq(Fine(top)) /\ q \in Bytes
  <2>1. q \in Seq(Fine(top))
    BY <1>5, SeqOfMore DEF q
  <2> QED
    BY <1>5, <2>1, BytesJoined DEF q
<1>7. c2.copy = <<>> /\ up \in Seq(Fine(top)) /\ c2.copy \in Seq(Fine(top))
      /\ c2.then = "idle"
  BY <1>1, <1>2 DEF Asks2, Goes2
<1>8. Goes2(c2')
  BY <1>3, <1>7 DEF Goes2
<1> HIDE DEF top, up
<1>9. Asks2(h2, c2', up, conn.data)
  BY <1>2, <1>3, <1>4, <1>6, <1>7, <1>8, AsksClient2 DEF top
<1>10. Hears2(h2, c2', wire.bytes["down"])
  BY <1>2, <1>3, HearsSame2
<1>11. ASSUME h2.pc = "new" PROVE Prefaced(c2', Path2(c2', wire, conn.data))
  <2> DEFINE a == conn.data \o up
             b == c2.copy \o c2.queue
  <2>1. a \in Bytes /\ b \in Bytes /\ a \o b = <<>>
    BY <1>1, <1>2, <1>11, Path2Of DEF Prefaced, Path2, up
  <2>2. a = <<>>
    BY <2>1, NothingJoined
  <2>3. c2'.copy \o c2'.queue = q
    BY <1>3, <1>6, <1>7, NoBytes
  <2>4. Path2(c2', wire, conn.data) = q
    BY <1>6, <2>2, <2>3, NoBytes DEF Path2, up
  <2>5. Len(q) >= 2 /\ \A i \in 1 .. 2 : q[i] = Preface[i]
    <3>1. \A i \in 1 .. Len(Preface) : q[i] = Preface[i]
      BY <1>5, JoinedFirst DEF q
    <3>2. Len(q) = Len(Preface) + Len(<<Settings>>) /\ Len(<<Settings>>) = 1
      BY <1>5, BytesJoined DEF q
    <3> HIDE DEF q
    <3>3. Len(q) >= 2
      BY <1>5, <3>2
    <3> QED
      BY <1>5, <3>1, <3>3
  <2> QED
    BY <1>3, <2>4, <2>5 DEF Prefaced
<1> QED
  BY <1>3, <1>9, <1>10, <1>11 DEF Talks2, up

\* Request2: the frames of the next stream.
LEMMA Request2Talks ==
  ASSUME h2 \in Server2Type, c2 \in Client2Type, c2' \in Client2Type, wire \in WireType,
         conn.data \in Bytes, Talks2(h2, c2, wire, conn.data), Request2
  PROVE  Talks2(h2, c2', wire, conn.data) /\ c2'.results = c2.results
<1> DEFINE up == wire.bytes["up"]
           top == Used(c2)
           m == Len(c2.results) + 1
           with == << <<m, "HEADERS">>, <<m, "DATA">>, <<m, "DATA!">> >>
           without == << <<m, "HEADERS!">> >>
           more == IF requests[m].body THEN with ELSE without
           p == c2.queue
<1>1. /\ c2.pc = "idle"
      /\ c2' = [c2 EXCEPT !.pc = "send", !.then = "read", !.reads = 0, !.queue = @ \o more]
  BY DEF Request2
<1>2. /\ Asks2(h2, c2, up, conn.data) /\ Hears2(h2, c2, wire.bytes["down"])
      /\ h2.pc = "new" => Prefaced(c2, Path2(c2, wire, conn.data))
  BY <1>1 DEF Talks2
<1>3. /\ up \in Seq(Fine(top)) /\ c2.copy \in Seq(Fine(top)) /\ p \in Seq(Fine(top))
      /\ Goes2(c2)
  BY <1>2 DEF Asks2
<1>4. c2.then = "idle" /\ c2.copy = <<>>
  BY <1>1, <1>3 DEF Goes2
<1>5. top \in Nat /\ m = top + 1
  BY <1>4, UsedOf
<1> HIDE DEF more, m
<1>6. /\ c2'.pc = "send" /\ c2'.queue = p \o more /\ c2'.copy = c2.copy /\ c2'.then = "read"
      /\ c2'.results = c2.results /\ c2'.responses = c2.responses
  BY <1>1 DEF Client2Type
<1>7. Used(c2') = top + 1
  BY <1>4, <1>6, UsedOf DEF Used
<1> HIDE DEF top, up, p
<1>8. more \in Seq(Fine(top + 1)) /\ more \in Bytes
  <2>1. m \in 1 .. top + 1 /\ top + 1 \in Nat
    BY <1>5
  <2>2. /\ <<m, "HEADERS">> \in Fine(top + 1) /\ <<m, "DATA">> \in Fine(top + 1)
        /\ <<m, "DATA!">> \in Fine(top + 1) /\ <<m, "HEADERS!">> \in Fine(top + 1)
        /\ Fine(top + 1) \subseteq Tokens
    BY <2>1, FineFrames DEF Parts
  <2>3. with \in Seq(Fine(top + 1)) /\ without \in Seq(Fine(top + 1))
    BY <2>2
  <2>4. more \in Seq(Fine(top + 1))
    BY <2>3 DEF more
  <2> QED
    BY <2>2, <2>4, SeqOfMore DEF Bytes
<1>9. /\ up \in Seq(Fine(top + 1)) /\ c2.copy \in Seq(Fine(top + 1)) /\ p \in Seq(Fine(top + 1))
  <2>1. Fine(top) \subseteq Fine(top + 1)
    BY <1>5, FineFrames
  <2> QED
    BY <1>3, <2>1, SeqOfMore
<1>10. p \o more \in Seq(Fine(top + 1))
  BY <1>8, <1>9, SeqOfMore
<1>11. Goes2(c2')
  BY <1>4, <1>6 DEF Goes2
<1>12. Asks2(h2, c2', up, conn.data)
  BY <1>2, <1>6, <1>7, <1>9, <1>10, <1>11, AsksClient2 DEF top
<1>13. Hears2(h2, c2', wire.bytes["down"])
  BY <1>2, <1>6, HearsSame2
<1>14. ASSUME h2.pc = "new" PROVE Prefaced(c2', Path2(c2', wire, conn.data))
  <2> DEFINE a == conn.data \o up
             path == Path2(c2, wire, conn.data)
  <2>1. a \in Bytes /\ p \in Bytes /\ path \in Bytes /\ c2.copy \in Bytes
    BY Path2Of DEF up, p
  <2>2. path = Three(a, c2.copy, p)
    BY DEF Path2, up, p, Three
  <2>3. Path2(c2', wire, conn.data) = Three(a, c2.copy, c2'.queue)
    BY <1>6 DEF Path2, up, Three
  <2>4. more \in Bytes
    BY <1>8
  <2>5. Joined(c2'.queue, p, more)
    BY <1>6 DEF Joined
  <2> HIDE DEF a, path
  <2>6. Joined(Three(a, c2.copy, c2'.queue), path, more)
    BY <2>1, <2>2, <2>4, <2>5, ThreeMore
  <2>7. Prefaced(c2, path) /\ c2.pc # "new" /\ c2'.pc # "new" /\ path \in Bytes
    BY <1>1, <1>2, <1>6, <1>14, <2>1 DEF path
  <2>8. Prefaced(c2', path \o more)
    BY <2>4, <2>7, PrefacedMore
  <2> QED
    BY <2>3, <2>6, <2>8 DEF Joined
<1> QED
  BY <1>6, <1>12, <1>13, <1>14 DEF Talks2, up

\* Steps that say nothing new.
LEMMA PrefacedSame ==
  ASSUME NEW c, NEW x, NEW path, Prefaced(c, path), c.pc # "new", x.pc # "new"
  PROVE  Prefaced(x, path)
  BY DEF Prefaced

\* The bytes in the middle go over to those before.
LEMMA MiddleOver ==
  ASSUME NEW d \in Bytes, NEW u \in Bytes, NEW k \in Bytes, NEW p \in Bytes
  PROVE  Three(d, u \o k, p) = Three(d \o u, k, p)
<1>1. /\ d \o u \in Bytes /\ u \o k \in Bytes /\ k \o p \in Bytes
  BY BytesJoined
<1>2. (u \o k) \o p = u \o (k \o p)
  <2>1. Associated(u, k, p)
    BY BytesAssociative
  <2> QED
    BY <2>1 DEF Associated
<1> DEFINE kp == k \o p
<1>3. kp \in Bytes
  BY <1>1
<1>4. Three(d, u \o k, p) = d \o (u \o kp)
  BY <1>2 DEF Three
<1>5. Three(d \o u, k, p) = (d \o u) \o kp
  BY DEF Three
<1> HIDE DEF kp
<1>6. (d \o u) \o kp = d \o (u \o kp)
  <2>1. Associated(d, u, kp)
    BY <1>3, BytesAssociative
  <2> QED
    BY <1>3, <2>1 DEF Associated
<1> QED
  BY <1>4, <1>5, <1>6

LEMMA HeadFirst ==
  ASSUME NEW S, NEW q \in Seq(S), q # <<>>
  PROVE  /\ <<Head(q)>> \in Seq(S) /\ Tail(q) \in Seq(S) /\ Len(<<Head(q)>>) = 1
         /\ <<Head(q)>> \o Tail(q) = q
<1> DEFINE h == Head(q)
           t == Tail(q)
           n == Len(q)
           a == <<h>>
           x == a \o t
<1>1. n \in Nat /\ n # 0 /\ h \in S /\ h = q[1] /\ t \in Seq(S) /\ Len(t) = n - 1
      /\ \A i \in 1 .. n - 1 : t[i] = q[i + 1]
  BY EmptySeq, HeadTailProperties
<1> HIDE DEF h, t, n
<1>2. a \in Seq(S) /\ Len(a) = 1 /\ a[1] = h
  BY <1>1
<1> HIDE DEF a
<1>3. x \in Seq(S) /\ Len(x) = 1 + (n - 1)
      /\ \A i \in 1 .. 1 + (n - 1) : x[i] = IF i <= 1 THEN a[i] ELSE t[i - 1]
  <2> DEFINE k == Len(a)
             l == Len(t)
  <2>1. a \in Seq(S) /\ t \in Seq(S)
    BY <1>1, <1>2
  <2>2. x \in Seq(S) /\ Len(x) = k + l
        /\ \A i \in 1 .. k + l : x[i] = IF i <= k THEN a[i] ELSE t[i - k]
    BY <2>1, ConcatProperties
  <2>3. k = 1 /\ l = n - 1
    BY <1>1, <1>2
  <2> HIDE DEF k, l, x
  <2> QED
    BY <2>2, <2>3
<1> HIDE DEF x
<1>4. Len(x) = n
  BY <1>1, <1>3
<1>5. ASSUME NEW i \in 1 .. n PROVE x[i] = q[i]
  <2>1. CASE i = 1
    BY <1>1, <1>2, <1>3, <2>1
  <2>2. CASE i # 1
    <3>1. i - 1 \in 1 .. n - 1 /\ (i - 1) + 1 = i /\ ~(i <= 1) /\ i \in 1 .. 1 + (n - 1)
      BY <1>1, <2>2
    <3> QED
      BY <1>1, <1>3, <3>1
  <2> QED
    BY <2>1, <2>2
<1>6. x = q
  BY <1>3, <1>4, <1>5, SeqEqual DEF n
<1> QED
  BY <1>1, <1>2, <1>6 DEF a, t, h, x

\* SendBatchClient copies the first of the queue, ...
LEMMA SendBatchClientTalks ==
  ASSUME h2 \in Server2Type, c2 \in Client2Type, c2' \in Client2Type, wire \in WireType,
         conn.data \in Bytes, Talks2(h2, c2, wire, conn.data), SendBatchClient
  PROVE  Talks2(h2, c2', wire, conn.data) /\ c2'.results = c2.results
<1> DEFINE up == wire.bytes["up"]
           top == Used(c2)
           p == c2.queue
           first == <<Head(p)>>
           rest == Tail(p)
<1>1. /\ c2.pc = "send" /\ p # <<>>
      /\ c2' = [c2 EXCEPT !.pc = "write", !.copy = first, !.queue = rest]
  BY DEF SendBatchClient
<1>2. /\ Asks2(h2, c2, up, conn.data) /\ Hears2(h2, c2, wire.bytes["down"])
      /\ h2.pc = "new" => Prefaced(c2, Path2(c2, wire, conn.data))
  BY <1>1 DEF Talks2
<1>3. up \in Seq(Fine(top)) /\ p \in Seq(Fine(top)) /\ Goes2(c2)
  BY <1>2 DEF Asks2
<1>4. c2.copy = <<>>
  BY <1>1, <1>3 DEF Goes2
<1>5. /\ first \in Seq(Fine(top)) /\ rest \in Seq(Fine(top)) /\ Len(first) = 1
      /\ first \o rest = p
  BY <1>1, <1>3, HeadFirst
<1> HIDE DEF first, rest
<1>6. /\ c2'.pc = "write" /\ c2'.queue = rest /\ c2'.copy = first /\ c2'.then = c2.then
      /\ c2'.results = c2.results /\ c2'.responses = c2.responses
  BY <1>1 DEF Client2Type
<1>7. Used(c2') = top
  BY <1>6 DEF Used
<1>8. Goes2(c2')
  BY <1>5, <1>6 DEF Goes2
<1>9. Asks2(h2, c2', up, conn.data)
  BY <1>2, <1>3, <1>5, <1>6, <1>7, <1>8, AsksClient2
<1>10. Hears2(h2, c2', wire.bytes["down"])
  BY <1>2, <1>6, HearsSame2
<1>11. Path2(c2', wire, conn.data) = Path2(c2, wire, conn.data)
  <2>1. c2.copy \o c2.queue = p
    <3>1. p \in Bytes
      BY DEF Client2Type
    <3> HIDE DEF p
    <3>2. <<>> \o p = p
      BY <3>1, NoBytes
    <3> QED
      BY <1>4, <3>2 DEF p
  <2>2. c2'.copy \o c2'.queue = p
    BY <1>5, <1>6
  <2> QED
    BY <2>1, <2>2 DEF Path2
<1>12. h2.pc = "new" => Prefaced(c2', Path2(c2', wire, conn.data))
  BY <1>1, <1>2, <1>6, <1>11, PrefacedSame
<1> QED
  BY <1>6, <1>9, <1>10, <1>12 DEF Talks2

\* ... WriteBatchClient sends the copy, ...
LEMMA WriteBatchClientTalks ==
  ASSUME h2 \in Server2Type, c2 \in Client2Type, c2' \in Client2Type, WireOK(wire),
         conn.data \in Bytes, Talks2(h2, c2, wire, conn.data), WriteBatchClient,
         "up" \in wire.deaf => h2.pc # "new"
  PROVE  Talks2(h2, c2', wire', conn.data) /\ c2'.results = c2.results
<1> DEFINE up == wire.bytes["up"]
           top == Used(c2)
           k == c2.copy
           p == c2.queue
           w == Sent("up", k)
<1>1. /\ c2.pc = "write" /\ CanSend("up", k) /\ wire' = w
      /\ c2' = [c2 EXCEPT !.pc = "send", !.copy = <<>>]
  BY DEF WriteBatchClient
<1>2. /\ Asks2(h2, c2, up, conn.data) /\ Hears2(h2, c2, wire.bytes["down"])
      /\ h2.pc = "new" => Prefaced(c2, Path2(c2, wire, conn.data))
  BY <1>1 DEF Talks2
<1>3. /\ up \in Seq(Fine(top)) /\ p \in Seq(Fine(top)) /\ k \in Seq(Fine(top)) /\ Goes2(c2)
  BY <1>2 DEF Asks2
<1>4. Len(k) = 1
  BY <1>1, <1>3 DEF Goes2
<1>5. /\ up \in Bytes /\ k \in Bytes /\ p \in Bytes
  BY DEF WireOK, WireType, Directions, Client2Type
<1>6. /\ "up" \notin wire.deaf => w.bytes["up"] = up \o k
      /\ "up" \in wire.deaf => w.bytes["up"] = up
      /\ w.bytes["down"] = wire.bytes["down"]
  BY <1>1, <1>4, <1>5, SentBytes DEF Directions
<1>7. /\ c2'.pc = "send" /\ c2'.queue = p /\ c2'.copy = <<>> /\ c2'.then = c2.then
      /\ c2'.results = c2.results /\ c2'.responses = c2.responses
  BY <1>1 DEF Client2Type
<1>8. Used(c2') = top
  BY <1>7 DEF Used
<1> HIDE DEF up, k, p, w, top
<1>9. up \o k \in Seq(Fine(top)) /\ <<>> \in Seq(Fine(top))
  BY <1>3, SeqOfMore
<1>10. w.bytes["up"] \in Seq(Fine(top))
  BY <1>3, <1>6, <1>9
<1>11. Goes2(c2')
  BY <1>7 DEF Goes2
<1>12. Asks2(h2, c2', w.bytes["up"], conn.data)
  BY <1>2, <1>3, <1>7, <1>8, <1>9, <1>10, <1>11, AsksClient2 DEF top
<1>13. Hears2(h2, c2', w.bytes["down"])
  BY <1>2, <1>6, <1>7, HearsSame2
<1>14. ASSUME h2.pc = "new" PROVE Prefaced(c2', Path2(c2', wire', conn.data))
  <2> DEFINE d == conn.data
  <2>1. d \in Bytes
    OBVIOUS
  <2>2. Path2(c2, wire, conn.data) = Three(d \o up, k, p)
    BY DEF Path2, k, p, up, Three
  <2>3. Path2(c2', wire', conn.data) = (d \o (up \o k)) \o (<<>> \o p)
    BY <1>1, <1>6, <1>7, <1>14 DEF Path2
  <2> HIDE DEF d
  <2>4. <<>> \o p = p
    BY <1>5, NoBytes
  <2>5. up \o k \in Bytes
    BY <1>5, BytesJoined
  <2>6. Three(d, up \o k, p) = (d \o (up \o k)) \o p
    <3>1. Associated(d, up \o k, p)
      BY <1>5, <2>1, <2>5, BytesAssociative
    <3> QED
      BY <1>5, <2>1, <2>5, <3>1 DEF Associated, Three
  <2>7. Three(d, up \o k, p) = Three(d \o up, k, p)
    BY <1>5, <2>1, MiddleOver
  <2>8. Path2(c2', wire', conn.data) = Path2(c2, wire, conn.data)
    BY <2>2, <2>3, <2>4, <2>6, <2>7
  <2> QED
    BY <1>1, <1>2, <1>7, <1>14, <2>8, PrefacedSame
<1> QED
  BY <1>1, <1>7, <1>12, <1>13, <1>14 DEF Talks2

\* ... and SentAllClient goes on.
LEMMA SentAllClientTalks ==
  ASSUME h2 \in Server2Type, c2 \in Client2Type, c2' \in Client2Type, wire \in WireType,
         conn.data \in Bytes, Talks2(h2, c2, wire, conn.data), SentAllClient
  PROVE  Talks2(h2, c2', wire, conn.data) /\ c2'.results = c2.results
<1> DEFINE up == wire.bytes["up"]
           top == Used(c2)
<1>1. c2.pc = "send" /\ c2.queue = <<>> /\ c2' = [c2 EXCEPT !.pc = c2.then]
  BY DEF SentAllClient
<1>2. /\ Asks2(h2, c2, up, conn.data) /\ Hears2(h2, c2, wire.bytes["down"])
      /\ h2.pc = "new" => Prefaced(c2, Path2(c2, wire, conn.data))
  BY <1>1 DEF Talks2
<1>3. /\ c2'.pc = c2.then /\ c2'.queue = c2.queue /\ c2'.copy = c2.copy
      /\ c2'.then = c2.then /\ c2.then \in {"idle", "read", "check"}
      /\ c2'.results = c2.results /\ c2'.responses = c2.responses
  BY <1>1 DEF Client2Type
<1>4. Used(c2') = top
  BY <1>3 DEF Used
<1>5. /\ up \in Seq(Fine(top)) /\ c2.copy \in Seq(Fine(top)) /\ c2.queue \in Seq(Fine(top))
      /\ Goes2(c2)
  BY <1>2 DEF Asks2
<1>6. Goes2(c2')
  BY <1>1, <1>3, <1>5 DEF Goes2
<1>7. Asks2(h2, c2', up, conn.data)
  BY <1>2, <1>3, <1>4, <1>5, <1>6, AsksClient2
<1>8. Hears2(h2, c2', wire.bytes["down"])
  BY <1>2, <1>3, HearsSame2
<1>9. Path2(c2', wire, conn.data) = Path2(c2, wire, conn.data)
  BY <1>3 DEF Path2
<1>10. c2.pc # "new" /\ c2'.pc # "new"
  BY <1>1, <1>3
<1>11. h2.pc = "new" => Prefaced(c2', Path2(c2', wire, conn.data))
  BY <1>2, <1>9, <1>10, PrefacedSame
<1> QED
  BY <1>3, <1>7, <1>8, <1>11 DEF Talks2

\* ReadRefusedClient and ClientFails2: the client asks no more.
LEMMA ReadRefusedClientTalks ==
  ASSUME c2 \in Client2Type, WireOK(wire), Talks2(h2, c2, wire, conn.data),
         ReadRefusedClient
  PROVE  Talks2(h2, c2', wire', conn.data) /\ c2'.results = c2.results
<1>1. PICK n \in Readable("down") : wire' = Taken("down", n)
  BY DEF ReadRefusedClient
<1>2. wire'.bytes["up"] = wire.bytes["up"]
  BY <1>1, TakenBytes DEF Directions
<1>3. /\ c2.pc # "new" /\ c2'.pc = "failed" /\ c2'.results = c2.results
      /\ c2'.copy = c2.copy /\ c2'.queue = c2.queue
  BY DEF ReadRefusedClient, Client2Type
<1>4. Path2(c2', wire', conn.data) = Path2(c2, wire, conn.data)
  BY <1>2, <1>3 DEF Path2
<1>5. h2.pc = "new" => Prefaced(c2', Path2(c2', wire', conn.data))
  BY <1>3, <1>4, PrefacedSame DEF Talks2
<1> QED
  BY <1>3, <1>5 DEF Talks2

LEMMA ClientFails2Talks ==
  ASSUME c2 \in Client2Type, Talks2(h2, c2, wire, conn.data), ClientFails2
  PROVE  Talks2(h2, c2', wire, conn.data) /\ c2'.results = c2.results
<1>1. /\ c2.pc # "new" /\ c2'.pc = "failed" /\ c2'.results = c2.results
      /\ c2'.copy = c2.copy /\ c2'.queue = c2.queue
  BY DEF ClientFails2, Client2Type
<1>2. Path2(c2', wire, conn.data) = Path2(c2, wire, conn.data)
  BY <1>1 DEF Path2
<1>3. h2.pc = "new" => Prefaced(c2', Path2(c2', wire, conn.data))
  BY <1>1, <1>2, PrefacedSame DEF Talks2
<1> QED
  BY <1>1, <1>3 DEF Talks2

-----------------------------------------------------------------------------
(* What a client of HTTP/2 hears, frame by frame.                          *)

\* Of the first k frames and the next, those of a stream.
Counts(frames, stream, k) ==
  /\ OnStream(frames, stream, 0) = 0 /\ OnStream(frames, stream, k) \in Nat
  /\ OnStream(frames, stream, k + 1)
       = OnStream(frames, stream, k) + (IF frames[k + 1][1] = stream THEN 1 ELSE 0)

LEMMA OnStreamStep ==
  ASSUME NEW frames, NEW stream, NEW k \in Nat
  PROVE  Counts(frames, stream, k)
<1> DEFINE Its(i) == {j \in 1 .. i : frames[j][1] = stream}
           S == Its(k)
           x == k + 1
<1>1. IsFiniteSet(S)
  <2>1. IsFiniteSet(1 .. k) /\ S \in SUBSET (1 .. k)
    BY FS_Interval
  <2> QED
    BY <2>1, FS_Subset
<1>2. x \notin S /\ 1 .. x = (1 .. k) \cup {x}
  OBVIOUS
<1>3. Its(x) = IF frames[x][1] = stream THEN S \cup {x} ELSE S
  BY <1>2
<1>4. Its(0) = {}
  OBVIOUS
<1> HIDE DEF Its, S, x
<1>5. Cardinality(S \cup {x}) = Cardinality(S) + 1 /\ Cardinality(S) \in Nat
  BY <1>1, <1>2, FS_AddElement, FS_CardinalityType
<1>6. Cardinality(Its(x)) = Cardinality(S) + (IF frames[x][1] = stream THEN 1 ELSE 0)
  BY <1>3, <1>5
<1>7. Cardinality(Its(0)) = 0
  BY <1>4, FS_EmptySet
<1> QED
  BY <1>5, <1>6, <1>7 DEF OnStream, Counts, Its, S, x

\* What the callbacks leave of the client's session, ...
SameClient2(y, s) ==
  /\ y.results = s.results /\ y.pc = s.pc /\ y.then = s.then /\ y.copy = s.copy
  /\ y.queue = s.queue \/ y.queue = Append(s.queue, Update)

\* ... and what they make of a stream's slot.
Slots(y, s, stream, slot) ==
  /\ ResponseOf(y, stream) = slot
  /\ \A other : other # stream => ResponseOf(y, other) = ResponseOf(s, other)

LEMMA ClientCallbacks ==
  ASSUME NEW s \in Client2Type, NEW t \in Tokens
  PROVE  /\ LET y == ClientOnHeader(s, t[1])
            IN  /\ SameClient2(y, s) /\ t[1] \in DOMAIN y.responses
                /\ Slots(y, s, t[1], [ResponseOf(s, t[1]) EXCEPT !.status = t[1]])
         /\ LET y == ClientOnDataChunk(s, t)
            IN  /\ SameClient2(y, s) /\ t[1] \in DOMAIN y.responses
                /\ Slots(y, s, t[1], [ResponseOf(s, t[1]) EXCEPT !.body = Append(@, t)])
<1> DEFINE i == t[1]
           v == [ResponseOf(s, i) EXCEPT !.status = i]
           d == [ResponseOf(s, i) EXCEPT !.body = Append(@, t)]
           Puts(y, u) == y.responses = Put(s.responses, i, u)
<1>1. ASSUME NEW y, NEW u, Puts(y, u) PROVE i \in DOMAIN y.responses /\ Slots(y, s, i, u)
  <2> HIDE DEF i
  <2>1. /\ DOMAIN y.responses = DOMAIN s.responses \cup {i} /\ y.responses[i] = u
        /\ \A other \in DOMAIN s.responses : other # i => y.responses[other] = s.responses[other]
    BY <1>1 DEF Put
  <2> QED
    BY <2>1 DEF Slots, ResponseOf
<1>2. LET y == ClientOnHeader(s, i) IN SameClient2(y, s) /\ Puts(y, v)
  BY DEF ClientOnHeader, Client2Type, SameClient2
<1>3. LET y == ClientOnDataChunk(s, t) IN SameClient2(y, s) /\ Puts(y, d)
  BY DEF ClientOnDataChunk, Client2Type, SameClient2
<1> HIDE DEF i, v, d, Puts
<1>4. LET y == ClientOnHeader(s, i) IN i \in DOMAIN y.responses /\ Slots(y, s, i, v)
  BY <1>1, <1>2
<1>5. LET y == ClientOnDataChunk(s, t) IN i \in DOMAIN y.responses /\ Slots(y, s, i, d)
  BY <1>1, <1>3
<1> QED
  BY <1>2, <1>3, <1>4, <1>5 DEF i, v, d

LEMMA StreamCloses ==
  ASSUME NEW s \in Client2Type, NEW stream \in DOMAIN s.responses
  PROVE  LET y == ClientOnStreamClose(s, stream)
         IN  /\ SameClient2(y, s) /\ y.queue = s.queue
             /\ Slots(y, s, stream, [ResponseOf(s, stream) EXCEPT !.complete = TRUE])
<1> DEFINE y == ClientOnStreamClose(s, stream)
           m == [s.responses EXCEPT ![stream].complete = TRUE]
<1>1. y = [s EXCEPT !.responses = m]
  BY DEF ClientOnStreamClose
<1>2. /\ DOMAIN m = DOMAIN s.responses
      /\ m[stream] = [s.responses[stream] EXCEPT !.complete = TRUE]
      /\ \A other \in DOMAIN s.responses : other # stream => m[other] = s.responses[other]
  <2>1. s.responses = [x \in DOMAIN s.responses |-> s.responses[x]]
    BY DEF Client2Type, Maps
  <2> QED
    BY <2>1
<1> HIDE DEF m, y
<1>3. SameClient2(y, s) /\ y.queue = s.queue /\ y.responses = m
  BY <1>1 DEF Client2Type, SameClient2
<1>4. Slots(y, s, stream, [ResponseOf(s, stream) EXCEPT !.complete = TRUE])
  BY <1>2, <1>3 DEF Slots, ResponseOf
<1> QED
  BY <1>3, <1>4 DEF y

LEMMA ReplyOfType ==
  ASSUME NEW s \in Client2Type, NEW stream \in Nat
  PROVE  ResponseOf(s, stream) \in ReplyType
<1>1. PICK D \in SUBSET Nat : s.responses \in [D -> ReplyType]
  BY DEF Client2Type, Maps
<1>2. NoResponse \in ReplyType
  BY DEF NoResponse, ReplyType, Bytes
<1> QED
  BY <1>1, <1>2 DEF ResponseOf

LEMMA ChunkType ==
  ASSUME NEW s \in Client2Type, NEW t \in Tokens
  PROVE  ClientOnDataChunk(s, t) \in Client2Type
<1> DEFINE stream == t[1]
           v == [ResponseOf(s, stream) EXCEPT !.body = Append(@, t)]
           m == Put(s.responses, stream, v)
           q == Append(s.queue, Update)
           d == ClientOnDataChunk(s, t)
<1>1. stream \in Nat
  BY DEF Tokens
<1>2. ResponseOf(s, stream) \in ReplyType
  BY <1>1, ReplyOfType
<1>3. v \in ReplyType
  BY <1>2, BytesFacts DEF ReplyType
<1> HIDE DEF v
<1>4. m \in Maps(Nat, ReplyType)
  BY <1>1, <1>3, PutType DEF Client2Type
<1>5. q \in Bytes
  <2>1. Update \in Tokens
    BY DEF Update, Tokens, Parts
  <2> QED
    BY <2>1, BytesFacts DEF Client2Type
<1>6. d = [s EXCEPT !.responses = m, !.queue = q]
  BY DEF ClientOnDataChunk, v, Client2Type
<1> HIDE DEF m, d, q
<1>7. d \in Client2Type
  BY <1>4, <1>5, <1>6 DEF Client2Type
<1> QED
  BY <1>7 DEF d

\* The slot of a stream, frame by frame.
LEMMA FirstOfTwo ==
  ASSUME NEW a, NEW b
  PROVE  SubSeq(<<a, b>>, 1, 1) = <<a>> /\ SubSeq(<<a, b>>, 1, 2) = <<a, b>>
<1> DEFINE T == {a, b}
           x == <<a>>
           z == <<a, b>>
           p == SubSeq(z, 1, 1)
           q == SubSeq(z, 1, 2)
<1>1. x \in Seq(T) /\ Len(x) = 1 /\ x[1] = a
  OBVIOUS
<1>2. z \in Seq(T) /\ Len(z) = 2 /\ z[1] = a /\ z[2] = b
  OBVIOUS
<1> HIDE DEF T, x, z
<1>3. p \in Seq(T) /\ Len(p) = 1 /\ p[1] = z[1]
  BY <1>2
<1>4. q \in Seq(T) /\ Len(q) = 2 /\ q[1] = z[1] /\ q[2] = z[2]
  BY <1>2
<1> HIDE DEF p, q
<1>5. \A i \in 1 .. 1 : p[i] = x[i]
  BY <1>1, <1>2, <1>3
<1>6. \A i \in 1 .. 2 : q[i] = z[i]
  BY <1>2, <1>4
<1>7. p = x
  BY <1>1, <1>3, <1>5, SeqEqual
<1>8. q = z
  BY <1>2, <1>4, <1>6, SeqEqual
<1> QED
  BY <1>7, <1>8 DEF p, q, x, z

ReplyIs(r, status, body, complete) ==
  r = [status |-> status, body |-> body, complete |-> complete]

LEMMA ReplyMoves ==
  ASSUME NEW v, NEW i, NEW b, NEW c, ReplyIs(v, i, b, c), NEW m, NEW t, NEW d
  PROVE  /\ ReplyIs([v EXCEPT !.status = m], m, b, c)
         /\ ReplyIs([v EXCEPT !.complete = d], i, b, d)
         /\ ReplyIs([v EXCEPT !.body = Append(@, t)], i, Append(b, t), c)
<1> DEFINE x == Append(b, t)
<1>1. v = [status |-> i, body |-> b, complete |-> c]
  BY DEF ReplyIs
<1>2. v.body = b
  BY <1>1
<1>3. [v EXCEPT !.body = Append(@, t)] = [v EXCEPT !.body = x]
  BY <1>2
<1> HIDE DEF x
<1>4. [v EXCEPT !.status = m] = [status |-> m, body |-> b, complete |-> c]
  BY <1>1
<1>5. [v EXCEPT !.complete = d] = [status |-> i, body |-> b, complete |-> d]
  BY <1>1
<1>6. [v EXCEPT !.body = x] = [status |-> i, body |-> x, complete |-> c]
  BY <1>1
<1> QED
  BY <1>3, <1>4, <1>5, <1>6 DEF ReplyIs, x

LEMMA RepliesAt ==
  ASSUME NEW m
  PROVE  /\ ReplyIs(NoResponse, 0, <<>>, FALSE)
         /\ ReplyIs(Reply2(m, FALSE, 1), m, <<>>, TRUE)
         /\ ReplyIs(Reply2(m, TRUE, 1), m, <<>>, FALSE)
         /\ ReplyIs(Reply2(m, TRUE, 2), m, Append(<<>>, <<m, "DATA">>), FALSE)
         /\ ReplyIs(Reply2(m, TRUE, 3), m,
                    Append(Append(<<>>, <<m, "DATA">>), <<m, "DATA!">>), TRUE)
<1> DEFINE a == <<m, "DATA">>
           b == <<m, "DATA!">>
           d == Data2(m, TRUE)
<1>1. d = <<a, b>>
  BY DEF Data2
<1>2. Len(Frames2(m, TRUE)) = 3 /\ Len(Frames2(m, FALSE)) = 1
  BY FramesOf
<1> HIDE DEF a, b, d
<1>3. /\ SubSeq(d, 1, 1) = Append(<<>>, a) /\ SubSeq(d, 1, 2) = Append(Append(<<>>, a), b)
  BY <1>1, FirstOfTwo, AppendFew
<1> DEFINE x == Append(<<>>, a)
           y == Append(Append(<<>>, a), b)
<1> HIDE DEF x, y
<1>4. SubSeq(d, 1, 2 - 1) = x /\ SubSeq(d, 1, 3 - 1) = y
  BY <1>3 DEF x, y
<1>5. ReplyIs(NoResponse, 0, <<>>, FALSE)
  BY DEF NoResponse, ReplyIs
<1>6. ASSUME NEW body \in BOOLEAN, NEW k,
             NEW w, w = IF k <= 1 THEN <<>> ELSE SubSeq(Data2(m, body), 1, k - 1),
             NEW c, c = (k = Len(Frames2(m, body)))
      PROVE  ReplyIs(Reply2(m, body, k), m, w, c)
  BY <1>6 DEF Reply2, ReplyIs
<1>7. ReplyIs(Reply2(m, FALSE, 1), m, <<>>, TRUE) /\ ReplyIs(Reply2(m, TRUE, 1), m, <<>>, FALSE)
  <2>1. <<>> = IF 1 <= 1 THEN <<>> ELSE SubSeq(Data2(m, FALSE), 1, 1 - 1)
    OBVIOUS
  <2>2. <<>> = IF 1 <= 1 THEN <<>> ELSE SubSeq(Data2(m, TRUE), 1, 1 - 1)
    OBVIOUS
  <2>3. TRUE = (1 = Len(Frames2(m, FALSE))) /\ FALSE = (1 = Len(Frames2(m, TRUE)))
    <3> DEFINE i == Len(Frames2(m, FALSE))
               j == Len(Frames2(m, TRUE))
    <3>1. i = 1 /\ j = 3
      BY <1>2
    <3> HIDE DEF i, j
    <3>2. TRUE = (1 = i) /\ FALSE = (1 = j)
      BY <3>1
    <3> QED
      BY <3>2 DEF i, j
  <2> QED
    BY <1>6, <2>1, <2>2, <2>3
<1>8. ReplyIs(Reply2(m, TRUE, 2), m, x, FALSE) /\ ReplyIs(Reply2(m, TRUE, 3), m, y, TRUE)
  <2>1. x = IF 2 <= 1 THEN <<>> ELSE SubSeq(Data2(m, TRUE), 1, 2 - 1)
    <3> DEFINE u == SubSeq(Data2(m, TRUE), 1, 2 - 1)
    <3>1. u = x
      BY <1>4 DEF d
    <3> HIDE DEF u
    <3>2. x = IF 2 <= 1 THEN <<>> ELSE u
      BY <3>1
    <3> QED
      BY <3>2 DEF u
  <2>2. y = IF 3 <= 1 THEN <<>> ELSE SubSeq(Data2(m, TRUE), 1, 3 - 1)
    <3> DEFINE u == SubSeq(Data2(m, TRUE), 1, 3 - 1)
    <3>1. u = y
      BY <1>4 DEF d
    <3> HIDE DEF u
    <3>2. y = IF 3 <= 1 THEN <<>> ELSE u
      BY <3>1
    <3> QED
      BY <3>2 DEF u
  <2>3. FALSE = (2 = Len(Frames2(m, TRUE))) /\ TRUE = (3 = Len(Frames2(m, TRUE)))
    <3> DEFINE j == Len(Frames2(m, TRUE))
    <3>1. j = 3
      BY <1>2
    <3> HIDE DEF j
    <3>2. FALSE = (2 = j) /\ TRUE = (3 = j)
      BY <3>1
    <3> QED
      BY <3>2 DEF j
  <2> QED
    BY <1>6, <2>1, <2>2, <2>3
<1> QED
  BY <1>5, <1>7, <1>8 DEF x, y, a, b

\* The frame of a response that comes next makes the slot's next state, and
\* touches no other slot.
SlotAt(stream, body, n) == IF n = 0 THEN NoResponse ELSE Reply2(stream, body, n)

LEMMA ClientFrameReplies ==
  ASSUME NEW s \in Client2Type, NEW m \in Nat, NEW body \in BOOLEAN, NEW n \in Nat,
         n + 1 <= Len(Frames2(m, body)), ResponseOf(s, m) = SlotAt(m, body, n),
         NEW t, t = Frames2(m, body)[n + 1]
  PROVE  LET y == ClientFrame(s, t)
         IN  SameClient2(y, s) /\ Slots(y, s, m, SlotAt(m, body, n + 1))
<1> DEFINE y == ClientFrame(s, t)
           v == ResponseOf(s, m)
           head == ClientOnHeader(s, m)
           chunk == ClientOnDataChunk(s, t)
           withHead == [v EXCEPT !.status = m]
           withChunk == [v EXCEPT !.body = Append(@, t)]
<1>1. v \in ReplyType
  BY ReplyOfType
<1>2. \/ ~body /\ n = 0 /\ t = <<m, "HEADERS!">>
      \/ body /\ n = 0 /\ t = <<m, "HEADERS">>
      \/ body /\ n = 1 /\ t = <<m, "DATA">>
      \/ body /\ n = 2 /\ t = <<m, "DATA!">>
  <2> DEFINE f == Frames2(m, body)
  <2>1. n + 1 <= Len(f) /\ t = f[n + 1]
    OBVIOUS
  <2>2. body => /\ Len(f) = 3 /\ f[1] = <<m, "HEADERS">> /\ f[2] = <<m, "DATA">>
                /\ f[3] = <<m, "DATA!">>
    <3>1. body => f = Frames2(m, TRUE)
      OBVIOUS
    <3> HIDE DEF f
    <3> QED
      BY <3>1, FramesOf
  <2>3. ~body => Len(f) = 1 /\ f[1] = <<m, "HEADERS!">>
    <3>1. ~body => f = Frames2(m, FALSE)
      OBVIOUS
    <3> HIDE DEF f
    <3> QED
      BY <3>1, FramesOf
  <2> HIDE DEF f
  <2> DEFINE k == Len(f)
  <2>7. n + 1 <= k /\ (body => k = 3) /\ (~body => k = 1)
    BY <2>1, <2>2, <2>3
  <2> HIDE DEF k
  <2>4. body => n = 0 \/ n = 1 \/ n = 2
    BY <2>7
  <2>5. ~body => n = 0
    BY <2>7
  <2>6. 0 + 1 = 1 /\ 1 + 1 = 2 /\ 2 + 1 = 3
    OBVIOUS
  <2> QED
    BY <2>1, <2>2, <2>3, <2>4, <2>5, <2>6, Zenon
<1>3. t \in Tokens /\ t[1] = m
  <2>1. /\ <<m, "HEADERS!">> \in Tokens /\ <<m, "HEADERS">> \in Tokens
        /\ <<m, "DATA">> \in Tokens /\ <<m, "DATA!">> \in Tokens
    BY DEF Tokens, Parts
  <2> QED
    BY <1>2, <2>1
<1>4. /\ head \in Client2Type /\ SameClient2(head, s) /\ m \in DOMAIN head.responses
      /\ Slots(head, s, m, withHead)
  <2>1. head = ClientFrame(s, <<m, "HEADERS">>) /\ <<m, "HEADERS">> \in Tokens
    BY DEF ClientFrame, Tokens, Parts
  <2>2. head \in Client2Type
    BY <2>1, ClientFrameType
  <2> QED
    BY <1>3, <2>2, ClientCallbacks
<1>5. /\ chunk \in Client2Type /\ SameClient2(chunk, s) /\ m \in DOMAIN chunk.responses
      /\ Slots(chunk, s, m, withChunk)
  <2>1. chunk \in Client2Type
    BY <1>3, ChunkType
  <2> QED
    BY <1>3, <2>1, ClientCallbacks
<1>6. ASSUME NEW x \in Client2Type, SameClient2(x, s), m \in DOMAIN x.responses, NEW w,
             Slots(x, s, m, w)
      PROVE  LET z == ClientOnStreamClose(x, m)
             IN  SameClient2(z, s) /\ Slots(z, s, m, [w EXCEPT !.complete = TRUE])
  <2> DEFINE z == ClientOnStreamClose(x, m)
  <2>1. /\ SameClient2(z, x) /\ z.queue = x.queue
        /\ Slots(z, x, m, [ResponseOf(x, m) EXCEPT !.complete = TRUE])
    BY <1>6, StreamCloses
  <2>2. ResponseOf(x, m) = w
    BY <1>6 DEF Slots
  <2> HIDE DEF z
  <2> QED
    BY <1>6, <2>1, <2>2 DEF SameClient2, Slots, z
<1> DEFINE first == [withHead EXCEPT !.complete = TRUE]
           last == [withChunk EXCEPT !.complete = TRUE]
           closed == ClientOnStreamClose(head, m)
           ended == ClientOnStreamClose(chunk, m)
<1>7. SameClient2(closed, s) /\ Slots(closed, s, m, first)
  BY <1>4, <1>6
<1>8. SameClient2(ended, s) /\ Slots(ended, s, m, last)
  BY <1>5, <1>6
<1>9. /\ t = <<m, "HEADERS">> => y = head
      /\ t = <<m, "HEADERS!">> => y = closed
      /\ t = <<m, "DATA">> => y = chunk
      /\ t = <<m, "DATA!">> => y = ended
  BY DEF ClientFrame
<1>10. ASSUME NEW r, NEW x, NEW i, NEW b, NEW c, ReplyIs(r, i, b, c), ReplyIs(x, i, b, c)
       PROVE  r = x
  BY <1>10 DEF ReplyIs
<1> DEFINE one == Append(<<>>, <<m, "DATA">>)
           two == Append(one, <<m, "DATA!">>)
<1>11. /\ ReplyIs(NoResponse, 0, <<>>, FALSE)
       /\ ReplyIs(Reply2(m, FALSE, 1), m, <<>>, TRUE)
       /\ ReplyIs(Reply2(m, TRUE, 1), m, <<>>, FALSE)
       /\ ReplyIs(Reply2(m, TRUE, 2), m, one, FALSE)
       /\ ReplyIs(Reply2(m, TRUE, 3), m, two, TRUE)
  BY RepliesAt
<1>12. ASSUME NEW i, NEW b, NEW c, ReplyIs(v, i, b, c)
       PROVE  /\ ReplyIs(withHead, m, b, c) /\ ReplyIs(withChunk, i, Append(b, t), c)
              /\ ReplyIs(first, m, b, TRUE) /\ ReplyIs(last, i, Append(b, t), TRUE)
  <2> HIDE DEF v
  <2>1. ReplyIs(withHead, m, b, c) /\ ReplyIs(withChunk, i, Append(b, t), c)
    BY <1>12, ReplyMoves
  <2> HIDE DEF withHead, withChunk
  <2> QED
    BY <2>1, ReplyMoves
<1>13. v = SlotAt(m, body, n)
  OBVIOUS
<1>18. one = Append(<<>>, <<m, "DATA">>) /\ two = Append(one, <<m, "DATA!">>)
  OBVIOUS
<1> HIDE DEF one, two
<1> HIDE DEF y, v, head, chunk, closed, ended, withHead, withChunk, first, last
<1>14. CASE ~body /\ n = 0 /\ t = <<m, "HEADERS!">>
  <2>3. body = FALSE /\ n + 1 = 1 /\ 1 # 0
    BY <1>14
  <2>1. v = NoResponse /\ SlotAt(m, body, n + 1) = Reply2(m, FALSE, 1)
    BY <1>13, <1>14, <2>3 DEF SlotAt
  <2>2. first = Reply2(m, FALSE, 1)
    BY <1>10, <1>11, <1>12, <2>1
  <2> QED
    BY <1>7, <1>9, <1>14, <2>1, <2>2 DEF y
<1>15. CASE body /\ n = 0 /\ t = <<m, "HEADERS">>
  <2>1. v = NoResponse /\ SlotAt(m, body, n + 1) = Reply2(m, TRUE, 1)
    BY <1>13, <1>15 DEF SlotAt
  <2>2. withHead = Reply2(m, TRUE, 1)
    BY <1>10, <1>11, <1>12, <2>1
  <2> QED
    BY <1>4, <1>9, <1>15, <2>1, <2>2 DEF y
<1>16. CASE body /\ n = 1 /\ t = <<m, "DATA">>
  <2>1. v = Reply2(m, TRUE, 1) /\ SlotAt(m, body, n + 1) = Reply2(m, TRUE, 2)
    BY <1>13, <1>16 DEF SlotAt
  <2>2. withChunk = Reply2(m, TRUE, 2)
    BY <1>10, <1>11, <1>12, <1>16, <1>18, <2>1
  <2> QED
    BY <1>5, <1>9, <1>16, <2>1, <2>2 DEF y
<1>17. CASE body /\ n = 2 /\ t = <<m, "DATA!">>
  <2>1. v = Reply2(m, TRUE, 2) /\ SlotAt(m, body, n + 1) = Reply2(m, TRUE, 3)
    BY <1>13, <1>17 DEF SlotAt
  <2>3. ReplyIs(v, m, one, FALSE) /\ Append(one, t) = two
    BY <1>11, <1>17, <1>18, <2>1
  <2>4. ReplyIs(last, m, two, TRUE)
    BY <1>12, <2>3
  <2>2. last = Reply2(m, TRUE, 3)
    BY <1>10, <1>11, <2>4
  <2> QED
    BY <1>8, <1>9, <1>17, <2>1, <2>2 DEF y
<1> QED
  BY <1>2, <1>14, <1>15, <1>16, <1>17

\* Whatever the frame: it is about its own stream.
LEMMA ClientFrameOwn ==
  ASSUME NEW s \in Client2Type, NEW t \in Tokens
  PROVE  LET y == ClientFrame(s, t)
         IN  /\ SameClient2(y, s)
             /\ \A other : other # t[1] => ResponseOf(y, other) = ResponseOf(s, other)
<1> DEFINE y == ClientFrame(s, t)
           m == t[1]
           Own(z) == /\ SameClient2(z, s)
                     /\ \A other : other # m => ResponseOf(z, other) = ResponseOf(s, other)
           head == ClientOnHeader(s, m)
           chunk == ClientOnDataChunk(s, t)
<1>1. m \in Nat
  BY DEF Tokens
<1>2. head \in Client2Type /\ m \in DOMAIN head.responses /\ Own(head)
  <2>1. head = ClientFrame(s, <<m, "HEADERS">>) /\ <<m, "HEADERS">> \in Tokens
    BY <1>1 DEF ClientFrame, Tokens, Parts
  <2>2. head \in Client2Type
    BY <2>1, ClientFrameType
  <2> QED
    BY <2>2, ClientCallbacks DEF Slots
<1>3. chunk \in Client2Type /\ m \in DOMAIN chunk.responses /\ Own(chunk)
  <2>1. chunk \in Client2Type
    BY ChunkType
  <2> QED
    BY <2>1, ClientCallbacks DEF Slots
<1>4. Own(s)
  BY DEF SameClient2
<1>5. ASSUME NEW x \in Client2Type, m \in DOMAIN x.responses, Own(x)
      PROVE  Own(ClientOnStreamClose(x, m))
  <2> DEFINE z == ClientOnStreamClose(x, m)
  <2>1. /\ SameClient2(z, x) /\ z.queue = x.queue
        /\ \A other : other # m => ResponseOf(z, other) = ResponseOf(x, other)
    BY <1>5, StreamCloses DEF Slots
  <2> HIDE DEF z
  <2> QED
    BY <1>5, <2>1 DEF SameClient2, z
<1>6. Own(ClientOnStreamClose(head, m)) /\ Own(ClientOnStreamClose(chunk, m))
  BY <1>2, <1>3, <1>5
<1> HIDE DEF Own, head, chunk, m
<1>7. Own(y)
  BY <1>2, <1>3, <1>4, <1>6 DEF ClientFrame, head, chunk, m
<1> QED
  BY <1>7 DEF Own, m

\* Of the slots, a frame the server has sent makes what they are behind it.
LEMMA HasSlotsStep ==
  ASSUME NEW frames \in Bytes, NEW made \in Seq(Nat \X BOOLEAN), FramesFollow(frames, made),
         \A i \in DOMAIN made : made[i][1] = i, NEW k \in 0 .. Len(frames) - 1,
         NEW c \in Client2Type, HasSlots(c, made, frames, k)
  PROVE  HasSlots(ClientFrame(c, frames[k + 1]), made, frames, k + 1)
<1> DEFINE t == frames[k + 1]
           y == ClientFrame(c, t)
           m == t[1]
           N(stream, i) == OnStream(frames, stream, i)
<1>1. k \in Nat /\ k + 1 \in DOMAIN frames /\ t \in Tokens
  BY DEF Bytes
<1>2. m \in Nat
  BY <1>1 DEF Tokens
<1>3. \A stream : /\ N(stream, k) \in Nat
                  /\ N(stream, k + 1) = N(stream, k) + (IF m = stream THEN 1 ELSE 0)
  <2> TAKE stream
  <2>1. Counts(frames, stream, k)
    BY <1>1, OnStreamStep
  <2> QED
    BY <2>1 DEF Counts
<1>4. \A stream : stream # m => N(stream, k + 1) = N(stream, k)
  BY <1>3
<1>5. N(m, k + 1) = N(m, k) + 1 /\ N(m, k) \in Nat
  BY <1>3
<1>6. \A other : other # m => ResponseOf(y, other) = ResponseOf(c, other)
  BY <1>1, ClientFrameOwn
<1>7. \A stream \in Nat \ {0} :
        ResponseOf(c, stream) = SlotAt(stream, made[stream][2], N(stream, k))
  BY DEF HasSlots, SlotAt
<1>8. m # 0 => ResponseOf(y, m) = SlotAt(m, made[m][2], N(m, k + 1))
  <2> SUFFICES ASSUME m # 0 PROVE ResponseOf(y, m) = SlotAt(m, made[m][2], N(m, k + 1))
    OBVIOUS
  <2>1. PICK j \in DOMAIN made : /\ made[j][1] = m
                                 /\ N(m, k + 1) <= Len(Frames2(m, made[j][2]))
                                 /\ t = Frames2(m, made[j][2])[N(m, k + 1)]
    BY <1>1 DEF FramesFollow
  <2>2. j = m /\ made[m][2] \in BOOLEAN
    BY <2>1
  <2> DEFINE n == N(m, k)
             b == made[m][2]
  <2>3. /\ n \in Nat /\ n + 1 <= Len(Frames2(m, b)) /\ t = Frames2(m, b)[n + 1]
        /\ b \in BOOLEAN /\ ResponseOf(c, m) = SlotAt(m, b, n)
    BY <1>2, <1>5, <1>7, <2>1, <2>2
  <2> HIDE DEF n, b, m, t, N
  <2>4. Slots(ClientFrame(c, t), c, m, SlotAt(m, b, n + 1))
    BY <1>2, <2>3, ClientFrameReplies
  <2> QED
    BY <1>5, <2>4 DEF Slots, b, n
<1> HIDE DEF t, y, m, N
<1>9. \A stream \in Nat \ {0} :
        ResponseOf(y, stream) = SlotAt(stream, made[stream][2], N(stream, k + 1))
  <2> SUFFICES ASSUME NEW stream \in Nat \ {0}
               PROVE  ResponseOf(y, stream) = SlotAt(stream, made[stream][2], N(stream, k + 1))
    OBVIOUS
  <2>1. CASE stream = m
    BY <1>8, <2>1
  <2>2. CASE stream # m
    BY <1>4, <1>6, <1>7, <2>2
  <2> QED
    BY <2>1, <2>2
<1> QED
  BY <1>9 DEF HasSlots, SlotAt, N, y, t

\* What follows the first r bytes begins with a: what follows those and a.
Reaches(w, r, a, b) ==
  /\ r + Len(a) \in 0 .. Len(w) /\ b = Rest(w, r + Len(a))
  /\ \A k \in 0 .. Len(a) - 1 : a[k + 1] = w[(r + k) + 1] /\ r + k \in 0 .. Len(w) - 1

LEMMA ThreeJoinedLeft ==
  ASSUME NEW a \in Bytes, NEW b \in Bytes, NEW c \in Bytes
  PROVE  Joined(Three(a, b, c), a \o b, c)
  <1>1. Associated(a, b, c)
    BY BytesAssociative
  <1> QED
    BY <1>1 DEF Associated, Three, Joined

LEMMA RestReaches ==
  ASSUME NEW w \in Bytes, NEW r \in 0 .. Len(w), NEW a \in Bytes, NEW b \in Bytes,
         Rest(w, r) = a \o b
  PROVE  Reaches(w, r, a, b)
<1> DEFINE u == SubSeq(w, 1, r)
           ab == a \o b
           ua == u \o a
           i == Len(a)
           l == Len(b)
           n == Len(w)
<1>1. /\ u \in Bytes /\ Len(u) = r /\ u \o ab = w /\ ab \in Bytes
  BY BytesCut, BytesJoined
<1>2. i \in Nat /\ l \in Nat /\ n \in Nat /\ r \in Nat
  BY NoBytes
<1> HIDE DEF u
<1>3. u \o ab = ua \o b /\ ua \in Bytes
  <2>3. u \in Bytes
    BY <1>1
  <2>4. Joined(Three(u, a, b), ua, b)
    BY <2>3, ThreeJoinedLeft
  <2>1. Three(u, a, b) = ua \o b
    BY <2>4 DEF Joined
  <2>2. Three(u, a, b) = u \o ab
    BY DEF Three
  <2> QED
    BY <1>1, <2>1, <2>2, BytesJoined
<1>4. Len(ua) = r + i
  <2>1. Len(ua) = Len(u) + i
    BY <1>1, BytesJoined
  <2> QED
    BY <1>1, <2>1
<1> HIDE DEF ua, ab
<1>5. w = ua \o b
  BY <1>1, <1>3
<1>6. b = Rest(w, r + i)
  <2>1. b = Rest(ua \o b, Len(ua))
    BY <1>3, RestOfJoined
  <2> QED
    BY <1>4, <1>5, <2>1
<1>7. n = (r + i) + l
  <2>1. Len(ua \o b) = Len(ua) + l
    BY <1>3, BytesJoined
  <2> QED
    BY <1>4, <1>5, <2>1
<1>8. \A j \in 1 .. r + i : w[j] = ua[j]
  <2>1. \A j \in 1 .. Len(ua) : (ua \o b)[j] = ua[j]
    BY <1>3, JoinedFirst
  <2> QED
    BY <1>4, <1>5, <2>1
<1>9. \A j \in 1 .. i : ua[r + j] = a[j]
  <2>1. Joins(ua, u, a)
    BY <1>1, JoinedAt DEF ua
  <2> QED
    BY <1>1, <2>1 DEF Joins
<1> HIDE DEF i, l, n
<1>10. ASSUME NEW k \in 0 .. i - 1
       PROVE  a[k + 1] = w[(r + k) + 1] /\ r + k \in 0 .. n - 1
  <2>1. k + 1 \in 1 .. i /\ r + (k + 1) \in 1 .. r + i /\ r + (k + 1) = (r + k) + 1
        /\ r + k \in 0 .. n - 1
    BY <1>2, <1>7
  <2>2. a[k + 1] = ua[r + (k + 1)] /\ ua[r + (k + 1)] = w[r + (k + 1)]
    BY <1>8, <1>9, <2>1
  <2> QED
    BY <2>1, <2>2
<1>11. r + i \in 0 .. n
  BY <1>2, <1>7
<1> QED
  BY <1>6, <1>10, <1>11 DEF Reaches, i, n

\* What the callbacks of a read leave of the session, the slots of the first
\* frames being made.
Heard2(y, c, top, made, frames, r) ==
  /\ y.results = c.results /\ y.pc = c.pc /\ y.then = c.then /\ y.copy = c.copy
  /\ y.queue \in Seq(Fine(top)) /\ HasSlots(y, made, frames, r)

LEMMA HeardStep ==
  ASSUME NEW frames \in Bytes, NEW made \in Seq(Nat \X BOOLEAN), FramesFollow(frames, made),
         \A i \in DOMAIN made : made[i][1] = i, NEW k \in 0 .. Len(frames) - 1,
         NEW c, NEW top \in Nat, NEW y \in Client2Type, Heard2(y, c, top, made, frames, k)
  PROVE  Heard2(ClientFrame(y, frames[k + 1]), c, top, made, frames, k + 1)
<1> DEFINE t == frames[k + 1]
           z == ClientFrame(y, t)
           p == y.queue
<1>1. t \in Tokens
  BY DEF Bytes
<1>2. SameClient2(z, y)
  BY <1>1, ClientFrameOwn
<1>3. HasSlots(z, made, frames, k + 1)
  BY HasSlotsStep DEF Heard2
<1>4. Update \in Fine(top) /\ p \in Seq(Fine(top))
  BY FineFrames DEF Heard2
<1> HIDE DEF p
<1>5. Append(p, Update) \in Seq(Fine(top))
  BY <1>4, SeqOfMore
<1> HIDE DEF z, t
<1>6. z.queue \in Seq(Fine(top))
  BY <1>2, <1>4, <1>5 DEF SameClient2, p
<1> QED
  BY <1>2, <1>3, <1>6 DEF Heard2, SameClient2, z, t

LEMMA FramesHeard ==
  ASSUME NEW w \in Bytes, NEW made \in Seq(Nat \X BOOLEAN), FramesFollow(w, made),
         \A i \in DOMAIN made : made[i][1] = i, NEW r \in 0 .. Len(w), NEW top \in Nat,
         NEW c \in Client2Type, Heard2(c, c, top, made, w, r),
         NEW a \in Bytes, NEW b \in Bytes, Rest(w, r) = a \o b
  PROVE  Heard2(FoldLeft(ClientFrame, c, a), c, top, made, w, r + Len(a))
<1> DEFINE R == {x \in Nat \X Client2Type : Heard2(x[2], c, top, made, w, r + x[1])}
           n == Len(a)
<1>1. Reaches(w, r, a, b)
  BY RestReaches
<1>2. r \in Nat /\ n \in Nat /\ Len(w) \in Nat
  BY NoBytes
<1>3. <<0, c>> \in R
  <2>1. r + 0 = r
    BY <1>2
  <2> QED
    BY <2>1
<1>4. \A y \in Client2Type, t \in Tokens : ClientFrame(y, t) \in Client2Type
  BY ClientFrameType
<1>5. ASSUME NEW k \in 0 .. n - 1, NEW y \in Client2Type, <<k, y>> \in R
      PROVE  <<k + 1, ClientFrame(y, a[k + 1])>> \in R
  <2> DEFINE j == r + k
             z == ClientFrame(y, a[k + 1])
  <2>1. j \in 0 .. Len(w) - 1 /\ a[k + 1] = w[j + 1]
    BY <1>1, <1>5 DEF Reaches
  <2>2. j + 1 = r + (k + 1) /\ k \in Nat /\ k + 1 \in Nat
    BY <1>2
  <2>3. Heard2(y, c, top, made, w, j)
    BY <1>5
  <2> HIDE DEF j
  <2>4. Heard2(ClientFrame(y, w[j + 1]), c, top, made, w, j + 1)
    BY <2>1, <2>3, HeardStep
  <2>5. Heard2(z, c, top, made, w, r + (k + 1))
    BY <2>1, <2>2, <2>4
  <2>6. z \in Client2Type
    <3>1. a[k + 1] \in Tokens
      <4>1. k + 1 \in 1 .. Len(a)
        BY <1>2
      <4> QED
        BY <4>1 DEF Bytes
    <3> QED
      BY <1>4, <3>1
  <2> HIDE DEF z
  <2> QED
    BY <2>2, <2>5, <2>6 DEF z
<1> HIDE DEF R
<1>6. <<n, FoldLeft(ClientFrame, c, a)>> \in R
  BY <1>3, <1>4, <1>5, ClientFramesGoes DEF Bytes
<1> QED
  BY <1>6 DEF R

\* ReadFrames: what has arrived fills the slots.
LEMMA ReadFramesTalks ==
  ASSUME h2 \in Server2Type, FramesFollow(h2.written, h2.made), c2 \in Client2Type,
         c2' \in Client2Type, WireOK(wire), conn.data \in Bytes,
         h2.pc = "new" => h2.written = <<>>,
         Talks2(h2, c2, wire, conn.data), ReadFrames
  PROVE  Talks2(h2, c2', wire', conn.data) /\ c2'.results = c2.results
<1>1. PICK n \in Readable("down") :
        /\ c2.pc = "read"
        /\ c2' = [FoldLeft(ClientFrame, c2, Arrived("down", n))
                    EXCEPT !.pc = "send", !.then = "check", !.reads = @ + 1]
        /\ wire' = Taken("down", n)
  BY DEF ReadFrames
<1> DEFINE a == Arrived("down", n)
           b == wire'.bytes["down"]
           y == FoldLeft(ClientFrame, c2, a)
           top == Used(c2)
           up == wire.bytes["up"]
           w == h2.written
           made == h2.made
<1>2. /\ c2.pc = "read"
      /\ c2' = [y EXCEPT !.pc = "send", !.then = "check", !.reads = @ + 1]
  BY <1>1
<1>3. /\ a \in Bytes /\ b \in Bytes /\ wire.bytes["down"] = a \o b /\ a # <<>>
      /\ wire'.bytes["up"] = up
  BY <1>1, TakenBytes DEF Directions
<1>4. Asks2(h2, c2, up, conn.data) /\ Hears2(h2, c2, wire.bytes["down"])
  BY <1>2 DEF Talks2
<1>5. /\ up \in Seq(Fine(top)) /\ c2.copy \in Seq(Fine(top)) /\ c2.queue \in Seq(Fine(top))
      /\ Goes2(c2) /\ \A i \in DOMAIN made : made[i][1] = i
  BY <1>4 DEF Asks2
<1>6. PICK r \in 0 .. Len(w) : a \o b = Rest(w, r) /\ HasSlots(c2, made, w, r)
  BY <1>3, <1>4 DEF Hears2
<1>7. w \in Bytes /\ made \in Seq(Nat \X BOOLEAN) /\ top \in Nat
  BY UsedOf DEF Server2Type
<1>8. Heard2(c2, c2, top, made, w, r)
  BY <1>5, <1>6 DEF Heard2
<1> HIDE DEF a, b, top, up
<1>9. Heard2(y, c2, top, made, w, r + Len(a))
  BY <1>3, <1>5, <1>6, <1>7, <1>8, FramesHeard
<1>10. y \in Client2Type
  <2>1. \A x \in Client2Type, t \in Tokens : ClientFrame(x, t) \in Client2Type
    BY ClientFrameType
  <2> QED
    BY <1>3, <2>1, ClientFramesStays DEF Bytes
<1>11. /\ r + Len(a) \in 0 .. Len(w) /\ b = Rest(w, r + Len(a))
  <2>1. Rest(w, r) = a \o b
    BY <1>6
  <2> HIDE DEF w
  <2>2. Reaches(w, r, a, b)
    BY <1>3, <1>7, <2>1, RestReaches
  <2> QED
    BY <2>2 DEF Reaches
<1> HIDE DEF y
<1>12. /\ c2'.pc = "send" /\ c2'.then = "check" /\ c2'.results = y.results
       /\ c2'.copy = y.copy /\ c2'.queue = y.queue /\ c2'.responses = y.responses
  BY <1>2, <1>10 DEF Client2Type
<1>13. /\ c2'.results = c2.results /\ c2'.copy = c2.copy /\ c2'.queue \in Seq(Fine(top))
       /\ HasSlots(y, made, w, r + Len(a))
  BY <1>9, <1>12 DEF Heard2
<1>14. c2.then # "idle" /\ c2.copy = <<>>
  BY <1>2, <1>5 DEF Goes2
<1>15. Used(c2') = top
  BY <1>12, <1>13, <1>14 DEF Used, top
<1>16. Goes2(c2')
  BY <1>12, <1>13, <1>14 DEF Goes2
<1>17. Asks2(h2, c2', wire'.bytes["up"], conn.data)
  BY <1>3, <1>4, <1>5, <1>13, <1>15, <1>16, AsksClient2 DEF top
<1>18. Hears2(h2, c2', b)
  <2>1. \A stream : ResponseOf(c2', stream) = ResponseOf(y, stream)
    BY <1>12 DEF ResponseOf
  <2>2. HasSlots(c2', made, w, r + Len(a))
    BY <1>13, <2>1 DEF HasSlots
  <2> QED
    BY <1>11, <2>2 DEF Hears2
<1>19. h2.pc # "new"
  <2> SUFFICES ASSUME h2.pc = "new" PROVE FALSE
    OBVIOUS
  <2>1. w = <<>> /\ r \in 0 .. Len(w) /\ Len(<<>>) = 0
    BY NoBytes
  <2>2. Len(w) = 0
    BY <2>1
  <2> HIDE DEF w
  <2>3. r = 0
    BY <2>1, <2>2
  <2>4. Rest(w, r) \in Bytes /\ Len(Rest(w, r)) = 0
    <3>1. Len(Rest(w, r)) = Len(w) - r /\ Rest(w, r) \in Bytes
      BY <1>7, BytesCut
    <3> QED
      BY <2>2, <2>3, <3>1
  <2>5. a \o b = <<>>
    BY <1>6, <2>4, NoBytes
  <2> QED
    BY <1>3, <2>5, NothingJoined
<1> QED
  BY <1>12, <1>13, <1>17, <1>18, <1>19 DEF Talks2, b

LEMMA ReplyParts ==
  ASSUME NEW v, NEW m, NEW b, NEW c, ReplyIs(v, m, b, c)
  PROVE  v.status = m /\ v.body = b
  BY DEF ReplyIs

\* A slot is complete when it holds the whole of a response made.
LEMMA CompleteIs ==
  ASSUME NEW frames \in Bytes, NEW made \in Seq(Nat \X BOOLEAN), FramesFollow(frames, made),
         \A i \in DOMAIN made : made[i][1] = i, NEW k \in 0 .. Len(frames), NEW c,
         HasSlots(c, made, frames, k), NEW m \in Nat \ {0}, ResponseOf(c, m).complete
  PROVE  m \in DOMAIN made /\ IsAnswer2(ResponseOf(c, m), m, made[m][2])
<1> DEFINE n == OnStream(frames, m, k)
           v == ResponseOf(c, m)
           b == made[m][2]
<1>1. v = IF n = 0 THEN NoResponse ELSE Reply2(m, b, n)
  BY DEF HasSlots
<1>2. n # 0
  BY <1>1 DEF NoResponse
<1>3. PICK j \in 1 .. k : frames[j][1] = m
  <2> SUFFICES ASSUME \A j \in 1 .. k : frames[j][1] # m PROVE FALSE
    OBVIOUS
  <2>1. {j \in 1 .. k : frames[j][1] = m} = {}
    OBVIOUS
  <2> QED
    BY <1>2, <2>1, FS_EmptySet DEF OnStream
<1>4. j \in DOMAIN frames
  <2>1. Len(frames) \in Nat /\ DOMAIN frames = 1 .. Len(frames)
    BY DEF Bytes
  <2> QED
    BY <2>1
<1>5. m \in DOMAIN made /\ b \in BOOLEAN
  <2>1. \E i \in DOMAIN made : made[i][1] = m
    BY <1>3, <1>4 DEF FramesFollow
  <2>2. m \in DOMAIN made
    BY <2>1
  <2> QED
    BY <2>2
<1> HIDE DEF n, b
<1>6. v = Reply2(m, b, n) /\ v.complete
  BY <1>1, <1>2
<1> HIDE DEF v
<1>7. n = Len(Frames2(m, b))
  BY <1>6 DEF Reply2
<1>8. ASSUME b = TRUE PROVE IsAnswer2(v, m, b)
  <2>1. ReplyIs(Reply2(m, TRUE, 3), m, Append(Append(<<>>, <<m, "DATA">>), <<m, "DATA!">>), TRUE)
    BY RepliesAt
  <2>2. v = Reply2(m, TRUE, 3)
    BY <1>6, <1>7, <1>8, FramesOf
  <2>3. Data2(m, TRUE) = Append(Append(<<>>, <<m, "DATA">>), <<m, "DATA!">>)
    BY AppendFew DEF Data2
  <2>4. v.status = m /\ v.body = Data2(m, TRUE)
    BY <2>1, <2>2, <2>3, ReplyParts
  <2> QED
    BY <1>8, <2>4 DEF IsAnswer2
<1>9. ASSUME b = FALSE PROVE IsAnswer2(v, m, b)
  <2>1. ReplyIs(Reply2(m, FALSE, 1), m, <<>>, TRUE)
    BY RepliesAt
  <2>2. v = Reply2(m, FALSE, 1)
    BY <1>6, <1>7, <1>9, FramesOf
  <2>3. Data2(m, FALSE) = <<>>
    BY DEF Data2
  <2>4. v.status = m /\ v.body = Data2(m, FALSE)
    BY <2>1, <2>2, <2>3, ReplyParts
  <2> QED
    BY <1>9, <2>4 DEF IsAnswer2
<1> QED
  BY <1>5, <1>8, <1>9 DEF v, b

\* CheckResponse: what it returns is that response.
Answers2(x, c, made) ==
  \/ x.results = c.results
  \/ LET m == Len(c.results) + 1
     IN  /\ m \in DOMAIN made /\ IsAnswer2(ResponseOf(c, m), m, made[m][2])
         /\ x.results = Append(c.results, ResponseOf(c, m))

LEMMA CheckResponseTalks ==
  ASSUME h2 \in Server2Type, FramesFollow(h2.written, h2.made), c2 \in Client2Type,
         c2' \in Client2Type, wire \in WireType, conn.data \in Bytes,
         Talks2(h2, c2, wire, conn.data), CheckResponse
  PROVE  Talks2(h2, c2', wire, conn.data) /\ Answers2(c2', c2, h2.made)
<1> DEFINE m == Len(c2.results) + 1
           v == ResponseOf(c2, m)
           up == wire.bytes["up"]
           down == wire.bytes["down"]
           made == h2.made
           p == c2.results
<1>1. /\ c2.pc = "check"
      /\ v.complete => c2' = [c2 EXCEPT !.pc = "idle", !.then = "idle", !.results = Append(@, v)]
      /\ ~v.complete => c2' = [c2 EXCEPT !.pc = "read"]
  BY DEF CheckResponse
<1>2. /\ Asks2(h2, c2, up, conn.data) /\ Hears2(h2, c2, down)
      /\ h2.pc = "new" => Prefaced(c2, Path2(c2, wire, conn.data))
  BY <1>1 DEF Talks2
<1>3. Goes2(c2) /\ \A i \in DOMAIN made : made[i][1] = i
  BY <1>2 DEF Asks2
<1>4. c2.then # "idle" /\ c2.copy = <<>>
  BY <1>1, <1>3 DEF Goes2
<1>5. Used(c2) = m /\ m \in Nat \ {0} /\ made \in Seq(Nat \X BOOLEAN) /\ h2.written \in Bytes
  BY <1>4, UsedOf DEF Server2Type
<1> HIDE DEF v, m, up, down, made
<1>6. /\ c2'.pc \in {"idle", "read"} /\ c2'.copy = c2.copy /\ c2'.queue = c2.queue
      /\ c2'.responses = c2.responses
      /\ v.complete => c2'.then = "idle" /\ c2'.pc = "idle" /\ c2'.results = Append(p, v)
      /\ ~v.complete => c2'.then = c2.then /\ c2'.pc = "read" /\ c2'.results = p
  BY <1>1 DEF Client2Type
<1>7. Hears2(h2, c2', down)
  BY <1>2, <1>6, HearsSame2
<1>8. h2.pc = "new" => Prefaced(c2', Path2(c2', wire, conn.data))
  <2>1. Path2(c2', wire, conn.data) = Path2(c2, wire, conn.data)
    BY <1>6 DEF Path2
  <2>2. c2.pc # "new" /\ c2'.pc # "new"
    BY <1>1, <1>6
  <2> QED
    BY <1>2, <2>1, <2>2, PrefacedSame
<1>9. Goes2(c2')
  BY <1>4, <1>6 DEF Goes2
<1>10. CASE ~v.complete
  <2>1. c2'.then = c2.then /\ c2'.results = c2.results
    BY <1>6, <1>10
  <2>2. Used(c2') = Used(c2)
    BY <2>1 DEF Used
  <2>3. /\ up \in Seq(Fine(Used(c2))) /\ c2.copy \in Seq(Fine(Used(c2)))
        /\ c2.queue \in Seq(Fine(Used(c2)))
    BY <1>2 DEF Asks2
  <2>4. Asks2(h2, c2', up, conn.data)
    BY <1>2, <1>6, <1>9, <2>1, <2>2, <2>3, AsksClient2
  <2> QED
    BY <1>6, <1>7, <1>8, <2>1, <2>4 DEF Talks2, Answers2, up, down
<1>11. CASE v.complete
  <2>1. PICK k \in 0 .. Len(h2.written) : HasSlots(c2, made, h2.written, k)
    BY <1>2 DEF Hears2, made
  <2>2. m \in DOMAIN made /\ IsAnswer2(v, m, made[m][2])
    BY <1>3, <1>5, <1>11, <2>1, CompleteIs DEF v, made
  <2>3. c2'.results = Append(p, v) /\ c2'.then = "idle"
    BY <1>6, <1>11
  <2>4. Len(c2'.results) = m
    <3>1. p \in Seq(ReplyType) /\ Append(p, v) \in Seq(ReplyType)
      BY <2>3 DEF Client2Type
    <3> HIDE DEF p
    <3>2. Len(Append(p, v)) = Len(p) + 1
      BY <3>1
    <3> QED
      BY <2>3, <3>2 DEF p, m
  <2>5. Used(c2') = m
    BY <2>3, <2>4 DEF Used
  <2>6. Len(made) \in m .. m
    <3>1. Len(made) \in Len(p) .. Used(c2)
      BY <1>2 DEF Asks2, made
    <3>2. m \in 1 .. Len(made)
      BY <1>5, <2>2
    <3> QED
      BY <1>5, <3>1, <3>2
  <2>7. Asks2(h2, c2', up, conn.data)
    <3>1. /\ conn.data \in Seq(Fine(m)) /\ up \in Seq(Fine(m))
          /\ c2.copy \in Seq(Fine(m)) /\ c2.queue \in Seq(Fine(m))
          /\ h2.pc = "write" => Len(h2.copy) = 1
          /\ DOMAIN h2.requests \subseteq 1 .. m
      BY <1>2, <1>5 DEF Asks2
    <3> QED
      BY <1>3, <1>6, <1>9, <2>4, <2>5, <2>6, <3>1 DEF Asks2, made
  <2> QED
    BY <1>6, <1>7, <1>8, <2>2, <2>3, <2>7 DEF Talks2, Answers2, up, down, m, v, made
<1> QED
  BY <1>10, <1>11

\* Every step of the client.
LEMMA Client2Talks ==
  ASSUME h2 \in Server2Type, FramesFollow(h2.written, h2.made), c2 \in Client2Type,
         c2' \in Client2Type, WireOK(wire), conn.data \in Bytes,
         h2.pc = "new" => h2.written = <<>>, "up" \in wire.deaf => h2.pc # "new",
         Talks2(h2, c2, wire, conn.data), Client2
  PROVE  Talks2(h2, c2', wire', conn.data) /\ Answers2(c2', c2, h2.made)
<1>1. wire \in WireType
  BY DEF WireOK
<1>2. CASE WriteBatchClient
  BY <1>2, WriteBatchClientTalks DEF Answers2
<1>3. CASE ReadFrames
  BY <1>3, ReadFramesTalks DEF Answers2
<1>4. CASE CheckResponse
  <2>1. wire' = wire
    BY <1>4 DEF CheckResponse
  <2>2. Talks2(h2, c2', wire, conn.data) /\ Answers2(c2', c2, h2.made)
    BY <1>1, <1>4, CheckResponseTalks
  <2> QED
    BY <2>1, <2>2
<1>5. ASSUME InitializeClient2 \/ Request2 \/ SendBatchClient \/ SentAllClient \/ ClientFails2
      PROVE  Talks2(h2, c2', wire', conn.data) /\ Answers2(c2', c2, h2.made)
  <2>1. wire' = wire
    BY <1>5 DEF InitializeClient2, Request2, SendBatchClient, SentAllClient, ClientFails2
  <2>2. Talks2(h2, c2', wire, conn.data) /\ c2'.results = c2.results
    BY <1>1, <1>5, InitializeClient2Talks, Request2Talks, SendBatchClientTalks,
       SentAllClientTalks, ClientFails2Talks
  <2> QED
    BY <2>1, <2>2 DEF Answers2
<1>6. CASE ReadRefusedClient
  BY <1>6, ReadRefusedClientTalks DEF Answers2
<1> QED
  BY <1>2, <1>3, <1>4, <1>5, <1>6 DEF Client2

-----------------------------------------------------------------------------
(* The session's steps of a connection of HTTP/2.                          *)

\* The callbacks open slots for the streams the client has used.
LEMMA ServerFrameNear ==
  ASSUME NEW top \in Nat, NEW s \in Server2Type, DOMAIN s.requests \subseteq 1 .. top,
         NEW t \in Fine(top)
  PROVE  DOMAIN ServerFrame(s, t).requests \subseteq 1 .. top
<1> DEFINE stream == t[1]
           a == ServerOnHeaders(s, stream)
           d == ServerOnDataChunk(s, t)
           Near(x) == DOMAIN x.requests \subseteq 1 .. top
<1>1. t \in Tokens
  BY FineFrames
<1>2. stream \in Nat /\ SlotOf(s, stream) \in SlotType
  BY <1>1, SlotOfType DEF Tokens
<1>3. Near(s) /\ Near([s EXCEPT !.window = @ + 1])
  BY DEF Server2Type
<1>4. ASSUME stream \in 1 .. top, ~SlotOf(s, stream).complete
      PROVE  /\ Near(a) /\ Near(ServerOnFrameRecv(a, stream))
             /\ Near(d) /\ Near(ServerOnFrameRecv(d, stream)) /\ Near(StreamReset(s, stream))
  <2> DEFINE slot == SlotOf(s, stream)
             va == [slot EXCEPT !.headers = TRUE]
             vd == [slot EXCEPT !.body = Append(@, t)]
  <2>1. va \in SlotType /\ vd \in SlotType
    BY <1>1, <1>2, BytesFacts DEF SlotType
  <2>2. a = [s EXCEPT !.requests = Put(@, stream, va)]
    BY DEF ServerOnHeaders
  <2>3. d = [s EXCEPT !.requests = Put(@, stream, vd)]
    BY DEF ServerOnDataChunk
  <2> HIDE DEF va, vd, a, d, stream
  <2>4. ASSUME NEW r, NEW v \in SlotType, r = [s EXCEPT !.requests = Put(@, stream, v)]
        PROVE  Near(r) /\ Near(ServerOnFrameRecv(r, stream))
    <3>1. r \in Server2Type /\ r.requests = Put(s.requests, stream, v)
      BY <1>2, <1>4, <2>4, SlotReplaced
    <3>2. DOMAIN r.requests = DOMAIN s.requests \cup {stream}
      BY <3>1 DEF Put
    <3>3. Near(r)
      BY <1>4, <3>2
    <3> DEFINE done == [r EXCEPT !.requests[stream].complete = TRUE]
               q == Append(r.pending, [stream |-> stream, body |-> r.requests[stream].body])
    <3>4. DOMAIN done.requests = DOMAIN r.requests
      BY <3>1 DEF Server2Type
    <3>5. [done EXCEPT !.pending = q].requests = done.requests
      BY <3>1 DEF Server2Type
    <3>6. ServerOnFrameRecv(r, stream) = done
            \/ ServerOnFrameRecv(r, stream) = [done EXCEPT !.pending = q]
      BY DEF ServerOnFrameRecv
    <3> HIDE DEF done, q
    <3> QED
      BY <3>3, <3>4, <3>5, <3>6
  <2>5. Near(a) /\ Near(ServerOnFrameRecv(a, stream))
    BY <2>1, <2>2, <2>4
  <2>6. Near(d) /\ Near(ServerOnFrameRecv(d, stream))
    BY <2>1, <2>3, <2>4
  <2>7. Near(StreamReset(s, stream))
    BY DEF StreamReset, Server2Type
  <2> QED
    BY <2>5, <2>6, <2>7
<1>5. t[2] = "RST" => Near(StreamReset(s, stream))
  BY DEF StreamReset, Server2Type
<1>6. t \in Control => t[2] \in {"P", "RI", "SETTINGS", "WINDOW_UPDATE"}
  BY DEF Control, Settings, Update
<1>7. t \notin Control => stream \in 1 .. top
  BY DEF Fine
<1>8. ASSUME Refused(s, t) PROVE Near(ServerFrame(s, t))
  BY <1>3, <1>8 DEF ServerFrame
<1>9. ASSUME ~Refused(s, t) PROVE Near(ServerFrame(s, t))
  <2>1. SlotOf(s, stream).complete => t[2] = "RST"
    BY <1>9 DEF Refused
  <2>2. ServerFrame(s, t) = Received(s, t)
    BY <1>9 DEF ServerFrame
  <2>3. t[2] # "WINDOW_UPDATE" => t # Update
    BY DEF Update
  <2> HIDE DEF a, d, stream, Near
  <2>4. CASE t[2] = "HEADERS"
    BY <1>4, <1>6, <1>7, <2>1, <2>2, <2>3, <2>4 DEF Received, a, stream
  <2>5. CASE t[2] = "HEADERS!"
    BY <1>4, <1>6, <1>7, <2>1, <2>2, <2>3, <2>5 DEF Received, a, stream
  <2>6. CASE t[2] \in {"data", "DATA"}
    BY <1>4, <1>6, <1>7, <2>1, <2>2, <2>3, <2>6 DEF Received, d
  <2>7. CASE t[2] = "DATA!"
    BY <1>4, <1>6, <1>7, <2>1, <2>2, <2>3, <2>7 DEF Received, d, stream
  <2>8. CASE t[2] = "RST"
    BY <1>5, <2>2, <2>3, <2>8 DEF Received, stream
  <2>9. CASE t[2] \notin {"HEADERS", "HEADERS!", "data", "DATA", "DATA!", "RST"}
    BY <1>3, <2>2, <2>9 DEF Received
  <2> QED
    BY <2>4, <2>5, <2>6, <2>7, <2>8, <2>9
<1> QED
  BY <1>8, <1>9

LEMMA ProcessFramesNear ==
  ASSUME NEW top \in Nat, NEW s \in Server2Type, TakenOnce(s),
         DOMAIN s.requests \subseteq 1 .. top, NEW bytes \in Seq(Fine(top))
  PROVE  /\ DOMAIN ProcessFrames(s, bytes).requests \subseteq 1 .. top
         /\ ProcessFrames(s, bytes) \in Server2Type /\ Same2(ProcessFrames(s, bytes), s)
<1> DEFINE S == {x \in Server2Type : /\ TakenOnce(x) /\ Same2(x, s)
                                     /\ DOMAIN x.requests \subseteq 1 .. top}
           T == Fine(top)
<1>1. s \in S
  BY DEF Same2
<1>2. ASSUME NEW a \in S, NEW t \in T PROVE ServerFrame(a, t) \in S
  <2>1. t \in Tokens
    BY FineFrames
  <2>2. /\ ServerFrame(a, t) \in Server2Type /\ Same2(ServerFrame(a, t), a)
        /\ TakenOnce(ServerFrame(a, t))
    BY <2>1, ServerFrameKeeps
  <2>3. DOMAIN ServerFrame(a, t).requests \subseteq 1 .. top
    BY ServerFrameNear
  <2> QED
    BY <2>2, <2>3 DEF Same2
<1> HIDE DEF S, T
<1>3. bytes \in Seq(T)
  BY DEF T
<1>4. ProcessFrames(s, bytes) \in S
  BY <1>1, <1>2, <1>3, ProcessFramesStays
<1> QED
  BY <1>4 DEF S

LEMMA Talked2 ==
  ASSUME NEW h, NEW c, NEW w, NEW data, h.pc # "new"
  PROVE  Talks2(h, c, w, data)
           <=> (c.pc # "failed" => Asks2(h, c, w.bytes["up"], data) /\ Hears2(h, c, w.bytes["down"]))
  BY DEF Talks2

LEMMA AsksOfServer2 ==
  ASSUME NEW h, NEW c, NEW up, NEW data, Asks2(h, c, up, data), NEW y,
         y.pc = "write" => Len(y.copy) = 1, DOMAIN y.requests \subseteq 1 .. Used(c),
         y.made = h.made, NEW up1, up1 \in Seq(Fine(Used(c)))
  PROVE  Asks2(y, c, up1, data)
  BY DEF Asks2

\* A session that goes on, having heard nothing or all that was left.
LEMMA Quiet2Talks ==
  ASSUME NEW h, NEW c, NEW w, NEW data, Talks2(h, c, w, data), NEW y, y.pc # "new",
         y.made = h.made, y.written = h.written, y.requests = h.requests,
         y.pc = "write" => Len(y.copy) = 1 \/ (h.pc = "write" /\ y.copy = h.copy), NEW w1,
         w1.bytes["up"] = w.bytes["up"] \/ w1.bytes["up"] = <<>>,
         w1.bytes["down"] = w.bytes["down"]
  PROVE  Talks2(y, c, w1, data)
<1> SUFFICES ASSUME c.pc # "failed"
             PROVE  Asks2(y, c, w1.bytes["up"], data) /\ Hears2(y, c, w1.bytes["down"])
  BY Talked2
<1>1. Asks2(h, c, w.bytes["up"], data) /\ Hears2(h, c, w.bytes["down"])
  BY DEF Talks2
<1>2. /\ w.bytes["up"] \in Seq(Fine(Used(c))) /\ DOMAIN h.requests \subseteq 1 .. Used(c)
      /\ h.pc = "write" => Len(h.copy) = 1
  BY <1>1 DEF Asks2
<1>3. <<>> \in Seq(Fine(Used(c)))
  OBVIOUS
<1>4. w1.bytes["up"] \in Seq(Fine(Used(c)))
  BY <1>2, <1>3
<1>5. Asks2(y, c, w1.bytes["up"], data)
  BY <1>1, <1>2, <1>4, AsksOfServer2
<1>6. Hears2(y, c, w1.bytes["down"])
  BY <1>1, HearsSame2
<1> QED
  BY <1>5, <1>6

\* Started2: the bytes the protocol was told from go to the callbacks, ...
LEMMA Started2Talks ==
  ASSUME Server2OK(h2), c2 \in Client2Type, conn.data \in Bytes, h2.pc = "initialized",
         Talks2(h2, c2, wire, conn.data), h2' = Started2(conn.data)
  PROVE  Talks2(h2', c2, wire, conn.data) /\ h2'.made = h2.made
<1> DEFINE p == ProcessFrames(h2, conn.data)
           top == Used(c2)
           up == wire.bytes["up"]
           d == conn.data
<1>1. /\ h2 \in Server2Type /\ TakenOnce(h2) /\ top \in Nat
  BY UsedOf DEF Server2OK
<1>2. h2' = [p EXCEPT !.pc = "consume", !.phase = "initial"]
  BY DEF Started2
<1>3. p \in Server2Type /\ Same2(p, h2)
  BY <1>1, ProcessFramesType
<1> HIDE DEF p
<1>4. /\ h2'.pc = "consume" /\ h2'.made = h2.made /\ h2'.written = h2.written
      /\ h2'.requests = p.requests
  BY <1>2, <1>3 DEF Same2, Server2Type
<1> SUFFICES ASSUME c2.pc # "failed"
             PROVE  Asks2(h2', c2, up, d) /\ Hears2(h2', c2, wire.bytes["down"])
  BY <1>4, Talked2
<1>5. Asks2(h2, c2, up, d) /\ Hears2(h2, c2, wire.bytes["down"])
  BY DEF Talks2
<1>6. /\ d \in Seq(Fine(top)) /\ up \in Seq(Fine(top)) /\ DOMAIN h2.requests \subseteq 1 .. top
  BY <1>5 DEF Asks2
<1>7. DOMAIN p.requests \subseteq 1 .. top
  BY <1>1, <1>6, ProcessFramesNear DEF p
<1>8. Asks2(h2', c2, up, d)
  BY <1>4, <1>5, <1>6, <1>7, AsksOfServer2
<1>9. Hears2(h2', c2, wire.bytes["down"])
  BY <1>4, <1>5, HearsSame2
<1> QED
  BY <1>8, <1>9

\* ... and so does what a read returns.
LEMMA Read2Talks ==
  ASSUME Server2OK(h2), c2 \in Client2Type, WireOK(wire),
         Talks2(h2, c2, wire, conn.data), Read2
  PROVE  Talks2(h2', c2, wire', conn.data) /\ h2'.made = h2.made
<1>1. PICK n \in Readable("up") :
        /\ h2.pc = "read" /\ wire' = Taken("up", n)
        /\ h2' = [ProcessFrames(h2, Arrived("up", n)) EXCEPT !.pc = "consume"]
  BY DEF Read2
<1> DEFINE a == Arrived("up", n)
           p == ProcessFrames(h2, a)
           top == Used(c2)
           up == wire'.bytes["up"]
           down == wire'.bytes["down"]
           d == conn.data
<1>2. h2 \in Server2Type /\ TakenOnce(h2) /\ top \in Nat
  BY UsedOf DEF Server2OK
<1>3. /\ a \in Bytes /\ up \in Bytes /\ wire.bytes["up"] = a \o up
      /\ down = wire.bytes["down"]
  BY <1>1, TakenBytes DEF Directions
<1>4. p \in Server2Type /\ Same2(p, h2) /\ h2' = [p EXCEPT !.pc = "consume"]
  BY <1>1, <1>2, <1>3, ProcessFramesType
<1> HIDE DEF p, a, up, down
<1>5. /\ h2'.pc = "consume" /\ h2'.made = h2.made /\ h2'.written = h2.written
      /\ h2'.requests = p.requests
  BY <1>4 DEF Same2, Server2Type
<1> SUFFICES ASSUME c2.pc # "failed"
             PROVE  Asks2(h2', c2, up, d) /\ Hears2(h2', c2, down)
  BY <1>5, Talked2 DEF up, down
<1>6. Asks2(h2, c2, a \o up, d) /\ Hears2(h2, c2, down)
  BY <1>3 DEF Talks2
<1>7. a \o up \in Seq(Fine(top)) /\ DOMAIN h2.requests \subseteq 1 .. top
  BY <1>6 DEF Asks2
<1>8. a \in Seq(Fine(top)) /\ up \in Seq(Fine(top))
  BY <1>3, <1>7, SeqOfParts
<1>9. DOMAIN p.requests \subseteq 1 .. top
  BY <1>2, <1>7, <1>8, ProcessFramesNear DEF p
<1>10. Asks2(h2', c2, up, d)
  BY <1>5, <1>6, <1>8, <1>9, AsksOfServer2
<1>11. Hears2(h2', c2, down)
  BY <1>5, <1>6, HearsSame2
<1> QED
  BY <1>10, <1>11

\* What nghttp2 refuses goes nowhere.
LEMMA RefusedTalks ==
  ASSUME WireOK(wire), Talks2(h2, c2, wire, conn.data), NEW n \in Readable("up"),
         wire' = Taken("up", n), NEW y, y.pc = "refused", y.made = h2.made,
         y.written = h2.written, y.requests = h2.requests
  PROVE  Talks2(y, c2, wire', conn.data)
<1> DEFINE a == Arrived("up", n)
           top == Used(c2)
           up == wire'.bytes["up"]
           down == wire'.bytes["down"]
           d == conn.data
<1>1. /\ a \in Bytes /\ up \in Bytes /\ wire.bytes["up"] = a \o up
      /\ down = wire.bytes["down"]
  BY TakenBytes DEF Directions
<1> HIDE DEF a, up, down
<1> SUFFICES ASSUME c2.pc # "failed"
             PROVE  Asks2(y, c2, up, d) /\ Hears2(y, c2, down)
  BY Talked2 DEF up, down
<1>2. Asks2(h2, c2, a \o up, d) /\ Hears2(h2, c2, down)
  BY <1>1 DEF Talks2
<1>3. a \o up \in Seq(Fine(top)) /\ DOMAIN h2.requests \subseteq 1 .. top
  BY <1>2 DEF Asks2
<1>4. a \in Seq(Fine(top)) /\ up \in Seq(Fine(top))
  BY <1>1, <1>3, SeqOfParts
<1>5. Asks2(y, c2, up, d)
  BY <1>2, <1>3, <1>4, AsksOfServer2
<1>6. Hears2(y, c2, down)
  BY <1>2, HearsSame2
<1> QED
  BY <1>5, <1>6

\* More frames after those of which the client has the slots.
LEMMA HasSlotsMore ==
  ASSUME NEW w \in Bytes, NEW x \in Bytes, NEW r \in 0 .. Len(w), NEW c, NEW made,
         HasSlots(c, made, w, r)
  PROVE  /\ HasSlots(c, made, w \o x, r) /\ r \in 0 .. Len(w \o x)
         /\ Rest(w \o x, r) = Rest(w, r) \o x
<1> DEFINE wx == w \o x
           u == SubSeq(w, 1, r)
           v == Rest(w, r)
           vx == v \o x
<1>1. \A i \in 1 .. Len(w) : wx[i] = w[i]
  BY JoinedFirst
<1>2. Len(wx) = Len(w) + Len(x) /\ Len(w) \in Nat /\ Len(x) \in Nat
  BY BytesJoined, NoBytes
<1>3. u \in Bytes /\ v \in Bytes /\ Len(u) = r /\ u \o v = w
  BY BytesCut
<1> HIDE DEF u, v
<1>4. (u \o v) \o x = u \o vx /\ vx \in Bytes
  <2>1. (u \o v) \o x = u \o (v \o x)
    <3>1. Associated(u, v, x)
      BY <1>3, BytesAssociative
    <3> QED
      BY <1>3, <3>1 DEF Associated
  <2>2. vx \in Bytes
    BY <1>3, BytesJoined
  <2> QED
    BY <2>1, <2>2
<1>5. wx = u \o vx
  BY <1>3, <1>4
<1> HIDE DEF wx, vx
<1>6. Rest(u \o vx, Len(u)) = vx
  BY <1>3, <1>4, RestOfJoined
<1>7. Rest(wx, r) = vx
  BY <1>3, <1>5, <1>6
<1>8. \A stream : OnStream(wx, stream, r) = OnStream(w, stream, r)
  <2>1. \A j \in 1 .. r : wx[j] = w[j]
    BY <1>1, <1>2
  <2> QED
    BY <2>1 DEF OnStream
<1>9. HasSlots(c, made, wx, r)
  BY <1>8 DEF HasSlots
<1>10. r \in 0 .. Len(wx)
  BY <1>2
<1> QED
  BY <1>7, <1>9, <1>10 DEF wx, vx, v

\* WriteBatch: what is sent is on its way.
LEMMA WriteBatchTalks ==
  ASSUME Server2OK(h2), c2 \in Client2Type, WireOK(wire), "down" \notin wire.deaf,
         Talks2(h2, c2, wire, conn.data), WriteBatch
  PROVE  Talks2(h2', c2, wire', conn.data) /\ h2'.made = h2.made
<1> DEFINE k == h2.copy
           w == h2.written
           wk == w \o k
           down == wire.bytes["down"]
           up == wire.bytes["up"]
<1>1. /\ h2.pc = "write" /\ CanSend("down", k) /\ wire' = Sent("down", k)
      /\ h2' = [h2 EXCEPT !.pc = "send", !.copy = <<>>, !.written = wk]
  BY DEF WriteBatch
<1>2. h2 \in Server2Type /\ k \in Bytes /\ w \in Bytes
  BY DEF Server2OK, Server2Type
<1> HIDE DEF wk
<1>3. /\ h2'.pc = "send" /\ h2'.written = wk /\ h2'.made = h2.made
      /\ h2'.requests = h2.requests
  BY <1>1, <1>2 DEF Server2Type
<1> SUFFICES ASSUME c2.pc # "failed"
             PROVE  /\ Asks2(h2', c2, wire'.bytes["up"], conn.data)
                    /\ Hears2(h2', c2, wire'.bytes["down"])
  BY <1>3, Talked2
<1>4. Asks2(h2, c2, up, conn.data) /\ Hears2(h2, c2, down)
  BY DEF Talks2
<1>5. /\ Len(k) = 1 /\ up \in Seq(Fine(Used(c2)))
      /\ DOMAIN h2.requests \subseteq 1 .. Used(c2)
  BY <1>1, <1>4 DEF Asks2
<1>6. wire'.bytes["up"] = up /\ wire'.bytes["down"] = down \o k
  BY <1>1, <1>2, <1>5, SentBytes DEF Directions
<1>7. PICK r \in 0 .. Len(w) : down = Rest(w, r) /\ HasSlots(c2, h2.made, w, r)
  BY <1>4 DEF Hears2
<1> HIDE DEF up, down
<1>8. Asks2(h2', c2, up, conn.data)
  BY <1>3, <1>4, <1>5, AsksOfServer2
<1> HIDE DEF k, w
<1>9. HasSlots(c2, h2.made, wk, r) /\ r \in 0 .. Len(wk) /\ Rest(wk, r) = Rest(w, r) \o k
  BY <1>2, <1>7, HasSlotsMore DEF wk
<1>10. Hears2(h2', c2, down \o k)
  BY <1>3, <1>7, <1>9 DEF Hears2
<1> QED
  BY <1>6, <1>8, <1>10

\* Of a stream that has had a frame there is a response.
LEMMA HadIsMade ==
  ASSUME NEW frames \in Bytes, NEW made, FramesFollow(frames, made),
         \A i \in DOMAIN made : made[i][1] = i, NEW k \in 0 .. Len(frames),
         NEW m \in Nat \ {0}, OnStream(frames, m, k) # 0
  PROVE  m \in DOMAIN made
<1>1. PICK j \in 1 .. k : frames[j][1] = m
  <2> SUFFICES ASSUME \A j \in 1 .. k : frames[j][1] # m PROVE FALSE
    OBVIOUS
  <2>1. {j \in 1 .. k : frames[j][1] = m} = {}
    OBVIOUS
  <2> QED
    BY <2>1, FS_EmptySet DEF OnStream
<1>2. j \in DOMAIN frames
  <2>1. Len(frames) \in Nat /\ DOMAIN frames = 1 .. Len(frames)
    BY DEF Bytes
  <2> QED
    BY <2>1
<1>3. \E i \in DOMAIN made : made[i][1] = m
  BY <1>1, <1>2 DEF FramesFollow
<1> QED
  BY <1>3

\* The next response is to the client's last stream, and the slots of the
\* others stay.
ByStream(made, l, top) ==
  (\A i \in DOMAIN made : made[i][1] = i) /\ Len(made) \in l .. top

LEMMA MadeLast ==
  ASSUME NEW made \in Seq(Nat \X BOOLEAN), NEW l \in Nat, NEW top \in Nat,
         top = l \/ top = l + 1, ByStream(made, l, top),
         NEW m \in 1 .. top, ~\E i \in DOMAIN made : made[i][1] = m, NEW body \in BOOLEAN
  PROVE  ByStream(Append(made, <<m, body>>), l, top)
<1> DEFINE r == <<m, body>>
           more == Append(made, r)
           n == Len(made)
<1>1. /\ n \in Nat /\ DOMAIN made = 1 .. n /\ \A i \in 1 .. n : made[i][1] = i
      /\ n \in l .. top
  BY DEF ByStream
<1>2. r \in Nat \X BOOLEAN /\ r[1] = m
  OBVIOUS
<1> HIDE DEF r
<1>3. /\ DOMAIN more = 1 .. n + 1 /\ Len(more) = n + 1 /\ more[n + 1] = r
      /\ \A i \in 1 .. n : more[i] = made[i]
  BY <1>1, <1>2
<1> HIDE DEF more, n
<1>4. m \notin 1 .. n
  BY <1>1 DEF n
<1>5. n + 1 = top /\ m = n + 1
  BY <1>1, <1>4
<1>6. \A i \in 1 .. n + 1 : i \in 1 .. n \/ i = n + 1
  BY <1>1
<1>7. \A i \in DOMAIN more : more[i][1] = i
  BY <1>1, <1>2, <1>3, <1>5, <1>6
<1>8. n + 1 \in l .. top
  BY <1>1, <1>5
<1> QED
  BY <1>3, <1>7, <1>8 DEF more, r, ByStream

Kept(made, more) == \A i \in DOMAIN made : i \in DOMAIN more /\ more[i] = made[i]

\* Respond2: the response is to the client's last stream.
LEMMA Respond2Talks ==
  ASSUME Server2OK(h2), FramesFollow(h2.written, h2.made), c2 \in Client2Type,
         Talks2(h2, c2, wire, conn.data), NEW body \in BOOLEAN, Respond2(body)
  PROVE  Talks2(h2', c2, wire, conn.data) /\ Kept(h2.made, h2'.made)
<1> DEFINE m == h2.current
           made == h2.made
           more == Append(made, <<m, body>>)
           top == Used(c2)
           l == Len(c2.results)
           w == h2.written
           up == wire.bytes["up"]
           down == wire.bytes["down"]
<1>1. /\ h2 \in Server2Type /\ TakenOnce(h2) /\ made \in Seq(Nat \X BOOLEAN) /\ w \in Bytes
      /\ m \in Nat
  BY DEF Server2OK, Server2Type
<1>2. /\ h2.pc = "handle"
      /\ h2' = [h2 EXCEPT !.pc = "consume", !.made = more, !.queue = SubmitResponse(m, body)]
  BY DEF Respond2
<1> HIDE DEF more
<1>3. /\ h2'.pc = "consume" /\ h2'.made = more /\ h2'.written = w
      /\ h2'.requests = h2.requests
  BY <1>1, <1>2 DEF Server2Type
<1>4. Kept(made, more)
  <2>1. <<m, body>> \in Nat \X BOOLEAN
    BY <1>1
  <2> DEFINE r == <<m, body>>
  <2> HIDE DEF r
  <2>2. r \in Nat \X BOOLEAN
    BY <2>1 DEF r
  <2>3. \A i \in DOMAIN made : i \in DOMAIN Append(made, r) /\ Append(made, r)[i] = made[i]
    BY <1>1, <2>2
  <2> QED
    BY <2>3 DEF r, more, Kept
<1> SUFFICES ASSUME c2.pc # "failed"
             PROVE  Asks2(h2', c2, up, conn.data) /\ Hears2(h2', c2, down)
  BY <1>3, <1>4, Talked2
<1>5. Asks2(h2, c2, up, conn.data) /\ Hears2(h2, c2, down)
  BY DEF Talks2
<1>6. /\ conn.data \in Seq(Fine(top)) /\ up \in Seq(Fine(top))
      /\ c2.copy \in Seq(Fine(top)) /\ c2.queue \in Seq(Fine(top))
      /\ Goes2(c2) /\ DOMAIN h2.requests \subseteq 1 .. top
      /\ \A i \in DOMAIN made : made[i][1] = i
      /\ Len(made) \in l .. top
  BY <1>5 DEF Asks2
<1>7. l \in Nat /\ top \in Nat /\ (top = l \/ top = l + 1)
  BY UsedOf DEF Used
<1>8. m \in 1 .. top /\ ~\E i \in DOMAIN made : made[i][1] = m
  <2>1. Accepted(h2, m) /\ ~IsMade(h2, m)
    BY <1>1, <1>2 DEF TakenOnce
  <2> QED
    BY <1>6, <2>1 DEF Accepted, IsMade
<1> HIDE DEF l, top, m, up, down
<1>9. ByStream(more, l, top)
  <2>1. ByStream(made, l, top)
    BY <1>6 DEF ByStream
  <2> QED
    BY <1>1, <1>7, <1>8, <2>1, MadeLast DEF more
<1>10. Asks2(h2', c2, up, conn.data)
  BY <1>3, <1>6, <1>9 DEF Asks2, ByStream, top, l
<1>11. PICK r \in 0 .. Len(w) : down = Rest(w, r) /\ HasSlots(c2, made, w, r)
  BY <1>5 DEF Hears2
<1>12. HasSlots(c2, more, w, r)
  <2> SUFFICES ASSUME NEW stream \in Nat \ {0}
               PROVE  ResponseOf(c2, stream)
                        = IF OnStream(w, stream, r) = 0 THEN NoResponse
                          ELSE Reply2(stream, more[stream][2], OnStream(w, stream, r))
    BY DEF HasSlots
  <2>1. ResponseOf(c2, stream)
          = IF OnStream(w, stream, r) = 0 THEN NoResponse
            ELSE Reply2(stream, made[stream][2], OnStream(w, stream, r))
    BY <1>11 DEF HasSlots
  <2>2. OnStream(w, stream, r) # 0 => more[stream] = made[stream]
    <3> SUFFICES ASSUME OnStream(w, stream, r) # 0 PROVE more[stream] = made[stream]
      OBVIOUS
    <3>1. stream \in DOMAIN made
      BY <1>1, <1>6, HadIsMade
    <3> QED
      BY <1>4, <3>1 DEF Kept
  <2> QED
    BY <2>1, <2>2
<1>13. Hears2(h2', c2, down)
  BY <1>3, <1>11, <1>12 DEF Hears2
<1> QED
  BY <1>10, <1>13

\* Every other step of the session.
LEMMA Server2Talks ==
  ASSUME Server2OK(h2), c2 \in Client2Type, WireOK(wire), "down" \notin wire.deaf,
         h2.pc # "new", Talks2(h2, c2, wire, conn.data), Server2
  PROVE  Talks2(h2', c2, wire', conn.data) /\ h2'.made = h2.made
<1>1. h2 \in Server2Type
  BY DEF Server2OK
<1>2. CASE WriteBatch
  BY <1>2, WriteBatchTalks
<1>3. CASE Read2
  BY <1>3, Read2Talks
<1>4. CASE TakeRequest2 \/ ConsumedAll2 \/ SentAll
  <2>1. wire' = wire
    BY <1>4 DEF TakeRequest2, ConsumedAll2, SentAll
  <2>2. /\ h2'.pc \in {"handle", "send", "initialized", "read"} /\ h2'.made = h2.made
        /\ h2'.written = h2.written /\ h2'.requests = h2.requests
    BY <1>1, <1>4, ZenonT(40) DEF TakeRequest2, ConsumedAll2, SentAll, Server2Type
  <2>3. h2'.pc # "new" /\ h2'.pc # "write"
    BY <2>2
  <2> QED
    BY <2>1, <2>2, <2>3, Quiet2Talks
<1>5. CASE SendBatch
  <2>1. wire' = wire
    BY <1>5 DEF SendBatch
  <2>2. PICK i \in DOMAIN h2.queue :
          h2' = [h2 EXCEPT !.pc = "write", !.copy = <<Batch(i)>>, !.queue = AfterBatch(i),
                           !.window = @ - (IF h2.queue[i].head = <<>> THEN 1 ELSE 0)]
    BY <1>5 DEF SendBatch
  <2> DEFINE k == <<Batch(i)>>
  <2>3. Len(k) = 1
    OBVIOUS
  <2> HIDE DEF k
  <2>4. /\ h2'.pc = "write" /\ h2'.made = h2.made /\ h2'.written = h2.written
        /\ h2'.requests = h2.requests /\ h2'.copy = k
    BY <1>1, <2>2 DEF Server2Type, k
  <2> QED
    BY <2>1, <2>3, <2>4, Quiet2Talks
<1>6. CASE Leave2
  <2>1. /\ h2'.pc = "left" /\ h2'.made = h2.made /\ h2'.written = h2.written
        /\ h2'.requests = h2.requests /\ wire' = Closed("up", "down")
    BY <1>1, <1>6 DEF Leave2, Server2Type
  <2>2. wire'.bytes["up"] = <<>> /\ wire'.bytes["down"] = wire.bytes["down"]
    BY <2>1, ClosedBytes DEF Directions
  <2> QED
    BY <2>1, <2>2, Quiet2Talks
<1>7. CASE ReadRefused2
  <2>1. /\ h2'.pc = "refused" /\ h2'.made = h2.made /\ h2'.written = h2.written
        /\ h2'.requests = h2.requests
    BY <1>1, <1>7 DEF ReadRefused2, Server2Type
  <2>2. PICK n \in Readable("up") : wire' = Taken("up", n)
    BY <1>7 DEF ReadRefused2
  <2>3. Talks2(h2', c2, wire', conn.data)
    BY <2>1, <2>2, RefusedTalks
  <2> QED
    BY <2>1, <2>3
<1> QED
  BY <1>2, <1>3, <1>4, <1>5, <1>6, <1>7 DEF Server2

\* The first of a path that begins with the preface.
LEMMA PrefaceFirst ==
  ASSUME NEW c, c.pc # "new", NEW a \in Bytes, NEW b \in Bytes, Prefaced(c, a \o b)
  PROVE  IsH2PrefacePrefix(a)
<1> DEFINE n == Len(a)
<1>1. \A i \in 1 .. n : (a \o b)[i] = a[i]
  BY JoinedFirst
<1>2. \A i \in 1 .. 2 : (a \o b)[i] = Preface[i]
  BY DEF Prefaced
<1>3. n \in Nat
  BY NoBytes
<1> HIDE DEF n
<1>4. ASSUME NEW i \in 1 .. 2, i <= n PROVE a[i] = Preface[i]
  <2>1. i \in 1 .. n
    BY <1>3, <1>4
  <2>2. (a \o b)[i] = a[i] /\ (a \o b)[i] = Preface[i]
    BY <1>1, <1>2, <2>1
  <2> QED
    BY <2>2
<1> QED
  BY <1>4, PrefaceFacts DEF n

\* Detect: the bytes read are kept, and they begin the preface.
LEMMA Detect2Talks ==
  ASSUME c2 \in Client2Type, WireOK(wire), conn.data \in Bytes, h2.pc = "new",
         Talks2(h2, c2, wire, conn.data), Detect
  PROVE  Talks2(h2, c2, wire', conn'.data) /\ conn'.pc \in {"detect", "http2"}
<1>1. PICK n \in Readable("up") :
        LET data == conn.data \o Arrived("up", n)
        IN  /\ conn' = [data |-> data,
                        pc |-> IF ~IsH2PrefacePrefix(data) THEN "http1"
                               ELSE IF IsH2PrefaceComplete(data) THEN "http2" ELSE "detect"]
            /\ wire' = Taken("up", n)
  BY DEF Detect
<1> DEFINE d == conn.data
           a == Arrived("up", n)
           up == wire'.bytes["up"]
           down == wire'.bytes["down"]
           k == c2.copy \o c2.queue
           data == d \o a
           path == Path2(c2, wire, conn.data)
           top == Used(c2)
<1>2. conn'.data = data /\ (IsH2PrefacePrefix(data) => conn'.pc \in {"detect", "http2"})
  BY <1>1
<1>3. /\ a \in Bytes /\ up \in Bytes /\ wire.bytes["up"] = a \o up /\ a # <<>>
      /\ down = wire.bytes["down"]
  BY <1>1, TakenBytes DEF Directions
<1>4. k \in Bytes /\ d \in Bytes /\ top \in Nat
  BY UsedOf, BytesJoined DEF Client2Type
<1>5. path = (d \o (a \o up)) \o k /\ Prefaced(c2, path)
  BY <1>3 DEF Path2, Talks2
<1>6. Path2(c2, wire', conn'.data) = (data \o up) \o k
  BY <1>2 DEF Path2
<1> HIDE DEF d, a, up, down, k, data, path, top
<1>7. data \in Bytes /\ data # <<>> /\ up \o k \in Bytes
  <2>1. data \in Bytes /\ up \o k \in Bytes
    BY <1>3, <1>4, BytesJoined DEF data
  <2>2. data # <<>>
    BY <1>3, <1>4, NothingJoined DEF data
  <2> QED
    BY <2>1, <2>2
<1>8. d \o (a \o up) = data \o up
  <2>1. Associated(d, a, up)
    BY <1>3, <1>4, BytesAssociative
  <2> QED
    BY <1>3, <1>4, <2>1 DEF Associated, data
<1>9. (data \o up) \o k = data \o (up \o k)
  <2>1. Associated(data, up, k)
    BY <1>3, <1>4, <1>7, BytesAssociative
  <2> QED
    BY <1>3, <1>4, <1>7, <2>1 DEF Associated
<1>10. path = data \o (up \o k)
  BY <1>5, <1>8, <1>9
<1>11. c2.pc # "new"
  <2> SUFFICES ASSUME c2.pc = "new" PROVE FALSE
    OBVIOUS
  <2>1. path = <<>>
    BY <1>5 DEF Prefaced
  <2> QED
    BY <1>7, <1>10, <2>1, NothingJoined
<1>12. IsH2PrefacePrefix(data)
  <2>1. Prefaced(c2, data \o (up \o k))
    BY <1>5, <1>10
  <2> QED
    BY <1>7, <1>11, <2>1, PrefaceFirst
<1>13. Prefaced(c2, Path2(c2, wire', conn'.data))
  BY <1>5, <1>6, <1>8
<1>14. ASSUME c2.pc # "failed"
       PROVE  Asks2(h2, c2, up, data) /\ Hears2(h2, c2, down)
  <2>1. Asks2(h2, c2, a \o up, d) /\ Hears2(h2, c2, down)
    BY <1>3, <1>14 DEF Talks2, d
  <2>2. d \in Seq(Fine(top)) /\ a \o up \in Seq(Fine(top))
    BY <2>1 DEF Asks2, top
  <2>3. a \in Seq(Fine(top)) /\ up \in Seq(Fine(top))
    BY <1>3, <2>2, SeqOfParts
  <2>4. data \in Seq(Fine(top))
    BY <2>2, <2>3, SeqOfMore DEF data
  <2>5. Asks2(h2, c2, up, data)
    BY <2>1, <2>3, <2>4 DEF Asks2, top
  <2> QED
    BY <2>1, <2>5
<1> QED
  BY <1>2, <1>12, <1>13, <1>14 DEF Talks2, up, down

-----------------------------------------------------------------------------
(* The connection and both clients together.                               *)

\* What an end does to the wire: it sends, reads or closes.
SendsOn(d) == \E b \in Bytes : CanSend(d, b) /\ wire' = Sent(d, b)
ReadsOn(d) == \E n \in Readable(d) : wire' = Taken(d, n)
ClosesOn(in, out) == wire' = Closed(in, out)

LEMMA SendsLeaves ==
  ASSUME WireOK(wire), Silent(wire), NEW d \in Directions, SendsOn(d)
  PROVE  /\ Silent(wire') /\ wire'.deaf = wire.deaf /\ wire'.ended = wire.ended
         /\ d \notin wire.deaf => wire'.reset = wire.reset
<1>1. PICK b \in Bytes : CanSend(d, b) /\ wire' = Sent(d, b)
  BY DEF SendsOn
<1>2. wire \in WireType
  BY DEF WireOK
<1>3. CASE d \in wire.deaf
  <2>1. wire' = [wire EXCEPT !.reset = TRUE]
    BY <1>1, <1>3 DEF Sent
  <2> QED
    BY <1>2, <1>3, <2>1 DEF WireType, Silent
<1>4. CASE d \notin wire.deaf
  <2> DEFINE new == wire.bytes[d] \o SubSeq(b, 1, Fitting(d, b))
  <2>1. wire' = [wire EXCEPT !.bytes[d] = new]
    BY <1>1, <1>4 DEF Sent
  <2> HIDE DEF new
  <2> QED
    BY <1>2, <1>4, <2>1 DEF WireType, Silent
<1> QED
  BY <1>3, <1>4

LEMMA ReadsLeaves ==
  ASSUME WireOK(wire), Silent(wire), NEW d \in Directions, ReadsOn(d)
  PROVE  /\ Silent(wire') /\ wire'.deaf = wire.deaf /\ wire'.ended = wire.ended
         /\ wire'.reset = wire.reset
<1>1. PICK n \in Readable(d) : wire' = Taken(d, n)
  BY DEF ReadsOn
<1>2. wire \in WireType
  BY DEF WireOK
<1>3. /\ \A e \in Directions : e # d => wire'.bytes[e] = wire.bytes[e]
      /\ wire'.deaf = wire.deaf /\ wire'.ended = wire.ended /\ wire'.reset = wire.reset
  BY <1>1, TakenBytes
<1>4. wire.bytes[d] # <<>>
  <2>1. Len(wire.bytes[d]) # 0
    BY <1>1, <1>2 DEF Readable, WireType, Bytes
  <2> QED
    BY <2>1
<1>5. d \notin wire.deaf /\ wire.deaf \subseteq Directions
  BY <1>2, <1>4 DEF Silent, WireType
<1> QED
  BY <1>3, <1>5 DEF Silent

LEMMA ClosesLeaves ==
  ASSUME WireOK(wire), Silent(wire), NEW in \in Directions, NEW out \in Directions,
         ClosesOn(in, out)
  PROVE  /\ Silent(wire') /\ wire'.deaf = wire.deaf \cup {in}
         /\ wire'.ended = wire.ended \cup {out}
<1>1. wire \in WireType /\ wire.deaf \subseteq Directions
  BY DEF WireOK, WireType
<1>2. /\ wire'.bytes[in] = <<>>
      /\ \A e \in Directions : e # in => wire'.bytes[e] = wire.bytes[e]
      /\ wire'.deaf = wire.deaf \cup {in} /\ wire'.ended = wire.ended \cup {out}
  BY ClosedBytes DEF ClosesOn
<1> QED
  BY <1>1, <1>2 DEF Silent

\* What the sessions do to it, and what they keep.
ServerActs(h, k) ==
  /\ h.pc # "new" /\ k.pc # "new" /\ k.made = h.made /\ UNCHANGED requests
  /\ wire' = wire \/ SendsOn("down") \/ ReadsOn("up") \/ ClosesOn("up", "down")

LEMMA Server1Acts ==
  ASSUME h1 \in Server1Type, WireOK(wire), Server1
  PROVE  ServerActs(h1, h1') /\ c1' = c1
<1>1. c1' = c1 /\ requests' = requests
  BY DEF Server1, TakeRequest1, ConsumedAll1, WriteResponse, Responded1, WriteFails1,
         Read1, ReadEnd1, ReadFails1, Leave1
<1>2. wire \in WireType
  BY DEF WireOK
<1>3. CASE TakeRequest1 \/ ConsumedAll1 \/ Responded1 \/ WriteFails1 \/ ReadEnd1 \/ ReadFails1
  <2>1. wire' = wire
    BY <1>3 DEF TakeRequest1, ConsumedAll1, Responded1, WriteFails1, ReadEnd1, ReadFails1
  <2>2. h1.pc # "new" /\ h1'.pc # "new" /\ h1'.made = h1.made
    BY <1>3 DEF TakeRequest1, ConsumedAll1, Responded1, WriteFails1, ReadEnd1, ReadFails1,
                Server1Type
  <2> QED
    BY <1>1, <2>1, <2>2 DEF ServerActs
<1>4. CASE WriteResponse
  <2> DEFINE b == h1.head \o h1.rest
             n == Fitting("down", b)
             a == Advance(n)
  <2>1. b \in Bytes
    BY BytesJoined DEF Server1Type
  <2>2. SendsOn("down")
    BY <1>4, <2>1 DEF WriteResponse, SendsOn
  <2>3. h1' = [a EXCEPT !.written = @ \o SubSeq(b, 1, n)] /\ h1.pc = "write"
    BY <1>4 DEF WriteResponse
  <2>4. a.pc = h1.pc /\ a.made = h1.made /\ DOMAIN a = DOMAIN h1
    BY DEF Advance, Server1Type
  <2> HIDE DEF a, b, n
  <2>5. h1'.pc = "write" /\ h1'.made = h1.made
    BY <2>3, <2>4 DEF Server1Type
  <2> QED
    BY <1>1, <2>2, <2>3, <2>5 DEF ServerActs
<1>5. CASE Read1
  <2>1. PICK n \in Readable("up") :
          LET s == ProcessReceivedData(h1, Arrived("up", n))
          IN  /\ h1' = [s EXCEPT !.pc = IF s.at = "error" THEN "close" ELSE "consume"]
              /\ wire' = Taken("up", n)
    BY <1>5 DEF Read1
  <2>2. ReadsOn("up") /\ h1.pc = "read"
    BY <1>5, <2>1 DEF ReadsOn, Read1
  <2> DEFINE s == ProcessReceivedData(h1, Arrived("up", n))
  <2>3. Arrived("up", n) \in Bytes
    BY TakenBytes DEF Directions
  <2>4. s \in Server1Type /\ Same1(s, h1)
    BY <2>3, ProcessReceivedDataType
  <2>5. h1' = [s EXCEPT !.pc = IF s.at = "error" THEN "close" ELSE "consume"]
    BY <2>1
  <2> HIDE DEF s
  <2>6. h1'.pc # "new" /\ h1'.made = h1.made
    BY <2>4, <2>5 DEF Server1Type, Same1
  <2> QED
    BY <1>1, <2>2, <2>6 DEF ServerActs
<1>6. CASE Leave1
  <2>1. h1.pc # "new" /\ h1'.pc = "left" /\ h1'.made = h1.made
    BY <1>6 DEF Leave1, Server1Type
  <2>2. ClosesOn("up", "down")
    BY <1>6 DEF Leave1, ClosesOn
  <2> QED
    BY <1>1, <2>1, <2>2 DEF ServerActs
<1> QED
  BY <1>1, <1>3, <1>4, <1>5, <1>6 DEF Server1

LEMMA Server2Acts ==
  ASSUME h2 \in Server2Type, TakenOnce(h2), WireOK(wire), Server2
  PROVE  ServerActs(h2, h2') /\ c2' = c2
<1>1. c2' = c2 /\ requests' = requests
  BY DEF Server2, TakeRequest2, ConsumedAll2, SendBatch, WriteBatch, SentAll, Read2,
         ReadRefused2, Leave2
<1>2. CASE TakeRequest2 \/ ConsumedAll2 \/ SentAll
  <2>1. wire' = wire
    BY <1>2 DEF TakeRequest2, ConsumedAll2, SentAll
  <2>2. h2.pc # "new" /\ h2'.pc # "new" /\ h2'.made = h2.made
    BY <1>2 DEF TakeRequest2, ConsumedAll2, SentAll, Server2Type
  <2> QED
    BY <1>1, <2>1, <2>2 DEF ServerActs
<1>3. CASE SendBatch
  <2>1. wire' = wire /\ h2.pc = "send"
    BY <1>3 DEF SendBatch
  <2>2. PICK i \in DOMAIN h2.queue :
          h2' = [h2 EXCEPT !.pc = "write", !.copy = <<Batch(i)>>, !.queue = AfterBatch(i),
                           !.window = @ - (IF h2.queue[i].head = <<>> THEN 1 ELSE 0)]
    BY <1>3 DEF SendBatch
  <2>3. h2'.pc = "write" /\ h2'.made = h2.made
    BY <2>2 DEF Server2Type
  <2> QED
    BY <1>1, <2>1, <2>3 DEF ServerActs
<1>4. CASE WriteBatch
  <2>1. SendsOn("down")
    BY <1>4 DEF WriteBatch, SendsOn, Server2Type
  <2>2. h2.pc = "write" /\ h2'.pc = "send" /\ h2'.made = h2.made
    BY <1>4 DEF WriteBatch, Server2Type
  <2> QED
    BY <1>1, <2>1, <2>2 DEF ServerActs
<1>5. CASE Read2
  <2>1. PICK n \in Readable("up") :
          /\ h2' = [ProcessFrames(h2, Arrived("up", n)) EXCEPT !.pc = "consume"]
          /\ wire' = Taken("up", n)
    BY <1>5 DEF Read2
  <2>2. ReadsOn("up") /\ h2.pc = "read"
    BY <1>5, <2>1 DEF ReadsOn, Read2
  <2> DEFINE s == ProcessFrames(h2, Arrived("up", n))
  <2>3. Arrived("up", n) \in Bytes
    BY TakenBytes DEF Directions
  <2>4. s \in Server2Type /\ Same2(s, h2)
    BY <2>3, ProcessFramesType
  <2>5. h2' = [s EXCEPT !.pc = "consume"]
    BY <2>1
  <2> HIDE DEF s
  <2>6. h2'.pc # "new" /\ h2'.made = h2.made
    BY <2>4, <2>5 DEF Server2Type, Same2
  <2> QED
    BY <1>1, <2>2, <2>6 DEF ServerActs
<1>6. CASE Leave2
  <2>1. h2.pc # "new" /\ h2'.pc = "left" /\ h2'.made = h2.made
    BY <1>6 DEF Leave2, Server2Type
  <2>2. ClosesOn("up", "down")
    BY <1>6 DEF Leave2, ClosesOn
  <2> QED
    BY <1>1, <2>1, <2>2 DEF ServerActs
<1>7. CASE ReadRefused2
  <2>1. h2.pc # "new" /\ h2'.pc = "refused" /\ h2'.made = h2.made
    BY <1>7 DEF ReadRefused2, Server2Type
  <2>2. ReadsOn("up")
    BY <1>7 DEF ReadRefused2, ReadsOn
  <2> QED
    BY <1>1, <2>1, <2>2 DEF ServerActs
<1> QED
  BY <1>1, <1>2, <1>3, <1>4, <1>5, <1>6, <1>7 DEF Server2

\* What a client's session does to it.
ClientActs ==
  /\ UNCHANGED requests
  /\ wire' = wire \/ SendsOn("up") \/ ReadsOn("down")

LEMMA Client1Acts ==
  ASSUME c1 \in Client1Type, Client1
  PROVE  ClientActs /\ h1' = h1
<1>1. h1' = h1 /\ requests' = requests
  BY DEF Client1, Request1, WriteRequest, TakeResponse, ReadResponse, ClientFails1
<1>2. CASE Request1 \/ TakeResponse \/ ClientFails1
  <2>1. wire' = wire
    BY <1>2 DEF Request1, TakeResponse, ClientFails1
  <2> QED
    BY <1>1, <2>1 DEF ClientActs
<1>3. CASE WriteRequest
  <2>1. c1.out \in Bytes /\ CanSend("up", c1.out) /\ wire' = Sent("up", c1.out)
    BY <1>3 DEF WriteRequest, Client1Type
  <2> QED
    BY <1>1, <2>1 DEF ClientActs, SendsOn
<1>4. CASE ReadResponse
  <2>1. ReadsOn("down")
    BY <1>4 DEF ReadResponse, ReadsOn
  <2> QED
    BY <1>1, <2>1 DEF ClientActs
<1> QED
  BY <1>2, <1>3, <1>4 DEF Client1

LEMMA Client2Acts ==
  ASSUME c2 \in Client2Type, Client2
  PROVE  ClientActs /\ h2' = h2
<1>1. h2' = h2 /\ requests' = requests
  BY DEF Client2, InitializeClient2, Request2, SendBatchClient, WriteBatchClient,
         SentAllClient, ReadFrames, ReadRefusedClient, CheckResponse, ClientFails2
<1>2. CASE InitializeClient2 \/ Request2 \/ SendBatchClient \/ SentAllClient
             \/ CheckResponse \/ ClientFails2
  <2>1. wire' = wire
    BY <1>2 DEF InitializeClient2, Request2, SendBatchClient, SentAllClient, CheckResponse,
                ClientFails2
  <2> QED
    BY <1>1, <2>1 DEF ClientActs
<1>3. CASE WriteBatchClient
  <2>1. c2.copy \in Bytes /\ CanSend("up", c2.copy) /\ wire' = Sent("up", c2.copy)
    BY <1>3 DEF WriteBatchClient, Client2Type
  <2> QED
    BY <1>1, <2>1 DEF ClientActs, SendsOn
<1>4. CASE ReadFrames
  <2>1. ReadsOn("down")
    BY <1>4 DEF ReadFrames, ReadsOn
  <2> QED
    BY <1>1, <2>1 DEF ClientActs
<1>5. CASE ReadRefusedClient
  <2>1. ReadsOn("down")
    BY <1>5 DEF ReadRefusedClient, ReadsOn
  <2> QED
    BY <1>1, <2>1 DEF ClientActs
<1> QED
  BY <1>2, <1>3, <1>4, <1>5 DEF Client2

\* A session that starts has made nothing yet, and the responses made stay.
LEMMA StartActs ==
  ASSUME h1 \in Server1Type, h2 \in Server2Type, TakenOnce(h2), conn.data \in Bytes
  PROVE  /\ h1' = Started1(conn.data) => h1'.pc # "new" /\ h1'.made = h1.made
         /\ h2' = Initialized2 => h2'.pc # "new" /\ h2'.made = h2.made
         /\ h2' = Started2(conn.data) => h2'.pc # "new" /\ h2'.made = h2.made
<1> DEFINE s == ProcessReceivedData(h1, conn.data)
           p == ProcessFrames(h2, conn.data)
<1>1. s \in Server1Type /\ Same1(s, h1)
  BY ProcessReceivedDataType
<1>2. p \in Server2Type /\ Same2(p, h2)
  BY ProcessFramesType
<1>3. Started1(conn.data) = [s EXCEPT !.pc = IF s.at = "error" THEN "return" ELSE "consume"]
  BY DEF Started1
<1>4. Started2(conn.data) = [p EXCEPT !.pc = "consume", !.phase = "initial"]
  BY DEF Started2
<1> HIDE DEF s, p
<1>5. h1' = Started1(conn.data) => h1'.pc # "new" /\ h1'.made = h1.made
  BY <1>1, <1>3 DEF Server1Type, Same1
<1>6. h2' = Started2(conn.data) => h2'.pc # "new" /\ h2'.made = h2.made
  BY <1>2, <1>4 DEF Server2Type, Same2
<1>7. h2' = Initialized2 => h2'.pc # "new" /\ h2'.made = h2.made
  BY DEF Initialized2, Server2Type
<1> QED
  BY <1>5, <1>6, <1>7

LEMMA AppendKeeps ==
  ASSUME NEW T, NEW made \in Seq(T), NEW r \in T
  PROVE  Kept(made, Append(made, r))
  BY DEF Kept

LEMMA KeptSame ==
  ASSUME NEW made
  PROVE  Kept(made, made)
  BY DEF Kept

LEMMA RespondActs ==
  ASSUME h1 \in Server1Type, h2 \in Server2Type, NEW body \in BOOLEAN
  PROVE  /\ Respond1(body) => /\ h1.pc = "handle" /\ h1'.pc = "write" /\ Kept(h1.made, h1'.made)
                              /\ UNCHANGED <<wire, requests, c1>>
         /\ Respond2(body) => /\ h2.pc = "handle" /\ h2'.pc = "consume"
                              /\ Kept(h2.made, h2'.made)
                              /\ UNCHANGED <<wire, requests, c2>>
<1> DEFINE r1 == <<h1.current, body>>
           r2 == <<h2.current, body>>
<1>1. /\ h1.made \in Seq(Nat \X BOOLEAN) /\ r1 \in Nat \X BOOLEAN
      /\ h2.made \in Seq(Nat \X BOOLEAN) /\ r2 \in Nat \X BOOLEAN
  BY DEF Server1Type, Server2Type
<1>2. Respond1(body) => /\ h1.pc = "handle" /\ h1'.pc = "write" /\ h1'.made = Append(h1.made, r1)
                        /\ UNCHANGED <<wire, requests, c1>>
  BY DEF Respond1, Server1Type
<1>3. Respond2(body) => /\ h2.pc = "handle" /\ h2'.pc = "consume" /\ h2'.made = Append(h2.made, r2)
                        /\ UNCHANGED <<wire, requests, c2>>
  BY DEF Respond2, Server2Type
<1> HIDE DEF r1, r2
<1>4. Kept(h1.made, Append(h1.made, r1)) /\ Kept(h2.made, Append(h2.made, r2))
  BY <1>1, AppendKeeps
<1> QED
  BY <1>2, <1>3, <1>4

\* What has been answered stays so.
LEMMA AnsweredKept ==
  ASSUME NEW c, NEW made, NEW more, Kept(made, more)
  PROVE  /\ Answered1(c, made) => Answered1(c, more)
         /\ Answered2(c, made) => Answered2(c, more)
  BY DEF Kept, Answered1, Answered2

LEMMA AnsweredNext ==
  ASSUME NEW c \in Client2Type, NEW x \in Client2Type, NEW made, Answered2(c, made),
         Answers2(x, c, made)
  PROVE  Answered2(x, made)
<1>1. CASE x.results = c.results
  BY <1>1 DEF Answered2
<1>2. CASE x.results # c.results
  <2> DEFINE m == Len(c.results) + 1
             r == ResponseOf(c, m)
             old == c.results
  <2>1. m \in DOMAIN made /\ IsAnswer2(r, m, made[m][2]) /\ x.results = Append(old, r)
    BY <1>2 DEF Answers2
  <2>2. old \in Seq(ReplyType) /\ Len(old) \in Nat /\ DOMAIN old = 1 .. Len(old)
    BY DEF Client2Type
  <2>3. \A i \in DOMAIN old : i \in DOMAIN made /\ IsAnswer2(old[i], i, made[i][2])
    BY DEF Answered2
  <2>4. r \in ReplyType
    <3>1. x.results \in Seq(ReplyType)
      BY DEF Client2Type
    <3> HIDE DEF r
    <3>2. Append(old, r) \in Seq(ReplyType) /\ Len(Append(old, r)) = Len(old) + 1
      BY <2>1, <2>2, <3>1
    <3>3. Append(old, r)[Len(old) + 1] = r
      BY <2>2
    <3> QED
      BY <2>2, <3>2, <3>3
  <2> HIDE DEF r
  <2>5. DOMAIN x.results = 1 .. m
    BY <2>1, <2>2, <2>4
  <2>6. \A i \in 1 .. Len(old) : x.results[i] = old[i]
    BY <2>1, <2>2, <2>4
  <2>7. x.results[m] = r
    BY <2>1, <2>2, <2>4
  <2>8. ASSUME NEW i \in DOMAIN x.results
        PROVE  i \in DOMAIN made /\ IsAnswer2(x.results[i], i, made[i][2])
    <3>1. CASE i = m
      BY <2>1, <2>7, <3>1
    <3>2. CASE i # m
      <4>1. i \in 1 .. Len(old)
        BY <2>2, <2>5, <3>2
      <4> QED
        BY <2>2, <2>3, <2>6, <4>1
    <3> QED
      BY <3>1, <3>2
  <2> QED
    BY <2>8 DEF Answered2
<1> QED
  BY <1>1, <1>2

\* Who is there.
Around == Unconnected /\ Connected /\ Fresh

\* The steps before the connection, and the accept.
LEMMA SetupAround ==
  ASSUME Around, conn \in ConnType, client \in ClientType,
         RegisterRoutes \/ Listen \/ Accept \/ Begin \/ Connect \/ ConnectFails
  PROVE  Around'
<1>1. wire' = wire /\ h1' = h1 /\ h2' = h2 /\ c1' = c1 /\ c2' = c2
  BY DEF RegisterRoutes, Listen, Accept, Begin, Connect, ConnectFails, sessions
<1>2. (NoSession' <=> NoSession) /\ Fresh' /\ Silent(wire') /\ Silent(wire)
  BY <1>1 DEF Around, Fresh, NoSession, Connected
<1>3. /\ client.pc = "open" => client.kind # "auto"
      /\ conn.pc \in {"accept", "detect"} => NoSession
      /\ client.pc = "open" /\ client.kind # "raw" =>
           /\ "down" \notin wire.deaf /\ "up" \notin wire.ended
           /\ NoSession => wire.deaf = {} /\ ~wire.reset
      /\ client.pc \in {"none", "start"} =>
           /\ conn.pc \in {"setup", "listening"}
           /\ wire = NewWire /\ conn.data = <<>> /\ NoSession
           /\ c1 = NewClient1 /\ c2 = NewClient2
  BY DEF Around, Connected, Unconnected
<1>4. CASE RegisterRoutes \/ Listen \/ Accept
  <2>1. client' = client /\ conn'.data = conn.data
    BY <1>4 DEF RegisterRoutes, Listen, Accept, ConnType
  <2>2. \/ conn'.pc = conn.pc
        \/ conn.pc = "setup" /\ conn'.pc = "listening"
        \/ conn.pc = "accept" /\ conn'.pc = "detect"
    BY <1>4 DEF RegisterRoutes, Listen, Accept, ConnType
  <2>3. Unconnected'
    BY <1>1, <1>2, <1>3, <2>1, <2>2 DEF Unconnected
  <2>4. Connected'
    BY <1>1, <1>2, <1>3, <2>1, <2>2 DEF Connected
  <2> QED
    BY <1>2, <2>3, <2>4 DEF Around
<1>5. CASE Begin \/ ConnectFails
  <2>1. conn' = conn /\ client.pc \in {"none", "start"} /\ client'.pc # "open"
    BY <1>5 DEF Begin, ConnectFails, ClientType
  <2>2. Unconnected'
    BY <1>1, <1>2, <1>3, <2>1 DEF Unconnected
  <2>3. Connected'
    BY <1>1, <1>2, <1>3, <2>1 DEF Connected
  <2> QED
    BY <1>2, <2>2, <2>3 DEF Around
<1>6. CASE Connect
  <2>1. /\ client.pc = "start" /\ client'.pc = "open" /\ client'.kind # "auto"
        /\ conn'.pc = "accept"
    BY <1>6 DEF Connect, ClientType, ConnType
  <2>2. wire.deaf = {} /\ wire.ended = {} /\ ~wire.reset /\ NoSession
    BY <1>3, <2>1 DEF NewWire
  <2>3. Unconnected'
    BY <2>1 DEF Unconnected
  <2>4. Connected'
    BY <1>1, <1>2, <2>1, <2>2 DEF Connected
  <2> QED
    BY <1>2, <2>3, <2>4 DEF Around
<1> QED
  BY <1>4, <1>5, <1>6

\* A client's steps.
LEMMA ClientAround ==
  ASSUME Around, WireOK(wire), client \in ClientType, h1' = h1, h2' = h2, conn' = conn,
         client.pc = "open",
         \/ client' = client /\ ClientActs
         \/ client'.pc = "gone"
              /\ (ClosesOn("down", "up") \/ wire' = wire)
         \/ /\ client'.pc = "open" /\ client'.kind = "raw"
            /\ \/ SendsOn("up") \/ ReadsOn("down")
               \/ wire' = [wire EXCEPT !.ended = @ \cup {"up"}]
  PROVE  Around'
<1>1. (NoSession' <=> NoSession) /\ Fresh' /\ Silent(wire)
  BY DEF Around, Fresh, NoSession, Connected
<1>2. /\ client.kind # "auto"
      /\ conn.pc \in {"accept", "detect"} => NoSession
      /\ client.kind # "raw" =>
           /\ "down" \notin wire.deaf /\ "up" \notin wire.ended
           /\ NoSession => wire.deaf = {} /\ ~wire.reset
  BY DEF Around, Connected
<1>3. client'.pc \in {"open", "gone"}
  OBVIOUS
<1>4. Unconnected'
  BY <1>3 DEF Unconnected
<1>5. CASE client' = client /\ ClientActs
  <2>1. /\ Silent(wire') /\ wire'.deaf = wire.deaf /\ wire'.ended = wire.ended
        /\ "up" \notin wire.deaf => wire'.reset = wire.reset
    <3>1. CASE SendsOn("up")
      BY <1>1, <3>1, SendsLeaves DEF Directions
    <3>2. CASE ReadsOn("down")
      BY <1>1, <3>2, ReadsLeaves DEF Directions
    <3> QED
      BY <1>1, <1>5, <3>1, <3>2 DEF ClientActs
  <2>2. Connected'
    BY <1>1, <1>2, <1>5, <2>1 DEF Connected
  <2> QED
    BY <1>1, <1>4, <2>2 DEF Around
<1>6. CASE client'.pc # "open" /\ (ClosesOn("down", "up") \/ wire' = wire)
  <2>1. Silent(wire')
    BY <1>1, <1>6, ClosesLeaves DEF Directions
  <2>2. Connected'
    BY <1>1, <1>2, <1>6, <2>1 DEF Connected
  <2> QED
    BY <1>1, <1>4, <2>2 DEF Around
<1>7. CASE /\ client'.pc = "open" /\ client'.kind = "raw"
           /\ \/ SendsOn("up") \/ ReadsOn("down")
              \/ wire' = [wire EXCEPT !.ended = @ \cup {"up"}]
  <2>1. Silent(wire')
    <3>1. CASE SendsOn("up")
      BY <1>1, <3>1, SendsLeaves DEF Directions
    <3>2. CASE ReadsOn("down")
      BY <1>1, <3>2, ReadsLeaves DEF Directions
    <3>3. CASE wire' = [wire EXCEPT !.ended = @ \cup {"up"}]
      BY <1>1, <3>3 DEF WireOK, WireType, Silent
    <3> QED
      BY <1>7, <3>1, <3>2, <3>3
  <2>2. Connected'
    BY <1>1, <1>2, <1>7, <2>1 DEF Connected
  <2> QED
    BY <1>1, <1>4, <2>2 DEF Around
<1> QED
  BY <1>5, <1>6, <1>7

\* While the protocol is told, a client of faio is there.
LEMMA DetectAround ==
  ASSUME Around, WireOK(wire), conn \in ConnType, Detect \/ DetectEnds
  PROVE  /\ Around' /\ NoSession
         /\ client.pc = "open" /\ client.kind # "raw" => Detect
<1>1. /\ h1' = h1 /\ h2' = h2 /\ client' = client /\ conn.pc = "detect"
  BY DEF Detect, DetectEnds, sessions
<1>2. (NoSession' <=> NoSession) /\ Fresh' /\ Silent(wire)
  BY <1>1 DEF Around, Fresh, NoSession, Connected
<1>3. /\ NoSession /\ client.pc \notin {"none", "start"}
      /\ client.pc = "open" => client.kind # "auto"
      /\ client.pc = "open" /\ client.kind # "raw" =>
           /\ "down" \notin wire.deaf /\ "up" \notin wire.ended
           /\ wire.deaf = {} /\ ~wire.reset
  BY <1>1 DEF Around, Connected, Unconnected
<1>4. Unconnected'
  BY <1>1, <1>3 DEF Unconnected
<1>5. CASE Detect
  <2>1. ReadsOn("up")
    BY <1>5 DEF Detect, ReadsOn
  <2>2. /\ Silent(wire') /\ wire'.deaf = wire.deaf /\ wire'.ended = wire.ended
        /\ wire'.reset = wire.reset
    BY <1>2, <2>1, ReadsLeaves DEF Directions
  <2>3. Connected'
    BY <1>1, <1>2, <1>3, <2>2 DEF Connected
  <2> QED
    BY <1>2, <1>3, <1>4, <1>5, <2>3 DEF Around
<1>6. CASE DetectEnds
  <2>1. AtEnd("up") \/ ReadFails("up")
    BY <1>6 DEF DetectEnds
  <2>2. ~(client.pc = "open" /\ client.kind # "raw")
    BY <1>3, <2>1 DEF AtEnd, ReadFails
  <2>3. wire' = wire \/ ClosesOn("up", "down")
    BY <1>6 DEF DetectEnds, ClosesOn
  <2>4. Silent(wire')
    BY <1>2, <2>3, ClosesLeaves DEF Directions
  <2>5. Connected'
    BY <1>1, <1>2, <1>3, <2>2, <2>4 DEF Connected
  <2> QED
    BY <1>2, <1>3, <1>4, <2>2, <2>5 DEF Around
<1> QED
  BY <1>5, <1>6

\* A session's steps.
LEMMA SessionAround ==
  ASSUME Around, WireOK(wire), client' = client, conn' = conn \/ conn'.pc = "terminated",
         conn.pc \in {"http1", "http2"},
         h1' = h1 \/ h1'.pc # "new", h2' = h2 \/ h2'.pc # "new", ~NoSession',
         wire' = wire \/ SendsOn("down") \/ ReadsOn("up") \/ ClosesOn("up", "down")
  PROVE  Around'
<1>1. Silent(wire) /\ Fresh' /\ client.pc \notin {"none", "start"}
  BY DEF Around, Fresh, Connected, Unconnected
<1>2. /\ client.pc = "open" => client.kind # "auto"
      /\ client.pc = "open" /\ client.kind # "raw" =>
           "down" \notin wire.deaf /\ "up" \notin wire.ended
  BY DEF Around, Connected
<1>3. /\ Silent(wire') /\ wire'.deaf \subseteq wire.deaf \cup {"up"}
      /\ wire'.ended \subseteq wire.ended \cup {"down"}
  <2>1. CASE SendsOn("down")
    BY <1>1, <2>1, SendsLeaves DEF Directions
  <2>2. CASE ReadsOn("up")
    BY <1>1, <2>2, ReadsLeaves DEF Directions
  <2>3. CASE ClosesOn("up", "down")
    BY <1>1, <2>3, ClosesLeaves DEF Directions
  <2> QED
    BY <1>1, <2>1, <2>2, <2>3
<1>4. Unconnected'
  BY <1>1 DEF Unconnected
<1>5. conn'.pc \notin {"accept", "detect"}
  OBVIOUS
<1>6. Connected'
  BY <1>2, <1>3, <1>5 DEF Connected
<1> QED
  BY <1>1, <1>4, <1>6 DEF Around

\* What both sides of both protocols have got to.
Exchanging ==
  /\ Talking1 /\ Answered1(c1, h1.made)
  /\ Talking2 /\ Answered2(c2, h2.made)

\* A client that has just connected.
LEMMA NewTalks ==
  /\ Talks1(requests, NewServer1, NewClient1, NewWire, <<>>)
  /\ Talks2(NewServer2, NewClient2, NewWire, <<>>)
<1> DEFINE s == NewServer1
           c == NewClient1
           t == NewServer2
           d == NewClient2
           path == Path1(s, c, NewWire, <<>>)
<1>1. <<>> \in Bytes /\ Len(<<>>) = 0 /\ <<>> \o <<>> = <<>> /\ DOMAIN <<>> = {}
  BY NoBytes
<1>2. NewWire.bytes["up"] = <<>> /\ NewWire.bytes["down"] = <<>>
  BY DEF NewWire, Directions
<1>3. /\ s.pc = "new" /\ s.made = <<>> /\ s.pending = <<>>
      /\ c.at = "start" /\ c.pending = <<>> /\ c.out = <<>> /\ c.results = <<>> /\ c.pc = "idle"
  BY DEF NewServer1, NewClient1
<1>4. /\ t.pc = "new" /\ t.made = <<>> /\ t.written = <<>> /\ t.requests = <<>>
      /\ d.pc = "new" /\ d.then = "idle" /\ d.results = <<>> /\ d.copy = <<>>
      /\ d.queue = <<>> /\ d.responses = <<>>
  BY DEF NewServer2, NewClient2
<1> HIDE DEF s, c, t, d
<1>5. path = <<>>
  BY <1>1, <1>2, <1>3 DEF Path1
<1> HIDE DEF path
<1>6. Asked(c) = 1 /\ TakenUp(s) = 0
  BY <1>1, <1>3 DEF Asked, TakenUp, InHands
<1>7. EndOf(path, SerializeRequest(requests, 1))
  <2>1. SerializeRequest(requests, 1) \in Bytes
    BY RequestBytes
  <2>2. SerializeRequest(requests, 1) = SerializeRequest(requests, 1) \o <<>>
    BY <2>1, NoBytes
  <2> QED
    BY <1>5, <2>1, <2>2 DEF EndOf
<1>8. Asks1(requests, s, c, path)
  BY <1>1, <1>3, <1>5, <1>6, <1>7 DEF Asks1
<1>9. Unsent(s) = <<>>
  BY <1>3 DEF Unsent
<1>10. Hears1(s, c, NewWire.bytes["down"] \o Unsent(s))
  BY <1>1, <1>2, <1>3, <1>6, <1>9 DEF Hears1, Before1
<1>11. Talks1(requests, s, c, NewWire, <<>>)
  BY <1>3, <1>5, <1>8, <1>10 DEF Talks1, path
<1>12. Path2(d, NewWire, <<>>) = <<>>
  BY <1>1, <1>2, <1>4 DEF Path2
<1>13. Prefaced(d, Path2(d, NewWire, <<>>))
  BY <1>4, <1>12 DEF Prefaced
<1>14. Used(d) = 0
  BY <1>1, <1>4 DEF Used
<1>15. Asks2(t, d, NewWire.bytes["up"], <<>>)
  <2>1. <<>> \in Seq(Fine(0))
    OBVIOUS
  <2>2. Goes2(d)
    BY <1>4 DEF Goes2
  <2> QED
    BY <1>1, <1>2, <1>4, <1>14, <2>1, <2>2 DEF Asks2
<1>16. HasSlots(d, t.made, t.written, 0)
  <2>1. ASSUME NEW stream \in Nat \ {0}
        PROVE  OnStream(<<>>, stream, 0) = 0
    <3>1. {j \in 1 .. 0 : <<>>[j][1] = stream} = {}
      OBVIOUS
    <3> QED
      BY <3>1, FS_EmptySet DEF OnStream
  <2>2. \A stream \in Nat \ {0} : ResponseOf(d, stream) = NoResponse
    BY <1>1, <1>4 DEF ResponseOf
  <2> QED
    BY <1>4, <2>1, <2>2 DEF HasSlots
<1>17. Hears2(t, d, NewWire.bytes["down"])
  <2>1. Rest(<<>>, 0) = <<>>
    BY <1>1 DEF Rest
  <2>2. 0 \in 0 .. Len(t.written)
    BY <1>1, <1>4
  <2> QED
    BY <1>2, <1>4, <1>16, <2>1, <2>2 DEF Hears2
<1>18. Talks2(t, d, NewWire, <<>>)
  BY <1>4, <1>13, <1>15, <1>17 DEF Talks2
<1> QED
  BY <1>11, <1>18 DEF s, c, t, d

LEMMA SetupTalks ==
  ASSUME Around, Exchanging, conn \in ConnType, client \in ClientType,
         RegisterRoutes \/ Listen \/ Accept \/ Begin \/ Connect \/ ConnectFails
  PROVE  Exchanging'
<1>1. wire' = wire /\ h1' = h1 /\ h2' = h2 /\ c1' = c1 /\ c2' = c2
  BY DEF RegisterRoutes, Listen, Accept, Begin, Connect, ConnectFails, sessions
<1>2. Answered1(c1', h1'.made) /\ Answered2(c2', h2'.made)
  BY <1>1 DEF Exchanging
<1>3. CASE RegisterRoutes \/ Listen \/ Accept
  <2>1. /\ client' = client /\ conn'.data = conn.data /\ requests' = requests
        /\ conn'.pc = conn.pc \/ conn'.pc \in {"listening", "detect"}
    BY <1>3 DEF RegisterRoutes, Listen, Accept, ConnType, sessions
  <2>2. Talking1'
    BY <1>1, <2>1 DEF Exchanging, Talking1
  <2>3. Talking2'
    BY <1>1, <2>1 DEF Exchanging, Talking2
  <2> QED
    BY <1>2, <2>2, <2>3 DEF Exchanging
<1>4. CASE Begin \/ ConnectFails
  <2>1. client'.pc # "open"
    BY <1>4 DEF Begin, ConnectFails, ClientType
  <2> QED
    BY <1>2, <2>1 DEF Exchanging, Talking1, Talking2
<1>5. CASE Connect
  <2>1. /\ client.pc = "start" /\ requests' = requests
        /\ conn'.pc = "accept" /\ conn'.data = conn.data
    BY <1>5 DEF Connect, ConnType, sessions
  <2>2. /\ wire = NewWire /\ conn.data = <<>> /\ NoSession
        /\ c1 = NewClient1 /\ c2 = NewClient2
    BY <2>1 DEF Around, Unconnected
  <2>3. h1 = NewServer1 /\ h2 = NewServer2 /\ h1.pc = "new" /\ h2.pc = "new"
    BY <2>2 DEF Around, Fresh, NoSession
  <2>4. /\ Talks1(requests, h1, c1, wire, conn.data)
        /\ Talks2(h2, c2, wire, conn.data)
    BY <2>2, <2>3, NewTalks
  <2>5. Talking1'
    BY <1>1, <2>1, <2>3, <2>4 DEF Talking1
  <2>6. Talking2'
    BY <1>1, <2>1, <2>3, <2>4 DEF Talking2
  <2> QED
    BY <1>2, <2>5, <2>6 DEF Exchanging
<1> QED
  BY <1>3, <1>4, <1>5

\* The client's end, of either protocol or of another make.
LEMMA RunClientTalks ==
  ASSUME HttpInv, HttpInv', Around, Exchanging, RunClient
  PROVE  Exchanging'
<1>1. /\ h1 \in Server1Type /\ c1 \in Client1Type /\ c1' \in Client1Type
      /\ h2 \in Server2Type /\ c2 \in Client2Type /\ c2' \in Client2Type
      /\ WireOK(wire) /\ conn.data \in Bytes
  BY DEF HttpInv, Types, ConnType
<1>2. client' = client /\ conn' = conn /\ client.pc = "open"
  BY DEF RunClient
<1>3. /\ h1.pc = "new" => h1.made = <<>>
      /\ h2.pc = "new" => h2.written = <<>>
  BY DEF Around, Fresh, NewServer1, NewServer2
<1>4. /\ Silent(wire)
      /\ client.kind # "raw" /\ NoSession => wire.deaf = {}
  BY <1>2 DEF Around, Connected
<1>5. CASE client.kind = "h1" /\ Client1 /\ UNCHANGED <<h2, c2>>
  <2>1. /\ conn.pc # "http2" /\ h2.pc = "new"
        /\ Talks1(requests, h1, c1, wire, conn.data) /\ Answered1(c1, h1.made)
    BY <1>2, <1>5 DEF Exchanging, Talking1
  <2>2. "up" \in wire.deaf => wire.bytes["up"] = <<>> /\ h1.pc # "new"
    BY <1>4, <1>5, <2>1 DEF Silent, NoSession
  <2>3. Talks1(requests, h1, c1', wire', conn.data) /\ Answered1(c1', h1.made)
    BY <1>1, <1>3, <1>5, <2>1, <2>2, Client1Talks
  <2>4. h1' = h1 /\ requests' = requests
    BY <1>1, <1>5, Client1Acts DEF ClientActs
  <2>5. Talking1'
    BY <1>2, <1>5, <2>1, <2>3, <2>4 DEF Talking1
  <2>6. Talking2' /\ Answered2(c2', h2'.made)
    BY <1>2, <1>5 DEF Exchanging, Talking2
  <2> QED
    BY <2>3, <2>4, <2>5, <2>6 DEF Exchanging
<1>6. CASE client.kind = "h2" /\ Client2 /\ UNCHANGED <<h1, c1>>
  <2>1. /\ conn.pc # "http1" /\ h1.pc = "new"
        /\ Talks2(h2, c2, wire, conn.data) /\ Answered2(c2, h2.made)
    BY <1>2, <1>6 DEF Exchanging, Talking2
  <2>2. "up" \in wire.deaf => h2.pc # "new"
    BY <1>4, <1>6, <2>1 DEF NoSession
  <2>3. FramesFollow(h2.written, h2.made)
    BY InvOrders DEF ResponsesInOrder, FramesFollow, OnStream
  <2>4. Talks2(h2, c2', wire', conn.data) /\ Answers2(c2', c2, h2.made)
    BY <1>1, <1>3, <1>6, <2>1, <2>2, <2>3, Client2Talks
  <2>5. Answered2(c2', h2.made)
    BY <1>1, <2>1, <2>4, AnsweredNext
  <2>6. h2' = h2 /\ requests' = requests
    BY <1>1, <1>6, Client2Acts DEF ClientActs
  <2>7. Talking2'
    BY <1>2, <1>6, <2>1, <2>4, <2>6 DEF Talking2
  <2>8. Talking1' /\ Answered1(c1', h1'.made)
    BY <1>2, <1>6 DEF Exchanging, Talking1
  <2> QED
    BY <2>5, <2>6, <2>7, <2>8 DEF Exchanging
<1> QED
  BY <1>5, <1>6 DEF RunClient

\* A client that leaves, or is of another make, is not spoken of.
LEMMA NotTalking ==
  ASSUME Exchanging, h1' = h1, h2' = h2, c1' = c1, c2' = c2,
         client'.pc = "open" => client'.kind = "raw"
  PROVE  Exchanging'
<1>1. Answered1(c1', h1'.made) /\ Answered2(c2', h2'.made)
  BY DEF Exchanging
<1> QED
  BY <1>1 DEF Exchanging, Talking1, Talking2

\* Every step of a client.
LEMMA ClientExchanging ==
  ASSUME HttpInv, HttpInv', Around, Exchanging,
         RunClient \/ CloseStream \/ RawWrites \/ RawReads \/ RawShutsDown \/ RawLeaves
  PROVE  Around' /\ Exchanging'
<1>1. /\ c1 \in Client1Type /\ c2 \in Client2Type /\ WireOK(wire) /\ client \in ClientType
      /\ client.bytes \in Bytes
  BY DEF HttpInv, Types, ClientType
<1>2. client.pc = "open" /\ conn' = conn
  BY DEF RunClient, CloseStream, RawWrites, RawReads, RawShutsDown, RawLeaves
<1>3. CASE RunClient
  <2>1. Exchanging'
    BY <1>3, RunClientTalks
  <2>2. client' = client /\ ClientActs /\ h1' = h1 /\ h2' = h2
    BY <1>1, <1>3, Client1Acts, Client2Acts DEF RunClient
  <2>3. Around'
    BY <1>1, <1>2, <2>2, ClientAround
  <2> QED
    BY <2>1, <2>3
<1>4. CASE CloseStream \/ RawLeaves
  <2>1. /\ h1' = h1 /\ h2' = h2 /\ c1' = c1 /\ c2' = c2 /\ client'.pc = "gone"
        /\ ClosesOn("down", "up")
    BY <1>1, <1>4 DEF CloseStream, RawLeaves, sessions, ClosesOn, ClientType
  <2> QED
    BY <1>1, <1>2, <2>1, ClientAround, NotTalking
<1>5. CASE RawWrites \/ RawReads \/ RawShutsDown
  <2>1. /\ h1' = h1 /\ h2' = h2 /\ c1' = c1 /\ c2' = c2
        /\ client'.pc = "open" /\ client'.kind = "raw"
    BY <1>1, <1>5 DEF RawWrites, RawReads, RawShutsDown, sessions, ClientType
  <2>2. \/ SendsOn("up") \/ ReadsOn("down")
        \/ wire' = [wire EXCEPT !.ended = @ \cup {"up"}]
    <3>1. CASE RawWrites
      <4> DEFINE b == client.bytes[client.sent + 1]
      <4>1. CanSend("up", <<b>>) /\ wire' = Sent("up", <<b>>)
        BY <3>1 DEF RawWrites
      <4>2. b \in Tokens
        <5>1. client.sent \in Nat /\ client.sent < Len(client.bytes) /\ Len(client.bytes) \in Nat
          BY <1>1, <3>1 DEF RawWrites, ClientType, Bytes
        <5> QED
          BY <1>1, <5>1 DEF Bytes
      <4> HIDE DEF b
      <4>3. <<b>> \in Bytes
        BY <4>2 DEF Bytes
      <4> QED
        BY <4>1, <4>3 DEF SendsOn
    <3>2. CASE RawReads
      BY <3>2 DEF RawReads, ReadsOn
    <3>3. CASE RawShutsDown
      BY <3>3 DEF RawShutsDown
    <3> QED
      BY <1>5, <3>1, <3>2, <3>3
  <2> QED
    BY <1>1, <1>2, <2>1, <2>2, ClientAround, NotTalking
<1> QED
  BY <1>3, <1>4, <1>5

\* The protocol is told.
LEMMA DetectExchanging ==
  ASSUME HttpInv, Around, Exchanging, Detect \/ DetectEnds
  PROVE  Around' /\ Exchanging'
<1>1. /\ c1 \in Client1Type /\ c2 \in Client2Type /\ WireOK(wire) /\ conn \in ConnType
      /\ conn.data \in Bytes
  BY DEF HttpInv, Types, ConnType
<1>2. /\ Around' /\ NoSession
      /\ client.pc = "open" /\ client.kind # "raw" => Detect
  BY <1>1, DetectAround
<1>3. h1' = h1 /\ h2' = h2 /\ c1' = c1 /\ c2' = c2 /\ client' = client /\ requests' = requests
  BY DEF Detect, DetectEnds, sessions
<1>4. h1.pc = "new" /\ h2.pc = "new"
  BY <1>2 DEF NoSession
<1>5. Answered1(c1', h1'.made) /\ Answered2(c2', h2'.made)
  BY <1>3 DEF Exchanging
<1>6. ASSUME client.pc = "open", client.kind = "h1"
      PROVE  conn'.pc # "http2" /\ h2'.pc = "new" /\ Talks1(requests', h1', c1', wire', conn'.data)
  <2>1. Detect /\ Talks1(requests, h1, c1, wire, conn.data)
    BY <1>2, <1>6 DEF Exchanging, Talking1
  <2>2. Talks1(requests, h1, c1, wire', conn'.data) /\ conn'.pc \in {"detect", "http1"}
    BY <1>1, <1>4, <2>1, Detect1Talks
  <2> QED
    BY <1>3, <1>4, <2>2
<1>7. ASSUME client.pc = "open", client.kind = "h2"
      PROVE  conn'.pc # "http1" /\ h1'.pc = "new" /\ Talks2(h2', c2', wire', conn'.data)
  <2>1. Detect /\ Talks2(h2, c2, wire, conn.data)
    BY <1>2, <1>7 DEF Exchanging, Talking2
  <2>2. Talks2(h2, c2, wire', conn'.data) /\ conn'.pc \in {"detect", "http2"}
    BY <1>1, <1>4, <2>1, Detect2Talks
  <2> QED
    BY <1>3, <1>4, <2>2
<1>8. Talking1'
  BY <1>3, <1>6 DEF Talking1
<1>9. Talking2'
  BY <1>3, <1>7 DEF Talking2
<1> QED
  BY <1>2, <1>5, <1>8, <1>9 DEF Exchanging

\* What a step of a session of HTTP/1.1, or of HTTP/2, has to be: the other
\* protocol's client is not there.
LEMMA Exchanges1 ==
  ASSUME Exchanging, client' = client, requests' = requests, conn.pc = "http1",
         conn'.pc \in {"http1", "terminated"}, conn'.data = conn.data,
         h2' = h2, c2' = c2, c1' = c1, Kept(h1.made, h1'.made),
         client.pc = "open" /\ client.kind = "h1" =>
           Talks1(requests, h1', c1, wire', conn.data)
  PROVE  Exchanging'
<1>1. Answered2(c2', h2'.made) /\ Answered1(c1', h1'.made)
  BY AnsweredKept DEF Exchanging
<1>2. ~(client.pc = "open" /\ client.kind = "h2")
  BY DEF Exchanging, Talking2
<1>3. Talking2'
  BY <1>2 DEF Talking2
<1>4. Talking1'
  BY DEF Exchanging, Talking1
<1> QED
  BY <1>1, <1>3, <1>4 DEF Exchanging

LEMMA Exchanges2 ==
  ASSUME Exchanging, client' = client, requests' = requests, conn.pc = "http2",
         conn'.pc \in {"http2", "terminated"}, conn'.data = conn.data,
         h1' = h1, c1' = c1, c2' = c2, Kept(h2.made, h2'.made),
         client.pc = "open" /\ client.kind = "h2" => Talks2(h2', c2, wire', conn.data)
  PROVE  Exchanging'
<1>1. Answered2(c2', h2'.made) /\ Answered1(c1', h1'.made)
  BY AnsweredKept DEF Exchanging
<1>2. ~(client.pc = "open" /\ client.kind = "h1")
  BY DEF Exchanging, Talking1
<1>3. Talking1'
  BY <1>2 DEF Talking1
<1>4. Talking2'
  BY DEF Exchanging, Talking2
<1> QED
  BY <1>1, <1>3, <1>4 DEF Exchanging

\* The sessions begin.
LEMMA StartExchanging ==
  ASSUME HttpInv, HttpInv', Around, Exchanging, StartSession
  PROVE  Around' /\ Exchanging'
<1>1. /\ h1 \in Server1Type /\ h1' \in Server1Type /\ c1 \in Client1Type /\ c2 \in Client2Type
      /\ Server2OK(h2) /\ h2 \in Server2Type /\ WireOK(wire) /\ wire \in WireType
      /\ conn.data \in Bytes
  BY DEF HttpInv, Types, ConnType, WireOK
<1>2. TakenOnce(h2)
  BY <1>1 DEF Server2OK
<1>3. /\ wire' = wire /\ conn' = conn /\ client' = client /\ c1' = c1 /\ c2' = c2
      /\ requests' = requests
  BY DEF StartSession
<1>4. CASE conn.pc = "http1" /\ h1.pc = "new" /\ h1' = Started1(conn.data) /\ UNCHANGED h2
  <2>1. h1'.pc # "new" /\ h1'.made = h1.made
    BY <1>1, <1>2, <1>4, StartActs
  <2>2. Kept(h1.made, h1'.made)
    BY <2>1, KeptSame
  <2>3. ASSUME client.pc = "open" /\ client.kind = "h1"
        PROVE  Talks1(requests, h1', c1, wire', conn.data)
    <3>1. Talks1(requests, h1, c1, wire, conn.data)
      BY <2>3 DEF Exchanging, Talking1
    <3>2. Talks1(requests, h1', c1, wire, conn.data)
      BY <1>1, <1>4, <3>1, Started1Talks
    <3> QED
      BY <1>3, <3>2
  <2>4. Around'
    BY <1>1, <1>3, <1>4, <2>1, SessionAround DEF NoSession
  <2>5. Exchanging'
    BY <1>3, <1>4, <2>2, <2>3, Exchanges1
  <2> QED
    BY <2>4, <2>5
<1>5. CASE /\ conn.pc = "http2" /\ UNCHANGED h1
           /\ \/ h2.pc = "new" /\ h2' = Initialized2
              \/ h2.pc = "initialized" /\ h2' = Started2(conn.data)
  <2>1. h2'.pc # "new" /\ h2'.made = h2.made
    BY <1>1, <1>2, <1>5, StartActs
  <2>2. Kept(h2.made, h2'.made)
    BY <2>1, KeptSame
  <2>3. ASSUME client.pc = "open" /\ client.kind = "h2"
        PROVE  Talks2(h2', c2, wire', conn.data)
    <3>1. Talks2(h2, c2, wire, conn.data)
      BY <2>3 DEF Exchanging, Talking2
    <3>2. CASE h2' = Initialized2
      <4>1. /\ h2'.pc = "send" /\ h2'.made = h2.made /\ h2'.written = h2.written
            /\ h2'.requests = h2.requests
        BY <1>1, <3>2 DEF Initialized2, Server2Type
      <4>2. Talks2(h2', c2, wire, conn.data)
        BY <3>1, <4>1, Quiet2Talks
      <4> QED
        BY <1>3, <4>2
    <3>3. CASE h2.pc = "initialized" /\ h2' = Started2(conn.data)
      <4>1. Talks2(h2', c2, wire, conn.data)
        BY <1>1, <3>1, <3>3, Started2Talks
      <4> QED
        BY <1>3, <4>1
    <3> QED
      BY <1>5, <3>2, <3>3
  <2>4. Around'
    BY <1>1, <1>3, <1>5, <2>1, SessionAround DEF NoSession
  <2>5. Exchanging'
    BY <1>3, <1>5, <2>2, <2>3, Exchanges2
  <2> QED
    BY <2>4, <2>5
<1> QED
  BY <1>4, <1>5 DEF StartSession

\* The sessions run.
LEMMA RunExchanging ==
  ASSUME HttpInv, HttpInv', Around, Exchanging, RunSession
  PROVE  Around' /\ Exchanging'
<1>1. /\ h1 \in Server1Type /\ h1' \in Server1Type /\ c1 \in Client1Type /\ c2 \in Client2Type
      /\ Server2OK(h2) /\ h2 \in Server2Type /\ WireOK(wire) /\ wire' \in WireType
      /\ conn.data \in Bytes
  BY DEF HttpInv, Types, ConnType, WireOK
<1>2. TakenOnce(h2)
  BY <1>1 DEF Server2OK
<1>3. conn' = conn /\ client' = client
  BY DEF RunSession
<1>4. client.pc = "open" /\ client.kind # "raw" => "down" \notin wire.deaf
  BY DEF Around, Connected
<1>5. CASE conn.pc = "http1" /\ Server1 /\ UNCHANGED <<h2, c2>>
  <2>1. ServerActs(h1, h1') /\ c1' = c1
    BY <1>1, <1>5, Server1Acts
  <2>2. Kept(h1.made, h1'.made)
    BY <2>1, KeptSame DEF ServerActs
  <2>3. ASSUME client.pc = "open" /\ client.kind = "h1"
        PROVE  Talks1(requests, h1', c1, wire', conn.data)
    <3>1. Talks1(requests, h1, c1, wire, conn.data)
      BY <2>3 DEF Exchanging, Talking1
    <3> QED
      BY <1>1, <1>4, <1>5, <2>3, <3>1, Server1Talks
  <2>4. Around'
    BY <1>1, <1>3, <1>5, <2>1, SessionAround DEF NoSession, ServerActs
  <2>5. Exchanging'
    BY <1>3, <1>5, <2>1, <2>2, <2>3, Exchanges1 DEF ServerActs
  <2> QED
    BY <2>4, <2>5
<1>6. CASE conn.pc = "http2" /\ Server2 /\ UNCHANGED <<h1, c1>>
  <2>1. ServerActs(h2, h2') /\ c2' = c2
    BY <1>1, <1>2, <1>6, Server2Acts
  <2>2. Kept(h2.made, h2'.made) /\ h2.pc # "new"
    BY <2>1, KeptSame DEF ServerActs
  <2>3. ASSUME client.pc = "open" /\ client.kind = "h2"
        PROVE  Talks2(h2', c2, wire', conn.data)
    <3>1. Talks2(h2, c2, wire, conn.data)
      BY <2>3 DEF Exchanging, Talking2
    <3> QED
      BY <1>1, <1>4, <1>6, <2>2, <2>3, <3>1, Server2Talks
  <2>4. Around'
    BY <1>1, <1>3, <1>6, <2>1, SessionAround DEF NoSession, ServerActs
  <2>5. Exchanging'
    BY <1>3, <1>6, <2>1, <2>2, <2>3, Exchanges2 DEF ServerActs
  <2> QED
    BY <2>4, <2>5
<1> QED
  BY <1>5, <1>6 DEF RunSession

\* A request is answered.
LEMMA HandleExchanging ==
  ASSUME HttpInv, HttpInv', Around, Exchanging, HandleRequest
  PROVE  Around' /\ Exchanging'
<1>1. /\ h1 \in Server1Type /\ h1' \in Server1Type /\ c1 \in Client1Type /\ c2 \in Client2Type
      /\ Server2OK(h2) /\ h2 \in Server2Type /\ WireOK(wire) /\ wire \in WireType
      /\ conn.data \in Bytes
  BY DEF HttpInv, Types, ConnType, WireOK
<1>2. conn' = conn /\ client' = client
  BY DEF HandleRequest
<1>3. PICK body \in BOOLEAN :
        \/ conn.pc = "http1" /\ Respond1(body) /\ UNCHANGED <<h2, c2>>
        \/ conn.pc = "http2" /\ Respond2(body) /\ UNCHANGED <<h1, c1>>
  BY DEF HandleRequest
<1>4. CASE conn.pc = "http1" /\ Respond1(body) /\ UNCHANGED <<h2, c2>>
  <2>1. /\ h1'.pc = "write" /\ Kept(h1.made, h1'.made)
        /\ wire' = wire /\ requests' = requests /\ c1' = c1
    BY <1>1, <1>4, RespondActs
  <2>2. ASSUME client.pc = "open" /\ client.kind = "h1"
        PROVE  Talks1(requests, h1', c1, wire', conn.data)
    <3>1. Talks1(requests, h1, c1, wire, conn.data)
      BY <2>2 DEF Exchanging, Talking1
    <3>2. Talks1(requests, h1', c1, wire, conn.data)
      BY <1>1, <1>4, <3>1, Respond1Talks
    <3> QED
      BY <2>1, <3>2
  <2>3. Around'
    BY <1>1, <1>2, <1>4, <2>1, SessionAround DEF NoSession
  <2>4. Exchanging'
    BY <1>2, <1>4, <2>1, <2>2, Exchanges1
  <2> QED
    BY <2>3, <2>4
<1>5. CASE conn.pc = "http2" /\ Respond2(body) /\ UNCHANGED <<h1, c1>>
  <2>1. /\ h2'.pc = "consume" /\ Kept(h2.made, h2'.made)
        /\ wire' = wire /\ requests' = requests /\ c2' = c2
    BY <1>1, <1>5, RespondActs
  <2>2. ASSUME client.pc = "open" /\ client.kind = "h2"
        PROVE  Talks2(h2', c2, wire', conn.data)
    <3>1. Talks2(h2, c2, wire, conn.data)
      BY <2>2 DEF Exchanging, Talking2
    <3>2. FramesFollow(h2.written, h2.made)
      BY InvOrders DEF ResponsesInOrder, FramesFollow, OnStream
    <3>3. Talks2(h2', c2, wire, conn.data)
      BY <1>1, <1>5, <3>1, <3>2, Respond2Talks
    <3> QED
      BY <2>1, <3>3
  <2>3. Around'
    BY <1>1, <1>2, <1>5, <2>1, SessionAround DEF NoSession
  <2>4. Exchanging'
    BY <1>2, <1>5, <2>1, <2>2, Exchanges2
  <2> QED
    BY <2>3, <2>4
<1> QED
  BY <1>3, <1>4, <1>5

\* A handler throws.
LEMMA ThrowExchanging ==
  ASSUME HttpInv, HttpInv', Around, Exchanging, HandlerThrows
  PROVE  Around' /\ Exchanging'
<1>1. /\ h1 \in Server1Type /\ c1 \in Client1Type /\ WireOK(wire) /\ wire' \in WireType
      /\ conn.data \in Bytes /\ conn \in ConnType
  BY DEF HttpInv, Types, ConnType, WireOK
<1>2. /\ h1' = h1 /\ h2' = h2 /\ c1' = c1 /\ c2' = c2 /\ client' = client
      /\ requests' = requests /\ wire' = Closed("up", "down")
      /\ conn'.pc = "terminated" /\ conn'.data = conn.data
  BY <1>1 DEF HandlerThrows, sessions, ConnType
<1>3. \/ conn.pc = "http1" /\ h1.pc = "handle"
      \/ conn.pc = "http2" /\ h2.pc = "handle"
  BY DEF HandlerThrows, Handling
<1>4. Around'
  BY <1>1, <1>2, <1>3, SessionAround DEF ClosesOn, NoSession
<1>5. /\ wire'.bytes["up"] = <<>> /\ wire'.bytes["down"] = wire.bytes["down"]
  BY <1>1, <1>2, ClosedBytes DEF Directions
<1>6. CASE conn.pc = "http1" /\ h1.pc = "handle"
  <2>1. ASSUME client.pc = "open" /\ client.kind = "h1"
        PROVE  Talks1(requests, h1', c1, wire', conn.data)
    <3>1. Talks1(requests, h1, c1, wire, conn.data)
      BY <2>1 DEF Exchanging, Talking1
    <3>2. Talks1(requests, h1, c1, wire', conn.data)
      BY <1>1, <1>2, <1>6, <3>1, LeavingTalks
    <3> QED
      BY <1>2, <3>2
  <2>2. Exchanging'
    BY <1>2, <1>6, <2>1, KeptSame, Exchanges1
  <2> QED
    BY <1>4, <2>2
<1>7. CASE conn.pc = "http2" /\ h2.pc = "handle"
  <2>1. ASSUME client.pc = "open" /\ client.kind = "h2"
        PROVE  Talks2(h2', c2, wire', conn.data)
    <3>1. Talks2(h2, c2, wire, conn.data)
      BY <2>1 DEF Exchanging, Talking2
    <3>2. Talks2(h2, c2, wire', conn.data)
      BY <1>5, <1>7, <3>1, Quiet2Talks
    <3> QED
      BY <1>2, <3>2
  <2>2. Exchanging'
    BY <1>2, <1>7, <2>1, KeptSame, Exchanges2
  <2> QED
    BY <1>4, <2>2
<1> QED
  BY <1>3, <1>6, <1>7

\* All of it.
AnswersInv == HttpInv /\ Around /\ Exchanging

LEMMA AnswersInvInit == HttpInit => AnswersInv
<1> SUFFICES ASSUME HttpInit PROVE AnswersInv
  OBVIOUS
<1>1. HttpInv
  BY HttpInvInit
<1>2. /\ wire = NewWire /\ h1 = NewServer1 /\ c1 = NewClient1 /\ h2 = NewServer2
      /\ c2 = NewClient2 /\ conn.pc = "setup" /\ conn.data = <<>>
      /\ client.pc = "none"
  BY DEF HttpInit
<1>3. /\ h1.pc = "new" /\ h2.pc = "new" /\ wire.deaf = {}
      /\ c1.results = <<>> /\ c2.results = <<>>
  BY <1>2 DEF NewServer1, NewServer2, NewWire, NewClient1, NewClient2
<1>4. NoSession
  BY <1>3 DEF NoSession
<1>5. Around
  BY <1>2, <1>3, <1>4 DEF Around, Unconnected, Connected, Fresh, Silent
<1>6. Exchanging
  BY <1>2, <1>3 DEF Exchanging, Talking1, Talking2, Answered1, Answered2
<1> QED
  BY <1>1, <1>5, <1>6 DEF AnswersInv

LEMMA AnswersInvNext == AnswersInv /\ [HttpNext]_httpVars => AnswersInv'
<1> SUFFICES ASSUME AnswersInv, [HttpNext]_httpVars PROVE AnswersInv'
  OBVIOUS
<1>1. HttpInv /\ Around /\ Exchanging
  BY DEF AnswersInv
<1>2. HttpInv'
  BY <1>1, HttpInvNext
<1>3. conn \in ConnType /\ client \in ClientType
  BY <1>1 DEF HttpInv, Types
<1> SUFFICES Around' /\ Exchanging'
  BY <1>2 DEF AnswersInv
<1>4. CASE RegisterRoutes \/ Listen \/ Accept \/ Begin \/ Connect \/ ConnectFails
  BY <1>1, <1>3, <1>4, SetupAround, SetupTalks
<1>5. CASE RunClient \/ CloseStream \/ RawWrites \/ RawReads \/ RawShutsDown \/ RawLeaves
  BY <1>1, <1>2, <1>5, ClientExchanging
<1>6. CASE Detect \/ DetectEnds
  BY <1>1, <1>6, DetectExchanging
<1>7. CASE StartSession
  BY <1>1, <1>2, <1>7, StartExchanging
<1>8. CASE RunSession
  BY <1>1, <1>2, <1>8, RunExchanging
<1>9. CASE HandleRequest
  BY <1>1, <1>2, <1>9, HandleExchanging
<1>10. CASE HandlerThrows
  BY <1>1, <1>2, <1>10, ThrowExchanging
<1>11. CASE UNCHANGED httpVars
  <2>1. /\ h1' = h1 /\ h2' = h2 /\ c1' = c1 /\ c2' = c2 /\ client' = client /\ conn' = conn
        /\ wire' = wire /\ requests' = requests
    BY <1>11 DEF httpVars
  <2>2. Around'
    BY <1>1, <2>1 DEF Around, Unconnected, Connected, Fresh, NoSession
  <2>3. Exchanging'
    BY <1>1, <2>1 DEF Exchanging, Talking1, Talking2
  <2> QED
    BY <2>2, <2>3
<1> QED
  BY <1>4, <1>5, <1>6, <1>7, <1>8, <1>9, <1>10, <1>11 DEF HttpNext, Client, Server

LEMMA InvAnswers == AnswersInv => AnswersAreOwn
<1> SUFFICES ASSUME AnswersInv PROVE AnswersAreOwn
  OBVIOUS
<1>1. Answered1(c1, h1.made) /\ Answered2(c2, h2.made)
  BY DEF AnswersInv, Exchanging
<1> QED
  BY <1>1 DEF AnswersAreOwn, Answered1, Answered2, IsAnswer1, IsAnswer2, Name1, Name2

\* AnswersAreOwn: what request() returns is the response the server's handler
\* made to that request, whatever is cut, delayed or lost on the way.
THEOREM AnswersAreOwnAlways == HttpSpec => []AnswersAreOwn
<1>1. HttpInit => AnswersInv
  BY AnswersInvInit
<1>2. AnswersInv /\ [HttpNext]_httpVars => AnswersInv'
  BY AnswersInvNext
<1>3. AnswersInv => AnswersAreOwn
  BY InvAnswers
<1> QED
  BY <1>1, <1>2, <1>3, PTL DEF HttpSpec
=============================================================================
