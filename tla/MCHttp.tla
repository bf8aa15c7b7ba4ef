------------------------------- MODULE MCHttp -------------------------------
(***************************************************************************)
(* HttpServer with the paths, routers and clients TLC tries.               *)
(***************************************************************************)
EXTENDS HttpServer

\* Registered and requested paths: a query, doubled and trailing slashes, a
\* name that occurs twice, a colon inside a text and one that names nothing.
MCPatterns ==
  { <<"/", "a">>, <<"/", "a", "?", "b">>, <<"/", "a", "/", ":id">>,
    <<"/", ":id", "/", ":id">>, <<"/", "a", "/", "*">>, <<"/", "*rest", "/", "b">>,
    <<"/", "a:b">>, <<"/", ":">> }

MCTargets ==
  { <<"/">>, <<"/", "a">>, <<"/", "a", "/">>, <<"/", "a", "/", "b">>,
    <<"/", "/", "a", "/", "b">>, <<"/", "a", "?", "b">>, <<"/", "a:b">>,
    <<"/", "a", "/", "b", "/", "a">> }

MCMarked == {":id", ":", "*", "*rest", "a:b"}
MCParamName == [t \in {":id", ":"} |-> IF t = ":" THEN Unnamed ELSE "id"]
MCWildName == [t \in {"*", "*rest"} |-> IF t = "*" THEN "wildcard" ELSE "rest"]

Route(method, path) == [op |-> "route", method |-> method, path |-> path]
Other(op) == [op |-> op, method |-> AnyMethod, path |-> <<>>]

\* Routers with and without a middleware and an error handler.
MCServed ==
  { <<Route("GET", <<"/", "a">>)>>,
    <<Other("use"), Other("error"), Route(AnyMethod, <<"/", "a", "/", ":id">>)>> }

\* A router with static routes alone, which dispatches on the fast path.
MCFast == { <<Route("GET", <<"/", "a">>)>> }

Req(method, path, close, body) ==
  [method |-> method, path |-> path, close |-> close, body |-> body]
PostA == Req("POST", <<"/", "a">>, FALSE, TRUE)
GetAB == Req("GET", <<"/", "a", "/", "b">>, FALSE, FALSE)
GetClose == Req("GET", <<"/", "a">>, TRUE, FALSE)

Uses(kind, rs) == [kind |-> kind, requests |-> rs, bytes |-> <<>>]
Writes(rs, bytes) == [kind |-> "raw", requests |-> rs, bytes |-> bytes]
Pipelined(rs) == SerializeRequest(rs, 1) \o SerializeRequest(rs, 2)

\* Clients of faio; and others: two requests one behind the other, one behind
\* a request that closes, a malformed byte behind a request, two streams whose
\* frames alternate, one that is reset, and half a preface.
MCPrograms ==
  { Uses("h1", <<PostA, GetAB>>), Uses("h1", <<GetAB, GetClose>>),
    Uses("h2", <<PostA, GetAB>>), Uses("auto", <<GetAB>>),
    Writes(<<PostA, GetClose>>, Pipelined(<<PostA, GetClose>>)),
    Writes(<<GetClose, GetAB>>, Pipelined(<<GetClose, GetAB>>)),
    Writes(<<GetAB>>, SerializeRequest(<<GetAB>>, 1) \o <<<<0, "malformed">>>>),
    Writes(<<PostA, PostA>>,
           Preface \o << Settings, <<1, "HEADERS">>, <<2, "HEADERS">>, <<2, "data">>,
                         <<1, "DATA">>, <<2, "DATA!">>, Update, <<1, "DATA!">>, Update,
                         Update >>),
    Writes(<<PostA, GetAB>>,
           Preface \o << <<1, "HEADERS">>, <<2, "HEADERS!">>, <<1, "data">>, <<1, "RST">>,
                         <<2, "RST">> >>),
    Writes(<<GetAB>>, <<<<0, "P">>>>) }
=============================================================================
