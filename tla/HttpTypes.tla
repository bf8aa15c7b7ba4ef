----------------------------- MODULE HttpTypes ------------------------------
(***************************************************************************)
(* What the HTTP sessions exchange (http/types.hpp): the requests a client *)
(* makes, numbered; over HTTP/2 the number is also the stream's.           *)
(***************************************************************************)
EXTENDS Stream, FiniteSets

CONSTANT Post   \* the method whose first byte is also the HTTP/2 preface's

VARIABLE requests   \* [method, path, close, body]: close asks for the end of
                    \* the connection, body says whether there is one

\* operator[] of a map: the entry is made, or replaced.
Put(map, key, value) ==
  [k \in DOMAIN map \cup {key} |-> IF k = key THEN value ELSE map[k]]
=============================================================================
