------------------------------- MODULE Router -------------------------------
(***************************************************************************)
(* HttpRouter (http/http_server.hpp): static routes by method and path,    *)
(* dynamic routes tried in the order of their registration, middlewares,   *)
(* a fallback and an error handler, all registered before the server runs. *)
(*                                                                         *)
(* A path is a sequence of tokens: "/", "?" and the text between them.  A  *)
(* callable (handler, middleware, error handler) is named by the number of *)
(* the call that registered it.                                            *)
(***************************************************************************)
EXTENDS Naturals, SequencesExt

CONSTANTS
  Methods,    \* the request methods in use
  Patterns,   \* the paths routes are registered with,
  Targets,    \* and those requests ask for
  Marked,     \* the texts with a ':' or a '*' somewhere in them,
  ParamName,  \* the parameter's name of those that begin with ':',
  WildName,   \* and the wildcard's name of those that begin with '*'
  MaxCalls    \* bound: registrations

\* std::nullopt as a method, and the name of a segment that is just ":".
AnyMethod == "any"
Unnamed == ""

VARIABLES
  router,     \* the HttpRouter's members
  calls       \* ghost: the registrations, in order

routerVars == <<router, calls>>

NewRouter == [exact |-> <<>>, any |-> <<>>, dynamic |-> <<>>, middlewares |-> <<>>,
              fallback |-> 0, onError |-> 0]

StripQuery(path) ==
  LET q == SelectInSeq(path, LAMBDA t : t = "?")
  IN  IF q = 0 THEN path ELSE SubSeq(path, 1, q - 1)

\* Slashes in front, at the end and in a row separate nothing.
SplitPath(path) == SelectSeq(StripQuery(path), LAMBDA t : t # "/")

IsDynamic(path) == \E i \in DOMAIN path : path[i] \in Marked

\* A segment with '*' in front ends the pattern, whatever follows it.
Compiled(method, path, h) ==
  LET s == SplitPath(path)
      w == SelectInSeq(s, LAMBDA t : t \in DOMAIN WildName)
  IN  [method |-> method, handler |-> h, wild |-> w # 0,
       name |-> IF w = 0 THEN Unnamed ELSE WildName[s[w]],
       segments |-> IF w = 0 THEN s ELSE SubSeq(s, 1, w - 1)]

\* Mutant of RegisterRoute: a static path keeps its first handler.
RegisterRouteOnce(r, method, path, h) ==
  LET clean == StripQuery(path)
  IN  IF IsDynamic(clean)
      THEN [r EXCEPT !.dynamic = Append(@, Compiled(method, clean, h))]
      ELSE IF method = AnyMethod THEN [r EXCEPT !.any = @ @@ (clean :> h)]
      ELSE [r EXCEPT !.exact = @ @@ (<<method, clean>> :> h)]

\* A static path registered again has its new handler.
RegisterRoute(r, method, path, h) ==
  LET clean == StripQuery(path)
  IN  IF IsDynamic(clean)
      THEN [r EXCEPT !.dynamic = Append(@, Compiled(method, clean, h))]
      ELSE IF method = AnyMethod THEN [r EXCEPT !.any = (clean :> h) @@ @]
      ELSE [r EXCEPT !.exact = (<<method, clean>> :> h) @@ @]

-----------------------------------------------------------------------------
(* Matching.  A parameter is bound to the segments it stands for; a name   *)
(* that occurs twice keeps its first.                                      *)

Matches(route, method, path) ==
  LET actual == SplitPath(path)
      n == Len(route.segments)
  IN  /\ route.method \in {AnyMethod, method}
      /\ IF route.wild THEN Len(actual) >= n ELSE Len(actual) = n
      /\ \A i \in 1..n :
           IF route.segments[i] \in DOMAIN ParamName
           THEN ParamName[route.segments[i]] # Unnamed
           ELSE route.segments[i] = actual[i]

Bound(route, actual) ==
  FoldLeft(LAMBDA ps, i :
             IF route.segments[i] \in DOMAIN ParamName
             THEN ps @@ (ParamName[route.segments[i]] :> <<actual[i]>>) ELSE ps,
           <<>>, [i \in DOMAIN route.segments |-> i])

Params(route, path) ==
  LET actual == SplitPath(path)
  IN  IF ~route.wild THEN Bound(route, actual)
      ELSE Bound(route, actual)
             @@ (route.name :> SubSeq(actual, Len(route.segments) + 1, Len(actual)))

-----------------------------------------------------------------------------
(* Dispatch.  Of the callables, those of fails throw on this request and   *)
(* the middlewares of stops answer it themselves.  An outcome is a reply   *)
(* by a callable, the default 404 or 500, or an exception that escapes.    *)

Outcome(kind, h, params) == [kind |-> kind, by |-> h, params |-> params]
NotFound == Outcome("404", 0, <<>>)

\* The error handler itself is called outside the try.
Failed(r, fails) ==
  IF r.onError = 0 THEN Outcome("500", 0, <<>>)
  ELSE Outcome(IF r.onError \in fails THEN "throws" ELSE "error", r.onError, <<>>)

InvokeHandlerSafe(r, h, params, fails) ==
  IF h \in fails THEN Failed(r, fails) ELSE Outcome("reply", h, params)

InvokeMiddlewareSafe(r, h, fails) ==
  IF h \in fails THEN Failed(r, fails) ELSE Outcome("stop", h, <<>>)

\* The handler of a path that is registered as it stands, or 0.
Exact(r, method, path) ==
  LET clean == StripQuery(path)
  IN  IF <<method, clean>> \in DOMAIN r.exact THEN r.exact[<<method, clean>>]
      ELSE IF clean \in DOMAIN r.any THEN r.any[clean] ELSE 0

DispatchFast(r, method, path, fails) ==
  LET h == IF Exact(r, method, path) # 0 THEN Exact(r, method, path) ELSE r.fallback
  IN  IF h = 0 THEN NotFound
      ELSE Outcome(IF h \in fails THEN "throws" ELSE "reply", h, <<>>)

\* The index of the dynamic route that takes the request, or 0.
DispatchDynamic(r, method, path) ==
  SelectInSeq(r.dynamic, LAMBDA route : Matches(route, method, path))

DispatchSafe(r, method, path, fails, stops) ==
  LET m == SelectInSeq(r.middlewares, LAMBDA c : c \in fails \cup stops)
      d == DispatchDynamic(r, method, path)
      h == Exact(r, method, path)
  IN  IF m # 0 THEN InvokeMiddlewareSafe(r, r.middlewares[m], fails)
      ELSE IF h # 0 THEN InvokeHandlerSafe(r, h, <<>>, fails)
      ELSE IF d # 0
      THEN InvokeHandlerSafe(r, r.dynamic[d].handler, Params(r.dynamic[d], path), fails)
      ELSE IF r.fallback # 0 THEN InvokeHandlerSafe(r, r.fallback, <<>>, fails)
      ELSE NotFound

IsFast(r) == r.middlewares = <<>> /\ r.dynamic = <<>> /\ r.onError = 0

Dispatch(r, method, path, fails, stops) ==
  IF IsFast(r) THEN DispatchFast(r, method, path, fails)
  ELSE DispatchSafe(r, method, path, fails, stops)

-----------------------------------------------------------------------------
(* Registration.                                                           *)

RouterInit == router = NewRouter /\ calls = <<>>

Id == Len(calls) + 1

Registers(op, method, path, r) ==
  /\ Len(calls) < MaxCalls
  /\ calls' = Append(calls, [op |-> op, method |-> method, path |-> path])
  /\ router' = r

Use == Registers("use", AnyMethod, <<>>, [router EXCEPT !.middlewares = Append(@, Id)])
OnError == Registers("error", AnyMethod, <<>>, [router EXCEPT !.onError = Id])
Fallback == Registers("fallback", AnyMethod, <<>>, [router EXCEPT !.fallback = Id])

Handle == \E method \in Methods \cup {AnyMethod}, path \in Patterns :
  Registers("route", method, path, RegisterRoute(router, method, path, Id))

Register == Use \/ OnError \/ Fallback \/ Handle

-----------------------------------------------------------------------------
(* What routing promises, said of the registrations alone.                 *)

Routes(P(_)) == {i \in DOMAIN calls : calls[i].op = "route" /\ P(calls[i])}
Callables(op) == {i \in DOMAIN calls : calls[i].op = op}

\* The pattern fits the path: its parameters can be filled in so that it
\* reads like the path, or like its beginning when a wildcard ends it.
Fits(pattern, path) ==
  LET p == SplitPath(pattern)
      s == SplitPath(path)
      wild == {i \in DOMAIN p : p[i] \in DOMAIN WildName}
      n == IF wild = {} THEN Len(p) ELSE Min(wild) - 1
      filled(i) == \/ p[i] = s[i] /\ p[i] \notin DOMAIN ParamName
                   \/ p[i] \in DOMAIN ParamName /\ ParamName[p[i]] # Unnamed
  IN  n <= Len(s) /\ (wild = {} => n = Len(s)) /\ \A i \in 1..n : filled(i)

\* The callable the documentation's list of priorities gives a request.
Wanted(method, path) ==
  LET same(c) == ~IsDynamic(StripQuery(c.path)) /\ StripQuery(c.path) = StripQuery(path)
      exact == Routes(LAMBDA c : c.method = method /\ same(c))
      any == Routes(LAMBDA c : c.method = AnyMethod /\ same(c))
      fit == Routes(LAMBDA c : /\ IsDynamic(StripQuery(c.path))
                               /\ c.method \in {AnyMethod, method} /\ Fits(c.path, path))
      last(S) == IF S = {} THEN 0 ELSE Max(S)
  IN  IF exact # {} THEN Max(exact) ELSE IF any # {} THEN Max(any)
      ELSE IF fit # {} THEN Min(fit) ELSE last(Callables("fallback"))

\* The parameters put back into the pattern spell the path again.
Spelled(pattern, params, path) ==
  LET p == SplitPath(pattern)
      w == SelectInSeq(p, LAMBDA t : t \in DOMAIN WildName)
      names == [t \in DOMAIN ParamName |-> ParamName[t]] @@ WildName
      part(t) == IF t \in DOMAIN names THEN params[names[t]] ELSE <<t>>
      used == IF w = 0 THEN p ELSE SubSeq(p, 1, w)
      twice == \E i, j \in DOMAIN used :
                 /\ i # j /\ used[i] \in DOMAIN names /\ used[j] \in DOMAIN names
                 /\ names[used[i]] = names[used[j]]
  IN  twice \/ FoldLeft(LAMBDA s, t : s \o part(t), <<>>, used) = SplitPath(path)

\* Whatever was registered, in whatever order, a request that nothing throws
\* on and no middleware stops reaches the callable of the highest priority -
\* the last of equal static routes, the first of fitting dynamic ones - and
\* its parameters spell the path; a request some callables throw on is
\* answered as the shortcut for static routers would, but for the exception.
RoutesByPriority == \A method \in Methods, path \in Targets :
  LET o == Dispatch(router, method, path, {}, {})
      slow(fails) == DispatchSafe(router, method, path, fails, {})
  IN  /\ o.by = Wanted(method, path)
      /\ o.kind = (IF o.by = 0 THEN "404" ELSE "reply")
      /\ o.by # 0 /\ IsDynamic(StripQuery(calls[o.by].path))
           => Spelled(calls[o.by].path, o.params, path)
      /\ IsFast(router) => \A fails \in {{}, {o.by}} :
           LET f == DispatchFast(router, method, path, fails)
           IN  f = slow(fails) \/ (f.kind = "throws" /\ slow(fails).kind = "500")
=============================================================================
