------------------------------ MODULE Gateway ------------------------------
(***************************************************************************)
(* One request's way through the gateway, for several requests at once:    *)
(*   CorrelationID( Tracing?( Metrics?( AccessLog( mux ))))                *)
(* with the response writers the middlewares wrap around each other, the   *)
(* mux, the gateway's own endpoints, the reverse proxy, the instrumented   *)
(* transport, and the way back out, by return or by panic.  The route table*)
(* is the register of RouteTable: it is taken whole at one moment and may  *)
(* be replaced by a POST at any other.  A string is a sequence of tokens.  *)
(***************************************************************************)
EXTENDS Routing, Bags

CONSTANTS
  Requests,       \* one request each
  Tokens,         \* the alphabet of paths, prefixes, URLs and header values
  Messages,       \* inbound requests: [method, path, id, trace, hop]
  RouteLists,     \* accepted route lists a POST may install
  InitialRoutes,  \* the --route flags
  BackendCodes,   \* status codes backends answer with
  NoID,           \* a blank X-Correlation-ID header
  None            \* nothing yet; no traceparent header

Tables == RouteLists \cup {InitialRoutes}

ASSUME RouteListsAssumption ==
  \A rs \in Tables : rs \in Seq(RouteSet(Tokens)) /\ ValidRoutes(rs)

\* A span context names a trace and a span of it; a name is the caller's, or
\* was drawn for one of the gateway's own two spans of a request.
Names == Seq(Tokens) \cup ({"request", "upstream"} \X Requests)
SpanContexts == [trace : Names, span : Names]

ASSUME MessagesAssumption ==
  Messages \subseteq [method : STRING, path : Seq(Tokens), id : Seq(Tokens) \cup {NoID},
                      trace : SpanContexts \cup {None}, hop : SUBSET {"id", "trace"}]

ASSUME BackendCodesAssumption == BackendCodes \subseteq Nat \ {0}

VARIABLES
  cfg,      \* which of --otel-enabled, --metrics-enabled, --routes-admin are on
  handler,  \* the active proxy.Handler
  req,      \* each request: stage, inbound message, context's correlation ID,
            \* writer chain, what went to a backend, its two spans
  log,      \* access-log lines on stdout, in order
  counts    \* gateway_requests_total: bag of labels

vars == <<cfg, handler, req, log, counts>>

Flags == [otel : BOOLEAN, metrics : BOOLEAN, admin : BOOLEAN]

HealthzPath == <<"/", "healthz">>
ReadyzPath  == <<"/", "readyz">>
MetricsPath == <<"/", "metrics">>
AdminPath   == <<"/", "admin", "/", "routes">>

-----------------------------------------------------------------------------
(***************************************************************************)
(* The writers.  Each layer that is switched on wraps the next one out;    *)
(* "wire" is net/http's own writer, whose first status wins.               *)
(***************************************************************************)
Layer == [status |-> 200, route |-> <<>>, wrote |-> FALSE]
FreshWriters(ids) ==
  [log |-> Layer, metrics |-> Layer, otel |-> Layer,
   wire |-> [status |-> 0, ids |-> ids]]

WireWriteHeader(x, code) ==
  IF x.wire.status # 0 THEN x ELSE [x EXCEPT !.wire.status = code]

\* otel statusWriter
OtelWriteHeader(x, code) ==
  IF cfg.otel THEN WireWriteHeader([x EXCEPT !.otel.status = code], code)
  ELSE WireWriteHeader(x, code)
OtelSetMatchedRoute(x, p) == IF cfg.otel THEN [x EXCEPT !.otel.route = p] ELSE x

\* metrics statusWriter
MetricsWriteHeader(x, code) ==
  IF ~cfg.metrics THEN OtelWriteHeader(x, code)
  ELSE IF x.metrics.wrote THEN x
  ELSE OtelWriteHeader([x EXCEPT !.metrics.status = code, !.metrics.wrote = TRUE],
                       code)
MetricsWrite(x) ==
  LET y == IF cfg.metrics THEN [x EXCEPT !.metrics.wrote = TRUE] ELSE x
  IN  WireWriteHeader(y, 200)
\* (mutant) the stamp stops here
MetricsSetMatchedRouteUnchained(x, p) ==
  IF cfg.metrics THEN [x EXCEPT !.metrics.route = p] ELSE OtelSetMatchedRoute(x, p)
MetricsSetMatchedRoute(x, p) ==
  OtelSetMatchedRoute(IF cfg.metrics THEN [x EXCEPT !.metrics.route = p] ELSE x, p)

\* AccessLog's statusRecorder
WriteHeader(x, code) ==
  IF x.log.wrote THEN x
  ELSE MetricsWriteHeader([x EXCEPT !.log.status = code, !.log.wrote = TRUE], code)
Write(x) == MetricsWrite([x EXCEPT !.log.wrote = TRUE])
\* (mutant) the stamp stops here
SetMatchedRouteUnchained(x, p) == [x EXCEPT !.log.route = p]
SetMatchedRoute(x, p) == MetricsSetMatchedRoute([x EXCEPT !.log.route = p], p)

\* A handler that sets a status and writes a body; one that only writes.
Respond(x, code) == Write(WriteHeader(x, code))

-----------------------------------------------------------------------------
(***************************************************************************)
(* Spans.  A span started under a valid parent context joins its trace,    *)
(* else it roots a new one.                                                *)
(***************************************************************************)
NoSpan == [state |-> "none", ctx |-> None, parent |-> None,
           status |-> 0, route |-> <<>>, error |-> FALSE]
StartSpan(name, parent) ==
  IF ~cfg.otel THEN NoSpan
  ELSE [NoSpan EXCEPT !.state = "open", !.parent = parent,
          !.ctx = [trace |-> IF parent = None THEN name ELSE parent.trace,
                   span |-> name]]

\* The reverse proxy copies a header to the outbound request unless the client's
\* Connection header names it.
Copied(r, header, value, none) == IF header \in r.in.hop THEN none ELSE value

\* (mutant) the context of the request's span, not of the upstream span
InjectRequestSpan(r, child) ==
  IF cfg.otel THEN r.span.ctx ELSE Copied(r, "trace", r.in.trace, None)

\* The traceparent header of the outbound request: the upstream span's, set in
\* the transport, or a copy of the client's own when tracing is off.
Inject(r, child) == IF cfg.otel THEN child.ctx ELSE Copied(r, "trace", r.in.trace, None)

Init ==
  /\ cfg \in Flags
  /\ handler = New(NewRouter(InitialRoutes))
  /\ req = [t \in Requests |->
              [stage |-> "new", in |-> None, id |-> NoID, w |-> FreshWriters(<<>>),
               sent |-> None, span |-> NoSpan, child |-> NoSpan]]
  /\ log = <<>>
  /\ counts = EmptyBag

\* Request t goes from one stage to another and becomes r otherwise.
Goto(t, from, to, r) ==
  /\ req[t].stage = from
  /\ req' = [req EXCEPT ![t] = [r EXCEPT !.stage = to]]

SharedUnchanged == UNCHANGED <<cfg, handler, log, counts>>

-----------------------------------------------------------------------------
(***************************************************************************)
(* The way in.                                                             *)
(***************************************************************************)

\* newUUID: a fresh ID, or the fixed one when the random source fails.
Sentinel == <<"sentinel">>
newUUID(t) == {<<"minted", t>>, Sentinel}

CorrelationIDFromContext(r) == r.id

\* CorrelationID, then the way in through Tracing, Metrics and AccessLog.
Enter(t, m) ==
  \E i \in IF m.id = NoID THEN newUUID(t) ELSE {m.id} :
    /\ Goto(t, "new", "mux",
            [req[t] EXCEPT !.in = m, !.id = i, !.w = FreshWriters(<<i>>),
                           !.span = StartSpan(<<"request", t>>, m.trace)])
    /\ SharedUnchanged

\* The patterns on the mux besides the catch-all "/".
Mounted ==
  {HealthzPath, ReadyzPath} \cup (IF cfg.metrics THEN {MetricsPath} ELSE {})
    \cup (IF cfg.admin THEN {AdminPath} ELSE {})

\* cleanPath leaves the path alone: no empty, "." or ".." element inside.  The
\* mux asks this of every request but CONNECT, whose path it takes as it is.
Clean(path) ==
  /\ path # <<>>
  /\ \A i \in 1..Len(path) - 1 : path[i] = "/" => path[i + 1] \notin {"/", ".", ".."}
Canonical(m) == m.method = "CONNECT" \/ Clean(m.path)

\* The mux hands the request to the handler mounted at path.
At(t, path) == req[t].stage = "mux" /\ req[t].in.path = path
\* (mutant) the catch-all takes every path
AtCatchAllGreedy(t) == req[t].stage = "mux"
AtCatchAll(t) ==
  req[t].stage = "mux" /\ Canonical(req[t].in) /\ req[t].in.path \notin Mounted

\* One of the gateway's own handlers answers.
Answer(t, w) ==
  /\ Goto(t, "mux", "return", [req[t] EXCEPT !.w = w])
  /\ UNCHANGED <<cfg, log, counts>>

\* The mux itself answers an unclean path, before any handler sees it.
Redirect(t) ==
  /\ req[t].stage = "mux" /\ ~Canonical(req[t].in)
  /\ Answer(t, Respond(req[t].w, 301))
  /\ UNCHANGED handler

Healthz(t) ==
  /\ At(t, HealthzPath)
  /\ Answer(t, Respond(req[t].w, IF req[t].in.method = "GET" THEN 200 ELSE 405))
  /\ UNCHANGED handler

\* The readiness flag is Lifecycle's; here it may be either way.
Readyz(t) ==
  /\ At(t, ReadyzPath)
  /\ \E code \in IF req[t].in.method = "GET" THEN {200, 503} ELSE {405} :
       Answer(t, Respond(req[t].w, code))
  /\ UNCHANGED handler

\* promhttp's handler writes without setting a status.
MetricsPage(t) ==
  /\ cfg.metrics /\ At(t, MetricsPath)
  /\ Answer(t, Write(req[t].w))
  /\ UNCHANGED handler

\* RoutesAdmin, whose inside is module Holder: a refusal, a report of the
\* table, or a new table and the report.
AdminRefuse(t) ==
  /\ cfg.admin /\ At(t, AdminPath) /\ req[t].in.method # "GET"
  /\ Answer(t, Respond(req[t].w, IF req[t].in.method = "POST" THEN 400 ELSE 405))
  /\ UNCHANGED handler

AdminReport(t) ==
  /\ cfg.admin /\ At(t, AdminPath) /\ req[t].in.method = "GET"
  /\ Answer(t, Write(req[t].w))
  /\ UNCHANGED handler

AdminReplace(t) ==
  /\ cfg.admin /\ At(t, AdminPath) /\ req[t].in.method = "POST"
  /\ \E rs \in RouteLists : handler' = New(NewRouter(rs))
  /\ Answer(t, Write(req[t].w))

Unrouted(t) == AtCatchAll(t) /\ Matching(handler.router, req[t].in.path) = {}

\* (mutant) the stamp comes before the match is tested
NotFoundStamped(t) ==
  /\ Unrouted(t)
  /\ Answer(t, Respond(SetMatchedRoute(req[t].w, req[t].in.path), 404))
  /\ UNCHANGED handler

\* proxy.Handler.ServeHTTP without a match: the opaque 404.
NotFound(t) ==
  /\ Unrouted(t)
  /\ Answer(t, Respond(req[t].w, 404))
  /\ UNCHANGED handler

\* (mutant) the outbound request keeps the inbound header
OutboundIDInbound(r) == r.in.id
OutboundID(r) ==
  IF CorrelationIDFromContext(r) # NoID THEN CorrelationIDFromContext(r) ELSE r.in.id

\* With a match: stamp the route, stamp the ID on the request, enter the reverse
\* proxy, which copies it, and its (instrumented) transport.
Forward(t) ==
  LET r == req[t]
      d == Dispatch(handler, r.in.path)
      child == StartSpan(<<"upstream", t>>, r.span.ctx)
  IN  /\ AtCatchAll(t) /\ Matching(handler.router, r.in.path) # {}
      /\ Goto(t, "mux", "upstream",
              [r EXCEPT !.w = SetMatchedRoute(@, d.route), !.child = child,
                        !.sent = [backend |-> d.backend, route |-> d.route,
                                  id |-> Copied(r, "id", OutboundID(r), NoID),
                                  trace |-> Inject(r, child)]])
      /\ SharedUnchanged

-----------------------------------------------------------------------------
(***************************************************************************)
(* The reverse proxy (httputil) and InstrumentedTransport.RoundTrip.       *)
(***************************************************************************)
EndChild(c, status, error) ==
  IF cfg.otel
  THEN [c EXCEPT !.state = "ended", !.status = status, !.error = error] ELSE c

BackendID == <<"backend">>
AddIDs(x, ids) == [x EXCEPT !.wire.ids = @ \o ids]

\* The backend answers; its headers, perhaps with a correlation ID of its
\* own, are added to the response, and its status is written.
BackendReply(t) ==
  \E code \in BackendCodes, echo \in {<<>>, <<BackendID>>} :
    /\ Goto(t, "upstream", "body",
            [req[t] EXCEPT !.child = EndChild(@, code, code >= 500),
               !.w = WriteHeader(AddIDs(@, echo), code)])
    /\ SharedUnchanged

\* The call ends without an answer to pass on: ErrorHandler writes 502.
BadGateway(t, status, error) ==
  /\ Goto(t, "upstream", "return",
          [req[t] EXCEPT !.child = EndChild(@, status, error),
                         !.w = WriteHeader(@, 502)])
  /\ SharedUnchanged

\* Refused, timed out, client gone.
BackendFail(t) == BadGateway(t, 0, TRUE)
\* 101: the wrapped writer cannot be hijacked.
BackendUpgrade(t) == BadGateway(t, 101, FALSE)

BodyDone(t) ==
  /\ Goto(t, "body", "return", [req[t] EXCEPT !.w = Write(@)])
  /\ SharedUnchanged

\* Copying the body fails half-way: panic(http.ErrAbortHandler).
BodyAbort(t) ==
  /\ Goto(t, "body", "panic", [req[t] EXCEPT !.w = Write(@)])
  /\ SharedUnchanged

-----------------------------------------------------------------------------
(***************************************************************************)
(* The way out.                                                            *)
(***************************************************************************)
\* (mutant) the route is matched again when the line is written
LineOfRematched(t) ==
  LET r == req[t]
  IN  [req |-> t, method |-> r.in.method, status |-> r.w.log.status,
       route |-> IF r.sent = None THEN <<>> ELSE Dispatch(handler, r.in.path).route,
       id |-> CorrelationIDFromContext(r), trace |-> r.span.ctx]

LineOf(t) ==
  LET r == req[t]
  IN  [req |-> t, method |-> r.in.method, status |-> r.w.log.status,
       route |-> r.w.log.route, id |-> CorrelationIDFromContext(r),
       trace |-> r.span.ctx]

\* AccessLog after next.ServeHTTP: one line, written under its mutex.
LogLine(t) ==
  /\ Goto(t, "return", "logged", req[t])
  /\ log' = Append(log, LineOf(t))
  /\ UNCHANGED <<cfg, handler, counts>>

\* The metrics middleware after next.ServeHTTP.
Count(t) ==
  LET w == req[t].w.metrics
  IN  /\ Goto(t, "logged", "counted", req[t])
      /\ counts' = IF cfg.metrics
                   THEN counts (+) SetToBag({<<req[t].in.method, w.route, w.status>>})
                   ELSE counts
      /\ UNCHANGED <<cfg, handler, log>>

\* The tracing middleware after h.ServeHTTP: attributes, then the deferred End.
EndSpan(t) ==
  LET w == req[t].w.otel
  IN  /\ Goto(t, "counted", "done",
              IF cfg.otel
              THEN [req[t] EXCEPT !.span = [@ EXCEPT !.state = "ended", !.route = w.route,
                                              !.status = w.status, !.error = w.status >= 500]]
              ELSE req[t])
      /\ SharedUnchanged

\* (mutant) End is called at the end of the handler instead of deferred
UnwindWithoutEnd(t) == Goto(t, "panic", "aborted", req[t]) /\ SharedUnchanged

\* A panic runs the deferred End only; net/http recovers and cuts the client.
Unwind(t) ==
  /\ Goto(t, "panic", "aborted",
          IF cfg.otel THEN [req[t] EXCEPT !.span.state = "ended"] ELSE req[t])
  /\ SharedUnchanged

Serve(t) ==
  \/ Redirect(t) \/ Healthz(t) \/ Readyz(t) \/ MetricsPage(t)
  \/ AdminRefuse(t) \/ AdminReport(t) \/ AdminReplace(t)
  \/ NotFound(t) \/ Forward(t)
  \/ BackendReply(t) \/ BackendFail(t) \/ BackendUpgrade(t)
  \/ BodyDone(t) \/ BodyAbort(t)
  \/ LogLine(t) \/ Count(t) \/ EndSpan(t) \/ Unwind(t)

Next == \E t \in Requests : Serve(t) \/ \E m \in Messages : Enter(t, m)

Spec == Init /\ [][Next]_vars

-----------------------------------------------------------------------------
(***************************************************************************)
(* Properties.                                                             *)
(***************************************************************************)
Lines(t) == {i \in DOMAIN log : log[i].req = t}
Recorded == {"logged", "counted", "done"}
Stages == Recorded \cup {"new", "mux", "upstream", "body", "return", "panic", "aborted"}

\* The route that was really called; no route if no backend was.
CalledRoute(t) == IF req[t].sent = None THEN <<>> ELSE req[t].sent.route

\* A request is stamped, sent and spanned only in the order of its stages, and
\* has its one line once it has been logged.
TypeOK ==
  /\ \A t \in Requests :
       /\ req[t].stage \in Stages
       /\ req[t].sent = None => req[t].child = NoSpan /\ req[t].w.log.route = <<>>
       /\ Cardinality(Lines(t)) = IF req[t].stage \in Recorded THEN 1 ELSE 0
  /\ IsABag(counts)

\* What the client saw, the access line and the span agree on the status, and
\* on the route of the backend that was really called.
ObserversAgree ==
  \A t \in Requests :
    LET r == req[t]
    IN  /\ \A i \in Lines(t) :
             /\ log[i].status = r.w.wire.status
             /\ log[i].route = CalledRoute(t)
        /\ r.stage = "done" /\ cfg.otel =>
             /\ r.span.status = r.w.wire.status
             /\ r.span.route = CalledRoute(t)

Labels(e) == <<e.method, e.route, e.status>>
Counted == {i \in DOMAIN log : req[log[i].req].stage \in {"counted", "done"}}

\* gateway_requests_total is the access log counted by method, route, status:
\* ahead of nothing, and behind only by the requests between the two steps.
MetricsMatchLog ==
  cfg.metrics =>
    /\ BagToSet(counts) = {Labels(log[i]) : i \in Counted}
    /\ \A l \in BagToSet(counts) :
         counts[l] = Cardinality({i \in Counted : Labels(log[i]) = l})

\* One correlation ID, never blank, from the client's answer to the access
\* line to the backend, also when the backend adds an ID of its own; to the
\* backend unless the client declared the header hop-by-hop.
OneCorrelationID ==
  \A t \in Requests :
    LET r == req[t]
    IN  r.stage # "new" =>
          /\ r.id # NoID /\ r.w.wire.ids[1] = r.id
          /\ r.in.id # NoID => r.id = r.in.id
          /\ r.sent # None /\ "id" \notin r.in.hop => r.sent.id = r.id
          /\ \A i \in Lines(t) : log[i].id = r.id

\* Spans close in order and on every way out: no request is over, by return or
\* by panic, with a span open, and the upstream span is inside the request's.
SpansNest ==
  \A t \in Requests :
    LET r == req[t]
    IN  /\ r.child.state = "open" => r.span.state = "open"
        /\ r.stage \in {"done", "aborted"} =>
             r.span.state # "open" /\ r.child.state # "open"

\* One trace from the caller to the backend, hop by hop: the backend's parent is
\* the upstream span, its parent the request's span, its parent the caller's if
\* there is one; the access line names the request's span.  Without tracing the
\* caller's header reaches the backend as it came, unless it was declared
\* hop-by-hop, and the line names no span.
OneTrace ==
  \A t \in Requests :
    LET r == req[t]
    IN  r.stage # "new" =>
          /\ ~cfg.otel /\ r.sent # None /\ "trace" \notin r.in.hop => r.sent.trace = r.in.trace
          /\ cfg.otel /\ r.sent # None =>
               /\ r.sent.trace = r.child.ctx
               /\ r.child.parent = r.span.ctx /\ r.child.ctx.trace = r.span.ctx.trace
          /\ cfg.otel /\ r.in.trace # None =>
               r.span.parent = r.in.trace /\ r.span.ctx.trace = r.in.trace.trace
          /\ \A i \in Lines(t) : log[i].trace = r.span.ctx

\* What the gateway answers itself never reaches a backend, even under a
\* catch-all route, nor does a request without a route.  Another spelling of a
\* path does not either, with empty or dot elements, except in a CONNECT, which
\* the mux takes for a different path and hands to the catch-all.
OwnPathsStayLocal ==
  \A t \in Requests :
    LET r == req[t]
    IN  r.sent # None =>
          /\ r.in.path \notin Mounted
          /\ r.in.method # "CONNECT" => Clean(r.in.path)
          /\ HasPrefix(r.in.path, r.sent.route) /\ r.sent.route # <<>>

Codes == {200, 301, 400, 404, 405, 502, 503} \cup BackendCodes
ConfiguredPrefixes == {<<>>} \cup UNION {RoutePrefixes(rs) : rs \in Tables}

Phase(t) ==
  CASE req[t].stage = "new" -> "out"
    [] req[t].stage \in {"mux", "upstream", "body"} -> "in"
    [] req[t].stage = "return" -> "answered"
    [] req[t].stage \in {"logged", "counted"} -> "recorded"
    [] req[t].stage = "done" -> "closed"
    [] req[t].stage = "panic" -> "broken"
    [] req[t].stage = "aborted" -> "aborted"

Told(t) ==
  IF req[t].stage \in {"return"} \cup Recorded
  THEN [method |-> req[t].in.method, route |-> CalledRoute(t),
        status |-> req[t].w.wire.status]
  ELSE None

LedgerLine(e) ==
  [req |-> e.req, answer |-> [method |-> e.method, route |-> e.route, status |-> e.status]]

Ledger ==
  INSTANCE RequestLedger WITH
    Answers <- [method : {m.method : m \in Messages}, route : ConfiguredPrefixes, status : Codes],
    phase <- [t \in Requests |-> Phase(t)],
    answer <- [t \in Requests |-> Told(t)],
    lines <- [i \in DOMAIN log |-> LedgerLine(log[i])]

\* The chain implements the ledger: what the client was told, of the backend
\* that was called, is what the one line says, and nothing is said before.
ImplementsLedger == Ledger!Spec

\* What the comment of AccessLog and the README say: "each request produces one
\* JSON line".  A request whose body copy is aborted produces none.
EachRequestLogged ==
  \A t \in Requests : req[t].stage \in {"done", "aborted"} => Cardinality(Lines(t)) = 1

\* What the comment of the metrics middleware says of the route label: its
\* cardinality is "bounded by the configured route table".
RouteLabelsConfigured ==
  \A l \in BagToSet(counts) : l[2] \in {<<>>} \cup RoutePrefixes(handler.router)

-----------------------------------------------------------------------------
(***************************************************************************)
(* What holds of every reachable state: the types, what each stage of a    *)
(* request knows of its writers, IDs, spans and route, and the log.        *)
(***************************************************************************)
IDs == {NoID, Sentinel, BackendID} \cup Seq(Tokens) \cup ({"minted"} \X Requests)
Layers == [status : Codes, route : Seq(Tokens), wrote : BOOLEAN]
Writers == [log : Layers, metrics : Layers, otel : Layers,
            wire : [status : Codes \cup {0}, ids : Seq(IDs)]]
Spans == [state : {"none", "open", "ended"},
          ctx : SpanContexts \cup {None}, parent : SpanContexts \cup {None},
          status : Codes \cup {0, 101}, route : Seq(Tokens), error : BOOLEAN]
Outbound == [backend : Seq(Tokens), route : Seq(Tokens), id : IDs,
             trace : SpanContexts \cup {None}]
RequestSet ==
  [stage : Stages, in : Messages \cup {None}, id : IDs, w : Writers,
   sent : Outbound \cup {None}, span : Spans, child : Spans]

\* The marks for nothing are none of the things they stand beside.
ASSUME NothingAssumption ==
  /\ None \notin SpanContexts \cup Outbound \cup Messages
  /\ NoID \notin {Sentinel} \cup ({"minted"} \X Requests)

\* Before the first status nothing has gone out and every layer still holds the
\* default; after it every layer that is on holds the client's status.
WritersAgree(w) ==
  /\ w.log.wrote <=> w.wire.status # 0
  /\ w.log.status = IF w.log.wrote THEN w.wire.status ELSE 200
  /\ cfg.metrics => w.metrics = w.log
  /\ cfg.otel => w.otel.status = w.log.status /\ w.otel.route = w.log.route

\* What the way in settled: the message, its ID and the request's span.
Entered(r) ==
  /\ r.in \in Messages
  /\ r.id # NoID /\ r.w.wire.ids # <<>> /\ r.w.wire.ids[1] = r.id
  /\ r.in.id # NoID => r.id = r.in.id
  /\ cfg.otel =>
       /\ r.span.ctx \in SpanContexts
       /\ r.in.trace # None =>
            r.span.parent = r.in.trace /\ r.span.ctx.trace = r.in.trace.trace

\* What the hand-over to a backend settled.
Handed(r) ==
  /\ r.w.log.route = r.sent.route
  /\ r.sent.route # <<>> /\ r.sent.route \in ConfiguredPrefixes
  /\ r.in.path \notin Mounted /\ Canonical(r.in) /\ HasPrefix(r.in.path, r.sent.route)
  /\ r.sent.id = Copied(r, "id", r.id, NoID)
  /\ r.sent.trace = IF cfg.otel THEN r.child.ctx ELSE Copied(r, "trace", r.in.trace, None)
  /\ cfg.otel => r.child.parent = r.span.ctx /\ r.child.ctx.trace = r.span.ctx.trace

ReqInv(r) ==
  /\ WritersAgree(r.w)
  /\ r.w.log.wrote <=> r.stage \notin {"new", "mux", "upstream"}
  /\ r.stage # "new" => Entered(r)
  /\ IF r.sent = None
     THEN /\ r.child = NoSpan /\ r.w.log.route = <<>>
          /\ r.stage \notin {"upstream", "body", "panic", "aborted"}
     ELSE r.stage \notin {"new", "mux"} /\ Handed(r)
  /\ r.span.state = "open" <=> cfg.otel /\ r.stage \notin {"new", "done", "aborted"}
  /\ r.child.state = "open" => cfg.otel /\ r.stage = "upstream"
  /\ ~cfg.otel => r.span = NoSpan
  /\ cfg.otel /\ r.stage = "done" =>
       r.span.status = r.w.otel.status /\ r.span.route = r.w.otel.route

\* Every line is what its request, logged by now, says; a logged request has
\* exactly one.
LogInv ==
  /\ \A i \in DOMAIN log :
       /\ log[i].req \in Requests /\ req[log[i].req].stage \in Recorded
       /\ log[i] = LineOf(log[i].req)
  /\ \A i, j \in DOMAIN log : log[i].req = log[j].req => i = j
  /\ \A t \in Requests : req[t].stage \in Recorded => Lines(t) # {}

TypeInv ==
  /\ cfg \in Flags
  /\ \E rs \in Tables : handler = New(NewRouter(rs))
  /\ req \in [Requests -> RequestSet]
  /\ log \in Seq([req : Requests, method : STRING, status : Codes, route : Seq(Tokens),
                  id : IDs, trace : SpanContexts \cup {None}])
  /\ IsABag(counts)

IndInv == TypeInv /\ (\A t \in Requests : ReqInv(req[t])) /\ LogInv /\ MetricsMatchLog
=============================================================================
