--------------------------- MODULE GatewayProofs ---------------------------
(***************************************************************************)
(* Proofs about the request path of module Gateway, for any number of      *)
(* requests, any messages, route lists and backend status codes.           *)
(***************************************************************************)
EXTENDS Gateway, RoutingProofs

-----------------------------------------------------------------------------
(***************************************************************************)
(* The writers.                                                            *)
(***************************************************************************)

\* Every status there is is a positive number.
LEMMA CodesArePositive == Codes \subseteq Nat \ {0}
  BY BackendCodesAssumption DEF Codes

\* The outer layers pass the first status on to the client.
LEMMA StatusPassed ==
  ASSUME cfg \in Flags, NEW w \in Writers, w.wire.status = 0, NEW code \in Codes
  PROVE  LET x == OtelWriteHeader(w, code)
         IN  /\ x \in Writers /\ x.log = w.log /\ x.metrics = w.metrics
             /\ x.wire.ids = w.wire.ids /\ x.wire.status = code
             /\ cfg.otel => x.otel.status = code /\ x.otel.route = w.otel.route
<1>1. CASE cfg.otel
  BY <1>1 DEF OtelWriteHeader, WireWriteHeader, Writers, Layers
<1>2. CASE ~cfg.otel
  BY <1>2 DEF OtelWriteHeader, WireWriteHeader, Writers
<1> QED
  BY <1>1, <1>2 DEF Flags

\* The first status a handler sets reaches the client and every layer that is
\* on, and disturbs neither the stamped route nor the ID headers.
LEMMA FirstStatus ==
  ASSUME cfg \in Flags, NEW w \in Writers, WritersAgree(w), ~w.log.wrote,
         NEW code \in Codes
  PROVE  LET x == WriteHeader(w, code)
         IN  /\ x \in Writers /\ WritersAgree(x)
             /\ x.log.wrote /\ x.log.route = w.log.route /\ x.wire.ids = w.wire.ids
<1> DEFINE x == WriteHeader(w, code)
           v == [w EXCEPT !.log.status = code, !.log.wrote = TRUE]
           u == [v EXCEPT !.metrics.status = code, !.metrics.wrote = TRUE]
<1>0. code # 0 /\ w.wire.status = 0
  BY CodesArePositive DEF WritersAgree, Writers
<1>1. /\ v \in Writers /\ v.metrics = w.metrics /\ v.otel = w.otel /\ v.wire = w.wire
      /\ v.log = [w.log EXCEPT !.status = code, !.wrote = TRUE]
  BY DEF Writers, Layers
<1>2. /\ v.log \in Layers /\ v.log.status = code /\ v.log.wrote /\ v.log.route = w.log.route
  BY <1>1 DEF Writers, Layers
<1>3. x = MetricsWriteHeader(v, code)
  BY DEF WriteHeader
<1> HIDE DEF x, v
<1>4. CASE ~cfg.metrics
  <2>1. x = OtelWriteHeader(v, code)
    BY <1>3, <1>4 DEF MetricsWriteHeader
  <2>2. /\ x \in Writers /\ x.log = v.log /\ x.wire.ids = v.wire.ids /\ x.wire.status = code
        /\ cfg.otel => x.otel.status = code /\ x.otel.route = v.otel.route
    BY <1>0, <1>1, <2>1, StatusPassed
  <2>3. WritersAgree(x)
    BY <1>0, <1>1, <1>2, <1>4, <2>2 DEF WritersAgree
  <2> QED
    BY <1>1, <1>2, <2>2, <2>3 DEF x
<1>5. CASE cfg.metrics
  <2>1. w.metrics = w.log /\ ~v.metrics.wrote
    BY <1>1, <1>5 DEF WritersAgree
  <2>2. /\ u \in Writers /\ u.log = v.log /\ u.otel = v.otel /\ u.wire = v.wire
        /\ u.metrics = [v.metrics EXCEPT !.status = code, !.wrote = TRUE]
    BY <1>1 DEF Writers, Layers
  <2>3. x = OtelWriteHeader(u, code)
    BY <1>3, <1>5, <2>1 DEF MetricsWriteHeader
  <2> HIDE DEF u
  <2>4. u.metrics = u.log
    BY <1>1, <2>1, <2>2
  <2>5. /\ x \in Writers /\ x.log = u.log /\ x.metrics = u.metrics
        /\ x.wire.ids = u.wire.ids /\ x.wire.status = code
        /\ cfg.otel => x.otel.status = code /\ x.otel.route = u.otel.route
    BY <1>0, <1>1, <2>2, <2>3, StatusPassed
  <2>6. WritersAgree(x)
    BY <1>0, <1>1, <1>2, <2>2, <2>4, <2>5 DEF WritersAgree
  <2> QED
    BY <1>1, <1>2, <2>2, <2>5, <2>6 DEF x
<1> QED
  BY <1>4, <1>5 DEF Flags

\* A body without a status is a 200 to the client and to every layer, and after
\* a status it changes nothing.
LEMMA BodyWritten ==
  ASSUME cfg \in Flags, NEW w \in Writers, WritersAgree(w)
  PROVE  LET x == Write(w)
         IN  /\ x \in Writers /\ WritersAgree(x)
             /\ x.log.wrote /\ x.log.route = w.log.route /\ x.wire.ids = w.wire.ids
<1> DEFINE x == Write(w)
<1> USE DEF Flags
<1>0. 200 \in Codes
  BY DEF Codes
<1>1. x \in Writers
  BY <1>0 DEF Writers, Layers, Write, MetricsWrite, WireWriteHeader
<1>2. x.log.wrote /\ x.log.route = w.log.route /\ x.wire.ids = w.wire.ids
  BY DEF Writers, Layers, Write, MetricsWrite, WireWriteHeader
<1>3. WritersAgree(x)
  <2> USE DEF WritersAgree, Writers, Layers, Write, MetricsWrite, WireWriteHeader
  <2>1. /\ x.wire.status = (IF w.log.wrote THEN w.wire.status ELSE 200)
        /\ x.wire.status # 0 /\ x.log.status = x.wire.status
    BY CodesArePositive
  <2>2. x.log = [w.log EXCEPT !.wrote = TRUE]
    OBVIOUS
  <2>3. cfg.metrics => x.metrics = [w.metrics EXCEPT !.wrote = TRUE]
    OBVIOUS
  <2>4. x.otel = w.otel
    OBVIOUS
  <2>5. cfg.metrics => x.metrics = x.log
    BY <2>2, <2>3
  <2>6. cfg.otel => x.otel.status = x.log.status /\ x.otel.route = x.log.route
    BY <2>2, <2>4
  <2> QED
    BY <1>2, <2>1, <2>5, <2>6
<1> QED
  BY <1>1, <1>2, <1>3

\* The stamp of the route reaches every layer that is on and nothing else.
LEMMA RouteStamped ==
  ASSUME cfg \in Flags, NEW w \in Writers, WritersAgree(w), NEW p \in Seq(Tokens)
  PROVE  LET x == SetMatchedRoute(w, p)
         IN  /\ x \in Writers /\ WritersAgree(x)
             /\ x.log.wrote = w.log.wrote /\ x.log.route = p /\ x.wire = w.wire
<1> DEFINE x == SetMatchedRoute(w, p)
<1> USE DEF Flags
<1>1. x \in Writers
  BY DEF Writers, Layers, SetMatchedRoute, MetricsSetMatchedRoute, OtelSetMatchedRoute
<1>2. x.log.wrote = w.log.wrote /\ x.log.route = p /\ x.wire = w.wire
  BY DEF Writers, Layers, SetMatchedRoute, MetricsSetMatchedRoute, OtelSetMatchedRoute
<1>3. WritersAgree(x)
  <2> USE DEF Writers, Layers, SetMatchedRoute, MetricsSetMatchedRoute, OtelSetMatchedRoute
  <2>1. x.log = [w.log EXCEPT !.route = p]
    OBVIOUS
  <2>2. cfg.metrics => x.metrics = [w.metrics EXCEPT !.route = p]
    OBVIOUS
  <2>3. cfg.otel => x.otel = [w.otel EXCEPT !.route = p]
    OBVIOUS
  <2> QED
    BY <1>2, <2>1, <2>2, <2>3 DEF WritersAgree
<1> QED
  BY <1>1, <1>2, <1>3

-----------------------------------------------------------------------------
(***************************************************************************)
(* One request, stage by stage: r before the step, x after it.             *)
(***************************************************************************)

\* A span that is started is open and joins its parent's trace; nothing is
\* started when tracing is off.
LEMMA SpanStarted ==
  ASSUME cfg \in Flags, NEW name \in Names, NEW parent \in SpanContexts \cup {None}
  PROVE  LET sp == StartSpan(name, parent)
         IN  /\ sp \in Spans
             /\ IF cfg.otel
                THEN /\ sp.state = "open" /\ sp.ctx \in SpanContexts
                     /\ parent # None =>
                          sp.parent = parent /\ sp.ctx.trace = parent.trace
                ELSE sp = NoSpan
<1> DEFINE sp == StartSpan(name, parent)
<1>1. NoSpan \in Spans
  BY DEF NoSpan, Spans
<1>2. CASE cfg.otel
  <2> DEFINE c == [trace |-> IF parent = None THEN name ELSE parent.trace, span |-> name]
  <2>1. c \in SpanContexts
    BY DEF SpanContexts
  <2>2. c.trace = IF parent = None THEN name ELSE parent.trace
    OBVIOUS
  <2> HIDE DEF c
  <2>3. sp = [NoSpan EXCEPT !.state = "open", !.parent = parent, !.ctx = c]
    BY <1>2 DEF StartSpan, c
  <2>4. sp = [state |-> "open", ctx |-> c, parent |-> parent, status |-> 0,
              route |-> <<>>, error |-> FALSE]
    BY <2>3 DEF NoSpan
  <2>5. sp \in Spans
    BY <2>1, <2>4 DEF Spans
  <2> QED
    BY <1>2, <2>1, <2>2, <2>4, <2>5
<1>3. CASE ~cfg.otel
  BY <1>1, <1>3 DEF StartSpan
<1> QED
  BY <1>2, <1>3 DEF Flags

\* The way in.
LEMMA EnterInv ==
  ASSUME cfg \in Flags, NEW t \in Requests, NEW r \in RequestSet, ReqInv(r),
         r.stage = "new", NEW m \in Messages,
         NEW i \in IF m.id = NoID THEN newUUID(t) ELSE {m.id},
         NEW x, x = [[r EXCEPT !.in = m, !.id = i, !.w = FreshWriters(<<i>>),
                        !.span = StartSpan(<<"request", t>>, m.trace)]
                       EXCEPT !.stage = "mux"]
  PROVE  x \in RequestSet /\ ReqInv(x)
<1> USE DEF Flags
<1>1. /\ m.trace \in SpanContexts \cup {None} /\ m.id \in Seq(Tokens) \cup {NoID}
  BY MessagesAssumption
<1>2. i \in IDs /\ i # NoID /\ (m.id # NoID => i = m.id)
  BY <1>1, NothingAssumption DEF newUUID, IDs
<1> DEFINE w == FreshWriters(<<i>>)
<1>3. /\ w \in Writers /\ WritersAgree(w)
      /\ ~w.log.wrote /\ w.log.route = <<>> /\ w.wire.ids = <<i>>
  <2>1. 200 \in Codes /\ <<>> \in Seq(Tokens) /\ <<i>> \in Seq(IDs)
    BY <1>2 DEF Codes
  <2>2. w \in Writers
    BY <2>1 DEF FreshWriters, Layer, Writers, Layers
  <2> QED
    BY <2>2 DEF FreshWriters, Layer, WritersAgree
<1> DEFINE sp == StartSpan(<<"request", t>>, m.trace)
<1>4. /\ sp \in Spans
      /\ IF cfg.otel
         THEN /\ sp.state = "open" /\ sp.ctx \in SpanContexts
              /\ m.trace # None => sp.parent = m.trace /\ sp.ctx.trace = m.trace.trace
         ELSE sp = NoSpan
  <2>1. <<"request", t>> \in Names
    BY DEF Names
  <2> QED
    BY <1>1, <2>1, SpanStarted
<1> HIDE DEF w, sp
<1>5. /\ x \in RequestSet
      /\ x.stage = "mux" /\ x.in = m /\ x.id = i /\ x.w = w /\ x.span = sp
      /\ x.sent = r.sent /\ x.child = r.child
  BY <1>2, <1>3, <1>4 DEF RequestSet, Stages, w, sp
<1>6. r.sent = None /\ r.child = NoSpan
  BY DEF ReqInv
<1>7. Entered(x)
  <2>1. <<i>> # <<>> /\ <<i>>[1] = i
    OBVIOUS
  <2> QED
    BY <1>2, <1>3, <1>4, <1>5, <2>1 DEF Entered
<1> QED
  BY <1>3, <1>4, <1>5, <1>6, <1>7 DEF ReqInv, NoSpan

\* What the way in and the hand-over settled stays as long as a step leaves the
\* message, the ID, the route, the first ID header and the span contexts alone.
LEMMA Settled ==
  ASSUME NEW r, NEW x,
         x.in = r.in, x.id = r.id, x.sent = r.sent,
         x.w.log.route = r.w.log.route,
         x.w.wire.ids # <<>>, x.w.wire.ids[1] = r.w.wire.ids[1],
         x.span.ctx = r.span.ctx, x.span.parent = r.span.parent,
         x.child.ctx = r.child.ctx, x.child.parent = r.child.parent
  PROVE  /\ Entered(r) => Entered(x)
         /\ Handed(r) => Handed(x)
<1>1. Entered(r) => Entered(x)
  BY DEF Entered
<1>2. Handed(r) => Handed(x)
  BY DEF Handed, Copied
<1> QED
  BY <1>1, <1>2

\* A handler of the gateway answers.
LEMMA AnswerInv ==
  ASSUME cfg \in Flags, NEW r \in RequestSet, ReqInv(r), r.stage = "mux",
         NEW w \in Writers, WritersAgree(w),
         w.log.wrote, w.log.route = r.w.log.route, w.wire.ids = r.w.wire.ids,
         NEW x, x = [[r EXCEPT !.w = w] EXCEPT !.stage = "return"]
  PROVE  x \in RequestSet /\ ReqInv(x)
<1> USE DEF Flags
<1>1. /\ x \in RequestSet
      /\ x.stage = "return" /\ x.w = w /\ x.in = r.in /\ x.id = r.id
      /\ x.sent = r.sent /\ x.span = r.span /\ x.child = r.child
  BY DEF RequestSet, Stages
<1>2. Entered(r)
  BY DEF ReqInv
<1>3. /\ x.w.wire.ids # <<>> /\ x.w.wire.ids[1] = r.w.wire.ids[1]
      /\ x.w.log.route = r.w.log.route
      /\ x.span.ctx = r.span.ctx /\ x.span.parent = r.span.parent
      /\ x.child.ctx = r.child.ctx /\ x.child.parent = r.child.parent
  BY <1>1, <1>2 DEF Entered
<1>4. Entered(x)
  <2> HIDE DEF Flags
  <2> QED
    BY ONLY <1>1, <1>2, <1>3, Settled
<1>5. r.sent = None
  BY DEF ReqInv
<1> QED
  BY <1>1, <1>4, <1>5 DEF ReqInv

\* The reverse proxy or the transport moves on, and writes what it writes; the
\* upstream span is ended when it leaves "upstream".
LEMMA UpstreamInv ==
  ASSUME cfg \in Flags, NEW r \in RequestSet, ReqInv(r), r.stage \in {"upstream", "body"},
         NEW x \in RequestSet, x.stage \in {"body", "return", "panic"},
         WritersAgree(x.w), x.w.log.wrote, x.w.log.route = r.w.log.route,
         x.w.wire.ids # <<>>, x.w.wire.ids[1] = r.w.wire.ids[1],
         x.child.state # "open", x.child.ctx = r.child.ctx, x.child.parent = r.child.parent,
         x.in = r.in, x.id = r.id, x.sent = r.sent, x.span = r.span
  PROVE  ReqInv(x)
<1> USE DEF Flags
<1>1. Entered(r) /\ r.sent # None /\ Handed(r)
  BY DEF ReqInv
<1>2. Entered(x) /\ Handed(x)
  BY <1>1, Settled
<1> QED
  BY <1>1, <1>2 DEF ReqInv

\* The way out: line, counter and end of span change nothing but the span.
LEMMA ReturnInv ==
  ASSUME cfg \in Flags, NEW r \in RequestSet, ReqInv(r),
         NEW x \in RequestSet,
         \/ r.stage = "return" /\ x.stage = "logged" /\ x.span = r.span
         \/ r.stage = "logged" /\ x.stage = "counted" /\ x.span = r.span
         \/ /\ r.stage = "counted" /\ x.stage = "done" /\ x.span.state # "open"
            /\ cfg.otel =>
                 x.span.status = r.w.otel.status /\ x.span.route = r.w.otel.route
         \/ r.stage = "panic" /\ x.stage = "aborted" /\ x.span.state # "open",
         x.span.ctx = r.span.ctx, x.span.parent = r.span.parent,
         ~cfg.otel => x.span = r.span,
         x.w = r.w, x.child = r.child, x.in = r.in, x.id = r.id, x.sent = r.sent
  PROVE  ReqInv(x)
<1> USE DEF Flags
<1>1. Entered(r)
  BY DEF ReqInv
<1>2. Entered(x) /\ (Handed(r) => Handed(x))
  <2>1. x.w.wire.ids # <<>> /\ x.w.wire.ids[1] = r.w.wire.ids[1]
    BY <1>1 DEF Entered
  <2> QED
    BY <1>1, <2>1, Settled
<1> QED
  BY <1>1, <1>2 DEF ReqInv

\* A dispatch that finds a route yields a configured, non-empty prefix of the
\* path, whichever of the route lists is installed.
LEMMA DispatchFacts ==
  ASSUME NEW rs \in Tables, NEW h, h = New(NewRouter(rs)), NEW path \in Seq(Tokens),
         Matching(h.router, path) # {}
  PROVE  LET d == Dispatch(h, path)
         IN  /\ d.route \in Seq(Tokens) /\ d.backend \in Seq(Tokens)
             /\ d.route # <<>> /\ HasPrefix(path, d.route)
             /\ d.route \in ConfiguredPrefixes
<1> DEFINE d == Dispatch(h, path)
<1>1. rs \in Seq(RouteSet(Tokens)) /\ ValidRoutes(rs)
  BY RouteListsAssumption
<1>2. h.router = NewRouter(rs)
  BY DEF New
<1>3. /\ \E i \in DOMAIN rs : d.route = rs[i].prefix /\ d.backend = rs[i].backend
      /\ HasPrefix(path, d.route)
  BY <1>1, <1>2, DispatchConfigured
<1> HIDE DEF d
<1>4. PICK i \in DOMAIN rs : d.route = rs[i].prefix /\ d.backend = rs[i].backend
  BY <1>3
<1>5. rs[i] \in RouteSet(Tokens) /\ rs[i].prefix # <<>>
  BY <1>1 DEF ValidRoutes
<1>6. d.route \in Seq(Tokens) /\ d.backend \in Seq(Tokens) /\ d.route # <<>>
  BY <1>4, <1>5 DEF RouteSet
<1>7. d.route \in ConfiguredPrefixes
  BY <1>4 DEF ConfiguredPrefixes, RoutePrefixes
<1> QED
  BY <1>3, <1>6, <1>7 DEF d

\* The hand-over to a backend.
LEMMA ForwardInv ==
  ASSUME cfg \in Flags, NEW t \in Requests, NEW r \in RequestSet, ReqInv(r),
         r.stage = "mux", r.in.path \notin Mounted, Canonical(r.in),
         NEW d, d.route \in Seq(Tokens), d.backend \in Seq(Tokens), d.route # <<>>,
         HasPrefix(r.in.path, d.route), d.route \in ConfiguredPrefixes,
         NEW child, child = StartSpan(<<"upstream", t>>, r.span.ctx),
         NEW x, x = [[r EXCEPT !.w = SetMatchedRoute(@, d.route), !.child = child,
                        !.sent = [backend |-> d.backend, route |-> d.route,
                                  id |-> Copied(r, "id", OutboundID(r), NoID),
                                  trace |-> Inject(r, child)]]
                       EXCEPT !.stage = "upstream"]
  PROVE  x \in RequestSet /\ ReqInv(x)
<1> USE DEF Flags
<1> DEFINE w == SetMatchedRoute(r.w, d.route)
           out == [backend |-> d.backend, route |-> d.route,
                   id |-> Copied(r, "id", OutboundID(r), NoID),
                   trace |-> Inject(r, child)]
<1>1. Entered(r) /\ ~r.w.log.wrote /\ WritersAgree(r.w)
  BY DEF ReqInv
<1>2. r.w \in Writers
  BY DEF RequestSet
<1>3. /\ w \in Writers /\ WritersAgree(w)
      /\ ~w.log.wrote /\ w.log.route = d.route /\ w.wire = r.w.wire
  BY <1>1, <1>2, RouteStamped
<1> HIDE DEF w
<1>4. /\ r.span.ctx \in SpanContexts \cup {None}
      /\ cfg.otel => r.span.ctx \in SpanContexts /\ r.span.ctx # None
  BY <1>1, NothingAssumption DEF Entered, RequestSet, Spans
<1>5. /\ child \in Spans
      /\ IF cfg.otel
         THEN /\ child.state = "open" /\ child.ctx \in SpanContexts
              /\ child.parent = r.span.ctx /\ child.ctx.trace = r.span.ctx.trace
         ELSE child = NoSpan
  <2>1. <<"upstream", t>> \in Names
    BY DEF Names
  <2> QED
    BY <1>4, <2>1, SpanStarted
<1>6. /\ Copied(r, "id", OutboundID(r), NoID) = Copied(r, "id", r.id, NoID)
      /\ Copied(r, "id", r.id, NoID) \in IDs
  <2>1. OutboundID(r) = r.id /\ r.id \in IDs
    BY <1>1 DEF OutboundID, CorrelationIDFromContext, Entered, RequestSet
  <2> QED
    BY <2>1 DEF Copied, IDs
<1>7. /\ Inject(r, child) =
           IF cfg.otel THEN child.ctx ELSE Copied(r, "trace", r.in.trace, None)
      /\ Inject(r, child) \in SpanContexts \cup {None}
  <2>1. r.in.trace \in SpanContexts \cup {None}
    BY <1>1, MessagesAssumption DEF Entered
  <2> QED
    BY <1>5, <2>1 DEF Inject, Copied
<1>8. /\ out \in Outbound
      /\ out.route = d.route /\ out.id = Copied(r, "id", r.id, NoID)
      /\ out.trace = Inject(r, child)
  BY <1>6, <1>7 DEF Outbound
<1> HIDE DEF out
<1>9. out # None
  BY <1>8, NothingAssumption
<1>10. x = [[r EXCEPT !.w = w, !.child = child, !.sent = out] EXCEPT !.stage = "upstream"]
  BY DEF w, out
<1>11. /\ x \in RequestSet
       /\ x.stage = "upstream" /\ x.w = w /\ x.in = r.in /\ x.id = r.id
       /\ x.sent = out /\ x.span = r.span /\ x.child = child
  BY <1>3, <1>5, <1>8, <1>10 DEF RequestSet, Stages
<1>12. Entered(x)
  BY <1>1, <1>3, <1>11 DEF Entered
<1>13. Handed(x)
  BY <1>3, <1>5, <1>7, <1>8, <1>11 DEF Handed, Copied
<1>14. /\ x.span.state = "open" <=> cfg.otel
       /\ ~cfg.otel => x.span = NoSpan /\ x.child.state # "open"
  BY <1>5, <1>11 DEF ReqInv, NoSpan
<1> QED
  BY <1>3, <1>9, <1>11, <1>12, <1>13, <1>14 DEF ReqInv

-----------------------------------------------------------------------------
(***************************************************************************)
(* A step replaces one request's record and leaves the others alone.       *)
(***************************************************************************)

\* The flags never change, so the invariant of a record does not either.
LEMMA ReqInvFrame ==
  ASSUME cfg' = cfg, NEW s \in Requests, ReqInv(req'[s])
  PROVE  ReqInv(req[s])'
  BY DEF ReqInv, WritersAgree, Entered, Handed, Mounted, Canonical, Clean, Copied,
         NoSpan

\* Every record is right after a step that puts one that is right in one place.
LEMMA ReqFrame ==
  ASSUME TypeInv, \A s \in Requests : ReqInv(req[s]), cfg' = cfg,
         NEW t \in Requests, NEW x \in RequestSet, ReqInv(x),
         req' = [req EXCEPT ![t] = x]
  PROVE  /\ req' \in [Requests -> RequestSet]
         /\ (\A s \in Requests : ReqInv(req[s]))'
<1>1. req' \in [Requests -> RequestSet]
  BY DEF TypeInv
<1>2. ASSUME NEW s \in Requests PROVE ReqInv(req[s])'
  <2>1. req'[s] = x \/ req'[s] = req[s]
    BY DEF TypeInv
  <2>2. ReqInv(req'[s])
    BY <2>1
  <2> QED
    BY <2>2, ReqInvFrame
<1> QED
  BY <1>1, <1>2

\* The log is still right after a step that does not touch it, if the request
\* is no more and no less logged than before and its line would be the same.
LEMMA LogFrame ==
  ASSUME TypeInv, LogInv, NEW t \in Requests, NEW x,
         req' = [req EXCEPT ![t] = x], log' = log,
         x.stage \in Recorded <=> req[t].stage \in Recorded,
         x.stage \in Recorded =>
           /\ x.in = req[t].in /\ x.id = req[t].id
           /\ x.w = req[t].w /\ x.span.ctx = req[t].span.ctx
  PROVE  LogInv'
<1>1. \A s \in Requests : req'[s] = IF s = t THEN x ELSE req[s]
  BY DEF TypeInv
<1>2. ASSUME NEW i \in DOMAIN log
      PROVE  /\ log[i].req \in Requests /\ req'[log[i].req].stage \in Recorded
             /\ log[i] = LineOf(log[i].req)'
  <2>1. /\ log[i].req \in Requests /\ req[log[i].req].stage \in Recorded
        /\ log[i] = LineOf(log[i].req)
    BY DEF LogInv
  <2>2. PICK s \in Requests : s = log[i].req
    BY <2>1
  <2>3. LineOf(s)' = LineOf(s)
    BY <1>1, <2>1, <2>2 DEF LineOf, CorrelationIDFromContext
  <2>4. LineOf(log[i].req)' = LineOf(s)'
    BY <2>2
  <2> QED
    BY <1>1, <2>1, <2>2, <2>3, <2>4
<1>3. \A s \in Requests : req'[s].stage \in Recorded => Lines(s)' # {}
  BY <1>1 DEF LogInv, Lines
<1>4. \A i, j \in DOMAIN log' : log'[i].req = log'[j].req => i = j
  BY DEF LogInv
<1> QED
  BY <1>2, <1>3, <1>4 DEF LogInv

\* Neither the log nor the counter is touched, and no request crosses the line
\* between them.
LEMMA MetricsFrame ==
  ASSUME TypeInv, LogInv, MetricsMatchLog, NEW t \in Requests, NEW x,
         req' = [req EXCEPT ![t] = x], log' = log, counts' = counts, cfg' = cfg,
         x.stage \in {"counted", "done"} <=> req[t].stage \in {"counted", "done"}
  PROVE  MetricsMatchLog'
<1>1. \A s \in Requests : req'[s] = IF s = t THEN x ELSE req[s]
  BY DEF TypeInv
<1>2. \A i \in DOMAIN log : log[i].req \in Requests
  BY DEF LogInv
<1>3. Counted' = Counted
  BY <1>1, <1>2 DEF Counted
<1> QED
  BY <1>3 DEF MetricsMatchLog, Labels, BagToSet

\* What is left to show for a step that touches neither log nor counter.
LEMMA QuietStep ==
  ASSUME IndInv, NEW t \in Requests, NEW x \in RequestSet, ReqInv(x),
         req' = [req EXCEPT ![t] = x], UNCHANGED <<cfg, log, counts>>,
         \E rs \in Tables : handler' = New(NewRouter(rs)),
         x.stage \in Recorded <=> req[t].stage \in Recorded,
         x.stage \in {"counted", "done"} <=> req[t].stage \in {"counted", "done"},
         x.stage \in Recorded =>
           /\ x.in = req[t].in /\ x.id = req[t].id
           /\ x.w = req[t].w /\ x.span.ctx = req[t].span.ctx
  PROVE  IndInv'
<1> USE DEF IndInv
<1>1. /\ req' \in [Requests -> RequestSet]
      /\ (\A s \in Requests : ReqInv(req[s]))'
  BY ReqFrame
<1>2. LogInv'
  BY LogFrame
<1>3. MetricsMatchLog'
  BY MetricsFrame
<1>4. TypeInv'
  BY <1>1 DEF TypeInv, IsABag
<1> QED
  BY <1>1, <1>2, <1>3, <1>4

-----------------------------------------------------------------------------
(***************************************************************************)
(* The steps.                                                              *)
(***************************************************************************)
\* What the invariant says of one request.
LEMMA Facts ==
  ASSUME IndInv, NEW t \in Requests
  PROVE  /\ cfg \in Flags /\ req[t] \in RequestSet /\ ReqInv(req[t])
         /\ req[t].w \in Writers /\ WritersAgree(req[t].w)
         /\ req[t].child \in Spans /\ req[t].span \in Spans
         /\ \E rs \in Tables : handler = New(NewRouter(rs))
<1>1. /\ cfg \in Flags /\ req[t] \in RequestSet /\ ReqInv(req[t])
      /\ \E rs \in Tables : handler = New(NewRouter(rs))
  BY DEF IndInv, TypeInv, Flags
<1> QED
  BY <1>1 DEF RequestSet, ReqInv

\* CorrelationID and the way in.
LEMMA EnterStep ==
  ASSUME IndInv, NEW t \in Requests, NEW m \in Messages, Enter(t, m)
  PROVE  IndInv'
<1>1. PICK i \in IF m.id = NoID THEN newUUID(t) ELSE {m.id} :
        /\ Goto(t, "new", "mux",
            [req[t] EXCEPT !.in = m, !.id = i, !.w = FreshWriters(<<i>>),
                           !.span = StartSpan(<<"request", t>>, m.trace)])
        /\ SharedUnchanged
  BY DEF Enter
<1> DEFINE x == [[req[t] EXCEPT !.in = m, !.id = i, !.w = FreshWriters(<<i>>),
                    !.span = StartSpan(<<"request", t>>, m.trace)]
                   EXCEPT !.stage = "mux"]
<1>2. req[t].stage = "new" /\ req' = [req EXCEPT ![t] = x]
  BY <1>1 DEF Goto
<1>3. x \in RequestSet /\ ReqInv(x)
  BY <1>2, EnterInv, Facts
<1>4. x.stage = "mux"
  BY Facts DEF RequestSet
<1> HIDE DEF x
<1> QED
  BY <1>1, <1>2, <1>3, <1>4, QuietStep, Facts DEF SharedUnchanged, Recorded

\* A handler of the gateway answers through the writers, whichever it is.
LEMMA AnswerStep ==
  ASSUME IndInv, NEW t \in Requests, NEW w, Answer(t, w),
         \E rs \in Tables : handler' = New(NewRouter(rs)),
         \/ w = Write(req[t].w)
         \/ \E code \in Codes : w = Respond(req[t].w, code)
  PROVE  IndInv'
<1> DEFINE x == [[req[t] EXCEPT !.w = w] EXCEPT !.stage = "return"]
<1>1. req[t].stage = "mux" /\ req' = [req EXCEPT ![t] = x] /\ UNCHANGED <<cfg, log, counts>>
  BY DEF Answer, Goto
<1>2. ~req[t].w.log.wrote
  BY <1>1, Facts DEF ReqInv
<1>3. /\ w \in Writers /\ WritersAgree(w)
      /\ w.log.wrote /\ w.log.route = req[t].w.log.route /\ w.wire.ids = req[t].w.wire.ids
  <2>1. CASE w = Write(req[t].w)
    BY <2>1, BodyWritten, Facts
  <2>2. ASSUME NEW code \in Codes, w = Respond(req[t].w, code)
        PROVE  <1>3!:
    <3> DEFINE y == WriteHeader(req[t].w, code)
    <3>1. /\ y \in Writers /\ WritersAgree(y)
          /\ y.log.route = req[t].w.log.route /\ y.wire.ids = req[t].w.wire.ids
      BY <1>2, FirstStatus, Facts
    <3>2. w = Write(y)
      BY <2>2 DEF Respond
    <3> HIDE DEF y
    <3> QED
      BY <3>1, <3>2, BodyWritten, Facts
  <2> QED
    BY <2>1, <2>2
<1>4. x \in RequestSet /\ ReqInv(x)
  BY <1>1, <1>3, AnswerInv, Facts
<1>5. x.stage = "return"
  BY Facts DEF RequestSet
<1> HIDE DEF x
<1> QED
  BY <1>1, <1>4, <1>5, QuietStep DEF Recorded

\* The mux and the gateway's own handlers.
LEMMA OwnHandlers ==
  ASSUME IndInv, NEW t \in Requests,
         \/ Redirect(t) \/ Healthz(t) \/ Readyz(t) \/ MetricsPage(t)
         \/ AdminRefuse(t) \/ AdminReport(t) \/ NotFound(t)
  PROVE  IndInv'
<1>1. handler' = handler
  BY DEF Redirect, Healthz, Readyz, MetricsPage, AdminRefuse, AdminReport, NotFound
<1>2. \E rs \in Tables : handler' = New(NewRouter(rs))
  BY <1>1, Facts
<1>3. \/ \E code \in Codes : Answer(t, Respond(req[t].w, code))
      \/ Answer(t, Write(req[t].w))
  BY DEF Redirect, Healthz, Readyz, MetricsPage, AdminRefuse, AdminReport, NotFound, Codes
<1>4. CASE Answer(t, Write(req[t].w))
  BY <1>2, <1>4, AnswerStep
<1>5. ASSUME NEW code \in Codes, Answer(t, Respond(req[t].w, code)) PROVE IndInv'
  BY <1>2, <1>5, AnswerStep
<1> QED
  BY <1>3, <1>4, <1>5

\* A POST to the admin endpoint installs one of the accepted lists.
LEMMA ReplaceStep ==
  ASSUME IndInv, NEW t \in Requests, AdminReplace(t)
  PROVE  IndInv'
<1>1. \E rs \in Tables : handler' = New(NewRouter(rs))
  BY DEF AdminReplace, Tables
<1>2. Answer(t, Write(req[t].w))
  BY DEF AdminReplace
<1> QED
  BY <1>1, <1>2, AnswerStep

\* The match, the stamp and the hand-over.
LEMMA ForwardStep ==
  ASSUME IndInv, NEW t \in Requests, Forward(t)
  PROVE  IndInv'
<1> DEFINE r == req[t]
           d == Dispatch(handler, r.in.path)
           child == StartSpan(<<"upstream", t>>, r.span.ctx)
           x == [[r EXCEPT !.w = SetMatchedRoute(@, d.route), !.child = child,
                    !.sent = [backend |-> d.backend, route |-> d.route,
                              id |-> Copied(r, "id", OutboundID(r), NoID),
                              trace |-> Inject(r, child)]]
                   EXCEPT !.stage = "upstream"]
<1>1. /\ r.stage = "mux" /\ r.in.path \notin Mounted /\ Canonical(r.in)
      /\ Matching(handler.router, r.in.path) # {}
      /\ req' = [req EXCEPT ![t] = x] /\ SharedUnchanged
  BY DEF Forward, AtCatchAll, Goto
<1>2. r.in.path \in Seq(Tokens)
  BY <1>1, Facts, MessagesAssumption DEF ReqInv, Entered
<1>3. /\ d.route \in Seq(Tokens) /\ d.backend \in Seq(Tokens) /\ d.route # <<>>
      /\ HasPrefix(r.in.path, d.route) /\ d.route \in ConfiguredPrefixes
  BY <1>1, <1>2, Facts, DispatchFacts
<1> HIDE DEF d
<1>4. x \in RequestSet /\ ReqInv(x)
  BY <1>1, <1>3, Facts, ForwardInv
<1>5. x.stage = "upstream"
  BY Facts DEF RequestSet
<1> HIDE DEF x
<1> QED
  BY <1>1, <1>4, <1>5, QuietStep, Facts DEF SharedUnchanged, Recorded

\* The upstream span is ended, or never was, when the call is over.
LEMMA ChildEnded ==
  ASSUME cfg \in Flags, NEW r \in RequestSet, ReqInv(r),
         NEW status \in Codes \cup {0, 101}, NEW error \in BOOLEAN
  PROVE  LET c == EndChild(r.child, status, error)
         IN  /\ c \in Spans /\ c.state # "open"
             /\ c.ctx = r.child.ctx /\ c.parent = r.child.parent
<1> DEFINE c == EndChild(r.child, status, error)
<1>1. r.child \in Spans
  BY DEF RequestSet
<1>2. CASE cfg.otel
  BY <1>1, <1>2 DEF EndChild, Spans
<1>3. CASE ~cfg.otel
  BY <1>1, <1>3 DEF EndChild, ReqInv
<1> QED
  BY <1>2, <1>3 DEF Flags

\* A step of the reverse proxy: a status or a body is written.
LEMMA UpstreamStep ==
  ASSUME IndInv, NEW t \in Requests, req[t].stage \in {"upstream", "body"},
         NEW w \in Writers, WritersAgree(w), w.log.wrote,
         w.log.route = req[t].w.log.route,
         w.wire.ids # <<>>, w.wire.ids[1] = req[t].w.wire.ids[1],
         NEW c \in Spans, c.state # "open",
         c.ctx = req[t].child.ctx, c.parent = req[t].child.parent,
         NEW to \in {"body", "return", "panic"}, SharedUnchanged,
         req' = [req EXCEPT ![t] = [[req[t] EXCEPT !.child = c, !.w = w] EXCEPT !.stage = to]]
  PROVE  IndInv'
<1> DEFINE x == [[req[t] EXCEPT !.child = c, !.w = w] EXCEPT !.stage = to]
<1>1. /\ x \in RequestSet
      /\ x.stage = to /\ x.w = w /\ x.child = c /\ x.in = req[t].in
      /\ x.id = req[t].id /\ x.sent = req[t].sent /\ x.span = req[t].span
  BY Facts DEF RequestSet, Stages
<1>r. req' = [req EXCEPT ![t] = x]
  OBVIOUS
<1> HIDE DEF x
<1>2. ReqInv(x)
  BY <1>1, Facts, UpstreamInv
<1> QED
  BY <1>1, <1>r, <1>2, QuietStep, Facts DEF SharedUnchanged, Recorded

\* The backend's status and headers are passed on.
LEMMA BackendReplyStep ==
  ASSUME IndInv, NEW t \in Requests, BackendReply(t)
  PROVE  IndInv'
<1>1. PICK code \in BackendCodes, echo \in {<<>>, <<BackendID>>} :
        /\ Goto(t, "upstream", "body",
            [req[t] EXCEPT !.child = EndChild(@, code, code >= 500),
               !.w = WriteHeader(AddIDs(@, echo), code)])
        /\ SharedUnchanged
  BY DEF BackendReply
<1> DEFINE v == AddIDs(req[t].w, echo)
           w == WriteHeader(v, code)
           c == EndChild(req[t].child, code, code >= 500)
           x == [[req[t] EXCEPT !.child = c, !.w = w] EXCEPT !.stage = "body"]
<1>2. req[t].stage = "upstream" /\ req' = [req EXCEPT ![t] = x]
  BY <1>1 DEF Goto
<1>3. code \in Codes /\ (code >= 500) \in BOOLEAN
  BY DEF Codes
<1>4. /\ req[t].w.wire.ids \in Seq(IDs) /\ req[t].w.wire.ids # <<>>
      /\ ~req[t].w.log.wrote
  BY <1>2, Facts DEF ReqInv, Entered, Writers
<1>5. echo \in Seq(IDs)
  <2>1. BackendID \in IDs
    BY DEF IDs
  <2>2. <<BackendID>> \in Seq(IDs)
    BY <2>1
  <2>3. <<>> \in Seq(IDs)
    OBVIOUS
  <2> QED
    BY <2>2, <2>3
<1> DEFINE ids == req[t].w.wire.ids \o echo
<1>6. ids \in Seq(IDs) /\ ids # <<>> /\ ids[1] = req[t].w.wire.ids[1]
  BY <1>4, <1>5
<1>7. /\ v \in Writers /\ WritersAgree(v) /\ ~v.log.wrote
      /\ v.log.route = req[t].w.log.route /\ v.wire.ids = ids
  <2> HIDE DEF ids
  <2>1. v = [req[t].w EXCEPT !.wire.ids = ids]
    BY DEF ids, AddIDs
  <2> HIDE DEF v
  <2>2. /\ v \in Writers /\ v.log = req[t].w.log /\ v.metrics = req[t].w.metrics
        /\ v.otel = req[t].w.otel /\ v.wire.status = req[t].w.wire.status
        /\ v.wire.ids = ids
    BY <1>6, <2>1, Facts DEF Writers
  <2> QED
    BY <1>4, <2>2, Facts DEF WritersAgree
<1> HIDE DEF v, ids
<1>8. /\ w \in Writers /\ WritersAgree(w) /\ w.log.wrote
      /\ w.log.route = req[t].w.log.route /\ w.wire.ids = ids
  BY <1>3, <1>7, Facts, FirstStatus
<1>9. /\ c \in Spans /\ c.state # "open"
      /\ c.ctx = req[t].child.ctx /\ c.parent = req[t].child.parent
  <2>1. PICK error \in BOOLEAN : error = (code >= 500)
    BY <1>3, Zenon
  <2>2. c = EndChild(req[t].child, code, error)
    BY <2>1, Zenon
  <2> HIDE DEF c
  <2> QED
    BY <1>3, <2>2, Facts, ChildEnded
<1> HIDE DEF w, c
<1> QED
  BY <1>1, <1>2, <1>6, <1>8, <1>9, UpstreamStep

\* A call that failed, or an upgrade, is answered 502.
LEMMA BadGatewayStep ==
  ASSUME IndInv, NEW t \in Requests, BackendFail(t) \/ BackendUpgrade(t)
  PROVE  IndInv'
<1>1. PICK status \in {0, 101}, error \in BOOLEAN : BadGateway(t, status, error)
  BY DEF BackendFail, BackendUpgrade
<1> DEFINE w == WriteHeader(req[t].w, 502)
           c == EndChild(req[t].child, status, error)
           x == [[req[t] EXCEPT !.child = c, !.w = w] EXCEPT !.stage = "return"]
<1>2. req[t].stage = "upstream" /\ req' = [req EXCEPT ![t] = x] /\ SharedUnchanged
  BY <1>1 DEF BadGateway, Goto
<1>3. ~req[t].w.log.wrote /\ req[t].w.wire.ids # <<>> /\ 502 \in Codes
  BY <1>2, Facts DEF ReqInv, Entered, Codes
<1>4. /\ w \in Writers /\ WritersAgree(w) /\ w.log.wrote
      /\ w.log.route = req[t].w.log.route /\ w.wire.ids = req[t].w.wire.ids
  BY <1>3, Facts, FirstStatus
<1>5. /\ c \in Spans /\ c.state # "open"
      /\ c.ctx = req[t].child.ctx /\ c.parent = req[t].child.parent
  BY Facts, ChildEnded
<1> HIDE DEF w, c
<1> QED
  BY <1>2, <1>3, <1>4, <1>5, UpstreamStep

\* The body is copied, or the copy panics.
LEMMA BodyStep ==
  ASSUME IndInv, NEW t \in Requests, BodyDone(t) \/ BodyAbort(t)
  PROVE  IndInv'
<1> DEFINE w == Write(req[t].w)
<1>1. PICK to \in {"return", "panic"} :
        /\ req[t].stage = "body"
        /\ req' = [req EXCEPT ![t] = [[req[t] EXCEPT !.w = w] EXCEPT !.stage = to]]
        /\ SharedUnchanged
  BY DEF BodyDone, BodyAbort, Goto
<1>2. /\ w \in Writers /\ WritersAgree(w) /\ w.log.wrote
      /\ w.log.route = req[t].w.log.route /\ w.wire.ids = req[t].w.wire.ids
  BY Facts, BodyWritten
<1>3. req[t].w.wire.ids # <<>> /\ req[t].child.state # "open"
  BY <1>1, Facts DEF ReqInv, Entered
<1> HIDE DEF w
<1>4. PICK c \in Spans : c = req[t].child
  BY Facts
<1> DEFINE x == [[req[t] EXCEPT !.child = c, !.w = w] EXCEPT !.stage = to]
<1>5. [[req[t] EXCEPT !.w = w] EXCEPT !.stage = to] = x
  BY <1>4, Facts DEF RequestSet
<1>6. req' = [req EXCEPT ![t] = x]
  BY <1>1, <1>5
<1>7. /\ c.state # "open" /\ c.ctx = req[t].child.ctx /\ c.parent = req[t].child.parent
  BY <1>3, <1>4
<1>8. /\ req[t].stage \in {"upstream", "body"} /\ SharedUnchanged
      /\ to \in {"body", "return", "panic"}
      /\ w \in Writers /\ WritersAgree(w) /\ w.log.wrote
      /\ w.log.route = req[t].w.log.route
      /\ w.wire.ids # <<>> /\ w.wire.ids[1] = req[t].w.wire.ids[1]
  BY <1>1, <1>2, <1>3
<1> QED
  BY <1>6, <1>7, <1>8, UpstreamStep

\* The tracing middleware ends the request's span.
LEMMA EndSpanStep ==
  ASSUME IndInv, NEW t \in Requests, EndSpan(t)
  PROVE  IndInv'
<1> DEFINE w == req[t].w.otel
           sp == IF cfg.otel
                 THEN [req[t].span EXCEPT !.state = "ended", !.route = w.route,
                         !.status = w.status, !.error = w.status >= 500]
                 ELSE req[t].span
<1>1. /\ req[t].stage = "counted" /\ SharedUnchanged
      /\ req' = [req EXCEPT ![t] =
           [(IF cfg.otel
             THEN [req[t] EXCEPT !.span = [@ EXCEPT !.state = "ended", !.route = w.route,
                                             !.status = w.status, !.error = w.status >= 500]]
             ELSE req[t]) EXCEPT !.stage = "done"]]
  BY DEF EndSpan, Goto
<1>2. w.status \in Codes /\ w.route \in Seq(Tokens)
  BY Facts DEF Writers, Layers
<1>3. PICK error \in BOOLEAN : error = (w.status >= 500)
  <2>1. (w.status >= 500) \in BOOLEAN
    OBVIOUS
  <2> QED
    BY <2>1, Zenon
<1>4. /\ sp \in Spans /\ sp.state # "open"
      /\ sp.ctx = req[t].span.ctx /\ sp.parent = req[t].span.parent
      /\ cfg.otel => sp.status = w.status /\ sp.route = w.route
      /\ ~cfg.otel => sp = req[t].span
  <2>1. CASE cfg.otel
    <3>1. sp = [req[t].span EXCEPT !.state = "ended", !.route = w.route,
                  !.status = w.status, !.error = error]
      BY <1>3, <2>1
    <3>2. req[t].span \in Spans
      BY Facts
    <3> HIDE DEF w, sp
    <3>3. sp \in Spans
      BY <1>2, <3>1, <3>2 DEF Spans
    <3>4. /\ sp.state = "ended" /\ sp.status = w.status /\ sp.route = w.route
          /\ sp.ctx = req[t].span.ctx /\ sp.parent = req[t].span.parent
      BY <3>1, <3>2 DEF Spans
    <3> QED
      BY <2>1, <3>3, <3>4
  <2>2. CASE ~cfg.otel
    BY <2>2, Facts DEF ReqInv
  <2> QED
    BY <2>1, <2>2
<1> DEFINE x == [[req[t] EXCEPT !.span = sp] EXCEPT !.stage = "done"]
<1>5. req' = [req EXCEPT ![t] = x]
  <2>1. CASE cfg.otel
    BY <1>1, <2>1
  <2>2. CASE ~cfg.otel
    <3>1. [req[t] EXCEPT !.span = req[t].span] = req[t]
      BY Facts DEF RequestSet
    <3> QED
      BY <1>1, <2>2, <3>1
  <2> QED
    BY <2>1, <2>2
<1> HIDE DEF sp
<1>6. /\ x \in RequestSet /\ x.stage = "done" /\ x.span = sp
      /\ x.w = req[t].w /\ x.child = req[t].child /\ x.in = req[t].in
      /\ x.id = req[t].id /\ x.sent = req[t].sent
  BY <1>4, Facts DEF RequestSet, Stages, Recorded
<1> HIDE DEF x
<1>7. ReqInv(x)
  BY <1>1, <1>4, <1>6, Facts, ReturnInv
<1> QED
  BY <1>1, <1>4, <1>5, <1>6, <1>7, QuietStep, Facts DEF SharedUnchanged, Recorded

\* A panic ends the request's span and nothing else.
LEMMA UnwindStep ==
  ASSUME IndInv, NEW t \in Requests, Unwind(t)
  PROVE  IndInv'
<1> DEFINE sp == IF cfg.otel THEN [req[t].span EXCEPT !.state = "ended"] ELSE req[t].span
           x == [[req[t] EXCEPT !.span = sp] EXCEPT !.stage = "aborted"]
<1>1. /\ req[t].stage = "panic" /\ SharedUnchanged
      /\ req' = [req EXCEPT ![t] =
           [(IF cfg.otel THEN [req[t] EXCEPT !.span.state = "ended"] ELSE req[t])
              EXCEPT !.stage = "aborted"]]
  BY DEF Unwind, Goto
<1>2. /\ sp \in Spans /\ sp.state # "open"
      /\ sp.ctx = req[t].span.ctx /\ sp.parent = req[t].span.parent
      /\ ~cfg.otel => sp = req[t].span
  <2>1. CASE cfg.otel
    BY <2>1, Facts DEF Spans
  <2>2. CASE ~cfg.otel
    BY <2>2, Facts DEF ReqInv
  <2> QED
    BY <2>1, <2>2
<1>3. req' = [req EXCEPT ![t] = x]
  <2>1. CASE cfg.otel
    <3>1. [req[t] EXCEPT !.span.state = "ended"] = [req[t] EXCEPT !.span = sp]
      BY <2>1, Facts DEF RequestSet
    <3> QED
      BY <1>1, <2>1, <3>1
  <2>2. CASE ~cfg.otel
    <3>1. [req[t] EXCEPT !.span = req[t].span] = req[t]
      BY Facts DEF RequestSet
    <3> QED
      BY <1>1, <2>2, <3>1
  <2> QED
    BY <2>1, <2>2
<1> HIDE DEF sp
<1>4. /\ x \in RequestSet /\ x.stage = "aborted" /\ x.span = sp
      /\ x.w = req[t].w /\ x.child = req[t].child /\ x.in = req[t].in
      /\ x.id = req[t].id /\ x.sent = req[t].sent
  BY <1>2, Facts DEF RequestSet, Stages
<1> HIDE DEF x
<1>5. ReqInv(x)
  BY <1>1, <1>2, <1>4, Facts, ReturnInv
<1> QED
  BY <1>1, <1>3, <1>4, <1>5, QuietStep, Facts DEF SharedUnchanged, Recorded

\* The request that returns gets its line, its first, behind all the others.
LEMMA LogLineStep ==
  ASSUME IndInv, NEW t \in Requests, LogLine(t)
  PROVE  IndInv'
<1> DEFINE x == [req[t] EXCEPT !.stage = "logged"]
           n == Len(log) + 1
<1>1. /\ req[t].stage = "return" /\ req' = [req EXCEPT ![t] = x]
      /\ log' = Append(log, LineOf(t)) /\ UNCHANGED <<cfg, handler, counts>>
  BY DEF LogLine, Goto
<1>2. /\ x \in RequestSet /\ x.stage = "logged" /\ x.span = req[t].span
      /\ x.w = req[t].w /\ x.child = req[t].child /\ x.in = req[t].in
      /\ x.id = req[t].id /\ x.sent = req[t].sent
  BY Facts DEF RequestSet, Stages, Recorded
<1> HIDE DEF x
<1>3. ReqInv(x)
  BY <1>1, <1>2, Facts, ReturnInv
<1>4. /\ req' \in [Requests -> RequestSet]
      /\ (\A s \in Requests : ReqInv(req[s]))'
  BY <1>1, <1>2, <1>3, ReqFrame DEF IndInv
<1>5. \A s \in Requests : req'[s] = IF s = t THEN x ELSE req[s]
  BY <1>1 DEF IndInv, TypeInv
<1>6. LineOf(t) \in [req : Requests, method : STRING, status : Codes, route : Seq(Tokens),
                     id : IDs, trace : SpanContexts \cup {None}]
  <2>1. req[t].in \in Messages
    BY <1>1, Facts DEF ReqInv, Entered
  <2>2. req[t].in.method \in STRING
    BY <2>1, MessagesAssumption
  <2>3. req[t].w.log.status \in Codes /\ req[t].w.log.route \in Seq(Tokens)
    BY Facts DEF Writers, Layers
  <2>4. req[t].id \in IDs /\ req[t].span.ctx \in SpanContexts \cup {None}
    BY Facts DEF RequestSet, Spans
  <2> QED
    BY <2>2, <2>3, <2>4 DEF LineOf, CorrelationIDFromContext
<1>7. TypeInv'
  BY <1>1, <1>4, <1>6 DEF IndInv, TypeInv, IsABag
<1>8. /\ n \notin DOMAIN log /\ DOMAIN log' = DOMAIN log \cup {n}
      /\ log'[n] = LineOf(t)
      /\ \A i \in DOMAIN log : log'[i] = log[i]
  BY <1>1, <1>6 DEF IndInv, TypeInv
<1>9. /\ LineOf(t)' = LineOf(t) /\ LineOf(t).req = t
      /\ \A s \in Requests \ {t} : LineOf(s)' = LineOf(s)
  BY <1>2, <1>5 DEF LineOf, CorrelationIDFromContext
<1>10. \A i \in DOMAIN log : log[i].req \in Requests \ {t}
  BY <1>1 DEF IndInv, LogInv, Recorded
<1>11. LogInv'
  <2>1. ASSUME NEW i \in DOMAIN log'
        PROVE  /\ log'[i].req \in Requests /\ req'[log'[i].req].stage \in Recorded
               /\ log'[i] = LineOf(log[i].req)'
    <3>1. CASE i = n
      <4>1. log'[i].req = t
        BY <1>8, <1>9, <3>1
      <4>2. LineOf(log[i].req)' = LineOf(t)'
        BY <4>1
      <4> QED
        BY <1>2, <1>5, <1>8, <1>9, <3>1, <4>1, <4>2 DEF Recorded
    <3>2. CASE i \in DOMAIN log
      <4>1. PICK s \in Requests \ {t} : s = log[i].req
        BY <1>10, <3>2
      <4>2. log[i] = LineOf(s) /\ req[s].stage \in Recorded
        BY <3>2, <4>1 DEF IndInv, LogInv
      <4>3. log'[i] = log[i]
        BY <1>8, <3>2
      <4>4. LineOf(log[i].req)' = LineOf(s)'
        BY <4>1, <4>3
      <4> QED
        BY <1>5, <1>9, <4>1, <4>2, <4>3, <4>4
    <3> QED
      BY <1>8, <3>1, <3>2
  <2>2. \A i, j \in DOMAIN log' : log'[i].req = log'[j].req => i = j
    BY <1>8, <1>9, <1>10 DEF IndInv, LogInv
  <2>3. ASSUME NEW s \in Requests, req'[s].stage \in Recorded
        PROVE  Lines(s)' # {}
    <3>1. CASE s = t
      BY <1>8, <1>9, <3>1 DEF Lines
    <3>2. CASE s # t
      BY <1>5, <1>8, <2>3, <3>2 DEF Lines, IndInv, LogInv
    <3> QED
      BY <3>1, <3>2
  <2> QED
    BY <2>1, <2>2, <2>3 DEF LogInv
<1>12. MetricsMatchLog'
  <2>1. Counted' = Counted
    BY <1>2, <1>5, <1>8, <1>9, <1>10 DEF Counted
  <2>2. \A i \in Counted : Labels(log'[i]) = Labels(log[i])
    BY <1>8 DEF Counted
  <2>3. cfg' = cfg /\ counts' = counts
    BY <1>1
  <2>4. \A l : {i \in Counted : Labels(log'[i]) = l} = {i \in Counted : Labels(log[i]) = l}
    BY <2>2
  <2>5. {Labels(log'[i]) : i \in Counted} = {Labels(log[i]) : i \in Counted}
    BY <2>2
  <2> QED
    BY <2>1, <2>3, <2>4, <2>5 DEF MetricsMatchLog, IndInv, BagToSet
<1> QED
  BY <1>4, <1>7, <1>11, <1>12 DEF IndInv

\* The counter takes the label of the line the request has left.
LEMMA CountStep ==
  ASSUME IndInv, NEW t \in Requests, Count(t)
  PROVE  IndInv'
<1> DEFINE x == [req[t] EXCEPT !.stage = "counted"]
           w == req[t].w.metrics
           l == <<req[t].in.method, w.route, w.status>>
<1>1. /\ req[t].stage = "logged" /\ req' = [req EXCEPT ![t] = x]
      /\ counts' = IF cfg.metrics THEN counts (+) SetToBag({l}) ELSE counts
      /\ UNCHANGED <<cfg, handler, log>>
  BY DEF Count, Goto
<1>2. /\ x \in RequestSet /\ x.stage = "counted" /\ x.span = req[t].span
      /\ x.w = req[t].w /\ x.child = req[t].child /\ x.in = req[t].in
      /\ x.id = req[t].id /\ x.sent = req[t].sent
  BY Facts DEF RequestSet, Stages, Recorded
<1> HIDE DEF x
<1>3. ReqInv(x)
  BY <1>1, <1>2, Facts, ReturnInv
<1>4. /\ req' \in [Requests -> RequestSet]
      /\ (\A s \in Requests : ReqInv(req[s]))'
  BY <1>1, <1>2, <1>3, ReqFrame DEF IndInv
<1>5. LogInv'
  BY <1>1, <1>2, LogFrame DEF IndInv, Recorded
<1>6. CASE ~cfg.metrics
  BY <1>1, <1>4, <1>5, <1>6 DEF IndInv, TypeInv, IsABag, MetricsMatchLog
<1>7. CASE cfg.metrics
  <2>1. PICK n \in DOMAIN log : log[n].req = t
    BY <1>1 DEF IndInv, LogInv, Lines, Recorded
  <2>2. log[n] = LineOf(t) /\ \A i \in DOMAIN log : log[i].req = t => i = n
    BY <2>1 DEF IndInv, LogInv
  <2>3. Labels(log[n]) = l
    <3>1. w.route = req[t].w.log.route /\ w.status = req[t].w.log.status
      BY <1>7, Facts DEF WritersAgree
    <3> QED
      BY <2>2, <3>1 DEF Labels, LineOf
  <2> HIDE DEF l
  <2>4. Counted' = Counted \cup {n} /\ n \notin Counted
    <3>1. \A s \in Requests : req'[s] = IF s = t THEN x ELSE req[s]
      BY <1>1 DEF IndInv, TypeInv
    <3>2. \A i \in DOMAIN log : log[i].req \in Requests
      BY DEF IndInv, LogInv
    <3> QED
      BY <1>1, <1>2, <2>1, <2>2, <3>1, <3>2 DEF Counted
  <2>5. /\ IsABag(counts') /\ DOMAIN counts' = DOMAIN counts \cup {l}
        /\ l \in DOMAIN counts => counts'[l] = counts[l] + 1
        /\ l \notin DOMAIN counts => counts'[l] = 1
        /\ \A k \in DOMAIN counts \ {l} : counts'[k] = counts[k]
    <3>1. \A k \in DOMAIN counts : counts[k] \in Nat /\ counts[k] > 0
      BY DEF IndInv, TypeInv, IsABag
    <3>2. counts' = [k \in DOMAIN counts \cup {l} |->
                       (IF k \in DOMAIN counts THEN counts[k] ELSE 0)
                         + (IF k \in {l} THEN 1 ELSE 0)]
      BY <1>1, <1>7 DEF (+), SetToBag
    <3>3. /\ DOMAIN counts' = DOMAIN counts \cup {l}
          /\ \A k \in DOMAIN counts' : counts'[k] \in Nat /\ counts'[k] > 0
      BY <3>1, <3>2
    <3>4. IsABag(counts')
      BY <3>2, <3>3 DEF IsABag
    <3>5. /\ l \in DOMAIN counts => counts'[l] = counts[l] + 1
          /\ l \notin DOMAIN counts => counts'[l] = 1
      BY <3>1, <3>2
    <3>6. ASSUME NEW k \in DOMAIN counts \ {l} PROVE counts'[k] = counts[k]
      <4>1. counts'[k] = counts[k] + 0 /\ counts[k] \in Nat
        BY <3>1, <3>2
      <4> QED
        BY <4>1
    <3> QED
      BY <3>3, <3>4, <3>5, <3>6
  <2>6. /\ DOMAIN counts = {Labels(log[i]) : i \in Counted}
        /\ \A k \in DOMAIN counts :
             counts[k] = Cardinality({i \in Counted : Labels(log[i]) = k})
    BY <1>7 DEF IndInv, MetricsMatchLog, BagToSet
  <2>7. DOMAIN counts' = {Labels(log[i]) : i \in Counted'}
    BY <2>3, <2>4, <2>5, <2>6
  <2> DEFINE Of(k) == {i \in Counted : Labels(log[i]) = k}
             OfNext(k) == {i \in Counted' : Labels(log[i]) = k}
  <2>8. \A k : IsFiniteSet(Of(k))
    <3>1. Len(log) \in Nat /\ DOMAIN log = 1..Len(log)
      BY DEF IndInv, TypeInv
    <3>2. IsFiniteSet(DOMAIN log)
      BY <3>1, FS_Interval
    <3>3. \A k : Of(k) \subseteq DOMAIN log
      BY DEF Counted
    <3> QED
      BY <3>2, <3>3, FS_Subset
  <2>9. counts'[l] = Cardinality(OfNext(l))
    <3>1. OfNext(l) = Of(l) \cup {n} /\ n \notin Of(l)
      BY <2>3, <2>4
    <3>2. Cardinality(OfNext(l)) = Cardinality(Of(l)) + 1 /\ Cardinality(Of(l)) \in Nat
      <4> HIDE DEF Of, OfNext
      <4>1. IsFiniteSet(Of(l))
        BY <2>8
      <4> QED
        BY <3>1, <4>1, FS_AddElement, FS_CardinalityType
    <3>3. l \notin DOMAIN counts => Of(l) = {}
      BY <2>6
    <3>4. l \notin DOMAIN counts => Cardinality(Of(l)) = 0
      BY <3>3, FS_EmptySet
    <3> QED
      BY <2>5, <2>6, <3>2, <3>4
  <2>10. ASSUME NEW k \in DOMAIN counts \ {l}
         PROVE  counts'[k] = Cardinality(OfNext(k))
    <3>1. OfNext(k) = Of(k)
      BY <2>3, <2>4
    <3> QED
      BY <2>5, <2>6, <3>1
  <2>11. MetricsMatchLog'
    <3>1. \A k \in DOMAIN counts' : counts'[k] = Cardinality(OfNext(k))
      BY <2>5, <2>9, <2>10
    <3> QED
      BY <1>1, <2>7, <3>1 DEF MetricsMatchLog, BagToSet, Labels
  <2> QED
    BY <1>1, <1>4, <1>5, <2>5, <2>11 DEF IndInv, TypeInv
<1> QED
  BY <1>6, <1>7

-----------------------------------------------------------------------------
(***************************************************************************)
(* The invariant.                                                          *)
(***************************************************************************)
\* The gateway starts right.
LEMMA InitInd == Init => IndInv
<1> SUFFICES ASSUME Init PROVE IndInv
  OBVIOUS
<1> DEFINE x == [stage |-> "new", in |-> None, id |-> NoID, w |-> FreshWriters(<<>>),
                 sent |-> None, span |-> NoSpan, child |-> NoSpan]
<1>1. \A t \in Requests : req[t] = x
  BY DEF Init
<1>2. /\ FreshWriters(<<>>) \in Writers
      /\ FreshWriters(<<>>).log = Layer /\ FreshWriters(<<>>).metrics = Layer
      /\ FreshWriters(<<>>).otel = Layer /\ FreshWriters(<<>>).wire.status = 0
  <2>1. 200 \in Codes /\ <<>> \in Seq(Tokens) /\ <<>> \in Seq(IDs)
    BY DEF Codes
  <2> QED
    BY <2>1 DEF FreshWriters, Layer, Writers, Layers
<1>3. NoSpan \in Spans /\ NoSpan.state = "none"
  BY DEF NoSpan, Spans
<1>4. x \in RequestSet
  BY <1>2, <1>3 DEF RequestSet, Stages, IDs
<1>5. WritersAgree(FreshWriters(<<>>)) /\ FreshWriters(<<>>).log.route = <<>>
      /\ ~FreshWriters(<<>>).log.wrote
  BY <1>2 DEF WritersAgree, Layer
<1>6. ReqInv(x)
  BY <1>3, <1>5 DEF ReqInv
<1>7. \A t \in Requests : ReqInv(req[t])
  BY <1>1, <1>6
<1>8. req \in [Requests -> RequestSet]
  BY <1>4 DEF Init
<1>9. counts = [e \in {} |-> 1] /\ DOMAIN counts = {} /\ IsABag(counts)
  BY DEF Init, EmptyBag, SetToBag, IsABag
<1>10. log = <<>> /\ DOMAIN log = {}
  BY DEF Init
<1>11. TypeInv
  BY <1>8, <1>9, <1>10 DEF TypeInv, Init, Tables
<1>12. LogInv
  BY <1>1, <1>10 DEF LogInv, Recorded
<1>13. MetricsMatchLog
  BY <1>9, <1>10 DEF MetricsMatchLog, Counted, BagToSet
<1> QED
  BY <1>7, <1>11, <1>12, <1>13 DEF IndInv

\* Nothing changes when nobody moves.
LEMMA StutterStep == ASSUME IndInv, UNCHANGED vars PROVE IndInv'
<1>1. cfg' = cfg /\ handler' = handler /\ req' = req /\ log' = log /\ counts' = counts
  BY DEF vars
<1>2. TypeInv'
  BY <1>1 DEF IndInv, TypeInv, IsABag
<1>3. (\A t \in Requests : ReqInv(req[t]))'
  BY <1>1, ReqInvFrame DEF IndInv
<1>4. LogInv'
  BY <1>1 DEF IndInv, LogInv, Lines, LineOf, CorrelationIDFromContext
<1>5. MetricsMatchLog'
  BY <1>1 DEF IndInv, MetricsMatchLog, Counted, Labels, BagToSet
<1> QED
  BY <1>2, <1>3, <1>4, <1>5 DEF IndInv

\* Every step of every request keeps the invariant.
LEMMA NextInd == IndInv /\ [Next]_vars => IndInv'
<1> SUFFICES ASSUME IndInv, [Next]_vars PROVE IndInv'
  OBVIOUS
<1>1. CASE UNCHANGED vars
  BY <1>1, StutterStep
<1>2. ASSUME NEW t \in Requests, Serve(t) PROVE IndInv'
  <2>1. CASE \/ Redirect(t) \/ Healthz(t) \/ Readyz(t) \/ MetricsPage(t)
             \/ AdminRefuse(t) \/ AdminReport(t) \/ NotFound(t)
    BY <2>1, OwnHandlers
  <2>2. CASE AdminReplace(t)
    BY <2>2, ReplaceStep
  <2>3. CASE Forward(t)
    BY <2>3, ForwardStep
  <2>4. CASE BackendReply(t)
    BY <2>4, BackendReplyStep
  <2>5. CASE BackendFail(t) \/ BackendUpgrade(t)
    BY <2>5, BadGatewayStep
  <2>6. CASE BodyDone(t) \/ BodyAbort(t)
    BY <2>6, BodyStep
  <2>7. CASE LogLine(t)
    BY <2>7, LogLineStep
  <2>8. CASE Count(t)
    BY <2>8, CountStep
  <2>9. CASE EndSpan(t)
    BY <2>9, EndSpanStep
  <2>10. CASE Unwind(t)
    BY <2>10, UnwindStep
  <2> QED
    BY <1>2, <2>1, <2>2, <2>3, <2>4, <2>5, <2>6, <2>7, <2>8, <2>9, <2>10 DEF Serve
<1>3. ASSUME NEW t \in Requests, NEW m \in Messages, Enter(t, m) PROVE IndInv'
  BY <1>3, EnterStep
<1> QED
  BY <1>1, <1>2, <1>3 DEF Next

\* The inductive invariant holds of every reachable state.
THEOREM GatewayInvariant == Spec => []IndInv
  BY InitInd, NextInd, PTL DEF Spec

\* Stages come in order, and a request that was logged has exactly one line.
THEOREM GatewayTypeOK == Spec => []TypeOK
<1>1. IndInv => TypeOK
  <2> SUFFICES ASSUME IndInv PROVE TypeOK
    OBVIOUS
  <2>1. ASSUME NEW t \in Requests
        PROVE  /\ req[t].stage \in Stages
               /\ req[t].sent = None => req[t].child = NoSpan /\ req[t].w.log.route = <<>>
    BY Facts DEF RequestSet, ReqInv
  <2>2. ASSUME NEW t \in Requests, req[t].stage \in Recorded
        PROVE  Cardinality(Lines(t)) = 1
    <3>1. PICK i \in DOMAIN log : Lines(t) = {i}
      BY <2>2 DEF IndInv, LogInv, Lines
    <3> QED
      BY <3>1, FS_Singleton
  <2>3. ASSUME NEW t \in Requests, req[t].stage \notin Recorded
        PROVE  Cardinality(Lines(t)) = 0
    <3>1. Lines(t) = {}
      BY <2>3 DEF IndInv, LogInv, Lines
    <3> QED
      BY <3>1, FS_EmptySet
  <2>4. IsABag(counts)
    BY DEF IndInv, TypeInv
  <2> QED
    BY <2>1, <2>2, <2>3, <2>4 DEF TypeOK
<1> QED
  BY <1>1, GatewayInvariant, PTL

\* A line says what its request says.
LEMMA LineFacts ==
  ASSUME IndInv, NEW t \in Requests, NEW i \in Lines(t)
  PROVE  /\ log[i] = LineOf(t) /\ req[t].stage \in Recorded
         /\ log[i].status = req[t].w.log.status /\ log[i].route = req[t].w.log.route
         /\ log[i].id = req[t].id /\ log[i].trace = req[t].span.ctx
<1>1. i \in DOMAIN log /\ log[i].req = t
  BY DEF Lines
<1>2. log[i] = LineOf(t) /\ req[t].stage \in Recorded
  BY <1>1 DEF IndInv, LogInv
<1> QED
  BY <1>2 DEF LineOf, CorrelationIDFromContext

\* Client, access line and span agree on status and route.
THEOREM GatewayObserversAgree == Spec => []ObserversAgree
<1>1. IndInv => ObserversAgree
  <2> SUFFICES ASSUME IndInv, NEW t \in Requests
               PROVE  /\ \A i \in Lines(t) :
                           /\ log[i].status = req[t].w.wire.status
                           /\ log[i].route = CalledRoute(t)
                      /\ req[t].stage = "done" /\ cfg.otel =>
                           /\ req[t].span.status = req[t].w.wire.status
                           /\ req[t].span.route = CalledRoute(t)
    BY DEF ObserversAgree
  <2>1. req[t].w.log.route = CalledRoute(t)
    BY Facts DEF ReqInv, Handed, CalledRoute
  <2>2. req[t].stage \in Recorded => req[t].w.log.status = req[t].w.wire.status
    BY Facts DEF ReqInv, WritersAgree, Recorded
  <2>3. req[t].stage = "done" /\ cfg.otel =>
          /\ req[t].span.status = req[t].w.log.status
          /\ req[t].span.route = req[t].w.log.route
    BY Facts DEF ReqInv, WritersAgree
  <2>4. req[t].stage = "done" => req[t].stage \in Recorded
    BY DEF Recorded
  <2> QED
    BY <2>1, <2>2, <2>3, <2>4, LineFacts
<1> QED
  BY <1>1, GatewayInvariant, PTL

\* The request counter is the access log, counted.
THEOREM GatewayMetricsMatchLog == Spec => []MetricsMatchLog
<1>1. IndInv => MetricsMatchLog
  BY DEF IndInv
<1> QED
  BY <1>1, GatewayInvariant, PTL

\* One correlation ID, never blank, on the answer, the line and the way out.
THEOREM GatewayOneCorrelationID == Spec => []OneCorrelationID
<1>1. IndInv => OneCorrelationID
  <2> SUFFICES ASSUME IndInv, NEW t \in Requests, req[t].stage # "new"
               PROVE  /\ req[t].id # NoID /\ req[t].w.wire.ids[1] = req[t].id
                      /\ req[t].in.id # NoID => req[t].id = req[t].in.id
                      /\ req[t].sent # None /\ "id" \notin req[t].in.hop =>
                           req[t].sent.id = req[t].id
                      /\ \A i \in Lines(t) : log[i].id = req[t].id
    BY DEF OneCorrelationID
  <2> QED
    BY Facts, LineFacts DEF ReqInv, Entered, Handed, Copied
<1> QED
  BY <1>1, GatewayInvariant, PTL

\* Spans close in order and on every way out.
THEOREM GatewaySpansNest == Spec => []SpansNest
<1>1. IndInv => SpansNest
  BY Facts DEF SpansNest, ReqInv
<1> QED
  BY <1>1, GatewayInvariant, PTL

\* One trace from the caller to the backend.
THEOREM GatewayOneTrace == Spec => []OneTrace
<1>1. IndInv => OneTrace
  <2> SUFFICES ASSUME IndInv, NEW t \in Requests, req[t].stage # "new"
               PROVE  LET r == req[t]
                      IN  /\ ~cfg.otel /\ r.sent # None /\ "trace" \notin r.in.hop =>
                               r.sent.trace = r.in.trace
                          /\ cfg.otel /\ r.sent # None =>
                               /\ r.sent.trace = r.child.ctx
                               /\ r.child.parent = r.span.ctx
                               /\ r.child.ctx.trace = r.span.ctx.trace
                          /\ cfg.otel /\ r.in.trace # None =>
                               r.span.parent = r.in.trace /\ r.span.ctx.trace = r.in.trace.trace
                          /\ \A i \in Lines(t) : log[i].trace = r.span.ctx
    BY DEF OneTrace
  <2> QED
    BY Facts, LineFacts DEF ReqInv, Entered, Handed, Copied
<1> QED
  BY <1>1, GatewayInvariant, PTL

\* What the gateway answers itself, or has no route for, never reaches a backend,
\* nor does an unclean path of any request but CONNECT.
THEOREM GatewayOwnPathsStayLocal == Spec => []OwnPathsStayLocal
<1>1. IndInv => OwnPathsStayLocal
  BY Facts DEF OwnPathsStayLocal, ReqInv, Handed, Canonical
<1> QED
  BY <1>1, GatewayInvariant, PTL

-----------------------------------------------------------------------------
(***************************************************************************)
(* The chain implements the ledger.                                        *)
(***************************************************************************)

\* Only t's record changes.
Only(t) == \A s \in Requests \ {t} : req'[s] = req[s]

\* A step before the line, or past an abort.
Early(t) ==
  /\ log' = log
  /\ <<req[t].stage, req'[t].stage>> \in
       {<<"new", "mux">>, <<"mux", "upstream">>, <<"upstream", "body">>,
        <<"mux", "return">>, <<"upstream", "return">>, <<"body", "return">>,
        <<"body", "panic">>, <<"panic", "aborted">>}

\* A step after the handler returned: what the client was told stands.
Late(t) ==
  /\ req'[t].in = req[t].in /\ req'[t].sent = req[t].sent /\ req'[t].w = req[t].w
  /\ \/ log' = log /\ req[t].stage = "logged" /\ req'[t].stage = "counted"
     \/ log' = log /\ req[t].stage = "counted" /\ req'[t].stage = "done"
     \/ /\ req[t].stage = "return" /\ req'[t].stage = "logged"
        /\ log' = Append(log, LineOf(t))

\* Every action is one of these.
LEMMA EveryStep ==
  ASSUME IndInv, NEW t \in Requests, Serve(t) \/ \E m \in Messages : Enter(t, m)
  PROVE  Only(t) /\ (Early(t) \/ Late(t))
<1>0. req \in [Requests -> RequestSet] /\ req[t] \in RequestSet
  BY DEF IndInv, TypeInv
<1>1. ASSUME NEW from, NEW to, NEW r, Goto(t, from, to, r)
      PROVE  Only(t) /\ req[t].stage = from /\ req'[t] = [r EXCEPT !.stage = to]
  BY <1>0, <1>1 DEF Goto, Only
<1>2. CASE \E m \in Messages : Enter(t, m)
  <2>1. PICK m, i :
          /\ Goto(t, "new", "mux",
                  [req[t] EXCEPT !.in = m, !.id = i, !.w = FreshWriters(<<i>>),
                                 !.span = StartSpan(<<"request", t>>, m.trace)])
          /\ SharedUnchanged
    BY <1>2 DEF Enter
  <2>2. req'[t].stage = "mux"
    BY <1>0, <2>1 DEF Goto, RequestSet
  <2> QED
    BY <1>1, <2>1, <2>2 DEF Early, SharedUnchanged
<1>3. CASE \E w : Answer(t, w)
  <2>1. PICK w : Answer(t, w)
    BY <1>3
  <2>2. Goto(t, "mux", "return", [req[t] EXCEPT !.w = w]) /\ log' = log
    BY <2>1 DEF Answer
  <2>3. req'[t].stage = "return"
    BY <1>0, <2>2 DEF Goto, RequestSet
  <2> QED
    BY <1>1, <2>2, <2>3 DEF Early
<1>4. CASE Forward(t)
  <2>1. PICK w, c, o : /\ Goto(t, "mux", "upstream", [req[t] EXCEPT !.w = w, !.child = c, !.sent = o])
                       /\ SharedUnchanged
    BY <1>4 DEF Forward
  <2>2. req'[t].stage = "upstream"
    BY <1>0, <2>1 DEF Goto, RequestSet
  <2> QED
    BY <1>1, <2>1, <2>2 DEF Early, SharedUnchanged
<1>5. CASE BackendReply(t) \/ BackendFail(t) \/ BackendUpgrade(t)
  <2>0. PICK to \in {"body", "return"} : \E w, c :
          Goto(t, "upstream", to, [req[t] EXCEPT !.child = c, !.w = w]) /\ SharedUnchanged
    <3>1. CASE BackendReply(t)
      <4>1. PICK code, echo :
              /\ Goto(t, "upstream", "body",
                      [req[t] EXCEPT !.child = EndChild(req[t].child, code, code >= 500),
                                     !.w = WriteHeader(AddIDs(req[t].w, echo), code)])
              /\ SharedUnchanged
        BY <3>1 DEF BackendReply
      <4> QED
        BY <4>1, Zenon
    <3>2. CASE \E status, error : BadGateway(t, status, error)
      <4>1. PICK status, error : BadGateway(t, status, error)
        BY <3>2
      <4>2. /\ Goto(t, "upstream", "return",
                    [req[t] EXCEPT !.child = EndChild(req[t].child, status, error),
                                   !.w = WriteHeader(req[t].w, 502)])
            /\ SharedUnchanged
        BY <4>1 DEF BadGateway
      <4> QED
        BY <4>2, Zenon
    <3>3. BackendFail(t) \/ BackendUpgrade(t) => \E status, error : BadGateway(t, status, error)
      BY DEF BackendFail, BackendUpgrade
    <3> QED
      BY <1>5, <3>1, <3>2, <3>3
  <2>1. PICK w, c :
          Goto(t, "upstream", to, [req[t] EXCEPT !.child = c, !.w = w]) /\ SharedUnchanged
    BY <2>0
  <2>2. req'[t].stage = to
    BY <1>0, <2>1 DEF Goto, RequestSet
  <2> QED
    BY <1>1, <2>1, <2>2 DEF Early, SharedUnchanged
<1>6. CASE BodyDone(t) \/ BodyAbort(t)
  <2>0. PICK to \in {"return", "panic"} : \E w :
          Goto(t, "body", to, [req[t] EXCEPT !.w = w]) /\ SharedUnchanged
    BY <1>6 DEF BodyDone, BodyAbort
  <2>1. PICK w : Goto(t, "body", to, [req[t] EXCEPT !.w = w]) /\ SharedUnchanged
    BY <2>0
  <2>2. req'[t].stage = to
    BY <1>0, <2>1 DEF Goto, RequestSet
  <2> QED
    BY <1>1, <2>1, <2>2 DEF Early, SharedUnchanged
<1>7. CASE LogLine(t) \/ Count(t)
  <2>1. /\ req' = [req EXCEPT ![t] = [req[t] EXCEPT !.stage = req'[t].stage]]
        /\ \/ /\ req[t].stage = "return" /\ req'[t].stage = "logged"
              /\ log' = Append(log, LineOf(t))
           \/ log' = log /\ req[t].stage = "logged" /\ req'[t].stage = "counted"
    BY <1>0, <1>7 DEF LogLine, Count, Goto, RequestSet
  <2>2. /\ req'[t].in = req[t].in /\ req'[t].sent = req[t].sent /\ req'[t].w = req[t].w
    BY <1>0, <2>1 DEF RequestSet
  <2> QED
    BY <1>0, <2>1, <2>2 DEF Late, Only
<1>8. CASE EndSpan(t)
  <2>1. PICK r : /\ Goto(t, "counted", "done", r) /\ SharedUnchanged
                 /\ (r = req[t] \/ \E sp : r = [req[t] EXCEPT !.span = sp])
    BY <1>8 DEF EndSpan
  <2>2. /\ req'[t].stage = "done" /\ req'[t].in = req[t].in
        /\ req'[t].sent = req[t].sent /\ req'[t].w = req[t].w
    BY <1>0, <2>1 DEF Goto, RequestSet
  <2> QED
    BY <1>1, <2>1, <2>2 DEF Late, SharedUnchanged
<1>9. CASE Unwind(t)
  <2>1. PICK r : /\ Goto(t, "panic", "aborted", r) /\ SharedUnchanged
                 /\ (r = req[t] \/ \E sp : r = [req[t] EXCEPT !.span = sp])
    BY <1>9 DEF Unwind
  <2>2. req'[t].stage = "aborted"
    BY <1>0, <2>1 DEF Goto, RequestSet
  <2> QED
    BY <1>1, <2>1, <2>2 DEF Early, SharedUnchanged
<1> QED
  BY <1>2, <1>3, <1>4, <1>5, <1>6, <1>7, <1>8, <1>9
     DEF Serve, Redirect, Healthz, Readyz, MetricsPage, AdminRefuse, AdminReport,
         AdminReplace, NotFound

\* A request that is not the one moving keeps its phase and its answer.
LEMMA OthersStay ==
  ASSUME NEW t \in Requests, Only(t), NEW s \in Requests \ {t}
  PROVE  Phase(s)' = Phase(s) /\ Told(s)' = Told(s)
<1>1. req'[s] = req[s]
  BY DEF Only
<1> QED
  BY <1>1 DEF Phase, Told, CalledRoute

\* In the ledger's terms: t moves, and is told something or nothing new.
LEMMA LedgerMove ==
  ASSUME NEW t \in Requests, Only(t)
  PROVE  /\ [s \in Requests |-> Phase(s)]'
              = [[s \in Requests |-> Phase(s)] EXCEPT ![t] = Phase(t)']
         /\ [s \in Requests |-> Told(s)]'
              = [[s \in Requests |-> Told(s)] EXCEPT ![t] = Told(t)']
         /\ Phase(t)' = Phase(t) =>
              [s \in Requests |-> Phase(s)]' = [s \in Requests |-> Phase(s)]
         /\ Told(t)' = Told(t) =>
              [s \in Requests |-> Told(s)]' = [s \in Requests |-> Told(s)]
<1>1. \A s \in Requests \ {t} : Phase(s)' = Phase(s) /\ Told(s)' = Told(s)
  BY OthersStay
<1> QED
  BY <1>1

\* The lines of the ledger change with the log only.
LEMMA LedgerLines ==
  ASSUME log' = log
  PROVE  [i \in DOMAIN log |-> LedgerLine(log[i])]' = [i \in DOMAIN log |-> LedgerLine(log[i])]
  BY DEF LedgerLine

\* What a request that has returned was told is one of the ledger's answers.
Answers ==
  [method : {m.method : m \in Messages}, route : ConfiguredPrefixes, status : Codes]
ToldAnswers == \A t \in Requests : req[t].stage = "return" => Told(t) \in Answers

LEMMA AnswerSet == IndInv => ToldAnswers
<1> SUFFICES ASSUME IndInv, NEW t \in Requests, req[t].stage = "return"
             PROVE  Told(t) \in Answers
  BY DEF ToldAnswers
<1>1. req[t].in \in Messages
  BY Facts DEF ReqInv, Entered
<1>2. req[t].w.wire.status \in Codes
  <2>1. req[t].w.wire.status \in Codes \cup {0}
    BY Facts DEF Writers
  <2>2. req[t].w.wire.status # 0
    BY Facts DEF ReqInv, WritersAgree
  <2> QED
    BY <2>1, <2>2
<1>3. CalledRoute(t) \in ConfiguredPrefixes
  BY Facts DEF ReqInv, Handed, CalledRoute, ConfiguredPrefixes
<1>4. Told(t) = [method |-> req[t].in.method, route |-> CalledRoute(t),
                 status |-> req[t].w.wire.status]
  BY DEF Told
<1> QED
  BY <1>1, <1>2, <1>3, <1>4 DEF Answers

\* The same of the next state.
LEMMA AnswerSetNext == IndInv' => ToldAnswers'
  BY AnswerSet, PTL

\* Before the line: in, answered, broken or aborted, or nothing to be seen.
LEMMA EarlyLedger ==
  ASSUME IndInv, IndInv', NEW t \in Requests, Only(t), Early(t)
  PROVE  [Ledger!Next]_(Ledger!vars)
<1>1. [i \in DOMAIN log |-> LedgerLine(log[i])]' = [i \in DOMAIN log |-> LedgerLine(log[i])]
  BY LedgerLines DEF Early
<1>2. CASE req[t].stage = "new" /\ req'[t].stage = "mux"
  <2>1. /\ Phase(t) = "out" /\ Phase(t)' = "in" /\ Told(t) = None /\ Told(t)' = None
    BY <1>2 DEF Phase, Told, Recorded
  <2>2. Ledger!Enter(t)
    BY <1>1, <2>1, LedgerMove DEF Ledger!Enter, Ledger!Move
  <2> QED
    BY <2>2 DEF Ledger!Next
<1>3. CASE \/ req[t].stage = "mux" /\ req'[t].stage = "upstream"
           \/ req[t].stage = "upstream" /\ req'[t].stage = "body"
  <2>1. /\ Phase(t)' = Phase(t) /\ Told(t) = None /\ Told(t)' = None
    BY <1>3 DEF Phase, Told, Recorded
  <2> QED
    BY <1>1, <2>1, LedgerMove DEF Ledger!vars
<1>4. CASE req[t].stage \in {"mux", "upstream", "body"} /\ req'[t].stage = "return"
  <2>1. Phase(t) = "in" /\ Phase(t)' = "answered"
    BY <1>4 DEF Phase
  <2>2. Told(t)' \in Answers
    BY <1>4, AnswerSetNext DEF ToldAnswers, Answers
  <2>3. Ledger!Answer(t, Told(t)')
    BY <1>1, <2>1, LedgerMove DEF Ledger!Answer, Ledger!Move
  <2> QED
    BY <2>2, <2>3 DEF Ledger!Next, Answers
<1>5. CASE req[t].stage = "body" /\ req'[t].stage = "panic"
  <2>1. /\ Phase(t) = "in" /\ Phase(t)' = "broken" /\ Told(t) = None /\ Told(t)' = None
    BY <1>5 DEF Phase, Told, Recorded
  <2>2. Ledger!Break(t)
    BY <1>1, <2>1, LedgerMove DEF Ledger!Break, Ledger!Move
  <2> QED
    BY <2>2 DEF Ledger!Next
<1>6. CASE req[t].stage = "panic" /\ req'[t].stage = "aborted"
  <2>1. /\ Phase(t) = "broken" /\ Phase(t)' = "aborted" /\ Told(t) = None /\ Told(t)' = None
    BY <1>6 DEF Phase, Told, Recorded
  <2>2. Ledger!Unwind(t)
    BY <1>1, <2>1, LedgerMove DEF Ledger!Unwind, Ledger!Move
  <2> QED
    BY <2>2 DEF Ledger!Next
<1> QED
  BY <1>2, <1>3, <1>4, <1>5, <1>6 DEF Early

\* What the client was told stands once the handler has returned, and the line
\* that is appended says it.
LEMMA LateLedger ==
  ASSUME IndInv, NEW t \in Requests, Only(t), Late(t)
  PROVE  [Ledger!Next]_(Ledger!vars)
<1>1. Told(t)' = Told(t)
  BY DEF Late, Told, CalledRoute, Recorded
<1>2. CASE log' = log /\ req[t].stage = "logged" /\ req'[t].stage = "counted"
  <2>1. Phase(t)' = Phase(t)
    BY <1>2 DEF Phase
  <2> QED
    BY <1>1, <1>2, <2>1, LedgerMove, LedgerLines DEF Ledger!vars
<1>3. CASE log' = log /\ req[t].stage = "counted" /\ req'[t].stage = "done"
  <2>1. Phase(t) = "recorded" /\ Phase(t)' = "closed"
    BY <1>3 DEF Phase
  <2>2. Ledger!Close(t)
    BY <1>1, <1>3, <2>1, LedgerMove, LedgerLines DEF Ledger!Close, Ledger!Move
  <2> QED
    BY <2>2 DEF Ledger!Next
<1>4. CASE /\ req[t].stage = "return" /\ req'[t].stage = "logged"
           /\ log' = Append(log, LineOf(t))
  <2> DEFINE old == [i \in DOMAIN log |-> LedgerLine(log[i])]
             new == [i \in DOMAIN log |-> LedgerLine(log[i])]'
             e == [req |-> t, answer |-> Told(t)]
  <2>1. Phase(t) = "answered" /\ Phase(t)' = "recorded"
    BY <1>4 DEF Phase
  <2>2. LedgerLine(LineOf(t)) = e
    <3>1. /\ req[t].w.log.status = req[t].w.wire.status
          /\ req[t].w.log.route = CalledRoute(t)
      BY <1>4, Facts DEF ReqInv, WritersAgree, Handed, CalledRoute
    <3>2. Told(t) = [method |-> req[t].in.method, route |-> CalledRoute(t),
                     status |-> req[t].w.wire.status]
      BY <1>4 DEF Told
    <3> QED
      BY <3>1, <3>2 DEF LedgerLine, LineOf
  <2>3. /\ Len(log) \in Nat /\ DOMAIN log = 1..Len(log)
        /\ DOMAIN log' = 1..Len(log) + 1
        /\ \A i \in 1..Len(log) : log'[i] = log[i]
        /\ log'[Len(log) + 1] = LineOf(t)
    BY <1>4 DEF IndInv, TypeInv
  <2>4. new = Append(old, e)
    <3>1. new = [i \in DOMAIN log' |-> LedgerLine(log'[i])]
      BY DEF LedgerLine
    <3>2. new = [i \in 1..Len(log) + 1 |-> IF i = Len(log) + 1 THEN e ELSE LedgerLine(log[i])]
      BY <2>2, <2>3, <3>1
    <3>3. /\ old = [i \in 1..Len(log) |-> LedgerLine(log[i])]
          /\ old \in Seq({LedgerLine(log[i]) : i \in DOMAIN log}) /\ Len(old) = Len(log)
      BY <2>3
    <3> HIDE DEF old, new, e
    <3> QED
      BY <2>3, <3>2, <3>3
  <2>5. Ledger!Record(t)
    <3>1. [s \in Requests |-> Told(s)][t] = Told(t)
      OBVIOUS
    <3> QED
      BY <1>1, <2>1, <2>4, <3>1, LedgerMove DEF Ledger!Record, Ledger!Move
  <2> QED
    BY <2>5 DEF Ledger!Next
<1> QED
  BY <1>2, <1>3, <1>4 DEF Late

\* What the client was told, of the backend that was called, is what the one
\* line says, and nothing is said before: the chain implements the ledger.
THEOREM GatewayImplementsLedger == Spec => ImplementsLedger
<1>1. Init => Ledger!Init
  <2> SUFFICES ASSUME Init PROVE Ledger!Init
    OBVIOUS
  <2>1. \A t \in Requests : req[t].stage = "new"
    BY DEF Init
  <2>2. \A t \in Requests : Phase(t) = "out" /\ Told(t) = None
    BY <2>1 DEF Phase, Told, Recorded
  <2>3. [i \in DOMAIN log |-> LedgerLine(log[i])] = <<>>
    BY DEF Init
  <2> QED
    BY <2>2, <2>3 DEF Ledger!Init
<1>2. IndInv /\ IndInv' /\ [Next]_vars => [Ledger!Next]_(Ledger!vars)
  <2> SUFFICES ASSUME IndInv, IndInv', [Next]_vars PROVE [Ledger!Next]_(Ledger!vars)
    OBVIOUS
  <2>1. CASE UNCHANGED vars
    BY <2>1 DEF vars, Ledger!vars, Phase, Told, CalledRoute, LedgerLine
  <2>2. ASSUME NEW t \in Requests, Serve(t) \/ \E m \in Messages : Enter(t, m)
        PROVE  [Ledger!Next]_(Ledger!vars)
    BY <2>2, EveryStep, EarlyLedger, LateLedger
  <2> QED
    BY <2>1, <2>2 DEF Next
<1> QED
  BY <1>1, <1>2, GatewayInvariant, PTL DEF Spec, ImplementsLedger, Ledger!Spec
=============================================================================
