# decision-gateway in TLA+

A model of the decision-gateway HTTP reverse proxy: what it does to a route
table, to a request, to the connections behind it and to itself when it is
started and stopped. The modules are translated from the Go source (Go 1.18,
the version `go.mod` and CI name); `PROJECT.json` maps every definition to the
lines it stands for.

## 1. The system

| Component | State | Operations | Talks to |
|---|---|---|---|
| Route flags (`cmd/.../routes.go`) | the collected `--route` values | `Set`, `parseRouteFlags`, `splitArrow` | router, at boot |
| Router (`internal/gateway`) | immutable list, longest prefix first | `NewRouter`, `Match`, `Routes` | proxy handler |
| Proxy handler (`internal/proxy/proxy.go`) | router + map prefix -> reverse proxy | `New`, `ServeHTTP`, `notFound` | writer chain, transports |
| Transports (`proxy.go`) | connections and dials per route and per reload | `newTunedTransport` and its two variants | backends |
| Holder (`internal/proxy/holder.go`) | `current`, an RWMutex | `ServeHTTP`, `Replace`, `Routes` | every request, the admin endpoint |
| Admin endpoint (`internal/httpapi/routes_admin.go`) | none | GET, POST `/admin/routes` | Holder |
| Health endpoints (`health.go`) | none; reads the readiness flag | `/healthz`, `/readyz` | process |
| Middlewares (`internal/middleware`, `internal/observability`) | per-request response-writer wrappers; log; counters; spans | CorrelationID, Tracing, Metrics, AccessLog | each other, through the writer chain and the context |
| Tracing (`internal/observability/otel`) | the tracer provider; two spans per request | `Bootstrap` and its shutdown, the middleware, `InstrumentedTransport` | process, access log, backends (traceparent header) |
| Process (`cmd/.../main.go`) | readiness flag, `serverErr` channel, server, signal context | boot, serve, drain, exit | all of them |

Hard parts: goroutines that reload the table while others read it; a handler
pointer used after the lock is released; a POST that reports the table after it
has unlocked; validation of a list one element of which is bad; a chain of
optional writer wrappers each of which must pass on the route stamp; panics
that skip the code after `next.ServeHTTP`; a `select` between a signal and a
server failure; readiness by sleeping; a drain that races the requests in
progress; a trace context handed from header to context to header; transports
nobody closes, dials that outlive the request that began them and dials that
others wait for. The list with lines is `hazards` in `PROJECT.json`.

What makes each part correct:

- flags, router, handler: longest prefix wins, whatever the order; one backend
  per prefix; a table read and posted back is the same table;
- holder, admin: no data race; only validated tables; a request sees one table,
  active during the request; every call returns;
- middlewares: log, metric, span and client agree on status and route; one
  correlation ID; one trace from the caller to the backend; spans closed on
  every way out; own endpoints never proxied; one line per answer;
- transports: a reload harms nothing in flight; limits and timeouts are obeyed;
  what a reload leaves behind is reclaimed;
- process: truthful exit status; the boot line first; readiness withdrawn before the listener
  closes; an orderly stop waits; a signal always ends the process.

## 2. Modules

| Module | Models | Checked by | Proved in |
|---|---|---|---|
| `Routing` | pure operators: URL checks, `splitArrow`, `NewRouter`, `Match`, `New`, dispatch; the reference `IsLongestMatch` | `flags`, `holder`, `gateway` | `RoutingProofs` |
| `RouteFlags` | the boot path from `--route` to the router | `flags` | `RouteFlagsProofs` |
| `RWMutex` | `sync.RWMutex` (external) as a record and functions on it | `holder`, `holder_live` | in `HolderProofs` |
| `Holder` | `proxy.Holder`, `/admin/routes`, the proxied path up to the reverse proxy | `holder`, `holder_live` | `HolderProofs` |
| `RouteTable` | abstract: the table is one atomic register | refined by `Holder` | `HolderProofs` |
| `RequestLedger` | abstract: a request is answered once and logged once, or aborted and not logged | refined by `Gateway`, part of `Lifecycle` | `GatewayProofs`; with `Lifecycle` |
| `Gateway` | the middleware chain, mux, endpoints, reverse proxy, way out | `gateway`, `gateway_log`, `gateway_labels` | `GatewayProofs` |
| `Lifecycle` | `main`, `run`, the serving goroutine, signal, drain, with each request's steps through the ledger | `lifecycle`, `lifecycle_ready`, `lifecycle_drain` | `LifecycleProofs` |
| `Transport` | per-route transports, their connections and dials, across reloads | `transport`, `transport_h2c_timeout`, `transport_per_backend` | `TransportProofs` |

Each `MC*` module gives the constants of the runs. Definitions whose comment
starts with "(mutant)" are faulty variants of the definition that follows them;
no specification uses them, they show that a property notices the fault.

### Data

A string is a sequence of tokens: a character where the code looks at
characters (`/`, `=`, `>`), else a whole word (`http:` a scheme, `//` the start
of an authority, `%` an escape `url.Parse` refuses). `url.Parse` is modelled by
what callers see of it: error, scheme present, host present, and the URL with
its scheme lower-cased. The prefix test, the split at the first arrow and the
sort work on these sequences as the code works on strings.

### Holder

A thread is one client connection. `pc` steps through the lines of
`ServeHTTP`, `Routes`, `Replace` and `postRoutes`; every mutex operation and
every access to `h.current` is a step of its own (`Lock` two: the announcement
that keeps new readers out, and the return once readers are gone). What a
handler does with its own data - decoding, validating, building the new Handler
outside the lock, dispatching - is one step. `since` is a history variable: the
handlers active since the call began, or since the POST's own swap. Replies are
computed from the local copy `cur`, as in the code.

### RequestLedger

What the chain promises of a request without saying how: `out`, `in`,
`answered`, `recorded`, `closed`, or from `in` by a panic `broken`, `aborted`;
`answer` is what it was told, `lines` the access log. `Gateway` implements it
(`ImplementsLedger`): the answer is what the client saw and the route of the
backend that was called, the lines are what AccessLog wrote. `Lifecycle` takes
its actions for the requests in progress, so that what the process does to a
request is said in terms of what the chain is shown to do.

### Gateway

A request is one record: its stage, the inbound message, the correlation ID in
its context, the writer chain, what went to a backend, its two spans. It enters
(correlation ID, span, fresh writers), is redirected by the mux if its path is
not clean (`Canonical`: empty, or with an empty or dot element; the mux does not
ask this of a CONNECT, whose path goes to the catch-all as it is), or is handed
to one mux entry, answers or goes upstream, and leaves through AccessLog, Metrics
and Tracing, in that order and in separate steps, so that requests interleave
between them. `w` is the writer chain; each wrapper's
`WriteHeader`, `Write` and `SetMatchedRoute` is an operator that calls the next
one out, as in the code, skipping the layers that are switched off. A span has a
context (trace and span) and a parent; `StartSpan` joins the parent's trace or
roots a new one, `Inject` writes the outbound header, and the access line names
the request's span. A message says which of the two headers the gateway passes
on its Connection header declares hop-by-hop (`hop`); the reverse proxy does not
copy those (`Copied`), so the ID that `ServeHTTP` has set on the request is
dropped with them, while the traceparent that the transport sets later is not.
The table is the register `RouteTable`: taken at one moment, replaced by a POST
at any other. A body copy that fails panics; only
the deferred `span.End` runs. `cfg` ranges over all combinations of the three
flags.

### Lifecycle

`main` is where `run()` is: configuration, OTel bootstrap (either may fail),
boot line, start of the serving goroutine, the 50 ms, the `select`, shutdown,
flush, exit. `srv` is where the serving goroutine is, `serverErr` the channel
between them. A connection is accepted, then sends its request or is dropped by
`ReadHeaderTimeout`; the request then takes its steps through the ledger, each
of which may fall before or after each step of the process. `Shutdown` waits
for open connections; `Exit` cuts what is left. A span that ends once the
provider is down is recorded as lost.

### Transport

A transport is named by the generation of its table and its prefix. `conn` has
the state of each of its connections, `Users(tr, c)` the requests on one, at most
`streams`, which is one over HTTP/1.1 and over h2c what the backends allow. A
request takes a connection that has room, or dials. Over HTTP/1.1 it takes whichever comes first, its own
dial or a connection that another request gives back, and then its dial is one of
the `orphans`: it goes on, and its connection is handed to another dialling
request, pooled, or closed; a client that goes away leaves its dial behind in the
same way. Over h2c a transport has one dial at a time; who comes meanwhile joins
it, and once it is there all look for room again, so that some may have to dial
again. The dial runs in the context of the request that began it
(`DialTLSContext` passes it on): if that client goes away the dial is over, and
those who joined it fail with it (the http2 of Go 1.18, which the Dockerfile
builds with) or dial again (newer ones); both are in the model. A request that
joined and whose client goes away is taken out at once; the code notices when the
dial ends, and nothing depends on it. A GOAWAY makes an h2c connection `going`:
it takes no request and closes after its last one. A connection that is lost
fails its requests or, before an answer, makes one start again on the same
transport, which may have been replaced meanwhile. The settings (`MaxIdle`,
`IdleTimeout`, `ResponseHeaderTimeout`) are computed as `newHTTP1Transport` and
`newH2CTransport` do, defaults for zero and negative values included. What
net/http and http2 do with them is external.

## 3. Runs

| Run | Instance | Shows |
|---|---|---|
| `flags` | 12 values, up to 4 per command line, 7 paths | each boot fails or yields a router with longest-prefix dispatch, independent of order, agreeing with the proxies map; splits at the first arrow; the table, rendered, posted back, parsed and sorted again, is the same |
| `holder` | 1 request thread, 2 admin threads, 2 good and 5 bad bodies | race freedom, valid tables only, one consistent fresh table per call, refinement of `RouteTable` |
| `holder_live` | the same threads, one good and one bad body | every call is answered |
| `gateway` | 2 requests, 12 messages (an unclean path in a GET and in a CONNECT; with and without ID, trace and hop-by-hop headers), 8 flag combinations, 1 reload table | observers agree, counters equal the log, one ID, one trace, spans nest, own paths stay local, refinement of `RequestLedger` |
| `lifecycle` | 2 connections | exit status, readiness, boot line first, orderly drain (nothing cut, lost, half-way or unlogged), termination on a signal and on a server failure |
| `transport` | 2 requests, 1 prefix, 1 reload, 2 dials at a time, both protocols, 1 or 2 streams a connection, pool 1, idle flag 0 | busy connections survive a reload, streams within the limit, shared dials with somebody to end them, pool limit, old pools only shrink (both) and drain (HTTP/1.1), waits for a dial (both) and for headers (HTTP/1.1) end |
| `gateway_log` | as `gateway` | refutes "each request produces one JSON line": aborted bodies are not logged |
| `gateway_labels` | as `gateway` | refutes "cardinality is bounded by the configured route table" across reloads |
| `lifecycle_ready` | as `lifecycle` | refutes "ready once it has bound to the listen address" |
| `lifecycle_drain` | as `lifecycle` | refutes "a drain window returns 503 to the kubelet" for new connections |
| `transport_h2c_timeout` | 2 requests, 2 prefixes, else as `transport` | refutes the `--backend-timeout` text for h2c: no timeout is set |
| `transport_per_backend` | 2 requests, 2 prefixes, else as `transport` | refutes "per-backend idle keep-alive pool size": the limit is per route and generation |

Why these bounds are enough to be interesting: two admins are needed for two
writers to compete and for a POST to report somebody else's table; one reader
beside them sees every order of lock steps (more threads are covered by the
proofs). Four flags allow a nested triple with a duplicate. Two requests are
enough for log and counter to be in different orders, and for a reload between
one request's match and its line. One reload makes a request use a replaced
transport; transports share no state, so the passing run needs one prefix, and
two are used where two routes share a backend. Two requests let one give its
connection to the other while that dials; over h2c they share a dial, and a
connection if it takes two, or need a second one if it takes one or is going; a
pool of one is full after one request. `MaxFlags`, `MaxReplace`, `MaxStreams`,
`MaxDials` (over HTTP/1.1 the dials a transport has in progress, those nobody
waits for included) and `MaxConns` are the only bounds on counters; `MaxConns` is so large that no
transport of the passing run ever has that many connections. Threads and messages
of `Holder` loop for ever; requests of `Gateway` and `Lifecycle` are served once,
and these runs, like `flags`, may end (deadlock is not checked there). Symmetry
is used in `holder` (admins) and `gateway` (requests), for safety only.

### Fairness

- `Holder`: a runnable goroutine is scheduled (weak fairness of each handler);
  competing writers queue on the `sync.Mutex` inside the RWMutex, whose
  starvation mode hands it over in order (strong fairness of `WriteLock`).
- `Lifecycle`: both goroutines run and timers (50 ms, 5 s) fire. Requests need
  not finish, clients need not send, no signal need come.
- `Transport`: a request with a transport goes on to a connection or a dial,
  timers fire, and a dial, waited for or not, ends in a connection or an error
  (the kernel gives up). Backends owe nothing: not to read a request, not to
  send headers, not to end a body, not to close a connection.

## 4. Proofs

All for arbitrary constants, under the assumptions named in the modules.

- `RoutingProofs`: `Rank`, the position the stable sort gives a route, is a
  bijection (`RankBijection`: it is monotone in a strict total order, and an
  injection of a finite set into itself is onto); hence `NewRouterSorts`; hence
  the first match in the router is the longest (`MatchIsLongest`), unique as
  two prefixes of one path with one length are equal (`SamePrefix`), hence
  independent of the input's order (`OrderIrrelevant`).
- `RouteFlagsProofs`: `IndInv` says the lists are typed, the routes are what
  `parseRouteFlags` makes of flags that all passed, and the router is
  `NewRouter` of an accepted list; all six of the run's properties follow.
  `RoutesStable` needs besides that a backend that was accepted is rendered to a
  text that parses to itself (`RenderedParses`).
  `SplitsAtFirstArrow` rests on `SplitAtFirst`: the least place where an arrow
  starts exists, and a prefix cut there holds no arrow.
- `HolderProofs`: `IndInv` = `TypeOK` (the mutex knows exactly the threads
  between RLock and RUnlock) /\ `LockInv` (the writer field names the thread
  between announcement and unlock; no reader inside at the swap) /\
  `OnlyValidTables` /\ `LocalsInv` (what `next` and `cur` hold at which step)
  /\ `SeenInv` (the active table counts as seen by every open call) /\
  `FreshTable` /\ `AnswerInv`. `RaceFree` alone is not inductive: it needs to
  know who owns the mutex; `FreshTable` needs `SeenInv` for the moment of the
  copy. `HolderImplementsTable` maps Copy to Take, Swap to Install, the answers
  to Close, and everything else to a stutter.
- `LifecycleProofs`: `IndInv` adds to the properties what each place of `run()`
  knows (`MainInv`), what the channel can hold (`ChannelInv`: nil only after
  Shutdown), which connections there can be (`ConnInv`: none before the bind,
  none open after an orderly drain, none harmed before `run()` has returned)
  and what the ledger holds (`LedgerInv`: an answer exactly in the phases after
  it, a line for every request past its record). `OrderlyStopDrains` needs the
  last two together: at an orderly exit no connection is open, a closed
  connection's request is closed or aborted, and a closed one has its line.
  `BootLineFirst` follows from `MainInv` and `ConnInv`.

- `TransportProofs`: `IndInv` = `TypeInv` (with `ReqInv`: a request that is not
  out has a transport of a table installed so far, and one on a connection names
  it) /\ `PoolInv` of every transport: `ConnInv` of each connection (open if
  anybody is on it, no more on it than it takes, going only over h2c and with
  somebody on it), `DialsShared`, and at most `MaxIdle` idle over HTTP/1.1.
  `BusyConnsOpen` alone is not inductive: that an HTTP/1.1 connection is handed
  over or pooled whole needs that it was not going, and that closing it harms
  nobody else needs that its request was alone on it (`Alone`). A step concerns one
  transport (`StepAt`) and one connection of it (`OneConn`); `ConnStep` lists what
  may happen to a connection, `Gone` and `Boarded` what a move of requests does to
  the sets, `Leaving` covers every step by which a request leaves a connection.
  `OldPoolsOnlyShrink` needs of it that only a connection in use is told to go:
  every step that opens a connection names a request or a dial of its transport.
- `GatewayProofs`: `IndInv` = `TypeInv` /\ `ReqInv` of every request /\ `LogInv`
  /\ `MetricsMatchLog`. `ReqInv` says what a request knows at each stage:
  `WritersAgree` (before the first status every layer holds the default and the
  client has seen nothing; afterwards every layer that is on holds the client's
  status, and always the same route), `Entered` (ID and request span), `Handed`
  (route, outbound ID, trace, path) and when a span may be open. `LogInv` says
  that every line is still what its request would write, and that logged
  requests have exactly one. `ObserversAgree` is not inductive as it stands: it
  speaks of the line and the ended span, and both are copies of a writer layer
  taken earlier. The writers are dealt with once (`FirstStatus`, `BodyWritten`,
  `RouteStamped`), then a record is taken through each stage, then the frames
  (`ReqFrame`, `LogFrame`, `MetricsFrame`) lift that to all requests. The facts
  about the called route come from `DispatchConfigured` of `RoutingProofs`.
  `GatewayImplementsLedger`: every step moves one request (`EveryStep`);
  `EarlyLedger` maps the steps up to the answer and the panic, `LateLedger` the
  line and the close; hand-over, backend reply and count are stutters.

The assumptions on constants: `Transport` takes finitely many clients, `Gateway`
route lists that `NewRouter` accepts (it refuses all others), strings over one
alphabet and positive status codes; the marks `None` and `NoID` are none of the
values they stand beside. The number of requests, the messages, the route lists
and the status codes are otherwise arbitrary.

Every `IndInv` was also checked by TLC on the run's instance, `Transport`'s with
three requests, too.

Only model-checked: the liveness properties (`EveryCallAnswered`,
`StopsOnSignal`, `ServeFailureEnds`, `HeaderOutcome`, `DialWaitsEnd`,
`OldPoolsDrain`), as fairness is out of the prover's reach. Every safety
property of a passing run, the action property `OldPoolsOnlyShrink` and both
refinements are proved.

## 5. Left out, and other observations

Not modelled: JSON, log and error texts, times and durations; the Host header
and the joining of a backend URL's own path; the W3C trace header codec,
sampling, exporter and batching (the OTel SDK's); histogram buckets; keep-alive
of client connections (a connection carries one request); 1xx responses (the
reverse proxy of Go 1.18 does not forward them; with a newer toolchain they
would meet `statusRecorder`'s first-status-wins rule); the request target `*`
(`OPTIONS *`); a reply that comes before the upload has ended; what an HTTP/2
transport does beyond dials, streams and GOAWAY (flow control, pings, settings
that change); compose files, scripts, measurement data.

What the timeouts do not cover: the response-header timeout begins when the
request has been written, so neither a stalled upload nor a slow dial is bounded
by `--backend-timeout` (no dial timeout is set either, only the kernel's limit
remains); `HeaderOutcome` says only what begins at "waiting", and not that a
request is answered: one that is safe to repeat may be sent again after each lost
connection, without a limit in net/http.

Where text and code differ without a run of their own: `parseRouteFlags` says
"http/https" and accepts any scheme; `PoolConfig`'s comment says a zero falls
back to 2, the code takes 128; `newReverseProxy`'s comment says the Host header
is rewritten, the stock director leaves it; the tracing comment promises a
`gateway.correlation_id` attribute that is not set; POST `/admin/routes` accepts a
prefix without a leading `/`, which `--route` refuses and no path matches;
`proxy.Handler.ServeHTTP` says of the correlation ID that "the backend sees the
same value the gateway received or minted", which it does not if the client's
Connection header names it (`OneCorrelationID` makes that exception).

## 6. Plan

Done: Routing, RouteFlags, Holder (with RouteTable), Gateway, Lifecycle,
Transport; then the proofs of the first three and of Lifecycle; then the request
ledger, its refinement by Gateway and its composition with Lifecycle,
trace-context propagation, the mux's redirect and hop-by-hop headers in Gateway,
bootstrap and boot line in Lifecycle, dials, hand-overs, retries, stream limits
and GOAWAY in Transport; then the proofs of
Transport, of Gateway with its refinement, and of the rest of RouteFlags.

Next, in order:

1. What the ledger itself promises (an answer once given is final, one line per
   recorded request) proved of `RequestLedger`, so that it holds of every
   module that implements or uses it.
2. The safety half of the liveness arguments, where it says something of its
   own: who holds what a waiting goroutine of `Holder` waits for, and what a
   request waiting for headers in `Transport` can still be ended by.
