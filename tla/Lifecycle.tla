----------------------------- MODULE Lifecycle -----------------------------
(***************************************************************************)
(* The process: run() in the main goroutine, ListenAndServe in its own,    *)
(* the signal context, the readiness flag, and the requests that are in    *)
(* progress when the process is told to stop.  A request goes through the  *)
(* handler chain as RequestLedger says, which module Gateway implements.   *)
(***************************************************************************)
EXTENDS FiniteSets, Integers, Sequences

CONSTANTS Requests   \* connections from outside, one request each

VARIABLES
  main,       \* where run() is
  exit,       \* the exit status run() leads to; -1 before it is decided
  booted,     \* the boot line is on stdout
  ctxDone,    \* SIGINT or SIGTERM has arrived
  srv,        \* the serving goroutine
  shutting,   \* http.Server is shutting down: its listener is closed
  serverErr,  \* the buffered channel between the goroutines
  ready,      \* readyState
  provider,   \* the OpenTelemetry tracer provider
  timedOut,   \* the 5 s of the graceful shutdown ran out
  conn,       \* each connection: "none", "open", "closed", or "cut" by the exit
  phase, answer, lines,  \* the requests, as in RequestLedger
  lostSpan    \* requests whose span ended after the provider was shut down

ledgerVars == <<phase, answer, lines>>
procVars == <<main, exit, booted, ctxDone, srv, shutting, serverErr, ready, provider, timedOut>>
reqVars == <<conn, phase, answer, lines, lostSpan>>
vars == <<procVars, reqVars>>

\* What a request is answered is Gateway's concern.
Ledger == INSTANCE RequestLedger WITH Answers <- {"answer"}, None <- "none"

\* Connections Shutdown waits for: accepted and silent, or being served.
InFlight == {r \in Requests : conn[r] = "open"}
Accepting == srv = "listening" /\ ~shutting

Init ==
  /\ main = "boot" /\ exit = -1 /\ booted = FALSE /\ ctxDone = FALSE
  /\ srv = "off" /\ shutting = FALSE /\ serverErr = <<>>
  /\ ready = 0 /\ provider = "off" /\ timedOut = FALSE
  /\ conn = [r \in Requests |-> "none"] /\ Ledger!Init /\ lostSpan = {}

Goto(from, to) == main = from /\ main' = to

-----------------------------------------------------------------------------
(***************************************************************************)
(* run()                                                                   *)
(***************************************************************************)

\* The flags, the routes and the router: built, or an error that ends run().
Configure ==
  /\ Goto("boot", "otel")
  /\ UNCHANGED <<exit, booted, ctxDone, srv, shutting, serverErr, ready, provider, timedOut, reqVars>>

BootFail ==
  /\ Goto("boot", "flush") /\ exit' = 1
  /\ UNCHANGED <<booted, ctxDone, srv, shutting, serverErr, ready, provider, timedOut, reqVars>>

\* --otel-enabled: a provider with its exporter and resource, or their error,
\* before the deferred shutdown is registered.  Without the flag: nothing.
Bootstrap ==
  /\ Goto("otel", "wired") /\ provider' \in {"off", "on"}
  /\ UNCHANGED <<exit, booted, ctxDone, srv, shutting, serverErr, ready, timedOut, reqVars>>

BootstrapFail ==
  /\ Goto("otel", "flush") /\ exit' = 1
  /\ UNCHANGED <<booted, ctxDone, srv, shutting, serverErr, ready, provider, timedOut, reqVars>>

\* The handler chain and the server are put together; the boot line.
bootBoot ==
  /\ Goto("wired", "start") /\ booted' = TRUE
  /\ UNCHANGED <<exit, ctxDone, srv, shutting, serverErr, ready, provider, timedOut, reqVars>>

\* (mutant) the goroutine is started ahead of the boot line
StartEarly ==
  /\ Goto("wired", "sleep") /\ srv' = "starting"
  /\ UNCHANGED <<exit, booted, ctxDone, shutting, serverErr, ready, provider, timedOut, reqVars>>

Start ==
  /\ Goto("start", "sleep") /\ srv' = "starting"
  /\ UNCHANGED <<exit, booted, ctxDone, shutting, serverErr, ready, provider, timedOut, reqVars>>

\* The 50 ms are over, whatever the other goroutine has done: markReady().
MarkReady ==
  /\ Goto("sleep", "select") /\ ready' = 1
  /\ UNCHANGED <<exit, booted, ctxDone, srv, shutting, serverErr, provider, timedOut, reqVars>>

\* (mutant) markNotReady() is forgotten
SelectDoneReady ==
  /\ ctxDone
  /\ Goto("select", "stopping")
  /\ UNCHANGED <<exit, booted, ctxDone, srv, shutting, serverErr, ready, provider, timedOut, reqVars>>

\* case <-ctx.Done(): markNotReady() ...
SelectDone ==
  /\ ctxDone
  /\ Goto("select", "stopping") /\ ready' = 0
  /\ UNCHANGED <<exit, booted, ctxDone, srv, shutting, serverErr, provider, timedOut, reqVars>>

\* ... and srv.Shutdown, which first closes the listener ...
Shutdown ==
  /\ Goto("stopping", "drain") /\ shutting' = TRUE
  /\ UNCHANGED <<exit, booted, ctxDone, srv, serverErr, ready, provider, timedOut, reqVars>>

\* (mutants) srv.Close() instead of Shutdown; Shutdown without a deadline
DrainedAtOnce ==
  /\ Goto("drain", "flush") /\ exit' = 0
  /\ UNCHANGED <<booted, ctxDone, srv, shutting, serverErr, ready, provider, timedOut, reqVars>>
DrainTimeoutNever ==
  /\ main = "drain" /\ InFlight = {}
  /\ UNCHANGED vars

\* ... and returns when no connection is active, or after 5 s; run() returns
\* nil either way.
Drained ==
  /\ InFlight = {}
  /\ Goto("drain", "flush") /\ exit' = 0
  /\ UNCHANGED <<booted, ctxDone, srv, shutting, serverErr, ready, provider, timedOut, reqVars>>

DrainTimeout ==
  /\ Goto("drain", "flush") /\ exit' = 0 /\ timedOut' = TRUE
  /\ UNCHANGED <<booted, ctxDone, srv, shutting, serverErr, ready, provider, reqVars>>

\* (mutant) the error is dropped
SelectErrNil ==
  /\ serverErr # <<>>
  /\ Goto("select", "flush") /\ ready' = 0 /\ exit' = 0
  /\ serverErr' = Tail(serverErr)
  /\ UNCHANGED <<booted, ctxDone, srv, shutting, provider, timedOut, reqVars>>

\* case err := <-serverErr: markNotReady(), return err.
SelectErr ==
  /\ serverErr # <<>>
  /\ Goto("select", "flush") /\ ready' = 0
  /\ exit' = IF Head(serverErr) = "err" THEN 1 ELSE 0
  /\ serverErr' = Tail(serverErr)
  /\ UNCHANGED <<booted, ctxDone, srv, shutting, provider, timedOut, reqVars>>

\* The deferred provider shutdown, bounded by 5 s of its own.
Flush ==
  /\ Goto("flush", "exiting")
  /\ provider' = IF provider = "on" THEN "down" ELSE provider
  /\ UNCHANGED <<exit, booted, ctxDone, srv, shutting, serverErr, ready, timedOut, reqVars>>

\* main() returns or calls os.Exit(1): what is in progress is cut.
Exit ==
  /\ Goto("exiting", "exited")
  /\ conn' = [r \in Requests |-> IF r \in InFlight THEN "cut" ELSE conn[r]]
  /\ UNCHANGED <<exit, booted, ctxDone, srv, shutting, serverErr, ready, provider, timedOut,
                 ledgerVars, lostSpan>>

Boot == Configure \/ BootFail \/ Bootstrap \/ BootstrapFail \/ bootBoot \/ Start \/ MarkReady

Main == \/ Boot \/ SelectDone \/ Shutdown \/ Drained \/ DrainTimeout
        \/ SelectErr \/ Flush \/ Exit

-----------------------------------------------------------------------------
(***************************************************************************)
(* The serving goroutine: ListenAndServe, then one send on serverErr.      *)
(***************************************************************************)
ServerGoto(from, to) ==
  /\ main # "exited" /\ srv = from /\ srv' = to
  /\ UNCHANGED <<main, exit, booted, ctxDone, shutting, ready, provider, timedOut, reqVars>>

\* Bound before Shutdown; a bind that fails is reported even if it came after.
Bind       == ~shutting /\ ServerGoto("starting", "listening") /\ UNCHANGED serverErr
BindFail   == ServerGoto("starting", "failed") /\ UNCHANGED serverErr
AcceptFail == ~shutting /\ ServerGoto("listening", "failed") /\ UNCHANGED serverErr

\* ErrServerClosed: Shutdown came before or after the bind.
Closed ==
  /\ shutting /\ UNCHANGED serverErr
  /\ ServerGoto("starting", "closed") \/ ServerGoto("listening", "closed")

\* (mutants) no return after the send; no send
SendErrTwice == ServerGoto("failed", "returned") /\ serverErr' = serverErr \o <<"err", "nil">>
SendErrNever == ServerGoto("failed", "returned") /\ UNCHANGED serverErr

SendErr == ServerGoto("failed", "returned") /\ serverErr' = Append(serverErr, "err")
SendNil == ServerGoto("closed", "returned") /\ serverErr' = Append(serverErr, "nil")

Server == Bind \/ BindFail \/ AcceptFail \/ Closed \/ SendErr \/ SendNil

-----------------------------------------------------------------------------
(***************************************************************************)
(* Outside: the signal, and the requests.                                  *)
(***************************************************************************)
Signal ==
  /\ ~ctxDone /\ main # "exited" /\ ctxDone' = TRUE
  /\ UNCHANGED <<main, exit, booted, srv, shutting, serverErr, ready, provider, timedOut, reqVars>>

Connect(r) ==
  /\ Accepting /\ main # "exited" /\ conn[r] = "none"
  /\ conn' = [conn EXCEPT ![r] = "open"]
  /\ UNCHANGED <<procVars, ledgerVars, lostSpan>>

\* ReadHeaderTimeout: a silent connection is closed.
HeaderTimeout(r) ==
  /\ conn[r] = "open" /\ phase[r] = "out"
  /\ conn' = [conn EXCEPT ![r] = "closed"]
  /\ UNCHANGED <<procVars, ledgerVars, lostSpan>>

\* An accepted connection is served even while the server is draining.
Arrive(r) ==
  /\ conn[r] = "open" /\ Ledger!Enter(r)
  /\ UNCHANGED <<procVars, conn, lostSpan>>

\* The chain at work, in its own goroutine; it ends with the process.
Handle(r) ==
  /\ conn[r] = "open"
  /\ Ledger!Answer(r, "answer") \/ Ledger!Record(r) \/ Ledger!Break(r)
  /\ UNCHANGED <<procVars, conn, lostSpan>>

\* The handler is left, by return or by panic, and with it the request's span.
Finish(r) ==
  /\ conn[r] = "open" /\ conn' = [conn EXCEPT ![r] = "closed"]
  /\ Ledger!Close(r) \/ Ledger!Unwind(r)
  /\ lostSpan' = IF provider = "down" THEN lostSpan \cup {r} ELSE lostSpan
  /\ UNCHANGED procVars

Outside == \E r \in Requests :
             Connect(r) \/ HeaderTimeout(r) \/ Arrive(r) \/ Handle(r) \/ Finish(r)

Next == Main \/ Server \/ Signal \/ Outside

\* Both goroutines are scheduled and timers fire; the outside owes nothing.
Fairness == WF_vars(Main) /\ WF_vars(Server)

Spec == Init /\ [][Next]_vars
FairSpec == Spec /\ Fairness

-----------------------------------------------------------------------------
(***************************************************************************)
(* Properties.                                                             *)
(***************************************************************************)
Waits == {"boot", "otel", "wired", "start", "sleep", "select", "stopping", "drain"}

\* The exit status is decided exactly when run() leaves its last wait, and the
\* one-slot channel never holds two results.
TypeOK ==
  /\ main \in Waits \cup {"flush", "exiting", "exited"}
  /\ exit \in -1..1 /\ (exit = -1 <=> main \in Waits)
  /\ srv \in {"off", "starting", "listening", "failed", "closed", "returned"}
  /\ Len(serverErr) <= 1   \* the send never blocks the serving goroutine
  /\ ready \in {0, 1} /\ provider \in {"off", "on", "down"}
  /\ booted \in BOOLEAN /\ ctxDone \in BOOLEAN /\ shutting \in BOOLEAN /\ timedOut \in BOOLEAN
  /\ conn \in [Requests -> {"none", "open", "closed", "cut"}]
  /\ phase \in [Requests -> {"out", "in", "answered", "recorded", "closed", "broken", "aborted"}]
  /\ answer \in [Requests -> {"answer", "none"}]
  /\ lines \in Seq([req : Requests, answer : {"answer"}])
  /\ lostSpan \subseteq Requests

\* run() returns nil only when it was told to stop, and an error only when the
\* boot or the server failed.
ExitStatusTruthful ==
  /\ exit = 0 => ctxDone
  /\ exit = 1 => srv \in {"off", "returned"} /\ ~shutting

\* Readiness is withdrawn before the listener closes or run() returns, and is
\* never given back: markReady cannot follow markNotReady.
ReadinessWithdrawn == shutting \/ exit # -1 => ready = 0

\* stdout begins with the boot line: no connection, hence no access line, comes
\* before it, however quickly the serving goroutine starts.
BootLineFirst == lines # <<>> \/ (\E r \in Requests : conn[r] # "none") => booted

Logged(r) == \E i \in DOMAIN lines : lines[i].req = r

\* An orderly stop waits for what is in progress.  Only if the 5 s ran out or the
\* server itself had failed may the exit cut a connection, lose a span, stop a
\* request half-way, or leave an answer that was given without its access line.
OrderlyStopDrains ==
  ~timedOut /\ ~(srv = "returned" /\ ~shutting) =>
    \A r \in Requests :
      /\ conn[r] # "cut" /\ r \notin lostSpan
      /\ main = "exited" => /\ phase[r] \in {"out", "closed", "aborted"}
                            /\ answer[r] # "none" => Logged(r)

\* An inductive invariant that implies the five above: what each place of run()
\* knows of the signal, the flag and the server ...
MainInv ==
  /\ main \in {"boot", "otel", "wired", "start"} => srv = "off"
  /\ srv = "off" => main \notin {"sleep", "select", "stopping", "drain"} /\ exit \in {-1, 1}
  /\ main = "start" \/ srv # "off" => booted
  /\ ready = 1 => main = "select"
  /\ main \in {"stopping", "drain"} => ctxDone
  /\ main = "drain" => shutting
  /\ shutting => ctxDone /\ main \in {"drain", "flush", "exiting", "exited"}
  /\ exit = 0 => shutting
  /\ exit = 1 => ~shutting
  /\ provider = "down" => main \in {"exiting", "exited"}

\* ... what the channel holds ...
ChannelInv ==
  /\ serverErr \in {<<>>, <<"err">>, <<"nil">>}
  /\ serverErr # <<>> => srv = "returned"
  /\ srv = "closed" \/ serverErr = <<"nil">> => shutting
  /\ exit = 1 => srv \in {"off", "returned"}

\* ... which connections there can be: none before the bind, none open after an
\* orderly drain, none harmed before run() has returned; ...
ConnInv ==
  /\ srv \in {"off", "starting"} => \A r \in Requests : conn[r] = "none"
  /\ exit = 0 /\ ~timedOut => InFlight = {}
  /\ main = "exited" => InFlight = {}
  /\ \A r \in Requests : conn[r] = "cut" \/ r \in lostSpan => main \in {"exiting", "exited"}
  /\ \A r \in Requests : /\ conn[r] = "none" => phase[r] = "out"
                         /\ conn[r] = "closed" => phase[r] \in {"out", "closed", "aborted"}

\* ... and what the ledger has: a line for every answer past its record.
LedgerInv ==
  /\ \A r \in Requests :
       /\ answer[r] # "none" <=> phase[r] \in {"answered", "recorded", "closed"}
       /\ phase[r] \in {"recorded", "closed"} => Logged(r)
  /\ \A i \in DOMAIN lines : phase[lines[i].req] # "out"

IndInv ==
  /\ TypeOK /\ MainInv /\ ChannelInv /\ ConnInv /\ LedgerInv
  /\ ReadinessWithdrawn /\ OrderlyStopDrains

\* A signal ends the process, even if requests never finish.
StopsOnSignal == ctxDone ~> main = "exited"

\* A server that cannot bind or serve ends the process.
ServeFailureEnds == srv = "failed" ~> main = "exited"

\* What ADR-0001 says ("ready once it has bound to the listen address") and the
\* comment of Readyz repeats.  The flag flips after 50 ms, bound or not.
ReadyMeansBound == ready = 1 => srv = "listening"

\* What the comment of readyState says: "a drain window returns 503 to the
\* kubelet while in-flight requests finish".  Shutdown closes the listener.
DrainAnswersProbes == main = "drain" /\ InFlight # {} => Accepting
=============================================================================
