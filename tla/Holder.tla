------------------------------- MODULE Holder ------------------------------
(***************************************************************************)
(* The hot-reloadable route table: proxy.Holder and the two endpoints that *)
(* reach it, the catch-all proxy path (Holder.ServeHTTP) and /admin/routes *)
(* (RoutesAdmin: GET, POST, anything else).  Every thread is one client    *)
(* connection: it sends a call, the handler runs, the reply goes out, and  *)
(* the next call may follow.  Between any two steps of a handler the other *)
(* threads may run; what a handler does on its own data is one step.       *)
(***************************************************************************)
EXTENDS Routing, RWMutex

CONSTANTS
  Tokens,         \* the alphabet of paths, prefixes and URLs
  Requests,       \* threads that send requests to be proxied
  Admins,         \* threads that call /admin/routes
  Paths,          \* request paths
  Bodies,         \* POST bodies: [json, routes]
  InitialRoutes,  \* what the --route flags gave at boot
  None            \* no handler, no reply

Threads == Requests \cup Admins

\* An accepted route list to boot from, bodies of the shape the JSON decoder
\* gives, and threads that are not taken for something else.
ASSUME InitialAssumption ==
  InitialRoutes \in Seq(RouteSet(Tokens)) /\ ValidRoutes(InitialRoutes)
ASSUME InputAssumption ==
  /\ "http:" \in Tokens
  /\ Paths \subseteq Seq(Tokens)
  /\ \A b \in Bodies : b.routes \in Seq(RouteSet(Tokens))
ASSUME ThreadsAssumption ==
  Requests \cap Admins = {} /\ NoWriter \notin Threads

VARIABLES
  current,   \* Holder.current
  mu,        \* Holder.mu
  pc,        \* where each thread's handler is; "idle" outside a call
  call,      \* the call being handled, or the last one
  next,      \* Replace's local: the Handler it built
  cur,       \* the local copy of Holder.current (ServeHTTP, Routes)
  reply,     \* what the last call was answered
  since      \* history: the handlers active since the call began, or, for a
             \* POST that has swapped, since its swap

vars == <<current, mu, pc, call, next, cur, reply, since>>

-----------------------------------------------------------------------------
(***************************************************************************)
(* postRoutes before Replace: decode, check, build the router.             *)
(***************************************************************************)
BodyRoutes(b) ==
  [i \in DOMAIN b.routes |->
     [prefix  |-> b.routes[i].prefix,
      backend |-> ParseURL(b.routes[i].backend).url]]

\* (mutant) NewRouter's validation is ignored
BodyOKUnchecked(b) ==
  /\ b.json
  /\ b.routes # <<>>
  /\ \A i \in DOMAIN b.routes : BackendOK(b.routes[i].backend)

BodyOK(b) ==
  /\ b.json
  /\ b.routes # <<>>
  /\ \A i \in DOMAIN b.routes : BackendOK(b.routes[i].backend)
  /\ ValidRoutes(BodyRoutes(b))

Calls(t) ==
  IF t \in Requests
  THEN [method : {"proxy"}, path : Paths]
  ELSE [method : {"GET", "OTHER"}] \cup [method : {"POST"}, body : Bodies]

\* What is sent back: an error status, or writeRoutes' rendering of a table.
Refused(code) == [status |-> code]
RoutesReply(h) == [status |-> 200, routes |-> h.router]

-----------------------------------------------------------------------------
Init ==
  /\ current = New(NewRouter(InitialRoutes))
  /\ mu = Unlocked
  /\ pc = [t \in Threads |-> "idle"]
  /\ call = [t \in Threads |-> None]
  /\ next = [t \in Threads |-> None]
  /\ cur = [t \in Threads |-> None]
  /\ reply = [t \in Threads |-> None]
  /\ since = [t \in Threads |-> {}]

Goto(t, from, to) == pc[t] = from /\ pc' = [pc EXCEPT ![t] = to]

FirstStep(c) ==
  CASE c.method \in {"proxy", "GET"} -> "rlock"
    [] c.method = "POST"             -> "post"
    [] OTHER                         -> "refuse"

\* A call comes in and its handler starts.
Arrive(t, c) ==
  /\ Goto(t, "idle", FirstStep(c))
  /\ call' = [call EXCEPT ![t] = c]
  /\ cur' = [cur EXCEPT ![t] = None]
  /\ reply' = [reply EXCEPT ![t] = None]
  /\ since' = [since EXCEPT ![t] = {current}]
  /\ UNCHANGED <<current, mu, next>>

\* RoutesAdmin, default branch: 405.
MethodNotAllowed(t) ==
  /\ Goto(t, "refuse", "idle")
  /\ reply' = [reply EXCEPT ![t] = Refused(405)]
  /\ UNCHANGED <<current, mu, call, next, cur, since>>

\* h.mu.RLock() in ServeHTTP and Routes.
ReadLock(t) ==
  /\ Goto(t, "rlock", "copy")
  /\ mu' = RLock(mu, t)
  /\ UNCHANGED <<current, call, next, cur, reply, since>>

\* (mutant) the handler built at boot is mounted instead of the Holder's
CopyBootHandler(t) ==
  /\ Goto(t, "copy", "runlock")
  /\ HoldsRead(mu, t)
  /\ cur' = [cur EXCEPT ![t] = New(NewRouter(InitialRoutes))]
  /\ UNCHANGED <<current, mu, call, next, reply, since>>

\* cur := h.current
Copy(t) ==
  /\ Goto(t, "copy", "runlock")
  /\ HoldsRead(mu, t)
  /\ cur' = [cur EXCEPT ![t] = current]
  /\ UNCHANGED <<current, mu, call, next, reply, since>>

\* (mutant) the RUnlock is forgotten
ReadUnlockMissing(t) ==
  /\ Goto(t, "runlock", "answer")
  /\ UNCHANGED <<current, mu, call, next, cur, reply, since>>

\* h.mu.RUnlock()
ReadUnlock(t) ==
  /\ Goto(t, "runlock", "answer")
  /\ mu' = RUnlock(mu, t)
  /\ UNCHANGED <<current, call, next, cur, reply, since>>

\* cur.ServeHTTP: match, stamp the route, hand over to the route's proxy.
ServeHTTP(t) ==
  /\ t \in Requests
  /\ Goto(t, "answer", "idle")
  /\ reply' = [reply EXCEPT ![t] = Dispatch(cur[t], call[t].path)]
  /\ UNCHANGED <<current, mu, call, next, cur, since>>

\* writeRoutes(w, h.Routes()), at the end of GET and of a successful POST.
WriteRoutes(t) ==
  /\ t \in Admins
  /\ Goto(t, "answer", "idle")
  /\ reply' = [reply EXCEPT ![t] = RoutesReply(cur[t])]
  /\ UNCHANGED <<current, mu, call, next, cur, since>>

\* postRoutes refuses the body: 400, and the table is left alone.
PostRefuse(t) ==
  /\ Goto(t, "post", "idle")
  /\ ~BodyOK(call[t].body)
  /\ reply' = [reply EXCEPT ![t] = Refused(400)]
  /\ UNCHANGED <<current, mu, call, next, cur, since>>

\* postRoutes accepts it; Replace builds the new Handler outside the lock.
PostBuild(t) ==
  /\ Goto(t, "post", "lock")
  /\ BodyOK(call[t].body)
  /\ next' = [next EXCEPT ![t] = New(NewRouter(BodyRoutes(call[t].body)))]
  /\ UNCHANGED <<current, mu, call, cur, reply, since>>

\* (mutant) the assignment is not protected by the lock
WriteLockMissing(t) ==
  /\ Goto(t, "lock", "swap")
  /\ UNCHANGED <<current, mu, call, next, cur, reply, since>>

\* h.mu.Lock(): announced, ...
WriteLock(t) ==
  /\ Goto(t, "lock", "acquire")
  /\ CanAnnounce(mu)
  /\ mu' = Announce(mu, t)
  /\ UNCHANGED <<current, call, next, cur, reply, since>>

\* ... and returning.
Acquire(t) ==
  /\ Goto(t, "acquire", "swap")
  /\ HoldsWrite(mu, t)
  /\ UNCHANGED <<current, mu, call, next, cur, reply, since>>

\* (mutant) the active Handler is given the new router, its proxies stay
SwapRouterOnly(t) ==
  /\ Goto(t, "swap", "unlock")
  /\ current' = [current EXCEPT !.router = next[t].router]
  /\ next' = [next EXCEPT ![t] = None]
  /\ UNCHANGED <<mu, call, cur, reply, since>>

\* h.current = next
Swap(t) ==
  /\ Goto(t, "swap", "unlock")
  /\ current' = next[t]
  /\ next' = [next EXCEPT ![t] = None]
  /\ since' = [u \in Threads |->
                 IF u = t THEN {next[t]}
                 ELSE IF pc[u] = "idle" THEN since[u]
                 ELSE since[u] \cup {next[t]}]
  /\ UNCHANGED <<mu, call, cur, reply>>

\* h.mu.Unlock(); postRoutes goes on to h.Routes().
WriteUnlock(t) ==
  /\ Goto(t, "unlock", "rlock")
  /\ mu' = Unlock(mu)
  /\ UNCHANGED <<current, call, next, cur, reply, since>>

\* The steps of a handler that has been called.
Handle(t) ==
  \/ MethodNotAllowed(t)
  \/ ReadLock(t) \/ Copy(t) \/ ReadUnlock(t) \/ ServeHTTP(t) \/ WriteRoutes(t)
  \/ PostRefuse(t) \/ PostBuild(t)
  \/ WriteLock(t) \/ Acquire(t) \/ Swap(t) \/ WriteUnlock(t)

Next == \E t \in Threads : Handle(t) \/ \E c \in Calls(t) : Arrive(t, c)

\* A runnable goroutine is scheduled; sync.Mutex (which admits the announcing
\* writers) goes into starvation mode and serves them in order.
Fairness == \A t \in Threads : WF_vars(Handle(t)) /\ SF_vars(WriteLock(t))

Spec == Init /\ [][Next]_vars
FairSpec == Spec /\ Fairness

-----------------------------------------------------------------------------
(***************************************************************************)
(* Properties.                                                             *)
(***************************************************************************)

\* A Handler that dispatches as the route list it was built from says: built
\* by New from a router NewRouter accepts and has sorted.
WellFormed(h) ==
  /\ h.router \in Seq(RouteSet(Tokens))
  /\ h = New(h.router)
  /\ ValidRoutes(h.router)
  /\ LengthDescending(h.router)

ReadSteps == {"rlock", "copy", "runlock", "answer"}
PostSteps == {"post", "lock", "acquire", "swap", "unlock"}

\* Where each thread can be, with which call, and that the mutex knows exactly
\* the threads between their RLock and their RUnlock.
TypeOK ==
  /\ pc \in [Threads -> {"idle", "refuse"} \cup ReadSteps \cup PostSteps]
  /\ \A t \in Threads : pc[t] # "idle" => call[t] \in Calls(t)
  /\ \A t \in Requests : pc[t] \in {"idle"} \cup ReadSteps
  /\ \A t \in Admins : pc[t] = "post" => call[t].method = "POST"
  /\ mu.readers \cup mu.waiting =
       {t \in Threads : pc[t] \in {"copy", "runlock"}}
  /\ mu \in [readers : SUBSET Threads, waiting : SUBSET Threads,
            writer : Admins \cup {NoWriter}]
  /\ DOMAIN call = Threads /\ DOMAIN next = Threads /\ DOMAIN cur = Threads
  /\ DOMAIN reply = Threads /\ DOMAIN since = Threads

\* The lock does its work: while one thread is at the assignment to h.current
\* no other thread is there too, and none reads h.current (no data race).
RaceFree ==
  \A t, u \in Threads :
    pc[t] = "swap" /\ t # u =>
      /\ pc[u] # "swap"
      /\ ~(pc[u] = "copy" /\ HoldsRead(mu, u))

\* The active table and every handler a thread still works with was accepted
\* by the validation: a refused body never becomes part of a table.
OnlyValidTables ==
  /\ WellFormed(current)
  /\ \A t \in Threads :
       /\ cur[t] # None => WellFormed(cur[t])
       /\ next[t] # None => WellFormed(next[t])

\* A proxied request is stamped with the longest matching prefix of one table
\* and sent to that route's own backend, whatever reloads happen meanwhile.
DispatchConsistent ==
  \A t \in Requests :
    (pc[t] = "idle" /\ reply[t] # None) =>
      IF Matching(cur[t].router, call[t].path) = {}
      THEN reply[t] = Unmatched
      ELSE IsLongestMatch(cur[t].router, call[t].path,
             [prefix |-> reply[t].route, backend |-> reply[t].backend])

\* The table a call works with was active during the call; the one a POST
\* reports is its own or one that replaced it since, never an older one.
FreshTable == \A t \in Threads : cur[t] # None => cur[t] \in since[t]

\* An inductive invariant that implies the four above: which steps own the
\* mutex, which locals hold a handler and of what kind, that the active table
\* counts as seen by every open call, and what an answer was computed from.
LockInv ==
  \A t \in Threads :
    /\ pc[t] \in {"acquire", "swap", "unlock"} <=> mu.writer = t
    /\ pc[t] \in {"swap", "unlock"} => mu.readers = {}
    /\ pc[t] = "runlock" => t \in mu.readers
    /\ ~(t \in mu.readers /\ t \in mu.waiting)

LocalsInv ==
  \A t \in Threads :
    /\ pc[t] \in {"lock", "acquire", "swap"} => WellFormed(next[t])
    /\ pc[t] \in {"runlock", "answer"} => WellFormed(cur[t])
    /\ pc[t] \notin {"idle", "runlock", "answer"} => cur[t] = None

SeenInv == \A t \in Threads : pc[t] # "idle" => current \in since[t]

AnswerInv ==
  \A t \in Requests :
    (pc[t] = "idle" /\ reply[t] # None) =>
      /\ WellFormed(cur[t]) /\ call[t].path \in Paths
      /\ reply[t] = Dispatch(cur[t], call[t].path)

IndInv ==
  /\ TypeOK /\ LockInv /\ OnlyValidTables /\ LocalsInv
  /\ SeenInv /\ FreshTable /\ AnswerInv

\* Every call is answered: readers and writers do not block each other for
\* ever, however many reloads and requests keep coming.
EveryCallAnswered == \A t \in Threads : pc[t] # "idle" ~> pc[t] = "idle"

\* The Holder implements the register of RouteTable.
Table == INSTANCE RouteTable WITH
  Callers <- Threads, Installers <- Admins, Usable <- WellFormed,
  table <- current, open <- [t \in Threads |-> pc[t] # "idle"], taken <- cur

\* Every step of a handler is an open, an install, a take or a close of the
\* abstract register, or changes nothing that it shows.
ImplementsTable == Table!Spec
=============================================================================
