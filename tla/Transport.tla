----------------------------- MODULE Transport -----------------------------
(***************************************************************************)
(* The upstream side: the transport each route's reverse proxy owns, the   *)
(* connections it keeps, what the pool and timeout flags do to them, and   *)
(* what Holder.Replace leaves behind.  Replace builds one transport per    *)
(* route of the new table and closes none of the old ones, so a transport  *)
(* is named by the generation of its table and its prefix.  How a          *)
(* transport uses its settings is net/http's and x/net/http2's doing: over *)
(* HTTP/1.1 a request without an idle connection dials, and takes whatever *)
(* comes first, its own dial or a connection another request gives back;   *)
(* over HTTP/2 requests share connections, up to the streams the backend   *)
(* allows on one, and they share a dial, which is the first one's.         *)
(***************************************************************************)
EXTENDS Integers, Sequences, FiniteSetsExt

CONSTANTS
  Requests,     \* clients, one request at a time each
  Prefixes,     \* route prefixes
  Tables,       \* route tables: functions from Prefixes to backends
  InitialTable, \* the one the flags give
  PoolFlag,     \* --upstream-max-idle-conns
  IdleFlag,     \* --upstream-idle-timeout, in seconds
  TimeoutFlag,  \* --backend-timeout, in seconds; 0 is no timeout
  MaxStreams,   \* bound: requests backends take at once on an HTTP/2 connection
  MaxReplace,   \* bound: replacements of the table
  MaxDials,     \* bound: dials an HTTP/1.1 transport has in progress
  MaxConns,     \* bound: connections a transport has at once
  None

ASSUME ConfigAssumption ==
  /\ IsFiniteSet(Requests) /\ InitialTable \in Tables
  /\ PoolFlag \in Int /\ IdleFlag \in Int /\ TimeoutFlag \in Nat
  /\ MaxStreams \in Nat \ {0}
  /\ MaxReplace \in Nat /\ MaxDials \in Nat \ {0} /\ MaxConns \in Nat \ {0}

VARIABLES
  protocol, \* "http1", or "h2c" with --upstream-h2c; fixed at boot
  streams,  \* requests a connection takes at once: one over HTTP/1.1, over HTTP/2
            \* what the backends allow
  tables,   \* the tables installed so far; the last one is active
  conn,     \* each transport's connections: "closed", "open", or "going", which
            \* an HTTP/2 one is from a GOAWAY to the end of its last request
  orphans,  \* HTTP/1.1 dials in progress that no request waits for any more
  req       \* each client's request: where it is, its transport and connection

upstream == <<protocol, streams>>
vars == <<upstream, tables, conn, orphans, req>>

Transports == (1..MaxReplace + 1) \X Prefixes
Conns == 1..MaxConns

ASSUME NoneAssumption == None \notin Transports

\* (mutants) a bare http.Transport's limit; no default for a zero idle timeout;
\* no response-header timeout
MaxIdleStdlib == 2
IdleTimeoutAsGiven == IF protocol = "h2c" THEN 0 ELSE IdleFlag
ResponseHeaderTimeoutUnset == 0

\* newHTTP1Transport's defaults, and the settings newH2CTransport leaves out.
MaxIdle == IF PoolFlag <= 0 THEN 128 ELSE PoolFlag
IdleTimeout == IF protocol = "h2c" THEN 0
               ELSE IF IdleFlag <= 0 THEN 90 ELSE IdleFlag
ResponseHeaderTimeout == IF protocol = "h2c" THEN 0 ELSE TimeoutFlag

Backend(tr) == tables[tr[1]][tr[2]]
Replaced(tr) == tr[1] < Len(tables)

\* Who waits for a dial of tr, of their own or of another request, and who is
\* on connection c of tr.
Connected == {"sending", "waiting", "body"}
Diallers(tr) == {r \in Requests : req[r].at = "dialling" /\ req[r].tr = tr}
Joiners(tr) == {r \in Requests : req[r].at = "joining" /\ req[r].tr = tr}
Users(tr, c) ==
  {r \in Requests : req[r].at \in Connected /\ req[r].tr = tr /\ req[r].on = c}

\* Connections that are open, that nobody uses, that take another request.
Open(tr) == {c \in Conns : conn[tr][c] # "closed"}
Idle(tr) == {c \in Conns : conn[tr][c] = "open" /\ Users(tr, c) = {}}
Room(tr) == {c \in Conns : conn[tr][c] = "open" /\ Cardinality(Users(tr, c)) < streams}

Out == [at |-> "out", tr |-> None, on |-> 0]

Init ==
  /\ protocol \in {"http1", "h2c"}
  /\ streams \in IF protocol = "h2c" THEN 1..MaxStreams ELSE {1}
  /\ tables = <<InitialTable>>
  /\ conn = [tr \in Transports |-> [c \in Conns |-> "closed"]]
  /\ orphans = [tr \in Transports |-> 0]
  /\ req = [r \in Requests |-> Out]

\* The requests of a set go to a place, or are over; one gets a connection.
Go(rs, at) ==
  [r \in Requests |-> IF r \in rs THEN [req[r] EXCEPT !.at = at, !.on = 0] ELSE req[r]]
Over(rs) == [r \in Requests |-> IF r \in rs THEN Out ELSE req[r]]
Board(r, c) == [req EXCEPT ![r] = [@ EXCEPT !.at = "sending", !.on = c]]
At(r, at) == [req EXCEPT ![r] = [@ EXCEPT !.at = at]]

\* A connection opens or closes.  One that r leaves whole stays, unless it is
\* going and r was its last request; one that r breaks off is of no use any
\* more, but over HTTP/2 only the stream is.
NewConn(tr) == CHOOSE c \in Conns : conn[tr][c] = "closed"
Set(tr, c, state) == [conn EXCEPT ![tr] = [@ EXCEPT ![c] = state]]
Leave(r) ==
  LET tr == req[r].tr
      c  == req[r].on
  IN  IF conn[tr][c] = "going" /\ Users(tr, c) = {r} THEN Set(tr, c, "closed") ELSE conn
BreakOff(r) ==
  IF protocol = "h2c" THEN Leave(r) ELSE Set(req[r].tr, req[r].on, "closed")

-----------------------------------------------------------------------------
\* (mutant) the handler of the boot for ever
ActiveBoot == 1
Active == Len(tables)

\* Holder.ServeHTTP copies the active handler; the match picks its proxy.
Take(r, p) ==
  /\ req[r].at = "out"
  /\ req' = [req EXCEPT ![r] = [at |-> "taken", tr |-> <<Active, p>>, on |-> 0]]
  /\ UNCHANGED <<upstream, tables, conn, orphans>>

\* RoundTrip finds a connection.  The table may have been replaced since Take.
Reuse(r) ==
  /\ req[r].at = "taken"
  /\ \E c \in Room(req[r].tr) : req' = Board(r, c)
  /\ UNCHANGED <<upstream, tables, conn, orphans>>

\* (mutant) over HTTP/2, too, every request dials for itself
DialUnshared(r) ==
  /\ req[r].at = "taken" /\ Room(req[r].tr) = {}
  /\ Cardinality(Diallers(req[r].tr)) + orphans[req[r].tr] < MaxDials
  /\ req' = Go({r}, "dialling")
  /\ UNCHANGED <<upstream, tables, conn, orphans>>

\* It does not: it dials, or over HTTP/2 joins the dial in progress.
Dial(r) ==
  LET tr == req[r].tr
  IN  /\ req[r].at = "taken" /\ Room(tr) = {}
      /\ IF protocol = "h2c"
         THEN req' = Go({r}, IF Diallers(tr) = {} THEN "dialling" ELSE "joining")
         ELSE /\ Cardinality(Diallers(tr)) + orphans[tr] < MaxDials
              /\ req' = Go({r}, "dialling")
      /\ UNCHANGED <<upstream, tables, conn, orphans>>

\* The dial succeeds.  Over HTTP/2 all who wait for it look for a connection
\* again: the new one may not have room for all of them.
DialDone(r) ==
  LET tr == req[r].tr
      c  == NewConn(tr)
  IN  /\ req[r].at = "dialling" /\ Open(tr) # Conns
      /\ conn' = Set(tr, c, "open")
      /\ req' = IF protocol = "h2c" THEN Go({r} \cup Joiners(tr), "taken") ELSE Board(r, c)
      /\ UNCHANGED <<upstream, tables, orphans>>

\* The dial fails: 502 for all who wait for it.
DialFail(r) ==
  /\ req[r].at = "dialling"
  /\ req' = Over({r} \cup Joiners(req[r].tr))
  /\ UNCHANGED <<upstream, tables, conn, orphans>>

\* (mutant) the others are left waiting
DialCancelStranding(r) ==
  /\ req[r].at = "dialling"
  /\ req' = Over({r})
  /\ orphans' = IF protocol = "h2c" THEN orphans ELSE [orphans EXCEPT ![req[r].tr] = @ + 1]
  /\ UNCHANGED <<upstream, tables, conn>>

\* The client whose dial it is goes away.  Over HTTP/1.1 the dial goes on for
\* nobody.  Over HTTP/2 it runs in that client's context and ends with it; the
\* others dial again or, with Go before 1.19, fail too.
DialCancel(r) ==
  LET tr == req[r].tr
  IN  /\ req[r].at = "dialling"
      /\ \/ /\ protocol = "http1" /\ req' = Over({r})
            /\ orphans' = [orphans EXCEPT ![tr] = @ + 1]
         \/ /\ protocol = "h2c" /\ UNCHANGED orphans
            /\ \/ req' = Over({r} \cup Joiners(tr))
               \/ req' = [Go(Joiners(tr), "taken") EXCEPT ![r] = Out]
      /\ UNCHANGED <<upstream, tables, conn>>

\* The request, with its body, is written; the header timeout begins.
Sent(r) ==
  /\ req[r].at = "sending" /\ req' = At(r, "waiting")
  /\ UNCHANGED <<upstream, tables, conn, orphans>>

Headers(r) ==
  /\ req[r].at = "waiting" /\ req' = At(r, "body")
  /\ UNCHANGED <<upstream, tables, conn, orphans>>

\* No headers in time: 502.
HeaderTimeout(r) ==
  /\ req[r].at = "waiting" /\ ResponseHeaderTimeout > 0
  /\ req' = Over({r}) /\ conn' = BreakOff(r)
  /\ UNCHANGED <<upstream, tables, orphans>>

\* The body is copied.  An HTTP/1.1 connection goes to a request that is
\* dialling, whose dial goes on for nobody; ...
HandOver(r) ==
  LET tr == req[r].tr
  IN  /\ req[r].at = "body" /\ protocol = "http1"
      /\ \E q \in Diallers(tr) : req' = [Board(q, req[r].on) EXCEPT ![r] = Out]
      /\ orphans' = [orphans EXCEPT ![tr] = @ + 1]
      /\ UNCHANGED <<upstream, tables, conn>>

\* ... or back to the pool, or is closed if the pool is full.
BodyDone(r) ==
  LET tr == req[r].tr
  IN  /\ req[r].at = "body"
      /\ protocol = "http1" => Diallers(tr) = {}
      /\ req' = Over({r})
      /\ conn' = IF protocol = "http1" /\ Cardinality(Idle(tr)) >= MaxIdle
                 THEN BreakOff(r) ELSE Leave(r)
      /\ UNCHANGED <<upstream, tables, orphans>>

\* A dial nobody waits for succeeds: its connection goes to a request that is
\* dialling, whose own dial is the orphan now, or to the pool, or is closed.
OrphanUp(tr) ==
  LET c == NewConn(tr)
  IN  /\ orphans[tr] > 0 /\ Open(tr) # Conns
      /\ \/ /\ \E q \in Diallers(tr) : req' = Board(q, c)
            /\ conn' = Set(tr, c, "open") /\ UNCHANGED orphans
         \/ /\ Diallers(tr) = {} /\ UNCHANGED req
            /\ orphans' = [orphans EXCEPT ![tr] = @ - 1]
            /\ conn' = IF Cardinality(Idle(tr)) >= MaxIdle THEN conn ELSE Set(tr, c, "open")
      /\ UNCHANGED <<upstream, tables>>

OrphanFail(tr) ==
  /\ orphans[tr] > 0 /\ orphans' = [orphans EXCEPT ![tr] = @ - 1]
  /\ UNCHANGED <<upstream, tables, conn, req>>

\* A backend drops a busy connection: every request on it fails, ...
ConnLost(r) ==
  /\ req[r].at \in Connected
  /\ req' = Over(Users(req[r].tr, req[r].on))
  /\ conn' = Set(req[r].tr, req[r].on, "closed")
  /\ UNCHANGED <<upstream, tables, orphans>>

\* ... or is tried again on the same transport, where it is safe to repeat and
\* nothing came back; over HTTP/2 if the backend refuses the stream, or does not
\* count it among those it finishes after a GOAWAY.
Retry(r) ==
  /\ req[r].at \in {"sending", "waiting"}
  /\ req' = Go({r}, "taken") /\ conn' = BreakOff(r)
  /\ UNCHANGED <<upstream, tables, orphans>>

\* A client goes away.  A stream that the backend resets ends like this, too.
ClientGone(r) ==
  /\ req[r].at \in {"taken", "joining"} \cup Connected
  /\ req' = Over({r})
  /\ conn' = IF req[r].at \in Connected THEN BreakOff(r) ELSE conn
  /\ UNCHANGED <<upstream, tables, orphans>>

\* GOAWAY: an HTTP/2 connection takes no more requests and finishes those it has.
GoAway(tr) ==
  /\ protocol = "h2c"
  /\ \E c \in Open(tr) \ Idle(tr) : conn' = Set(tr, c, "going")
  /\ UNCHANGED <<upstream, tables, orphans, req>>

\* A backend closes an idle connection.
PeerClose(tr) ==
  /\ \E c \in Idle(tr) : conn' = Set(tr, c, "closed")
  /\ UNCHANGED <<upstream, tables, orphans, req>>

\* An idle connection reaches IdleConnTimeout; 0 means it never does.
IdleExpire(tr) == IdleTimeout > 0 /\ PeerClose(tr)

\* (mutant) the replaced transports are closed
ReplaceClosing(tb) ==
  /\ Len(tables) <= MaxReplace
  /\ tables' = Append(tables, tb)
  /\ conn' = [tr \in Transports |-> [c \in Conns |-> "closed"]]
  /\ UNCHANGED <<upstream, orphans, req>>

\* Holder.Replace: new transports; the old ones stay as they are.
Replace(tb) ==
  /\ Len(tables) <= MaxReplace
  /\ tables' = Append(tables, tb)
  /\ UNCHANGED <<upstream, conn, orphans, req>>

RoundTrip(r) ==
  \/ Reuse(r) \/ Dial(r) \/ DialDone(r) \/ DialFail(r) \/ DialCancel(r)
  \/ Sent(r) \/ Headers(r) \/ HeaderTimeout(r) \/ HandOver(r) \/ BodyDone(r)
  \/ ConnLost(r) \/ Retry(r) \/ ClientGone(r)

Next ==
  \/ \E r \in Requests : RoundTrip(r) \/ \E p \in Prefixes : Take(r, p)
  \/ \E tr \in Transports :
       OrphanUp(tr) \/ OrphanFail(tr) \/ IdleExpire(tr) \/ PeerClose(tr) \/ GoAway(tr)
  \/ \E tb \in Tables : Replace(tb)

\* Timers fire and a dial ends one way or the other.  Backends owe nothing:
\* neither to read a request, nor headers, nor the end of a body, nor the close
\* of a connection.
Fairness ==
  /\ \A r \in Requests : /\ WF_vars(Reuse(r) \/ Dial(r)) /\ WF_vars(DialDone(r) \/ DialFail(r))
                         /\ WF_vars(HeaderTimeout(r))
  /\ \A tr \in Transports : WF_vars(OrphanUp(tr) \/ OrphanFail(tr)) /\ WF_vars(IdleExpire(tr))

Spec == Init /\ [][Next]_vars
FairSpec == Spec /\ Fairness

-----------------------------------------------------------------------------
(***************************************************************************)
(* Properties.                                                             *)
(***************************************************************************)
Places == {"out", "taken", "dialling", "joining"} \cup Connected

\* A request is on a transport of a table that was installed.  An HTTP/2
\* transport has one dial in progress at most, and whoever joined a dial has one
\* to wait for; only an HTTP/1.1 transport has dials nobody waits for.
DialsShared(tr) ==
  /\ protocol = "http1" => Joiners(tr) = {}
  /\ protocol = "h2c" =>
       /\ orphans[tr] = 0 /\ \A q, r \in Diallers(tr) : q = r
       /\ Joiners(tr) # {} => Diallers(tr) # {}
TypeOK ==
  /\ Len(tables) \in 1..MaxReplace + 1
  /\ \A r \in Requests :
       /\ req[r].at \in Places
       /\ req[r].at # "out" => req[r].tr \in Transports /\ req[r].tr[1] <= Len(tables)
  /\ \A tr \in Transports : orphans[tr] \in Nat /\ DialsShared(tr)

\* ADR-0008: "in-flight requests on the previous routes complete normally":
\* whatever is replaced, a request in progress keeps an open connection, alone
\* over HTTP/1.1, with no more others than the backend allows over HTTP/2; and a
\* connection that was told to go is kept for its requests only.
BusyConnsOpen ==
  \A tr \in Transports, c \in Conns :
    /\ Users(tr, c) # {} => conn[tr][c] # "closed"
    /\ Cardinality(Users(tr, c)) <= streams
    /\ conn[tr][c] = "going" => Users(tr, c) # {}

\* The flag is obeyed: no transport keeps more idle connections than it says,
\* whether they come back from requests or from dials that came too late.
PoolBound ==
  protocol = "http1" /\ PoolFlag > 0 =>
    \A tr \in Transports : Cardinality(Idle(tr)) <= PoolFlag

\* --backend-timeout over HTTP/1.1: a request that was sent does not wait for its
\* headers for ever, even if the backend says nothing.  It may be sent again.
HeaderOutcome ==
  TimeoutFlag > 0 =>
    \A r \in Requests :
      protocol = "http1" /\ req[r].at = "waiting" ~> req[r].at # "waiting"

\* Nobody waits for a dial for ever: not the request that started it, nor those
\* that joined it over HTTP/2, also when the client whose dial it is goes away.
DialWaitsEnd ==
  \A r \in Requests :
    req[r].at \in {"dialling", "joining"} ~> req[r].at \notin {"dialling", "joining"}

\* What the flag's help text says without exception: "per-request response-header
\* timeout on outbound requests to backends".
BackendTimeoutObeyed ==
  TimeoutFlag > 0 =>
    \A r \in Requests : req[r].at = "waiting" ~> req[r].at # "waiting"

\* A replaced HTTP/1.1 transport, which nothing closes, gives its idle connections
\* back for good all the same, even with --upstream-idle-timeout=0.
OldPoolsDrain ==
  \A tr \in Transports :
    [](protocol = "http1" /\ Replaced(tr) => <>[](Idle(tr) = {}))

\* A replaced transport nobody uses or dials for any more stays so, and opens no
\* connection again: with h2c, where no idle timeout is set, what a reload leaves
\* behind is bounded by what was open when its last request ended.
Abandoned(tr) ==
  Replaced(tr) /\ orphans[tr] = 0 /\ \A r \in Requests : req[r].tr # tr
OldPoolsOnlyShrink ==
  [][\A tr \in Transports : Abandoned(tr) => Abandoned(tr)' /\ Open(tr)' \subseteq Open(tr)]_vars

\* An inductive invariant that implies the safety properties above: ...
ReqSet == [at : Places, tr : Transports \cup {None}, on : Conns \cup {0}]
ReqInv ==
  /\ req \in [Requests -> ReqSet]
  /\ \A r \in Requests :
       /\ req[r].at # "out" => req[r].tr \in Transports /\ req[r].tr[1] <= Len(tables)
       /\ req[r].at \in Connected => req[r].on \in Conns
TypeInv ==
  /\ protocol \in {"http1", "h2c"}
  /\ streams \in Nat \ {0} /\ (protocol = "http1" => streams = 1)
  /\ tables \in Seq(Tables) /\ Len(tables) \in 1..MaxReplace + 1
  /\ conn \in [Transports -> [Conns -> {"closed", "open", "going"}]]
  /\ orphans \in [Transports -> Nat]
  /\ ReqInv

\* ... each connection is right, and so are the dials and the pool.
ConnInv(tr, c) ==
  /\ Users(tr, c) # {} => conn[tr][c] # "closed"
  /\ Cardinality(Users(tr, c)) <= streams
  /\ conn[tr][c] = "going" => protocol = "h2c" /\ Users(tr, c) # {}
PoolInv(tr) ==
  /\ \A c \in Conns : ConnInv(tr, c)
  /\ DialsShared(tr)
  /\ protocol = "http1" => Cardinality(Idle(tr)) <= MaxIdle

IndInv == TypeInv /\ \A tr \in Transports : PoolInv(tr)

\* What the flag's help text says: "per-backend idle keep-alive pool size".
\* The limit is per transport: routes and tables that share a backend add up.
PerBackendPoolBound ==
  LET Of(b) == {tr \in Transports : tr[1] <= Len(tables) /\ Backend(tr) = b}
  IN  PoolFlag > 0 /\ protocol = "http1" =>
        \A tb \in Tables, p \in Prefixes :
          MapThenSumSet(LAMBDA tr : Cardinality(Idle(tr)), Of(tb[p])) <= PoolFlag
=============================================================================
