-------------------------- MODULE LifecycleProofs --------------------------
(***************************************************************************)
(* Lifecycle's safety for any set of requests.  IndInv is inductive; the   *)
(* properties follow from it.                                              *)
(***************************************************************************)
EXTENDS Lifecycle, TLAPS

\* A process that has not booted satisfies the invariant.
LEMMA InitInd == Init => IndInv
<1> SUFFICES ASSUME Init PROVE IndInv
  OBVIOUS
<1>1. TypeOK
  <2>1. Len(serverErr) <= 1 /\ lines \in Seq([req : Requests, answer : {"answer"}])
    BY DEF Init, Ledger!Init
  <2>2. /\ booted \in BOOLEAN /\ ctxDone \in BOOLEAN
        /\ shutting \in BOOLEAN /\ timedOut \in BOOLEAN
    BY Zenon DEF Init
  <2>3. exit \in -1..1 /\ (exit = -1 <=> main \in Waits)
    BY DEF Init, Waits
  <2>4. /\ conn \in [Requests -> {"none", "open", "closed", "cut"}]
        /\ phase \in [Requests -> {"out", "in", "answered", "recorded", "closed", "broken", "aborted"}]
        /\ answer \in [Requests -> {"answer", "none"}]
    BY DEF Init, Ledger!Init
  <2> QED
    BY <2>1, <2>2, <2>3, <2>4 DEF Init, TypeOK, Waits
<1>2. MainInv /\ ReadinessWithdrawn
  BY DEF Init, MainInv, ReadinessWithdrawn
<1>3. ChannelInv
  BY DEF Init, ChannelInv
<1>4. ConnInv /\ OrderlyStopDrains
  BY DEF Init, Ledger!Init, ConnInv, InFlight, OrderlyStopDrains
<1>5. LedgerInv
  BY DEF Init, Ledger!Init, LedgerInv, Logged
<1> QED
  BY <1>1, <1>2, <1>3, <1>4, <1>5 DEF IndInv

\* run() and the serving goroutine never touch the ledger.
LEMMA LedgerKept == LedgerInv /\ UNCHANGED ledgerVars => LedgerInv'
  BY DEF LedgerInv, Logged, ledgerVars

\* The steps of run() before it waits for the signal or the server.
LEMMA BootStep == IndInv /\ Boot => IndInv'
<1> SUFFICES ASSUME IndInv, Boot PROVE IndInv'
  OBVIOUS
<1> USE DEF Goto, TypeOK, Waits, MainInv, ChannelInv, ConnInv, InFlight,
            ReadinessWithdrawn, OrderlyStopDrains, Logged, reqVars, IndInv
<1>1. LedgerInv'
  BY LedgerKept DEF Boot, Configure, BootFail, Bootstrap, BootstrapFail, bootBoot,
     Start, MarkReady, ledgerVars
<1>2. CASE Configure \/ BootFail \/ Bootstrap \/ BootstrapFail
  BY <1>1, <1>2 DEF Configure, BootFail, Bootstrap, BootstrapFail
<1>3. CASE bootBoot
  <2>1. booted' \in BOOLEAN /\ booted'
    BY <1>3, Zenon DEF bootBoot
  <2> QED
    BY <1>1, <1>3, <2>1 DEF bootBoot
<1>4. CASE Start \/ MarkReady
  BY <1>1, <1>4 DEF Start, MarkReady
<1> QED
  BY <1>2, <1>3, <1>4 DEF Boot

\* The orderly stop: readiness withdrawn, listener closed, requests awaited.
LEMMA StopStep == IndInv /\ (SelectDone \/ Shutdown \/ Drained \/ DrainTimeout) => IndInv'
<1> SUFFICES ASSUME IndInv, SelectDone \/ Shutdown \/ Drained \/ DrainTimeout PROVE IndInv'
  OBVIOUS
<1> USE DEF Goto, TypeOK, Waits, MainInv, ChannelInv, ConnInv, InFlight,
            ReadinessWithdrawn, OrderlyStopDrains, Logged, reqVars, IndInv
<1>1. LedgerInv'
  BY LedgerKept DEF SelectDone, Shutdown, Drained, DrainTimeout, ledgerVars
<1>2. CASE SelectDone
  BY <1>1, <1>2 DEF SelectDone
<1>3. CASE Shutdown
  BY <1>1, <1>3 DEF Shutdown
<1>4. CASE Drained
  BY <1>1, <1>4 DEF Drained
<1>5. CASE DrainTimeout
  BY <1>1, <1>5 DEF DrainTimeout
<1> QED
  BY <1>2, <1>3, <1>4, <1>5

\* The other end of run(): the server's result, the provider, the exit.
LEMMA EndStep == IndInv /\ (SelectErr \/ Flush \/ Exit) => IndInv'
<1> SUFFICES ASSUME IndInv, SelectErr \/ Flush \/ Exit PROVE IndInv'
  OBVIOUS
<1> USE DEF Goto, TypeOK, Waits, MainInv, ChannelInv, ConnInv, InFlight,
            ReadinessWithdrawn, reqVars, ledgerVars, IndInv
<1>1. LedgerInv'
  BY LedgerKept DEF SelectErr, Flush, Exit
<1>2. CASE SelectErr
  BY <1>1, <1>2 DEF SelectErr, OrderlyStopDrains, Logged
<1>3. CASE Flush
  BY <1>1, <1>3 DEF Flush, OrderlyStopDrains, Logged
<1>4. CASE Exit
  <2>1. (TypeOK /\ MainInv /\ ChannelInv /\ ConnInv /\ ReadinessWithdrawn)'
    BY <1>4 DEF Exit
  <2>2. OrderlyStopDrains'
    \* An orderly exit comes after a drain, so every connection is over.
    <3> SUFFICES ASSUME ~timedOut, ~(srv = "returned" /\ ~shutting), NEW r \in Requests
                 PROVE  /\ conn'[r] # "cut" /\ r \notin lostSpan
                        /\ phase[r] \in {"out", "closed", "aborted"}
                        /\ answer[r] # "none" => Logged(r)
      BY <1>4 DEF Exit, OrderlyStopDrains, Logged
    <3>1. conn[r] \in {"none", "closed"} /\ r \notin lostSpan
      BY <1>4 DEF Exit, OrderlyStopDrains
    <3>2. phase[r] \in {"out", "closed", "aborted"}
      BY <3>1
    <3>3. answer[r] # "none" => Logged(r)
      BY <3>2 DEF LedgerInv
    <3> QED
      BY <1>4, <3>1, <3>2, <3>3 DEF Exit
  <2> QED
    BY <1>1, <2>1, <2>2
<1> QED
  BY <1>2, <1>3, <1>4

\* What a send puts into the empty channel.
LEMMA SendOnEmpty == \A x : Append(<<>>, x) = <<x>>
  OBVIOUS

\* The serving goroutine: its channel takes one result, nil only once the
\* server is shutting down.
LEMMA ServerStep == IndInv /\ Server => IndInv'
<1> SUFFICES ASSUME IndInv, Server PROVE IndInv'
  OBVIOUS
<1> USE DEF ServerGoto, TypeOK, Waits, MainInv, ChannelInv, ConnInv, InFlight,
            ReadinessWithdrawn, OrderlyStopDrains, Logged, reqVars, IndInv
<1>1. LedgerInv'
  BY LedgerKept DEF Server, Bind, BindFail, AcceptFail, Closed, SendErr, SendNil, ledgerVars
<1>2. CASE Bind \/ BindFail \/ AcceptFail \/ Closed
  BY <1>1, <1>2 DEF Bind, BindFail, AcceptFail, Closed
<1>3. CASE SendErr
  <2>1. serverErr = <<>>
    BY <1>3 DEF SendErr
  <2>2. serverErr' = <<"err">>
    BY <1>3, <2>1, SendOnEmpty, Zenon DEF SendErr
  <2>3. Len(serverErr') <= 1
    BY <2>2
  <2>4. (TypeOK /\ MainInv /\ ReadinessWithdrawn)'
    BY <1>3, <2>3 DEF SendErr
  <2>5. ChannelInv'
    <3>1. serverErr' # <<"nil">>
      BY <2>2
    <3>2. srv' = "returned" /\ serverErr' \in {<<>>, <<"err">>, <<"nil">>}
      BY <1>3, <2>2 DEF SendErr
    <3> QED
      BY <3>1, <3>2
  <2>6. (ConnInv /\ OrderlyStopDrains)'
    BY <1>3 DEF SendErr
  <2> QED
    BY <1>1, <2>4, <2>5, <2>6
<1>4. CASE SendNil
  <2>1. serverErr = <<>>
    BY <1>4 DEF SendNil
  <2>2. serverErr' = <<"nil">>
    BY <1>4, <2>1, SendOnEmpty, Zenon DEF SendNil
  <2>3. Len(serverErr') <= 1
    BY <2>2
  <2>4. (TypeOK /\ MainInv /\ ReadinessWithdrawn)'
    BY <1>4, <2>3 DEF SendNil
  <2>5. ChannelInv'
    BY <1>4, <2>2 DEF SendNil
  <2>6. (ConnInv /\ OrderlyStopDrains)'
    BY <1>4 DEF SendNil
  <2> QED
    BY <1>1, <2>4, <2>5, <2>6
<1> QED
  BY <1>2, <1>3, <1>4 DEF Server

\* The signal changes nothing but ctxDone.
LEMMA SignalStep == IndInv /\ Signal => IndInv'
<1>1. IndInv /\ Signal => LedgerInv'
  BY LedgerKept DEF IndInv, Signal, reqVars, ledgerVars
<1> QED
  BY <1>1 DEF Signal, IndInv, TypeOK, Waits, MainInv, ChannelInv, ConnInv, InFlight,
     ReadinessWithdrawn, OrderlyStopDrains, Logged, reqVars

\* A connection that is not yet a request.
LEMMA ConnStep ==
  ASSUME IndInv, NEW r \in Requests, Connect(r) \/ HeaderTimeout(r)
  PROVE  IndInv'
<1>1. LedgerInv'
  BY LedgerKept DEF IndInv, Connect, HeaderTimeout
<1>2. conn' \in [Requests -> {"none", "open", "closed", "cut"}]
  BY DEF Connect, HeaderTimeout, IndInv, TypeOK
<1>3. (TypeOK /\ MainInv /\ ChannelInv /\ ReadinessWithdrawn)'
  BY <1>2 DEF Connect, HeaderTimeout, procVars, ledgerVars, IndInv, TypeOK, Waits, MainInv,
     ChannelInv, ReadinessWithdrawn
<1>4. ConnInv'
  BY DEF Connect, HeaderTimeout, Accepting, procVars, ledgerVars, IndInv, TypeOK, Waits,
     MainInv, ChannelInv, ConnInv, InFlight
<1>5. OrderlyStopDrains'
  BY DEF Connect, HeaderTimeout, procVars, ledgerVars, IndInv, TypeOK, OrderlyStopDrains, Logged
<1> QED
  BY <1>1, <1>3, <1>4, <1>5 DEF IndInv

\* An appended line is one more line: what was logged stays logged.
LEMMA AppendLine ==
  ASSUME NEW S, NEW s \in Seq(S), NEW e \in S
  PROVE  /\ Append(s, e) \in Seq(S)
         /\ DOMAIN Append(s, e) = DOMAIN s \cup {Len(s) + 1}
         /\ \A i \in DOMAIN s : Append(s, e)[i] = s[i]
         /\ Append(s, e)[Len(s) + 1] = e
  OBVIOUS

\* The ledger's own steps keep its types and give every recorded answer its line.
LEMMA LedgerStep ==
  ASSUME TypeOK, LedgerInv, NEW r \in Requests,
         \/ Ledger!Enter(r) \/ Ledger!Answer(r, "answer") \/ Ledger!Record(r)
         \/ Ledger!Break(r) \/ Ledger!Close(r) \/ Ledger!Unwind(r)
  PROVE  /\ phase' \in [Requests -> {"out", "in", "answered", "recorded", "closed", "broken", "aborted"}]
         /\ answer' \in [Requests -> {"answer", "none"}]
         /\ lines' \in Seq([req : Requests, answer : {"answer"}])
         /\ LedgerInv'
<1>1. CASE Ledger!Record(r)
  <2> DEFINE e == [req |-> r, answer |-> answer[r]]
  <2>1. e \in [req : Requests, answer : {"answer"}] /\ lines' = Append(lines, e)
    BY <1>1 DEF TypeOK, LedgerInv, Ledger!Record, Ledger!Move
  <2> HIDE DEF e
  <2>2. /\ lines' \in Seq([req : Requests, answer : {"answer"}])
        /\ DOMAIN lines' = DOMAIN lines \cup {Len(lines) + 1}
        /\ \A i \in DOMAIN lines : lines'[i] = lines[i]
        /\ lines'[Len(lines) + 1] = e
    BY <2>1, AppendLine DEF TypeOK
  <2>3. /\ phase[r] = "answered" /\ phase' = [phase EXCEPT ![r] = "recorded"]
        /\ answer' = answer
    BY <1>1 DEF Ledger!Record, Ledger!Move
  <2>4. Logged(r)'
    BY <2>2 DEF Logged, e
  <2>5. \A q \in Requests : Logged(q) => Logged(q)'
    BY <2>2 DEF Logged
  <2>6. LedgerInv'
    BY <2>2, <2>3, <2>4, <2>5 DEF LedgerInv, TypeOK, e
  <2> QED
    BY <2>2, <2>3, <2>6 DEF TypeOK
<1>2. CASE Ledger!Answer(r, "answer")
  BY <1>2 DEF TypeOK, LedgerInv, Logged, Ledger!Answer, Ledger!Move
<1>3. CASE Ledger!Enter(r) \/ Ledger!Break(r) \/ Ledger!Close(r) \/ Ledger!Unwind(r)
  <2>1. PICK p \in {"in", "closed", "broken", "aborted"} :
          /\ phase' = [phase EXCEPT ![r] = p] /\ answer' = answer /\ lines' = lines
          /\ p = "closed" <=> phase[r] = "recorded"
          /\ phase[r] \in {"out", "in", "broken", "recorded"}
    BY <1>3 DEF Ledger!Enter, Ledger!Break, Ledger!Close, Ledger!Unwind, Ledger!Move
  <2> QED
    BY <2>1 DEF TypeOK, LedgerInv, Logged
<1> QED
  BY <1>1, <1>2, <1>3

\* A request on an open connection, from its arrival to the end of its span.
LEMMA RequestStep ==
  ASSUME IndInv, NEW r \in Requests, Arrive(r) \/ Handle(r) \/ Finish(r)
  PROVE  IndInv'
<1> USE DEF IndInv
<1>1. /\ conn[r] = "open" /\ UNCHANGED procVars
      /\ phase'[r] # "out" /\ \A q \in Requests : q # r => phase'[q] = phase[q]
  BY DEF Arrive, Handle, Finish, TypeOK, Ledger!Enter, Ledger!Answer, Ledger!Record,
     Ledger!Break, Ledger!Close, Ledger!Unwind, Ledger!Move
<1>2. /\ phase' \in [Requests -> {"out", "in", "answered", "recorded", "closed", "broken", "aborted"}]
      /\ answer' \in [Requests -> {"answer", "none"}]
      /\ lines' \in Seq([req : Requests, answer : {"answer"}])
      /\ LedgerInv'
  BY LedgerStep DEF Arrive, Handle, Finish
<1>3. /\ conn' \in [Requests -> {"none", "open", "closed", "cut"}]
      /\ conn'[r] \in {"open", "closed"} /\ \A q \in Requests : q # r => conn'[q] = conn[q]
      /\ conn'[r] = "closed" => phase'[r] \in {"closed", "aborted"}
      /\ lostSpan' \subseteq Requests
      /\ \A q \in lostSpan' : q \in lostSpan \/ main \in {"exiting", "exited"}
      /\ provider = "down" \/ lostSpan' = lostSpan
  BY <1>1 DEF Arrive, Handle, Finish, TypeOK, MainInv, Ledger!Close, Ledger!Unwind, Ledger!Move
<1>4. TypeOK' /\ MainInv' /\ ChannelInv' /\ ReadinessWithdrawn'
  BY <1>1, <1>2, <1>3 DEF procVars, TypeOK, Waits, MainInv, ChannelInv, ReadinessWithdrawn
<1>5. ConnInv'
  BY <1>1, <1>3 DEF procVars, ConnInv, InFlight, TypeOK
<1>6. OrderlyStopDrains'
  \* An open connection, after an orderly stop, is one from before the exit.
  <2> SUFFICES ASSUME ~timedOut, ~(srv = "returned" /\ ~shutting), NEW q \in Requests
               PROVE  conn'[q] # "cut" /\ q \notin lostSpan' /\ main # "exited"
    BY <1>1 DEF procVars, OrderlyStopDrains
  <2>1. main # "exited" /\ (exit # 0) /\ (exit # 1)
    BY <1>1 DEF ConnInv, InFlight, MainInv, ChannelInv
  <2>2. provider # "down"
    BY <2>1 DEF TypeOK, Waits, MainInv
  <2> QED
    BY <1>1, <1>3, <2>1, <2>2 DEF OrderlyStopDrains
<1> QED
  BY <1>2, <1>4, <1>5, <1>6

\* No step leaves the invariant.
LEMMA StepInd == IndInv /\ [Next]_vars => IndInv'
<1> SUFFICES ASSUME IndInv, [Next]_vars PROVE IndInv'
  OBVIOUS
<1>1. CASE Main
  BY <1>1, BootStep, StopStep, EndStep DEF Main
<1>2. CASE Server \/ Signal
  BY <1>2, ServerStep, SignalStep
<1>3. CASE Outside
  BY <1>3, ConnStep, RequestStep DEF Outside
<1>4. CASE UNCHANGED vars
  BY <1>4 DEF vars, procVars, reqVars, IndInv, TypeOK, Waits, MainInv, ChannelInv, ConnInv,
              InFlight, LedgerInv, Logged, ReadinessWithdrawn, OrderlyStopDrains
<1> QED
  BY <1>1, <1>2, <1>3, <1>4 DEF Next

\* The invariant holds throughout: Lifecycle's type, places, channel and requests.
THEOREM LifecycleInvariant == Spec => []IndInv
<1> QED
  BY InitInd, StepInd, PTL DEF Spec

\* The serving goroutine is never blocked on its one-slot channel, and run() has
\* an exit status exactly when it has left its last wait.
THEOREM LifecycleTypeOK == Spec => []TypeOK
<1>1. IndInv => TypeOK
  BY DEF IndInv
<1> QED
  BY <1>1, LifecycleInvariant, PTL

\* The exit status tells the truth: 0 only after a signal, 1 only after a failed
\* boot or server, in every interleaving of the two goroutines.
THEOREM LifecycleExitStatus == Spec => []ExitStatusTruthful
<1>1. IndInv => ExitStatusTruthful
  BY DEF IndInv, MainInv, ChannelInv, ExitStatusTruthful
<1> QED
  BY <1>1, LifecycleInvariant, PTL

\* Readiness is withdrawn before the listener closes and stays withdrawn.
THEOREM LifecycleReadiness == Spec => []ReadinessWithdrawn
<1>1. IndInv => ReadinessWithdrawn
  BY DEF IndInv
<1> QED
  BY <1>1, LifecycleInvariant, PTL

\* An orderly stop within its 5 s cuts no request, loses no span and leaves no
\* answer without its line, however many requests are in progress.
THEOREM LifecycleOrderlyStop == Spec => []OrderlyStopDrains
<1>1. IndInv => OrderlyStopDrains
  BY DEF IndInv
<1> QED
  BY <1>1, LifecycleInvariant, PTL

\* stdout begins with the boot line in every schedule of the two goroutines.
THEOREM LifecycleBootLine == Spec => []BootLineFirst
<1>1. IndInv => BootLineFirst
  <2> SUFFICES ASSUME IndInv PROVE BootLineFirst
    OBVIOUS
  <2>1. ASSUME NEW r \in Requests, conn[r] # "none" PROVE booted
    BY <2>1 DEF IndInv, ConnInv, MainInv
  <2>2. ASSUME lines # <<>> PROVE \E r \in Requests : conn[r] # "none"
    <3> DEFINE Line == [req : Requests, answer : {"answer"}]
    <3>1. lines \in Seq(Line)
      BY DEF IndInv, TypeOK
    <3> HIDE DEF Line
    <3>2. 1 \in DOMAIN lines /\ lines[1] \in Line
      BY <2>2, <3>1
    <3>3. lines[1].req \in Requests
      BY <3>2 DEF Line
    <3> QED
      BY <3>2, <3>3 DEF IndInv, LedgerInv, ConnInv
  <2> QED
    BY <2>1, <2>2 DEF BootLineFirst
<1> QED
  BY <1>1, LifecycleInvariant, PTL
=============================================================================
