---------------------------- MODULE HolderProofs ---------------------------
(***************************************************************************)
(* The Holder's safety for any number of request and admin threads, any    *)
(* paths and any bodies: IndInv is inductive, and from it follow the run's *)
(* invariants and the refinement of RouteTable.                            *)
(***************************************************************************)
EXTENDS Holder, RoutingProofs

\* Replace only ever installs well-formed handlers.
LEMMA BuiltIsWellFormed ==
  ASSUME NEW rs \in Seq(RouteSet(Tokens)), ValidRoutes(rs)
  PROVE  WellFormed(New(NewRouter(rs)))
<1>1. New(NewRouter(rs)).router = NewRouter(rs)
  BY DEF New
<1> QED BY <1>1, NewRouterWellFormed DEF WellFormed

\* The routes of an accepted body are a route list.
LEMMA BodyRoutesType ==
  ASSUME NEW b \in Bodies
  PROVE  BodyRoutes(b) \in Seq(RouteSet(Tokens))
<1>1. b.routes \in Seq(RouteSet(Tokens))
  BY InputAssumption
<1>2. ASSUME NEW i \in DOMAIN b.routes
      PROVE  [prefix |-> b.routes[i].prefix,
              backend |-> ParseURL(b.routes[i].backend).url] \in RouteSet(Tokens)
  <2>1. b.routes[i] \in RouteSet(Tokens) BY <1>1
  <2>2. b.routes[i].prefix \in Seq(Tokens) /\ b.routes[i].backend \in Seq(Tokens)
    BY <2>1 DEF RouteSet
  <2>3. ParseURL(b.routes[i].backend).url \in Seq(Tokens)
    BY <2>2, ParseURLType, InputAssumption
  <2> QED BY <2>2, <2>3 DEF RouteSet
<1> DEFINE r(i) == [prefix  |-> b.routes[i].prefix,
                    backend |-> ParseURL(b.routes[i].backend).url]
<1>3. BodyRoutes(b) = [i \in DOMAIN b.routes |-> r(i)]
  BY DEF BodyRoutes
<1>4. \A i \in DOMAIN b.routes : r(i) \in RouteSet(Tokens)
  BY <1>2
<1> HIDE DEF r
<1> QED BY <1>1, <1>3, <1>4

\* The initial state satisfies the invariant.
LEMMA InitInd == Init => IndInv
<1> SUFFICES ASSUME Init PROVE IndInv
  OBVIOUS
<1> USE DEF Init
<1>1. TypeOK
  BY ThreadsAssumption DEF TypeOK, Unlocked, Threads
<1>2. LockInv
  BY ThreadsAssumption DEF LockInv, Unlocked
<1>3. OnlyValidTables
  BY InitialAssumption, BuiltIsWellFormed DEF OnlyValidTables
<1>4. LocalsInv /\ SeenInv /\ FreshTable /\ AnswerInv
  BY DEF LocalsInv, SeenInv, FreshTable, AnswerInv, Threads
<1> QED BY <1>1, <1>2, <1>3, <1>4 DEF IndInv


\* Types and mutex ownership are preserved by every step.
LEMMA LockStep ==
  ASSUME TypeOK, LockInv, Next
  PROVE  TypeOK' /\ LockInv'
<1> USE ThreadsAssumption DEF TypeOK, LockInv, Threads, Goto, ReadSteps, PostSteps
<1>1. PICK t \in Threads : Handle(t) \/ \E c \in Calls(t) : Arrive(t, c)
  BY DEF Next
<1>2. ASSUME NEW c \in Calls(t), Arrive(t, c) PROVE TypeOK' /\ LockInv'
  <2>1. CASE t \in Requests
    <3>1. c.method = "proxy" BY <2>1 DEF Calls
    <3>2. FirstStep(c) = "rlock" BY <3>1 DEF FirstStep
    <3> QED BY <1>2, <2>1, <3>2 DEF Arrive
  <2>2. CASE t \in Admins
    <3>1. c.method \in {"GET", "OTHER", "POST"} BY <2>2 DEF Calls
    <3>2. /\ FirstStep(c) \in {"rlock", "post", "refuse"}
          /\ FirstStep(c) = "post" => c.method = "POST"
      BY <3>1 DEF FirstStep
    <3> QED BY <1>2, <2>2, <3>2 DEF Arrive
  <2> QED BY <2>1, <2>2
<1>3. CASE MethodNotAllowed(t)
  BY <1>3 DEF MethodNotAllowed
<1>4. CASE ReadLock(t)
  BY <1>4 DEF ReadLock, RLock
<1>5. CASE Copy(t)
  BY <1>5 DEF Copy, HoldsRead
<1>6. CASE ReadUnlock(t)
  BY <1>6 DEF ReadUnlock, RUnlock
<1>7. CASE ServeHTTP(t)
  BY <1>7 DEF ServeHTTP
<1>8. CASE WriteRoutes(t)
  BY <1>8 DEF WriteRoutes
<1>9. CASE PostRefuse(t)
  BY <1>9 DEF PostRefuse
<1>10. CASE PostBuild(t)
  BY <1>10 DEF PostBuild
<1>11. CASE WriteLock(t)
  BY <1>11 DEF WriteLock, CanAnnounce, Announce
<1>12. CASE Acquire(t)
  BY <1>12 DEF Acquire, HoldsWrite
<1>13. CASE Swap(t)
  BY <1>13 DEF Swap
<1>14. CASE WriteUnlock(t)
  BY <1>14 DEF WriteUnlock, Unlock
<1> QED BY <1>1, <1>2, <1>3, <1>4, <1>5, <1>6, <1>7, <1>8, <1>9, <1>10, <1>11, <1>12, <1>13, <1>14 DEF Handle

\* What the active table and the locals hold is preserved by every step.
LEMMA TableStep ==
  ASSUME IndInv, Next
  PROVE  OnlyValidTables' /\ LocalsInv' /\ SeenInv' /\ FreshTable' /\ AnswerInv'
<1> USE ThreadsAssumption
    DEF IndInv, TypeOK, LockInv, OnlyValidTables, LocalsInv, SeenInv, FreshTable,
        AnswerInv, Threads, Goto, ReadSteps, PostSteps
<1>1. PICK t \in Threads : Handle(t) \/ \E c \in Calls(t) : Arrive(t, c)
  BY DEF Next
<1>2. ASSUME NEW c \in Calls(t), Arrive(t, c)
      PROVE  OnlyValidTables' /\ LocalsInv' /\ SeenInv' /\ FreshTable' /\ AnswerInv'
  <2>1. FirstStep(c) \in {"rlock", "post", "refuse"}
    BY DEF Calls, FirstStep
  <2> QED BY <1>2, <2>1 DEF Arrive
<1>3. CASE MethodNotAllowed(t)
  BY <1>3 DEF MethodNotAllowed
<1>4. CASE ReadLock(t)
  BY <1>4 DEF ReadLock
<1>5. CASE Copy(t)
  BY <1>5 DEF Copy
<1>6. CASE ReadUnlock(t)
  BY <1>6 DEF ReadUnlock
<1>7. CASE ServeHTTP(t)
  <2>1. call[t].path \in Paths
    BY <1>7 DEF ServeHTTP, Calls
  <2> QED BY <1>7, <2>1 DEF ServeHTTP
<1>8. CASE WriteRoutes(t)
  BY <1>8 DEF WriteRoutes
<1>9. CASE PostRefuse(t)
  BY <1>9 DEF PostRefuse
<1>10. CASE PostBuild(t)
  <2>1. call[t].body \in Bodies
    BY <1>10 DEF PostBuild, Calls
  <2>2. WellFormed(New(NewRouter(BodyRoutes(call[t].body))))
    BY <1>10, <2>1, BodyRoutesType, BuiltIsWellFormed DEF PostBuild, BodyOK
  <2> QED BY <1>10, <2>2 DEF PostBuild
<1>11. CASE WriteLock(t)
  BY <1>11 DEF WriteLock
<1>12. CASE Acquire(t)
  BY <1>12 DEF Acquire
<1>13. CASE Swap(t)
  BY <1>13 DEF Swap
<1>14. CASE WriteUnlock(t)
  BY <1>14 DEF WriteUnlock
<1> QED BY <1>1, <1>2, <1>3, <1>4, <1>5, <1>6, <1>7, <1>8, <1>9, <1>10, <1>11, <1>12, <1>13, <1>14 DEF Handle


\* A step that changes no variable keeps the invariant.
LEMMA StutterInd == IndInv /\ UNCHANGED vars => IndInv'
<1> SUFFICES ASSUME IndInv, UNCHANGED vars PROVE IndInv'
  OBVIOUS
<1> QED BY DEF IndInv, vars, TypeOK, LockInv, OnlyValidTables, LocalsInv, SeenInv,
        FreshTable, AnswerInv, HoldsRead

\* IndInv holds in every reachable state of the Holder.
THEOREM InductiveInvariant == Spec => []IndInv
<1>1. IndInv /\ [Next]_vars => IndInv'
  <2> SUFFICES ASSUME IndInv, [Next]_vars PROVE IndInv'
    OBVIOUS
  <2>1. CASE Next
    BY <2>1, LockStep, TableStep DEF IndInv
  <2>2. CASE UNCHANGED vars
    BY <2>2, StutterInd
  <2> QED BY <2>1, <2>2
<1> QED BY InitInd, <1>1, PTL DEF Spec


\* Every thread is where its call can take it, and the mutex counts exactly the
\* readers between RLock and RUnlock.
THEOREM HolderTypeOK == Spec => []TypeOK
<1>1. IndInv => TypeOK
  BY DEF IndInv
<1> QED BY <1>1, InductiveInvariant, PTL

\* No data race on Holder.current: the swap excludes the readers and the other
\* writers.
THEOREM HolderRaceFree == Spec => []RaceFree
<1>1. IndInv => RaceFree
  BY DEF IndInv, LockInv, RaceFree, HoldsRead
<1> QED BY <1>1, InductiveInvariant, PTL

\* Only validated tables are ever active or in use.
THEOREM HolderOnlyValidTables == Spec => []OnlyValidTables
<1>1. IndInv => OnlyValidTables
  BY DEF IndInv
<1> QED BY <1>1, InductiveInvariant, PTL

\* No call works with, and no POST reports, a table older than it may.
THEOREM HolderFreshTable == Spec => []FreshTable
<1>1. IndInv => FreshTable
  BY DEF IndInv
<1> QED BY <1>1, InductiveInvariant, PTL

\* Every proxied request goes to the backend of the longest matching prefix of
\* one single table, however reloads interleave with it.
THEOREM HolderDispatch == Spec => []DispatchConsistent
<1>1. ASSUME IndInv PROVE DispatchConsistent
  <2> SUFFICES ASSUME NEW t \in Requests, pc[t] = "idle", reply[t] # None
               PROVE  IF Matching(cur[t].router, call[t].path) = {}
                      THEN reply[t] = Unmatched
                      ELSE IsLongestMatch(cur[t].router, call[t].path,
                             [prefix |-> reply[t].route, backend |-> reply[t].backend])
    BY DEF DispatchConsistent
  <2>1. /\ WellFormed(cur[t]) /\ call[t].path \in Seq(Tokens)
        /\ reply[t] = Dispatch(cur[t], call[t].path)
    BY <1>1, InputAssumption DEF IndInv, AnswerInv
  <2> DEFINE router == cur[t].router
             path == call[t].path
  <2>2. /\ router \in Seq(RouteSet(Tokens)) /\ cur[t] = New(router)
        /\ ValidRoutes(router) /\ LengthDescending(router)
    BY <2>1 DEF WellFormed
  <2>3. reply[t] = Dispatch(New(router), path)
    BY <2>1, <2>2
  <2> HIDE DEF router, path
  <2>4. IF Matching(router, path) = {} THEN Dispatch(New(router), path) = Unmatched
        ELSE IsLongestMatch(router, path,
               [prefix  |-> Dispatch(New(router), path).route,
                backend |-> Dispatch(New(router), path).backend])
    BY <2>1, <2>2, DispatchFollowsMatch DEF path
  <2> QED BY <2>3, <2>4 DEF router, path
<1> QED BY <1>1, InductiveInvariant, PTL

(***************************************************************************)
(* The Holder implements the register of RouteTable: Arrive opens a call,  *)
(* Copy takes the table, Swap installs one, the answers close; every other *)
(* step is a stutter.                                                      *)
(***************************************************************************)
THEOREM HolderImplementsTable == Spec => ImplementsTable
<1>1. Init => Table!Init
  BY InitialAssumption, BuiltIsWellFormed DEF Init, Table!Init
<1>2. IndInv /\ [Next]_vars => [Table!Next]_Table!vars
  <2> SUFFICES ASSUME IndInv, [Next]_vars PROVE [Table!Next]_Table!vars
    OBVIOUS
  <2> USE ThreadsAssumption DEF IndInv, TypeOK, LocalsInv, Threads, Goto,
          ReadSteps, PostSteps, Table!vars
  <2>1. CASE UNCHANGED vars
    BY <2>1 DEF vars
  <2>2. CASE Next
    <3>1. PICK t \in Threads : Handle(t) \/ \E c \in Calls(t) : Arrive(t, c)
      BY <2>2 DEF Next
    <3>2. ASSUME NEW c \in Calls(t), Arrive(t, c) PROVE Table!Open(t)
      <4>1. FirstStep(c) \in {"rlock", "post", "refuse"}
        BY DEF Calls, FirstStep
      <4> QED BY <3>2, <4>1 DEF Arrive, Table!Open
    <3>3. CASE MethodNotAllowed(t) \/ ServeHTTP(t) \/ WriteRoutes(t) \/ PostRefuse(t)
      <4>0. /\ pc[t] # "idle" /\ pc' = [pc EXCEPT ![t] = "idle"]
            /\ current' = current /\ cur' = cur
        BY <3>3 DEF MethodNotAllowed, ServeHTTP, WriteRoutes, PostRefuse
      <4>1. Table!Close(t)
        BY <4>0 DEF Table!Close
      <4> QED BY <4>1 DEF Table!Next
    <3>4. CASE Copy(t)
      <4>1. Table!Take(t)
        BY <3>4 DEF Copy, Table!Take
      <4> QED BY <4>1 DEF Table!Next
    <3>5. CASE Swap(t)
      <4>1. Table!Install(t) /\ t \in Admins
        BY <3>5 DEF Swap, Table!Install
      <4> QED BY <4>1 DEF Table!Next
    <3>6. CASE \/ ReadLock(t) \/ ReadUnlock(t) \/ PostBuild(t) \/ WriteLock(t)
               \/ Acquire(t) \/ WriteUnlock(t)
      BY <3>6 DEF ReadLock, ReadUnlock, PostBuild, WriteLock, Acquire, WriteUnlock
    <3> QED BY <3>1, <3>2, <3>3, <3>4, <3>5, <3>6 DEF Handle, Table!Next
  <2> QED BY <2>1, <2>2
<1> QED BY <1>1, <1>2, InductiveInvariant, PTL DEF Spec, ImplementsTable, Table!Spec
=============================================================================
