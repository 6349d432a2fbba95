-------------------------- MODULE TransportProofs --------------------------
(***************************************************************************)
(* Transport's safety for any clients, prefixes, tables, flags and bounds. *)
(* A step concerns one transport; IndInv says of each connection of it who *)
(* is on it, and of the transport who dials and what is idle.              *)
(***************************************************************************)
EXTENDS Transport, FiniteSetTheorems, TLAPS

\* What is fixed at boot.
USE DEF upstream

\* Counting in a finite set: nothing, a part, one more.
LEMMA Counting ==
  ASSUME NEW U, IsFiniteSet(U), NEW S \in SUBSET U
  PROVE  /\ Cardinality(S) \in Nat
         /\ Cardinality(S) = 0 <=> S = {}
         /\ \A T \in SUBSET S : Cardinality(T) <= Cardinality(S)
         /\ \A x \in U \ S : Cardinality(S \cup {x}) = Cardinality(S) + 1
<1>1. IsFiniteSet(S)
  BY FS_Subset
<1>2. Cardinality(S) \in Nat /\ (Cardinality(S) = 0 <=> S = {})
  BY <1>1, FS_CardinalityType, FS_EmptySet
<1>3. \A T \in SUBSET S : Cardinality(T) <= Cardinality(S)
  BY <1>1, FS_Subset
<1>4. \A x \in U \ S : Cardinality(S \cup {x}) = Cardinality(S) + 1
  BY <1>1, FS_AddElement
<1> QED
  BY <1>2, <1>3, <1>4

\* The two sets that are counted are parts of finite ones.
LEMMA Finite ==
  /\ IsFiniteSet(Requests) /\ IsFiniteSet(Conns)
  /\ \A tr, c : Users(tr, c) \in SUBSET Requests
  /\ \A tr : Idle(tr) \in SUBSET Conns
<1>1. IsFiniteSet(Conns)
  BY ConfigAssumption, FS_Interval DEF Conns
<1> QED
  BY <1>1, ConfigAssumption DEF Users, Idle

\* The defaults apply to zero and negative flags, so there always is a pool.
LEMMA Limits ==
  MaxIdle \in Nat /\ MaxIdle > 0 /\ (PoolFlag > 0 => MaxIdle = PoolFlag)
  BY ConfigAssumption DEF MaxIdle

\* No request of another transport than tr changes.
Only(tr) ==
  \A r \in Requests :
    \/ req'[r] = req[r]
    \/ /\ req[r].at # "out" => req[r].tr = tr
       /\ req'[r].at # "out" => req'[r].tr = tr

SameWaiters(s) == Diallers(s)' = Diallers(s) /\ Joiners(s)' = Joiners(s)
SameUsers(s) == \A c \in Conns : Users(s, c)' = Users(s, c)

\* Such a step leaves the others' waiters and users as they are.
LEMMA Elsewhere ==
  ASSUME NEW tr, Only(tr), NEW s, s # tr
  PROVE  SameWaiters(s) /\ SameUsers(s)
<1>1. SameWaiters(s)
  BY DEF Only, SameWaiters, Diallers, Joiners
<1>2. SameUsers(s)
  BY DEF Only, SameUsers, Users, Connected
<1> QED
  BY <1>1, <1>2

ConnStates == {"closed", "open", "going"}

\* A transport whose users, waiters, dials and connections stay keeps its part
\* of the invariant.
LEMMA Kept ==
  ASSUME NEW s \in Transports, PoolInv(s), UNCHANGED upstream, conn'[s] = conn[s],
         orphans'[s] = orphans[s], SameWaiters(s), SameUsers(s)
  PROVE  PoolInv(s)'
<1>1. streams' = streams /\ MaxIdle' = MaxIdle
  BY DEF MaxIdle
<1>2. \A c \in Conns : ConnInv(s, c)'
  BY <1>1 DEF PoolInv, ConnInv, SameUsers
<1>3. DialsShared(s)'
  BY DEF PoolInv, DialsShared, SameWaiters
<1>4. Idle(s)' = Idle(s)
  BY DEF Idle, SameUsers
<1> QED
  BY <1>1, <1>2, <1>3, <1>4 DEF PoolInv

\* A step at tr: what remains to be shown is tr's own part.
LEMMA StepAt ==
  ASSUME IndInv, UNCHANGED <<upstream, tables>>, ReqInv', NEW tr \in Transports, Only(tr),
         conn' \in [Transports -> [Conns -> ConnStates]], orphans' \in [Transports -> Nat],
         \A s \in Transports \ {tr} : conn'[s] = conn[s] /\ orphans'[s] = orphans[s],
         PoolInv(tr)'
  PROVE  IndInv'
<1>1. ASSUME NEW s \in Transports \ {tr} PROVE PoolInv(s)'
  BY <1>1, Elsewhere, Kept DEF IndInv
<1>2. TypeInv'
  BY DEF IndInv, TypeInv, ConnStates
<1> QED
  BY <1>1, <1>2 DEF IndInv

\* tr's part follows from its connections, its dials, and an idle set that grows
\* only where there is room.
LEMMA PoolStep ==
  ASSUME IndInv, UNCHANGED upstream, NEW tr \in Transports,
         \A c \in Conns : ConnInv(tr, c)', DialsShared(tr)',
         protocol = "http1" =>
           \/ Idle(tr)' \subseteq Idle(tr)
           \/ Cardinality(Idle(tr)) < MaxIdle
              /\ \E c \in Conns : Idle(tr)' \subseteq Idle(tr) \cup {c}
  PROVE  PoolInv(tr)'
<1> DEFINE old == Idle(tr)
           new == Idle(tr)'
<1>1. old \in SUBSET Conns /\ IsFiniteSet(Conns) /\ MaxIdle \in Nat
  BY Finite, Limits
<1>2. protocol = "http1" => Cardinality(old) <= MaxIdle
  BY DEF IndInv, PoolInv
<1>3. ASSUME protocol = "http1" PROVE Cardinality(new) <= MaxIdle
  <2> HIDE DEF old, new
  <2>1. CASE new \subseteq old
    BY <1>1, <1>2, <1>3, <2>1, Counting
  <2>2. CASE Cardinality(old) < MaxIdle /\ \E c \in Conns : new \subseteq old \cup {c}
    <3>1. PICK c \in Conns : new \subseteq old \cup {c}
      BY <2>2
    <3>2. CASE c \in old
      <4>1. new \subseteq old
        BY <3>1, <3>2
      <4> QED
        BY <1>1, <1>2, <1>3, <4>1, Counting
    <3>3. CASE c \notin old
      <4>1. old \cup {c} \in SUBSET Conns /\ new \in SUBSET (old \cup {c})
        BY <1>1, <3>1
      <4>2. Cardinality(old \cup {c}) = Cardinality(old) + 1
        BY <1>1, <3>3, Counting
      <4>3. Cardinality(new) <= Cardinality(old \cup {c}) /\ Cardinality(new) \in Nat
        <5>1. new \in SUBSET Conns
          BY <4>1
        <5> QED
          BY <1>1, <4>1, <5>1, Counting
      <4>4. Cardinality(old) \in Nat
        BY <1>1, Counting
      <4> QED
        BY <1>1, <2>2, <4>2, <4>3, <4>4
    <3> QED
      BY <3>2, <3>3
  <2> QED
    BY <1>3, <2>1, <2>2 DEF old, new
<1>4. MaxIdle' = MaxIdle
  BY DEF MaxIdle
<1> QED
  BY <1>3, <1>4 DEF PoolInv

\* One that is alone in a set of at most one.
LEMMA Alone ==
  ASSUME NEW U, IsFiniteSet(U), NEW S \in SUBSET U, Cardinality(S) <= 1, NEW r \in S
  PROVE  S = {r}
<1> SUFFICES ASSUME NEW q \in S, q # r PROVE FALSE
  OBVIOUS
<1>1. {r} \in SUBSET U /\ {r} \cup {q} \in SUBSET S /\ q \in U \ {r}
  OBVIOUS
<1>2. Cardinality({r}) = 1
  BY FS_Singleton
<1>3. Cardinality({r} \cup {q}) = 2
  BY <1>1, <1>2, Counting
<1>4. Cardinality({r} \cup {q}) <= Cardinality(S) /\ Cardinality(S) \in Nat
  BY <1>1, Counting
<1> QED
  BY <1>3, <1>4

-----------------------------------------------------------------------------
\* A connection stays right if it keeps some of its requests and its state, has
\* none and is not going, takes one more with room for it, is told to go while it
\* has some, or passes from one to another over HTTP/1.1.
LEMMA ConnStep ==
  ASSUME IndInv, NEW tr \in Transports, NEW c \in Conns, ConnInv(tr, c), UNCHANGED upstream,
         \/ /\ Users(tr, c)' \subseteq Users(tr, c) /\ conn'[tr][c] = conn[tr][c]
            /\ conn[tr][c] = "going" => Users(tr, c)' # {}
         \/ Users(tr, c)' = {} /\ conn'[tr][c] # "going"
         \/ /\ conn'[tr][c] = "open" /\ Cardinality(Users(tr, c)) < streams
            /\ \E q \in Requests \ Users(tr, c) : Users(tr, c)' = Users(tr, c) \cup {q}
         \/ /\ Users(tr, c)' = Users(tr, c) /\ Users(tr, c) # {}
            /\ conn'[tr][c] = "going" /\ protocol = "h2c"
         \/ conn'[tr][c] = "open" /\ \E q \in Requests : Users(tr, c)' = {q}
  PROVE  ConnInv(tr, c)'
<1> DEFINE old == Users(tr, c)
           new == Users(tr, c)'
<1>1. old \in SUBSET Requests /\ IsFiniteSet(Requests)
  BY Finite
<1>2. streams' = streams /\ streams \in Nat /\ streams > 0
  BY DEF IndInv, TypeInv
<1>3. Cardinality(old) <= streams /\ Cardinality(old) \in Nat
  BY <1>1, Counting DEF ConnInv
<1> USE DEF ConnInv
<1>4. CASE /\ new \subseteq old /\ conn'[tr][c] = conn[tr][c]
           /\ conn[tr][c] = "going" => new # {}
  <2>1. Cardinality(new) <= streams
    <3> HIDE DEF old, new
    <3>1. Cardinality(new) <= Cardinality(old) /\ Cardinality(new) \in Nat
      <4>1. new \in SUBSET Requests
        BY <1>1, <1>4
      <4> QED
        BY <1>1, <1>4, <4>1, Counting
    <3> QED
      BY <1>2, <1>3, <3>1
  <2> QED
    BY <1>2, <1>4, <2>1
<1>5. CASE new = {} /\ conn'[tr][c] # "going"
  <2>1. Cardinality(new) = 0
    BY <1>5, FS_EmptySet
  <2> QED
    BY <1>2, <1>5, <2>1
<1>6. CASE /\ conn'[tr][c] = "open" /\ Cardinality(old) < streams
           /\ \E q \in Requests \ old : new = old \cup {q}
  <2>1. Cardinality(new) = Cardinality(old) + 1
    <3> HIDE DEF old, new
    <3> QED
      BY <1>1, <1>6, Counting
  <2> QED
    BY <1>2, <1>3, <1>6, <2>1
<1>7. CASE new = old /\ old # {} /\ conn'[tr][c] = "going" /\ protocol = "h2c"
  BY <1>2, <1>3, <1>7
<1>8. CASE conn'[tr][c] = "open" /\ \E q \in Requests : new = {q}
  <2>1. Cardinality(new) = 1
    <3> HIDE DEF old, new
    <3> QED
      BY <1>8, FS_Singleton
  <2> QED
    BY <1>2, <1>8, <2>1
<1> QED
  BY <1>4, <1>5, <1>6, <1>7, <1>8

\* What Set changes, and what it does not.
LEMMA SetConn ==
  ASSUME IndInv, NEW tr \in Transports, NEW c \in Conns, NEW state \in ConnStates,
         conn' = Set(tr, c, state)
  PROVE  /\ conn' \in [Transports -> [Conns -> ConnStates]]
         /\ \A s \in Transports \ {tr} : conn'[s] = conn[s]
         /\ conn'[tr][c] = state
         /\ \A d \in Conns \ {c} : conn'[tr][d] = conn[tr][d]
<1>1. conn \in [Transports -> [Conns -> ConnStates]]
  BY DEF IndInv, TypeInv, ConnStates
<1> QED
  BY <1>1 DEF Set

\* If nothing is set, that holds, too.
LEMMA SameConn ==
  ASSUME IndInv
  PROVE  conn \in [Transports -> [Conns -> ConnStates]] /\ orphans \in [Transports -> Nat]
  BY DEF IndInv, TypeInv, ConnStates

\* A new connection is one that nobody is on.
LEMMA Fresh ==
  ASSUME IndInv, NEW tr \in Transports, Open(tr) # Conns
  PROVE  NewConn(tr) \in Conns /\ Users(tr, NewConn(tr)) = {}
<1>1. \E c \in Conns : conn[tr][c] = "closed"
  BY DEF Open
<1>2. NewConn(tr) \in Conns /\ conn[tr][NewConn(tr)] = "closed"
  BY <1>1 DEF NewConn
<1> QED
  BY <1>2 DEF IndInv, PoolInv, ConnInv

-----------------------------------------------------------------------------
\* Requests leave their places at tr, and are over or go where nobody has a
\* connection.
Away(tr, rs) ==
  /\ req' \in [Requests -> ReqSet]
  /\ \A r \in Requests \ rs : req'[r] = req[r]
  /\ \A r \in rs : req'[r] = Out \/ (req'[r].tr = tr /\ req'[r].at \in {"taken", "dialling", "joining"})

\* Nobody else's place changes, and the connections lose just them.
LEMMA Gone ==
  ASSUME ReqInv, UNCHANGED tables, NEW tr \in Transports, NEW rs \in SUBSET Requests,
         \A r \in rs : req[r].at # "out" /\ req[r].tr = tr, Away(tr, rs)
  PROVE  ReqInv' /\ Only(tr) /\ \A c : Users(tr, c)' = Users(tr, c) \ rs
<1>1. ASSUME NEW r \in Requests
      PROVE  /\ req'[r].at # "out" => req'[r].tr \in Transports /\ req'[r].tr[1] <= Len(tables)
             /\ req'[r].at \in Connected => req'[r].on \in Conns
             /\ r \in rs => req'[r].at \notin Connected
  <2>1. CASE r \in rs
    BY <2>1 DEF ReqInv, Away, Out, Connected
  <2>2. CASE r \notin rs
    BY <2>2 DEF ReqInv, Away
  <2> QED
    BY <2>1, <2>2
<1>2. ReqInv'
  BY <1>1 DEF ReqInv, Away
<1>3. Only(tr)
  BY DEF Only, Away, Out
<1>4. ASSUME NEW c PROVE Users(tr, c)' = Users(tr, c) \ rs
  BY <1>1 DEF Users, Away
<1> QED
  BY <1>2, <1>3, <1>4

\* Go, Over and both together are such steps.
LEMMA AwayForms ==
  ASSUME ReqInv, NEW tr \in Transports, NEW rs \in SUBSET Requests,
         \A r \in rs : req[r].tr = tr, NEW at \in {"taken", "dialling", "joining"},
         \/ req' = Go(rs, at)
         \/ req' = Over(rs)
         \/ \E q \in rs : req' = [Go(rs \ {q}, at) EXCEPT ![q] = Out]
  PROVE  Away(tr, rs)
<1>1. Out \in ReqSet
  BY DEF Out, ReqSet, Places, Connected
<1>2. ASSUME NEW r \in Requests
      PROVE  [req[r] EXCEPT !.at = at, !.on = 0] \in ReqSet
             /\ [req[r] EXCEPT !.at = at, !.on = 0].tr = req[r].tr
             /\ [req[r] EXCEPT !.at = at, !.on = 0].at = at
  <2>1. req[r] \in ReqSet
    BY DEF ReqInv
  <2> QED
    BY <2>1 DEF ReqSet, Places
<1>3. CASE req' = Go(rs, at)
  BY <1>2, <1>3 DEF Go, Away, ReqInv
<1>4. CASE req' = Over(rs)
  BY <1>1, <1>4 DEF Over, Away, ReqInv
<1>5. CASE \E q \in rs : req' = [Go(rs \ {q}, at) EXCEPT ![q] = Out]
  <2>1. PICK q \in rs : req' = [Go(rs \ {q}, at) EXCEPT ![q] = Out]
    BY <1>5
  <2> QED
    BY <1>1, <1>2, <2>1 DEF Go, Away, ReqInv
<1> QED
  BY <1>3, <1>4, <1>5

\* A request of tr gets a connection.
LEMMA Boarded ==
  ASSUME ReqInv, UNCHANGED tables, NEW tr \in Transports, NEW q \in Requests,
         req[q].at \in {"taken", "dialling"}, req[q].tr = tr, NEW c \in Conns,
         req' = Board(q, c)
  PROVE  /\ ReqInv' /\ Only(tr)
         /\ Users(tr, c)' = Users(tr, c) \cup {q} /\ q \notin Users(tr, c)
         /\ \A d \in Conns \ {c} : Users(tr, d)' = Users(tr, d)
         /\ Diallers(tr)' = Diallers(tr) \ {q} /\ Joiners(tr)' = Joiners(tr)
<1>1. req[q] \in ReqSet /\ req \in [Requests -> ReqSet]
  BY DEF ReqInv
<1> DEFINE y == [req[q] EXCEPT !.at = "sending", !.on = c]
<1>2. y \in ReqSet /\ y.at = "sending" /\ y.tr = tr /\ y.on = c
  BY <1>1 DEF ReqSet, Places, Connected
<1>3. req' = [req EXCEPT ![q] = y]
  BY DEF Board
<1> HIDE DEF y
<1>4. req' \in [Requests -> ReqSet]
  BY <1>1, <1>2, <1>3
<1>5. ReqInv'
  BY <1>1, <1>2, <1>3, <1>4 DEF ReqInv, Connected
<1>6. Only(tr)
  BY <1>1, <1>2, <1>3 DEF Only
<1>7. q \notin Users(tr, c)
  BY DEF Users, Connected
<1>8. Users(tr, c)' = Users(tr, c) \cup {q} /\ \A d \in Conns \ {c} : Users(tr, d)' = Users(tr, d)
  BY <1>1, <1>2, <1>3 DEF Users, Connected
<1>9. Diallers(tr)' = Diallers(tr) \ {q} /\ Joiners(tr)' = Joiners(tr)
  BY <1>1, <1>2, <1>3 DEF Diallers, Joiners
<1> QED
  BY <1>5, <1>6, <1>7, <1>8, <1>9

\* A request leaves its connection, whole or broken off; over HTTP/1.1 it leaves
\* it whole only if the pool takes it.
LEMMA Leaving ==
  ASSUME IndInv, UNCHANGED <<upstream, tables, orphans>>, NEW r \in Requests,
         NEW tr, NEW c, tr = req[r].tr, c = req[r].on,
         req[r].at \in Connected, Away(tr, {r}), req'[r].at \in {"out", "taken"},
         \/ conn' = BreakOff(r)
         \/ /\ conn' = Leave(r)
            /\ protocol = "http1" => Cardinality(Idle(tr)) < MaxIdle
  PROVE  IndInv'
<1>1. /\ ReqInv /\ tr \in Transports /\ c \in Conns /\ r \in Users(tr, c) /\ PoolInv(tr)
      /\ req[r].at # "out" /\ protocol \in {"http1", "h2c"}
  BY DEF IndInv, TypeInv, ReqInv, Users, Connected
<1>2. ReqInv' /\ Only(tr) /\ \A d : Users(tr, d)' = Users(tr, d) \ {r}
  <2>1. {r} \in SUBSET Requests /\ \A q \in {r} : req[q].at # "out" /\ req[q].tr = tr
    BY <1>1
  <2> QED
    BY <1>1, <2>1, Gone
<1>3. Diallers(tr)' = Diallers(tr) /\ Joiners(tr)' = Joiners(tr)
  BY <1>1 DEF Diallers, Joiners, Away, Connected
<1>4. ASSUME NEW d \in Conns, d # c PROVE Users(tr, d)' = Users(tr, d)
  BY <1>2, <1>4 DEF Users
<1>5. DialsShared(tr)'
  BY <1>1, <1>3 DEF PoolInv, DialsShared
<1>6. ConnInv(tr, c) /\ \A d \in Conns : ConnInv(tr, d)
  BY <1>1 DEF PoolInv
<1>7. /\ conn' \in [Transports -> [Conns -> ConnStates]]
      /\ \A s \in Transports \ {tr} : conn'[s] = conn[s]
      /\ \A d \in Conns \ {c} : conn'[tr][d] = conn[tr][d]
      /\ \/ conn'[tr][c] = "closed" /\ Users(tr, c)' = {}
         \/ /\ conn'[tr][c] = conn[tr][c]
            /\ conn[tr][c] = "going" => Users(tr, c)' # {}
            /\ protocol = "http1" => Cardinality(Idle(tr)) < MaxIdle
  <2>1. CASE conn' = Set(tr, c, "closed") /\ Users(tr, c) = {r}
    BY <1>1, <1>2, <2>1, SetConn DEF ConnStates
  <2>2. CASE /\ conn' = conn /\ ~(conn[tr][c] = "going" /\ Users(tr, c) = {r})
             /\ protocol = "http1" => Cardinality(Idle(tr)) < MaxIdle
    BY <1>1, <1>2, <2>2, SameConn
  <2>3. CASE protocol = "http1" /\ conn' = Set(tr, c, "closed")
    <3>1. Cardinality(Users(tr, c)) <= 1
      BY <1>6, <2>3 DEF ConnInv, IndInv, TypeInv
    <3>2. Users(tr, c) = {r}
      BY <1>1, <3>1, Alone, Finite
    <3> QED
      BY <2>1, <2>3, <3>2
  <2>4. CASE protocol = "h2c"
    BY <2>1, <2>2, <2>4 DEF BreakOff, Leave
  <2>5. CASE protocol = "http1"
    BY <2>1, <2>2, <2>3, <2>5 DEF BreakOff, Leave
  <2> QED
    BY <1>1, <2>4, <2>5
<1>8. ASSUME NEW d \in Conns PROVE ConnInv(tr, d)'
  <2>1. CASE d = c
    <3>1. Users(tr, c)' \subseteq Users(tr, c)
      BY <1>2
    <3> QED
      BY <1>1, <1>6, <1>7, <2>1, <3>1, ConnStep
  <2>2. CASE d # c
    <3>1. Users(tr, d)' = Users(tr, d) /\ conn'[tr][d] = conn[tr][d]
      BY <1>4, <1>7, <2>2
    <3>2. conn[tr][d] = "going" => Users(tr, d)' # {}
      BY <1>6, <3>1 DEF ConnInv
    <3> QED
      BY <1>1, <1>6, <3>1, <3>2, ConnStep
  <2> QED
    BY <2>1, <2>2
<1>9. protocol = "http1" =>
        \/ Idle(tr)' \subseteq Idle(tr)
        \/ Cardinality(Idle(tr)) < MaxIdle /\ Idle(tr)' \subseteq Idle(tr) \cup {c}
  BY <1>4, <1>7 DEF Idle
<1>10. PoolInv(tr)'
  BY <1>1, <1>5, <1>8, <1>9, PoolStep
<1> QED
  BY <1>1, <1>2, <1>7, <1>10, SameConn, StepAt

\* A step that moves requests without a connection leaves the connections alone.
LEMMA Waiting ==
  ASSUME IndInv, UNCHANGED <<upstream, tables, conn>>, NEW tr \in Transports,
         NEW rs \in SUBSET Requests, Away(tr, rs),
         \A r \in rs : req[r].tr = tr /\ req[r].at \in {"taken", "dialling", "joining"},
         orphans' \in [Transports -> Nat],
         \A s \in Transports \ {tr} : orphans'[s] = orphans[s], DialsShared(tr)'
  PROVE  IndInv'
<1>1. ReqInv /\ PoolInv(tr)
  BY DEF IndInv, TypeInv
<1>2. ReqInv' /\ Only(tr) /\ \A d : Users(tr, d)' = Users(tr, d) \ rs
  BY <1>1, Gone
<1>3. ASSUME NEW d \in Conns PROVE Users(tr, d)' = Users(tr, d)
  BY <1>2 DEF Users, Connected
<1>4. ASSUME NEW d \in Conns PROVE ConnInv(tr, d)'
  <2>1. ConnInv(tr, d) /\ Users(tr, d)' = Users(tr, d) /\ conn'[tr][d] = conn[tr][d]
    BY <1>1, <1>3 DEF PoolInv
  <2> QED
    BY <2>1, ConnStep DEF ConnInv
<1>5. Idle(tr)' \subseteq Idle(tr)
  BY <1>3 DEF Idle
<1>6. PoolInv(tr)'
  BY <1>4, <1>5, PoolStep
<1> QED
  BY <1>2, <1>6, SameConn, StepAt

\* Where one connection changes, the others stay right, and only it can become
\* idle.
LEMMA OneConn ==
  ASSUME IndInv, UNCHANGED upstream, NEW tr \in Transports, NEW c \in Conns,
         \A d \in Conns \ {c} : Users(tr, d)' = Users(tr, d) /\ conn'[tr][d] = conn[tr][d],
         ConnInv(tr, c)'
  PROVE  /\ \A d \in Conns : ConnInv(tr, d)'
         /\ Idle(tr)' \subseteq Idle(tr) \cup {c}
         /\ conn'[tr][c] # "open" \/ Users(tr, c)' # {} => Idle(tr)' \subseteq Idle(tr)
<1>1. ASSUME NEW d \in Conns \ {c} PROVE ConnInv(tr, d)'
  <2>1. ConnInv(tr, d) /\ Users(tr, d)' = Users(tr, d) /\ conn'[tr][d] = conn[tr][d]
    BY <1>1 DEF IndInv, PoolInv
  <2> QED
    BY <2>1, ConnStep DEF ConnInv
<1>2. Idle(tr)' \subseteq Idle(tr) \cup {c}
  BY DEF Idle
<1>3. conn'[tr][c] # "open" \/ Users(tr, c)' # {} => Idle(tr)' \subseteq Idle(tr)
  BY DEF Idle
<1> QED
  BY <1>1, <1>2, <1>3

-----------------------------------------------------------------------------
\* The steps, one by one: a request is taken, ...
LEMMA TakeStep ==
  ASSUME IndInv, NEW r \in Requests, NEW p \in Prefixes, Take(r, p)
  PROVE  IndInv'
<1> DEFINE y == [at |-> "taken", tr |-> <<Len(tables), p>>, on |-> 0]
<1>1. PICK tr \in Transports : tr = <<Len(tables), p>> /\ tr[1] = Len(tables)
  <2>1. Len(tables) \in 1..MaxReplace + 1
    BY DEF IndInv, TypeInv
  <2>2. <<Len(tables), p>> \in Transports
    BY <2>1 DEF Transports
  <2> QED
    BY <2>2
<1>2. /\ req \in [Requests -> ReqSet] /\ req' = [req EXCEPT ![r] = y]
      /\ y \in ReqSet /\ y.at = "taken" /\ y.tr = tr /\ req[r].at = "out"
      /\ UNCHANGED <<upstream, tables, conn, orphans>>
  BY <1>1 DEF IndInv, TypeInv, ReqInv, Take, Active, ReqSet, Places
<1> HIDE DEF y
<1>3. ReqInv'
  <2>1. req' \in [Requests -> ReqSet]
    BY <1>2
  <2>2. tr[1] <= Len(tables)
    BY <1>1 DEF IndInv, TypeInv
  <2> QED
    BY <1>2, <2>1, <2>2 DEF IndInv, TypeInv, ReqInv, Connected
<1>4. Only(tr)
  BY <1>2 DEF Only
<1>5. SameWaiters(tr) /\ SameUsers(tr)
  BY <1>2 DEF SameWaiters, SameUsers, Diallers, Joiners, Users, Connected
<1>6. PoolInv(tr)'
  BY <1>2, <1>5, Kept DEF IndInv
<1> QED
  BY <1>2, <1>3, <1>4, <1>6, SameConn, StepAt

\* ... finds a connection, ...
LEMMA ReuseStep ==
  ASSUME IndInv, NEW r \in Requests, Reuse(r)
  PROVE  IndInv'
<1>1. PICK tr \in Transports : tr = req[r].tr
  BY DEF IndInv, TypeInv, ReqInv, Reuse
<1>2. PICK c \in Room(tr) : req' = Board(r, c)
  BY <1>1 DEF Reuse
<1>3. /\ ReqInv /\ c \in Conns /\ conn[tr][c] = "open" /\ req[r].at = "taken"
      /\ Cardinality(Users(tr, c)) < streams
      /\ UNCHANGED <<upstream, tables, conn, orphans>>
  BY DEF Reuse, Room, IndInv, TypeInv
<1>4. /\ ReqInv' /\ Only(tr)
      /\ Users(tr, c)' = Users(tr, c) \cup {r} /\ r \notin Users(tr, c)
      /\ \A d \in Conns \ {c} : Users(tr, d)' = Users(tr, d)
      /\ Diallers(tr)' = Diallers(tr) \ {r} /\ Joiners(tr)' = Joiners(tr)
  BY <1>1, <1>2, <1>3, Boarded
<1>5. DialsShared(tr)'
  <2>1. Diallers(tr)' = Diallers(tr)
    BY <1>3, <1>4 DEF Diallers
  <2> QED
    BY <1>3, <1>4, <2>1 DEF IndInv, PoolInv, DialsShared
<1>6. ConnInv(tr, c)'
  <2>1. ConnInv(tr, c)
    BY <1>3 DEF IndInv, PoolInv
  <2> QED
    BY <1>3, <1>4, <2>1, ConnStep
<1>7. (\A d \in Conns : ConnInv(tr, d)') /\ Idle(tr)' \subseteq Idle(tr)
  BY <1>3, <1>4, <1>6, OneConn
<1>8. PoolInv(tr)'
  BY <1>3, <1>5, <1>7, PoolStep
<1> QED
  BY <1>3, <1>4, <1>8, SameConn, StepAt

\* ... dials or joins a dial, ...
LEMMA DialStep ==
  ASSUME IndInv, NEW r \in Requests, Dial(r)
  PROVE  IndInv'
<1>1. PICK tr \in Transports : tr = req[r].tr
  BY DEF IndInv, TypeInv, ReqInv, Dial
<1>2. PICK at \in {"dialling", "joining"} :
        /\ req' = Go({r}, at) /\ req[r].at = "taken"
        /\ protocol = "http1" => at = "dialling"
        /\ protocol = "h2c" => at = IF Diallers(tr) = {} THEN "dialling" ELSE "joining"
        /\ UNCHANGED <<upstream, tables, conn, orphans>>
  <2>1. CASE protocol = "h2c"
    BY <1>1, <2>1 DEF Dial
  <2>2. CASE protocol # "h2c"
    BY <1>1, <2>2 DEF Dial
  <2> QED
    BY <2>1, <2>2
<1>3. ReqInv /\ {r} \in SUBSET Requests /\ (\A q \in {r} : req[q].tr = tr) /\ DialsShared(tr)
  BY <1>1 DEF IndInv, TypeInv, PoolInv
<1>4. Away(tr, {r})
  BY <1>2, <1>3, AwayForms
<1>5. req'[r].at = at /\ req'[r].tr = tr /\ \A q \in Requests \ {r} : req'[q] = req[q]
  BY <1>1, <1>2, <1>3 DEF Go, ReqInv, ReqSet
<1>6. DialsShared(tr)'
  <2>1. CASE at = "dialling"
    <3>1. Diallers(tr)' = Diallers(tr) \cup {r} /\ Joiners(tr)' = Joiners(tr)
      BY <1>2, <1>5, <2>1 DEF Diallers, Joiners
    <3>2. protocol = "h2c" => Diallers(tr) = {}
      BY <1>2, <2>1
    <3> QED
      BY <1>2, <1>3, <3>1, <3>2 DEF DialsShared
  <2>2. CASE at = "joining"
    <3>1. Diallers(tr)' = Diallers(tr)
      BY <1>2, <1>5, <2>2 DEF Diallers
    <3>2. protocol # "http1" /\ (protocol = "h2c" => Diallers(tr) # {})
      BY <1>2, <2>2
    <3> QED
      BY <1>2, <1>3, <3>1, <3>2 DEF DialsShared
  <2> QED
    BY <2>1, <2>2
<1> QED
  BY <1>2, <1>3, <1>4, <1>6, SameConn, Waiting

\* ... and those who wait for a dial are all of its transport.
LEMMA Crew ==
  ASSUME IndInv, NEW r \in Requests, req[r].at = "dialling", NEW tr, tr = req[r].tr
  PROVE  /\ tr \in Transports /\ DialsShared(tr) /\ r \in Diallers(tr)
         /\ {r} \cup Joiners(tr) \in SUBSET Requests /\ r \notin Joiners(tr)
         /\ \A q \in {r} \cup Joiners(tr) :
              req[q].tr = tr /\ req[q].at \in {"taken", "dialling", "joining"}
         /\ protocol = "h2c" => Diallers(tr) = {r}
<1>1. tr \in Transports
  BY DEF IndInv, TypeInv, ReqInv
<1>2. DialsShared(tr) /\ r \in Diallers(tr)
  BY <1>1 DEF IndInv, PoolInv, Diallers
<1>3. protocol = "h2c" => Diallers(tr) = {r}
  BY <1>2 DEF DialsShared
<1> QED
  BY <1>1, <1>2, <1>3 DEF Joiners

\* The dial succeeds, ...
LEMMA DialDoneStep ==
  ASSUME IndInv, NEW r \in Requests, DialDone(r)
  PROVE  IndInv'
<1>1. PICK tr : tr = req[r].tr
  OBVIOUS
<1>2. PICK c : c = NewConn(tr)
  OBVIOUS
<1>3. /\ req[r].at = "dialling" /\ Open(tr) # Conns
      /\ conn' = Set(tr, c, "open") /\ UNCHANGED <<upstream, tables, orphans>>
      /\ req' = IF protocol = "h2c" THEN Go({r} \cup Joiners(tr), "taken") ELSE Board(r, c)
  BY <1>1, <1>2 DEF DialDone
<1> DEFINE rs == {r} \cup Joiners(tr)
<1>4. /\ tr \in Transports /\ DialsShared(tr) /\ r \in Diallers(tr)
      /\ rs \in SUBSET Requests
      /\ \A q \in rs : req[q].tr = tr /\ req[q].at \in {"taken", "dialling", "joining"}
      /\ protocol = "h2c" => Diallers(tr) = {r}
  BY <1>1, <1>3, Crew
<1>5. c \in Conns /\ Users(tr, c) = {} /\ ReqInv /\ ConnInv(tr, c) /\ protocol \in {"http1", "h2c"}
  BY <1>2, <1>3, <1>4, Fresh DEF IndInv, TypeInv, PoolInv
<1>6. /\ conn' \in [Transports -> [Conns -> ConnStates]]
      /\ \A s \in Transports \ {tr} : conn'[s] = conn[s]
      /\ conn'[tr][c] = "open"
      /\ \A d \in Conns \ {c} : conn'[tr][d] = conn[tr][d]
  BY <1>3, <1>4, <1>5, SetConn DEF ConnStates
<1>7. /\ ReqInv' /\ Only(tr) /\ DialsShared(tr)'
      /\ \A d \in Conns \ {c} : Users(tr, d)' = Users(tr, d)
      /\ Users(tr, c)' = IF protocol = "h2c" THEN {} ELSE {r}
  <2>1. CASE protocol = "h2c"
    <3>1. Away(tr, rs)
      BY <1>3, <1>4, <1>5, <2>1, AwayForms
    <3>2. ReqInv' /\ Only(tr) /\ \A d : Users(tr, d)' = Users(tr, d) \ rs
      BY <1>3, <1>4, <1>5, <3>1, Gone
    <3>3. ASSUME NEW d \in Conns PROVE Users(tr, d)' = Users(tr, d)
      BY <1>4, <3>2 DEF Users, Connected
    <3>4. Diallers(tr)' = {} /\ Joiners(tr)' = {}
      <4>1. ASSUME NEW q \in rs PROVE req'[q].at = "taken"
        BY <1>3, <1>4, <1>5, <2>1, <4>1 DEF Go, ReqInv, ReqSet
      <4>2. ASSUME NEW q \in Requests \ rs PROVE req'[q] = req[q]
        BY <3>1, <4>2 DEF Away
      <4> HIDE DEF rs
      <4>3. \A q \in Requests \ rs : q \notin Diallers(tr) /\ q \notin Joiners(tr)
        BY <1>4, <2>1 DEF rs
      <4> QED
        BY <4>1, <4>2, <4>3 DEF Diallers, Joiners
    <3> QED
      BY <1>3, <1>4, <1>5, <2>1, <3>2, <3>3, <3>4 DEF DialsShared
  <2>2. CASE protocol = "http1"
    <3>1. /\ ReqInv' /\ Only(tr) /\ Users(tr, c)' = Users(tr, c) \cup {r}
          /\ \A d \in Conns \ {c} : Users(tr, d)' = Users(tr, d)
          /\ Diallers(tr)' = Diallers(tr) \ {r} /\ Joiners(tr)' = Joiners(tr)
      BY <1>1, <1>3, <1>4, <1>5, <2>2, Boarded
    <3> QED
      BY <1>3, <1>4, <1>5, <2>2, <3>1 DEF DialsShared
  <2> QED
    BY <1>5, <2>1, <2>2
<1>8. ConnInv(tr, c)'
  BY <1>3, <1>4, <1>5, <1>6, <1>7, ConnStep
<1>9. /\ \A d \in Conns : ConnInv(tr, d)'
      /\ protocol = "http1" => Idle(tr)' \subseteq Idle(tr)
  BY <1>3, <1>4, <1>5, <1>6, <1>7, <1>8, OneConn
<1>10. PoolInv(tr)'
  BY <1>3, <1>4, <1>7, <1>9, PoolStep
<1> QED
  BY <1>3, <1>4, <1>6, <1>7, <1>10, SameConn, StepAt

\* ... fails, ...
LEMMA DialFailStep ==
  ASSUME IndInv, NEW r \in Requests, DialFail(r)
  PROVE  IndInv'
<1>1. PICK tr : tr = req[r].tr
  OBVIOUS
<1> DEFINE rs == {r} \cup Joiners(tr)
<1>2. req[r].at = "dialling" /\ req' = Over(rs) /\ UNCHANGED <<upstream, tables, conn, orphans>>
  BY <1>1 DEF DialFail
<1>3. /\ tr \in Transports /\ DialsShared(tr) /\ r \in Diallers(tr)
      /\ rs \in SUBSET Requests
      /\ \A q \in rs : req[q].tr = tr /\ req[q].at \in {"taken", "dialling", "joining"}
      /\ protocol = "h2c" => Diallers(tr) = {r}
  BY <1>1, <1>2, Crew
<1>4. Away(tr, rs)
  <2>1. ReqInv
    BY DEF IndInv, TypeInv
  <2> QED
    BY <1>2, <1>3, <2>1, AwayForms
<1>5. Diallers(tr)' = Diallers(tr) \ {r} /\ Joiners(tr)' = {}
  BY <1>2, <1>3 DEF Over, Out, Diallers, Joiners
<1>6. DialsShared(tr)'
  BY <1>2, <1>3, <1>5 DEF DialsShared
<1> QED
  BY <1>2, <1>3, <1>4, <1>6, SameConn, Waiting

\* ... or its client goes away.
LEMMA DialCancelStep ==
  ASSUME IndInv, NEW r \in Requests, DialCancel(r)
  PROVE  IndInv'
<1>1. PICK tr : tr = req[r].tr
  OBVIOUS
<1>2. req[r].at = "dialling" /\ UNCHANGED <<upstream, tables, conn>>
  BY DEF DialCancel
<1> DEFINE rs == {r} \cup Joiners(tr)
<1>3. /\ tr \in Transports /\ DialsShared(tr) /\ r \in Diallers(tr)
      /\ rs \in SUBSET Requests /\ r \notin Joiners(tr)
      /\ \A q \in rs : req[q].tr = tr /\ req[q].at \in {"taken", "dialling", "joining"}
      /\ protocol = "h2c" => Diallers(tr) = {r}
  BY <1>1, <1>2, Crew
<1>4. ReqInv /\ orphans \in [Transports -> Nat] /\ req \in [Requests -> ReqSet]
  BY DEF IndInv, TypeInv, ReqInv
<1>5. CASE /\ protocol = "http1" /\ req' = Over({r})
           /\ orphans' = [orphans EXCEPT ![tr] = @ + 1]
  <2>1. Away(tr, {r})
    BY <1>3, <1>4, <1>5, AwayForms
  <2>2. Joiners(tr)' = {}
    BY <1>3, <1>5 DEF Over, Out, Joiners, DialsShared
  <2>3. DialsShared(tr)'
    BY <1>2, <1>5, <2>2 DEF DialsShared
  <2>4. orphans' \in [Transports -> Nat] /\ \A s \in Transports \ {tr} : orphans'[s] = orphans[s]
    BY <1>3, <1>4, <1>5
  <2> QED
    BY <1>2, <1>3, <2>1, <2>3, <2>4, Waiting
<1>6. CASE /\ protocol = "h2c" /\ UNCHANGED orphans
           /\ \/ req' = Over(rs)
              \/ req' = [Go(Joiners(tr), "taken") EXCEPT ![r] = Out]
  <2>1. Joiners(tr) = rs \ {r} /\ r \in rs
    BY <1>3
  <2>2. Away(tr, rs)
    <3> HIDE DEF rs
    <3> QED
      BY <1>3, <1>4, <1>6, <2>1, AwayForms
  <2>3. Diallers(tr)' = {} /\ Joiners(tr)' = {}
    <3>1. ASSUME NEW q \in rs PROVE req'[q].at \in {"out", "taken"}
      <4>1. CASE req' = Over(rs)
        BY <1>3, <3>1, <4>1 DEF Over, Out
      <4>2. CASE req' = [Go(Joiners(tr), "taken") EXCEPT ![r] = Out]
        BY <1>3, <1>4, <3>1, <4>2 DEF Go, Out, ReqSet
      <4> QED
        BY <1>6, <4>1, <4>2
    <3>2. \A q \in Requests \ rs : req'[q] = req[q] /\ q \notin Diallers(tr) /\ q \notin Joiners(tr)
      BY <1>3, <1>6, <2>2 DEF Away
    <3> HIDE DEF rs
    <3> QED
      BY <3>1, <3>2 DEF Diallers, Joiners
  <2>4. DialsShared(tr)'
    BY <1>2, <1>3, <1>6, <2>3 DEF DialsShared
  <2> QED
    BY <1>2, <1>3, <1>4, <1>6, <2>2, <2>4, Waiting
<1> QED
  BY <1>1, <1>5, <1>6 DEF DialCancel

\* A request on a connection goes on: it is sent, or its headers are there.
LEMMA AlongStep ==
  ASSUME IndInv, NEW r \in Requests, Sent(r) \/ Headers(r)
  PROVE  IndInv'
<1>1. PICK at \in {"waiting", "body"} :
        /\ req[r].at \in {"sending", "waiting"} /\ req' = At(r, at)
        /\ UNCHANGED <<upstream, tables, conn, orphans>>
  BY DEF Sent, Headers
<1> DEFINE y == [req[r] EXCEPT !.at = at]
<1>2. req \in [Requests -> ReqSet] /\ req[r] \in ReqSet
  BY DEF IndInv, TypeInv, ReqInv
<1>3. y \in ReqSet /\ y.at = at /\ y.tr = req[r].tr /\ y.on = req[r].on
  BY <1>2 DEF ReqSet, Places, Connected
<1>4. req' = [req EXCEPT ![r] = y]
  BY <1>1 DEF At
<1> HIDE DEF y
<1>5. req' \in [Requests -> ReqSet]
  BY <1>2, <1>3, <1>4
<1>6. ReqInv'
  BY <1>1, <1>2, <1>3, <1>4, <1>5 DEF IndInv, TypeInv, ReqInv, Connected
<1>7. ASSUME NEW s \in Transports PROVE SameWaiters(s) /\ SameUsers(s)
  BY <1>1, <1>2, <1>3, <1>4 DEF SameWaiters, SameUsers, Diallers, Joiners, Users, Connected
<1>8. \A s \in Transports : PoolInv(s)'
  BY <1>1, <1>7, Kept DEF IndInv
<1>9. TypeInv'
  BY <1>1, <1>6 DEF IndInv, TypeInv
<1> QED
  BY <1>8, <1>9 DEF IndInv

\* A request leaves its connection: the steps that break it off, ...
LEMMA BreakOffStep ==
  ASSUME IndInv, NEW r \in Requests, req[r].at \in Connected,
         req' = Over({r}) \/ req' = Go({r}, "taken"),
         conn' = BreakOff(r), UNCHANGED <<upstream, tables, orphans>>
  PROVE  IndInv'
<1>1. PICK tr, c : tr = req[r].tr /\ c = req[r].on
  OBVIOUS
<1>2. ReqInv /\ tr \in Transports /\ {r} \in SUBSET Requests /\ \A q \in {r} : req[q].tr = tr
  BY <1>1 DEF IndInv, TypeInv, ReqInv, Connected
<1>3. Away(tr, {r})
  BY <1>2, AwayForms
<1>4. req'[r].at \in {"out", "taken"}
  <2>1. CASE req' = Over({r})
    BY <2>1 DEF Over, Out
  <2>2. CASE req' = Go({r}, "taken")
    <3>1. req[r] \in ReqSet
      BY <1>2 DEF ReqInv
    <3> QED
      BY <2>2, <3>1 DEF Go, ReqSet
  <2> QED
    BY <2>1, <2>2
<1> QED
  BY <1>1, <1>3, <1>4, Leaving

\* ... a client that leaves, wherever its request is, ...
LEMMA ClientGoneStep ==
  ASSUME IndInv, NEW r \in Requests, ClientGone(r)
  PROVE  IndInv'
<1>1. req' = Over({r}) /\ UNCHANGED <<upstream, tables, orphans>>
  BY DEF ClientGone
<1>2. CASE req[r].at \in Connected
  BY <1>1, <1>2, BreakOffStep DEF ClientGone
<1>3. CASE req[r].at \notin Connected
  <2>1. conn' = conn /\ req[r].at \in {"taken", "joining"}
    BY <1>3 DEF ClientGone
  <2>2. PICK tr : tr = req[r].tr
    OBVIOUS
  <2>3. /\ ReqInv /\ tr \in Transports /\ {r} \in SUBSET Requests /\ DialsShared(tr)
        /\ \A q \in {r} : req[q].tr = tr /\ req[q].at \in {"taken", "dialling", "joining"}
    BY <2>1, <2>2 DEF IndInv, TypeInv, ReqInv, PoolInv
  <2>4. Away(tr, {r})
    BY <1>1, <2>3, AwayForms
  <2>5. Diallers(tr)' = Diallers(tr) /\ Joiners(tr)' \subseteq Joiners(tr)
    BY <1>1, <2>1, <2>3 DEF Over, Out, Diallers, Joiners
  <2>6. DialsShared(tr)'
    BY <1>1, <2>3, <2>5 DEF DialsShared
  <2> QED
    BY <1>1, <2>1, <2>3, <2>4, <2>6, SameConn, Waiting
<1> QED
  BY <1>2, <1>3

\* ... the end of the body, ...
LEMMA BodyDoneStep ==
  ASSUME IndInv, NEW r \in Requests, BodyDone(r)
  PROVE  IndInv'
<1>1. PICK tr, c : tr = req[r].tr /\ c = req[r].on
  OBVIOUS
<1>2. /\ req[r].at = "body" /\ req' = Over({r}) /\ UNCHANGED <<upstream, tables, orphans>>
      /\ conn' = IF protocol = "http1" /\ Cardinality(Idle(tr)) >= MaxIdle
                 THEN BreakOff(r) ELSE Leave(r)
  BY <1>1 DEF BodyDone
<1>3. req[r].at \in Connected
  BY <1>2 DEF Connected
<1>4. CASE protocol = "http1" /\ Cardinality(Idle(tr)) >= MaxIdle
  BY <1>2, <1>3, <1>4, BreakOffStep
<1>5. CASE ~(protocol = "http1" /\ Cardinality(Idle(tr)) >= MaxIdle)
  <2>1. Cardinality(Idle(tr)) \in Nat /\ MaxIdle \in Nat
    BY Counting, Finite, Limits
  <2>2. conn' = Leave(r) /\ (protocol = "http1" => Cardinality(Idle(tr)) < MaxIdle)
    BY <1>2, <1>5, <2>1
  <2>3. ReqInv /\ tr \in Transports /\ {r} \in SUBSET Requests /\ \A q \in {r} : req[q].tr = tr
    BY <1>1, <1>2 DEF IndInv, TypeInv, ReqInv
  <2>4. Away(tr, {r})
    BY <1>2, <2>3, AwayForms
  <2>5. req'[r].at \in {"out", "taken"}
    BY <1>2 DEF Over, Out
  <2> QED
    BY <1>1, <1>2, <1>3, <2>2, <2>4, <2>5, Leaving
<1> QED
  BY <1>4, <1>5

\* ... a hand-over to a request that dials, ...
LEMMA HandOverStep ==
  ASSUME IndInv, NEW r \in Requests, HandOver(r)
  PROVE  IndInv'
<1>1. PICK tr, c : tr = req[r].tr /\ c = req[r].on
  OBVIOUS
<1>2. PICK q \in Diallers(tr) : req' = [Board(q, c) EXCEPT ![r] = Out]
  BY <1>1 DEF HandOver
<1>3. /\ req[r].at = "body" /\ protocol = "http1"
      /\ orphans' = [orphans EXCEPT ![tr] = @ + 1] /\ UNCHANGED <<upstream, tables, conn>>
  BY <1>1 DEF HandOver
<1>4. /\ ReqInv /\ tr \in Transports /\ c \in Conns /\ r \in Users(tr, c)
      /\ PoolInv(tr) /\ ConnInv(tr, c) /\ tr[1] <= Len(tables)
      /\ orphans \in [Transports -> Nat]
  <2>1. ReqInv /\ orphans \in [Transports -> Nat] /\ req[r].at \in Connected
    BY <1>3 DEF IndInv, TypeInv, Connected
  <2>2. tr \in Transports /\ tr[1] <= Len(tables) /\ c \in Conns /\ r \in Users(tr, c)
    BY <1>1, <1>3, <2>1 DEF ReqInv, Users
  <2>3. PoolInv(tr) /\ ConnInv(tr, c)
    BY <2>2 DEF IndInv, PoolInv
  <2> QED
    BY <2>1, <2>2, <2>3
<1>5. q \in Requests /\ req[q].at = "dialling" /\ req[q].tr = tr /\ q # r
  BY <1>3 DEF Diallers
<1>6. Users(tr, c) = {r} /\ conn[tr][c] = "open"
  <2>1. Cardinality(Users(tr, c)) <= 1
    BY <1>3, <1>4 DEF ConnInv, IndInv, TypeInv
  <2>2. Users(tr, c) = {r}
    BY <1>4, <2>1, Alone, Finite
  <2>3. conn[tr][c] \in ConnStates
    BY <1>4, SameConn
  <2> QED
    BY <1>3, <1>4, <2>2, <2>3 DEF ConnInv, ConnStates
<1> DEFINE y == [req[q] EXCEPT !.at = "sending", !.on = c]
<1>7. /\ req \in [Requests -> ReqSet] /\ req[q] \in ReqSet
      /\ Out \in ReqSet /\ Out.at = "out"
  BY <1>4, <1>5 DEF ReqInv, Out, ReqSet, Places
<1>8. y \in ReqSet /\ y.at = "sending" /\ y.tr = tr /\ y.on = c
  BY <1>4, <1>5, <1>7 DEF ReqSet, Places, Connected
<1>9. req' = [[req EXCEPT ![q] = y] EXCEPT ![r] = Out]
  BY <1>2 DEF Board
<1> HIDE DEF y
<1>10. /\ req' \in [Requests -> ReqSet] /\ req'[q] = y /\ req'[r] = Out
       /\ \A x \in Requests \ {q, r} : req'[x] = req[x]
  BY <1>5, <1>7, <1>8, <1>9
<1>11. ReqInv'
  BY <1>3, <1>4, <1>7, <1>8, <1>10 DEF ReqInv, Connected
<1>12. Only(tr)
  BY <1>1, <1>5, <1>7, <1>8, <1>10 DEF Only
<1>13. /\ Users(tr, c)' = {q}
       /\ \A d \in Conns \ {c} : Users(tr, d)' = Users(tr, d)
  <2>1. \A x \in Requests \ {q, r} : x \notin Users(tr, c)
    BY <1>6
  <2>2. Users(tr, c)' = {q}
    BY <1>5, <1>7, <1>8, <1>10, <2>1 DEF Users, Connected
  <2>3. \A d \in Conns \ {c} : Users(tr, d)' = Users(tr, d)
    BY <1>1, <1>5, <1>7, <1>8, <1>10 DEF Users, Connected
  <2> QED
    BY <2>2, <2>3
<1>14. DialsShared(tr)'
  <2>1. Joiners(tr)' = Joiners(tr)
    BY <1>3, <1>5, <1>7, <1>8, <1>10 DEF Joiners
  <2> QED
    BY <1>3, <1>4, <2>1 DEF PoolInv, DialsShared
<1>15. ConnInv(tr, c)'
  BY <1>3, <1>4, <1>5, <1>6, <1>13, ConnStep
<1>16. (\A d \in Conns : ConnInv(tr, d)') /\ Idle(tr)' \subseteq Idle(tr)
  BY <1>3, <1>4, <1>13, <1>15, OneConn
<1>17. PoolInv(tr)'
  BY <1>3, <1>4, <1>14, <1>16, PoolStep
<1>18. orphans' \in [Transports -> Nat] /\ \A s \in Transports \ {tr} : orphans'[s] = orphans[s]
  BY <1>3, <1>4
<1> QED
  BY <1>3, <1>4, <1>11, <1>12, <1>17, <1>18, SameConn, StepAt

\* ... and a connection that is lost with everyone on it.
LEMMA ConnLostStep ==
  ASSUME IndInv, NEW r \in Requests, ConnLost(r)
  PROVE  IndInv'
<1>1. PICK tr, c : tr = req[r].tr /\ c = req[r].on
  OBVIOUS
<1> DEFINE rs == Users(tr, c)
<1>2. /\ req[r].at \in Connected /\ req' = Over(rs) /\ conn' = Set(tr, c, "closed")
      /\ UNCHANGED <<upstream, tables, orphans>>
  BY <1>1 DEF ConnLost
<1>3. /\ ReqInv /\ tr \in Transports /\ c \in Conns /\ PoolInv(tr) /\ ConnInv(tr, c)
      /\ rs \in SUBSET Requests
      /\ \A q \in rs : req[q].at # "out" /\ req[q].tr = tr /\ req[q].at \in Connected
  BY <1>1, <1>2 DEF IndInv, TypeInv, ReqInv, PoolInv, Users, Connected
<1>4. Away(tr, rs)
  BY <1>2, <1>3, AwayForms
<1>5. ReqInv' /\ Only(tr) /\ \A d : Users(tr, d)' = Users(tr, d) \ rs
  BY <1>2, <1>3, <1>4, Gone
<1>6. Users(tr, c)' = {} /\ \A d \in Conns \ {c} : Users(tr, d)' = Users(tr, d)
  <2>1. ASSUME NEW d \in Conns \ {c} PROVE Users(tr, d) \cap rs = {}
    BY DEF Users
  <2> QED
    BY <1>5, <2>1
<1>7. /\ conn' \in [Transports -> [Conns -> ConnStates]]
      /\ \A s \in Transports \ {tr} : conn'[s] = conn[s]
      /\ conn'[tr][c] = "closed"
      /\ \A d \in Conns \ {c} : conn'[tr][d] = conn[tr][d]
  BY <1>2, <1>3, SetConn DEF ConnStates
<1>8. DialsShared(tr)'
  <2>1. Diallers(tr)' = Diallers(tr) /\ Joiners(tr)' = Joiners(tr)
    <3> HIDE DEF rs
    <3> QED
      BY <1>2, <1>3 DEF Over, Out, Diallers, Joiners, Connected
  <2> QED
    BY <1>2, <1>3, <2>1 DEF PoolInv, DialsShared
<1>9. ConnInv(tr, c)'
  BY <1>2, <1>3, <1>6, <1>7, ConnStep
<1>10. (\A d \in Conns : ConnInv(tr, d)') /\ Idle(tr)' \subseteq Idle(tr)
  BY <1>2, <1>3, <1>6, <1>7, <1>9, OneConn
<1>11. PoolInv(tr)'
  BY <1>2, <1>3, <1>8, <1>10, PoolStep
<1> QED
  BY <1>2, <1>3, <1>5, <1>7, <1>11, SameConn, StepAt

-----------------------------------------------------------------------------
\* The steps of a transport: a dial nobody waits for succeeds, ...
LEMMA OrphanUpStep ==
  ASSUME IndInv, NEW tr \in Transports, OrphanUp(tr)
  PROVE  IndInv'
<1>1. PICK c : c = NewConn(tr)
  OBVIOUS
<1>2. /\ ReqInv /\ PoolInv(tr) /\ protocol = "http1" /\ orphans \in [Transports -> Nat]
      /\ orphans[tr] > 0 /\ UNCHANGED <<upstream, tables>>
  BY DEF IndInv, TypeInv, PoolInv, DialsShared, OrphanUp
<1>3. c \in Conns /\ Users(tr, c) = {} /\ ConnInv(tr, c)
  BY <1>1, <1>2, Fresh DEF OrphanUp, PoolInv
<1>4. CASE (\E q \in Diallers(tr) : req' = Board(q, c)) /\ conn' = Set(tr, c, "open") /\ UNCHANGED orphans
  <2>1. PICK q \in Diallers(tr) : req' = Board(q, c)
    BY <1>4
  <2>2. q \in Requests /\ req[q].at = "dialling" /\ req[q].tr = tr
    BY DEF Diallers
  <2>3. /\ ReqInv' /\ Only(tr)
        /\ Users(tr, c)' = {q}
        /\ \A d \in Conns \ {c} : Users(tr, d)' = Users(tr, d)
        /\ Joiners(tr)' = Joiners(tr)
    BY <1>2, <1>3, <2>1, <2>2, Boarded
  <2>4. /\ conn' \in [Transports -> [Conns -> ConnStates]]
        /\ \A s \in Transports \ {tr} : conn'[s] = conn[s]
        /\ conn'[tr][c] = "open"
        /\ \A d \in Conns \ {c} : conn'[tr][d] = conn[tr][d]
    BY <1>3, <1>4, SetConn DEF ConnStates
  <2>5. ConnInv(tr, c)'
    BY <1>2, <1>3, <2>2, <2>3, <2>4, ConnStep
  <2>6. (\A d \in Conns : ConnInv(tr, d)') /\ Idle(tr)' \subseteq Idle(tr)
    BY <1>2, <1>3, <2>3, <2>4, <2>5, OneConn
  <2>7. DialsShared(tr)'
    BY <1>2, <2>3 DEF PoolInv, DialsShared
  <2>8. PoolInv(tr)'
    BY <1>2, <2>6, <2>7, PoolStep
  <2> QED
    BY <1>2, <1>4, <2>3, <2>4, <2>8, StepAt
<1>5. CASE /\ UNCHANGED req /\ orphans' = [orphans EXCEPT ![tr] = @ - 1]
           /\ conn' = IF Cardinality(Idle(tr)) >= MaxIdle THEN conn ELSE Set(tr, c, "open")
  <2>1. orphans' \in [Transports -> Nat] /\ \A s \in Transports \ {tr} : orphans'[s] = orphans[s]
    BY <1>2, <1>5
  <2>2. /\ ReqInv' /\ Only(tr) /\ Joiners(tr)' = Joiners(tr)
        /\ \A d \in Conns : Users(tr, d)' = Users(tr, d)
    BY <1>2, <1>5 DEF ReqInv, Only, Joiners, Users
  <2>3. DialsShared(tr)'
    BY <1>2, <2>2 DEF PoolInv, DialsShared
  <2>4. Cardinality(Idle(tr)) \in Nat /\ MaxIdle \in Nat
    BY Counting, Finite, Limits
  <2>5. /\ conn' \in [Transports -> [Conns -> ConnStates]]
        /\ \A s \in Transports \ {tr} : conn'[s] = conn[s]
        /\ \A d \in Conns \ {c} : conn'[tr][d] = conn[tr][d]
        /\ \/ conn' = conn
           \/ conn'[tr][c] = "open" /\ Cardinality(Idle(tr)) < MaxIdle
    <3>1. CASE conn' = conn
      BY <3>1, SameConn
    <3>2. CASE conn' = Set(tr, c, "open") /\ Cardinality(Idle(tr)) < MaxIdle
      BY <1>3, <3>2, SetConn DEF ConnStates
    <3> QED
      BY <1>5, <2>4, <3>1, <3>2
  <2>6. ConnInv(tr, c)'
    <3>1. Users(tr, c)' = {}
      BY <1>3, <2>2
    <3>2. conn'[tr][c] # "going"
      BY <1>2, <1>3, <2>5 DEF ConnInv
    <3> QED
      BY <1>2, <1>3, <3>1, <3>2, ConnStep
  <2>7. (\A d \in Conns : ConnInv(tr, d)') /\ Idle(tr)' \subseteq Idle(tr) \cup {c}
    BY <1>2, <1>3, <2>2, <2>5, <2>6, OneConn
  <2>8. Idle(tr)' \subseteq Idle(tr) \/ Cardinality(Idle(tr)) < MaxIdle
    BY <2>2, <2>5 DEF Idle
  <2>9. PoolInv(tr)'
    BY <1>2, <1>3, <2>3, <2>7, <2>8, PoolStep
  <2> QED
    BY <1>2, <2>1, <2>2, <2>5, <2>9, StepAt
<1> QED
  BY <1>1, <1>4, <1>5 DEF OrphanUp

\* ... or fails, ...
LEMMA OrphanFailStep ==
  ASSUME IndInv, NEW tr \in Transports, OrphanFail(tr)
  PROVE  IndInv'
<1>1. /\ ReqInv /\ PoolInv(tr) /\ protocol = "http1" /\ orphans \in [Transports -> Nat]
      /\ orphans[tr] > 0 /\ orphans' = [orphans EXCEPT ![tr] = @ - 1]
      /\ UNCHANGED <<upstream, tables, conn, req>>
  BY DEF IndInv, TypeInv, PoolInv, DialsShared, OrphanFail
<1>2. Joiners(tr)' = Joiners(tr) /\ Away(tr, {})
  BY <1>1 DEF Joiners, Away, ReqInv
<1>3. DialsShared(tr)'
  BY <1>1, <1>2 DEF PoolInv, DialsShared
<1>4. orphans' \in [Transports -> Nat] /\ \A s \in Transports \ {tr} : orphans'[s] = orphans[s]
  BY <1>1
<1> QED
  BY <1>1, <1>2, <1>3, <1>4, Waiting

\* ... an idle connection closes, a busy one is told to go, ...
LEMMA ConnChangeStep ==
  ASSUME IndInv, NEW tr \in Transports, PeerClose(tr) \/ GoAway(tr)
  PROVE  IndInv'
<1>1. UNCHANGED <<upstream, tables, orphans, req>> /\ ReqInv /\ PoolInv(tr)
  BY DEF PeerClose, GoAway, IndInv, TypeInv
<1>2. PICK c \in Conns, state \in ConnStates :
        /\ conn' = Set(tr, c, state)
        /\ \/ state = "closed" /\ Users(tr, c) = {}
           \/ state = "going" /\ Users(tr, c) # {} /\ protocol = "h2c"
  <2>1. CASE PeerClose(tr)
    BY <2>1 DEF PeerClose, Idle, ConnStates
  <2>2. CASE GoAway(tr)
    <3>1. PICK c \in Open(tr) \ Idle(tr) : conn' = Set(tr, c, "going")
      BY <2>2 DEF GoAway
    <3>2. c \in Conns /\ conn[tr][c] # "closed" /\ ~(conn[tr][c] = "open" /\ Users(tr, c) = {})
      BY <3>1 DEF Open, Idle
    <3>3. conn[tr][c] \in ConnStates /\ ConnInv(tr, c)
      BY <1>1, <3>2, SameConn DEF PoolInv
    <3>4. Users(tr, c) # {}
      BY <3>2, <3>3 DEF ConnStates, ConnInv
    <3> QED
      BY <2>2, <3>1, <3>2, <3>4 DEF GoAway, ConnStates
  <2> QED
    BY <2>1, <2>2
<1>3. /\ conn' \in [Transports -> [Conns -> ConnStates]]
      /\ \A s \in Transports \ {tr} : conn'[s] = conn[s]
      /\ conn'[tr][c] = state
      /\ \A d \in Conns \ {c} : conn'[tr][d] = conn[tr][d]
  BY <1>2, SetConn
<1>4. /\ ReqInv' /\ Only(tr) /\ DialsShared(tr)'
      /\ \A d \in Conns : Users(tr, d)' = Users(tr, d)
  BY <1>1 DEF ReqInv, Only, PoolInv, DialsShared, Diallers, Joiners, Users
<1>5. ConnInv(tr, c)'
  <2>1. ConnInv(tr, c)
    BY <1>1 DEF PoolInv
  <2> QED
    BY <1>1, <1>2, <1>3, <1>4, <2>1, ConnStep
<1>6. (\A d \in Conns : ConnInv(tr, d)') /\ Idle(tr)' \subseteq Idle(tr)
  BY <1>1, <1>2, <1>3, <1>4, <1>5, OneConn
<1>7. PoolInv(tr)'
  BY <1>1, <1>4, <1>6, PoolStep
<1> QED
  BY <1>1, <1>3, <1>4, <1>7, SameConn, StepAt

\* ... and the table is replaced.
LEMMA ReplaceStep ==
  ASSUME IndInv, NEW tb \in Tables, Replace(tb)
  PROVE  IndInv'
<1>1. /\ UNCHANGED <<upstream, conn, orphans, req>> /\ tables' = Append(tables, tb)
      /\ tables \in Seq(Tables) /\ Len(tables) \in 1..MaxReplace + 1 /\ Len(tables) <= MaxReplace
  BY DEF Replace, IndInv, TypeInv
<1>2. tables' \in Seq(Tables) /\ Len(tables') = Len(tables) + 1 /\ Len(tables') \in 1..MaxReplace + 1
  BY <1>1, ConfigAssumption
<1>3. \A s \in Transports : s[1] \in Int
  BY DEF Transports
<1>4. ReqInv'
  BY <1>1, <1>2, <1>3 DEF IndInv, TypeInv, ReqInv
<1>5. ASSUME NEW s \in Transports PROVE PoolInv(s)'
  <2>1. SameWaiters(s) /\ SameUsers(s)
    BY <1>1 DEF SameWaiters, SameUsers, Diallers, Joiners, Users
  <2> QED
    BY <1>1, <2>1, Kept DEF IndInv
<1>6. TypeInv'
  BY <1>1, <1>2, <1>4 DEF IndInv, TypeInv
<1> QED
  BY <1>5, <1>6 DEF IndInv

\* Nothing changes.
LEMMA StutterStep ==
  ASSUME IndInv, UNCHANGED vars
  PROVE  IndInv'
<1>1. UNCHANGED <<upstream, tables, conn, orphans, req>>
  BY DEF vars
<1>2. ASSUME NEW s \in Transports PROVE PoolInv(s)'
  <2>1. SameWaiters(s) /\ SameUsers(s)
    BY <1>1 DEF SameWaiters, SameUsers, Diallers, Joiners, Users
  <2> QED
    BY <1>1, <2>1, Kept DEF IndInv
<1>3. TypeInv'
  BY <1>1 DEF IndInv, TypeInv, ReqInv
<1> QED
  BY <1>2, <1>3 DEF IndInv

-----------------------------------------------------------------------------
\* At boot no connection is open and no request is there.
LEMMA InitInd == Init => IndInv
<1> SUFFICES ASSUME Init PROVE IndInv
  OBVIOUS
<1>1. Out \in ReqSet /\ Out.at = "out"
  BY DEF Out, ReqSet, Places
<1>2. ReqInv
  BY <1>1 DEF Init, ReqInv, Connected
<1>3. TypeInv
  <2>1. tables \in Seq(Tables) /\ Len(tables) = 1
    BY ConfigAssumption DEF Init
  <2>2. streams \in Nat \ {0} /\ (protocol = "http1" => streams = 1)
    <3>1. CASE protocol = "h2c"
      BY <3>1, ConfigAssumption DEF Init
    <3>2. CASE protocol # "h2c"
      BY <3>2 DEF Init
    <3> QED
      BY <3>1, <3>2
  <2>3. /\ protocol \in {"http1", "h2c"} /\ orphans \in [Transports -> Nat]
        /\ conn \in [Transports -> [Conns -> {"closed", "open", "going"}]]
    BY DEF Init
  <2>4. Len(tables) \in 1..MaxReplace + 1
    BY <2>1, ConfigAssumption
  <2> QED
    BY <1>2, <2>1, <2>2, <2>3, <2>4 DEF TypeInv
<1>4. ASSUME NEW tr \in Transports PROVE PoolInv(tr)
  <2>1. /\ \A c \in Conns : Users(tr, c) = {} /\ conn[tr][c] = "closed"
        /\ Diallers(tr) = {} /\ Joiners(tr) = {} /\ Idle(tr) = {} /\ orphans[tr] = 0
    BY <1>1 DEF Init, Users, Diallers, Joiners, Idle, Connected
  <2>2. \A c \in Conns : ConnInv(tr, c)
    <3>1. Cardinality({}) = 0 /\ 0 <= streams
      BY <1>3, FS_EmptySet DEF TypeInv
    <3> QED
      BY <2>1, <3>1 DEF ConnInv
  <2>3. DialsShared(tr)
    BY <2>1 DEF DialsShared
  <2> QED
    BY <2>1, <2>2, <2>3, Limits, FS_EmptySet DEF PoolInv
<1> QED
  BY <1>3, <1>4 DEF IndInv

\* IndInv is inductive.
LEMMA TransportInvariant == Spec => []IndInv
<1>1. IndInv /\ [Next]_vars => IndInv'
  <2> SUFFICES ASSUME IndInv, [Next]_vars PROVE IndInv'
    OBVIOUS
  <2>1. ASSUME NEW r \in Requests, RoundTrip(r) PROVE IndInv'
    <3>1. CASE HeaderTimeout(r) \/ Retry(r)
      BY <2>1, <3>1, BreakOffStep DEF HeaderTimeout, Retry, Connected
    <3> QED
      BY <2>1, <3>1, ReuseStep, DialStep, DialDoneStep, DialFailStep, DialCancelStep, AlongStep,
         HandOverStep, BodyDoneStep, ConnLostStep, ClientGoneStep DEF RoundTrip
  <2>2. ASSUME NEW r \in Requests, NEW p \in Prefixes, Take(r, p) PROVE IndInv'
    BY <2>2, TakeStep
  <2>3. ASSUME NEW tr \in Transports,
               OrphanUp(tr) \/ OrphanFail(tr) \/ IdleExpire(tr) \/ PeerClose(tr) \/ GoAway(tr)
        PROVE  IndInv'
    BY <2>3, OrphanUpStep, OrphanFailStep, ConnChangeStep DEF IdleExpire
  <2>4. ASSUME NEW tb \in Tables, Replace(tb) PROVE IndInv'
    BY <2>4, ReplaceStep
  <2>5. CASE UNCHANGED vars
    BY <2>5, StutterStep
  <2> QED
    BY <2>1, <2>2, <2>3, <2>4, <2>5 DEF Next
<1> QED
  BY <1>1, InitInd, PTL DEF Spec

\* A request is on a transport that was installed; an HTTP/2 transport has one
\* dial at most, and nobody waits for a dial that is not there, whoever goes away.
THEOREM TransportTypeOK == Spec => []TypeOK
<1>1. IndInv => TypeOK
  <2> SUFFICES ASSUME IndInv PROVE TypeOK
    OBVIOUS
  <2>1. \A r \in Requests :
          /\ req[r].at \in Places
          /\ req[r].at # "out" => req[r].tr \in Transports /\ req[r].tr[1] <= Len(tables)
    BY DEF IndInv, TypeInv, ReqInv, ReqSet
  <2>2. \A tr \in Transports : orphans[tr] \in Nat /\ DialsShared(tr)
    BY DEF IndInv, TypeInv, PoolInv
  <2> QED
    BY <2>1, <2>2 DEF IndInv, TypeInv, TypeOK
<1> QED
  BY <1>1, TransportInvariant, PTL

\* However often the table is replaced, and whatever backends and clients do, a
\* request in progress has an open connection, which takes no more requests than
\* it may, and one that is told to go is there for its requests only.
THEOREM TransportBusyConnsOpen == Spec => []BusyConnsOpen
<1>1. IndInv => BusyConnsOpen
  BY DEF IndInv, PoolInv, ConnInv, BusyConnsOpen
<1> QED
  BY <1>1, TransportInvariant, PTL

\* --upstream-max-idle-conns is obeyed by every transport, replaced or not.
THEOREM TransportPoolBound == Spec => []PoolBound
<1>1. IndInv => PoolBound
  BY Limits DEF IndInv, PoolInv, PoolBound
<1> QED
  BY <1>1, TransportInvariant, PTL

-----------------------------------------------------------------------------
\* A request never changes its transport; it may lose it.
LEMMA KeepsTransport ==
  ASSUME ReqInv,
         \/ \E rs, at : req' = Go(rs, at)
         \/ \E rs : req' = Over(rs)
         \/ \E q, c : req' = Board(q, c)
         \/ \E q, at : req' = At(q, at)
         \/ \E rs, at, q : req' = [Go(rs, at) EXCEPT ![q] = Out]
         \/ \E p, c, q : req' = [Board(p, c) EXCEPT ![q] = Out],
         NEW r \in Requests
  PROVE  req'[r].tr \in {req[r].tr, None}
<1>1. req[r] \in ReqSet /\ req \in [Requests -> ReqSet]
  BY DEF ReqInv
<1>2. Out.tr = None
  BY DEF Out
<1>3. ASSUME NEW at, NEW on PROVE [req[r] EXCEPT !.at = at, !.on = on].tr = req[r].tr
  BY <1>1 DEF ReqSet
<1>4. ASSUME NEW rs, NEW at PROVE Go(rs, at)[r].tr = req[r].tr
  <2>1. CASE r \in rs
    BY <1>3, <2>1 DEF Go
  <2>2. CASE r \notin rs
    BY <2>2 DEF Go
  <2> QED
    BY <2>1, <2>2
<1>5. ASSUME NEW q, NEW c PROVE Board(q, c)[r].tr = req[r].tr
  <2>1. CASE q = r
    <3>1. Board(q, c)[r] = [req[r] EXCEPT !.at = "sending", !.on = c]
      BY <1>1, <2>1 DEF Board
    <3> QED
      BY <1>3, <3>1
  <2>2. CASE q # r
    BY <1>1, <2>2 DEF Board
  <2> QED
    BY <2>1, <2>2
<1>6. ASSUME NEW q, NEW at PROVE At(q, at)[r].tr = req[r].tr
  BY <1>1 DEF At, ReqSet
<1>7. ASSUME NEW f, NEW q, r \in DOMAIN f PROVE [f EXCEPT ![q] = Out][r].tr \in {f[r].tr, None}
  BY <1>2, <1>7
<1>8. \A rs : Over(rs)[r] \in {req[r], Out}
  BY DEF Over
<1>9. \A rs, at, p, c : r \in DOMAIN Go(rs, at) /\ r \in DOMAIN Board(p, c)
  BY <1>1 DEF Go, Board
<1> QED
  BY <1>2, <1>4, <1>5, <1>6, <1>7, <1>8, <1>9

\* A step of a request concerns its own transport only.
LEMMA RoundTripElsewhere ==
  ASSUME IndInv, NEW r \in Requests, RoundTrip(r), NEW tr \in Transports,
         \A q \in Requests : req[q].tr # tr
  PROVE  /\ \A q \in Requests : req'[q].tr # tr
         /\ conn'[tr] = conn[tr] /\ orphans'[tr] = orphans[tr] /\ tables' = tables
<1> USE DEF RoundTrip, Reuse, Dial, DialDone, DialFail, DialCancel, Sent, Headers,
            HeaderTimeout, HandOver, BodyDone, ConnLost, Retry, ClientGone
<1>1. ReqInv /\ req[r].tr # tr
  BY DEF IndInv, TypeInv
<1>2. \/ \E rs, at : req' = Go(rs, at)
      \/ \E rs : req' = Over(rs)
      \/ \E q, c : req' = Board(q, c)
      \/ \E q, at : req' = At(q, at)
      \/ \E rs, at, q : req' = [Go(rs, at) EXCEPT ![q] = Out]
      \/ \E p, c, q : req' = [Board(p, c) EXCEPT ![q] = Out]
  OBVIOUS
<1>3. ASSUME NEW q \in Requests PROVE req'[q].tr # tr
  <2>1. req'[q].tr \in {req[q].tr, None}
    BY <1>1, <1>2, KeepsTransport
  <2> QED
    BY <2>1, NoneAssumption
<1>4. conn' = conn \/ \E c, state : conn' = Set(req[r].tr, c, state)
  BY DEF BreakOff, Leave
<1>5. conn'[tr] = conn[tr]
  BY <1>1, <1>4, SameConn DEF Set
<1>6. orphans'[tr] = orphans[tr]
  <2>1. orphans' = orphans \/ orphans' = [orphans EXCEPT ![req[r].tr] = @ + 1]
    OBVIOUS
  <2> QED
    BY <1>1, <2>1, SameConn
<1> QED
  BY <1>3, <1>5, <1>6

\* What a reload leaves behind is never added to, with HTTP/1.1 and with h2c, for
\* any number of reloads: the connections of a table nobody uses only go away.
THEOREM TransportOldPools == Spec => OldPoolsOnlyShrink
<1> DEFINE Shrink == \A tr \in Transports : Abandoned(tr) => Abandoned(tr)' /\ Open(tr)' \subseteq Open(tr)
<1>1. IndInv /\ [Next]_vars => [Shrink]_vars
  <2> SUFFICES ASSUME IndInv, Next, NEW tr \in Transports, Abandoned(tr)
               PROVE  Abandoned(tr)' /\ Open(tr)' \subseteq Open(tr)
    OBVIOUS
  <2>1. /\ ReqInv /\ tr[1] < Len(tables) /\ orphans[tr] = 0
        /\ \A q \in Requests : req[q].tr # tr
        /\ tr[1] \in Int /\ Len(tables) \in Int
    BY ConfigAssumption DEF Abandoned, Replaced, IndInv, TypeInv, Transports
  <2> DEFINE Stays == /\ \A q \in Requests : req'[q].tr # tr
                      /\ orphans'[tr] = 0 /\ tr[1] < Len(tables')
                      /\ \A c \in Conns : conn'[tr][c] \in {conn[tr][c], "closed"}
  <2>2. SUFFICES Stays
    BY DEF Abandoned, Replaced, Open
  <2>3. ASSUME NEW r \in Requests, RoundTrip(r) PROVE Stays
    BY <2>1, <2>3, RoundTripElsewhere
  <2>4. ASSUME NEW r \in Requests, NEW p \in Prefixes, Take(r, p) PROVE Stays
    <3>1. req' = [req EXCEPT ![r] = [at |-> "taken", tr |-> <<Len(tables), p>>, on |-> 0]]
      BY <2>4 DEF Take, Active
    <3>2. <<Len(tables), p>> # tr
      BY <2>1
    <3>3. \A q \in Requests : req'[q].tr # tr
      BY <2>1, <3>1, <3>2 DEF ReqInv
    <3> QED
      BY <2>1, <2>4, <3>3 DEF Take
  <2>5. ASSUME NEW s \in Transports, OrphanUp(s) \/ OrphanFail(s) PROVE Stays
    <3>1. s # tr /\ tables' = tables
      BY <2>1, <2>5 DEF OrphanUp, OrphanFail
    <3>2. (\E q, c : req' = Board(q, c)) \/ req' = req
      BY <2>5 DEF OrphanUp, OrphanFail
    <3>3. ASSUME NEW q \in Requests PROVE req'[q].tr # tr
      <4>1. CASE \E p, c : req' = Board(p, c)
        <5>1. req'[q].tr \in {req[q].tr, None}
          BY <2>1, <4>1, KeepsTransport
        <5> QED
          BY <2>1, <5>1, NoneAssumption
      <4> QED
        BY <2>1, <3>2, <4>1
    <3>4. conn' = conn \/ \E c, state : conn' = Set(s, c, state)
      BY <2>5 DEF OrphanUp, OrphanFail
    <3>5. conn'[tr] = conn[tr]
      BY <3>1, <3>4, SameConn DEF Set
    <3>6. orphans'[tr] = orphans[tr]
      BY <2>5, <3>1, SameConn DEF OrphanUp, OrphanFail
    <3> QED
      BY <2>1, <3>1, <3>3, <3>5, <3>6
  <2>6. ASSUME NEW s \in Transports, IdleExpire(s) \/ PeerClose(s) \/ GoAway(s) PROVE Stays
    <3>1. UNCHANGED <<tables, orphans, req>>
      BY <2>6 DEF IdleExpire, PeerClose, GoAway
    <3>2. CASE IdleExpire(s) \/ PeerClose(s)
      <4>1. PICK c \in Conns : conn' = Set(s, c, "closed")
        BY <3>2 DEF IdleExpire, PeerClose, Idle
      <4>2. \A d \in Conns : conn'[tr][d] \in {conn[tr][d], "closed"}
        BY <4>1, SameConn DEF Set
      <4> QED
        BY <2>1, <3>1, <4>2
    <3>3. CASE GoAway(s)
      <4>1. PICK c \in Open(s) \ Idle(s) : conn' = Set(s, c, "going")
        BY <3>3 DEF GoAway
      <4>2. CASE s = tr
        <5>1. c \in Conns /\ ConnInv(tr, c) /\ conn[tr][c] # "closed"
          BY <4>2 DEF Open, IndInv, PoolInv
        <5>2. Users(tr, c) = {}
          BY <2>1 DEF Users
        <5>3. conn[tr][c] = "open"
          BY <5>1, <5>2, SameConn DEF ConnInv, ConnStates
        <5> QED
          BY <4>1, <4>2, <5>1, <5>2, <5>3 DEF Idle
      <4>3. CASE s # tr
        <5>1. conn'[tr] = conn[tr]
          BY <4>1, <4>3, SameConn DEF Set
        <5> QED
          BY <2>1, <3>1, <5>1
      <4> QED
        BY <4>2, <4>3
    <3> QED
      BY <2>6, <3>2, <3>3
  <2>7. ASSUME NEW tb \in Tables, Replace(tb) PROVE Stays
    <3>1. Len(tables') = Len(tables) + 1
      BY <2>7 DEF Replace, IndInv, TypeInv
    <3> QED
      BY <2>1, <2>7, <3>1 DEF Replace
  <2> QED
    BY <2>3, <2>4, <2>5, <2>6, <2>7 DEF Next
<1> QED
  BY <1>1, TransportInvariant, PTL DEF Spec, OldPoolsOnlyShrink
=============================================================================
