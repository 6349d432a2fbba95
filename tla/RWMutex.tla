------------------------------ MODULE RWMutex ------------------------------
(***************************************************************************)
(* sync.RWMutex of the Go standard library, as a value and the functions   *)
(* its methods apply to it.  A writer announces itself first and then      *)
(* waits for the readers inside; readers that come after it wait for its   *)
(* Unlock, which lets all of them in before the next writer.               *)
(***************************************************************************)
EXTENDS FiniteSets

NoWriter == "no writer"

Unlocked == [readers |-> {}, waiting |-> {}, writer |-> NoWriter]

\* RLock: t is inside at once, or among the waiting until an Unlock.
RLock(m, t) ==
  IF m.writer = NoWriter
  THEN [m EXCEPT !.readers = @ \cup {t}]
  ELSE [m EXCEPT !.waiting = @ \cup {t}]

HoldsRead(m, t) == t \in m.readers

RUnlock(m, t) == [m EXCEPT !.readers = @ \ {t}]

\* Lock: the announcement (one writer at a time) ...
CanAnnounce(m) == m.writer = NoWriter
Announce(m, t) == [m EXCEPT !.writer = t]

\* ... and the return of Lock, once the readers are gone.
HoldsWrite(m, t) == m.writer = t /\ m.readers = {}

Unlock(m) ==
  [readers |-> m.readers \cup m.waiting, waiting |-> {}, writer |-> NoWriter]
=============================================================================
