--------------------------- MODULE RequestLedger ---------------------------
(***************************************************************************)
(* What the middleware chain promises of every request, whatever happens   *)
(* inside it: the request comes in, is answered once, leaves one access    *)
(* line that tells that answer, and is over; or its handler panics, and it *)
(* is over without an answer of its own and without a line.                *)
(***************************************************************************)
EXTENDS Sequences

CONSTANTS
  Requests,
  Answers,   \* what a request may be answered: method, route, status
  None       \* not answered

VARIABLES
  phase,     \* where each request is
  answer,    \* what it was answered
  lines      \* the access log

vars == <<phase, answer, lines>>

Init ==
  /\ phase = [t \in Requests |-> "out"]
  /\ answer = [t \in Requests |-> None]
  /\ lines = <<>>

Move(t, from, to) == phase[t] = from /\ phase' = [phase EXCEPT ![t] = to]

Enter(t) == Move(t, "out", "in") /\ UNCHANGED <<answer, lines>>

\* The handler returns; its answer is not changed any more.
Answer(t, a) ==
  /\ Move(t, "in", "answered")
  /\ answer' = [answer EXCEPT ![t] = a]
  /\ UNCHANGED lines

Record(t) ==
  /\ Move(t, "answered", "recorded")
  /\ lines' = Append(lines, [req |-> t, answer |-> answer[t]])
  /\ UNCHANGED answer

Close(t) == Move(t, "recorded", "closed") /\ UNCHANGED <<answer, lines>>

\* The handler panics; deferred code ends the request.
Break(t) == Move(t, "in", "broken") /\ UNCHANGED <<answer, lines>>
Unwind(t) == Move(t, "broken", "aborted") /\ UNCHANGED <<answer, lines>>

Next ==
  \E t \in Requests :
    \/ Enter(t) \/ Record(t) \/ Close(t) \/ Break(t) \/ Unwind(t)
    \/ \E a \in Answers : Answer(t, a)

Spec == Init /\ [][Next]_vars
=============================================================================
