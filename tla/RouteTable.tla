---------------------------- MODULE RouteTable -----------------------------
(***************************************************************************)
(* What the hot-reloadable route table promises: one register holding the  *)
(* active table.  A call opens, may install a table, may take the active   *)
(* table once, and closes.  A table is taken whole and at one moment while *)
(* the call is open, and the register changes only by an install.          *)
(***************************************************************************)
CONSTANTS
  Callers,       \* who opens calls
  Installers,    \* the callers that may install a table
  Usable(_),     \* the tables that may be installed
  None           \* "nothing taken"

VARIABLES
  table,         \* the active table
  open,          \* open[t]: t is inside a call
  taken          \* taken[t]: the table t took in its current or last call

vars == <<table, open, taken>>

Init ==
  /\ Usable(table)
  /\ open = [t \in Callers |-> FALSE]
  /\ taken = [t \in Callers |-> None]

Open(t) ==
  /\ ~open[t]
  /\ open' = [open EXCEPT ![t] = TRUE]
  /\ taken' = [taken EXCEPT ![t] = None]
  /\ UNCHANGED table

Take(t) ==
  /\ open[t] /\ taken[t] = None
  /\ taken' = [taken EXCEPT ![t] = table]
  /\ UNCHANGED <<table, open>>

Install(t) ==
  /\ open[t] /\ taken[t] = None
  /\ Usable(table')
  /\ UNCHANGED <<open, taken>>

Close(t) ==
  /\ open[t]
  /\ open' = [open EXCEPT ![t] = FALSE]
  /\ UNCHANGED <<table, taken>>

Next ==
  \/ \E t \in Callers : Open(t) \/ Take(t) \/ Close(t)
  \/ \E t \in Installers : Install(t)

Spec == Init /\ [][Next]_vars
=============================================================================
