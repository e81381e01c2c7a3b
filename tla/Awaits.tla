------------------------------- MODULE Awaits -------------------------------
(***************************************************************************)
(* HTTP requests in flight in the backend.  Node.js runs one of them at a  *)
(* time, from one await to the next; at an await any other may step in.    *)
(* The services that are modelled with handlers extend this module.        *)
(***************************************************************************)
CONSTANTS
  Handlers, \* HTTP requests that may be in flight together
  None      \* null

VARIABLES
  pc,        \* the await at which each handler is suspended, or "idle"
  local,     \* what it has read
  overlapped \* some handler took a step while another was in flight (history)

OrNone(S) == S \cup {None}

Goto(h, step) == pc' = [pc EXCEPT ![h] = step]
Hold(h, read) == local' = [local EXCEPT ![h] = read]

InFlight(h) == pc[h] # "idle"
Quiet == \A h \in Handlers : ~InFlight(h)

\* Part of every step of a handler.
Overlap(h) == overlapped' = (overlapped \/ \E g \in Handlers \ {h} : InFlight(g))

\* repository.save of TypeORM is two statements: a SELECT of the row as it is now,
\* and an UPDATE of the columns in which the entity differs from what was selected.
\* A service that saves so holds the entity and the columns of its UPDATE; a
\* column set from the clock differs whatever is selected, and is among them at
\* once.
Differing(row, entity) == {c \in DOMAIN row : entity[c] # row[c]}
Merged(row, entity, cols) == [c \in DOMAIN row |-> IF c \in cols THEN entity[c] ELSE row[c]]
Entity(row, stamped) == [row |-> row, cols |-> stamped]
Compare(h, row) ==
  /\ pc[h] = "saving"
  /\ Goto(h, "updating")
  /\ Hold(h, [local[h] EXCEPT !.cols = @ \cup Differing(row, local[h].row)])

\* No request is in flight; every handler holds what it holds when idle.
AllIdle(nothing) ==
  /\ pc = [h \in Handlers |-> "idle"]
  /\ local = [h \in Handlers |-> nothing]
  /\ overlapped = FALSE
=============================================================================
