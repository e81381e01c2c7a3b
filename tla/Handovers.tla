----------------------------- MODULE Handovers -----------------------------
(***************************************************************************)
(* The handover of a shift (shift-schedule.service.ts): signed by who      *)
(* hands it over, then signed or disputed by who takes it.  The row is     *)
(* read, checked, and saved with what has changed.                         *)
(***************************************************************************)
EXTENDS Naturals, Awaits

VARIABLES
  handover, \* a row of shift_handovers
  torn      \* the row changed between the SELECT and the UPDATE of a save (history)

vars == <<handover, pc, local, overlapped, torn>>

Statuses == {"none", "pending", "from_signed", "completed", "disputed"}
Rows == [status : Statuses, fromSigned : BOOLEAN, toSigned : BOOLEAN]
NoRow == [status |-> "none", fromSigned |-> FALSE, toSigned |-> FALSE]

Nothing == Entity(NoRow, {})

Init ==
  /\ handover = NoRow
  /\ torn = FALSE
  /\ AllIdle(Nothing)

Create(h) ==
  /\ pc[h] = "idle" /\ handover = NoRow
  /\ handover' = [NoRow EXCEPT !.status = "pending"]
  /\ UNCHANGED <<pc, local>>

Load(h, row, stamped) ==
  /\ pc[h] = "idle"
  /\ Goto(h, "saving") /\ Hold(h, Entity(row, stamped))
  /\ UNCHANGED handover

SignFrom(h) ==
  /\ handover.status = "pending"
  /\ Load(h, [handover EXCEPT !.status = "from_signed", !.fromSigned = TRUE], {"fromSigned"})

\* Mutant: the taker may sign first.
SignToFirst(h) ==
  /\ handover.status \in {"pending", "from_signed"}
  /\ Load(h, [handover EXCEPT !.status = "completed", !.toSigned = TRUE], {"toSigned"})
SignTo(h) ==
  /\ handover.status = "from_signed"
  /\ Load(h, [handover EXCEPT !.status = "completed", !.toSigned = TRUE], {"toSigned"})
Dispute(h) ==
  /\ handover.status = "from_signed"
  /\ Load(h, [handover EXCEPT !.status = "disputed"], {})

\* handoverRepo.save
SaveSelect(h) == Compare(h, handover) /\ UNCHANGED handover
Save(h) ==
  /\ pc[h] = "updating"
  /\ handover' = Merged(handover, local[h].row, local[h].cols)
  /\ Goto(h, "idle") /\ Hold(h, Nothing)

HandlerStep(h) ==
  Create(h) \/ SignFrom(h) \/ SignTo(h) \/ Dispute(h) \/ SaveSelect(h) \/ Save(h)

Tear(h) ==
  torn' = (torn \/ (handover' # handover /\ \E g \in Handlers \ {h} : pc[g] = "updating"))

Next == \E h \in Handlers : HandlerStep(h) /\ Overlap(h) /\ Tear(h)

Spec == Init /\ [][Next]_vars

-----------------------------------------------------------------------------
TypeOK ==
  /\ handover \in Rows
  /\ pc \in [Handlers -> {"idle", "saving", "updating"}]
  /\ local \in [Handlers -> [row : Rows, cols : SUBSET DOMAIN NoRow]]
  /\ overlapped \in BOOLEAN /\ torn \in BOOLEAN

\* However handlers interleave, also when both sides press twice, unless an UPDATE
\* fell between the two statements of another save: a handover is complete exactly
\* when the taker has signed, and then both have.
BothSigned == ~torn =>
  /\ handover.status = "completed" <=> handover.toSigned
  /\ handover.status \in {"completed", "disputed", "from_signed"} <=> handover.fromSigned

\* As long as handlers do not overlap, what the taker has said stands.
AnswerKept ==
  ~overlapped' /\ handover.status \in {"completed", "disputed"} => handover' = handover
=============================================================================
