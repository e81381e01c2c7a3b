------------------------------ MODULE Salaries ------------------------------
(***************************************************************************)
(* The salary of one employee for one month (salary.service.ts): drafted,  *)
(* confirmed, paid; the owner may remove it at any time.  The constraint   *)
(* on (company, user, year, month) counts removed rows, so that there is   *)
(* never a second row.                                                     *)
(***************************************************************************)
EXTENDS Naturals, Awaits

CONSTANTS Amounts \* what the earnings and deductions may come to

SalaryAssumption == None \notin Amounts

VARIABLES
  salary, \* the row of salaries
  torn    \* the row changed between the SELECT and the UPDATE of a save (history)

vars == <<salary, pc, local, overlapped, torn>>

Statuses == {"none", "draft", "confirmed", "paid"}
Rows == [status : Statuses, paidAt : BOOLEAN, amount : OrNone(Amounts), deleted : BOOLEAN]
NoRow == [status |-> "none", paidAt |-> FALSE, amount |-> None, deleted |-> FALSE]
Steps == {"idle", "creating", "saving", "updating", "removing"}
Nothing == Entity(NoRow, {})

Init ==
  /\ salary = NoRow
  /\ torn = FALSE
  /\ AllIdle(Nothing)

Return(h) == Goto(h, "idle") /\ Hold(h, Nothing)
Load(h, step, row, stamped) ==
  /\ pc[h] = "idle"
  /\ Goto(h, step) /\ Hold(h, Entity(row, stamped))
  /\ UNCHANGED salary

\* findOne does not see a removed row.
Seen == salary.status # "none" /\ ~salary.deleted

Create(h, a) == ~Seen /\ Load(h, "creating", [NoRow EXCEPT !.status = "draft", !.amount = a], {})
\* The INSERT fails on a row that is there, removed or not.
CreateSave(h) ==
  /\ pc[h] = "creating"
  /\ salary' = IF salary = NoRow THEN local[h].row ELSE salary
  /\ Return(h)

\* Mutant: a paid salary is corrected.
UpdatePaid(h, a) == Seen /\ Load(h, "saving", [salary EXCEPT !.amount = a], {})
Update(h, a) ==
  Seen /\ salary.status # "paid" /\ Load(h, "saving", [salary EXCEPT !.amount = a], {})
\* Mutant: what is confirmed need not be a draft.
ConfirmAny(h) == Seen /\ Load(h, "saving", [salary EXCEPT !.status = "confirmed"], {})
Confirm(h) ==
  Seen /\ salary.status = "draft" /\ Load(h, "saving", [salary EXCEPT !.status = "confirmed"], {})
MarkPaid(h) ==
  /\ Seen /\ salary.status = "confirmed"
  /\ Load(h, "saving", [salary EXCEPT !.status = "paid", !.paidAt = TRUE], {"paidAt"})

\* salaryRepo.save: its SELECT sees removed rows too, and an entity that was read
\* before the removal has no deletedAt.
SaveSelect(h) == Compare(h, salary) /\ UNCHANGED salary
Save(h) ==
  /\ pc[h] = "updating"
  /\ salary' = Merged(salary, local[h].row, local[h].cols)
  /\ Return(h)

Remove(h) == Seen /\ Load(h, "removing", NoRow, {})
SoftDelete(h) ==
  /\ pc[h] = "removing"
  /\ salary' = [salary EXCEPT !.deleted = TRUE]
  /\ Return(h)

HandlerStep(h) ==
  \/ \E a \in Amounts : Create(h, a) \/ Update(h, a)
  \/ CreateSave(h) \/ Confirm(h) \/ MarkPaid(h) \/ SaveSelect(h) \/ Save(h)
  \/ Remove(h) \/ SoftDelete(h)

Tear(h) == torn' = (torn \/ (salary' # salary /\ \E g \in Handlers \ {h} : pc[g] = "updating"))

Next == \E h \in Handlers : HandlerStep(h) /\ Overlap(h) /\ Tear(h)

Spec == Init /\ [][Next]_vars

-----------------------------------------------------------------------------
\* Types; none is there without an amount.
TypeOK ==
  /\ salary \in Rows
  /\ pc \in [Handlers -> Steps]
  /\ local \in [Handlers -> [row : Rows, cols : SUBSET DOMAIN NoRow]]
  /\ overlapped \in BOOLEAN /\ torn \in BOOLEAN
  /\ salary.status = "none" <=> salary.amount = None

\* However handlers interleave, unless an UPDATE fell between the two statements of
\* another save: a salary is paid exactly when it has the date of its payment.
PaidIsDated == ~torn => (salary.status = "paid" <=> salary.paidAt)

\* As long as handlers do not overlap: a salary is paid after it was confirmed,
\* with the amount that was there, what was paid changes no more, and a removed
\* salary stays removed.
SalaryKept == ~overlapped' =>
  /\ salary.status = "paid" => salary' = [salary EXCEPT !.deleted = salary'.deleted]
  /\ salary'.status = "paid" /\ salary.status # "paid" =>
       salary.status = "confirmed" /\ salary'.amount = salary.amount
  /\ salary.deleted => salary' = salary
=============================================================================
