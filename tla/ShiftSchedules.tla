--------------------------- MODULE ShiftSchedules ---------------------------
(***************************************************************************)
(* A roster of a week (shift-schedule.service.ts): drafted, filled with    *)
(* the duties of employees, published to them and taken back.  Duties may  *)
(* be changed in a published roster too.  A duty is known by employee and  *)
(* date; nothing but the code keeps a second row of one out.  An approved  *)
(* exchange of shifts passes rows from one employee to another             *)
(* (shift-swap.service.ts).                                                *)
(***************************************************************************)
EXTENDS Naturals, Awaits

CONSTANTS
  Duties, \* the duties of one date: its employees
  Titles  \* what updateShiftSchedule may write

VARIABLES
  roster,    \* the row of shift_schedules
  duties,    \* rows of shift_assignments of each duty, counted up to 2
  exchanged, \* duties that an exchange of shifts has given a row to (history)
  torn       \* the roster changed between the SELECT and the UPDATE of a save (history)

vars == <<roster, duties, exchanged, pc, local, overlapped, torn>>

Columns == {"status", "publishedAt", "title", "deleted"}
Rows == [status : {"draft", "published"}, publishedAt : BOOLEAN, title : Titles, deleted : BOOLEAN]
Draft(t) == [status |-> "draft", publishedAt |-> FALSE, title |-> t, deleted |-> FALSE]
Steps == {"idle", "saving", "updating", "counting", "removing", "finding", "replacing",
          "inserting", "confirming"}
Locals == [row : OrNone(Rows), cols : SUBSET Columns, todo : SUBSET Duties, one : OrNone(Duties)]
NoLocal == [row |-> None, cols |-> {}, todo |-> {}, one |-> None]

Init ==
  /\ \E t \in Titles : roster = Draft(t)
  /\ duties = [d \in Duties |-> 0]
  /\ exchanged = {}
  /\ torn = FALSE
  /\ AllIdle(NoLocal)

Return(h) == Goto(h, "idle") /\ Hold(h, NoLocal)
Begin(h, step, read) ==
  /\ pc[h] = "idle"
  /\ ~roster.deleted
  /\ Goto(h, step) /\ Hold(h, read)
  /\ UNCHANGED <<roster, duties, exchanged>>
\* schedRepo.save writes the row as it was read, deleted_at included.
Load(h, step, row, stamped) == Begin(h, step, [NoLocal EXCEPT !.row = row, !.cols = stamped])

\* Mutant: a published roster is edited.
UpdateAny(h, t) == Load(h, "saving", [roster EXCEPT !.title = t], {})
Update(h, t) == roster.status = "draft" /\ Load(h, "saving", [roster EXCEPT !.title = t], {})
Unpublish(h) == Load(h, "saving", [roster EXCEPT !.status = "draft", !.publishedAt = FALSE], {})
Publish(h) ==
  Load(h, "counting", [roster EXCEPT !.status = "published", !.publishedAt = TRUE], {"publishedAt"})
\* A roster without duties is not published.
PublishCount(h) ==
  /\ pc[h] = "counting"
  /\ IF \E d \in Duties : duties[d] > 0 THEN Goto(h, "saving") /\ UNCHANGED local ELSE Return(h)
  /\ UNCHANGED <<roster, duties, exchanged>>
SaveSelect(h) == Compare(h, roster) /\ UNCHANGED <<roster, duties, exchanged>>
Save(h) ==
  /\ pc[h] = "updating"
  /\ roster' = Merged(roster, local[h].row, local[h].cols)
  /\ Return(h)
  /\ UNCHANGED <<duties, exchanged>>

Remove(h) == Begin(h, "removing", NoLocal)
SoftDelete(h) ==
  /\ pc[h] = "removing"
  /\ roster' = [roster EXCEPT !.deleted = TRUE]
  /\ Return(h)
  /\ UNCHANGED <<duties, exchanged>>

\* upsertAssignments: each duty of the request is looked for, then saved; one that
\* is not valid ends the call there.  The saves of duties are one step each: what is
\* said of duties is about handlers that do not overlap.
Upsert(h, batch) == batch # {} /\ Begin(h, "finding", [NoLocal EXCEPT !.todo = batch])
\* Mutant: the duty is not looked for.
UpsertAnew(h) ==
  /\ pc[h] = "finding"
  /\ \/ \E d \in local[h].todo :
          Goto(h, "inserting") /\ Hold(h, [local[h] EXCEPT !.todo = @ \ {d}, !.one = d])
     \/ Return(h)
  /\ UNCHANGED <<roster, duties, exchanged>>
UpsertFind(h) ==
  /\ pc[h] = "finding"
  /\ \/ \E d \in local[h].todo :
          /\ Goto(h, IF duties[d] > 0 THEN "replacing" ELSE "inserting")
          /\ Hold(h, [local[h] EXCEPT !.todo = @ \ {d}, !.one = d])
     \/ Return(h)
  /\ UNCHANGED <<roster, duties, exchanged>>
\* assignRepo.save of a row that was deleted meanwhile inserts it again.
Stored(step, rows) == IF (step = "inserting" /\ rows < 2) \/ rows = 0 THEN rows + 1 ELSE rows
UpsertSave(h) ==
  /\ pc[h] \in {"replacing", "inserting"}
  /\ duties' = [duties EXCEPT ![local[h].one] = Stored(pc[h], @)]
  /\ IF local[h].todo = {} THEN Return(h)
     ELSE Goto(h, "finding") /\ Hold(h, [local[h] EXCEPT !.one = None])
  /\ UNCHANGED <<roster, exchanged>>

\* confirmAssignment, by the employee.
ConfirmDuty(h, d) ==
  /\ pc[h] = "idle" /\ duties[d] > 0
  /\ Goto(h, "confirming") /\ Hold(h, [NoLocal EXCEPT !.one = d])
  /\ UNCHANGED <<roster, duties, exchanged>>
ConfirmSave(h) ==
  /\ pc[h] = "confirming"
  /\ duties' = [duties EXCEPT ![local[h].one] = Stored("replacing", @)]
  /\ Return(h)
  /\ UNCHANGED <<roster, exchanged>>

\* deleteAssignment: every row of the duty.
DeleteDuty(h, d) ==
  /\ pc[h] = "idle" /\ duties[d] > 0
  /\ duties' = [duties EXCEPT ![d] = 0]
  /\ exchanged' = exchanged \ {d}
  /\ UNCHANGED <<roster, pc, local>>

\* approve of shift-swap.service.ts: the row of one employee is another's, whatever
\* duty that one has.  Two or more rows that lose one may still be two.
Exchange(h, d, e) ==
  /\ pc[h] = "idle" /\ duties[d] > 0 /\ d # e
  /\ \E left \in IF duties[d] = 1 THEN {0} ELSE {1, 2} :
       duties' = [duties EXCEPT ![d] = left, ![e] = IF @ = 0 THEN 1 ELSE 2]
  /\ exchanged' = exchanged \cup {e}
  /\ UNCHANGED <<roster, pc, local>>

HandlerStep(h) ==
  \/ \E t \in Titles : Update(h, t)
  \/ Publish(h) \/ PublishCount(h) \/ Unpublish(h) \/ SaveSelect(h) \/ Save(h)
  \/ Remove(h) \/ SoftDelete(h)
  \/ \E batch \in SUBSET Duties : Upsert(h, batch)
  \/ UpsertFind(h) \/ UpsertSave(h) \/ ConfirmSave(h)
  \/ \E d \in Duties : ConfirmDuty(h, d) \/ DeleteDuty(h, d)
  \/ \E d, e \in Duties : Exchange(h, d, e)

Tear(h) ==
  torn' = (torn \/ (roster' # roster /\ \E g \in Handlers \ {h} : pc[g] = "updating"))

Next == \E h \in Handlers : HandlerStep(h) /\ Overlap(h) /\ Tear(h)

Spec == Init /\ [][Next]_vars

-----------------------------------------------------------------------------
TypeOK ==
  /\ roster \in Rows
  /\ duties \in [Duties -> 0 .. 2]
  /\ exchanged \subseteq Duties
  /\ pc \in [Handlers -> Steps]
  /\ local \in [Handlers -> Locals]
  /\ overlapped \in BOOLEAN /\ torn \in BOOLEAN

\* However handlers interleave, unless an UPDATE fell between the two statements of
\* another save: a roster is published exactly when it has the date of its
\* publication.
PublishedIsDated == ~torn => (roster.status = "published" <=> roster.publishedAt)

\* As long as handlers do not overlap, an employee whom no exchange of shifts has
\* given another's row has one row a date at most, also when a batch of duties was
\* broken off.
OneDuty == ~overlapped => \A d \in Duties \ exchanged : duties[d] <= 1

\* As long as handlers do not overlap: a roster is published with a duty in it,
\* its text changes only while it is a draft, and a removed one stays removed.
RosterKept == ~overlapped' =>
  /\ roster'.status = "published" /\ roster.status = "draft" => \E d \in Duties : duties[d] > 0
  /\ roster'.title # roster.title => roster.status = "draft"
  /\ roster.deleted => roster' = roster
=============================================================================
