------------------------------- MODULE Tasks -------------------------------
(***************************************************************************)
(* Tasks that managers hand out (tasks.service.ts): their status, a later  *)
(* deadline that the assignee asks for and a manager grants, and their     *)
(* deletion, by a manager at once or by one side with the consent of the   *)
(* other.                                                                  *)
(*                                                                         *)
(* Every handler reads the row, checks it, and writes in a later statement *)
(* without a transaction: updateTask saves the whole entity as it was      *)
(* read, deleted_at included, the others update the columns they are       *)
(* about.                                                                  *)
(***************************************************************************)
EXTENDS Naturals, Awaits

CONSTANTS
  Employees,
  Deadlines  \* dates a deadline may have

NoneAssumption == None \notin Employees \cup Deadlines

VARIABLES
  task \* a row of tasks; the others do not meet it

vars == <<task, pc, local, overlapped>>

\* A task under review counts as in progress here, a cancelled one as done: no
\* handler tells them apart.
Statuses == {"pending", "in_progress", "done"}
Adjustments == {"none", "pending", "approved", "rejected"}
Sides == {"none", "manager", "assignee"}
Rows == [status : Statuses, assignee : OrNone(Employees), due : OrNone(Deadlines),
         adjust : Adjustments, proposed : OrNone(Deadlines), asked : Sides, deleted : BOOLEAN]

Steps == {"idle", "updating", "reporting", "asking", "answering", "requesting", "deleting"}

\* createTask.
New(e, d) == [status |-> "pending", assignee |-> e, due |-> d, adjust |-> "none", proposed |-> None,
              asked |-> "none", deleted |-> FALSE]

Nothing == New(None, None)

Init ==
  /\ task \in {New(e, d) : e \in OrNone(Employees), d \in OrNone(Deadlines)}
  /\ AllIdle(Nothing)

Return(h) == pc' = [pc EXCEPT ![h] = "idle"] /\ local' = [local EXCEPT ![h] = Nothing]

\* The row is there; what is to be written is decided now, and written later.
Load(h, step, row) ==
  /\ pc[h] = "idle"
  /\ ~task.deleted
  /\ pc' = [pc EXCEPT ![h] = step]
  /\ local' = [local EXCEPT ![h] = row]
  /\ UNCHANGED task

-----------------------------------------------------------------------------
\* updateTask: managers change anything, an employee the status of their own task.
Update(h) ==
  \/ \E s \in Statuses, e \in OrNone(Employees), d \in OrNone(Deadlines) :
       Load(h, "updating", [task EXCEPT !.status = s, !.assignee = e, !.due = d])
  \/ task.assignee # None /\ \E s \in Statuses : Load(h, "updating", [task EXCEPT !.status = s])

\* Mutant: the row is taken back to what it was when the form was opened.
UpdateReset(h) ==
  /\ pc[h] = "updating"
  /\ task' = [New(local[h].assignee, local[h].due) EXCEPT !.status = local[h].status]
  /\ Return(h)
UpdateSave(h) ==
  /\ pc[h] = "updating"
  /\ task' = local[h]
  /\ Return(h)

\* createReport: a report with a progress starts a task that has not begun.
Report(h) == task.status = "pending" /\ Load(h, "reporting", Nothing)
ReportUpdate(h) ==
  /\ pc[h] = "reporting"
  /\ task' = [task EXCEPT !.status = "in_progress"]
  /\ Return(h)

\* requestTimeAdjust, by the assignee.
AskTime(h, d) ==
  /\ task.assignee # None
  /\ task.status # "done"
  /\ task.adjust # "pending"
  /\ Load(h, "asking", [Nothing EXCEPT !.proposed = d])
AskTimeUpdate(h) ==
  /\ pc[h] = "asking"
  /\ task' = [task EXCEPT !.adjust = "pending", !.proposed = local[h].proposed]
  /\ Return(h)

\* respondTimeAdjust, by a manager.  The date is the one that was read.
AnswerTime(h, answer) ==
  /\ task.adjust = "pending"
  /\ Load(h, "answering", [Nothing EXCEPT !.adjust = answer, !.proposed = task.proposed])
AnswerTimeUpdate(h) ==
  LET read == local[h] IN
  /\ pc[h] = "answering"
  /\ task' = [task EXCEPT !.adjust = read.adjust,
                          !.due = IF read.adjust = "approved" /\ read.proposed # None
                                    THEN read.proposed ELSE @]
  /\ Return(h)

\* requestDeletion.
RequestDeletion(h, side) ==
  /\ task.asked = "none"
  /\ side = "assignee" => task.assignee # None
  /\ Load(h, "requesting", [Nothing EXCEPT !.asked = side])
RequestDeletionUpdate(h) ==
  /\ pc[h] = "requesting"
  /\ task' = [task EXCEPT !.asked = local[h].asked]
  /\ Return(h)

\* deleteTask by a manager; approveDeletion by the other side: the assignee, who
\* need not be the one there was when the manager asked, or a manager.
Delete(h) == Load(h, "deleting", Nothing)
ApproveDeletion(h) ==
  /\ \/ task.asked = "manager" /\ task.assignee # None
     \/ task.asked = "assignee"
  /\ Load(h, "deleting", Nothing)
DeleteNow(h) ==
  /\ pc[h] = "deleting"
  /\ task' = [task EXCEPT !.deleted = TRUE]
  /\ Return(h)

-----------------------------------------------------------------------------
HandlerStep(h) ==
  \/ Update(h) \/ UpdateSave(h) \/ Report(h) \/ ReportUpdate(h)
  \/ (\E d \in Deadlines : AskTime(h, d)) \/ AskTimeUpdate(h)
  \/ (\E answer \in {"approved", "rejected"} : AnswerTime(h, answer)) \/ AnswerTimeUpdate(h)
  \/ (\E side \in {"manager", "assignee"} : RequestDeletion(h, side)) \/ RequestDeletionUpdate(h)
  \/ Delete(h) \/ ApproveDeletion(h) \/ DeleteNow(h)

Next == \E h \in Handlers :
  /\ HandlerStep(h)
  /\ Overlap(h)

Spec == Init /\ [][Next]_vars

-----------------------------------------------------------------------------
TypeOK ==
  /\ task \in Rows
  /\ pc \in [Handlers -> Steps]
  /\ local \in [Handlers -> Rows]
  /\ overlapped \in BOOLEAN

\* As long as handlers do not overlap: a deleted task stays deleted and a request
\* to delete it stands, whatever is edited; a report takes up no task that was
\* begun or ended; and granting more time moves the deadline to what was asked.
Undone ==
  \/ task.deleted /\ ~task'.deleted
  \/ task.asked # "none" /\ task'.asked # task.asked
  \/ \E h \in Handlers : pc[h] = "reporting" /\ pc'[h] = "idle" /\ task.status # "pending"
  \/ task.adjust = "pending" /\ task'.adjust = "approved" /\ task'.due # task.proposed
TaskKept == ~overlapped' => ~Undone
=============================================================================
