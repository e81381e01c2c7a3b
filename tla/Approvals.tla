----------------------------- MODULE Approvals -----------------------------
(***************************************************************************)
(* An approval document (approvals.service.ts): drafted with a line of     *)
(* approvers and submitted, or put up at once by requestPermissionChange   *)
(* or requestWorkScheduleChange (users.service.ts); approved step by step  *)
(* or rejected, cancelled, removed.  The final approval seals it and       *)
(* applies the permissions or the work schedule it asks for; the document  *)
(* here is of such a type.                                                 *)
(* Documents share no rows, so one is modelled.                            *)
(*                                                                         *)
(* A handler loads the document with its steps and saves both: the steps   *)
(* cascade (approval-document.entity.ts), so that a stale save writes the  *)
(* steps as they were read.  The approver of a step is fixed, and the      *)
(* approver acting is represented by the step acted on.                    *)
(***************************************************************************)
EXTENDS Naturals, FiniteSets, Awaits

CONSTANTS
  Rows,     \* approval_steps.id
  LastStep  \* bound on the step numbers of a line

ApprovalsAssumption == LastStep \in Nat \ {0} /\ None \notin Rows

VARIABLES
  doc,        \* the row of approval_documents
  line,       \* rows of approval_steps
  answered,   \* the steps whose approver has approved or rejected (history)
  applied,    \* how often the change was applied, up to 2 (history)
  draftRaced  \* handlers overlapped while one was drafting or submitting it (history)

vars == <<doc, line, pc, local, answered, applied, overlapped, draftRaced>>

StepRows == [step : 0 .. LastStep, status : {"pending", "approved", "rejected"}, hashed : BOOLEAN]
NoStep == [step |-> 0, status |-> "pending", hashed |-> FALSE]
Present(rows) == {r \in Rows : rows[r].step # 0}
NoLine == [r \in Rows |-> NoStep]

Statuses == {"none", "draft", "in_progress", "approved", "rejected", "cancelled"}
Documents == [status : Statuses, currentStep : 0 .. LastStep, deleted : BOOLEAN,
              sealed : BOOLEAN]
NoDocument == [status |-> "none", currentStep |-> 0, deleted |-> FALSE, sealed |-> FALSE]

NoLocal == [doc |-> NoDocument, line |-> NoLine, row |-> None]

Drafting == {"creating", "requesting", "updating", "replacing", "inserting", "submitting"}
Steps == Drafting \cup {"idle", "approving", "advancing", "sealing", "hashing",
                       "stamping", "applying", "rejecting", "closing", "cancelling", "removing"}

Init ==
  /\ doc = NoDocument
  /\ line = NoLine
  /\ AllIdle(NoLocal)
  /\ answered = {}
  /\ applied = 0
  /\ draftRaced = FALSE

Return(h) == Goto(h, "idle") /\ Hold(h, NoLocal)
Unheld == UNCHANGED <<answered, applied>>
ReadOnly == UNCHANGED <<doc, line>> /\ Unheld

\* loadDoc finds a document that is not soft-deleted; then the handler suspends.
Found(h, step) ==
  /\ pc[h] = "idle"
  /\ doc.status # "none" /\ ~doc.deleted
  /\ Goto(h, step)
  /\ ReadOnly
Find(h, step) == Found(h, step) /\ Hold(h, [NoLocal EXCEPT !.doc = doc, !.line = line])

\* docRepo.save: the document and, with it, every step as it was read; a step
\* deleted meanwhile is inserted again.  A step inserted meanwhile would lose
\* its document_id, which is NOT NULL: the save throws and nothing is written.
\* Its SELECT and its UPDATEs are one step: what is claimed of overlapping handlers
\* (NobodySkipped) rests on what was answered, which no save takes back, and a column
\* of one save with one of another says no more than either save did.
Saves(h) == Present(line) \subseteq Present(local[h].line)
SaveDocument(h, entity, next) ==
  IF Saves(h)
    THEN /\ doc' = entity
         /\ line' = local[h].line
         /\ IF next = "idle" THEN Return(h) ELSE Goto(h, next) /\ UNCHANGED local
    ELSE Return(h) /\ UNCHANGED <<doc, line>>

-----------------------------------------------------------------------------
(***************************************************************************)
(* The author.                                                             *)
(***************************************************************************)
\* The ids of inserted steps are fresh.
Fresh == {r \in Rows \ answered : line[r] = NoStep /\ \A h \in Handlers : local[h].line[r] = NoStep}
Lines == {rows \in [Rows -> [step : 0 .. LastStep, status : {"pending"}, hashed : {FALSE}]] :
            Present(rows) \subseteq Fresh}

\* The step numbers are the client's; nothing says that they start at 1.
Create(h) ==
  /\ pc[h] = "idle"
  /\ doc.status = "none"
  /\ doc' = [NoDocument EXCEPT !.status = "draft"]
  /\ Goto(h, "creating")
  /\ UNCHANGED <<line, local>> /\ Unheld

InsertSteps(h) ==
  /\ \E rows \in Lines : line' = [r \in Rows |-> IF rows[r] = NoStep THEN line[r] ELSE rows[r]]
  /\ Return(h)
  /\ UNCHANGED doc /\ Unheld

CreateSteps(h) == pc[h] = "creating" /\ InsertSteps(h) /\ line' # line

\* requestPermissionChange: in progress from the first statement on; the steps, in a
\* second one, count from 1.
RequestChange(h) ==
  /\ pc[h] = "idle"
  /\ doc.status = "none"
  /\ doc' = [NoDocument EXCEPT !.status = "in_progress", !.currentStep = 1]
  /\ Goto(h, "requesting")
  /\ UNCHANGED <<line, local>> /\ Unheld
RequestSteps(h) ==
  /\ pc[h] = "requesting"
  /\ InsertSteps(h)
  /\ LET added == Present(line') \ Present(line) IN
       {line'[r].step : r \in added} = 1 .. Cardinality(added)

Update(h) == doc.status = "draft" /\ Find(h, "updating")

\* With approvers in the request the line is replaced, possibly by none.
UpdateSave(h) ==
  /\ pc[h] = "updating"
  /\ \E next \in {"idle", "replacing"} : SaveDocument(h, local[h].doc, next)
  /\ Unheld

UpdateDelete(h) ==
  /\ pc[h] = "replacing"
  /\ line' = NoLine
  /\ Goto(h, "inserting") /\ Hold(h, NoLocal)
  /\ UNCHANGED doc /\ Unheld

UpdateInsert(h) == pc[h] = "inserting" /\ InsertSteps(h)

Submit(h) == doc.status = "draft" /\ line # NoLine /\ Find(h, "submitting")

SubmitSave(h) ==
  /\ pc[h] = "submitting"
  /\ SaveDocument(h, [local[h].doc EXCEPT !.status = "in_progress", !.currentStep = 1], "idle")
  /\ Unheld

\* The author or a manager.
\* Mutant: approved documents may be cancelled too.
CancelAny(h) == Find(h, "cancelling")
Cancel(h) == doc.status # "approved" /\ Find(h, "cancelling")

CancelSave(h) ==
  /\ pc[h] = "cancelling"
  /\ SaveDocument(h, [local[h].doc EXCEPT !.status = "cancelled"], "idle")
  /\ Unheld

\* Mutant: the seal does not protect from removal.
RemoveSealed(h) == doc.status # "in_progress" /\ Found(h, "removing") /\ UNCHANGED local
Remove(h) == doc.status # "in_progress" /\ ~doc.sealed /\ Found(h, "removing") /\ UNCHANGED local

SoftDelete(h) ==
  /\ pc[h] = "removing"
  /\ doc' = [doc EXCEPT !.deleted = TRUE]
  /\ Return(h)
  /\ UNCHANGED line /\ Unheld

-----------------------------------------------------------------------------
(***************************************************************************)
(* The approvers.                                                          *)
(***************************************************************************)
\* Mutant: an approved document is still answered.
FindStepOf(h, step) ==
  /\ pc[h] = "idle"
  /\ doc.status \in {"in_progress", "approved"} /\ ~doc.deleted
  /\ Goto(h, step)
  /\ \E r \in Present(line) :
       /\ line[r].step = doc.currentStep
       /\ Hold(h, [doc |-> doc, line |-> line, row |-> r])
  /\ ReadOnly
\* getCurrentStepForUser: the approver's step of the current number, whatever
\* its status; several approvers may share a number.
FindStep(h, step) ==
  /\ pc[h] = "idle"
  /\ doc.status = "in_progress" /\ ~doc.deleted
  /\ Goto(h, step)
  /\ \E r \in Present(line) :
       /\ line[r].step = doc.currentStep
       /\ Hold(h, [doc |-> doc, line |-> line, row |-> r])
  /\ ReadOnly

\* Mutant: an UPDATE of the row, which leaves the entity in hand as it was.
AnswerByUpdate(h, status, next) ==
  /\ line' = [line EXCEPT ![local[h].row].status = status]
  /\ answered' = answered \cup {local[h].row}
  /\ Goto(h, next)
  /\ UNCHANGED <<doc, local, applied>>
\* stepRepo.save of the step as it was read, with the answer.
Answer(h, status, next) ==
  LET r == local[h].row
      reply == [local[h].line[r] EXCEPT !.status = status] IN
  /\ line' = [line EXCEPT ![r] = reply]
  /\ Hold(h, [local[h] EXCEPT !.line[r] = reply])
  /\ Goto(h, next)
  /\ answered' = answered \cup {r}
  /\ UNCHANGED <<doc, applied>>

Approve(h) == FindStep(h, "approving")

ApproveStep(h) == pc[h] = "approving" /\ Answer(h, "approved", "advancing")

\* The pending steps after the one just approved, in the copy in hand.
Later(h) ==
  {r \in Rows : local[h].line[r].step > local[h].line[local[h].row].step
                /\ local[h].line[r].status = "pending"}

\* Mutant: the order in which the steps were loaded is not sorted.
AnyOfLater(h) == {local[h].line[r].step : r \in Later(h)}
NextSteps(h) == {n \in {local[h].line[r].step : r \in Later(h)} :
                   \A r \in Later(h) : n <= local[h].line[r].step}

Advance(h) ==
  /\ pc[h] = "advancing"
  /\ \/ \E n \in NextSteps(h) : SaveDocument(h, [local[h].doc EXCEPT !.currentStep = n], "idle")
     \/ NextSteps(h) = {} /\ SaveDocument(h, [local[h].doc EXCEPT !.status = "approved"], "sealing")
  /\ Unheld

\* sealDocument reads the document again, stores the hash of every step, then
\* the seal.  An error at any point is swallowed.
SealRead(h) ==
  /\ pc[h] = "sealing"
  /\ IF doc.deleted THEN Goto(h, "applying") /\ Hold(h, NoLocal)
                    ELSE Goto(h, "hashing") /\ Hold(h, [NoLocal EXCEPT !.line = line])
  /\ ReadOnly

SealSteps(h) ==
  /\ pc[h] = "hashing"
  /\ line' = [r \in Rows |->
       IF r \in Present(line) \cap Present(local[h].line) THEN [line[r] EXCEPT !.hashed = TRUE]
                                                          ELSE line[r]]
  /\ Goto(h, "stamping")
  /\ UNCHANGED <<doc, local>> /\ Unheld

SealDocument(h) ==
  /\ pc[h] = "stamping"
  /\ doc' = [doc EXCEPT !.sealed = TRUE]
  /\ Goto(h, "applying") /\ Hold(h, NoLocal)
  /\ UNCHANGED line /\ Unheld

SealFails(h) ==
  /\ pc[h] \in {"sealing", "hashing", "stamping"}
  /\ Goto(h, "applying") /\ Hold(h, NoLocal)
  /\ ReadOnly

\* applyPermissionChange or applyWorkScheduleChange; an error is swallowed.
Apply(h) ==
  /\ pc[h] = "applying"
  /\ applied' = IF applied < 2 THEN applied + 1 ELSE applied
  /\ Return(h)
  /\ UNCHANGED <<doc, line, answered>>

Reject(h) == FindStep(h, "rejecting")

RejectStep(h) == pc[h] = "rejecting" /\ Answer(h, "rejected", "closing")

RejectSave(h) ==
  /\ pc[h] = "closing"
  /\ SaveDocument(h, [local[h].doc EXCEPT !.status = "rejected"], "idle")
  /\ Unheld

-----------------------------------------------------------------------------
HandlerStep(h) ==
  \/ Create(h) \/ CreateSteps(h) \/ RequestChange(h) \/ RequestSteps(h)
  \/ Update(h) \/ UpdateSave(h) \/ UpdateDelete(h) \/ UpdateInsert(h)
  \/ Submit(h) \/ SubmitSave(h) \/ Cancel(h) \/ CancelSave(h) \/ Remove(h) \/ SoftDelete(h)
  \/ Approve(h) \/ ApproveStep(h) \/ Advance(h)
  \/ SealRead(h) \/ SealSteps(h) \/ SealDocument(h) \/ SealFails(h) \/ Apply(h)
  \/ Reject(h) \/ RejectStep(h) \/ RejectSave(h)

\* The process dies, or a statement fails, between two steps.
Crash(h) == InFlight(h) /\ Return(h) /\ ReadOnly

Next == \E h \in Handlers :
  /\ HandlerStep(h) \/ Crash(h)
  /\ Overlap(h)
  /\ draftRaced' = (draftRaced \/ \E g \in Handlers \ {h} :
                      InFlight(g) /\ {pc[g], pc[h], pc'[h]} \cap Drafting # {})

Spec == Init /\ [][Next]_vars

-----------------------------------------------------------------------------
\* Types.
TypeOK ==
  /\ doc \in Documents
  /\ line \in [Rows -> StepRows]
  /\ pc \in [Handlers -> Steps]
  /\ local \in [Handlers -> [doc : Documents, line : [Rows -> StepRows], row : Rows \cup {None}]]
  /\ answered \subseteq Rows
  /\ applied \in 0 .. 2
  /\ overlapped \in BOOLEAN /\ draftRaced \in BOOLEAN

\* Multi-step approval, 1 -> 2 -> ... -> final: whatever else is in flight, a
\* document that is approved, or whose change was applied, has been answered by
\* an approver of every step number of its line, and one at step n by one of
\* every number before n.  Answers, cancellations and removals may overlap and
\* come twice, and handlers may die between their saves; only the author's
\* drafting and submitting must not race.
NobodySkipped ==
  ~draftRaced =>
    \A n \in {line[r].step : r \in Present(line)} :
      (\/ doc.status = "approved" \/ applied > 0
       \/ doc.status = "in_progress" /\ n < doc.currentStep)
        => \E r \in answered : line[r].step = n

\* As long as handlers do not overlap, those answers are approvals, and none of
\* them is lost by an approver whose first attempt died half-way.
ApprovedByAll ==
  ~overlapped /\ doc.status = "approved" =>
    \A n \in {line[r].step : r \in Present(line)} :
      \E r \in Rows : line[r].step = n /\ line[r].status = "approved"

\* "Sealed at the final approval; no change and no removal afterwards": as
\* long as handlers do not overlap, also when sealing or the process stopped
\* half-way before, a sealed document is approved, present, and its steps are
\* those that the seal was computed from.
SealKept ==
  ~overlapped' /\ doc.sealed =>
    doc.status = "approved" /\ ~doc'.deleted
    /\ (\A r \in Present(line) : line[r].hashed) /\ UNCHANGED <<doc, line>>

\* As long as handlers do not overlap, the change a document asks for is
\* applied at most once, only while it is approved, and after the attempt to
\* seal it.
AppliedOnce == ~overlapped /\ applied > 0 => applied = 1 /\ doc.status = "approved"

\* As long as handlers do not overlap, an approval is final, a rejection can
\* only be cancelled, and a submitted document, or one put up at once, is never a
\* draft again.
DecisionKept ==
  ~overlapped' /\ doc'.status # doc.status =>
    <<doc.status, doc'.status>> \in
      {<<"none", "draft">>, <<"none", "in_progress">>, <<"draft", "in_progress">>, <<"draft", "cancelled">>,
       <<"in_progress", "approved">>, <<"in_progress", "rejected">>,
       <<"in_progress", "cancelled">>, <<"rejected", "cancelled">>}
=============================================================================
