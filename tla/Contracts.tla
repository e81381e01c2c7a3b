------------------------------ MODULE Contracts ------------------------------
(***************************************************************************)
(* A contract of employment (contracts.service.ts): registered, edited,    *)
(* terminated, removed, and expired by whoever lists the contracts after   *)
(* its last day.  OCR pays credits, waits for OpenAI, then reads and saves *)
(* the contract; the credits are in Credits.                               *)
(***************************************************************************)
EXTENDS Awaits

VARIABLES
  contract, \* the row of contracts
  torn      \* the row changed between the SELECT and the UPDATE of a save (history)

vars == <<contract, pc, local, overlapped, torn>>

\* over: end_date is past.
Statuses == {"none", "active", "expired", "terminated"}
Rows == [status : Statuses, terminatedAt : BOOLEAN, over : BOOLEAN, ocr : BOOLEAN, deleted : BOOLEAN]
NoRow == [status |-> "none", terminatedAt |-> FALSE, over |-> FALSE, ocr |-> FALSE, deleted |-> FALSE]
Seen == contract.status # "none" /\ ~contract.deleted

Nothing == Entity(NoRow, {})

Steps == {"idle", "saving", "updating", "removing", "reading"}

Init ==
  /\ contract = NoRow
  /\ torn = FALSE
  /\ AllIdle(Nothing)

Return(h) == Goto(h, "idle") /\ Hold(h, Nothing)

\* Contracts that are over from the first day can be registered too.
Create(h) ==
  /\ pc[h] = "idle" /\ contract = NoRow
  /\ \E over \in BOOLEAN : contract' = [NoRow EXCEPT !.status = "active", !.over = over]
  /\ UNCHANGED <<pc, local>>

\* contractRepo.save of the row as it was read, with what was set.
Load(h, row, stamped) ==
  /\ pc[h] = "idle" /\ Seen
  /\ Goto(h, "saving") /\ Hold(h, Entity(row, stamped))
  /\ UNCHANGED contract
SaveSelect(h) == Compare(h, contract) /\ UNCHANGED contract
Save(h) ==
  /\ pc[h] = "updating"
  /\ contract' = Merged(contract, local[h].row, local[h].cols)
  /\ Return(h)

\* Mutant: a terminated contract is edited, and active again.
UpdateAny(h) == \E over \in BOOLEAN : Load(h, [contract EXCEPT !.status = "active", !.over = over], {})
\* The status stays, also when the new end_date is in the future again.
Update(h) ==
  /\ contract.status # "terminated"
  /\ \E over \in BOOLEAN : Load(h, [contract EXCEPT !.over = over], {})
Terminate(h) ==
  /\ contract.status # "terminated"
  /\ Load(h, [contract EXCEPT !.status = "terminated", !.terminatedAt = TRUE], {"terminatedAt"})

Remove(h) ==
  /\ pc[h] = "idle" /\ Seen
  /\ Goto(h, "removing") /\ UNCHANGED <<contract, local>>
SoftDelete(h) ==
  /\ pc[h] = "removing"
  /\ contract' = [contract EXCEPT !.deleted = TRUE]
  /\ Return(h)

\* ocrImage: whatever becomes of the contract while OpenAI works.
Ocr(h) ==
  /\ pc[h] = "idle"
  /\ Goto(h, "reading") /\ UNCHANGED <<contract, local>>
OcrFind(h) ==
  /\ pc[h] = "reading"
  /\ IF Seen THEN Goto(h, "saving") /\ Hold(h, Entity([contract EXCEPT !.ocr = TRUE], {}))
     ELSE Return(h)
  /\ UNCHANGED contract

\* findAll, before it reads: one UPDATE.
FindAll(h) ==
  /\ pc[h] = "idle"
  /\ contract.status = "active" /\ contract.over
  /\ contract' = [contract EXCEPT !.status = "expired"]
  /\ UNCHANGED <<pc, local>>

\* The day after end_date.
DayPasses ==
  /\ contract.status # "none" /\ ~contract.over
  /\ contract' = [contract EXCEPT !.over = TRUE]
  /\ UNCHANGED <<pc, local, overlapped, torn>>

HandlerStep(h) ==
  \/ Create(h) \/ Update(h) \/ Terminate(h) \/ SaveSelect(h) \/ Save(h)
  \/ Remove(h) \/ SoftDelete(h) \/ Ocr(h) \/ OcrFind(h) \/ FindAll(h)

Tear(h) ==
  torn' = (torn \/ (contract' # contract /\ \E g \in Handlers \ {h} : pc[g] = "updating"))

Next == (\E h \in Handlers : HandlerStep(h) /\ Overlap(h) /\ Tear(h)) \/ DayPasses

Spec == Init /\ [][Next]_vars

-----------------------------------------------------------------------------
TypeOK ==
  /\ contract \in Rows
  /\ pc \in [Handlers -> Steps]
  /\ local \in [Handlers -> [row : Rows, cols : SUBSET DOMAIN NoRow]]
  /\ overlapped \in BOOLEAN /\ torn \in BOOLEAN

\* However handlers interleave, unless an UPDATE fell between the two statements of
\* another save: a contract is terminated exactly when it has the date of it.
TerminatedIsDated == ~torn => (contract.status = "terminated" <=> contract.terminatedAt)

\* As long as handlers do not overlap: a terminated contract stays so, with at
\* most the text of a scan added; an expired one is not active again; and a
\* removed one stays removed.
ContractKept == ~overlapped' =>
  /\ contract.status = "terminated" =>
       /\ contract'.status = "terminated"
       /\ contract.ocr => contract'.ocr
  /\ contract.status = "expired" => contract'.status \in {"expired", "terminated"}
  /\ contract.deleted => contract'.deleted
=============================================================================
